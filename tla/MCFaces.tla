-------------------------------- MODULE MCFaces --------------------------------
(***************************************************************************)
(* The two face transports of src/daemon/face/ and an input thread side by *)
(* side: the in-process pair of internal-transport.cpp, the libpcap helper *)
(* of pcap-helper.cpp and the signal-driven io_service of                  *)
(* mw-nfd/input-thread.cpp.  They share no modelled state (the helper      *)
(* belongs to an Ethernet face, the internal pair to the management face,  *)
(* the input thread to a physical port), so the composition is the         *)
(* interleaving of the three; each keeps its own properties.               *)
(***************************************************************************)
EXTENDS InternalTransport, PcapHelper, InputThread

allVars == <<vars, pcapVars, itVars>>

FacesInit == Init /\ PcapInit /\ InputThreadInit

FacesNext ==
  \/ Next /\ UNCHANGED <<pcapVars, itVars>>
  \/ PcapNext /\ UNCHANGED <<vars, itVars>>
  \/ InputThreadNext /\ UNCHANGED <<vars, pcapVars>>

\* the main io_service runs every task posted to it: the internal pair's
\* deliveries
FacesSpec ==
  FacesInit /\ [][FacesNext]_allVars
  /\ WF_allVars((FwRunTask \/ ClientRunTask) /\ UNCHANGED <<pcapVars, itVars>>)

FacesTypeOK == TypeOK /\ PcapTypeOK /\ InputThreadTypeOK
================================================================================
