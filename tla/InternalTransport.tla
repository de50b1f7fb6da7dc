--------------------------- MODULE InternalTransport ---------------------------
(***************************************************************************)
(* The in-process face pair of src/daemon/face/internal-transport.cpp: the *)
(* forwarder side (InternalForwarderTransport) and the management client   *)
(* side (InternalClientTransport), linked by raw pointers m_peer and       *)
(* m_forwarder.  A send is a direct call of the peer's receivePacket, which *)
(* posts a task capturing `this` on the global io_service; the task hands  *)
(* the packet up later.  Closing the forwarder side raises afterStateChange,*)
(* on which the client disconnects; destroying the client clears the       *)
(* forwarder's m_peer.                                                      *)
(*                                                                         *)
(* The io_service queue is `loop`, run one task at a time in FIFO order by *)
(* the main thread.  Packets are numbered by the order they are sent.      *)
(* The Transport base class (transport.cpp, not in the repository) drops a *)
(* send unless the transport is UP (spec.md 4.10).                          *)
(***************************************************************************)
EXTENDS Naturals, Sequences, SequencesExt

CONSTANTS MaxSends  \* bound on packets sent, both directions together

VARIABLES
  fwState,      \* the forwarder transport's TransportState
  fwPeer,       \* InternalForwarderTransport::m_peer points to the client
  clientFwd,    \* InternalClientTransport::m_forwarder points to the forwarder
  stateConn,    \* m_fwTransportStateConn is connected
  clientAlive,  \* the client transport object exists
  loop,         \* tasks posted on the global io_service, oldest first
  toFw,         \* packets the client sent while it had a forwarder
  fwReceived,   \* packets handed to the forwarder face by receive()
  toClient,     \* packets the forwarder posted to the client
  clientReceived, \* packets handed to the client's receive callback
  ub,           \* undefined behaviour met
  nSent

vars == <<fwState, fwPeer, clientFwd, stateConn, clientAlive, loop, toFw,
          fwReceived, toClient, clientReceived, ub, nSent>>

Side == {"fw", "client"}
Task == [to : Side, pkt : 1..MaxSends]

TypeOK ==
  /\ fwState \in {"UP", "CLOSED"}
  /\ {fwPeer, clientFwd, stateConn, clientAlive} \subseteq BOOLEAN
  /\ stateConn => clientAlive /\ clientFwd
  /\ loop \in Seq(Task)
  /\ {toFw, fwReceived, toClient, clientReceived} \subseteq Seq(1..MaxSends)
  /\ ub \subseteq {"useAfterFree"}
  /\ nSent \in 0..MaxSends

\* InternalClientTransport::connectToForwarder(forwarder) at face creation:
\* peers set both ways and the state-change connection made
Init ==
  /\ fwState = "UP"
  /\ fwPeer = TRUE /\ clientFwd = TRUE /\ stateConn = TRUE
  /\ clientAlive = TRUE
  /\ loop = <<>> /\ toFw = <<>> /\ fwReceived = <<>>
  /\ toClient = <<>> /\ clientReceived = <<>>
  /\ ub = {} /\ nSent = 0

\* InternalClientTransport::send: m_forwarder->receivePacket posts a task
ClientSend ==
  /\ clientAlive /\ nSent < MaxSends
  /\ nSent' = nSent + 1
  /\ IF clientFwd
       THEN loop' = Append(loop, [to |-> "fw", pkt |-> nSent']) /\ toFw' = Append(toFw, nSent')
       ELSE UNCHANGED <<loop, toFw>>
  /\ UNCHANGED <<fwState, fwPeer, clientFwd, stateConn, clientAlive, fwReceived,
                 toClient, clientReceived, ub>>

\* InternalForwarderTransport::doSend: m_peer->receivePacket posts a task
\* capturing the peer; a peer pointer to a destroyed client is a use after
\* free at once
FwSend ==
  /\ fwState = "UP" /\ nSent < MaxSends
  /\ nSent' = nSent + 1
  /\ IF fwPeer
       THEN /\ loop' = Append(loop, [to |-> "client", pkt |-> nSent'])
            /\ toClient' = Append(toClient, nSent')
            /\ ub' = IF clientAlive THEN ub ELSE ub \cup {"useAfterFree"}
       ELSE UNCHANGED <<loop, toClient, ub>>
  /\ UNCHANGED <<fwState, fwPeer, clientFwd, stateConn, clientAlive, toFw,
                 fwReceived, clientReceived>>

\* Mutant: disconnecting leaves the forwarder's m_peer set.
DisconnectKeepPeer == UNCHANGED fwPeer

\* connectToForwarder(nullptr), lines "disconnect from the old forwarder"
Disconnect ==
  IF clientFwd THEN fwPeer' = FALSE ELSE UNCHANGED fwPeer

\* InternalForwarderTransport::doClose: setState(CLOSED) raises
\* afterStateChange, whose handler runs connectToForwarder(nullptr)
FwClose ==
  /\ fwState = "UP"
  /\ fwState' = "CLOSED"
  /\ IF stateConn
       THEN Disconnect /\ clientFwd' = FALSE /\ stateConn' = FALSE
       ELSE UNCHANGED <<fwPeer, clientFwd, stateConn>>
  /\ UNCHANGED <<clientAlive, loop, toFw, fwReceived, toClient, clientReceived, ub, nSent>>

\* Mutant: the state-change connection outlives the client (a plain
\* signal::Connection in place of the scoped one).
ClientDestroyKeepConn ==
  /\ clientAlive
  /\ clientAlive' = FALSE
  /\ fwPeer' = IF clientFwd THEN FALSE ELSE fwPeer
  /\ UNCHANGED <<fwState, clientFwd, stateConn, loop, toFw, fwReceived, toClient,
                 clientReceived, ub, nSent>>

\* ~InternalClientTransport: clears m_peer; the scoped state-change
\* connection is disconnected with the object
ClientDestroy ==
  /\ clientAlive
  /\ clientAlive' = FALSE /\ stateConn' = FALSE
  /\ fwPeer' = IF clientFwd THEN FALSE ELSE fwPeer
  /\ UNCHANGED <<fwState, clientFwd, loop, toFw, fwReceived, toClient,
                 clientReceived, ub, nSent>>

\* Mutant: a task for a closed forwarder transport drops its packet.
FwRunTaskIfUp ==
  /\ loop # <<>> /\ Head(loop).to = "fw"
  /\ loop' = Tail(loop)
  /\ fwReceived' = IF fwState = "UP" THEN Append(fwReceived, Head(loop).pkt) ELSE fwReceived
  /\ UNCHANGED <<fwState, fwPeer, clientFwd, stateConn, clientAlive, toFw, toClient,
                 clientReceived, ub, nSent>>

\* the task InternalForwarderTransport::receivePacket posted: receive(packet)
FwRunTask ==
  /\ loop # <<>> /\ Head(loop).to = "fw"
  /\ loop' = Tail(loop)
  /\ fwReceived' = Append(fwReceived, Head(loop).pkt)
  /\ UNCHANGED <<fwState, fwPeer, clientFwd, stateConn, clientAlive, toFw, toClient,
                 clientReceived, ub, nSent>>

\* the task InternalClientTransport::receivePacket posted: m_receiveCallback
\* called through the captured `this`
ClientRunTask ==
  /\ loop # <<>> /\ Head(loop).to = "client"
  /\ loop' = Tail(loop)
  /\ IF clientAlive
       THEN clientReceived' = Append(clientReceived, Head(loop).pkt) /\ UNCHANGED ub
       ELSE ub' = ub \cup {"useAfterFree"} /\ UNCHANGED clientReceived
  /\ UNCHANGED <<fwState, fwPeer, clientFwd, stateConn, clientAlive, toFw, toClient,
                 fwReceived, nSent>>

Next == ClientSend \/ FwSend \/ FwClose \/ ClientDestroy \/ FwRunTask \/ ClientRunTask

\* the io_service runs every posted handler
Spec == Init /\ [][Next]_vars /\ WF_vars(FwRunTask \/ ClientRunTask)

(***************************************************************************)
(* Properties                                                              *)
(***************************************************************************)

\* The forwarder's m_peer is set exactly when a live client's m_forwarder
\* points back at it: neither closing the forwarder transport nor
\* destroying the client leaves a one-sided (dangling) link.
PeersAgree == fwPeer <=> (clientAlive /\ clientFwd)

\* The client-to-forwarder link is a reliable FIFO channel: every packet the
\* client sends while linked is handed to the forwarder face exactly once and
\* in the order sent, also when the forwarder transport closes or the client
\* is destroyed while its tasks are queued on the io_service.
ClientToForwarder == INSTANCE FifoChannel WITH
  Msgs <- 1..MaxSends, sent <- toFw, delivered <- fwReceived
ClientLinkIsFifo == ClientToForwarder!Spec

\* No posted task runs on a destroyed transport, and no send reaches one.
NoUseAfterFree == ub = {}

==============================================================================
