------------------------------ MODULE PcapHelper ------------------------------
(***************************************************************************)
(* PcapHelper of src/daemon/face/pcap-helper.cpp over its lifetime, and who *)
(* owns what it opens: the pcap_t handle (m_pcap), libpcap's socket, and   *)
(* the ::dup copies getFd hands the caller (EthernetTransport, not in the  *)
(* repository: any calls on a live helper).  A throw (NDN_THROW) leaves    *)
(* the state the lines before it made.  The read, filter and statistics    *)
(* calls own nothing and are left out.                                      *)
(***************************************************************************)
EXTENDS Naturals, Sequences

CONSTANTS
  MaxDups            \* bound on getFd calls

\* the pcap_t handle, libpcap's socket, and the i-th ::dup of the socket
Handle == <<"handle", 0>>
Sock == <<"sock", 0>>
Dup(i) == <<"dup", i>>
Dups == 1..MaxDups
Resources == {Handle, Sock} \cup {Dup(i) : i \in Dups}

VARIABLES
  obj,       \* the PcapHelper object: "unborn", "alive", "gone" or "failed" (constructor threw)
  mPcap,     \* m_pcap is non-null
  active,    \* pcap_activate succeeded on the handle
  opened,    \* resources ever acquired
  released,  \* how often each resource was released (pcap_close, ::close)
  handed,    \* the descriptors getFd returned, in order
  closedIdx  \* indices of handed the caller has closed

pcapVars == <<obj, mPcap, active, opened, released, handed, closedIdx>>

IsOpen(r) == r \in opened /\ released[r] = 0

PcapTypeOK ==
  /\ obj \in {"unborn", "alive", "gone", "failed"}
  /\ mPcap \in BOOLEAN /\ active \in BOOLEAN
  /\ opened \subseteq Resources
  /\ released \in [Resources -> 0..2]
  /\ handed \in Seq(Resources) /\ Len(handed) <= MaxDups
  /\ closedIdx \subseteq 1..Len(handed)

PcapInit ==
  /\ obj = "unborn" /\ mPcap = FALSE /\ active = FALSE
  /\ opened = {} /\ released = [r \in Resources |-> 0]
  /\ handed = <<>> /\ closedIdx = {}

Release(r) == released' = [released EXCEPT ![r] = @ + 1]

\* PcapHelper::PcapHelper: pcap_create, then pcap_set_immediate_mode, either
\* of which may throw; a throw after pcap_create leaves the handle to no one
Construct ==
  /\ obj = "unborn"
  /\ \/ obj' = "failed" /\ UNCHANGED <<mPcap, opened>>
     \/ /\ opened' = {Handle}
        /\ \/ obj' = "alive" /\ mPcap' = TRUE
           \/ obj' = "failed" /\ UNCHANGED mPcap
  /\ UNCHANGED <<active, released, handed, closedIdx>>

\* PcapHelper::activate: pcap_activate opens the socket (a second call fails
\* with PCAP_ERROR_ACTIVATED); pcap_set_datalink and pcap_setdirection may
\* throw after it, leaving the handle activated all the same
Activate ==
  /\ obj = "alive" /\ mPcap
  /\ \/ ~active /\ active' = TRUE /\ opened' = opened \cup {Sock}
     \/ UNCHANGED <<active, opened>>
  /\ UNCHANGED <<obj, mPcap, released, handed, closedIdx>>

\* Mutant: getFd hands out libpcap's own descriptor.
GetFdNoDup ==
  /\ obj = "alive" /\ mPcap /\ active /\ Len(handed) < MaxDups
  /\ handed' = Append(handed, Sock)
  /\ UNCHANGED <<obj, mPcap, active, opened, released, closedIdx>>

\* PcapHelper::getFd: pcap_get_selectable_fd (-1 before activation: a throw
\* and no change), the socket buffers doubled, and a ::dup of the socket
GetFd ==
  /\ obj = "alive" /\ mPcap /\ active /\ Len(handed) < MaxDups
  /\ LET d == Len(handed) + 1
     IN handed' = Append(handed, Dup(d)) /\ opened' = opened \cup {Dup(d)}
  /\ UNCHANGED <<obj, mPcap, active, released, closedIdx>>

\* the caller's stream descriptor closes, once, the descriptor getFd gave it
CallerClose(i) ==
  /\ i \in 1..Len(handed) \ closedIdx
  /\ Release(handed[i]) /\ closedIdx' = closedIdx \cup {i}
  /\ UNCHANGED <<obj, mPcap, active, opened, handed>>

\* pcap_close: the socket (if activated) and the handle are released
PcapClose ==
  released' = [r \in Resources |->
                 IF r = Handle \/ (r = Sock /\ active) THEN released[r] + 1
                 ELSE released[r]]

\* PcapHelper::close body: pcap_close and m_pcap reset, only if m_pcap is set
CloseHandle ==
  IF mPcap THEN PcapClose /\ mPcap' = FALSE ELSE UNCHANGED <<released, mPcap>>

\* PcapHelper::close, called by the owner
Close ==
  /\ obj = "alive" /\ CloseHandle
  /\ UNCHANGED <<obj, active, opened, handed, closedIdx>>

\* Mutant: a destructor that does not close.
DestroyNoClose ==
  /\ obj = "alive" /\ obj' = "gone"
  /\ UNCHANGED <<mPcap, active, opened, released, handed, closedIdx>>

\* PcapHelper::~PcapHelper: close(), then the object is gone
Destroy ==
  /\ obj = "alive" /\ CloseHandle /\ obj' = "gone"
  /\ UNCHANGED <<active, opened, handed, closedIdx>>

PcapNext ==
  \/ Construct \/ Activate \/ GetFd \/ Close \/ Destroy
  \/ \E i \in Dups : CallerClose(i)

(***************************************************************************)
(* Properties                                                              *)
(***************************************************************************)

\* Every resource is released at most once, whatever the order of close(),
\* the destructor and the caller closing its descriptors: close() resets
\* m_pcap so the destructor does not pcap_close again, and getFd's ::dup
\* keeps pcap_close and the caller from closing the same descriptor.
ReleasedOnce == \A r \in Resources : released[r] <= 1

\* Once the helper is destroyed, the handle and libpcap's socket are
\* released, whether or not the owner called close() first and whatever
\* part of activate() threw: the destructor closes what close() left open.
\* (A constructor that throws after pcap_create leaks the handle; no
\* destructor runs then, and this property does not speak of it.)
DestroyReleases == obj = "gone" => ~IsOpen(Handle) /\ ~IsOpen(Sock)

==============================================================================
