--------------------------- MODULE StreamTransport ---------------------------
(***************************************************************************)
(* ndn::detail::StreamTransportImpl                                        *)
(* (src/ndn-cxx/ndn-cxx/transport/detail/stream-transport-impl.hpp): the   *)
(* client side of a Unix or TCP stream to the forwarder.                   *)
(*                                                                         *)
(* Every asynchronous operation (async_connect, the 4 s connect timer,     *)
(* async_write, async_receive) is first in flight in the OS (ops), then   *)
(* completes and its handler waits in the io_service's FIFO (ready), then *)
(* the single io thread runs it.  cancel()/close() turn the in-flight ops  *)
(* into handlers with operation_aborted; a handler already in ready keeps  *)
(* the result it completed with.  The application calls connect, close,   *)
(* send, pause and resume between handlers, and the receive callback may   *)
(* call pause (ndn::Face pauses when its last pending Interest is gone).   *)
(*                                                                         *)
(* BaseTransport::close() is taken to be close() of this impl; an async    *)
(* op on a closed socket completes at once with an error.                  *)
(***************************************************************************)
EXTENDS Naturals, Sequences, SequencesExt, FiniteSets

CONSTANTS
  MaxBuf,       \* MAX_NDN_PACKET_SIZE: size of m_inputBuffer
  PktLens,      \* lengths of the packets the forwarder streams on a connection
  MaxSends,     \* bound on send() calls
  MaxConnects,  \* bound on connect() calls
  MaxPauses,    \* bound on pause() calls, by the application or its receive callback
  NetErrors,    \* the OS may fail an operation (reset, eof, refused)
  Empty,        \* a byte of m_inputBuffer never written
  Garbage       \* an element decoded from bytes that are not a packet

ASSUME MaxBuf \in Nat \ {0} /\ PktLens \in Seq(Nat \ {0})
ASSUME MaxPauses \in Nat /\ NetErrors \in BOOLEAN

RECURSIVE SumLens(_)
SumLens(s) == IF s = <<>> THEN 0 ELSE Head(s) + SumLens(Tail(s))

StreamLen == SumLens(PktLens)
\* first stream position of packet k
PktStart(k) == 1 + SumLens(SubSeq(PktLens, 1, k - 1))
\* the packet starting at position pos, 0 if none does
PktAt(pos) == IF \E k \in DOMAIN PktLens : PktStart(k) = pos
              THEN CHOOSE k \in DOMAIN PktLens : PktStart(k) = pos ELSE 0
\* the bytes the forwarder sends on the connection of socket generation e
StreamBytes(e) == [i \in 1..StreamLen |-> [ep |-> e, pos |-> i]]

Byte == [ep : 1..MaxConnects, pos : 1..StreamLen]
Element == [ep : 1..MaxConnects, pkt : DOMAIN PktLens] \cup {Garbage}
Ops == {"connect", "timer", "write", "recv"}
Op == [kind : Ops, id : 0..MaxSends, at : 0..MaxBuf, space : 0..MaxBuf]
Handler == [kind : Ops, id : 0..MaxSends, at : 0..MaxBuf, space : 0..MaxBuf,
            ec : {"ok", "aborted", "error"}, n : 0..MaxBuf]

VARIABLES
  isConnecting,  \* m_isConnecting
  isConnected,   \* m_transport.m_isConnected
  isReceiving,   \* m_transport.m_isReceiving
  sock,          \* m_socket: "open" or "closed"
  ep,            \* generation of the socket, bumped by socket.open()
  remote,        \* bytes the forwarder has sent and the socket not yet read
  ops,           \* operations in flight in the OS
  ready,         \* completed operations whose handlers wait in the io_service
  queue,         \* m_transmissionQueue: ids of the blocks passed to send()
  bufLen,        \* m_inputBufferSize
  mem,           \* m_inputBuffer: position -> byte
  wire,          \* history: blocks written to a socket, [ep, id]
  delivered,     \* history: elements passed to m_receiveCallback
  errors,        \* history: Transport::Error thrown from a handler
  ub,            \* undefined behaviour met: "staleErase", "overrun"
  appClosed,     \* the application called close() and not connect() since
  nSent, nConnects, nPauses

vars == <<isConnecting, isConnected, isReceiving, sock, ep, remote, ops, ready,
          queue, bufLen, mem, wire, delivered, errors, ub, appClosed,
          nSent, nConnects, nPauses>>

TypeOK ==
  /\ isConnecting \in BOOLEAN /\ isConnected \in BOOLEAN /\ isReceiving \in BOOLEAN
  /\ sock \in {"open", "closed"} /\ ep \in 0..MaxConnects
  /\ remote \in Seq(Byte)
  /\ ops \in Seq(Op) /\ ready \in Seq(Handler)
  /\ queue \in Seq(1..MaxSends)
  /\ bufLen \in 0..MaxBuf
  /\ mem \in [0..MaxBuf - 1 -> Byte \cup {Empty}]
  /\ wire \in Seq([ep : 1..MaxConnects, id : 1..MaxSends])
  /\ delivered \in Seq(Element)
  /\ errors \in Seq([what : {"connect", "timeout", "write", "recv", "full", "open"},
                     afterClose : BOOLEAN, connected : BOOLEAN])
  /\ ub \subseteq {"staleErase", "overrun"} /\ appClosed \in BOOLEAN
  /\ nSent \in 0..MaxSends /\ nConnects \in 0..MaxConnects /\ nPauses \in 0..MaxPauses

Init ==
  /\ isConnecting = FALSE /\ isConnected = FALSE /\ isReceiving = FALSE
  /\ sock = "closed" /\ ep = 0 /\ remote = <<>>
  /\ ops = <<>> /\ ready = <<>> /\ queue = <<>>
  /\ bufLen = 0 /\ mem = [i \in 0..MaxBuf - 1 |-> Empty]
  /\ wire = <<>> /\ delivered = <<>> /\ errors = <<>>
  /\ ub = {} /\ appClosed = FALSE
  /\ nSent = 0 /\ nConnects = 0 /\ nPauses = 0

(***************************************************************************)
(* Operations on the op lists.                                             *)
(***************************************************************************)

\* Mutant: the receive buffer's free space computed one too large.
NewOpSpaceOffByOne(kind, id, at) == [kind |-> kind, id |-> id, at |-> at, space |-> MaxBuf - at + 1]

NewOp(kind, id, at) == [kind |-> kind, id |-> id, at |-> at, space |-> MaxBuf - at]
AsHandler(o, ec, n) == [kind |-> o.kind, id |-> o.id, at |-> o.at, space |-> o.space,
                        ec |-> ec, n |-> n]
\* the handlers of the ops of the given kinds, cancelled
Cancelled(os, kinds) ==
  [i \in 1..Len(SelectSeq(os, LAMBDA o : o.kind \in kinds)) |->
     AsHandler(SelectSeq(os, LAMBDA o : o.kind \in kinds)[i], "aborted", 0)]
Keep(os, kinds) == SelectSeq(os, LAMBDA o : o.kind \notin kinds)

SocketOps == {"connect", "write", "recv"}

\* Issue new socket ops: on a closed socket they fail at once.
\* Returns the new ops and the handlers to append.
Issue(os, rd, new, open) ==
  IF open THEN [ops |-> os \o new, ready |-> rd]
  ELSE [ops |-> os, ready |-> rd \o [i \in 1..Len(new) |-> AsHandler(new[i], "error", 0)]]

Raise(what) ==
  errors' = Append(errors, [what |-> what, afterClose |-> appClosed, connected |-> isConnected])

(***************************************************************************)
(* close(): the connect timer and the socket are cancelled and closed,     *)
(* both flags cleared and the transmission queue cleared.                  *)
(* os are the ops in flight, rd the handler queue they are appended to.   *)
(***************************************************************************)
CloseAll(os, rd) ==
  /\ isConnecting' = FALSE
  /\ ready' = rd \o Cancelled(os, Ops)
  /\ ops' = <<>>
  /\ sock' = "closed"
  /\ isConnected' = FALSE /\ isReceiving' = FALSE
  /\ queue' = <<>>

(***************************************************************************)
(* Receive-path decoding: processAllReceived over m_inputBuffer[0, len).   *)
(* A byte that does not start a packet is decoded as a garbage TLV of one  *)
(* byte; a packet header whose body is not there yet stops the loop.       *)
(***************************************************************************)
RECURSIVE ParseFrom(_, _, _)
ParseFrom(m, o, len) ==
  IF o >= len THEN [elems |-> <<>>, offset |-> o, ok |-> TRUE]
  ELSE IF m[o] = Empty \/ PktAt(m[o].pos) = 0
  THEN LET r == ParseFrom(m, o + 1, len)
       IN [elems |-> <<Garbage>> \o r.elems, offset |-> r.offset, ok |-> r.ok]
  ELSE LET b == m[o]
           k == PktAt(b.pos)
           L == PktLens[k]
       IN IF o + L > len THEN [elems |-> <<>>, offset |-> o, ok |-> FALSE]
          ELSE LET el == IF \A j \in 0..L - 1 : m[o + j] = [ep |-> b.ep, pos |-> b.pos + j]
                         THEN [ep |-> b.ep, pkt |-> k] ELSE Garbage
                   r == ParseFrom(m, o + L, len)
               IN [elems |-> <<el>> \o r.elems, offset |-> r.offset, ok |-> r.ok]

\* Mutant: the undecoded tail is not moved to the front of the buffer.
ShiftDownNoCopy(m, offset, len) == m

\* std::copy of m[offset, len) to the front of the buffer
ShiftDown(m, offset, len) ==
  [i \in DOMAIN m |-> IF i < len - offset THEN m[i + offset] ELSE m[i]]

(***************************************************************************)
(* Application calls.  ndn::Face calls connect() only while the transport *)
(* is not connected, resume() right after making sure it is connected,   *)
(* and nothing of the transport after close() but connect().               *)
(***************************************************************************)

\* connect(): arm the 4 s timer (re-arming cancels a pending wait), open the
\* socket and start async_connect.  socket.open() on an open socket throws
\* out of connect() after m_isConnecting and the timer are already set.
Connect ==
  /\ ~isConnected /\ ~isConnecting /\ nConnects < MaxConnects
  /\ nConnects' = nConnects + 1 /\ appClosed' = FALSE
  /\ isConnecting' = TRUE
  /\ LET os == Keep(ops, {"timer"}) \o <<NewOp("timer", 0, 0)>>
     IN /\ ready' = ready \o Cancelled(ops, {"timer"})
        /\ IF sock = "open"
           THEN /\ ops' = os /\ Raise("open") /\ UNCHANGED <<sock, ep, remote>>
           ELSE /\ sock' = "open" /\ ep' = ep + 1 /\ remote' = <<>>
                /\ ops' = os \o <<NewOp("connect", 0, 0)>>
                /\ UNCHANGED errors
  /\ UNCHANGED <<isConnected, isReceiving, queue, bufLen, mem, wire, delivered, ub, nSent, nPauses>>

Close ==
  /\ CloseAll(ops, ready)
  /\ appClosed' = TRUE
  /\ UNCHANGED <<ep, remote, bufLen, mem, wire, delivered, errors, ub, nSent, nConnects, nPauses>>

\* Mutant: send() writes whenever connected, even behind a pending write.
SendWritesIfConnected == isConnected

\* m_isConnected && m_transmissionQueue.size() == 1 after the emplace_back
SendWrites == isConnected /\ queue = <<>>

\* send(): queue the block; write it now if connected and nothing is queued
Send ==
  /\ nSent < MaxSends /\ ~appClosed
  /\ nSent' = nSent + 1
  /\ queue' = Append(queue, nSent + 1)
  /\ IF SendWrites
     THEN LET r == Issue(ops, ready, <<NewOp("write", nSent + 1, 0)>>, sock = "open")
          IN ops' = r.ops /\ ready' = r.ready
     ELSE UNCHANGED <<ops, ready>>
  /\ UNCHANGED <<isConnecting, isConnected, isReceiving, sock, ep, remote, bufLen, mem,
                 wire, delivered, errors, ub, appClosed, nConnects, nPauses>>

\* pause(): stop receiving by cancelling every operation on the socket
PauseEffect ==
  /\ nPauses' = nPauses + 1
  /\ isReceiving' = FALSE
  /\ ops' = Keep(ops, SocketOps)
  /\ ready' = ready \o Cancelled(ops, SocketOps)

Pause ==
  /\ nPauses < MaxPauses /\ ~isConnecting /\ isReceiving
  /\ PauseEffect
  /\ UNCHANGED <<isConnecting, isConnected, sock, ep, remote, queue, bufLen, mem, wire,
                 delivered, errors, ub, appClosed, nSent, nConnects>>

\* resume(): restart receiving into an emptied buffer
Resume ==
  /\ isConnected /\ ~appClosed
  /\ ~isConnecting /\ ~isReceiving
  /\ isReceiving' = TRUE /\ bufLen' = 0
  /\ LET r == Issue(ops, ready, <<NewOp("recv", 0, 0)>>, sock = "open")
     IN ops' = r.ops /\ ready' = r.ready
  /\ UNCHANGED <<isConnecting, isConnected, sock, ep, remote, queue, mem, wire, delivered,
                 errors, ub, appClosed, nSent, nConnects, nPauses>>

(***************************************************************************)
(* The OS completes an operation in flight; its handler is queued.         *)
(***************************************************************************)
Complete(i, ec, n) ==
  /\ ops' = RemoveAt(ops, i)
  /\ ready' = Append(ready, AsHandler(ops[i], ec, n))

OsConnect(i) ==
  /\ ops[i].kind = "connect"
  /\ Complete(i, "ok", 0)
  /\ remote' = StreamBytes(ep)
  /\ UNCHANGED <<isConnecting, isConnected, isReceiving, sock, ep, queue, bufLen, mem,
                 wire, delivered, errors, ub, appClosed, nSent, nConnects, nPauses>>

OsTimer(i) ==
  /\ ops[i].kind = "timer"
  /\ Complete(i, "ok", 0)
  /\ UNCHANGED <<isConnecting, isConnected, isReceiving, sock, ep, remote, queue, bufLen,
                 mem, wire, delivered, errors, ub, appClosed, nSent, nConnects, nPauses>>

OsWrite(i) ==
  /\ ops[i].kind = "write"
  /\ Complete(i, "ok", 0)
  /\ wire' = Append(wire, [ep |-> ep, id |-> ops[i].id])
  /\ UNCHANGED <<isConnecting, isConnected, isReceiving, sock, ep, remote, queue, bufLen,
                 mem, delivered, errors, ub, appClosed, nSent, nConnects, nPauses>>

\* async_receive completes with k bytes written at the op's buffer position
OsRecv(i, k) ==
  /\ ops[i].kind = "recv"
  /\ IF ops[i].space = 0 THEN k = 0 ELSE k \in 1..Len(remote) /\ k <= ops[i].space
  /\ Complete(i, "ok", k)
  /\ mem' = [j \in DOMAIN mem |-> IF ops[i].at <= j /\ j < ops[i].at + k
                                   THEN remote[j - ops[i].at + 1] ELSE mem[j]]
  /\ remote' = SubSeq(remote, k + 1, Len(remote))
  /\ UNCHANGED <<isConnecting, isConnected, isReceiving, sock, ep, queue, bufLen, wire,
                 delivered, errors, ub, appClosed, nSent, nConnects, nPauses>>

\* refused, reset or end of stream
OsFail(i) ==
  /\ NetErrors /\ ops[i].kind \in SocketOps
  /\ Complete(i, "error", 0)
  /\ UNCHANGED <<isConnecting, isConnected, isReceiving, sock, ep, remote, queue, bufLen,
                 mem, wire, delivered, errors, ub, appClosed, nSent, nConnects, nPauses>>
(***************************************************************************)
(* Handlers, run one at a time in completion order by the io_service.     *)
(* h is the handler at the head of ready, rd the rest of the queue.        *)
(***************************************************************************)

\* connectHandler: cancel the timer; on error close and throw; otherwise mark
\* connected and, if blocks are queued, resume() and asyncWrite()
HConnect(h, rd) ==
  LET os == Keep(ops, {"timer"})
      rd1 == rd \o Cancelled(ops, {"timer"})
  IN IF h.ec # "ok"
     THEN /\ CloseAll(os, rd1) /\ Raise("connect")
          /\ UNCHANGED <<ep, remote, bufLen, mem, wire, delivered, ub, appClosed, nSent, nConnects, nPauses>>
     ELSE /\ isConnecting' = FALSE /\ isConnected' = TRUE
          /\ IF queue = <<>>
             THEN /\ ops' = os /\ ready' = rd1 /\ UNCHANGED <<isReceiving, bufLen>>
             ELSE LET recv == IF isReceiving THEN <<>> ELSE <<NewOp("recv", 0, 0)>>
                      r == Issue(os, rd1, recv \o <<NewOp("write", Head(queue), 0)>>, sock = "open")
                  IN /\ ops' = r.ops /\ ready' = r.ready
                     /\ isReceiving' = TRUE
                     /\ bufLen' = IF isReceiving THEN bufLen ELSE 0
          /\ UNCHANGED <<sock, ep, remote, queue, mem, wire, delivered, errors, ub, appClosed,
                         nSent, nConnects, nPauses>>

\* connectTimeoutHandler: a cancelled wait returns; an expired one closes and throws
HTimer(h, rd) ==
  IF h.ec = "aborted"
  THEN /\ ready' = rd
       /\ UNCHANGED <<isConnecting, isConnected, isReceiving, sock, ep, remote, ops, queue,
                      bufLen, mem, wire, delivered, errors, ub, appClosed, nSent, nConnects, nPauses>>
  ELSE /\ CloseAll(ops, rd) /\ Raise("timeout")
       /\ UNCHANGED <<ep, remote, bufLen, mem, wire, delivered, ub, appClosed, nSent, nConnects, nPauses>>

\* Mutants of the write path: the erase forgotten, the "queue has been
\* already cleared" check forgotten, the next write not started.
EraseNothing(q, id) == q
QueueClearedNever == FALSE
WriteNextNone(q, rd) == [ops |-> ops, ready |-> rd]

\* m_transmissionQueue.erase(queueItem)
EraseWritten(q, id) == Remove(q, id)

\* !m_transport.m_isConnected: close() has cleared the queue
QueueCleared == ~isConnected

\* if the queue is not empty, asyncWrite() its front block
WriteNext(q, rd) ==
  IF q = <<>> THEN [ops |-> ops, ready |-> rd]
  ELSE Issue(ops, rd, <<NewOp("write", Head(q), 0)>>, sock = "open")

\* handleAsyncWrite: erase the written block and write the next one
HWrite(h, rd) ==
  \/ /\ h.ec = "aborted" \/ (h.ec = "ok" /\ QueueCleared)
     /\ ready' = rd
     /\ UNCHANGED <<isConnecting, isConnected, isReceiving, sock, ep, remote, ops, queue,
                    bufLen, mem, wire, delivered, errors, ub, appClosed, nSent, nConnects, nPauses>>
  \/ /\ h.ec = "error"
     /\ CloseAll(ops, rd) /\ Raise("write")
     /\ UNCHANGED <<ep, remote, bufLen, mem, wire, delivered, ub, appClosed, nSent, nConnects, nPauses>>
  \/ /\ h.ec = "ok" /\ ~QueueCleared
     /\ queue' = EraseWritten(queue, h.id)
     /\ ub' = IF h.id \in ToSet(queue) THEN ub ELSE ub \cup {"staleErase"}
     /\ LET r == WriteNext(queue', rd) IN ops' = r.ops /\ ready' = r.ready
     /\ UNCHANGED <<isConnecting, isConnected, isReceiving, sock, ep, remote, bufLen, mem,
                    wire, delivered, errors, appClosed, nSent, nConnects, nPauses>>

\* handleAsyncReceive: add the bytes read to m_inputBufferSize, decode and
\* deliver every complete element, shift the rest down, and receive again.
\* The receive callback may pause() the transport.
HRecv(h, rd) ==
  \/ /\ h.ec = "aborted"
     /\ ready' = rd
     /\ UNCHANGED <<isConnecting, isConnected, isReceiving, sock, ep, remote, ops, queue,
                    bufLen, mem, wire, delivered, errors, ub, appClosed, nSent, nConnects, nPauses>>
  \/ /\ h.ec = "error"
     /\ CloseAll(ops, rd) /\ Raise("recv")
     /\ UNCHANGED <<ep, remote, bufLen, mem, wire, delivered, ub, appClosed, nSent, nConnects, nPauses>>
  \/ /\ h.ec = "ok"
     /\ LET len == bufLen + h.n
            L == IF len > MaxBuf THEN MaxBuf ELSE len
            p == ParseFrom(mem, 0, L)
            rest == IF p.offset > 0 THEN L - p.offset ELSE L
        IN /\ delivered' = delivered \o p.elems
           /\ ub' = IF len > MaxBuf THEN ub \cup {"overrun"} ELSE ub
           /\ IF ~p.ok /\ L = MaxBuf /\ p.offset = 0
              THEN /\ CloseAll(ops, rd) /\ Raise("full")
                   /\ UNCHANGED <<bufLen, mem, nPauses>>
              ELSE /\ bufLen' = rest
                   /\ mem' = IF p.offset > 0 /\ p.offset # L
                             THEN ShiftDown(mem, p.offset, L) ELSE mem
                   /\ \E paused \in IF nPauses < MaxPauses /\ p.elems # <<>> /\ isReceiving /\ ~isConnecting
                                    THEN BOOLEAN ELSE {FALSE} :
                        LET os == IF paused THEN Keep(ops, SocketOps) ELSE ops
                            rd1 == IF paused THEN rd \o Cancelled(ops, SocketOps) ELSE rd
                            r == Issue(os, rd1, <<NewOp("recv", 0, rest)>>, sock = "open")
                        IN /\ isReceiving' = (isReceiving /\ ~paused)
                           /\ nPauses' = IF paused THEN nPauses + 1 ELSE nPauses
                           /\ ops' = r.ops /\ ready' = r.ready
                   /\ UNCHANGED <<isConnecting, isConnected, sock, queue, errors>>
     /\ UNCHANGED <<ep, remote, wire, appClosed, nSent, nConnects>>

RunHandler ==
  /\ ready # <<>>
  /\ LET h == Head(ready) IN
       CASE h.kind = "connect" -> HConnect(h, Tail(ready))
         [] h.kind = "timer"   -> HTimer(h, Tail(ready))
         [] h.kind = "write"   -> HWrite(h, Tail(ready))
         [] h.kind = "recv"    -> HRecv(h, Tail(ready))

Next ==
  \/ Connect \/ Close \/ Send \/ Pause \/ Resume
  \/ \E i \in 1..Len(ops) :
        \/ OsConnect(i) \/ OsTimer(i) \/ OsWrite(i) \/ OsFail(i)
        \/ \E k \in 0..MaxBuf : OsRecv(i, k)
  \/ RunHandler

\* The io thread runs every queued handler; the OS answers every connect,
\* fires every armed timer and completes every write (the forwarder reads).
Fairness ==
  /\ WF_vars(RunHandler)
  /\ WF_vars(\E i \in 1..Len(ops) : OsConnect(i) \/ OsTimer(i) \/ OsWrite(i))

Spec == Init /\ [][Next]_vars /\ Fairness

(***************************************************************************)
(* Properties                                                              *)
(***************************************************************************)

\* asyncWrite is only issued when no write is in flight (send() writes only
\* when the queue was empty, handleAsyncWrite only after its own write), so
\* two async_writes never interleave their bytes on the stream.
AtMostOneWrite == Len(SelectSeq(ops, LAMBDA o : o.kind = "write")) <= 1

\* Blocks reach one connection's stream in the order send() was called, and
\* none of them twice.
WireInOrder ==
  \A i, j \in 1..Len(wire) : i < j /\ wire[i].ep = wire[j].ep => wire[i].id < wire[j].id

\* The receive callback gets exactly the packets the forwarder sent on each
\* connection, whole, in order and once: never bytes decoded at a wrong
\* offset, and never a packet twice.
FramingPreserved ==
  /\ \A i \in 1..Len(delivered) : delivered[i] # Garbage
  /\ \A i \in 1..Len(delivered) :
        delivered[i].pkt = 1 + Len(SelectSeq(SubSeq(delivered, 1, i - 1),
                                             LAMBDA e : e.ep = delivered[i].ep))

\* handleAsyncWrite never erases an iterator into a queue close() has
\* cleared, and handleAsyncReceive never counts more bytes than the buffer.
NoUndefinedBehaviour == ub = {}

TimeoutOnlyWhileConnecting ==
  \A i \in 1..Len(errors) : errors[i].what = "timeout" => ~errors[i].connected

\* A block queued on a connected transport is eventually written, or the
\* transport is closed.
SendProgress ==
  \A x \in 1..MaxSends :
     (isConnected /\ x \in ToSet(queue)) ~> (x \notin ToSet(queue) \/ ~isConnected)

=============================================================================
