------------------------------ MODULE InputThread ------------------------------
(***************************************************************************)
(* InputThread of src/daemon/mw-nfd/input-thread.cpp/.hpp: a thread's      *)
(* io_service with a boost::asio::signal_set that waits once for SIGINT or  *)
(* SIGTERM and calls terminate(), which stops the io_service whatever its   *)
(* error code.  The signal set is built on the constructing thread's        *)
(* global io_service and run() runs the calling thread's; the model takes   *)
(* them to be the same thread, as initialize registers it by ifIndex.      *)
(*                                                                         *)
(* An asio handler is first outstanding (waiting), then completed with a   *)
(* result and queued (ready), then run by run().  Destroying the signal    *)
(* set completes an outstanding wait with operation_aborted.               *)
(***************************************************************************)
EXTENDS Naturals

VARIABLES
  thr,          \* the InputThread object: "none", "alive" or "gone"
  registered,   \* setGlobalIoService(ifIndex, ...) done
  waiting,      \* m_terminationSignalSet.async_wait is outstanding
  ready,        \* its completed handler: "none", "signal" or "aborted"
  running,      \* a thread is inside io_service::run()
  stopped       \* io_service::stop() was called

itVars == <<thr, registered, waiting, ready, running, stopped>>

InputThreadTypeOK ==
  /\ thr \in {"none", "alive", "gone"}
  /\ {registered, waiting, running, stopped} \subseteq BOOLEAN
  /\ ready \in {"none", "signal", "aborted"}

InputThreadInit ==
  /\ thr = "none" /\ ready = "none"
  /\ registered = FALSE /\ waiting = FALSE /\ running = FALSE
  /\ stopped = FALSE

\* InputThread::InputThread: the signal set on the global io_service, SIGINT
\* and SIGTERM added, one async_wait bound to terminate with a raw this
ConstructThread ==
  /\ thr = "none"
  /\ thr' = "alive" /\ waiting' = TRUE
  /\ UNCHANGED <<registered, ready, running, stopped>>

\* InputThread::initialize: the io_service registered under the ifIndex
Initialize ==
  /\ thr = "alive" /\ ~registered
  /\ registered' = TRUE
  /\ UNCHANGED <<thr, waiting, ready, running, stopped>>

\* InputThread::run: io_service::run(), which returns at once once stopped
Run ==
  /\ thr = "alive" /\ ~running /\ ~stopped
  /\ running' = TRUE
  /\ UNCHANGED <<thr, registered, waiting, ready, stopped>>

\* SIGINT or SIGTERM is delivered: the outstanding wait completes
Signal ==
  /\ waiting
  /\ waiting' = FALSE /\ ready' = "signal"
  /\ UNCHANGED <<thr, registered, running, stopped>>

\* ~InputThread (defaulted): the signal set's destructor cancels the wait
DestroyThread ==
  /\ thr = "alive"
  /\ thr' = "gone"
  /\ IF waiting THEN waiting' = FALSE /\ ready' = "aborted"
     ELSE UNCHANGED <<waiting, ready>>
  /\ UNCHANGED <<registered, running, stopped>>

\* run() calls the queued handler: InputThread::terminate ignores the error
\* code and calls getGlobalIoService().stop(), and run() returns
Terminate ==
  /\ running /\ ~stopped /\ ready # "none"
  /\ ready' = "none" /\ stopped' = TRUE /\ running' = FALSE
  /\ UNCHANGED <<thr, registered, waiting>>

InputThreadNext ==
  ConstructThread \/ Initialize \/ Run \/ Signal \/ DestroyThread \/ Terminate

==============================================================================
