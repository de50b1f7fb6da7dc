-------------------------- MODULE StatusAggregation --------------------------
(***************************************************************************)
(* ForwarderStatusRemoteManager::listGeneralRemoteStatus and               *)
(* collectGeneralStatus (src/daemon/mgmt/forwarder-status-remote-          *)
(* manager.cpp), multi-worker build (ETRI_NFD_ORG_ARCH undefined): the      *)
(* management thread sums the table sizes and packet counters of the global *)
(* forwarder and of every forwarding worker, while the workers, each on its *)
(* own thread, keep changing them.  The reads are unsynchronised; each     *)
(* returns the value the field has at that moment (aligned 64-bit loads),  *)
(* so a step of the collection reads one forwarder's fields at once and    *)
(* the workers may move between steps.                                     *)
(*                                                                         *)
(* Two representative columns are modelled: nFibEntries (FIB sizes, which  *)
(* only grow here) and nInInterests (a counter).  The NameTree, PIT,       *)
(* Measurements and CS sizes and the other counters are summed by the same *)
(* lines in the same way.                                                  *)
(***************************************************************************)
EXTENDS Naturals, FiniteSets, Functions

CONSTANTS
  Workers,     \* forwarding worker ids 0..getForwardingWorkers()-1
  MaxEvents    \* bound on worker and FIB activity

VARIABLES
  gFib, gIn,    \* the global forwarder's FIB size and nInInterests
  wFib, wIn,    \* each worker's FIB size and nInInterests
  pc,           \* where collectGeneralStatus is
  i,            \* its loop index
  acc,          \* its accumulators nFib, nInInterests
  start,        \* history: the true totals when the collection began
  report,       \* the last ForwarderStatus built, with the totals at its start
  events

vars == <<gFib, gIn, wFib, wIn, pc, i, acc, start, report, events>>

NoReport == [fib |-> 0, in |-> 0, startFib |-> 0, startIn |-> 0, valid |-> FALSE]

\* sum of f over the workers
SumOver(f) == FoldFunction(+, 0, f)

FibTotal == gFib + SumOver(wFib)
InTotal == gIn + SumOver(wIn)

TypeOK ==
  /\ gFib \in Nat /\ gIn \in Nat
  /\ wFib \in [Workers -> Nat] /\ wIn \in [Workers -> Nat]
  /\ pc \in {"idle", "global", "workers"}
  /\ i \in 0..Cardinality(Workers)
  /\ acc \in [fib : Nat, in : Nat]
  /\ events \in 0..MaxEvents

Init ==
  /\ gFib \in 1..2 /\ gIn = 0
  /\ wFib \in [Workers -> 0..1] /\ wIn = [w \in Workers |-> 0]
  /\ pc = "idle" /\ i = 0 /\ acc = [fib |-> 0, in |-> 0]
  /\ start = [fib |-> 0, in |-> 0]
  /\ report = NoReport
  /\ events = 0

(* The workers and the FIB manager, on their own threads. *)

\* a worker's incoming Interest pipeline counts an Interest
WorkerInterest(w) ==
  /\ events < MaxEvents /\ events' = events + 1
  /\ wIn' = [wIn EXCEPT ![w] = @ + 1]
  /\ UNCHANGED <<gFib, gIn, wFib, pc, i, acc, start, report>>

\* a route is added to a worker's FIB
WorkerFibAdd(w) ==
  /\ events < MaxEvents /\ events' = events + 1
  /\ wFib' = [wFib EXCEPT ![w] = @ + 1]
  /\ UNCHANGED <<gFib, gIn, wIn, pc, i, acc, start, report>>

(* The management thread. *)

\* listGeneralRemoteStatus starts collectGeneralStatus: nFib is initialised
\* from the global FIB's size, the other sums from 0
Collect ==
  /\ pc = "idle"
  /\ pc' = "global"
  /\ acc' = [fib |-> gFib, in |-> 0]
  /\ start' = [fib |-> FibTotal, in |-> InTotal]
  /\ UNCHANGED <<gFib, gIn, wFib, wIn, i, report, events>>

\* the global forwarder's tables and counters are added
ReadGlobal ==
  /\ pc = "global"
  /\ acc' = [fib |-> acc.fib + gFib, in |-> acc.in + gIn]
  /\ pc' = "workers" /\ i' = 0
  /\ UNCHANGED <<gFib, gIn, wFib, wIn, start, report, events>>

\* one iteration of the loop over getMwNfd(i)
ReadWorker ==
  /\ pc = "workers" /\ i < Cardinality(Workers)
  /\ acc' = [fib |-> acc.fib + wFib[i], in |-> acc.in + wIn[i]]
  /\ i' = i + 1
  /\ UNCHANGED <<gFib, gIn, wFib, wIn, pc, start, report, events>>

\* status.setNFibEntries(nFib) ... setNInInterests(nInInterests): the
\* ForwarderStatus returned, kept with the totals its collection began at
ForwarderStatus(a, s) ==
  [fib |-> a.fib, in |-> a.in, startFib |-> s.fib, startIn |-> s.in, valid |-> TRUE]

\* listGeneralRemoteStatus after collectGeneralStatus returns: the handler
\* then ends the dataset context, signs a Data without content, writes the
\* JSON to a file and hands the Data to the internal face
Publish ==
  /\ pc = "workers" /\ i = Cardinality(Workers)
  /\ report' = ForwarderStatus(acc, start)
  /\ pc' = "idle"
  /\ UNCHANGED <<gFib, gIn, wFib, wIn, i, acc, start, events>>

Next ==
  \/ \E w \in Workers : WorkerInterest(w) \/ WorkerFibAdd(w)
  \/ Collect \/ ReadGlobal \/ ReadWorker \/ Publish

Spec == Init /\ [][Next]_vars

(***************************************************************************)
(* Properties                                                              *)
(***************************************************************************)

\* Each reported sum lies between the true total when the collection began
\* and the true total now: FIB sizes and counters only grow, so a sum of
\* reads made at different moments is never below the first nor above the
\* second, whatever the workers do meanwhile.
ReportWithinTotals ==
  report.valid =>
    /\ report.startFib <= report.fib /\ report.fib <= FibTotal
    /\ report.startIn <= report.in /\ report.in <= InTotal

==============================================================================
