------------------------------ MODULE CsPolicy ------------------------------
(***************************************************************************)
(* The replacement policy of the dual Content Store (ETRI_DUAL_CS): the    *)
(* Policy base class of src/daemon/table/cs-policy.cpp with the LRU policy *)
(* of cs-policy-lru.hpp, driven by the Content Store.                      *)
(*                                                                         *)
(* Each view has its own LRU queue (LruPolicy::m_queue for the prefix view *)
(* and m_queueExact for the exact view), oldest first; a queue holds each  *)
(* name once (the unique index of the multi_index container) and its       *)
(* content is the view's content, since the Content Store calls a hook for *)
(* every insert, refresh, read and erase.  Policy::setLimit evicts both     *)
(* views, setPmLimit only the prefix view and setEmLimit only the exact    *)
(* view, so the prefix view is held to both limit and pmLimit and the exact *)
(* view to both limit and emLimit.                                         *)
(*                                                                         *)
(* The LRU bodies (cs-policy-lru.cpp) and the Content Store (cs.cpp) are   *)
(* not in the repository; they are modelled from spec.md 4.6.  clock,      *)
(* pTouch and eTouch are history: the time each name was last touched in   *)
(* each view, used only to state what LRU promises.                        *)
(***************************************************************************)
EXTENDS Naturals, Sequences, SequencesExt, FiniteSets

CONSTANTS
  Names,     \* Data names
  Limits,    \* values the limits may be set to
  MaxClock   \* bound on touches

VARIABLES
  prefixQ, exactQ,           \* the LRU queues, least recently used first
  limit, pmLimit, emLimit,   \* m_limit, m_pm_limit, m_em_limit
  clock, pTouch, eTouch      \* history

vars == <<prefixQ, exactQ, limit, pmLimit, emLimit, clock, pTouch, eTouch>>

PrefixCap == Min({limit, pmLimit})
ExactCap == Min({limit, emLimit})

\* LruPolicy::insertToQueue: the entry moved (or added) to the end
InsertToQueue(q, n) == Append(Remove(q, n), n)

\* LruPolicy::evictEntries / evictEntriesExact: pop the front until the view
\* is within its cap
EvictTo(q, cap) == IF Len(q) > cap THEN SubSeq(q, Len(q) - cap + 1, Len(q)) ELSE q

\* Queue / QueueExact: a multi_index container with a sequenced index (the
\* LRU order) and a unique index (by entry, or by name for the exact view)
IsLruQueue(q) == q \in Seq(Names) /\ IsInjective(q)

TypeOK ==
  /\ IsLruQueue(prefixQ) /\ Len(prefixQ) <= Cardinality(Names)
  /\ IsLruQueue(exactQ) /\ Len(exactQ) <= Cardinality(Names)
  /\ {limit, pmLimit, emLimit} \subseteq Limits
  /\ clock \in 0..MaxClock
  /\ pTouch \in [Names -> 0..MaxClock] /\ eTouch \in [Names -> 0..MaxClock]

Init ==
  /\ prefixQ = <<>> /\ exactQ = <<>>
  /\ limit \in Limits /\ pmLimit \in Limits /\ emLimit \in Limits
  /\ clock = 0
  /\ pTouch = [n \in Names |-> 0] /\ eTouch = [n \in Names |-> 0]

(* The policy hooks, each the new queue of its view. *)

\* Policy::afterInsert -> doAfterInsert: queue the new entry, then evict
AfterInsert(n) == EvictTo(InsertToQueue(prefixQ, n), PrefixCap)

\* Mutant: a refreshed entry appended again without removing the old one.
AfterRefreshDup(n) == Append(prefixQ, n)
\* Mutant: a refresh that leaves the queue alone.
AfterRefreshNoMove(n) == prefixQ

\* Policy::afterRefresh -> doAfterRefresh: the entry becomes most recent
AfterRefresh(n) == InsertToQueue(prefixQ, n)

\* Policy::beforeErase -> doBeforeErase: the entry leaves the queue
BeforeErase(n) == Remove(prefixQ, n)

\* Policy::beforeUse -> doBeforeUse: a hit makes the entry most recent
BeforeUse(n) == InsertToQueue(prefixQ, n)

AfterInsertExact(n) == EvictTo(InsertToQueue(exactQ, n), ExactCap)
\* Mutant: a refresh of the exact view that leaves its queue alone.
AfterRefreshExactNoMove(n) == exactQ
AfterRefreshExact(n) == InsertToQueue(exactQ, n)
BeforeEraseExact(n) == Remove(exactQ, n)
BeforeUseExact(n) == InsertToQueue(exactQ, n)

Tick == clock < MaxClock /\ clock' = clock + 1

(* Content Store operations (cs.cpp, spec.md 4.6). *)

\* Cs::insert: a Data goes into both views, refreshing a present entry
Insert(n) ==
  /\ Tick
  /\ prefixQ' = IF n \in ToSet(prefixQ) THEN AfterRefresh(n) ELSE AfterInsert(n)
  /\ exactQ' = IF n \in ToSet(exactQ) THEN AfterRefreshExact(n) ELSE AfterInsertExact(n)
  /\ pTouch' = [pTouch EXCEPT ![n] = clock'] /\ eTouch' = [eTouch EXCEPT ![n] = clock']
  /\ UNCHANGED <<limit, pmLimit, emLimit>>

\* Cs::find with CanBePrefix: a hit in the prefix view
UsePrefix(n) ==
  /\ n \in ToSet(prefixQ) /\ Tick
  /\ prefixQ' = BeforeUse(n) /\ pTouch' = [pTouch EXCEPT ![n] = clock']
  /\ UNCHANGED <<exactQ, limit, pmLimit, emLimit, eTouch>>

\* Cs::find without CanBePrefix: a hit in the exact view
UseExact(n) ==
  /\ n \in ToSet(exactQ) /\ Tick
  /\ exactQ' = BeforeUseExact(n) /\ eTouch' = [eTouch EXCEPT ![n] = clock']
  /\ UNCHANGED <<prefixQ, limit, pmLimit, emLimit, pTouch>>

\* Cs::erase (staleness or an explicit erase): the entry leaves both views
Erase(n) ==
  /\ n \in ToSet(prefixQ) \cup ToSet(exactQ)
  /\ prefixQ' = BeforeErase(n) /\ exactQ' = BeforeEraseExact(n)
  /\ UNCHANGED <<limit, pmLimit, emLimit, clock, pTouch, eTouch>>

(* The limit setters of Policy. *)

\* Mutant: setLimit without the ETRI_DUAL_CS eviction of the exact view.
SetLimitNoExactEvict(l) ==
  /\ limit' = l
  /\ prefixQ' = EvictTo(prefixQ, Min({l, pmLimit}))
  /\ UNCHANGED <<exactQ, pmLimit, emLimit, clock, pTouch, eTouch>>

\* Policy::setLimit
SetLimit(l) ==
  /\ limit' = l
  /\ prefixQ' = EvictTo(prefixQ, Min({l, pmLimit}))
  /\ exactQ' = EvictTo(exactQ, Min({l, emLimit}))
  /\ UNCHANGED <<pmLimit, emLimit, clock, pTouch, eTouch>>

\* Policy::setPmLimit
SetPmLimit(l) ==
  /\ pmLimit' = l
  /\ prefixQ' = EvictTo(prefixQ, Min({limit, l}))
  /\ UNCHANGED <<exactQ, limit, emLimit, clock, pTouch, eTouch>>

\* Policy::setEmLimit
SetEmLimit(l) ==
  /\ emLimit' = l
  /\ exactQ' = EvictTo(exactQ, Min({limit, l}))
  /\ UNCHANGED <<prefixQ, limit, pmLimit, clock, pTouch, eTouch>>

Next ==
  \/ \E n \in Names : Insert(n) \/ UsePrefix(n) \/ UseExact(n) \/ Erase(n)
  \/ \E l \in Limits : SetLimit(l) \/ SetPmLimit(l) \/ SetEmLimit(l)

Spec == Init /\ [][Next]_vars

(***************************************************************************)
(* Properties                                                              *)
(***************************************************************************)

\* C2 of spec.md 4.6: after every operation each view is within both of the
\* limits set on it, including just after a limit is lowered.
WithinLimits == Len(prefixQ) <= PrefixCap /\ Len(exactQ) <= ExactCap

\* The prefix view behaves as an LRU cache: whatever sequence of inserts,
\* refreshes, hits, erasures and limit changes, the names it holds are the
\* ones most recently touched in it.
PrefixLru == INSTANCE LruCache WITH
  Caps <- Limits, Stamps <- 0..MaxClock,
  content <- ToSet(prefixQ), touch <- pTouch, cap <- PrefixCap
PrefixIsLru == PrefixLru!Spec

\* The exact view behaves as an LRU cache of its own, held to limit and
\* emLimit: a refresh on Cs::insert, a hit of Cs::find without CanBePrefix,
\* an erase and setLimit/setEmLimit keep it the most recently touched names
\* of the exact view, whatever the prefix view does meanwhile.
ExactLru == INSTANCE LruCache WITH
  Caps <- Limits, Stamps <- 0..MaxClock,
  content <- ToSet(exactQ), touch <- eTouch, cap <- ExactCap
ExactIsLru == ExactLru!Spec

==============================================================================
