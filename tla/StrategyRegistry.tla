-------------------------- MODULE StrategyRegistry --------------------------
(***************************************************************************)
(* The strategy registry of src/daemon/fw/strategy.cpp: a std::map from    *)
(* versioned strategy names to factories, filled by registerType at       *)
(* startup, and the resolution of a strategy instance name (find,         *)
(* canCreate, parseInstanceName, makeInstanceName).                       *)
(*                                                                         *)
(* A name is a sequence of components.  A component is generic            *)
(* [t |-> "g", v |-> k] or a version [t |-> "v", v |-> n].  The canonical *)
(* NDN order compares TLV-TYPE first (generic 8 < version 54), then the    *)
(* value; for version numbers and for the abstract generic values this is  *)
(* numeric order.  Component::getSuccessor increments the value.           *)
(***************************************************************************)
EXTENDS Naturals, Sequences, SequencesExt, FiniteSets

CONSTANTS
  Candidates,   \* strategy names registerType may be called with
  Queries       \* instance names given to find

Gen(k) == [t |-> "g", v |-> k]
Ver(n) == [t |-> "v", v |-> n]
IsVersion(c) == c.t = "v"

\* name::Component::compare: TLV-TYPE, then value
CompLess(a, b) == (a.t = "g" /\ b.t = "v") \/ (a.t = b.t /\ a.v < b.v)

\* Name::compare: component-wise, a proper prefix before its extensions
RECURSIVE NameLess(_, _)
NameLess(a, b) ==
  IF b = <<>> THEN FALSE
  ELSE IF a = <<>> THEN TRUE
  ELSE CompLess(Head(a), Head(b))
       \/ (Head(a) = Head(b) /\ NameLess(Tail(a), Tail(b)))

\* Name::getSuccessor of a non-empty name
Successor(n) == Front(n) \o <<[Last(n) EXCEPT !.v = @ + 1]>>

\* the map's end(): no registered name is empty
End == <<>>

\* std::map::lower_bound: the first key not less than n
LowerBound(R, n) ==
  LET ge == {r \in R : ~NameLess(r, n)}
  IN IF ge = {} THEN End ELSE CHOOSE r \in ge : \A s \in ge : r = s \/ NameLess(r, s)

\* --lower_bound(n): the last key less than n (End if lower_bound is begin())
BeforeLowerBound(R, n) ==
  LET lt == {r \in R : NameLess(r, n)}
  IN IF lt = {} THEN End ELSE CHOOSE r \in lt : \A s \in lt : r = s \/ NameLess(s, r)

\* Strategy::parseInstanceName: split after the last version component,
\* never taking component 0 as the version
ParseInstanceName(n) ==
  LET i == SelectLastInSubSeq(n, 2, Len(n), IsVersion)
  IN IF i = 0
     THEN [strategyName |-> n, version |-> 0, hasVersion |-> FALSE, parameters |-> <<>>]
     ELSE [strategyName |-> SubSeq(n, 1, i), version |-> n[i].v, hasVersion |-> TRUE,
           parameters |-> SubSeq(n, i + 1, Len(n))]

\* Mutant: the version appended even when the name has one.
MakeInstanceNameAlwaysAppend(n, strategyName) == Append(n, Last(strategyName))

\* Strategy::makeInstanceName: keep a name with any version component,
\* otherwise append the strategy's version
MakeInstanceName(n, strategyName) ==
  IF \E i \in 1..Len(n) : IsVersion(n[i]) THEN n ELSE Append(n, Last(strategyName))

\* Mutant of find: the strategy-name check of the versioned branch dropped.
FindVersionedNoPrefixCheck(R, p) == LowerBound(R, p.strategyName)

\* find, a version requested: the exact or next higher version
FindVersioned(R, p) ==
  LET found == LowerBound(R, p.strategyName)
  IN IF found # End /\ IsPrefix(Front(p.strategyName), found) THEN found ELSE End

\* find, no version requested: the highest version
FindUnversioned(R, p) ==
  IF p.strategyName = <<>> THEN End
  ELSE LET found == BeforeLowerBound(R, Successor(p.strategyName))
       IN IF found # End /\ IsPrefix(p.strategyName, found) THEN found ELSE End

\* Strategy::find
Find(R, n) ==
  LET p == ParseInstanceName(n)
  IN IF p.hasVersion THEN FindVersioned(R, p) ELSE FindUnversioned(R, p)

\* Strategy::canCreate
CanCreate(R, n) == Find(R, n) # End

\* Strategy::create: the found factory builds the strategy, whose
\* constructor names it makeInstanceName(instanceName, getStrategyName());
\* nullptr (here End) when nothing is found
Create(R, n) ==
  LET s == Find(R, n)
  IN IF s = End THEN [strategy |-> End, instanceName |-> End]
     ELSE [strategy |-> s, instanceName |-> MakeInstanceName(n, s)]

\* Strategy::areSameType
AreSameType(R, nA, nB) == Find(R, nA) = Find(R, nB)

VARIABLE registry  \* the keys of Strategy::getRegistry()

vars == <<registry>>

\* registered names are versioned names of more than one component
TypeOK ==
  /\ registry \subseteq Candidates
  /\ \A r \in registry : Len(r) > 1 /\ IsVersion(Last(r))

Init == registry = {}

\* Mutant: registerType without its assertions (an NDEBUG build).
RegisterTypeNoAssert(n) == registry' = registry \cup {n}

\* Strategy::registerType: a new versioned name of more than one component
RegisterType(n) ==
  /\ Len(n) > 1 /\ IsVersion(Last(n)) /\ n \notin registry
  /\ registry' = registry \cup {n}

Next == \E n \in Candidates : RegisterType(n)

Spec == Init /\ [][Next]_vars

(***************************************************************************)
(* Reference definitions and properties.  Each is checked for every        *)
(* instance name in Queries against every registry reachable by            *)
(* registerType calls.                                                     *)
(***************************************************************************)

\* the registered versions of the strategy named b
VersionsOf(R, b) == {r \in R : Front(r) = b}

MinVersion(S) == CHOOSE r \in S : \A s \in S : Last(r).v <= Last(s).v

\* "find exact or next higher version" (strategy.cpp, find)
NextHigher(R, p) ==
  LET c == {r \in VersionsOf(R, Front(p.strategyName)) : Last(r).v >= p.version}
  IN IF c = {} THEN End ELSE MinVersion(c)

\* find, given a version, returns that strategy's exact or next higher
\* version, as its comment says, whatever else is registered beside it.
FindVersionedAsDocumented ==
  \A n \in Queries :
     LET p == ParseInstanceName(n)
     IN p.hasVersion => Find(registry, n) = NextHigher(registry, p)

\* A strategy that canCreate admits is created with a non-empty instance name
\* (create's BOOST_ASSERT) of the same type as the name asked for: choosing
\* a strategy again by its own instance name finds the same strategy.
InstanceNameStable ==
  \A n \in Queries :
     CanCreate(registry, n) =>
       LET inst == Create(registry, n)
       IN inst.instanceName # <<>> /\ AreSameType(registry, n, inst.instanceName)

=============================================================================
