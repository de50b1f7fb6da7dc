------------------------------ MODULE FibLookup ------------------------------
(***************************************************************************)
(* A worker's FIB as the routing daemon's FibUpdates change it, and the    *)
(* route a strategy obtains for a PIT entry: Strategy::lookupFib of         *)
(* src/daemon/fw/strategy.cpp.                                              *)
(*                                                                         *)
(* FibUpdate (src/daemon/rib/fib-update.hpp) is the record the routing      *)
(* daemon sends; the FIB that applies it (table/fib.cpp) and its           *)
(* longest-prefix match are not in the repository and are modelled from    *)
(* spec.md 4.7 and 6: add is idempotent per face, a next hop is unique by   *)
(* FaceId, and an entry left without next hops is erased, except that the  *)
(* root is always found (possibly empty).  lookupFib asserts exactly that   *)
(* only ndn:/ can be found without next hops.                              *)
(*                                                                         *)
(* A name is a sequence of components; a FIB entry is identified by its    *)
(* prefix, fib[p] its set of next hops.  Costs are kept because an add of  *)
(* a present face replaces its cost.                                        *)
(***************************************************************************)
EXTENDS Naturals, Sequences, SequencesExt, FiniteSets

CONSTANTS
  FibNames,     \* prefixes the routing daemon announces
  Faces,        \* FaceIds of next hops
  Costs,        \* route costs
  LookupNames,  \* Interest names a strategy looks up
  Hints         \* forwarding hints: sequences of delegation names

Root == <<>>

ASSUME Root \in FibNames

VARIABLE fib

NextHop == [face : Faces, cost : Costs]

\* FibUpdate::createAddUpdate / createRemoveUpdate: the FibUpdate record the
\* routing daemon sends (flags are not used by the FIB)
CreateAddUpdate(n, f, c) ==
  [name |-> n, faceId |-> f, cost |-> c, action |-> "ADD_NEXTHOP", flags |-> 0]
CreateRemoveUpdate(n, f) ==
  [name |-> n, faceId |-> f, cost |-> 0, action |-> "REMOVE_NEXTHOP", flags |-> 0]

FibTypeOK ==
  /\ Root \in DOMAIN fib /\ DOMAIN fib \subseteq FibNames
  /\ \A p \in DOMAIN fib : fib[p] \subseteq NextHop
  \* next hops are unique by FaceId
  /\ \A p \in DOMAIN fib : \A x, y \in fib[p] : x.face = y.face => x = y

FibInit == fib = [p \in {Root} |-> {}]

HasNextHops(p) == p \in DOMAIN fib /\ fib[p] # {}

\* Fib::findLongestPrefixMatch: walk from the full name towards the root,
\* the first prefix with an entry; the root's entry if none
RECURSIVE FindLongestPrefixMatch(_)
FindLongestPrefixMatch(n) ==
  IF n = Root \/ n \in DOMAIN fib THEN n ELSE FindLongestPrefixMatch(Front(n))

\* Mutant: the loop returns the first delegation's entry, next hops or not.
LookupFibNoNextHopCheck(n, h) ==
  IF h = <<>> THEN FindLongestPrefixMatch(n) ELSE FindLongestPrefixMatch(h[1])

\* Strategy::lookupFib: without a forwarding hint the LPM of the Interest
\* name; otherwise the LPM of each delegation in order, the first with next
\* hops, and when none has one, the last entry found
LookupFib(n, h) ==
  IF h = <<>> THEN FindLongestPrefixMatch(n)
  ELSE LET lpm == [i \in 1..Len(h) |-> FindLongestPrefixMatch(h[i])]
           routable == {i \in 1..Len(h) : HasNextHops(lpm[i])}
       IN IF routable = {} THEN lpm[Len(h)] ELSE lpm[Min(routable)]

\* Fib::insert + Entry::addOrUpdateNextHop
AddNextHop(n, f, c) ==
  LET old == IF n \in DOMAIN fib THEN fib[n] ELSE {}
  IN fib' = [p \in DOMAIN fib \cup {n} |->
               IF p = n THEN {x \in old : x.face # f} \cup {[face |-> f, cost |-> c]}
               ELSE fib[p]]

\* Fib::removeNextHop: the face leaves the entry, and an entry left without
\* next hops is erased (the root is found all the same)
RemoveNextHop(n, f) ==
  /\ n \in DOMAIN fib
  /\ LET rest == {x \in fib[n] : x.face # f}
     IN fib' = IF rest = {} /\ n # Root
                 THEN [p \in DOMAIN fib \ {n} |-> fib[p]]
                 ELSE [fib EXCEPT ![n] = rest]

\* FibUpdater: one FibUpdate applied to the FIB
ApplyFibUpdate(u) ==
  \/ u.action = "ADD_NEXTHOP" /\ AddNextHop(u.name, u.faceId, u.cost)
  \/ u.action = "REMOVE_NEXTHOP" /\ RemoveNextHop(u.name, u.faceId)

FibUpdates ==
  {CreateAddUpdate(n, f, c) : n \in FibNames, f \in Faces, c \in Costs}
    \cup {CreateRemoveUpdate(n, f) : n \in FibNames, f \in Faces}

FibNext == \E u \in FibUpdates : ApplyFibUpdate(u)

(***************************************************************************)
(* Properties                                                              *)
(***************************************************************************)

\* The routed prefixes of n: FIB prefixes of n that have next hops.
Routed(n) == {p \in DOMAIN fib : IsPrefix(p, n) /\ fib[p] # {}}
LongestRoute(n) ==
  IF Routed(n) = {} THEN Root
  ELSE CHOOSE p \in Routed(n) : \A q \in Routed(n) : Len(q) <= Len(p)

\* spec.md 8.6 and 4.7: after any sequence of FibUpdates, lookupFib returns
\* the longest routed FIB prefix of the Interest name, or the root if none;
\* with a forwarding hint, that of the first delegation that has a route,
\* or the root.  lookupFib's LPM ignores next hops, so this holds only
\* because every update leaves next hops on every entry but the root.
LookupFibAsDocumented ==
  \A n \in LookupNames, h \in Hints :
    LET withRoute == {i \in 1..Len(h) : Routed(h[i]) # {}}
    IN LookupFib(n, h) =
         IF h = <<>> THEN LongestRoute(n)
         ELSE IF withRoute = {} THEN Root
         ELSE LongestRoute(h[Min(withRoute)])

==============================================================================
