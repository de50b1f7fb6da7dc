------------------------- MODULE MCStrategyRegistry -------------------------
(***************************************************************************)
(* The strategy layer's name-level helpers: the registry the static         *)
(* NFD_REGISTER_STRATEGY initialisers fill before main, then the FIB that   *)
(* the routing daemon updates while strategies look routes up in it.        *)
(***************************************************************************)
EXTENDS StrategyRegistry, FibLookup

CONSTANTS a, b, f1, f2

\* three strategies /a, /b, /c, each registrable at versions 1..3, and the
\* unversioned /a, which registerType's assertions reject
MCCandidates == {<<Gen(k), Ver(n)>> : k \in 1..3, n \in 1..3} \cup {<<Gen(1)>>}

\* instance names of up to three components: generic a, b, c, versions 0..4
QueryComps == {Gen(k) : k \in 1..3} \cup {Ver(n) : n \in 0..4}
MCQueries == UNION {[1..k -> QueryComps] : k \in 1..3}

\* routes for /, /a and /a/b; Interest and delegation names below and
\* beside them; hints of up to two delegations
MCFibNames == {<<>>, <<a>>, <<a, b>>}
MCFaces == {f1, f2}
MCLookupNames == {<<a>>, <<b>>, <<a, a>>, <<a, b>>, <<a, b, b>>}
MCHints == {<<>>} \cup [1..1 -> MCLookupNames] \cup [1..2 -> MCLookupNames]

\* the registry is complete once every well-formed built-in strategy is in
BuiltIn == {c \in Candidates : Len(c) > 1 /\ IsVersion(Last(c))}

MCVars == <<registry, fib>>

MCInit == Init /\ FibInit

\* static initialisation (registerType) happens before main starts the
\* forwarder and the routing daemon's updates reach the FIB
MCNext ==
  \/ Next /\ UNCHANGED fib
  \/ registry = BuiltIn /\ FibNext /\ UNCHANGED registry

MCSpec == MCInit /\ [][MCNext]_MCVars

MCTypeOK == TypeOK /\ FibTypeOK

==============================================================================
