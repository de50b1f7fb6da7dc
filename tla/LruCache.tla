------------------------------ MODULE LruCache ------------------------------
(***************************************************************************)
(* What a least-recently-used replacement policy promises one view of the *)
(* Content Store (spec.md 4.6): the view holds at most cap names, and      *)
(* whenever it must give up names it keeps the ones touched most recently. *)
(* A touch (insert, refresh or read hit) stamps the name with a time later *)
(* than every stamp in the view.  Nothing here is a queue.                 *)
(***************************************************************************)
EXTENDS Naturals, FiniteSets

CONSTANTS Names, Caps, Stamps

VARIABLES content, touch, cap

\* the k names of S touched most recently
Keep(S, t, k) == {n \in S : Cardinality({m \in S : t[m] > t[n]}) < k}

\* touching n: a stamp later than all in the view
Touched(n) ==
  \E s \in Stamps :
     /\ \A m \in content : touch[m] < s
     /\ touch' = [touch EXCEPT ![n] = s]

Init == content = {} /\ touch \in [Names -> Stamps] /\ cap \in Caps

\* a Data inserted or refreshed: touched, then the view cut back to cap
Put(n) ==
  /\ Touched(n)
  /\ content' = Keep(content \cup {n}, touch', cap)
  /\ UNCHANGED cap

\* a read hit
Hit(n) == n \in content /\ Touched(n) /\ UNCHANGED <<content, cap>>

\* an entry erased other than by eviction
Drop(n) == content' = content \ {n} /\ UNCHANGED <<touch, cap>>

\* the cap changed: the least recent names beyond it go
Resize(c) == cap' = c /\ content' = Keep(content, touch, c) /\ UNCHANGED touch

Next == \E n \in Names : Put(n) \/ Hit(n) \/ Drop(n) \/ \E c \in Caps : Resize(c)

Spec == Init /\ [][Next]_<<content, touch, cap>>

==============================================================================
