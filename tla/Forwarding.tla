----------------------------- MODULE Forwarding -----------------------------
(***************************************************************************)
(* One forwarding worker and the PIT entry of one name.                    *)
(*                                                                         *)
(* The strategy actions are translated from src/daemon/fw/strategy.cpp and *)
(* strategy.hpp (sendInterest, sendData, sendDataToAll, sendNacks,          *)
(* rejectPendingInterest, afterReceiveData, afterContentStoreHit,          *)
(* afterReceiveNack).  The forwarder pipelines that call them              *)
(* (fw/forwarder.cpp, table/pit-*.cpp) are not in the source tree; they    *)
(* are modelled from spec.md sections 4.1 - 4.5.                           *)
(*                                                                         *)
(* Data is abstracted to "the Data of this name"; a PitToken is abstracted *)
(* to who issued it: a downstream face f (the token is then f itself), this*)
(* worker (Own), or none (NoToken).                                        *)
(***************************************************************************)
EXTENDS Naturals, FiniteSets, FiniteSetsExt, Functions, TLC

CONSTANTS
  Faces,            \* faces of the forwarder
  AdHoc,            \* faces whose link type is ad-hoc
  NextHops,         \* faces the FIB entry of the name points to
  Nonces,           \* nonces an Interest or a Nack may carry
  Own,              \* the PitToken this worker issues (carries m_workerId)
  NoToken,          \* no PitToken tag
  TokenOnOriginal,  \* build with ETRI_DUAL_CS or ETRI_PITTOKEN_HASH
  Admit,            \* CS admits Data that satisfied a PIT entry
  AdmitUnsolicited, \* unsolicitedDataPolicy admits unsolicited Data
  MaxInterests,     \* bound on Interests received from downstreams
  MaxData,          \* bound on Data received from upstreams
  MaxNacks          \* bound on Nacks received from upstreams

ASSUME AdHoc \subseteq Faces /\ NextHops \subseteq Faces
ASSUME {Own, NoToken} \cap Faces = {}
ASSUME TokenOnOriginal \in BOOLEAN /\ Admit \in BOOLEAN /\ AdmitUnsolicited \in BOOLEAN

Tokens == Faces \cup {Own, NoToken}
Ids == 1..MaxInterests

VARIABLES
  pit,        \* the PIT entry of the name exists
  inRec,      \* in-records: face -> [id, nonce, tok, live]
  outRec,     \* out-records: face -> [nonce, nacked]
  expiry,     \* the entry's expiry timer: "none", "lifetime" or "zero"
  satisfied,  \* pitEntry->isSatisfied
  cs,         \* the CS holds a fresh Data of the name
  sent,       \* history: Data and Nacks sent to downstream faces
  answers,    \* history: Interest id -> number of Data and Nacks sent for it
  issued,     \* history: Interest id -> PitToken it arrived with
  expired,    \* history: ids of Interests whose in-record lifetime passed
  nIn, nData, nNack

vars == <<pit, inRec, outRec, expiry, satisfied, cs, sent, answers, issued, expired,
          nIn, nData, nNack>>

InRecord == [id : Ids, nonce : Nonces, tok : Tokens, live : BOOLEAN]
OutRecord == [nonce : Nonces, nacked : BOOLEAN]
Packet == [kind : {"Data", "Nack"}, face : Faces, tok : Tokens, id : Ids]

\* In- and out-records are members of the PIT entry: none exists without it.
TypeOK ==
  /\ pit \in BOOLEAN
  /\ ~pit => inRec = <<>> /\ outRec = <<>>
  /\ \E D \in SUBSET Faces : inRec \in [D -> InRecord]
  /\ \E D \in SUBSET Faces : outRec \in [D -> OutRecord]
  /\ expiry \in {"none", "lifetime", "zero"}
  /\ satisfied \in BOOLEAN /\ cs \in BOOLEAN
  /\ sent \subseteq Packet
  /\ answers \in [Ids -> Nat]
  /\ \E D \in SUBSET Ids : issued \in [D -> Tokens]
  /\ expired \subseteq Ids
  /\ nIn \in 0..MaxInterests /\ nData \in 0..MaxData /\ nNack \in 0..MaxNacks

Init ==
  /\ pit = FALSE
  /\ inRec = <<>> /\ outRec = <<>>
  /\ expiry = "none"
  /\ satisfied = FALSE
  /\ cs \in BOOLEAN
  /\ sent = {} /\ answers = [i \in Ids |-> 0] /\ issued = <<>> /\ expired = {}
  /\ nIn = 0 /\ nData = 0 /\ nNack = 0

(***************************************************************************)
(* Helpers translated from the strategy actions.  Each returns the new     *)
(* in-records and the packets sent downstream.                             *)
(***************************************************************************)

\* Mutants: plausible bugs of the helpers below, used to show that the
\* properties can fail.
SendDataKeepInRecord(ir, egress, id) ==
  [inRec |-> ir,
   out   |-> {[kind |-> "Data", face |-> egress,
               tok |-> IF egress \in DOMAIN ir THEN ir[egress].tok ELSE NoToken,
               id  |-> IF egress \in DOMAIN ir THEN ir[egress].id ELSE id]}]
PendingDownstreamsAnyExpiry(ir, inFace) ==
  {f \in DOMAIN ir : f # inFace \/ f \in AdHoc}

\* Strategy::sendData: the PitToken of the egress in-record (if any) is put
\* on the Data, that in-record is deleted, the Data goes to onOutgoingData.
SendData(ir, egress, id) ==
  [inRec |-> Restrict(ir, DOMAIN ir \ {egress}),
   out   |-> {[kind |-> "Data", face |-> egress,
               tok |-> IF egress \in DOMAIN ir THEN ir[egress].tok ELSE NoToken,
               id  |-> IF egress \in DOMAIN ir THEN ir[egress].id ELSE id]}]

\* Strategy::sendDataToAll: the pending downstreams are the unexpired
\* in-records, minus the Data's ingress face unless that face is ad-hoc;
\* they are collected first, then each gets sendData.
PendingDownstreams(ir, inFace) ==
  {f \in DOMAIN ir : ir[f].live /\ (f # inFace \/ f \in AdHoc)}

SendDataToAll(ir, inFace) ==
  LET step(f, acc) ==
        LET r == SendData(acc.inRec, f, ir[f].id)
        IN [inRec |-> r.inRec, out |-> acc.out \cup r.out]
  IN FoldSet(step, [inRec |-> ir, out |-> {}], PendingDownstreams(ir, inFace))

\* Strategy::sendNack -> onOutgoingNack: needs the in-record of the egress,
\* which is then deleted.
SendNack(ir, egress) ==
  IF egress \in DOMAIN ir
  THEN [inRec |-> Restrict(ir, DOMAIN ir \ {egress}),
        out   |-> {[kind |-> "Nack", face |-> egress, tok |-> ir[egress].tok,
                    id |-> ir[egress].id]}]
  ELSE [inRec |-> ir, out |-> {}]

\* Strategy::sendNacks: the downstreams are all in-record faces minus the
\* excepted ones, collected before any Nack is sent.
SendNacks(ir, exceptFaces) ==
  LET step(f, acc) ==
        LET r == SendNack(acc.inRec, f)
        IN [inRec |-> r.inRec, out |-> acc.out \cup r.out]
  IN FoldSet(step, [inRec |-> ir, out |-> {}], DOMAIN ir \ exceptFaces)

SendInterestNoCopy(ir, f, u) ==
  /\ inRec' = IF ir[f].tok # NoToken \/ TokenOnOriginal
                THEN [ir EXCEPT ![f].tok = Own] ELSE ir
  /\ outRec' = (u :> [nonce |-> ir[f].nonce, nacked |-> FALSE]) @@ outRec

\* Strategy::sendInterest on the Interest of downstream f, to egress u.
\* A tagged Interest is copied before its tag is replaced; an untagged one
\* gets the worker's token set on the original object, which is the
\* Interest the in-record of f holds.  onOutgoingInterest then creates or
\* refreshes the out-record of u with the Interest's nonce.
SendInterest(ir, f, u) ==
  /\ inRec' = IF ir[f].tok = NoToken /\ TokenOnOriginal
                THEN [ir EXCEPT ![f].tok = Own] ELSE ir
  /\ outRec' = (u :> [nonce |-> ir[f].nonce, nacked |-> FALSE]) @@ outRec

\* Strategy::setExpiryTimer: Forwarder::setExpiryTimer on the PIT entry
SetExpiryTimer(d) == expiry' = d

\* Strategy::rejectPendingInterest: setExpiryTimer(pitEntry, 0_ms)
RejectPendingInterest == SetExpiryTimer("zero")

\* the packets out go to downstream faces (onOutgoingData, onOutgoingNack)
Send(out) ==
  /\ sent' = sent \cup out
  /\ answers' = [i \in Ids |-> answers[i] + Cardinality({p \in out : p.id = i})]

\* Strategy::afterContentStoreHit: sendData of the cached Data to the ingress
AfterContentStoreHit(f, id) == Send(SendData(inRec, f, id).out)

\* the nonce is pending in an in-record of another face: a loop
IsLoop(f, n) == \E g \in DOMAIN inRec \ {f} : inRec[g].nonce = n

(***************************************************************************)
(* Incoming Interest pipeline with the strategy's afterReceiveInterest.    *)
(***************************************************************************)

\* afterReceiveInterest (pure virtual): the strategy forwards to a next hop
\* other than the ingress, or answers Nack(NoRoute) and rejects the entry,
\* or suppresses the Interest (it is already pending upstream).  timer is
\* the expiry the pipeline armed before dispatch: forwarding and suppressing
\* leave it, rejectPendingInterest overrides it with zero.
AfterReceiveInterest(ir, f, timer) ==
  \/ \E u \in NextHops \ {f} :
        /\ SendInterest(ir, f, u)
        /\ expiry' = timer
        /\ UNCHANGED <<sent, answers>>
  \/ LET r == SendNacks(ir, {})
     IN /\ inRec' = r.inRec
        /\ Send(r.out)
        /\ RejectPendingInterest
        /\ UNCHANGED outRec
  \/ /\ inRec' = ir
     /\ expiry' = timer
     /\ UNCHANGED <<outRec, sent, answers>>

IncomingInterest(f, n, t) ==
  LET id == nIn + 1
  IN
  /\ nIn < MaxInterests
  /\ nIn' = id
  /\ issued' = issued @@ (id :> t)
  /\ UNCHANGED <<nData, nNack, expired, cs>>
  /\ \/ \* loop: Nack(Duplicate) to the ingress, the PIT is left alone
        /\ pit /\ IsLoop(f, n)
        /\ Send({[kind |-> "Nack", face |-> f, tok |-> t, id |-> id]})
        /\ UNCHANGED <<pit, inRec, outRec, expiry, satisfied>>
     \/ \* not pending and a CS hit: afterContentStoreHit -> sendData to the
        \* ingress, the entry is satisfied and its timer set to zero
        /\ ~(pit /\ IsLoop(f, n))
        /\ DOMAIN inRec = {} /\ cs
        /\ pit' = TRUE /\ satisfied' = TRUE /\ expiry' = "zero"
        /\ AfterContentStoreHit(f, id)
        /\ UNCHANGED <<inRec, outRec>>
     \/ \* CS miss or pending: insert or refresh the in-record of f and set
        \* the entry's expiry timer to its lifetime (step 4), then
        \* afterReceiveInterest
        /\ ~(pit /\ IsLoop(f, n))
        /\ ~(DOMAIN inRec = {} /\ cs)
        /\ pit' = TRUE
        /\ UNCHANGED satisfied
        /\ AfterReceiveInterest((f :> [id |-> id, nonce |-> n, tok |-> t, live |-> TRUE]) @@ inRec,
                                f, "lifetime")

(***************************************************************************)
(* Incoming Data pipeline with the default afterReceiveData.               *)
(***************************************************************************)

\* Strategy::afterReceiveData: beforeSatisfyInterest (log only), then
\* sendDataToAll.
AfterReceiveData(u) ==
  LET r == SendDataToAll(inRec, u)
  IN /\ inRec' = r.inRec
     /\ Send(r.out)

IncomingData(u) ==
  /\ nData < MaxData
  /\ nData' = nData + 1
  /\ UNCHANGED <<nIn, nNack, issued, expired, outRec, pit>>
  /\ \/ \* matches the PIT entry: CS insert, timer to zero, satisfied
        /\ pit
        /\ cs' = (cs \/ Admit)
        /\ satisfied' = TRUE /\ expiry' = "zero"
        /\ AfterReceiveData(u)
     \/ \* unsolicited
        /\ ~pit
        /\ cs' = (cs \/ AdmitUnsolicited)
        /\ UNCHANGED <<satisfied, expiry, inRec, sent, answers>>

(***************************************************************************)
(* Incoming Nack pipeline with afterReceiveNack.                           *)
(***************************************************************************)

\* accepted only with an out-record of the ingress with the Nack's nonce,
\* on an entry not yet satisfied
NackAccepted(u, n) ==
  pit /\ u \in DOMAIN outRec /\ outRec[u].nonce = n /\ ~satisfied

\* afterReceiveNack: the default only logs; a strategy that has no upstream
\* left sends Nacks to all downstreams and rejects the entry.
AfterReceiveNack ==
  \/ UNCHANGED <<inRec, sent, answers, expiry>>
  \/ LET r == SendNacks(inRec, {})
     IN /\ \A g \in DOMAIN outRec' : outRec'[g].nacked
        /\ inRec' = r.inRec
        /\ Send(r.out)
        /\ RejectPendingInterest

IncomingNack(u, n) ==
  /\ nNack < MaxNacks
  /\ nNack' = nNack + 1
  /\ UNCHANGED <<nIn, nData, issued, expired, pit, satisfied, cs>>
  /\ \/ /\ NackAccepted(u, n)
        /\ outRec' = [outRec EXCEPT ![u].nacked = TRUE]
        /\ AfterReceiveNack
     \/ /\ ~NackAccepted(u, n)
        /\ UNCHANGED <<outRec, inRec, sent, answers, expiry>>

(***************************************************************************)
(* Timers.                                                                 *)
(***************************************************************************)

\* the lifetime of the Interest held by the in-record of f passes
InRecordExpire(f) ==
  /\ f \in DOMAIN inRec /\ inRec[f].live
  /\ inRec' = [inRec EXCEPT ![f].live = FALSE]
  /\ expired' = expired \cup {inRec[f].id}
  /\ UNCHANGED <<pit, outRec, expiry, satisfied, cs, sent, answers, issued, nIn, nData, nNack>>

\* Mutant: the entry is erased but its out-records are left behind.
PitExpireKeepOutRecords ==
  /\ pit
  /\ \/ expiry = "zero"
     \/ expiry = "lifetime" /\ \A f \in DOMAIN inRec : ~inRec[f].live
  /\ pit' = FALSE /\ inRec' = <<>>
  /\ expiry' = "none" /\ satisfied' = FALSE
  /\ UNCHANGED <<outRec, cs, sent, answers, issued, expired, nIn, nData, nNack>>

\* the expiry timer fires: at zero, or at the last in-record expiry
PitExpire ==
  /\ pit
  /\ \/ expiry = "zero"
     \/ expiry = "lifetime" /\ \A f \in DOMAIN inRec : ~inRec[f].live
  /\ pit' = FALSE /\ inRec' = <<>> /\ outRec' = <<>>
  /\ expiry' = "none" /\ satisfied' = FALSE
  /\ UNCHANGED <<cs, sent, answers, issued, expired, nIn, nData, nNack>>

Next ==
  \/ \E f \in Faces, n \in Nonces : \E t \in {NoToken, f} : IncomingInterest(f, n, t)
  \/ \E u \in Faces : IncomingData(u)
  \/ \E u \in Faces, n \in Nonces : IncomingNack(u, n)
  \/ \E f \in Faces : InRecordExpire(f)
  \/ PitExpire

Spec == Init /\ [][Next]_vars

(***************************************************************************)
(* Properties.                                                             *)
(***************************************************************************)

\* Each Interest a downstream sent is answered at most once, by one Data or
\* one Nack: sendData and sendNack delete the in-record they answer, so a
\* second Data from another upstream, or a Nack after a Data, finds none.
AnswerOnce == \A i \in Ids : answers[i] <= 1

\* A Data sent to a downstream carries that downstream's own PitToken or
\* none (spec 4.4: the token of the matched in-record, stripped if absent);
\* sendInterest must never leave this worker's token in an in-record.
EchoesDownstreamToken ==
  \A p \in sent : p.kind = "Data" => p.tok \in {issued[p.id], NoToken}

\* No Data is sent for an Interest whose lifetime has passed: sendDataToAll
\* skips in-records that have expired even though they are still present.
NoDataForExpired == \A p \in sent : p.kind = "Data" => p.id \notin expired

=============================================================================
