----------------------------- MODULE FifoChannel -----------------------------
(***************************************************************************)
(* What a one-way in-process link promises: every message sent is          *)
(* delivered, once, in the order sent.  Abstract; the internal face's       *)
(* client-to-forwarder link (InternalTransport) is shown to implement it.   *)
(***************************************************************************)
EXTENDS Naturals, Sequences

CONSTANT Msgs

VARIABLES
  sent,       \* the messages handed to the link, in order
  delivered   \* the messages handed up at the far end, in order

Init == sent = <<>> /\ delivered = <<>>

Send(m) == sent' = Append(sent, m) /\ UNCHANGED delivered

\* the oldest message not yet delivered is handed up
Deliver ==
  /\ Len(delivered) < Len(sent)
  /\ delivered' = Append(delivered, sent[Len(delivered) + 1])
  /\ UNCHANGED sent

Next == (\E m \in Msgs : Send(m)) \/ Deliver

Spec == Init /\ [][Next]_<<sent, delivered>> /\ WF_<<sent, delivered>>(Deliver)

==============================================================================
