----------------------------- MODULE PacketQueue -----------------------------
(***************************************************************************)
(* What framing promises over a byte stream: packets arrive whole, once,   *)
(* and in the order they were sent.                                        *)
(***************************************************************************)
EXTENDS Sequences, Naturals

CONSTANT Bodies

VARIABLES sent, delivered

Send(p) == sent' = Append(sent, p) /\ UNCHANGED delivered

Deliver ==
    /\ Len(delivered) < Len(sent)
    /\ delivered' = Append(delivered, sent[Len(delivered) + 1])
    /\ UNCHANGED sent

Init == sent = <<>> /\ delivered = <<>>

Next == (\E p \in Bodies : Send(p)) \/ Deliver

Spec == Init /\ [][Next]_<<sent, delivered>>
=============================================================================
