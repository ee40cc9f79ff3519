-------------------------- MODULE MCDeliveryQueue --------------------------
(***************************************************************************)
(* Instances of DeliveryQueue for TLC.                                     *)
(***************************************************************************)
EXTENDS DeliveryQueue, TLC

CONSTANTS w1, w2, seqA

\* Two messages of one outbox sequence.
PairMsgs == 1..2
PairSequence == [m \in PairMsgs |-> seqA]

Delays == <<1>>
RetryAfter == {2}
=============================================================================
