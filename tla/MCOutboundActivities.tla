----------------------- MODULE MCOutboundActivities -----------------------
(***************************************************************************)
(* Instances of OutboundActivities for TLC.                                *)
(***************************************************************************)
EXTENDS OutboundActivities, TLC

CONSTANTS f1, f2, r1, r2, inbox1, inbox2

OneFollower == {f1}
PersonalInbox == f1 :> inbox1

TwoFollowers == {f1, f2}
SharedInbox == [f \in TwoFollowers |-> inbox1]
=============================================================================
