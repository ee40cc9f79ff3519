------------------------- MODULE MCFollowHandshake -------------------------
(***************************************************************************)
(* Instances of FollowHandshake for TLC.                                   *)
(***************************************************************************)
EXTENDS FollowHandshake, TLC

CONSTANTS a1, a2, r1

\* An actor that comes back.
FollowsTwice == a1 :> 2
=============================================================================
