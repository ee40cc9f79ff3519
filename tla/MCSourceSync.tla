---------------------------- MODULE MCSourceSync ----------------------------
(***************************************************************************)
(* Instances of SourceSync for TLC.                                        *)
(***************************************************************************)
EXTENDS SourceSync, TLC

CONSTANTS w1, w2

\* The first one takes jobs down.
TwoSchedules == 1..2
HeavySchedules == {1}
WorkerSymmetry == Permutations(Workers)
OneDelay == <<1>>
=============================================================================
