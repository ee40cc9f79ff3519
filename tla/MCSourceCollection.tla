------------------------- MODULE MCSourceCollection -------------------------
(***************************************************************************)
(* Instances of SourceCollection for TLC.                                  *)
(***************************************************************************)
EXTENDS SourceCollection, TLC

CONSTANTS c1, c2, x1, x2

AllKinds == {"pulls", "issues", "drive", "gmail"}
CollectionSymmetry == Permutations(Collectors) \cup Permutations(Items)
=============================================================================
