------------------------- MODULE MCDocumentPipeline -------------------------
(***************************************************************************)
(* Instances of DocumentPipeline for TLC.                                  *)
(***************************************************************************)
EXTENDS DocumentPipeline, TLC

CONSTANTS c1, p1, p2, k1, k2, g1

\* A source that is updated once.
TwoVersions == 1..2
Update == {<<1, 2>>}

\* A source that is updated and goes back to what it held.
UpdateAndRevert == {<<1, 2>>, <<2, 1>>}

\* A new parser version reads the second version of the source differently.
TwoParsers == 1..2
TextsRead == (<<1, 1>> :> "a" @@ <<1, 2>> :> "a") @@ (<<2, 1>> :> "b" @@ <<2, 2>> :> "c")

\* Each version has its object (a short URL), or both have one (a long URL).
TwoObjects == 1..2
Apart == <<1, 2>>
Shared == <<1, 1>>
BothLayouts == {Apart, Shared}
ApartOnly == {Apart}

\* Faults and commands: a command around a fault, or a promotion and what it entails.
OneEach == {<<1, 1>>, <<0, 2>>}
OneFault == {<<1, 0>>, <<0, 2>>}
NoTrouble == {<<0, 0>>}

WorkerSymmetry == Permutations(Parsers) \cup Permutations(Chunkers)
=============================================================================
