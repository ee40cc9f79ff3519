-------------------------- MODULE MCReportSchedule --------------------------
(***************************************************************************)
(* Instances of ReportSchedule for TLC.                                    *)
(***************************************************************************)
EXTENDS ReportSchedule, TLC

CONSTANTS w1, w2, weekly, monthly

\* One frequency with periods of two instants, or a second one with four.
OneFreq == {weekly}
OneStep == weekly :> 2
TwoFreqs == {weekly, monthly}
TwoSteps == (weekly :> 2) @@ (monthly :> 4)

WorkerSymmetry == Permutations(Workers)
=============================================================================
