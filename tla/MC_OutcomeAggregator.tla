------------------------ MODULE MC_OutcomeAggregator ------------------------
(***************************************************************************)
(* Model values for OutcomeAggregator: three scenarios, S1 without the     *)
(* optional label, S2 labelled optional=true, S3 labelled optional=false;  *)
(* runs r1 and r3 of S1 (r3 a rerun) and r2 of S2.                         *)
(***************************************************************************)
EXTENDS OutcomeAggregator, TLC

CONSTANTS S1, S2, S3, r1, r2, r3

MCScenarios == {S1, S2, S3}
MCOptionalLabel == (S1 :> "absent") @@ (S2 :> "true") @@ (S3 :> "false")
MCOptionalLabels == {MCOptionalLabel}
\* Or every scenario labelled optional=false: no scenario is required.
MCOptionalLabelsNoneRequired == {MCOptionalLabel, [s \in MCScenarios |-> "false"]}
MCRuns == {r1, r2, r3}
MCRunsTwo == {r1, r2}
MCRunScenario == (r1 :> S1) @@ (r2 :> S2) @@ (r3 :> S1)
MCUnlabelledNone == {}
MCUnlabelledR3 == {r3}
\* Task outcomes: passing, failing, skipped plus a task without
\* HACBS_TEST_OUTPUT, and a malformed value next to a failure.
MCResultChoicesConcurrent == {{"SUCCESS"}, {"SKIPPED", "NONE"}, {"MALFORMED", "FAILURE"}}
MCResultChoicesWellFormed == {{"SUCCESS"}, {"FAILURE"}, {"SKIPPED", "NONE"}}
MCStatusAll == {"succeeded", "failed"}
MCStatusSucceeded == {"succeeded"}
=============================================================================
