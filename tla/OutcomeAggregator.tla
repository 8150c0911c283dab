-------------------------- MODULE OutcomeAggregator --------------------------
(***************************************************************************)
(* The test-completion path of the integration-service PipelineRun adapter *)
(* (controllers/pipeline/pipeline_adapter.go):                             *)
(* EnsureApplicationSnapshotPassedAllTests and the helpers it calls, for   *)
(* the integration PipelineRuns of one ApplicationSnapshot.                *)
(*                                                                         *)
(* Each finished integration PipelineRun is an event in the work queue.    *)
(* A worker Gets the snapshot named by the run's label, lists the required *)
(* IntegrationTestScenarios, resolves one run per scenario (the triggering *)
(* run for its own scenario, else a List and the latest succeeded run),    *)
(* and, when every scenario is resolved, reduces the runs' task results to *)
(* a verdict and patches the HACBSTestSucceeded condition.  Other runs     *)
(* finish, and other workers patch, between any two of these store calls.  *)
(***************************************************************************)
EXTENDS Naturals, FiniteSets, Sequences, SequencesExt

CONSTANTS
    Scenarios,        \* the Application's IntegrationTestScenarios
    OptionalLabels,   \* labellings [Scenarios -> {"true", "false", "absent"}] the
                      \* Application's scenarios may carry
    Runs,             \* integration PipelineRuns of the snapshot
    RunScenario,      \* [Runs -> Scenarios]: the run's scenario label
    Unlabelled,       \* runs that carry no snapshot label
    ResultChoices,    \* the sets of task outcomes a run may end with
    StatusChoices,    \* the Succeeded conditions a run may end with
    Workers,          \* MaxConcurrentReconciles of the controller
    MaxStoreFailures, \* bound on failed store calls
    MaxRedeliveries   \* bound on duplicate deliveries of an event

(***************************************************************************)
(* The outcome of one task of a run, as calculateIntegrationPipelineRunOutcome *)
(* sees it: the "result" field of its HACBS_TEST_OUTPUT result, a value    *)
(* that is not JSON ("MALFORMED"), or no HACBS_TEST_OUTPUT result ("NONE"). *)
(***************************************************************************)
TaskOutcomes == {"SUCCESS", "SKIPPED", "FAILURE", "MALFORMED", "NONE"}

ASSUME \A r \in Runs : RunScenario[r] \in Scenarios
ASSUME Unlabelled \subseteq Runs
ASSUME OptionalLabels # {}
ASSUME ResultChoices \subseteq SUBSET TaskOutcomes
ASSUME StatusChoices \subseteq {"succeeded", "failed"} /\ StatusChoices # {}
ASSUME Workers \in Nat \ {0}
ASSUME MaxStoreFailures \in Nat /\ MaxRedeliveries \in Nat

VARIABLES
    verdict,      \* the snapshot's HACBSTestSucceeded condition in the store
    runStatus,    \* the Succeeded condition of each run
    runResults,   \* the task outcomes of each finished run
    runTime,      \* CompletionTime of each finished run, in seconds
    clock,        \* the current second
    pc,           \* where the event of each run is
    snapRead,     \* the condition in the handler's copy of the snapshot
    scen,         \* the required scenarios the handler listed
    todo,         \* the scenarios its loop has still to resolve
    found,        \* the runs its loop resolved
    want,         \* the verdict it is about to patch
    failures,     \* store calls that failed so far
    redeliveries, \* duplicate deliveries so far
    optionalLabel \* each scenario's optional label (fixed during a behaviour)

vars == <<verdict, runStatus, runResults, runTime, clock, optionalLabel, pc, snapRead,
          scen, todo, found, want, failures, redeliveries>>

handlerVars == <<snapRead, scen, todo, found, want>>

Verdicts == {"Unknown", "Passed", "Failed"}
Busy == {"getSnapshot", "listScenarios", "listRuns", "evaluate", "patch", "updateStatus"}
States == {"running", "queued", "done", "dropped"} \cup Busy
Finished == {r \in Runs : runStatus[r] # "running"}

(***************************************************************************)
(* getRequiredIntegrationTestScenariosForApplication: the label selector   *)
(* "test.appstudio.openshift.io/optional notin (false)", which an absent   *)
(* label also satisfies.                                                   *)
(***************************************************************************)
RequiredScenarios == {s \in Scenarios : optionalLabel[s] # "false"}

(***************************************************************************)
(* getLatestPipelineRunForApplicationSnapshotAndScenario.  The List        *)
(* returns the runs labelled with the snapshot and the scenario, finished  *)
(* or not, in any order; the loop keeps a run whose Succeeded condition is *)
(* true when there is no latest yet or its CompletionTime is After the     *)
(* latest's.  Times have one-second resolution and After is strict, so of  *)
(* two runs finished in the same second the first listed is kept.  The     *)
(* latest is a set: {} for nil, {q} for run q.                             *)
(***************************************************************************)
Succeeded(s) ==
    {r \in Runs \ Unlabelled : RunScenario[r] = s /\ runStatus[r] = "succeeded"}

\* Variant: the List misses the scenario label in its selector.
ListedRunsAnyScenario(s) == Runs \ Unlabelled

ListedRuns(s) == {q \in Runs \ Unlabelled : RunScenario[q] = s}

\* Variant: the first succeeded run is kept, CompletionTime is not compared.
FirstSucceeded(latest, q) ==
    IF runStatus[q] = "succeeded" /\ latest = {} THEN {q} ELSE latest

LaterSucceeded(latest, q) ==
    IF /\ runStatus[q] = "succeeded"
       /\ \/ latest = {}
          \/ \E l \in latest : runTime[q] > runTime[l]
    THEN {q} ELSE latest

\* The result of the loop for each order the List may return.
LatestPipelineRuns(s) ==
    {FoldLeft(LaterSucceeded, {}, list) : list \in SetToSeqs(ListedRuns(s))}

(***************************************************************************)
(* calculateIntegrationPipelineRunOutcome loops over Status.TaskRuns, a Go *)
(* map, so in random order: the first task whose value is not JSON returns *)
(* an error, the first whose result is not SUCCESS or SKIPPED returns      *)
(* false, and a run with neither passes.  The set of possible returns:     *)
(***************************************************************************)
Failing == {"FAILURE"}

\* Variant: SKIPPED counted as a failure.
calculateSkippedFails(r) ==
    LET tasks == runResults[r]
        bad == {"FAILURE", "SKIPPED"}
    IN  (IF "MALFORMED" \in tasks THEN {"error"} ELSE {})
          \cup (IF tasks \cap bad # {} THEN {"fail"} ELSE {})
          \cup (IF tasks \cap ({"MALFORMED"} \cup bad) = {} THEN {"pass"} ELSE {})

calculateIntegrationPipelineRunOutcome(r) ==
    LET tasks == runResults[r]
    IN  (IF "MALFORMED" \in tasks THEN {"error"} ELSE {})
          \cup (IF tasks \cap Failing # {} THEN {"fail"} ELSE {})
          \cup (IF tasks \cap ({"MALFORMED"} \cup Failing) = {} THEN {"pass"} ELSE {})

(***************************************************************************)
(* determineIfAllIntegrationPipelinesPassed: an error of any run is        *)
(* returned; otherwise all passed or not.  Given one outcome per run:      *)
(***************************************************************************)
determineIfAllIntegrationPipelinesPassed(outcome) ==
    IF \E r \in DOMAIN outcome : outcome[r] = "error" THEN "error"
    ELSE IF \A r \in DOMAIN outcome : outcome[r] = "pass" THEN "Passed"
    ELSE "Failed"

-----------------------------------------------------------------------------
(***************************************************************************)
(* Results of an operation (controllers/results), as in SnapshotMatcher.   *)
(* ContinueProcessing ends the reconcile: this is the last operation.      *)
(***************************************************************************)
ResetHandler(r) ==
    /\ snapRead' = [snapRead EXCEPT ![r] = "Unknown"]
    /\ scen' = [scen EXCEPT ![r] = {}]
    /\ todo' = [todo EXCEPT ![r] = {}]
    /\ found' = [found EXCEPT ![r] = {}]
    /\ want' = [want EXCEPT ![r] = "Unknown"]

RequeueWithError(r) == pc' = [pc EXCEPT ![r] = "queued"] /\ ResetHandler(r)
ContinueProcessing(r) == pc' = [pc EXCEPT ![r] = "done"] /\ ResetHandler(r)
RequeueOnErrorOrStop(r) == pc' = [pc EXCEPT ![r] = "updateStatus"] /\ ResetHandler(r)

StoreCallFails == /\ failures < MaxStoreFailures
                  /\ failures' = failures + 1

StoreCallSucceeds == UNCHANGED failures

Goto(r, state) == pc' = [pc EXCEPT ![r] = state]

-----------------------------------------------------------------------------
Init ==
    /\ verdict = "Unknown"
    /\ runStatus = [r \in Runs |-> "running"]
    /\ runResults = [r \in Runs |-> {}]
    /\ runTime = [r \in Runs |-> 0]
    /\ clock = 0
    /\ optionalLabel \in OptionalLabels
    /\ pc = [r \in Runs |-> "running"]
    /\ snapRead = [r \in Runs |-> "Unknown"]
    /\ scen = [r \in Runs |-> {}]
    /\ todo = [r \in Runs |-> {}]
    /\ found = [r \in Runs |-> {}]
    /\ want = [r \in Runs |-> "Unknown"]
    /\ failures = 0
    /\ redeliveries = 0

(***************************************************************************)
(* Tekton finishes a run, in the same second as the previous completion or *)
(* a later one, with its Succeeded condition and task results; the event   *)
(* enters the work queue.                                                  *)
(***************************************************************************)
\* Nothing reads the outcome of a run without snapshot label: one stands for all.
OutcomeChoices(r, choices) ==
    IF r \in Unlabelled THEN {CHOOSE x \in choices : TRUE} ELSE choices

Complete(r) ==
    /\ runStatus[r] = "running"
    /\ \E st \in OutcomeChoices(r, StatusChoices),
          res \in OutcomeChoices(r, ResultChoices),
          t \in {clock, clock + 1} :
          /\ runStatus' = [runStatus EXCEPT ![r] = st]
          /\ runResults' = [runResults EXCEPT ![r] = res]
          /\ runTime' = [runTime EXCEPT ![r] = t]
          /\ clock' = t
    /\ Goto(r, "queued")
    /\ UNCHANGED <<verdict, optionalLabel, handlerVars, failures, redeliveries>>

Dequeue(r) ==
    /\ pc[r] = "queued"
    /\ Cardinality({x \in Runs : pc[x] \in Busy}) < Workers
    /\ Goto(r, "getSnapshot")
    /\ UNCHANGED <<verdict, runStatus, runResults, runTime, clock, optionalLabel, handlerVars,
                   failures, redeliveries>>

(***************************************************************************)
(* getApplicationSnapshotFromPipelineRun: no snapshot label is an error,   *)
(* and so is a failed Get; both return RequeueWithError.                   *)
(***************************************************************************)
GetSnapshot(r) ==
    /\ pc[r] = "getSnapshot"
    /\ \/ /\ r \in Unlabelled
          /\ RequeueWithError(r)
          /\ StoreCallSucceeds
       \/ /\ r \notin Unlabelled
          /\ StoreCallFails
          /\ RequeueWithError(r)
       \/ /\ r \notin Unlabelled
          /\ StoreCallSucceeds
          /\ snapRead' = [snapRead EXCEPT ![r] = verdict]
          /\ Goto(r, "listScenarios")
          /\ UNCHANGED <<scen, todo, found, want>>
    /\ UNCHANGED <<verdict, runStatus, runResults, runTime, clock, optionalLabel, redeliveries>>

\* A failed List of the scenarios returns RequeueWithError.
ListScenarios(r) ==
    /\ pc[r] = "listScenarios"
    /\ \/ /\ StoreCallFails
          /\ RequeueWithError(r)
       \/ /\ StoreCallSucceeds
          /\ scen' = [scen EXCEPT ![r] = RequiredScenarios]
          /\ todo' = [todo EXCEPT ![r] = RequiredScenarios]
          /\ Goto(r, IF RequiredScenarios = {} THEN "evaluate" ELSE "listRuns")
          /\ UNCHANGED <<snapRead, found, want>>
    /\ UNCHANGED <<verdict, runStatus, runResults, runTime, clock, optionalLabel, redeliveries>>

(***************************************************************************)
(* One iteration of getAllPipelineRunsForApplicationSnapshot, for the next *)
(* scenario in list order: the triggering run itself for its own scenario, *)
(* otherwise the latest succeeded run from a List, if there is one.  A     *)
(* failed List goes to RequeueOnErrorOrStop(a.updateStatus()).             *)
(***************************************************************************)
\* The runs an iteration appends: the trigger, nothing, or the latest run.
ResolveScenario(r, s) ==
    IF RunScenario[r] = s THEN {{r}} ELSE LatestPipelineRuns(s)

ListRuns(r) ==
    /\ pc[r] = "listRuns"
    /\ \E s \in todo[r] : \E add \in ResolveScenario(r, s) :
          /\ todo' = [todo EXCEPT ![r] = @ \ {s}]
          /\ found' = [found EXCEPT ![r] = @ \cup add]
    /\ StoreCallSucceeds
    /\ Goto(r, IF todo'[r] = {} THEN "evaluate" ELSE "listRuns")
    /\ UNCHANGED <<verdict, runStatus, runResults, runTime, clock, optionalLabel, snapRead, scen,
                   want, redeliveries>>

ListRunsFails(r) ==
    /\ pc[r] = "listRuns"
    /\ \E s \in todo[r] : RunScenario[r] # s
    /\ StoreCallFails
    /\ RequeueOnErrorOrStop(r)
    /\ UNCHANGED <<verdict, runStatus, runResults, runTime, clock, optionalLabel, redeliveries>>

(***************************************************************************)
(* Not all scenarios resolved: ContinueProcessing, no verdict.  Otherwise  *)
(* the reduction of the runs' outcomes; an error goes to                   *)
(* RequeueOnErrorOrStop(a.updateStatus()).                                 *)
(***************************************************************************)
\* Variant: the loop is taken as complete once it resolved any scenario.
AnyResolved(r) == found[r] # {} \/ scen[r] = {}

\* Variant: no verdict unless at least one run was resolved.
SomeRunResolved(r) == found[r] # {} /\ Cardinality(scen[r]) = Cardinality(found[r])

\* The completeness test: as many runs resolved as scenarios listed.
AllResolved(r) == Cardinality(scen[r]) = Cardinality(found[r])

Evaluate(r) ==
    /\ pc[r] = "evaluate"
    /\ \/ /\ ~AllResolved(r)
          /\ ContinueProcessing(r)
       \/ /\ AllResolved(r)
          /\ \E outcome \in [found[r] -> {"pass", "fail", "error"}] :
                /\ \A q \in found[r] : outcome[q] \in calculateIntegrationPipelineRunOutcome(q)
                /\ \/ /\ determineIfAllIntegrationPipelinesPassed(outcome) = "error"
                      /\ RequeueOnErrorOrStop(r)
                   \/ /\ determineIfAllIntegrationPipelinesPassed(outcome) # "error"
                      /\ want' = [want EXCEPT ![r] = determineIfAllIntegrationPipelinesPassed(outcome)]
                      /\ Goto(r, "patch")
                      /\ UNCHANGED <<snapRead, scen, todo, found>>
    /\ StoreCallSucceeds
    /\ UNCHANGED <<verdict, runStatus, runResults, runTime, clock, optionalLabel, redeliveries>>

(***************************************************************************)
(* markSnapshotAsPassed / markSnapshotAsFailed: SetStatusCondition on the  *)
(* handler's copy and a merge patch from that copy, without a              *)
(* resourceVersion.  If the copy already had the condition the patch is    *)
(* empty and the store keeps what it has; otherwise the patch replaces the *)
(* conditions, whatever another worker wrote since the Get.                *)
(***************************************************************************)
PatchedVerdict(r) == IF want[r] = snapRead[r] THEN verdict ELSE want[r]

Patch(r) ==
    /\ pc[r] = "patch"
    /\ \/ /\ StoreCallSucceeds
          /\ verdict' = PatchedVerdict(r)
          /\ ContinueProcessing(r)
       \/ /\ StoreCallFails
          /\ UNCHANGED verdict
          /\ RequeueOnErrorOrStop(r)
    /\ UNCHANGED <<runStatus, runResults, runTime, clock, optionalLabel, redeliveries>>

\* updateStatus writes the run's status back unchanged, then stop or requeue.
UpdateStatus(r) ==
    /\ pc[r] = "updateStatus"
    /\ \/ /\ StoreCallSucceeds
          /\ Goto(r, "dropped")
       \/ /\ StoreCallFails
          /\ Goto(r, "queued")
    /\ UNCHANGED <<verdict, runStatus, runResults, runTime, clock, optionalLabel, handlerVars,
                   redeliveries>>

Redeliver(r) ==
    /\ pc[r] \in {"done", "dropped"}
    /\ redeliveries < MaxRedeliveries
    /\ Goto(r, "queued")
    /\ redeliveries' = redeliveries + 1
    /\ UNCHANGED <<verdict, runStatus, runResults, runTime, clock, optionalLabel, handlerVars, failures>>

Handle(r) ==
    \/ Dequeue(r)
    \/ GetSnapshot(r)
    \/ ListScenarios(r)
    \/ ListRuns(r)
    \/ ListRunsFails(r)
    \/ Evaluate(r)
    \/ Patch(r)
    \/ UpdateStatus(r)

Next ==
    \E r \in Runs :
        \/ Complete(r)
        \/ Handle(r)
        \/ Redeliver(r)

Fairness == \A r \in Runs : WF_vars(Handle(r))

Spec == Init /\ [][Next]_vars /\ Fairness

-----------------------------------------------------------------------------
TypeOK ==
    /\ verdict \in Verdicts
    /\ runStatus \in [Runs -> {"running", "succeeded", "failed"}]
    /\ runResults \in [Runs -> SUBSET TaskOutcomes]
    /\ runTime \in [Runs -> 0..Cardinality(Runs)]
    /\ pc \in [Runs -> States]
    /\ snapRead \in [Runs -> Verdicts]
    /\ scen \in [Runs -> SUBSET Scenarios]
    /\ todo \in [Runs -> SUBSET Scenarios]
    \* the loop resolves a scenario with a finished run of that scenario
    /\ \A r \in Runs : \A q \in found[r] :
          q \in Finished /\ RunScenario[q] \in scen[r] \ todo[r]
    /\ want \in [Runs -> Verdicts]
    /\ failures \in 0..MaxStoreFailures
    /\ redeliveries \in 0..MaxRedeliveries
    /\ optionalLabel \in OptionalLabels

(***************************************************************************)
(* What the task results of a finished run say, by the rule of the design: *)
(* a run fails if a HACBS_TEST_OUTPUT result is neither SUCCESS nor        *)
(* SKIPPED, and passes if none is (a run without such results passes).     *)
(***************************************************************************)
RunFails(q) == "FAILURE" \in runResults[q]
RunPasses(q) == runResults[q] \cap {"FAILURE", "MALFORMED"} = {}

(***************************************************************************)
(* The snapshot's verdict is the reduction of a complete resolution: for   *)
(* some choice of one finished run of each required scenario, Passed only  *)
(* when every chosen run passed and Failed only when some chosen run       *)
(* failed.  So no verdict, Failed included, is written while a required    *)
(* scenario has no finished run (the completeness test before              *)
(* determineIfAllIntegrationPipelinesPassed), although several workers     *)
(* patch the condition, each from its own reads.                           *)
(***************************************************************************)
Resolutions ==
    {pick \in [RequiredScenarios -> Finished \ Unlabelled] :
        \A s \in RequiredScenarios : RunScenario[pick[s]] = s}

VerdictJustified ==
    verdict # "Unknown" =>
        \E pick \in Resolutions :
            /\ verdict = "Passed" => \A s \in RequiredScenarios : RunPasses(pick[s])
            /\ verdict = "Failed" => \E s \in RequiredScenarios : RunFails(pick[s])

(***************************************************************************)
(* A snapshot is marked Passed only when every required scenario has a run *)
(* whose Succeeded condition is true: the condition the List-based         *)
(* resolution of getLatestPipelineRunForApplicationSnapshotAndScenario     *)
(* insists on.                                                             *)
(***************************************************************************)
PassedOnlyOnSucceededRuns ==
    verdict = "Passed" => \A s \in RequiredScenarios : Succeeded(s) # {}

(***************************************************************************)
(* Reference for the selection: the succeeded runs of a scenario that no   *)
(* other succeeded run of it completed after.                              *)
(***************************************************************************)
LatestCandidates(s) ==
    {r \in Succeeded(s) : \A q \in Succeeded(s) : runTime[q] <= runTime[r]}

(***************************************************************************)
(* Latest-wins selection (design section 8): whenever a List resolves a    *)
(* scenario for another run's event, the run the loop of                   *)
(* getLatestPipelineRunForApplicationSnapshotAndScenario keeps is one of   *)
(* the latest succeeded runs of that scenario, whatever order the List     *)
(* returns and however many runs finished in the same second; and a        *)
(* scenario that has a succeeded run is not left unresolved.               *)
(***************************************************************************)
LatestWins ==
    [][\A r \in Runs : \A s \in todo[r] \ todo'[r] :
          (pc'[r] \in {"listRuns", "evaluate"} /\ RunScenario[r] # s) =>
             /\ found'[r] \ found[r] \subseteq LatestCandidates(s)
             /\ Succeeded(s) # {} => found'[r] # found[r]]_vars

(***************************************************************************)
(* Once every run has finished and every event has been handled, the       *)
(* verdict is the reduction of the latest succeeded run of each required   *)
(* scenario (any of those finished in the same second), whenever each      *)
(* required scenario has one.                                              *)
(***************************************************************************)
Settled == \A r \in Runs : pc[r] \in {"done", "dropped"}

LatestVerdicts ==
    {IF \A s \in RequiredScenarios : RunPasses(pick[s]) THEN "Passed" ELSE "Failed" :
        pick \in {p \in [RequiredScenarios -> Runs] :
                     \A s \in RequiredScenarios : p[s] \in LatestCandidates(s)}}

SettledVerdictIsLatest ==
    (Settled /\ \A s \in RequiredScenarios : Succeeded(s) # {})
        => verdict \in LatestVerdicts

(***************************************************************************)
(* Once some run of the snapshot has finished and every required scenario  *)
(* has a finished run, the snapshot eventually gets a verdict.  This       *)
(* includes an Application whose scenarios are all labelled                *)
(* optional=false, where the completeness test compares 0 with 0 and the  *)
(* first finished run's event must still write the verdict.                *)
(***************************************************************************)
AllRequiredFinished ==
    /\ Finished \ Unlabelled # {}
    /\ \A s \in RequiredScenarios : \E q \in Finished : RunScenario[q] = s

VerdictEventuallyWritten == AllRequiredFinished ~> verdict # "Unknown"

(***************************************************************************)
(* Handling of the event of every run that names its snapshot ends,        *)
(* instead of being requeued forever, whatever else fails.                 *)
(***************************************************************************)
Handled(r) == pc[r] = "queued" ~> pc[r] \in {"done", "dropped"}

EventHandlingTerminates == \A r \in Runs \ Unlabelled : Handled(r)

(***************************************************************************)
(* A run without a snapshot label is a permanent input error: the design   *)
(* says such an event is not retried indefinitely.                         *)
(***************************************************************************)
PermanentErrorNotRetriedForever == \A r \in Unlabelled : Handled(r)
=============================================================================
