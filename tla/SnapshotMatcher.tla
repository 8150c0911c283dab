--------------------------- MODULE SnapshotMatcher ---------------------------
(***************************************************************************)
(* The build-completion path of the integration-service PipelineRun        *)
(* adapter (controllers/pipeline/pipeline_adapter.go):                     *)
(* EnsureApplicationSnapshotExists and the helpers it calls.               *)
(*                                                                         *)
(* Each build PipelineRun, once complete, is an event in the controller's  *)
(* work queue.  A worker handles it in the steps the code makes store      *)
(* calls in: list the Application's Components (prepare, for the search),  *)
(* list the ApplicationSnapshots and compare, list the Components again    *)
(* (prepare, inside createApplicationSnapshotForPipelineRun), Create, and  *)
(* on a failed create the PipelineRun status Update.  Between two store    *)
(* calls other workers and the build service may change the store.         *)
(***************************************************************************)
EXTENDS Naturals, Sequences, SequencesExt, FiniteSets

CONSTANTS
    Components,       \* the Application's Components (model values)
    Builds,           \* build PipelineRuns (model values)
    BuildComponent,   \* [Builds -> Components]: the Component a build is for
    OutputImage,      \* [Builds -> ImageURLs]: IMAGE_URL
    OutputDigest,     \* [Builds -> STRING \cup {NoResult}]: IMAGE_DIGEST
    InitialImage,     \* [Components -> pull specs]: Status.ContainerImage
    InitialComponents,\* the Components the Application starts with
    NoResult,         \* a build run without an IMAGE_DIGEST result
    Workers,          \* MaxConcurrentReconciles of the controller
    ImageUpdates,     \* whether the build service records built images
    MaxStoreFailures, \* bound on failed store calls
    MaxRedeliveries,  \* bound on duplicate deliveries of an event
    CacheLag          \* whether snapshot Lists are served from a lagging cache

ASSUME Workers \in Nat \ {0}
ASSUME ImageUpdates \in BOOLEAN /\ CacheLag \in BOOLEAN
ASSUME MaxStoreFailures \in Nat /\ MaxRedeliveries \in Nat
ASSUME \A b \in Builds : BuildComponent[b] \in Components
ASSUME InitialComponents \subseteq Components

VARIABLES
    present,      \* the Components the Application has
    compImage,    \* Component.Status.ContainerImage, per Component
    snapshots,    \* the ApplicationSnapshots of the Application, in list order
    pc,           \* where the event of each build is
    expected,     \* the handler's local expected snapshot components
    recorded,     \* builds whose image the build service has recorded
    failures,     \* store calls that failed so far
    redeliveries, \* duplicate deliveries so far
    cached        \* how many of the snapshots the informer cache holds

vars == <<present, compImage, snapshots, pc, expected, recorded, failures, redeliveries, cached>>

(***************************************************************************)
(* IMAGE_URL "registry[:port]/repository:tag" as a record of its parts     *)
(* (port "" when the URL has none).  A pull spec "repo@digest" is the pair *)
(* <<repo, digest>>.  getImagePullSpecFromPipelineRun takes the text       *)
(* before the first ':' (strings.Split(outputImage, ":")[0]), which is     *)
(* the registry host when the URL has a port and "registry/repository"     *)
(* otherwise, then '@', then IMAGE_DIGEST.                                 *)
(***************************************************************************)
ImageURLs == [registry : STRING, port : STRING, repository : STRING, tag : STRING]

FirstField(u) == IF u.port = "" THEN u.registry \o "/" \o u.repository ELSE u.registry

getImagePullSpecFromPipelineRun(b) == <<FirstField(OutputImage[b]), OutputDigest[b]>>

\* The image the build pushed: IMAGE_URL without its tag, then the digest.
ImageRepository(u) ==
    u.registry \o (IF u.port = "" THEN "" ELSE ":" \o u.port) \o "/" \o u.repository

PushedImage(b) == <<ImageRepository(OutputImage[b]), OutputDigest[b]>>

HasPullSpec(b) == OutputDigest[b] # NoResult

PullSpecs == {getImagePullSpecFromPipelineRun(b) : b \in {x \in Builds : HasPullSpec(x)}}
                \cup {PushedImage(b) : b \in {x \in Builds : HasPullSpec(x)}}
                \cup {InitialImage[c] : c \in Components}

\* An ApplicationSnapshotComponent {Name, ContainerImage}.
SnapshotComponent == Components \X PullSpecs

\* The states of an event.  Busy states hold a worker.
Busy == {"findComponents", "findSnapshots", "prepareCreate", "create", "updateStatus"}
States == {"running", "queued", "done", "dropped"} \cup Busy

(***************************************************************************)
(* prepareApplicationSnapshotForPipelineRun: the Components of the         *)
(* Application in the order the List returns them, each with its recorded  *)
(* image, except the build's Component, which gets the build's pull spec.  *)
(***************************************************************************)
\* Variant: the build's Component gets the whole IMAGE_URL, tag included, as repository.
prepareWithOutputImage(b, order) ==
    [i \in DOMAIN order |->
        <<order[i], IF order[i] = BuildComponent[b]
                    THEN <<ImageRepository(OutputImage[b]) \o ":" \o OutputImage[b].tag, OutputDigest[b]>>
                    ELSE compImage[order[i]]>>]

\* Variant: every other Component gets the build Component's recorded image
\* (component.Status.ContainerImage for applicationComponent's).
prepareWithBuildComponentImage(b, order) ==
    [i \in DOMAIN order |->
        <<order[i], IF order[i] = BuildComponent[b]
                    THEN getImagePullSpecFromPipelineRun(b)
                    ELSE compImage[BuildComponent[b]]>>]

prepareApplicationSnapshotForPipelineRun(b, order) ==
    [i \in DOMAIN order |->
        <<order[i], IF order[i] = BuildComponent[b]
                    THEN getImagePullSpecFromPipelineRun(b)
                    ELSE compImage[order[i]]>>]

\* The orders in which a List may return the Application's Components.
ListOrders == SetToSeqs(present)

(***************************************************************************)
(* compareApplicationSnapshots: same number of components, and every       *)
(* component of the expected snapshot equals some component of the found   *)
(* one.                                                                    *)
(***************************************************************************)
\* Variants: the slices compared in order; only the lengths compared.
compareInOrder(exp, found) == exp = found
compareLengthsOnly(exp, found) == Len(exp) = Len(found)

compareApplicationSnapshots(exp, found) ==
    /\ Len(exp) = Len(found)
    /\ \A i \in DOMAIN exp : \E j \in DOMAIN found : found[j] = exp[i]

(***************************************************************************)
(* getAllApplicationSnapshots lists by the "spec.application" field index, *)
(* which the client serves from its informer cache.  Snapshots are only    *)
(* appended, and the cache receives them in creation order, so it holds a  *)
(* prefix of them; with CacheLag that prefix may be shorter than the store.*)
(***************************************************************************)
getAllApplicationSnapshots ==
    IF CacheLag THEN SubSeq(snapshots, 1, cached) ELSE snapshots

\* findMatchingApplicationSnapshot finds a match among the listed snapshots.
HasMatchingSnapshot(exp) ==
    LET listed == getAllApplicationSnapshots
    IN  \E i \in DOMAIN listed : compareApplicationSnapshots(exp, listed[i].components)

-----------------------------------------------------------------------------
(***************************************************************************)
(* Results of an operation (controllers/results): RequeueWithError and a   *)
(* failed RequeueOnErrorOrStop put the event back in the queue;            *)
(* ContinueProcessing ends the reconcile of a build run, since the next    *)
(* operation skips non-integration runs; a successful RequeueOnErrorOrStop *)
(* stops and the event is gone.                                            *)
(***************************************************************************)
RequeueWithError(b) ==
    /\ pc' = [pc EXCEPT ![b] = "queued"]
    /\ expected' = [expected EXCEPT ![b] = <<>>]

ContinueProcessing(b) ==
    /\ pc' = [pc EXCEPT ![b] = "done"]
    /\ expected' = [expected EXCEPT ![b] = <<>>]

\* A store call may fail (connectivity, conflict, cancellation).
StoreCallFails == /\ failures < MaxStoreFailures
                  /\ failures' = failures + 1

StoreCallSucceeds == UNCHANGED failures

-----------------------------------------------------------------------------
Init ==
    /\ present = InitialComponents
    /\ compImage = InitialImage
    /\ snapshots = <<>>
    /\ pc = [b \in Builds |-> "running"]
    /\ expected = [b \in Builds |-> <<>>]
    /\ recorded = {}
    /\ failures = 0
    /\ redeliveries = 0
    /\ cached = 0

\* The build PipelineRun finishes; its event enters the work queue.
Complete(b) ==
    /\ pc[b] = "running"
    /\ BuildComponent[b] \in present
    /\ pc' = [pc EXCEPT ![b] = "queued"]
    /\ UNCHANGED <<present, compImage, snapshots, expected, recorded, failures, redeliveries, cached>>

\* A free worker takes the event.  The queue never hands one key to two workers.
Dequeue(b) ==
    /\ pc[b] = "queued"
    /\ Cardinality({x \in Builds : pc[x] \in Busy}) < Workers
    /\ pc' = [pc EXCEPT ![b] = "findComponents"]
    /\ UNCHANGED <<present, compImage, snapshots, expected, recorded, failures, redeliveries, cached>>

(***************************************************************************)
(* findMatchingApplicationSnapshot, first call: prepare lists the          *)
(* Components.  A failed List, or a build without IMAGE_DIGEST, makes      *)
(* EnsureApplicationSnapshotExists return RequeueWithError.                *)
(***************************************************************************)
FindComponents(b) ==
    /\ pc[b] = "findComponents"
    /\ \/ /\ StoreCallFails
          /\ RequeueWithError(b)
       \/ /\ StoreCallSucceeds
          /\ ~HasPullSpec(b)
          /\ RequeueWithError(b)
       \/ /\ StoreCallSucceeds
          /\ HasPullSpec(b)
          /\ \E order \in ListOrders :
                expected' = [expected EXCEPT ![b] = prepareApplicationSnapshotForPipelineRun(b, order)]
          /\ pc' = [pc EXCEPT ![b] = "findSnapshots"]
    /\ UNCHANGED <<present, compImage, snapshots, recorded, redeliveries, cached>>

(***************************************************************************)
(* findMatchingApplicationSnapshot, second call: getAllApplicationSnapshots *)
(* and the comparison loop.  A match ends the operation with Continue.     *)
(***************************************************************************)
\* Variant: a found match requeues the event instead of continuing.
FindSnapshotsRequeueOnMatch(b) ==
    /\ pc[b] = "findSnapshots"
    /\ \/ /\ StoreCallFails
          /\ RequeueWithError(b)
       \/ /\ StoreCallSucceeds
          /\ HasMatchingSnapshot(expected[b])
          /\ RequeueWithError(b)
       \/ /\ StoreCallSucceeds
          /\ ~HasMatchingSnapshot(expected[b])
          /\ pc' = [pc EXCEPT ![b] = "prepareCreate"]
          /\ UNCHANGED expected
    /\ UNCHANGED <<present, compImage, snapshots, recorded, redeliveries, cached>>

FindSnapshots(b) ==
    /\ pc[b] = "findSnapshots"
    /\ \/ /\ StoreCallFails
          /\ RequeueWithError(b)
       \/ /\ StoreCallSucceeds
          /\ HasMatchingSnapshot(expected[b])
          /\ ContinueProcessing(b)
       \/ /\ StoreCallSucceeds
          /\ ~HasMatchingSnapshot(expected[b])
          /\ pc' = [pc EXCEPT ![b] = "prepareCreate"]
          /\ UNCHANGED expected
    /\ UNCHANGED <<present, compImage, snapshots, recorded, redeliveries, cached>>

(***************************************************************************)
(* createApplicationSnapshotForPipelineRun prepares the snapshot again,    *)
(* from a fresh List of the Components.  An error here goes to             *)
(* RequeueOnErrorOrStop(a.updateStatus()).                                 *)
(***************************************************************************)
PrepareCreate(b) ==
    /\ pc[b] = "prepareCreate"
    /\ \/ /\ StoreCallFails
          /\ pc' = [pc EXCEPT ![b] = "updateStatus"]
          /\ expected' = [expected EXCEPT ![b] = <<>>]
       \/ /\ StoreCallSucceeds
          /\ \E order \in ListOrders :
                expected' = [expected EXCEPT ![b] = prepareApplicationSnapshotForPipelineRun(b, order)]
          /\ pc' = [pc EXCEPT ![b] = "create"]
    /\ UNCHANGED <<present, compImage, snapshots, recorded, redeliveries, cached>>

(***************************************************************************)
(* client.Create of the prepared snapshot, labelled with the Component.    *)
(* A failed Create may still have stored the object (a timeout after the   *)
(* server accepted it).  On error: RequeueOnErrorOrStop(a.updateStatus()). *)
(***************************************************************************)
NewSnapshot(b) == [components |-> expected[b], component |-> BuildComponent[b]]

Create(b) ==
    /\ pc[b] = "create"
    /\ \/ /\ StoreCallSucceeds
          /\ snapshots' = Append(snapshots, NewSnapshot(b))
          /\ ContinueProcessing(b)
       \/ /\ StoreCallFails
          /\ snapshots' \in {snapshots, Append(snapshots, NewSnapshot(b))}
          /\ pc' = [pc EXCEPT ![b] = "updateStatus"]
          /\ expected' = [expected EXCEPT ![b] = <<>>]
    /\ UNCHANGED <<present, compImage, recorded, redeliveries, cached>>

(***************************************************************************)
(* updateStatus writes the PipelineRun's status back unchanged.  If the    *)
(* write succeeds RequeueOnErrorOrStop stops: the event is dropped and the *)
(* earlier error is swallowed.  If it fails the event is requeued.         *)
(***************************************************************************)
UpdateStatus(b) ==
    /\ pc[b] = "updateStatus"
    /\ \/ /\ StoreCallSucceeds
          /\ pc' = [pc EXCEPT ![b] = "dropped"]
       \/ /\ StoreCallFails
          /\ pc' = [pc EXCEPT ![b] = "queued"]
    /\ UNCHANGED <<present, compImage, snapshots, expected, recorded, redeliveries, cached>>

(***************************************************************************)
(* Environment.  The build service records the image a finished build     *)
(* pushed as its Component's ContainerImage, at any time relative to the   *)
(* handler.                                                                *)
(* Delivery is at least once: a handled event may be delivered again.      *)
(***************************************************************************)
RecordImage(b) ==
    /\ ImageUpdates
    /\ pc[b] # "running"
    /\ HasPullSpec(b)
    /\ b \notin recorded
    /\ compImage' = [compImage EXCEPT ![BuildComponent[b]] = PushedImage(b)]
    /\ recorded' = recorded \cup {b}
    /\ UNCHANGED <<present, snapshots, pc, expected, failures, redeliveries, cached>>

\* A Component is added to the Application, with its image.
AddComponent(c) ==
    /\ c \notin present
    /\ present' = present \cup {c}
    /\ UNCHANGED <<compImage, snapshots, pc, expected, recorded, failures, redeliveries, cached>>

Redeliver(b) ==
    /\ pc[b] \in {"done", "dropped"}
    /\ redeliveries < MaxRedeliveries
    /\ pc' = [pc EXCEPT ![b] = "queued"]
    /\ redeliveries' = redeliveries + 1
    /\ UNCHANGED <<present, compImage, snapshots, expected, recorded, failures, cached>>

\* The informer cache receives the next created snapshot from its watch.
SyncCache ==
    /\ CacheLag
    /\ cached < Len(snapshots)
    /\ cached' = cached + 1
    /\ UNCHANGED <<present, compImage, snapshots, pc, expected, recorded, failures, redeliveries>>

Handle(b) ==
    \/ Dequeue(b)
    \/ FindComponents(b)
    \/ FindSnapshots(b)
    \/ PrepareCreate(b)
    \/ Create(b)
    \/ UpdateStatus(b)

Next ==
    \/ \E b \in Builds :
          \/ Complete(b)
          \/ Handle(b)
          \/ RecordImage(b)
          \/ Redeliver(b)
    \/ \E c \in Components : AddComponent(c)
    \/ SyncCache

\* Workers keep taking queued events and a started handler keeps running;
\* the watch keeps delivering to the cache.
Fairness == /\ \A b \in Builds : WF_vars(Handle(b))
            /\ WF_vars(SyncCache)

Spec == Init /\ [][Next]_vars /\ Fairness

-----------------------------------------------------------------------------
TypeOK ==
    /\ compImage \in [Components -> PullSpecs]
    /\ snapshots \in Seq([components : Seq(SnapshotComponent), component : Components])
    /\ pc \in [Builds -> States]
    /\ expected \in [Builds -> Seq(SnapshotComponent)]
    /\ present \subseteq Components
    /\ recorded \subseteq Builds
    /\ failures \in 0..MaxStoreFailures
    /\ redeliveries \in 0..MaxRedeliveries
    /\ cached \in 0..Len(snapshots)

\* Two snapshots hold the same images when their component sets are equal.
SameImages(s1, s2) == ToSet(s1) = ToSet(s2)

(***************************************************************************)
(* At most one ApplicationSnapshot per combination of images: the          *)
(* deduplication that findMatchingApplicationSnapshot exists for.          *)
(***************************************************************************)
NoDuplicateSnapshots ==
    \A i, j \in DOMAIN snapshots :
        i < j => ~SameImages(snapshots[i].components, snapshots[j].components)

(***************************************************************************)
(* An event that EnsureApplicationSnapshotExists finished with             *)
(* ContinueProcessing leaves a snapshot holding the build's image for its  *)
(* Component: a found match really matches, and a create really stored.   *)
(***************************************************************************)
HoldsBuildImage(s, b) ==
    <<BuildComponent[b], getImagePullSpecFromPipelineRun(b)>> \in ToSet(s.components)

DoneImpliesSnapshot ==
    \A b \in Builds :
        pc[b] = "done" => \E i \in DOMAIN snapshots : HoldsBuildImage(snapshots[i], b)

(***************************************************************************)
(* Every finished build that has an image is eventually handled to the     *)
(* end: the event is not dropped while no snapshot holds its image.        *)
(***************************************************************************)
BuildEventuallySnapshotted ==
    \A b \in Builds :
        HasPullSpec(b) =>
            (pc[b] = "queued" ~> \E i \in DOMAIN snapshots : HoldsBuildImage(snapshots[i], b))
(***************************************************************************)
(* Handling of every delivered event of a build that reports IMAGE_DIGEST  *)
(* ends: EnsureApplicationSnapshotExists finishes or stops instead of      *)
(* requeueing it forever, although a build without IMAGE_DIGEST is        *)
(* requeued by every attempt (RequeueWithError at lines 72 and 277-279)   *)
(* and keeps taking workers from the others.                               *)
(***************************************************************************)
EventHandlingTerminates ==
    \A b \in {x \in Builds : HasPullSpec(x)} : pc[b] = "queued" ~> pc[b] \in {"done", "dropped"}

(***************************************************************************)
(* EnsureApplicationSnapshotExists implements the registry of design       *)
(* sections 3 and 4.2 (module SnapshotRegistry) for an Application whose   *)
(* Component set is fixed: under any interleaving of workers, image        *)
(* recording, snapshot Lists from a lagging cache, failed or half-done     *)
(* store calls and redelivery, every snapshot created pairs each Component *)
(* once with an image it has had and the build's Component with the image  *)
(* the build pushed, snapshots are never changed or removed, and an event  *)
(* ends with ContinueProcessing only when a stored snapshot holds its      *)
(* image.  A Component joining between the List at line 423 and the Create *)
(* at line 427 breaks the refinement (a partial snapshot); the runs that   *)
(* check it keep the Component set fixed.                                  *)
(***************************************************************************)
Registry == INSTANCE SnapshotRegistry WITH
    BuildImage <- [b \in {x \in Builds : HasPullSpec(x)} |-> PushedImage(b)],
    history <- [c \in Components |->
                  {InitialImage[c]} \cup
                  {PushedImage(b) : b \in {x \in recorded : BuildComponent[x] = c}}],
    members <- present,
    done <- {b \in Builds : pc[b] = "done"}

ImplementsSnapshotRegistry == Registry!Spec
=============================================================================
