-------------------------- MODULE SnapshotRegistry --------------------------
(***************************************************************************)
(* What the Snapshot Matcher promises its callers (design section 4.2),    *)
(* and the data model (section 3), with no store calls and no handler      *)
(* steps: an append-only list of ApplicationSnapshots, each pairing every  *)
(* Component the Application has when it is created once with an image     *)
(* that Component has had ("no partial snapshots"), except the build's     *)
(* Component, which gets the image the build produced; and a build event   *)
(* is reported handled only when some snapshot holds its image.            *)
(*                                                                         *)
(* Deduplication is not part of the promise: the design states that there  *)
(* is no atomic check-and-create, so two snapshots of one combination are  *)
(* allowed here (SnapshotMatcher checks the serial case separately).       *)
(***************************************************************************)
EXTENDS Naturals, Sequences, SequencesExt, FiniteSets

CONSTANTS
    Components,     \* the Application's Components
    Builds,         \* build PipelineRuns
    BuildComponent, \* [Builds -> Components]
    BuildImage,     \* the pull spec each build with an image produced
    InitialImage,   \* [Components -> pull specs] before any build
    InitialComponents \* the Components the Application starts with

VARIABLES
    members,   \* the Components the Application has
    history,   \* the images each Component has had recorded
    snapshots, \* the ApplicationSnapshots, in creation order
    done       \* builds whose event was reported handled

vars == <<members, history, snapshots, done>>

Imaged == DOMAIN BuildImage
Images == Range(InitialImage) \cup Range(BuildImage)

\* A snapshot's components: every member of the Application once, in some order.
Combinations ==
    {[i \in DOMAIN order |-> <<order[i], img[order[i]]>>] :
        order \in SetToSeqs(members), img \in [members -> Images]}

HoldsImage(s, b) == <<BuildComponent[b], BuildImage[b]>> \in ToSet(s.components)

\* A snapshot the build b may be given.
ValidFor(s, b) ==
    /\ s.component = BuildComponent[b]
    /\ HoldsImage(s, b)
    /\ \A p \in ToSet(s.components) :
          p[1] # BuildComponent[b] => p[2] \in history[p[1]]

-----------------------------------------------------------------------------
Init ==
    /\ members = InitialComponents
    /\ history = [c \in Components |-> {InitialImage[c]}]
    /\ snapshots = <<>>
    /\ done = {}

\* The build service records a build's image for its Component.
Record(b) ==
    /\ history' = [history EXCEPT ![BuildComponent[b]] = @ \cup {BuildImage[b]}]
    /\ UNCHANGED <<members, snapshots, done>>

\* A snapshot is created for b; the event may be reported handled with it.
CreateFor(b) ==
    /\ \E c \in Combinations :
          LET s == [components |-> c, component |-> BuildComponent[b]]
          IN  /\ ValidFor(s, b)
              /\ snapshots' = Append(snapshots, s)
    /\ done' \in {done, done \cup {b}}
    /\ UNCHANGED <<members, history>>

\* The event is reported handled because a snapshot already holds its image.
Finish(b) ==
    /\ b \notin done
    /\ \E i \in DOMAIN snapshots : HoldsImage(snapshots[i], b)
    /\ done' = done \cup {b}
    /\ UNCHANGED <<members, history, snapshots>>

\* A Component is added to the Application.
Join(c) ==
    /\ c \notin members
    /\ members' = members \cup {c}
    /\ UNCHANGED <<history, snapshots, done>>

\* A handled event is delivered again.
Reopen(b) ==
    /\ b \in done
    /\ done' = done \ {b}
    /\ UNCHANGED <<members, history, snapshots>>

Next ==
    \/ \E b \in Imaged : Record(b) \/ CreateFor(b) \/ Finish(b) \/ Reopen(b)
    \/ \E c \in Components : Join(c)

Spec == Init /\ [][Next]_vars
=============================================================================
