---------------------------- MODULE TaskAggregate ----------------------------
(***************************************************************************)
(* One Task object in memory (tasks/domain/entities.py), from its          *)
(* construction until its owner drops it.  Its owner calls commands in any *)
(* order and drains the recorded events whenever it likes.  A command that *)
(* raises is the end of the object's life: every caller in the code lets   *)
(* the exception propagate and loses the reference.                        *)
(***************************************************************************)
EXTENDS TaskDomain

CONSTANTS
    Strict,     \* the STRICT_STATE_MACHINE feature flag
    MaxEvents   \* bound: the object is dropped after this many events

ASSUME StrictAssumption == Strict \in BOOLEAN
ASSUME MaxEventsAssumption == MaxEvents \in Nat

VARIABLES
    task,     \* the fields of the object, or NoTask
    pending,  \* _pending_events
    history,  \* the events drained so far, in order
    raised    \* a command raised: the object is about to be dropped

vars == <<task, pending, history, raised>>

Init ==
    /\ task = NoTask
    /\ pending = <<>>
    /\ history = <<>>
    /\ raised = FALSE

\* The method ran: the object has its new fields, and _record appended its events.
Run(outcome) ==
    /\ task' = outcome.task
    /\ pending' = pending \o outcome.events
    /\ raised' = outcome.raised
    /\ UNCHANGED history

Alive == task # NoTask /\ ~ raised /\ Len(history) + Len(pending) < MaxEvents

Construct ==
    /\ task = NoTask /\ ~ raised
    /\ \E title \in RawTitles, description \in RawDescriptions,
          priority \in Priorities \cup {Invalid} :
            Run(Create(title, description, priority))

Edit ==
    /\ Alive
    /\ \E title \in RawTitles \cup {None}, description \in RawDescriptions \cup {None} :
            Run(EditDetails(task, title, description))

Reprioritize ==
    /\ Alive
    /\ \E priority \in Priorities \cup {Invalid} : Run(ChangePriority(task, priority))

Transition ==
    /\ Alive
    /\ \E target \in Statuses \cup {Invalid} : Run(TransitionTo(task, target, Strict))

Delete ==
    /\ Alive
    /\ Run(MarkDeleted(task))

\* Mutant: the drained events go in front of the earlier ones.
PullEventsInFront ==
    /\ task # NoTask /\ ~ raised /\ pending # <<>>
    /\ history' = pending \o history
    /\ pending' = <<>>
    /\ UNCHANGED <<task, raised>>

PullEvents ==
    /\ task # NoTask /\ ~ raised /\ pending # <<>>
    /\ history' = history \o pending
    /\ pending' = <<>>
    /\ UNCHANGED <<task, raised>>

\* The owner lets go of the object.
Drop ==
    /\ raised \/ task # NoTask
    /\ task' = NoTask
    /\ pending' = <<>>
    /\ history' = <<>>
    /\ raised' = FALSE

Next == Construct \/ Edit \/ Reprioritize \/ Transition \/ Delete \/ PullEvents \/ Drop

Spec == Init /\ [][Next]_vars

-----------------------------------------------------------------------------

TypeOK ==
    /\ task \in Task \cup {NoTask}
    /\ pending \in Seq(Event)
    /\ history \in Seq(Event)
    /\ raised \in BOOLEAN

\* Whatever the order of the commands, and with the state machine enforced or
\* not, completed_at is set exactly while the status is "completed": the
\* completion timestamp invariant transition_to maintains.
CompletedAtFollowsStatus == task # NoTask => CompletionConsistent(task)

\* Event sourcing is faithful: replaying everything the object has recorded,
\* drained or not, yields the object, field by field, as long as no command
\* raised (ADR-0016: state is fully derivable from events).
ReplayYieldsTask ==
    task # NoTask /\ ~ raised => Rebuild(history \o pending) = task

\* Time travel: every non-empty prefix of the stream rebuilds a task, and one
\* whose completion timestamp agrees with its status (reconstitute_at replays
\* prefixes, not only whole streams).
EveryPrefixRebuilds ==
    LET stream == history \o pending
    IN  \A n \in 1 .. Len(stream) :
            LET past == Rebuild(SubSeq(stream, 1, n))
            IN  past # NoTask /\ CompletionConsistent(past)

\* What the status is before the n-th event, going by the status events alone: that
\* of a new task, or what the last of them changed it to.
StatusBefore(stream, n, status) ==
    LET changes == {m \in 1 .. n - 1 : stream[m].kind = "TaskStatusChanged"}
    IN  \/ changes = {} /\ status = "draft"
        \/ \E last \in changes : stream[last].to = status /\ \A m \in changes : m <= last

\* Consecutive status events form a walk: each starts where the previous one ended.
\* With the state machine enforced it is a walk in the lifecycle graph.
StatusEventsFormAWalk ==
    LET stream == history \o pending
    IN  \A n \in 1 .. Len(stream) :
            stream[n].kind = "TaskStatusChanged" =>
                /\ StatusBefore(stream, n, stream[n].from)
                /\ Strict => CanTransition(stream[n].from, stream[n].to)
=============================================================================
