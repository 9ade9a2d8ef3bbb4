----------------------------- MODULE TaskDomain -----------------------------
(***************************************************************************)
(* The task domain of tasks/domain: the lifecycle graph, the events, what  *)
(* each command of the Task aggregate does, and replay.  Pure definitions: *)
(* the state machines that use them are TaskAggregate and TaskService.     *)
(*                                                                         *)
(* A command takes the task as it is and returns an outcome: the task as   *)
(* the command leaves it, the events it recorded, and whether it raised.   *)
(* Timestamps are left out, except that completed_at is set or not.        *)
(***************************************************************************)
EXTENDS Integers, Sequences

CONSTANTS
    RawTitles,        \* what a caller may pass as a title
    RawDescriptions,  \* what a caller may pass as a description
    Titles,           \* titles that passed _validate_title
    Descriptions,     \* descriptions that passed _validate_description
    Priorities,       \* the members of Priority
    CleanTitle,       \* _validate_title: a raw title to its stripped form, or Invalid
    CleanDescription, \* _validate_description, likewise
    Invalid,          \* the validators and parsers raised TaskValidationError
    None,             \* Python's None: the field was not given
    NoTask            \* there is no such task

ASSUME CleaningAssumption ==
    /\ CleanTitle \in [RawTitles -> Titles \cup {Invalid}]
    /\ CleanDescription \in [RawDescriptions -> Descriptions \cup {Invalid}]

ASSUME SentinelAssumption ==
    /\ Invalid \notin Titles \cup Descriptions \cup Priorities
    /\ None \notin Titles \cup Descriptions
    /\ None \notin RawTitles \cup RawDescriptions

-----------------------------------------------------------------------------
(* The lifecycle *)

Statuses == {"draft", "active", "blocked", "completed", "archived"}

AllowedTransitions ==
    [s \in Statuses |->
        CASE s = "draft"     -> {"active", "archived"}
          [] s = "active"    -> {"blocked", "completed", "archived"}
          [] s = "blocked"   -> {"active", "archived"}
          [] s = "completed" -> {"active", "archived"}
          [] s = "archived"  -> {}]

\* Mutant: the table read in either direction.
CanTransitionEitherWay(current, requested) ==
    requested \in AllowedTransitions[current] \/ current \in AllowedTransitions[requested]

CanTransition(current, requested) ==
    current # requested /\ requested \in AllowedTransitions[current]

-----------------------------------------------------------------------------
(* Tasks and events *)

Task == [title : Titles, description : Descriptions, priority : Priorities,
         status : Statuses, completedAt : BOOLEAN]

ASSUME NoTaskAssumption == NoTask \notin Task

CreatedEvents == [kind : {"TaskCreated"}, title : Titles, description : Descriptions,
                  priority : Priorities, status : {"draft"}]
EditedEvents == [kind : {"TaskDetailsEdited"}, title : Titles \cup {None},
                 description : Descriptions \cup {None}]
StatusEvents == [kind : {"TaskStatusChanged"}, from : Statuses, to : Statuses]
PriorityEvents == [kind : {"TaskPriorityChanged"}, from : Priorities, to : Priorities]
MarkerEvents == [kind : {"TaskCompleted", "TaskArchived"}]
DeletedEvents == [kind : {"TaskDeleted"}, status : Statuses]

\* What the commands on an existing task, other than deletion, may record.
ChangeEvents == EditedEvents \cup StatusEvents \cup PriorityEvents \cup MarkerEvents

Event == CreatedEvents \cup ChangeEvents \cup DeletedEvents

-----------------------------------------------------------------------------
(* Commands *)

Done(task, events) == [task |-> task, events |-> events, raised |-> FALSE]
Raise(task) == [task |-> task, events |-> <<>>, raised |-> TRUE]

\* Task.create, with the priority already parsed by Priority.from_name.
Create(rawTitle, rawDescription, priority) ==
    LET title == CleanTitle[rawTitle]
        description == CleanDescription[rawDescription]
    IN  IF Invalid \in {title, description, priority}
        THEN Raise(NoTask)
        ELSE Done([title |-> title, description |-> description, priority |-> priority,
                   status |-> "draft", completedAt |-> FALSE],
                  <<[kind |-> "TaskCreated", title |-> title, description |-> description,
                     priority |-> priority, status |-> "draft"]>>)

\* Task.edit_details.  The title is assigned before the description is
\* validated, so an invalid description raises with the title already changed.
EditDetails(task, rawTitle, rawDescription) ==
    LET title == IF rawTitle = None THEN task.title ELSE CleanTitle[rawTitle]
        description == IF rawDescription = None THEN task.description
                       ELSE CleanDescription[rawDescription]
        given(new, old) == IF new = old THEN None ELSE new
    IN  IF title = Invalid THEN Raise(task)
        ELSE IF description = Invalid THEN Raise([task EXCEPT !.title = title])
        ELSE Done([task EXCEPT !.title = title, !.description = description],
                  IF title = task.title /\ description = task.description THEN <<>>
                  ELSE <<[kind |-> "TaskDetailsEdited",
                          title |-> given(title, task.title),
                          description |-> given(description, task.description)]>>)

\* Mutant: the name of the priority is not checked.
ChangePriorityUnparsed(task, priority) ==
    IF priority = task.priority THEN Done(task, <<>>)
    ELSE Done([task EXCEPT !.priority = priority],
              <<[kind |-> "TaskPriorityChanged", from |-> task.priority, to |-> priority]>>)

\* Mutant: the assignment without the call of _record.
ChangePriorityUnrecorded(task, priority) ==
    IF priority = Invalid THEN Raise(task)
    ELSE Done([task EXCEPT !.priority = priority], <<>>)

\* Mutant: the event is recorded even if the priority is what it was.
ChangePriorityAlways(task, priority) ==
    IF priority = Invalid THEN Raise(task)
    ELSE Done([task EXCEPT !.priority = priority],
              <<[kind |-> "TaskPriorityChanged", from |-> task.priority, to |-> priority]>>)

\* Priority.from_name followed by Task.change_priority.
ChangePriority(task, priority) ==
    IF priority = Invalid THEN Raise(task)
    ELSE IF priority = task.priority THEN Done(task, <<>>)
    ELSE Done([task EXCEPT !.priority = priority],
              <<[kind |-> "TaskPriorityChanged", from |-> task.priority, to |-> priority]>>)

\* Mutant: the old and the new status in each other's place.
StatusChangeSwapped(from, to) ==
    LET changed == [kind |-> "TaskStatusChanged", from |-> to, to |-> from]
    IN  IF to \in {"completed", "archived"} THEN <<changed, [kind |-> "TaskArchived"]>>
        ELSE <<changed>>

\* The events of a status change: the change, then the semantic event, if any.
StatusChange(from, to) ==
    LET changed == [kind |-> "TaskStatusChanged", from |-> from, to |-> to]
    IN  CASE to = "completed" -> <<changed, [kind |-> "TaskCompleted"]>>
          [] to = "archived"  -> <<changed, [kind |-> "TaskArchived"]>>
          [] OTHER -> <<changed>>

\* Mutant: completed_at is never cleared.
CompletedAtKept(task, from, to) == to = "completed" \/ task.completedAt

\* completed_at is set on entering "completed" and cleared on leaving it.
CompletedAtAfter(task, from, to) ==
    (to = "completed") \/ (from # "completed" /\ task.completedAt)

\* TaskStatus.from_value followed by Task.transition_to.
TransitionTo(task, target, enforce) ==
    IF target = Invalid THEN Raise(task)
    ELSE IF target = task.status THEN Done(task, <<>>)
    ELSE IF enforce /\ ~ CanTransition(task.status, target) THEN Raise(task)
    ELSE Done([task EXCEPT !.status = target,
                           !.completedAt = CompletedAtAfter(task, task.status, target)],
              StatusChange(task.status, target))

\* Task.mark_deleted.
MarkDeleted(task) ==
    Done(task, <<[kind |-> "TaskDeleted", status |-> task.status]>>)

-----------------------------------------------------------------------------
(* Replay *)

\* Task._apply.  The events that are not named carry no state, or, as TaskCreated, are
\* not for it.
Apply(task, event) ==
    CASE event.kind = "TaskDetailsEdited" ->
            [task EXCEPT !.title = IF event.title = None THEN @ ELSE event.title,
                         !.description = IF event.description = None THEN @
                                         ELSE event.description]
      [] event.kind = "TaskStatusChanged" ->
            [task EXCEPT !.status = event.to,
                         !.completedAt = CompletedAtAfter(task, event.from, event.to)]
      [] event.kind = "TaskPriorityChanged" -> [task EXCEPT !.priority = event.to]
      [] OTHER -> task

\* The body of rebuild's loop: TaskCreated constructs the task, the others are applied.
RebuildStep(task, event) ==
    IF event.kind = "TaskCreated"
    THEN [title |-> event.title, description |-> event.description,
          priority |-> event.priority, status |-> event.status, completedAt |-> FALSE]
    ELSE Apply(task, event)

\* The loop of rebuild.
Replay(task, events) ==
    LET upTo[n \in 0 .. Len(events)] ==
            IF n = 0 THEN task ELSE RebuildStep(upTo[n - 1], events[n])
    IN  upTo[Len(events)]

\* The loop of the event-sourced get, on the state of a snapshot.
ApplyAll(task, events) ==
    LET upTo[n \in 0 .. Len(events)] ==
            IF n = 0 THEN task ELSE Apply(upTo[n - 1], events[n])
    IN  upTo[Len(events)]

\* Task.rebuild.  NoTask stands for the error it raises on an empty stream and
\* on one that does not begin with TaskCreated.
Rebuild(events) ==
    IF events = <<>> \/ Head(events).kind # "TaskCreated" THEN NoTask
    ELSE Replay(NoTask, events)

\* The completion timestamp is set exactly on completed tasks.
CompletionConsistent(task) == task.completedAt <=> task.status = "completed"
=============================================================================
