------------------------- MODULE TaskAggregateProofs -------------------------
(***************************************************************************)
(* Proofs about one Task object, for any titles, descriptions, priorities, *)
(* bound, and with the state machine enforced or not.                      *)
(***************************************************************************)
EXTENDS TaskAggregate, TaskDomainProofs

\* What the object has recorded, drained or not.
recorded == history \o pending

\* What the events tell of the object: they begin with TaskCreated, replay to it and
\* end in its status.
Recounts(stream, object) ==
    /\ stream # <<>>
    /\ Replays(stream, object)
    /\ StatusBefore(stream, Len(stream) + 1, object.status)

\* What they tell of its past, at the n-th of them.
SaneAt(stream, n) ==
    /\ \E past \in Task : CompletionConsistent(past) /\ Replays(SubSeq(stream, 1, n), past)
    /\ stream[n].kind = "TaskStatusChanged" =>
          /\ StatusBefore(stream, n, stream[n].from)
          /\ Strict => CanTransition(stream[n].from, stream[n].to)
Sane(stream) ==
    /\ stream # <<>> => stream[1].kind = "TaskCreated"
    /\ \A n \in 1 .. Len(stream) : SaneAt(stream, n)

\* The events explain the object.  This is what makes ReplayYieldsTask,
\* EveryPrefixRebuilds and StatusEventsFormAWalk inductive: they say nothing of the
\* object that the next event is about, nor of the partial results it extends.
Explained ==
    /\ task = NoTask => history = <<>> /\ pending = <<>>
    /\ Sane(recorded)
    /\ task # NoTask /\ ~ raised => Recounts(recorded, task)

IInv == TypeOK /\ CompletedAtFollowsStatus /\ Explained

-----------------------------------------------------------------------------
(* Streams that grow *)

\* One more event changes nothing of what the earlier ones tell.
LEMMA SaneStays ==
    ASSUME NEW stream \in Seq(Event), NEW event \in Event, NEW n \in 1 .. Len(stream)
    PROVE  SaneAt(Append(stream, event), n) <=> SaneAt(stream, n)
<1> DEFINE more == Append(stream, event)
<1>1. /\ Len(stream) \in Nat /\ more \in Seq(Event) /\ Len(more) = Len(stream) + 1
      /\ \A m \in 1 .. Len(stream) : more[m] = stream[m]
  BY LenProperties, AppendProperties
<1>2. SubSeq(more, 1, n) = SubSeq(stream, 1, n)
  <2>1. <<event>> \in Seq(Event) /\ more = stream \o <<event>>
    BY AppendIsConcat
  <2>2. 1 \in 1 .. Len(stream)
    BY <1>1
  <2> QED BY <2>1, <2>2, SubSeqOfConcat1
<1> HIDE DEF more
<1>3. \A status : StatusBefore(more, n, status) <=> StatusBefore(stream, n, status)
  <2>1. \A m \in 1 .. n - 1 : more[m] = stream[m]
    BY <1>1
  <2> QED BY <2>1 DEF StatusBefore
<1>4. more[n] = stream[n]
  BY <1>1
<1> QED BY <1>2, <1>3, <1>4 DEF SaneAt, more

\* An event that tells of a change of the object is one more of its events.
LEMMA OneMoreTold ==
    ASSUME NEW stream \in Seq(Event), NEW event \in Event, NEW old \in Task, NEW new \in Task,
           Sane(stream), Recounts(stream, old), Tells(old, event, new, Strict),
           CompletionConsistent(new)
    PROVE  Sane(Append(stream, event)) /\ Recounts(Append(stream, event), new)
<1> DEFINE more == Append(stream, event)
           N == Len(stream)
<1>1. /\ N \in Nat /\ more \in Seq(Event) /\ Len(more) = N + 1 /\ more # <<>>
      /\ \A m \in 1 .. N : more[m] = stream[m]
      /\ more[N + 1] = event
  BY LenProperties, AppendProperties
<1>2. N # 0
  BY EmptySeq DEF Recounts
<1>3. Replays(more, new)
  BY ReplaysOneMore DEF Recounts, Tells
<1>4. SubSeq(more, 1, N + 1) = more
  BY <1>1, SubSeqFull
<1>5. \A n \in 1 .. N : SaneAt(more, n)
  BY SaneStays DEF Sane
<1>6. more[1].kind = "TaskCreated"
  BY <1>1, <1>2 DEF Sane, Recounts
<1> HIDE DEF more, N
<1>7. StatusBefore(more, N + 1, old.status)
  <2>1. \A m \in 1 .. N : more[m] = stream[m]
    BY <1>1
  <2>2. StatusBefore(stream, N + 1, old.status)
    BY DEF Recounts, N
  <2>3. 1 .. (N + 1) - 1 = 1 .. N
    BY <1>1
  <2> QED BY <2>1, <2>2, <2>3 DEF StatusBefore
<1>8. SaneAt(more, N + 1)
  BY <1>1, <1>3, <1>4, <1>7 DEF SaneAt, Tells
<1>9. StatusBefore(more, (N + 1) + 1, new.status)
  <2> DEFINE changes == {m \in 1 .. N : more[m].kind = "TaskStatusChanged"}
             changesNow == {m \in 1 .. N + 1 : more[m].kind = "TaskStatusChanged"}
  <2>1. 1 .. ((N + 1) + 1) - 1 = 1 .. N + 1 /\ 1 .. (N + 1) - 1 = 1 .. N
    BY <1>1
  <2>2. CASE event.kind = "TaskStatusChanged"
    <3>1. new.status = event.to
      BY <2>2 DEF Tells, RebuildStep, Apply, Task
    <3>2. N + 1 \in changesNow /\ more[N + 1].to = new.status
      BY <1>1, <2>2, <3>1
    <3>3. \A m \in changesNow : m <= N + 1
      BY <1>1
    <3> QED BY <2>1, <3>2, <3>3 DEF StatusBefore
  <2>3. CASE event.kind # "TaskStatusChanged"
    <3>1. new.status = old.status
      <4>1. event.kind # "TaskCreated"
        BY DEF Tells, ChangeEvents, EditedEvents, StatusEvents, PriorityEvents, MarkerEvents,
               DeletedEvents
      <4> QED BY <2>3, <4>1 DEF Tells, RebuildStep, Apply, Task
    <3>2. changesNow = changes
      BY <1>1, <2>3
    <3> QED BY <1>7, <2>1, <3>1, <3>2 DEF StatusBefore
  <2> QED BY <2>2, <2>3
<1>10. \A n \in 1 .. N + 1 : SaneAt(more, n)
  BY <1>1, <1>5, <1>8
<1> QED BY <1>1, <1>3, <1>6, <1>9, <1>10 DEF Sane, Recounts, more

\* So are the events of a command.
LEMMA MoreTold ==
    ASSUME NEW stream \in Seq(Event), NEW events \in Seq(Event), NEW old \in Task,
           NEW new \in Task, Sane(stream), Recounts(stream, old),
           Explains(old, events, new, Strict), CompletionConsistent(new)
    PROVE  Sane(stream \o events) /\ Recounts(stream \o events, new)
<1>1. CASE events = <<>> /\ new = old
  <2>1. stream \o events = stream
    BY <1>1, ConcatEmptySeq
  <2> QED BY <1>1, <2>1
<1>2. ASSUME NEW e \in Event, events = <<e>>, Tells(old, e, new, Strict)
      PROVE  Sane(stream \o events) /\ Recounts(stream \o events, new)
  <2>1. stream \o events = Append(stream, e)
    BY <1>2, AppendIsConcat
  <2> QED BY <1>2, <2>1, OneMoreTold
<1>3. ASSUME NEW e \in Event, NEW f \in Event, events = <<e, f>>,
             Tells(old, e, new, Strict), Tells(new, f, new, Strict)
      PROVE  Sane(stream \o events) /\ Recounts(stream \o events, new)
  <2>1. stream \o events = Append(Append(stream, e), f) /\ Append(stream, e) \in Seq(Event)
    BY <1>3, TwoMore
  <2>2. Sane(Append(stream, e)) /\ Recounts(Append(stream, e), new)
    BY <1>3, OneMoreTold
  <2> QED BY <1>3, <2>1, <2>2, OneMoreTold
<1> QED BY <1>1, <1>2, <1>3 DEF Explains, Event, ChangeEvents

\* The first event is the creation.
LEMMA CreationTold ==
    ASSUME NEW event \in CreatedEvents, RebuildStep(NoTask, event) \in Task,
           CompletionConsistent(RebuildStep(NoTask, event))
    PROVE  Sane(<<event>>) /\ Recounts(<<event>>, RebuildStep(NoTask, event))
<1> DEFINE one == <<event>>
           new == RebuildStep(NoTask, event)
<1>1. event \in Event /\ event.kind = "TaskCreated" /\ event.status = "draft"
  BY DEF Event, CreatedEvents
<1>2. one \in Seq(Event) /\ Len(one) = 1 /\ one[1] = event /\ one # <<>>
  BY <1>1
<1>3. Replays(one, new)
  <2>1. Replays(Append(<<>>, event), new)
    BY <1>1, EmptySeq, ReplaysNothing, ReplaysOneMore
  <2>2. Append(<<>>, event) = one
    OBVIOUS
  <2> QED BY <2>1, <2>2
<1>4. new.status = "draft"
  BY <1>1 DEF RebuildStep, Apply
<1> HIDE DEF one, new
<1>5. SubSeq(one, 1, 1) = one
  BY <1>2, SubSeqFull
<1>6. StatusBefore(one, 2, "draft")
  <2>1. \A m \in 1 .. 2 - 1 : m = 1
    OBVIOUS
  <2> QED BY <2>1, <1>1, <1>2 DEF StatusBefore
<1>7. \A n \in 1 .. 1 : SaneAt(one, n)
  <2>1. SaneAt(one, 1)
    BY <1>1, <1>2, <1>3, <1>5 DEF SaneAt, new
  <2>2. \A n \in 1 .. 1 : n = 1
    OBVIOUS
  <2> QED BY <2>1, <2>2
<1> QED BY <1>1, <1>2, <1>3, <1>4, <1>6, <1>7 DEF Sane, Recounts, one, new

-----------------------------------------------------------------------------
(* The invariant *)

LEMMA InitIInv == Init => IInv
<1> SUFFICES ASSUME Init PROVE IInv
  OBVIOUS
<1>1. TypeOK
  BY EmptySeq DEF Init, TypeOK
<1>2. recorded = <<>>
  <2>1. <<>> \o <<>> = <<>>
    BY EmptySeq, ConcatEmptySeq
  <2> QED BY <2>1 DEF Init, recorded
<1>3. CompletedAtFollowsStatus /\ Explained
  BY <1>2 DEF Init, CompletedAtFollowsStatus, Explained, Sane
<1> QED BY <1>1, <1>3 DEF IInv

\* Any sound command on a live object keeps the invariant.
LEMMA RunKeepsIInv ==
    ASSUME IInv, task # NoTask, ~ raised,
           NEW outcome, Sound(task, outcome, Strict), Run(outcome)
    PROVE  IInv'
<1>1. task \in Task /\ outcome.task \in Task /\ outcome.events \in Seq(Event)
      /\ outcome.raised \in BOOLEAN /\ pending \in Seq(Event) /\ history \in Seq(Event)
  <2>1. outcome.events \in Seq(ChangeEvents \cup DeletedEvents)
    BY DEF Sound
  <2>2. ChangeEvents \cup DeletedEvents \subseteq Event
    BY DEF Event
  <2> HIDE DEF Event
  <2>3. outcome.events \in Seq(Event)
    BY <2>1, <2>2, SeqMonotonic
  <2> QED BY <2>3 DEF IInv, TypeOK, Sound
<1>2. task' = outcome.task /\ pending' = pending \o outcome.events
      /\ raised' = outcome.raised /\ history' = history
  BY DEF Run
<1>3. TypeOK'
  BY <1>1, <1>2, ConcatProperties DEF TypeOK
<1>4. CompletedAtFollowsStatus'
  BY <1>2 DEF IInv, CompletedAtFollowsStatus, Sound
<1>5. recorded \in Seq(Event) /\ recorded' = recorded \o outcome.events
  <2>1. recorded \in Seq(Event)
    BY <1>1, ConcatProperties DEF recorded
  <2>2. recorded' = history \o (pending \o outcome.events)
    BY <1>2 DEF recorded
  <2>3. (history \o pending) \o outcome.events = history \o (pending \o outcome.events)
    <3> DEFINE new == outcome.events
    <3>1. new \in Seq(Event)
      BY <1>1
    <3> HIDE DEF new
    <3>2. (history \o pending) \o new = history \o (pending \o new)
      BY SMTT(40), <1>1, <3>1, ConcatAssociative
    <3> QED BY <3>2 DEF new
  <2> QED BY <2>1, <2>2, <2>3 DEF recorded
<1>6. ASSUME ~ raised' PROVE Explained'
  <2>1. Explains(task, outcome.events, outcome.task, Strict)
    BY <1>6, <1>2 DEF Sound
  <2>2. CompletionConsistent(outcome.task)
    BY DEF IInv, CompletedAtFollowsStatus, Sound
  <2>3. Sane(recorded) /\ Recounts(recorded, task)
    BY DEF IInv, Explained
  <2>4. Sane(recorded') /\ Recounts(recorded', task')
    BY <1>1, <1>2, <1>5, <2>1, <2>2, <2>3, MoreTold
  <2> QED BY <2>4, <1>1, <1>2, NoTaskAssumption DEF Explained
<1>7. ASSUME raised' PROVE Explained'
  <2>1. outcome.events = <<>>
    BY <1>7, <1>2 DEF Sound
  <2>2. recorded' = recorded
    BY <2>1, <1>5, ConcatEmptySeq
  <2> QED BY <1>1, <1>2, <1>7, <2>2, NoTaskAssumption DEF IInv, Explained
<1> QED BY <1>3, <1>4, <1>6, <1>7 DEF IInv

LEMMA ConstructKeepsIInv == IInv /\ Construct => IInv'
<1> SUFFICES ASSUME IInv, Construct PROVE IInv'
  OBVIOUS
<1>1. PICK title \in RawTitles, description \in RawDescriptions,
           priority \in Priorities \cup {Invalid} : Run(Create(title, description, priority))
  BY DEF Construct
<1> DEFINE outcome == Create(title, description, priority)
<1>2. history = <<>> /\ pending = <<>>
  BY DEF Construct, IInv, Explained
<1>3. CASE outcome = Raise(NoTask)
  <2>1. task' = NoTask /\ pending' = <<>> \o <<>> /\ raised' = TRUE /\ history' = <<>>
    BY <1>1, <1>2, <1>3 DEF Run, Raise
  <2>2. <<>> \o <<>> = <<>>
    BY EmptySeq, ConcatEmptySeq
  <2>3. recorded' = recorded
    BY <1>2, <2>1, <2>2 DEF recorded
  <2>4. TypeOK' /\ CompletedAtFollowsStatus'
    BY <2>1, <2>2, EmptySeq DEF TypeOK, CompletedAtFollowsStatus
  <2> QED BY <2>1, <2>2, <2>3, <2>4 DEF IInv, Explained
<1>4. ASSUME NEW event \in CreatedEvents,
             outcome = Done(RebuildStep(NoTask, event), <<event>>),
             RebuildStep(NoTask, event) \in Task, CompletionConsistent(RebuildStep(NoTask, event))
      PROVE  IInv'
  <2>1. task' = RebuildStep(NoTask, event) /\ pending' = <<event>> /\ raised' = FALSE /\ history' = <<>>
    BY <1>1, <1>2, <1>4 DEF Run, Done
  <2>2. event \in Event /\ event.kind = "TaskCreated"
    BY DEF Event, CreatedEvents
  <2>3. recorded' = <<event>>
    <3>1. <<event>> \in Seq(Event)
      BY <2>2
    <3> QED BY <2>1, <3>1, ConcatEmptySeq DEF recorded
  <2>4. Sane(recorded') /\ Recounts(recorded', task')
    BY <1>4, <2>1, <2>3, CreationTold
  <2>5. TypeOK'
    <3>1. <<event>> \in Seq(Event) /\ <<>> \in Seq(Event)
      BY <2>2, EmptySeq
    <3> QED BY <2>1, <3>1, <1>4 DEF TypeOK
  <2>6. CompletedAtFollowsStatus'
    BY <2>1, <1>4 DEF CompletedAtFollowsStatus
  <2>7. Explained'
    BY <2>1, <2>4, <1>4, NoTaskAssumption DEF Explained
  <2> QED BY <2>5, <2>6, <2>7 DEF IInv
<1> HIDE DEF outcome
<1>5. \/ outcome = Raise(NoTask)
      \/ \E event \in CreatedEvents :
            /\ outcome = Done(RebuildStep(NoTask, event), <<event>>)
            /\ RebuildStep(NoTask, event) \in Task
            /\ CompletionConsistent(RebuildStep(NoTask, event))
  BY CreateSound DEF outcome
<1> QED BY <1>3, <1>4, <1>5

LEMMA NextKeepsIInv == IInv /\ [Next]_vars => IInv'
<1> SUFFICES ASSUME IInv, [Next]_vars PROVE IInv'
  OBVIOUS
<1>0. task # NoTask => task \in Task
  BY DEF IInv, TypeOK
<1>1. CASE Construct
  BY <1>1, ConstructKeepsIInv
<1>2. CASE Edit
  <2>1. PICK title \in RawTitles \cup {None}, description \in RawDescriptions \cup {None} :
            Run(EditDetails(task, title, description))
    BY <1>2 DEF Edit
  <2>2. Sound(task, EditDetails(task, title, description), Strict)
    BY <1>0, <1>2, EditSound DEF Edit, Alive
  <2> QED BY <2>1, <2>2, <1>2, RunKeepsIInv DEF Edit, Alive
<1>3. CASE Reprioritize
  <2>1. PICK priority \in Priorities \cup {Invalid} : Run(ChangePriority(task, priority))
    BY <1>3 DEF Reprioritize
  <2>2. Sound(task, ChangePriority(task, priority), Strict)
    BY <1>0, <1>3, PrioritySound DEF Reprioritize, Alive
  <2> QED BY <2>1, <2>2, <1>3, RunKeepsIInv DEF Reprioritize, Alive
<1>4. CASE Transition
  <2>1. PICK target \in Statuses \cup {Invalid} : Run(TransitionTo(task, target, Strict))
    BY <1>4 DEF Transition
  <2>2. Sound(task, TransitionTo(task, target, Strict), Strict)
    BY <1>0, <1>4, TransitionSound, StrictAssumption DEF Transition, Alive
  <2> QED BY <2>1, <2>2, <1>4, RunKeepsIInv DEF Transition, Alive
<1>5. CASE Delete
  <2>1. Sound(task, MarkDeleted(task), Strict)
    BY <1>0, <1>5, DeleteSound DEF Delete, Alive
  <2> QED BY <2>1, <1>5, RunKeepsIInv DEF Delete, Alive
<1>6. CASE PullEvents
  <2>1. history \in Seq(Event) /\ pending \in Seq(Event)
    BY DEF IInv, TypeOK
  <2>2. task' = task /\ raised' = raised /\ history' = recorded /\ pending' = <<>>
    BY <1>6 DEF PullEvents, recorded
  <2>3. recorded \in Seq(Event) /\ recorded' = recorded
    BY <2>1, <2>2, ConcatProperties, ConcatEmptySeq DEF recorded
  <2>4. TypeOK' /\ CompletedAtFollowsStatus'
    BY <2>2, <2>3 DEF IInv, TypeOK, CompletedAtFollowsStatus
  <2>5. Explained'
    BY <2>2, <2>3, <1>6 DEF IInv, Explained, PullEvents
  <2> QED BY <2>4, <2>5 DEF IInv
<1>7. CASE Drop
  <2>1. task' = NoTask /\ pending' = <<>> /\ history' = <<>> /\ raised' = FALSE
    BY <1>7 DEF Drop
  <2>2. TypeOK'
    BY <2>1, EmptySeq DEF TypeOK
  <2>3. recorded' = <<>>
    <3>1. <<>> \o <<>> = <<>>
      BY EmptySeq, ConcatEmptySeq
    <3> QED BY <2>1, <3>1 DEF recorded
  <2>4. CompletedAtFollowsStatus' /\ Explained'
    BY <2>1, <2>3 DEF CompletedAtFollowsStatus, Explained, Sane
  <2> QED BY <2>2, <2>4 DEF IInv
<1>8. CASE UNCHANGED vars
  BY <1>8 DEF vars, IInv, TypeOK, CompletedAtFollowsStatus, Explained, recorded
<1> QED BY <1>1, <1>2, <1>3, <1>4, <1>5, <1>6, <1>7, <1>8 DEF Next

LEMMA IInvInvariant == Spec => []IInv
  BY InitIInv, NextKeepsIInv, PTL DEF Spec

\* Whatever the commands and their order, the fields, the pending and the drained
\* events of a Task object have their types (entities.py).
THEOREM TypeCorrect == Spec => []TypeOK
<1>1. IInv => TypeOK
  BY DEF IInv
<1> QED BY <1>1, IInvInvariant, PTL

\* The completion timestamp is set exactly on completed tasks, whatever commands
\* transition_to is called between and with.
THEOREM CompletionTimestampCorrect == Spec => []CompletedAtFollowsStatus
<1>1. IInv => CompletedAtFollowsStatus
  BY DEF IInv
<1> QED BY <1>1, IInvInvariant, PTL

\* Replaying all the events an object recorded rebuilds it (Task.rebuild,
\* Task._apply), until a command raises.
THEOREM ReplayCorrect == Spec => []ReplayYieldsTask
<1>1. IInv => ReplayYieldsTask
  <2> SUFFICES ASSUME IInv, task # NoTask, ~ raised PROVE Rebuild(recorded) = task
    BY DEF ReplayYieldsTask, recorded
  <2>1. Replays(recorded, task) /\ recorded # <<>> /\ recorded[1].kind = "TaskCreated"
    BY DEF IInv, Explained, Recounts, Sane
  <2>2. Head(recorded) = recorded[1]
    OBVIOUS
  <2> QED BY <2>1, <2>2, ReplaysRebuild
<1> QED BY <1>1, IInvInvariant, PTL

\* reconstitute_at: whatever part of the events, from the first on, is replayed, the
\* result is a task, and its completion timestamp agrees with its status.
THEOREM PrefixesRebuild == Spec => []EveryPrefixRebuilds
<1>1. IInv => EveryPrefixRebuilds
  <2> SUFFICES ASSUME IInv, NEW n \in 1 .. Len(recorded)
               PROVE  /\ Rebuild(SubSeq(recorded, 1, n)) # NoTask
                      /\ CompletionConsistent(Rebuild(SubSeq(recorded, 1, n)))
    BY DEF EveryPrefixRebuilds, recorded
  <2>1. recorded \in Seq(Event)
    BY ConcatProperties DEF IInv, TypeOK, recorded
  <2>2. Sane(recorded)
    BY DEF IInv, Explained
  <2>3. PICK past \in Task :
            CompletionConsistent(past) /\ Replays(SubSeq(recorded, 1, n), past)
    BY <2>2 DEF Sane, SaneAt
  <2> DEFINE prefix == SubSeq(recorded, 1, n)
  <2>4. Len(recorded) \in Nat /\ 1 \in 1 .. Len(recorded) /\ n \in 1 .. Len(recorded)
    BY <2>1, LenProperties
  <2>5. Len(prefix) = n /\ prefix \in Seq(Event)
    BY <2>1, <2>4
  <2>6. prefix # <<>>
    BY <2>4, <2>5, EmptySeq
  <2>7. Head(prefix) = recorded[1]
    BY <2>1, <2>4, HeadTailOfSubSeq
  <2>8. recorded # <<>>
    BY <2>4, EmptySeq
  <2>9. Head(prefix).kind = "TaskCreated"
    BY <2>2, <2>7, <2>8 DEF Sane
  <2> HIDE DEF prefix
  <2>10. Rebuild(prefix) = past
    BY <2>3, <2>6, <2>9, ReplaysRebuild DEF prefix
  <2> QED BY <2>3, <2>10, NoTaskAssumption DEF prefix
<1> QED BY <1>1, IInvInvariant, PTL

\* Task.transition_to: every status event starts at the status the earlier ones led
\* to; with STRICT_STATE_MACHINE its step is in the lifecycle graph.
THEOREM WalkCorrect == Spec => []StatusEventsFormAWalk
<1>1. IInv => StatusEventsFormAWalk
  BY DEF IInv, Explained, Sane, SaneAt, StatusEventsFormAWalk, recorded
<1> QED BY <1>1, IInvInvariant, PTL
=============================================================================
