-------------------------- MODULE TaskServiceProofs --------------------------
(***************************************************************************)
(* The service implements the ledger, for any threads, identities, titles, *)
(* descriptions and priorities, with crashes or without.                   *)
(***************************************************************************)
EXTENDS TaskService, TaskLedgerProofs, TaskDomainProofs, FiniteSetTheorems

\* What a thread about to commit holds: a task of its own that is new, a changed
\* copy of a task that had a row, or the deletion of one.
MayAdd(w) ==
    /\ w.id \in minted /\ row[w.id] = NoTask /\ stream[w.id] = <<>>
    /\ \E event \in CreatedEvents : w.task = RebuildStep(NoTask, event) /\ w.events = <<event>>
MaySave(w) ==
    /\ w.id \in minted
    /\ CompletionConsistent(w.task)
    /\ w.events \in Batches
MayDelete(w) ==
    /\ w.id \in minted
    /\ EventSourcing => stream[w.id] # <<>>
    /\ \E event \in DeletedEvents : w.events = <<event>>

Held ==
    \A t \in Threads : pc[t] = "commit" =>
        /\ work[t].persist = "add" => MayAdd(work[t])
        /\ work[t].persist = "save" => MaySave(work[t])
        /\ work[t].persist = "delete" => MayDelete(work[t])

\* Nobody else holds the task a thread is about to add.
AddsAlone ==
    \A t, u \in Threads :
        t # u /\ pc[t] = "commit" /\ pc[u] = "commit" /\ work[t].persist = "add"
            => work[u].id # work[t].id

\* An identity that was not minted has no row and no history.
Fresh == \A id \in Ids \ minted : row[id] = NoTask /\ stream[id] = <<>>

RowsHaveStreams == EventSourcing => \A id \in Ids : row[id] # NoTask => stream[id] # <<>>

PublishingSomething == \A t \in Threads : pc[t] = "publish" => work[t].events # <<>>

IInv ==
    /\ TypeOK
    /\ RowsConsistent
    /\ Held
    /\ AddsAlone
    /\ Fresh
    /\ RowsHaveStreams
    /\ PublishingSomething

-----------------------------------------------------------------------------
(* The commands yield what a save may store *)

LEMMA EditBatch ==
    ASSUME NEW task \in Task,
           NEW title \in RawTitles \cup {None}, NEW description \in RawDescriptions \cup {None}
    PROVE  EditDetails(task, title, description).raised
           \/ EditDetails(task, title, description).events \in Batches
<1> DEFINE ti == IF title = None THEN task.title ELSE CleanTitle[title]
           de == IF description = None THEN task.description
                 ELSE CleanDescription[description]
           tiGiven == IF ti = task.title THEN None ELSE ti
           deGiven == IF de = task.description THEN None ELSE de
           event == [kind |-> "TaskDetailsEdited", title |-> tiGiven, description |-> deGiven]
           outcome == EditDetails(task, title, description)
<1>1. ti \in Titles \cup {Invalid} /\ de \in Descriptions \cup {Invalid}
  BY CleaningAssumption DEF Task
<1>2. CASE ti = Invalid \/ de = Invalid
  BY <1>2 DEF EditDetails, Raise
<1>3. CASE ti # Invalid /\ de # Invalid
  <2>1. outcome.events = <<>> \/ outcome.events = <<event>>
    BY <1>3 DEF EditDetails, Done
  <2>2. event \in EditedEvents
    BY <1>1, <1>3 DEF EditedEvents
  <2> HIDE DEF event, outcome
  <2>3. outcome.events \in Batches
    BY <2>1, <2>2 DEF Batches
  <2> QED BY <2>3 DEF outcome
<1> QED BY <1>2, <1>3

LEMMA PriorityBatch ==
    ASSUME NEW task \in Task, NEW priority \in Priorities \cup {Invalid}
    PROVE  ChangePriority(task, priority).raised
           \/ ChangePriority(task, priority).events \in Batches
<1> DEFINE event == [kind |-> "TaskPriorityChanged", from |-> task.priority, to |-> priority]
           outcome == ChangePriority(task, priority)
<1>1. CASE priority = Invalid
  BY <1>1 DEF ChangePriority, Raise
<1>2. CASE priority # Invalid
  <2>1. outcome.events = <<>> \/ outcome.events = <<event>>
    BY <1>2 DEF ChangePriority, Done
  <2>2. event \in PriorityEvents
    BY <1>2 DEF PriorityEvents, Task
  <2> HIDE DEF event, outcome
  <2>3. outcome.events \in Batches
    BY <2>1, <2>2 DEF Batches
  <2> QED BY <2>3 DEF outcome
<1> QED BY <1>1, <1>2

LEMMA TransitionBatch ==
    ASSUME NEW task \in Task, NEW target \in Statuses \cup {Invalid}
    PROVE  TransitionTo(task, target, Strict).raised
           \/ TransitionTo(task, target, Strict).events \in Batches
<1> DEFINE outcome == TransitionTo(task, target, Strict)
<1>1. CASE target = Invalid \/ (Strict /\ ~ CanTransition(task.status, target)
                               /\ target # task.status)
  BY <1>1 DEF TransitionTo, Raise
<1>2. CASE target # Invalid /\ target = task.status
  <2>1. outcome.events = <<>>
    BY <1>2 DEF TransitionTo, Done
  <2> QED BY <2>1 DEF Batches
<1>3. CASE /\ target # Invalid /\ target # task.status
           /\ Strict => CanTransition(task.status, target)
  <2>1. outcome.events = StatusChange(task.status, target)
    BY <1>3 DEF TransitionTo, Done
  <2>2. task.status \in Statuses /\ target \in Statuses
    BY <1>3 DEF Task
  <2> DEFINE c == <<task.status, target>>
  <2>3. c \in {p \in Statuses \X Statuses :
                   p[1] # p[2] /\ (Strict => CanTransition(p[1], p[2]))}
    BY <2>2, <1>3
  <2>4. StatusChange(c[1], c[2]) \in Batches
    BY <2>3 DEF Batches
  <2> QED BY <2>1, <2>4
<1> QED BY <1>1, <1>2, <1>3

-----------------------------------------------------------------------------
(* Steps that leave the database alone *)

\* What a thread is about to commit has an identity that was minted.
LEMMA HeldIsMinted ==
    ASSUME IInv, NEW u \in Threads, pc[u] = "commit"
    PROVE  work[u] \in Work /\ work[u].id \in minted
<1>1. work[u] \in Work
  BY DEF IInv, TypeOK
<1>2. work[u].persist \in {"add", "save", "delete"}
  BY <1>1 DEF Work
<1>3. /\ work[u].persist = "add" => MayAdd(work[u])
      /\ work[u].persist = "save" => MaySave(work[u])
      /\ work[u].persist = "delete" => MayDelete(work[u])
  BY DEF IInv, Held
<1>4. /\ MayAdd(work[u]) => work[u].id \in minted
      /\ MaySave(work[u]) => work[u].id \in minted
      /\ MayDelete(work[u]) => work[u].id \in minted
  BY DEF MayAdd, MaySave, MayDelete
<1> QED BY <1>1, <1>2, <1>3, <1>4

\* A thread that goes on holding the same may still commit it, unless its task is
\* stored or its history is lost.
LEMMA HeldStays ==
    ASSUME IInv, NEW u \in Threads, pc[u] = "commit", work'[u] = work[u],
           minted \subseteq minted',
           work[u].persist = "add" => /\ row'[work[u].id] = row[work[u].id]
                                      /\ stream'[work[u].id] = stream[work[u].id],
           EventSourcing /\ stream[work[u].id] # <<>> => stream'[work[u].id] # <<>>
    PROVE  /\ work'[u].persist = "add" => MayAdd(work[u])'
           /\ work'[u].persist = "save" => MaySave(work[u])'
           /\ work'[u].persist = "delete" => MayDelete(work[u])'
<1> DEFINE w == work[u]
<1>1. /\ w.persist = "add" => MayAdd(w)
      /\ w.persist = "save" => MaySave(w)
      /\ w.persist = "delete" => MayDelete(w)
  BY DEF IInv, Held
<1>2. w.id \in minted'
  BY HeldIsMinted
<1>3. ASSUME w.persist = "add" PROVE MayAdd(work[u])'
  <2>1. /\ row[w.id] = NoTask /\ stream[w.id] = <<>>
        /\ \E event \in CreatedEvents : w.task = RebuildStep(NoTask, event) /\ w.events = <<event>>
    BY <1>1, <1>3 DEF MayAdd
  <2>2. row'[w.id] = NoTask /\ stream'[w.id] = <<>>
    BY <1>3, <2>1
  <2> QED BY <1>2, <2>1, <2>2 DEF MayAdd
<1>4. ASSUME w.persist = "save" PROVE MaySave(work[u])'
  BY <1>1, <1>2, <1>4 DEF MaySave
<1>5. ASSUME w.persist = "delete" PROVE MayDelete(work[u])'
  BY <1>1, <1>2, <1>5 DEF MayDelete
<1> QED BY <1>3, <1>4, <1>5

\* A thread takes up a command on a task that has a row.
LEMMA LoadKeepsIInv ==
    ASSUME IInv, NEW t \in Threads, NEW id \in Ids, row[id] # NoTask, Receive(t),
           NEW persist \in {"save", "delete"},
           NEW outcome, Sound(row[id], outcome, Strict), Hold(t, persist, id, outcome),
           UNCHANGED minted,
           persist = "save" => outcome.raised \/ outcome.events \in Batches,
           persist = "delete" => \E event \in DeletedEvents : outcome.events = <<event>>
    PROVE  IInv'
<1>1. UNCHANGED <<row, stream, minted, published>> /\ pc[t] = "idle"
      /\ received' = received + 1 /\ received < MaxRequests
  BY DEF Receive, ledger
<1>2. received' \in 0 .. MaxRequests
  BY <1>1, MaxRequestsAssumption DEF IInv, TypeOK
<1>3. CASE outcome.raised
  <2>1. UNCHANGED <<pc, work>>
    BY <1>3 DEF Hold
  <2> QED BY <1>1, <1>2, <2>1 DEF IInv, TypeOK, LedgerTypeOK, RowsConsistent, Held, MayAdd,
          MaySave, MayDelete, AddsAlone, Fresh, RowsHaveStreams, PublishingSomething
<1>4. CASE ~ outcome.raised
  <2> DEFINE w == [persist |-> persist, id |-> id,
                   task |-> outcome.task, events |-> outcome.events]
  <2>1. pc' = [pc EXCEPT ![t] = "commit"] /\ work' = [work EXCEPT ![t] = w]
    BY <1>4 DEF Hold
  <2>2. outcome.events \in Seq(Event)
    <3>1. outcome.events \in Seq(ChangeEvents \cup DeletedEvents)
      BY DEF Sound
    <3>2. ChangeEvents \cup DeletedEvents \subseteq Event
      BY DEF Event
    <3> QED BY <3>1, <3>2, SeqMonotonic
  <2>3. w \in Work /\ w.persist = persist /\ w.id = id /\ w.task = outcome.task
        /\ w.events = outcome.events
    BY <2>2 DEF Work, Sound
  <2> HIDE DEF w
  <2>4. id \in minted
    BY DEF IInv, Fresh
  <2>5. CompletionConsistent(outcome.task)
    BY DEF IInv, RowsConsistent, Sound
  <2>6. EventSourcing => stream[id] # <<>>
    BY DEF IInv, RowsHaveStreams
  <2>7. TypeOK'
    BY <1>1, <1>2, <2>1, <2>3, NoWorkAssumption DEF IInv, TypeOK, LedgerTypeOK
  <2>8. /\ \A u \in Threads \ {t} : pc'[u] = pc[u] /\ work'[u] = work[u]
        /\ pc'[t] = "commit" /\ work'[t] = w
    BY <2>1 DEF IInv, TypeOK
  <2>9. Held'
    <3> SUFFICES ASSUME NEW u \in Threads, pc'[u] = "commit"
                 PROVE  /\ work'[u].persist = "add" => MayAdd(work[u])'
                        /\ work'[u].persist = "save" => MaySave(work[u])'
                        /\ work'[u].persist = "delete" => MayDelete(work[u])'
      BY DEF Held
    <3>1. CASE u = t
      BY <3>1, <1>1, <1>4, <2>3, <2>4, <2>5, <2>6, <2>8 DEF MaySave, MayDelete
    <3>2. CASE u # t
      BY <3>2, <1>1, <2>8 DEF IInv, Held, MayAdd, MaySave, MayDelete
    <3> QED BY <3>1, <3>2
  <2>10. AddsAlone'
    <3> SUFFICES ASSUME NEW u \in Threads, NEW v \in Threads, u # v, pc'[u] = "commit",
                        pc'[v] = "commit", work'[u].persist = "add"
                 PROVE  work'[v].id # work'[u].id
      BY DEF AddsAlone
    <3>1. u # t
      BY <2>3, <2>8
    <3>2. CASE v = t
      BY <3>1, <3>2, <2>3, <2>8 DEF IInv, Held, MayAdd
    <3>3. CASE v # t
      BY <3>1, <3>3, <2>8 DEF IInv, AddsAlone
    <3> QED BY <3>2, <3>3
  <2>11. PublishingSomething'
    BY <2>8 DEF IInv, PublishingSomething
  <2> QED BY <1>1, <2>7, <2>9, <2>10, <2>11 DEF IInv, RowsConsistent, Fresh, RowsHaveStreams
<1> QED BY <1>3, <1>4

\* A thread makes a new task, with an identity nobody else has.
LEMMA CreateKeepsIInv ==
    ASSUME IInv, NEW t \in Threads, CreateTask(t) PROVE IInv'
<1>1. UNCHANGED <<row, stream, published>> /\ pc[t] = "idle"
      /\ received' = received + 1 /\ received < MaxRequests
  BY DEF CreateTask, Receive, ledger
<1>2. received' \in 0 .. MaxRequests
  BY <1>1, MaxRequestsAssumption DEF IInv, TypeOK
<1>3. PICK id \in Ids \ minted, title \in RawTitles, description \in RawDescriptions,
           priority \in Priorities \cup {Invalid} :
         /\ Hold(t, "add", id, Create(title, description, priority))
         /\ minted' = IF Create(title, description, priority).raised THEN minted
                      ELSE minted \cup {id}
  BY DEF CreateTask
<1> DEFINE outcome == Create(title, description, priority)
<1>4. \/ outcome = Raise(NoTask)
      \/ \E event \in CreatedEvents :
            /\ outcome = Done(RebuildStep(NoTask, event), <<event>>)
            /\ RebuildStep(NoTask, event) \in Task
            /\ CompletionConsistent(RebuildStep(NoTask, event))
  BY CreateSound
<1> HIDE DEF outcome
<1>5. CASE outcome = Raise(NoTask)
  <2>1. UNCHANGED <<pc, work, minted>>
    BY <1>3, <1>5 DEF Hold, Raise, outcome
  <2> QED BY <1>1, <1>2, <2>1 DEF IInv, TypeOK, LedgerTypeOK, RowsConsistent, Held, MayAdd,
          MaySave, MayDelete, AddsAlone, Fresh, RowsHaveStreams, PublishingSomething
<1>6. ASSUME NEW event \in CreatedEvents,
             outcome = Done(RebuildStep(NoTask, event), <<event>>), RebuildStep(NoTask, event) \in Task
      PROVE  IInv'
  <2> DEFINE w == [persist |-> "add", id |-> id,
                   task |-> RebuildStep(NoTask, event), events |-> <<event>>]
  <2>1. pc' = [pc EXCEPT ![t] = "commit"] /\ work' = [work EXCEPT ![t] = w]
        /\ minted' = minted \cup {id}
    BY <1>3, <1>6 DEF Hold, Done, outcome
  <2>2. <<event>> \in Seq(Event)
    BY EventKinds
  <2>3. w \in Work /\ w.persist = "add" /\ w.id = id /\ w.task = RebuildStep(NoTask, event)
        /\ w.events = <<event>>
    BY <2>2, <1>6 DEF Work
  <2> HIDE DEF w
  <2>4. row[id] = NoTask /\ stream[id] = <<>>
    BY DEF IInv, Fresh
  <2>5. TypeOK'
    BY <1>1, <1>2, <2>1, <2>3, NoWorkAssumption DEF IInv, TypeOK, LedgerTypeOK
  <2>6. /\ \A u \in Threads \ {t} : pc'[u] = pc[u] /\ work'[u] = work[u]
        /\ pc'[t] = "commit" /\ work'[t] = w
    BY <2>1 DEF IInv, TypeOK
  <2>7. \A u \in Threads \ {t} : pc[u] = "commit" => work[u].id # id
    BY HeldIsMinted
  <2>8. Held'
    <3> SUFFICES ASSUME NEW u \in Threads, pc'[u] = "commit"
                 PROVE  /\ work'[u].persist = "add" => MayAdd(work[u])'
                        /\ work'[u].persist = "save" => MaySave(work[u])'
                        /\ work'[u].persist = "delete" => MayDelete(work[u])'
      BY DEF Held
    <3>1. CASE u = t
      BY <3>1, <1>1, <2>1, <2>3, <2>4, <2>6 DEF MayAdd
    <3>2. CASE u # t
      <4>1. /\ pc[u] = "commit" /\ work'[u] = work[u] /\ minted \subseteq minted'
            /\ row'[work[u].id] = row[work[u].id] /\ stream'[work[u].id] = stream[work[u].id]
        BY <3>2, <1>1, <2>1, <2>6
      <4> QED BY <4>1, HeldStays
    <3> QED BY <3>1, <3>2
  <2>9. AddsAlone'
    BY <2>3, <2>6, <2>7 DEF IInv, AddsAlone
  <2>10. PublishingSomething' /\ Fresh'
    BY <1>1, <2>1, <2>6 DEF IInv, PublishingSomething, Fresh
  <2> QED BY <1>1, <2>5, <2>8, <2>9, <2>10 DEF IInv, RowsConsistent, RowsHaveStreams
<1> QED BY <1>4, <1>5, <1>6

\* Threads forget what they hold, and nothing else happens.
LEMMA ForgetKeepsIInv ==
    ASSUME IInv, UNCHANGED <<ledger, minted, published, received>>,
           \A t \in Threads : \/ pc'[t] = pc[t] /\ work'[t] = work[t]
                              \/ pc'[t] = "idle" /\ work'[t] = NoWork,
           pc' \in [Threads -> {"idle", "commit", "publish"}],
           work' \in [Threads -> Work \cup {NoWork}]
    PROVE  IInv'
<1>1. UNCHANGED <<row, stream, minted, published, received>>
  BY DEF ledger
<1>2. TypeOK'
  BY <1>1 DEF IInv, TypeOK, LedgerTypeOK
<1>3. Held'
  BY <1>1 DEF IInv, Held, MayAdd, MaySave, MayDelete
<1>4. AddsAlone' /\ PublishingSomething'
  BY DEF IInv, AddsAlone, PublishingSomething
<1> QED BY <1>1, <1>2, <1>3, <1>4 DEF IInv, RowsConsistent, Fresh, RowsHaveStreams

\* What Release does to the thread and to the others.
LEMMA ReleaseForgets ==
    ASSUME IInv, NEW t \in Threads, Release(t)
    PROVE  /\ pc' \in [Threads -> {"idle", "commit", "publish"}]
           /\ work' \in [Threads -> Work \cup {NoWork}]
           /\ \A u \in Threads : \/ pc'[u] = pc[u] /\ work'[u] = work[u]
                                 \/ pc'[u] = "idle" /\ work'[u] = NoWork
<1>1. /\ pc' = [pc EXCEPT ![t] = "idle"] /\ work' = [work EXCEPT ![t] = NoWork]
      /\ pc \in [Threads -> {"idle", "commit", "publish"}]
      /\ work \in [Threads -> Work \cup {NoWork}]
  BY DEF IInv, TypeOK, Release
<1>2. /\ pc' \in [Threads -> {"idle", "commit", "publish"}]
      /\ work' \in [Threads -> Work \cup {NoWork}]
  BY <1>1
<1>3. \A u \in Threads : \/ pc'[u] = pc[u] /\ work'[u] = work[u]
                         \/ pc'[u] = "idle" /\ work'[u] = NoWork
  BY <1>1
<1> QED BY <1>2, <1>3

LEMMA ReleaseKeepsIInv ==
    ASSUME IInv, NEW t \in Threads, Release(t),
           UNCHANGED <<ledger, minted, published, received>>
    PROVE  IInv'
BY ReleaseForgets, ForgetKeepsIInv

LEMMA PublishKeepsIInv == ASSUME IInv, NEW t \in Threads, Publish(t) PROVE IInv'
<1> DEFINE events == work[t].events
<1>1. work[t] \in Work /\ events # <<>> /\ pc[t] = "publish"
  BY DEF Publish, IInv, TypeOK, PublishingSomething
<1>2. events \in Seq(Event) /\ work[t].id \in Ids
  BY <1>1 DEF Work
<1>3. Head(events) \in Event /\ Tail(events) \in Seq(Event) /\ Len(Tail(events)) = Len(events) - 1
      /\ Len(events) \in Nat
  BY <1>1, <1>2, HeadTailProperties, LenProperties
<1>4. published' \in [Ids -> Seq(Event)]
  <2>1. published \in [Ids -> Seq(Event)]
        /\ published' = [published EXCEPT ![work[t].id] = Append(@, Head(work[t].events))]
    BY DEF Publish, IInv, TypeOK
  <2>2. Append(published[work[t].id], Head(work[t].events)) \in Seq(Event)
    BY <1>2, <1>3, <2>1, AppendProperties
  <2> QED BY <2>1, <2>2
<1>5. UNCHANGED <<row, stream, minted, received>>
  BY DEF Publish, ledger
<1>6. CASE Len(events) = 1
  <2>1. Release(t)
    BY <1>6 DEF Publish
  <2>2. /\ pc' \in [Threads -> {"idle", "commit", "publish"}]
        /\ work' \in [Threads -> Work \cup {NoWork}]
        /\ \A u \in Threads : \/ pc'[u] = pc[u] /\ work'[u] = work[u]
                              \/ pc'[u] = "idle" /\ work'[u] = NoWork
    BY <2>1, ReleaseForgets
  <2>3. TypeOK'
    BY <1>4, <1>5, <2>2 DEF IInv, TypeOK, LedgerTypeOK
  <2>4. Held'
    BY <1>5, <2>2 DEF IInv, Held, MayAdd, MaySave, MayDelete
  <2>5. AddsAlone' /\ PublishingSomething'
    BY <2>2 DEF IInv, AddsAlone, PublishingSomething
  <2> QED BY <1>5, <2>3, <2>4, <2>5 DEF IInv, RowsConsistent, Fresh, RowsHaveStreams
<1>7. CASE Len(events) # 1
  <2> DEFINE w == [work[t] EXCEPT !.events = Tail(@)]
  <2>1. work' = [work EXCEPT ![t] = w] /\ pc' = pc
    BY <1>7 DEF Publish
  <2>2. w \in Work /\ w.events = Tail(events)
    BY <1>1, <1>3 DEF Work
  <2>3. Tail(events) # <<>>
    <3>1. Len(events) # 0
      BY <1>1, <1>2, EmptySeq
    <3>2. Len(Tail(events)) # 0
      BY <1>3, <1>7, <3>1
    <3> QED BY <1>3, <3>2, EmptySeq
  <2> HIDE DEF w
  <2>4. /\ \A u \in Threads \ {t} : work'[u] = work[u]
        /\ work'[t] = w /\ pc'[t] = "publish"
    BY <1>1, <2>1 DEF IInv, TypeOK
  <2>5. TypeOK'
    BY <1>1, <1>4, <1>5, <2>1, <2>2, <2>4, NoWorkAssumption DEF IInv, TypeOK, LedgerTypeOK
  <2>6. Held'
    BY <1>1, <1>5, <2>1, <2>4 DEF IInv, Held, MayAdd, MaySave, MayDelete
  <2>7. AddsAlone'
    <3> SUFFICES ASSUME NEW u \in Threads, NEW v \in Threads, u # v, pc'[u] = "commit",
                        pc'[v] = "commit", work'[u].persist = "add"
                 PROVE  work'[v].id # work'[u].id
      BY DEF AddsAlone
    <3>1. u # t /\ v # t
      BY <2>4
    <3> QED BY <3>1, <2>1, <2>4 DEF IInv, AddsAlone
  <2>8. PublishingSomething'
    BY <2>1, <2>2, <2>3, <2>4 DEF IInv, PublishingSomething
  <2> QED BY <1>5, <2>5, <2>6, <2>7, <2>8 DEF IInv, RowsConsistent, Fresh, RowsHaveStreams
<1> QED BY <1>6, <1>7
-----------------------------------------------------------------------------
(* Commits *)

\* A transaction stores a consistent row, or none, with the events that go with it.
LEMMA CommitKeepsIInv ==
    ASSUME IInv, NEW t \in Threads, pc[t] = "commit", NEW new \in Task \cup {NoTask},
           row' = [row EXCEPT ![work[t].id] = new],
           AppendEvents(work[t]), Committed(t), UNCHANGED <<minted, published, received>>,
           new # NoTask => CompletionConsistent(new),
           EventSourcing => stream[work[t].id] # <<>> \/ work[t].events # <<>>
    PROVE  IInv'
<1> DEFINE w == work[t]
           more == stream[w.id] \o w.events
<1>1. w \in Work /\ w.id \in minted
  BY HeldIsMinted
<1>2. w.id \in Ids /\ w.events \in Seq(Event)
  BY <1>1 DEF Work
<1>3. row \in [Ids -> Task \cup {NoTask}] /\ stream \in [Ids -> Seq(Event)]
      /\ stream[w.id] \in Seq(Event)
  BY <1>2 DEF IInv, TypeOK, LedgerTypeOK
<1>4. more \in Seq(Event) /\ (EventSourcing => more # <<>>)
  <2> DEFINE a == Len(stream[w.id])
             b == Len(w.events)
  <2>1. more \in Seq(Event) /\ Len(more) = a + b
    BY <1>2, <1>3, ConcatProperties
  <2>2. a \in Nat /\ b \in Nat
    BY <1>2, <1>3, LenProperties
  <2>3. ASSUME EventSourcing PROVE a # 0 \/ b # 0
    BY <1>2, <1>3, <2>3, EmptySeq
  <2> HIDE DEF w, more, a, b
  <2>4. ASSUME EventSourcing PROVE more # <<>>
    <3>1. Len(more) # 0
      BY <2>1, <2>2, <2>3, <2>4
    <3> QED BY <2>1, <3>1, EmptySeq
  <2> QED BY <2>1, <2>4
<1>5. stream' = IF EventSourcing THEN [stream EXCEPT ![w.id] = more] ELSE stream
  BY DEF AppendEvents
<1>6. /\ pc' \in [Threads -> {"idle", "commit", "publish"}]
      /\ work' \in [Threads -> Work \cup {NoWork}]
      /\ \A u \in Threads \ {t} : pc'[u] = pc[u] /\ work'[u] = work[u]
      /\ \/ pc'[t] = "idle" /\ work'[t] = NoWork
         \/ pc'[t] = "publish" /\ work'[t] = w /\ w.events # <<>>
  <2>1. pc \in [Threads -> {"idle", "commit", "publish"}]
        /\ work \in [Threads -> Work \cup {NoWork}]
    BY DEF IInv, TypeOK
  <2>2. CASE w.events = <<>>
    <3>1. pc' = [pc EXCEPT ![t] = "idle"] /\ work' = [work EXCEPT ![t] = NoWork]
      BY <2>2 DEF Committed, Release
    <3> QED BY <2>1, <3>1
  <2>3. CASE w.events # <<>>
    <3>1. pc' = [pc EXCEPT ![t] = "publish"] /\ work' = work
      BY <2>3 DEF Committed
    <3> QED BY <2>1, <2>3, <3>1
  <2> QED BY <2>2, <2>3
<1> HIDE DEF w, more
<1>7. /\ row' \in [Ids -> Task \cup {NoTask}] /\ row'[w.id] = new
      /\ \A other \in Ids \ {w.id} : row'[other] = row[other]
  BY <1>2, <1>3 DEF w
<1>8. /\ stream' \in [Ids -> Seq(Event)]
      /\ \A other \in Ids \ {w.id} : stream'[other] = stream[other]
      /\ EventSourcing => stream'[w.id] # <<>>
      /\ ~ EventSourcing => stream' = stream
  BY <1>2, <1>3, <1>4, <1>5
<1>9. TypeOK'
  <2>1. w # NoWork
    BY <1>1, NoWorkAssumption
  <2>2. \A u \in Threads : pc'[u] = "idle" <=> work'[u] = NoWork
    BY <1>6, <2>1 DEF IInv, TypeOK
  <2> QED BY <1>6, <1>7, <1>8, <2>2 DEF IInv, TypeOK, LedgerTypeOK
<1>10. Held'
  <2> SUFFICES ASSUME NEW u \in Threads, pc'[u] = "commit"
               PROVE  /\ work'[u].persist = "add" => MayAdd(work[u])'
                      /\ work'[u].persist = "save" => MaySave(work[u])'
                      /\ work'[u].persist = "delete" => MayDelete(work[u])'
    BY DEF Held
  <2>1. u # t /\ pc[u] = "commit" /\ work'[u] = work[u]
    BY <1>6
  <2>2. work[u] \in Work /\ work[u].id \in Ids
    BY <2>1, HeldIsMinted DEF Work
  <2>3. work[u].persist = "add" => work[u].id # w.id
    BY <2>1 DEF IInv, AddsAlone, w
  <2>4. work[u].persist = "add" => /\ row'[work[u].id] = row[work[u].id]
                                   /\ stream'[work[u].id] = stream[work[u].id]
    BY <1>7, <1>8, <2>2, <2>3
  <2>5. EventSourcing /\ stream[work[u].id] # <<>> => stream'[work[u].id] # <<>>
    BY <1>8, <2>2
  <2> QED BY <2>1, <2>4, <2>5, HeldStays
<1>11. AddsAlone' /\ PublishingSomething'
  <2>1. AddsAlone'
    BY <1>6 DEF IInv, AddsAlone
  <2>2. PublishingSomething'
    BY <1>6 DEF IInv, PublishingSomething
  <2> QED BY <2>1, <2>2
<1>12. Fresh'
  BY <1>1, <1>7, <1>8 DEF IInv, Fresh
<1>13. RowsHaveStreams'
  BY <1>7, <1>8 DEF IInv, RowsHaveStreams
<1>14. RowsConsistent'
  BY <1>7 DEF IInv, RowsConsistent
<1> QED BY <1>9, <1>10, <1>11, <1>12, <1>13, <1>14 DEF IInv

\* What each of the three transactions is about to store.
LEMMA AddStores ==
    ASSUME IInv, NEW t \in Threads, CommitAdd(t)
    PROVE  /\ work[t] \in Work /\ row[work[t].id] = NoTask /\ stream[work[t].id] = <<>>
           /\ \E event \in CreatedEvents :
                 work[t].task = RebuildStep(NoTask, event) /\ work[t].events = <<event>>
<1>1. MayAdd(work[t]) /\ pc[t] = "commit"
  BY DEF CommitAdd, IInv, Held
<1> QED BY <1>1, HeldIsMinted DEF MayAdd

LEMMA SaveStores ==
    ASSUME IInv, NEW t \in Threads, CommitSave(t)
    PROVE  /\ work[t] \in Work /\ row[work[t].id] # NoTask
           /\ CompletionConsistent(work[t].task) /\ work[t].events \in Batches
<1>1. MaySave(work[t]) /\ pc[t] = "commit"
  BY DEF CommitSave, IInv, Held
<1> QED BY <1>1, HeldIsMinted DEF MaySave, CommitSave

LEMMA DeleteStores ==
    ASSUME IInv, NEW t \in Threads, CommitDelete(t)
    PROVE  /\ work[t] \in Work
           /\ EventSourcing => stream[work[t].id] # <<>>
           /\ \E event \in DeletedEvents : work[t].events = <<event>>
<1>1. MayDelete(work[t]) /\ pc[t] = "commit"
  BY DEF CommitDelete, IInv, Held
<1> QED BY <1>1, HeldIsMinted DEF MayDelete

LEMMA FinishKeepsIInv == ASSUME IInv, NEW t \in Threads, Finish(t) PROVE IInv'
<1>1. CASE CommitAdd(t)
  <2>1. PICK event \in CreatedEvents :
            work[t].task = RebuildStep(NoTask, event) /\ work[t].events = <<event>>
    BY <1>1, AddStores
  <2>2. work[t].task \in Task /\ work[t].events # <<>>
    BY <1>1, <2>1, AddStores DEF Work
  <2>3. CompletionConsistent(work[t].task)
    BY <2>1 DEF RebuildStep, Apply, CreatedEvents, CompletionConsistent
  <2> QED BY <1>1, <2>2, <2>3, CommitKeepsIInv DEF CommitAdd
<1>2. CASE CommitSave(t)
  <2>1. work[t].task \in Task /\ work[t].id \in Ids /\ row[work[t].id] # NoTask
        /\ CompletionConsistent(work[t].task)
    BY <1>2, SaveStores DEF Work
  <2>2. EventSourcing => stream[work[t].id] # <<>>
    BY <2>1 DEF IInv, RowsHaveStreams
  <2> QED BY <1>2, <2>1, <2>2, CommitKeepsIInv DEF CommitSave
<1>3. CASE CommitDelete(t)
  <2>1. EventSourcing => stream[work[t].id] # <<>>
    BY <1>3, DeleteStores
  <2> QED BY <1>3, <2>1, CommitKeepsIInv DEF CommitDelete
<1>4. CASE SaveFindsNothing(t)
  BY <1>4, ReleaseKeepsIInv DEF SaveFindsNothing
<1>5. CASE RollBack(t)
  BY <1>5, ReleaseKeepsIInv DEF RollBack
<1>6. CASE Publish(t)
  BY <1>6, PublishKeepsIInv
<1> QED BY <1>1, <1>2, <1>3, <1>4, <1>5, <1>6 DEF Finish

LEMMA RequestKeepsIInv == ASSUME IInv, NEW t \in Threads, Request(t) PROVE IInv'
<1>1. \A id \in Ids : row[id] # NoTask => row[id] \in Task
  BY DEF IInv, TypeOK, LedgerTypeOK
<1>2. CASE CreateTask(t)
  BY <1>2, CreateKeepsIInv
<1>3. CASE EditTask(t)
  <2>1. PICK id \in {i \in Ids : row[i] # NoTask},
             title \in RawTitles \cup {None}, description \in RawDescriptions \cup {None} :
               Hold(t, "save", id, EditDetails(row[id], title, description))
    BY <1>3 DEF EditTask
  <2> DEFINE outcome == EditDetails(row[id], title, description)
  <2>2. row[id] \in Task
    BY <1>1
  <2>3. Sound(row[id], outcome, Strict) /\ (outcome.raised \/ outcome.events \in Batches)
    BY <2>2, EditSound, EditBatch
  <2> HIDE DEF outcome
  <2>4. Receive(t) /\ UNCHANGED minted
    BY <1>3 DEF EditTask
  <2>5. Hold(t, "save", id, outcome)
    BY <2>1 DEF outcome
  <2> QED BY <2>3, <2>4, <2>5, LoadKeepsIInv
<1>4. CASE ReprioritizeTask(t)
  <2>1. PICK id \in {i \in Ids : row[i] # NoTask}, priority \in Priorities \cup {Invalid} :
               Hold(t, "save", id, ChangePriority(row[id], priority))
    BY <1>4 DEF ReprioritizeTask
  <2> DEFINE outcome == ChangePriority(row[id], priority)
  <2>2. row[id] \in Task
    BY <1>1
  <2>3. Sound(row[id], outcome, Strict) /\ (outcome.raised \/ outcome.events \in Batches)
    BY <2>2, PrioritySound, PriorityBatch
  <2> HIDE DEF outcome
  <2>4. Receive(t) /\ UNCHANGED minted
    BY <1>4 DEF ReprioritizeTask
  <2>5. Hold(t, "save", id, outcome)
    BY <2>1 DEF outcome
  <2> QED BY <2>3, <2>4, <2>5, LoadKeepsIInv
<1>5. CASE TransitionTask(t)
  <2>1. PICK id \in {i \in Ids : row[i] # NoTask}, target \in Statuses \cup {Invalid} :
               Hold(t, "save", id, TransitionTo(row[id], target, Strict))
    BY <1>5 DEF TransitionTask
  <2> DEFINE outcome == TransitionTo(row[id], target, Strict)
  <2>2. row[id] \in Task
    BY <1>1
  <2>3. Sound(row[id], outcome, Strict) /\ (outcome.raised \/ outcome.events \in Batches)
    BY <2>2, FlagsAssumption, TransitionSound, TransitionBatch
  <2> HIDE DEF outcome
  <2>4. Receive(t) /\ UNCHANGED minted
    BY <1>5 DEF TransitionTask
  <2>5. Hold(t, "save", id, outcome)
    BY <2>1 DEF outcome
  <2> QED BY <2>3, <2>4, <2>5, LoadKeepsIInv
<1>6. CASE DeleteTask(t)
  <2>1. PICK id \in {i \in Ids : row[i] # NoTask} :
               Hold(t, "delete", id, MarkDeleted(row[id]))
    BY <1>6 DEF DeleteTask
  <2> DEFINE outcome == MarkDeleted(row[id])
             event == [kind |-> "TaskDeleted", status |-> row[id].status]
  <2>2. row[id] \in Task
    BY <1>1
  <2>3. Sound(row[id], outcome, Strict)
    BY <2>2, DeleteSound
  <2>4. event \in DeletedEvents /\ outcome.events = <<event>>
    BY <2>2 DEF DeletedEvents, Task, MarkDeleted, Done
  <2> HIDE DEF outcome, event
  <2>5. Receive(t) /\ UNCHANGED minted
    BY <1>6 DEF DeleteTask
  <2>6. Hold(t, "delete", id, outcome)
    BY <2>1 DEF outcome
  <2>7. \E e \in DeletedEvents : outcome.events = <<e>>
    BY <2>4
  <2> QED BY <2>3, <2>5, <2>6, <2>7, LoadKeepsIInv
<1>7. CASE FindNothing(t)
  <2>1. UNCHANGED <<row, stream, minted, pc, work, published>>
        /\ received' = received + 1 /\ received < MaxRequests
    BY <1>7 DEF FindNothing, Receive, ledger
  <2>2. received' \in 0 .. MaxRequests
    BY <2>1, MaxRequestsAssumption DEF IInv, TypeOK
  <2> QED BY <2>1, <2>2 DEF IInv, TypeOK, LedgerTypeOK, RowsConsistent, Held, MayAdd,
          MaySave, MayDelete, AddsAlone, Fresh, RowsHaveStreams, PublishingSomething
<1> QED BY <1>2, <1>3, <1>4, <1>5, <1>6, <1>7 DEF Request

LEMMA CrashKeepsIInv == ASSUME IInv, Crash PROVE IInv'
<1>1. /\ pc' = [t \in Threads |-> "idle"] /\ work' = [t \in Threads |-> NoWork]
      /\ UNCHANGED <<ledger, minted, published, received>>
  BY DEF Crash
<1>2. /\ pc' \in [Threads -> {"idle", "commit", "publish"}]
      /\ work' \in [Threads -> Work \cup {NoWork}]
      /\ \A t \in Threads : pc'[t] = "idle" /\ work'[t] = NoWork
  BY <1>1
<1> QED BY <1>1, <1>2, ForgetKeepsIInv

LEMMA NextKeepsIInv == IInv /\ [Next]_vars => IInv'
<1> SUFFICES ASSUME IInv, [Next]_vars PROVE IInv'
  OBVIOUS
<1>1. CASE \E t \in Threads : Request(t) \/ Finish(t)
  BY <1>1, RequestKeepsIInv, FinishKeepsIInv
<1>2. CASE Crash
  BY <1>2, CrashKeepsIInv
<1>3. CASE UNCHANGED vars
  BY <1>3 DEF vars, ledger, IInv, TypeOK, LedgerTypeOK, RowsConsistent, Held, MayAdd,
          MaySave, MayDelete, AddsAlone, Fresh, RowsHaveStreams, PublishingSomething
<1> QED BY <1>1, <1>2, <1>3 DEF Next, Terminated

LEMMA InitIInv == Init => IInv
<1> SUFFICES ASSUME Init PROVE IInv
  OBVIOUS
<1>1. TypeOK
  <2>1. published \in [Ids -> Seq(Event)] /\ LedgerTypeOK
    BY EmptySeq DEF Init, LedgerInit, LedgerTypeOK
  <2>2. received \in 0 .. MaxRequests
    BY MaxRequestsAssumption DEF Init
  <2> QED BY <2>1, <2>2 DEF Init, TypeOK
<1> QED BY <1>1 DEF Init, LedgerInit, IInv, RowsConsistent, Held, AddsAlone, Fresh,
                    RowsHaveStreams, PublishingSomething

LEMMA Inductive == Spec => []IInv
  BY InitIInv, NextKeepsIInv, PTL DEF Spec

-----------------------------------------------------------------------------
(* Theorems *)

\* Every variable keeps its type, and a thread is idle exactly when it holds nothing.
THEOREM ServiceTypeCorrect == Spec => []TypeOK
<1>1. IInv => TypeOK
  BY DEF IInv
<1> QED BY <1>1, Inductive, PTL

\* Whatever the interleaving, and with event sourcing on or off, no row is stored
\* whose completion timestamp disagrees with its status.
THEOREM StoredRowsConsistent == Spec => []RowsConsistent
<1>1. IInv => RowsConsistent
  BY DEF IInv
<1> QED BY <1>1, Inductive, PTL

\* With event sourcing on, a commit is one of the ledger's three steps, and everything
\* else that happens leaves the ledger alone.
LEMMA NextIsLedgerNext ==
    ASSUME EventSourcing, IInv, [Next]_vars PROVE [LedgerNext]_ledger
<1>1. ASSUME NEW t \in Threads, CommitAdd(t) PROVE LedgerNext
  <2>1. work[t].id \in Ids /\ AddTask(work[t].id)
    BY <1>1, AddStores DEF Work, AddTask, Store, CommitAdd, AppendEvents
  <2> QED BY <2>1 DEF LedgerNext
<1>2. ASSUME NEW t \in Threads, CommitSave(t) PROVE LedgerNext
  <2>1. work[t].id \in Ids /\ work[t].task \in Task
    BY <1>2, SaveStores DEF Work
  <2>2. ChangeTask(work[t].id)
    BY <1>2, <2>1, SaveStores DEF ChangeTask, Store, CommitSave, AppendEvents
  <2> QED BY <2>1, <2>2 DEF LedgerNext
<1>3. ASSUME NEW t \in Threads, CommitDelete(t) PROVE LedgerNext
  <2>1. work[t].id \in Ids /\ RemoveTask(work[t].id)
    BY <1>3, DeleteStores DEF Work, RemoveTask, Store, CommitDelete, AppendEvents
  <2> QED BY <2>1 DEF LedgerNext
<1>4. ASSUME NEW t \in Threads, SaveFindsNothing(t) \/ RollBack(t) \/ Publish(t) \/ Request(t)
      PROVE  UNCHANGED ledger
  BY <1>4 DEF SaveFindsNothing, RollBack, Publish, Request, CreateTask, EditTask,
              ReprioritizeTask, TransitionTask, DeleteTask, FindNothing, Receive
<1>5. ASSUME Crash \/ UNCHANGED vars PROVE UNCHANGED ledger
  BY <1>5 DEF Crash, vars
<1> QED BY <1>1, <1>2, <1>3, <1>4, <1>5 DEF Next, Finish, Terminated

\* With event sourcing on, the service implements the ledger, whatever its threads do
\* and wherever it crashes.
THEOREM ServiceImplementsLedger == EventSourcing => (Spec => LedgerSpec)
<1> SUFFICES ASSUME EventSourcing PROVE Spec => LedgerSpec
  OBVIOUS
<1>1. Init => LedgerInit
  BY DEF Init
<1>2. IInv /\ [Next]_vars => [LedgerNext]_ledger
  BY NextIsLedgerNext
<1> QED BY <1>1, <1>2, Inductive, PTL DEF Spec, LedgerSpec

\* What the ledger guarantees therefore holds of the service.  No late save brings a
\* deleted task back, neither its row nor its history (DjangoTaskRepository.save
\* raises), and a history begins with its only creation.
THEOREM ServiceKeepsDeletions ==
    EventSourcing => (Spec => [](DeletionIsFinal /\ StreamsBeginWithCreation))
<1>1. LedgerInv => DeletionIsFinal /\ StreamsBeginWithCreation
  BY DEF LedgerInv
<1> QED BY <1>1, LedgerCorrect, ServiceImplementsLedger, PTL

\* A task has a row exactly while its history says it was created and not deleted: the
\* row and its events are in one transaction.
THEOREM ServiceRowIffLive == EventSourcing => (Spec => []RowIffLive)
<1>1. LedgerInv => RowIffLive
  BY DEF LedgerInv
<1> QED BY <1>1, LedgerCorrect, ServiceImplementsLedger, PTL

\* With STRICT_STATE_MACHINE no stored status change is outside the lifecycle graph,
\* though the row may have another status by the time it is stored.
THEOREM ServiceHistoryIsLegal == EventSourcing => (Spec => []HistoryIsLegal)
<1>1. LedgerInv => HistoryIsLegal
  BY DEF LedgerInv
<1> QED BY <1>1, LedgerCorrect, ServiceImplementsLedger, PTL

-----------------------------------------------------------------------------
(* What is published *)

\* The published events of the task come each from a place of their own in its stream.
ComesFrom(id, origin) ==
    \A n \in 1 .. Len(published[id]) :
        /\ origin[n] \in 1 .. Len(stream[id])
        /\ stream[id][origin[n]] = published[id][n]
        /\ \A m \in 1 .. Len(published[id]) : origin[m] = origin[n] => m = n

\* The pending events of w are those that follow the place p in the stream, from where
\* nothing was published yet.
Awaits(w, p, origin) ==
    /\ p \in Nat /\ p + Len(w.events) <= Len(stream[w.id])
    /\ \A k \in 1 .. Len(w.events) : stream[w.id][p + k] = w.events[k]
    /\ \A n \in 1 .. Len(published[w.id]) : origin[n] \notin p + 1 .. p + Len(w.events)

\* No two threads have an event of the stream between them.
Apart(v, p, w, q) ==
    v.id = w.id => p + Len(v.events) <= q \/ q + Len(w.events) <= p

Publishing == {t \in Threads : pc[t] = "publish"}

Origins(origin, place) ==
    /\ \A id \in Ids : ComesFrom(id, origin[id])
    /\ \A t \in Publishing : Awaits(work[t], place[t], origin[work[t].id])
    /\ \A t, u \in Publishing : t # u => Apart(work[t], place[t], work[u], place[u])

HaveOrigins == \E origin, place : Origins(origin, place)

\* A stream that has grown, or not, and a task of which nothing more was published.
Grown(id) ==
    /\ Len(stream[id]) \in Nat /\ Len(stream'[id]) \in Nat
    /\ Len(stream[id]) <= Len(stream'[id])
    /\ \A k \in 1 .. Len(stream[id]) : stream'[id][k] = stream[id][k]
    /\ published'[id] = published[id]

LEMMA ComesFromStays ==
    ASSUME NEW id, NEW origin, Grown(id), ComesFrom(id, origin)
    PROVE  ComesFrom(id, origin)'
  BY SMTT(40) DEF Grown, ComesFrom

LEMMA AwaitsStays ==
    ASSUME NEW w, w.events \in Seq(Event), NEW p, NEW origin, Grown(w.id), Awaits(w, p, origin)
    PROVE  Awaits(w, p, origin)'
<1>1. Len(w.events) \in Nat
  BY LenProperties
<1>2. p \in Nat /\ p + Len(w.events) <= Len(stream'[w.id])
  BY <1>1 DEF Grown, Awaits
<1>3. \A k \in 1 .. Len(w.events) : p + k \in 1 .. Len(stream[w.id])
  BY <1>1 DEF Grown, Awaits
<1>4. \A k \in 1 .. Len(w.events) : stream'[w.id][p + k] = w.events[k]
  BY <1>3 DEF Grown, Awaits
<1> QED BY <1>2, <1>4 DEF Grown, Awaits

\* What a publishing thread has.
LEMMA Pending ==
    ASSUME IInv, NEW t \in Publishing
    PROVE  /\ work[t] \in Work /\ work[t].id \in Ids /\ work[t].events \in Seq(Event)
           /\ Len(work[t].events) \in Nat \ {0}
<1>1. work[t] \in Work /\ work[t].events # <<>>
  BY DEF Publishing, IInv, TypeOK, PublishingSomething
<1>2. work[t].id \in Ids /\ work[t].events \in Seq(Event)
  BY <1>1 DEF Work
<1> QED BY <1>1, <1>2, LenProperties, EmptySeq

LEMMA Unchanged ==
    ASSUME IInv, UNCHANGED <<stream, published>>
    PROVE  \A id \in Ids : Grown(id)
<1>1. \A id \in Ids : stream[id] \in Seq(Event)
  BY DEF IInv, TypeOK, LedgerTypeOK
<1> QED BY <1>1, LenProperties DEF Grown

\* Nobody begins to publish, and nothing more is stored or published.
LEMMA OriginsStay ==
    ASSUME IInv, HaveOrigins, UNCHANGED <<stream, published>>,
           \A t \in Threads : pc'[t] = "publish" => pc[t] = "publish" /\ work'[t] = work[t]
    PROVE  HaveOrigins'
<1>1. PICK origin, place : Origins(origin, place)
  BY DEF HaveOrigins
<1>2. \A id \in Ids : Grown(id)
  BY Unchanged
<1>3. \A id \in Ids : ComesFrom(id, origin[id])'
  BY <1>1, <1>2, ComesFromStays DEF Origins
<1>4. \A t \in Publishing' : t \in Publishing /\ work'[t] = work[t]
  BY DEF Publishing
<1>5. ASSUME NEW t \in Publishing' PROVE Awaits(work[t], place[t], origin[work[t].id])'
  <2>1. PICK w : w = work[t]
    OBVIOUS
  <2>2. w = work'[t] /\ w.id \in Ids /\ w.events \in Seq(Event)
        /\ Awaits(w, place[t], origin[w.id])
    BY <1>1, <1>4, <1>5, <2>1, Pending DEF Origins
  <2>3. Awaits(w, place[t], origin[w.id])'
    BY <1>2, <2>2, AwaitsStays
  <2> QED BY <2>2, <2>3 DEF Awaits
<1>6. \A t, u \in Publishing' : t # u => Apart(work'[t], place[t], work'[u], place[u])
  BY <1>1, <1>4 DEF Origins
<1>7. Origins(origin, place)'
  BY <1>3, <1>5, <1>6 DEF Origins, Apart
<1> QED BY <1>7 DEF HaveOrigins

\* A commit: what is pending now comes after everything there was.
LEMMA CommitKeepsOrigins ==
    ASSUME IInv, EventSourcing, HaveOrigins, NEW t \in Threads,
           CommitAdd(t) \/ CommitSave(t) \/ CommitDelete(t)
    PROVE  HaveOrigins'
<1>1. PICK w : w = work[t]
  OBVIOUS
<1>2. /\ pc[t] = "commit" /\ Committed(t) /\ UNCHANGED published
      /\ stream' = [stream EXCEPT ![w.id] = @ \o w.events]
  BY <1>1 DEF CommitAdd, CommitSave, CommitDelete, AppendEvents
<1>3. w \in Work /\ w.id \in Ids /\ w.events \in Seq(Event)
      /\ stream \in [Ids -> Seq(Event)] /\ pc \in [Threads -> {"idle", "commit", "publish"}]
      /\ work \in [Threads -> Work \cup {NoWork}]
  BY <1>1, <1>2, HeldIsMinted DEF Work, IInv, TypeOK, LedgerTypeOK
<1>4. CASE w.events = <<>>
  <2>1. stream[w.id] \o <<>> = stream[w.id]
    BY <1>3, ConcatEmptySeq
  <2>2. UNCHANGED <<stream, published>>
    BY <1>2, <1>3, <1>4, <2>1
  <2>3. \A u \in Threads : pc'[u] = "publish" => pc[u] = "publish" /\ work'[u] = work[u]
    BY <1>1, <1>2, <1>3, <1>4 DEF Committed, Release
  <2> QED BY <2>2, <2>3, OriginsStay
<1>5. CASE w.events # <<>>
  <2> DEFINE old == stream[w.id]
             new == stream'[w.id]
             k == Len(w.events)
  <2>1. pc' = [pc EXCEPT ![t] = "publish"] /\ work' = work
    BY <1>1, <1>2, <1>5 DEF Committed
  <2>2. old \in Seq(Event) /\ new = old \o w.events /\ Len(old) \in Nat /\ k \in Nat
        /\ \A id \in Ids \ {w.id} : stream'[id] = stream[id]
    BY <1>2, <1>3, LenProperties
  <2>3. /\ Len(new) = Len(old) + k
        /\ \A n \in 1 .. Len(old) + k :
              new[n] = IF n <= Len(old) THEN old[n] ELSE w.events[n - Len(old)]
    <3> HIDE DEF old, new
    <3> QED BY <1>3, <2>2, ConcatProperties
  <2> HIDE DEF old, new, k
  <2>4. ASSUME NEW n \in 1 .. k PROVE new[Len(old) + n] = w.events[n]
    <3>1. Len(old) + n \in 1 .. Len(old) + k /\ ~ (Len(old) + n <= Len(old))
          /\ (Len(old) + n) - Len(old) = n
      BY <2>2
    <3> QED BY <2>3, <3>1
  <2>5. ASSUME NEW id \in Ids PROVE Grown(id)
    <3>1. CASE id = w.id
      <4>1. Len(new) \in Nat /\ Len(old) <= Len(new) /\ \A n \in 1 .. Len(old) : new[n] = old[n]
        BY <2>2, <2>3
      <4> QED BY <1>2, <2>2, <3>1, <4>1 DEF Grown, old, new
    <3>2. CASE id # w.id
      <4>1. Len(stream[id]) \in Nat
        BY <1>3, LenProperties
      <4> QED BY <1>2, <2>2, <3>2, <4>1 DEF Grown
    <3> QED BY <3>1, <3>2
  <2>6. PICK origin, place : Origins(origin, place)
    BY DEF HaveOrigins
  <2>7. PICK there : there = [u \in Threads |-> IF u = t THEN Len(old) ELSE place[u]]
    OBVIOUS
  <2>8. \A id \in Ids : ComesFrom(id, origin[id])'
    BY <2>5, <2>6, ComesFromStays DEF Origins
  <2>9. \A u \in Publishing' : u = t \/ (u \in Publishing /\ u # t)
    BY <1>3, <2>1 DEF Publishing
  <2>10. ASSUME NEW u \in Publishing', u # t
         PROVE  /\ Awaits(work[u], there[u], origin[work[u].id])'
                /\ there[u] = place[u] /\ u \in Publishing
    <3>1. PICK v : v = work[u]
      OBVIOUS
    <3>2. u \in Publishing /\ u \in Threads
      BY <2>9, <2>10 DEF Publishing
    <3>3. v = work'[u] /\ v.id \in Ids /\ v.events \in Seq(Event)
          /\ Awaits(v, place[u], origin[v.id])
      BY <2>1, <2>6, <3>1, <3>2, Pending DEF Origins
    <3>4. Awaits(v, place[u], origin[v.id])'
      BY <2>5, <3>3, AwaitsStays
    <3>5. there[u] = place[u]
      BY <2>7, <2>10, <3>2
    <3> QED BY <3>2, <3>3, <3>4, <3>5 DEF Awaits
  <2>11. Awaits(work[t], there[t], origin[work[t].id])'
    <3>1. there[t] = Len(old) /\ work'[t] = w
      BY <1>1, <2>1, <2>7
    <3>2. \A n \in 1 .. Len(published'[w.id]) : origin[w.id][n] \in 1 .. Len(old)
      BY <1>2, <1>3, <2>6 DEF Origins, ComesFrom, old
    <3>3. \A n \in 1 .. Len(published'[w.id]) : origin[w.id][n] \notin Len(old) + 1 .. Len(old) + k
      BY <3>2, <2>2
    <3> QED BY <3>1, <3>3, <2>2, <2>3, <2>4 DEF Awaits, new, k
  <2>12. ASSUME NEW u \in Publishing', NEW v \in Publishing', u # v
         PROVE  Apart(work[u], there[u], work[v], there[v])'
    <3>1. work' = work /\ there[t] = Len(old)
      BY <2>1, <2>7
    <3>2. CASE u # t /\ v # t
      <4>1. Apart(work[u], place[u], work[v], place[v])
        BY <2>6, <2>10, <2>12, <3>2 DEF Origins
      <4> QED BY <2>10, <3>1, <3>2, <4>1 DEF Apart
    <3>3. ASSUME NEW x \in Publishing, x # t, work[x].id = w.id
          PROVE  place[x] + Len(work[x].events) <= Len(old)
      BY <2>6, <3>3 DEF Origins, Awaits, old
    <3>4. CASE u = t
      <4>1. v # t /\ v \in Publishing /\ there[v] = place[v]
        BY <2>10, <2>12, <3>4
      <4> QED BY <1>1, <3>1, <3>3, <3>4, <4>1 DEF Apart
    <3>5. CASE v = t
      <4>1. u # t /\ u \in Publishing /\ there[u] = place[u]
        BY <2>10, <2>12, <3>5
      <4> QED BY <1>1, <3>1, <3>3, <3>5, <4>1 DEF Apart
    <3> QED BY <3>2, <3>4, <3>5
  <2>13. \A u \in Publishing' : Awaits(work[u], there[u], origin[work[u].id])'
    <3> TAKE u \in Publishing'
    <3> QED BY <2>10, <2>11
  <2>14. Origins(origin, there)'
    BY <2>8, <2>12, <2>13 DEF Origins
  <2> QED BY <2>14 DEF HaveOrigins
<1> QED BY <1>4, <1>5

\* The next event is published: its place is passed on.
LEMMA PublishKeepsOrigins ==
    ASSUME IInv, HaveOrigins, NEW t \in Threads, Publish(t)
    PROVE  HaveOrigins'
<1>1. PICK w : w = work[t]
  OBVIOUS
<1> DEFINE out == published[w.id]
           N == Len(out)
           k == Len(w.events)
           e == Head(w.events)
<1>2. /\ t \in Publishing /\ w \in Work /\ w.id \in Ids /\ w.events \in Seq(Event)
      /\ k \in Nat \ {0} /\ e = w.events[1] /\ w.events # <<>>
  <2>1. t \in Publishing
    BY DEF Publishing, Publish
  <2>2. w \in Work /\ w.id \in Ids /\ w.events \in Seq(Event) /\ k \in Nat \ {0}
    BY <1>1, <2>1, Pending
  <2> QED BY <2>1, <2>2
<1>3. /\ pc \in [Threads -> {"idle", "commit", "publish"}]
      /\ work \in [Threads -> Work \cup {NoWork}]
      /\ published \in [Ids -> Seq(Event)] /\ out \in Seq(Event) /\ N \in Nat
      /\ \A id \in Ids : Len(stream[id]) \in Nat
  <2>1. \A id \in Ids : stream[id] \in Seq(Event)
    BY DEF IInv, TypeOK, LedgerTypeOK
  <2>2. published \in [Ids -> Seq(Event)] /\ out \in Seq(Event)
    BY <1>2 DEF IInv, TypeOK
  <2> QED BY <2>1, <2>2, LenProperties DEF IInv, TypeOK
<1>4. UNCHANGED stream /\ published' = [published EXCEPT ![w.id] = Append(@, e)]
  BY <1>1 DEF Publish, ledger
<1>5. /\ published'[w.id] = Append(out, e)
      /\ Len(published'[w.id]) = N + 1 /\ published'[w.id][N + 1] = e
      /\ \A n \in 1 .. N : published'[w.id][n] = out[n]
      /\ \A id \in Ids \ {w.id} : published'[id] = published[id]
  BY <1>2, <1>3, <1>4, AppendProperties
<1>6. \A u \in Publishing' : u \in Publishing /\ (u # t => work'[u] = work[u])
  BY <1>1, <1>3 DEF Publish, Publishing, Release
<1>7. t \in Publishing' =>
         /\ work'[t].id = w.id /\ Len(work'[t].events) = k - 1
         /\ \A n \in 1 .. k - 1 : work'[t].events[n] = w.events[n + 1]
  <2> SUFFICES ASSUME t \in Publishing'
               PROVE  /\ work'[t].id = w.id /\ Len(work'[t].events) = k - 1
                      /\ \A n \in 1 .. k - 1 : work'[t].events[n] = w.events[n + 1]
    OBVIOUS
  <2>1. pc'[t] = "publish"
    BY DEF Publishing
  <2>2. work' = [work EXCEPT ![t].events = Tail(@)]
    BY <1>3, <2>1 DEF Publish, Release
  <2>3. work'[t].id = w.id /\ work'[t].events = Tail(w.events)
    BY <1>1, <1>2, <1>3, <2>2 DEF Work
  <2>4. Len(Tail(w.events)) = k - 1
        /\ \A n \in 1 .. Len(Tail(w.events)) : Tail(w.events)[n] = w.events[n + 1]
    BY <1>2, HeadTailProperties
  <2> QED BY <2>3, <2>4
<1>8. PICK origin, place : Origins(origin, place)
  BY DEF HaveOrigins
<1> DEFINE from == [n \in 1 .. N + 1 |-> IF n = N + 1 THEN place[t] + 1 ELSE origin[w.id][n]]
<1>9. PICK more : more = [id \in Ids |-> IF id = w.id THEN from ELSE origin[id]]
  OBVIOUS
<1>10. PICK there : there = [u \in Threads |-> IF u = t THEN place[t] + 1 ELSE place[u]]
  OBVIOUS
<1> HIDE DEF out, N, k, e
<1>11. /\ place[t] \in Nat /\ place[t] + k <= Len(stream[w.id])
       /\ \A n \in 1 .. k : stream[w.id][place[t] + n] = w.events[n]
       /\ \A n \in 1 .. N : origin[w.id][n] \notin place[t] + 1 .. place[t] + k
  BY <1>1, <1>2, <1>8 DEF Origins, Awaits, out, N, k
<1>12. /\ more[w.id][N + 1] = place[t] + 1
       /\ \A n \in 1 .. N : more[w.id][n] = origin[w.id][n]
       /\ \A id \in Ids \ {w.id} : more[id] = origin[id]
       /\ there[t] = place[t] + 1
       /\ \A u \in Threads \ {t} : there[u] = place[u]
  BY <1>2, <1>3, <1>9, <1>10
<1>13. place[t] + 1 \in place[t] + 1 .. place[t] + k /\ place[t] + 1 \in 1 .. Len(stream[w.id])
       /\ stream[w.id][place[t] + 1] = e
  BY SMTT(40), <1>2, <1>3, <1>11 DEF e
<1> HIDE DEF from
<1>numbers. k \in Nat /\ k >= 1 /\ place[t] \in Nat /\ there[t] = place[t] + 1
  BY <1>2, <1>11, <1>12
<1>14. ASSUME NEW id \in Ids PROVE ComesFrom(id, more[id])'
  <2>1. CASE id # w.id
    BY <1>4, <1>5, <1>8, <1>12, <2>1 DEF Origins, ComesFrom
  <2>2. CASE id = w.id
    <3>1. \A n \in 1 .. N : /\ origin[id][n] \in 1 .. Len(stream[id])
                            /\ stream[id][origin[id][n]] = out[n]
                            /\ \A m \in 1 .. N : origin[id][m] = origin[id][n] => m = n
      BY <1>8, <2>2 DEF Origins, ComesFrom, out, N
    <3>2. \A n \in 1 .. N + 1 : n \in 1 .. N \/ n = N + 1
      BY <1>3
    <3>3. \A n \in 1 .. N : origin[id][n] # place[t] + 1
      BY <1>11, <1>13, <2>2
    <3>4. ASSUME NEW n \in 1 .. N + 1
          PROVE  /\ more[id][n] \in 1 .. Len(stream[id])
                 /\ stream[id][more[id][n]] = published'[id][n]
                 /\ \A m \in 1 .. N + 1 : more[id][m] = more[id][n] => m = n
      <4>1. CASE n = N + 1
        BY <1>5, <1>12, <1>13, <2>2, <3>2, <3>3, <4>1
      <4>2. CASE n \in 1 .. N
        <5>1. more[id][n] = origin[id][n] /\ published'[id][n] = out[n]
              /\ origin[id][n] # place[t] + 1
          BY <1>5, <1>12, <2>2, <3>3, <4>2
        <5>2. \A m \in 1 .. N + 1 : more[id][m] = more[id][n] => m = n
          BY <1>12, <2>2, <3>1, <3>2, <4>2, <5>1
        <5> QED BY <3>1, <4>2, <5>1, <5>2
      <4> QED BY <3>2, <4>1, <4>2
    <3> QED BY <1>4, <1>5, <2>2, <3>4 DEF ComesFrom
  <2> QED BY <2>1, <2>2
<1>15. ASSUME NEW u \in Publishing' PROVE Awaits(work[u], there[u], more[work[u].id])'
  <2>1. CASE u = t
    <3>1. there[t] \in Nat /\ there[t] + (k - 1) = place[t] + k
      BY <1>numbers
    <3>2. ASSUME NEW n \in 1 .. k - 1 PROVE stream[w.id][there[t] + n] = w.events[n + 1]
      <4>1. n + 1 \in 1 .. k /\ there[t] + n = place[t] + (n + 1)
        BY <1>numbers
      <4> QED BY <1>11, <4>1
    <3>3. ASSUME NEW n \in 1 .. N + 1
          PROVE  more[w.id][n] \notin there[t] + 1 .. there[t] + (k - 1)
      <4>1. CASE n = N + 1
        BY <1>numbers, <1>12, <4>1
      <4>2. CASE n # N + 1
        <5>1. n \in 1 .. N
          BY <1>3, <4>2
        <5>2. origin[w.id][n] \notin place[t] + 1 .. place[t] + k
              /\ more[w.id][n] = origin[w.id][n]
          BY <1>11, <1>12, <5>1
        <5>3. there[t] + 1 .. there[t] + (k - 1) \subseteq place[t] + 1 .. place[t] + k
          BY <1>numbers
        <5> QED BY <5>2, <5>3
      <4> QED BY <4>1, <4>2
    <3>4. there[t] + (k - 1) <= Len(stream'[w.id])
      BY <1>4, <1>11, <3>1
    <3>5. work'[t].id = w.id /\ Len(work'[t].events) = k - 1
          /\ \A n \in 1 .. k - 1 : work'[t].events[n] = w.events[n + 1]
      BY <1>7, <1>15, <2>1
    <3> QED BY <1>4, <1>5, <2>1, <3>1, <3>2, <3>3, <3>4, <3>5 DEF Awaits
  <2>2. CASE u # t
    <3>1. PICK v : v = work[u]
      OBVIOUS
    <3>2. /\ u \in Publishing /\ u \in Threads /\ work'[u] = v /\ there[u] = place[u]
          /\ v.id \in Ids /\ Len(v.events) \in Nat \ {0}
          /\ Awaits(v, place[u], origin[v.id])
      BY <1>6, <1>8, <1>12, <1>15, <2>2, <3>1, Pending DEF Origins, Publishing
    <3>3. CASE v.id # w.id
      BY SMTT(40), <1>4, <1>5, <1>12, <3>2, <3>3 DEF Awaits
    <3>4. CASE v.id = w.id
      <4>1. Apart(v, place[u], w, place[t])
        BY <1>1, <1>2, <1>8, <2>2, <3>1, <3>2 DEF Origins
      <4>2. place[t] + 1 \notin place[u] + 1 .. place[u] + Len(v.events)
        BY <1>2, <1>11, <3>2, <3>4, <4>1 DEF Apart, Awaits, k
      <4>3. \A n \in 1 .. N : origin[w.id][n] \notin place[u] + 1 .. place[u] + Len(v.events)
        BY <3>2, <3>4 DEF Awaits, N, out
      <4>4. \A n \in 1 .. N + 1 : more[w.id][n] \notin place[u] + 1 .. place[u] + Len(v.events)
        <5>1. \A n \in 1 .. N + 1 : n \in 1 .. N \/ n = N + 1
          BY <1>3
        <5> QED BY <1>12, <4>2, <4>3, <5>1
      <4> QED BY <1>4, <1>5, <3>2, <3>4, <4>4 DEF Awaits
    <3> QED BY <3>3, <3>4
  <2> QED BY <2>1, <2>2
<1>16. ASSUME NEW u \in Publishing', NEW v \in Publishing', u # v
       PROVE  Apart(work[u], there[u], work[v], there[v])'
  <2>1. u \in Publishing /\ v \in Publishing /\ u \in Threads /\ v \in Threads
    BY <1>6, <1>16 DEF Publishing
  <2>2. Apart(work[u], place[u], work[v], place[v])
    BY <1>8, <1>16, <2>1 DEF Origins
  <2>3. CASE u # t /\ v # t
    BY <1>6, <1>12, <1>16, <2>1, <2>2, <2>3 DEF Apart
  <2>4. CASE u = t
    <3>1. v # t /\ work'[v] = work[v] /\ there[v] = place[v]
      BY <1>6, <1>12, <1>16, <2>1, <2>4
    <3>2. place[v] \in Nat /\ Len(work[v].events) \in Nat
      BY <1>8, <2>1, Pending DEF Origins, Awaits
    <3>3. work[v].id = w.id =>
             place[t] + k <= place[v] \/ place[v] + Len(work[v].events) <= place[t]
      BY <1>1, <2>2, <2>4 DEF Apart, k
    <3>4. work'[t].id = w.id /\ Len(work'[t].events) = k - 1
      BY <1>7, <1>16, <2>4
    <3>5. there[t] + (k - 1) = place[t] + k /\ \A n \in Nat : n <= place[t] => n <= there[t]
      BY <1>numbers
    <3>6. place[v] + Len(work[v].events) \in Nat
      BY <3>2
    <3>7. work[v].id = w.id =>
             there[t] + (k - 1) <= place[v] \/ place[v] + Len(work[v].events) <= there[t]
      BY <3>3, <3>5, <3>6
    <3> QED BY <2>4, <3>1, <3>4, <3>7 DEF Apart
  <2>5. CASE v = t
    <3>1. u # t /\ work'[u] = work[u] /\ there[u] = place[u]
      BY <1>6, <1>12, <1>16, <2>1, <2>5
    <3>2. place[u] \in Nat /\ Len(work[u].events) \in Nat
      BY <1>8, <2>1, Pending DEF Origins, Awaits
    <3>3. work[u].id = w.id =>
             place[t] + k <= place[u] \/ place[u] + Len(work[u].events) <= place[t]
      BY <1>1, <2>2, <2>5 DEF Apart, k
    <3>4. work'[t].id = w.id /\ Len(work'[t].events) = k - 1
      BY <1>7, <1>16, <2>5
    <3>5. there[t] + (k - 1) = place[t] + k /\ \A n \in Nat : n <= place[t] => n <= there[t]
      BY <1>numbers
    <3>6. place[u] + Len(work[u].events) \in Nat
      BY <3>2
    <3>7. work[u].id = w.id =>
             there[t] + (k - 1) <= place[u] \/ place[u] + Len(work[u].events) <= there[t]
      BY <3>3, <3>5, <3>6
    <3> QED BY <2>5, <3>1, <3>4, <3>7 DEF Apart
  <2> QED BY <2>3, <2>4, <2>5
<1>17. Origins(more, there)'
  BY <1>14, <1>15, <1>16 DEF Origins
<1> QED BY <1>17 DEF HaveOrigins

LEMMA NextKeepsOrigins ==
    ASSUME IInv, EventSourcing, HaveOrigins, [Next]_vars
    PROVE  HaveOrigins'
<1>1. pc \in [Threads -> {"idle", "commit", "publish"}] /\ work \in [Threads -> Work \cup {NoWork}]
  BY DEF IInv, TypeOK
<1>2. ASSUME NEW t \in Threads, Request(t)
      PROVE  /\ UNCHANGED <<stream, published>>
             /\ \A u \in Threads : pc'[u] = "publish" => pc[u] = "publish" /\ work'[u] = work[u]
  BY <1>1, <1>2 DEF Request, CreateTask, EditTask, ReprioritizeTask, TransitionTask, DeleteTask,
                    FindNothing, Receive, Hold, ledger
<1>3. ASSUME NEW t \in Threads, SaveFindsNothing(t) \/ RollBack(t)
      PROVE  /\ UNCHANGED <<stream, published>>
             /\ \A u \in Threads : pc'[u] = "publish" => pc[u] = "publish" /\ work'[u] = work[u]
  BY <1>1, <1>3 DEF SaveFindsNothing, RollBack, Release, ledger
<1>4. ASSUME Crash \/ UNCHANGED vars
      PROVE  /\ UNCHANGED <<stream, published>>
             /\ \A u \in Threads : pc'[u] = "publish" => pc[u] = "publish" /\ work'[u] = work[u]
  BY <1>4 DEF Crash, vars, ledger
<1> QED BY <1>2, <1>3, <1>4, OriginsStay, CommitKeepsOrigins, PublishKeepsOrigins
        DEF Next, Finish, Terminated

\* Events that come each from a place of its own are at most as many as those places.
LEMMA OriginsCount ==
    ASSUME NEW id, NEW origin, ComesFrom(id, origin), NEW e, Len(stream[id]) \in Nat
    PROVE  Cardinality({n \in 1 .. Len(published[id]) : published[id][n] = e})
              <= Cardinality({n \in 1 .. Len(stream[id]) : stream[id][n] = e})
<1> DEFINE S == {n \in 1 .. Len(published[id]) : published[id][n] = e}
           T == {n \in 1 .. Len(stream[id]) : stream[id][n] = e}
           f == [n \in S |-> origin[n]]
<1>1. f \in [S -> T]
  BY DEF ComesFrom
<1>2. \A m, n \in S : f[m] = f[n] => m = n
  BY DEF ComesFrom
<1>3. IsFiniteSet(T)
  <2>1. IsFiniteSet(1 .. Len(stream[id]))
    BY FS_Interval
  <2>2. T \subseteq 1 .. Len(stream[id])
    OBVIOUS
  <2> QED BY <2>1, <2>2, FS_Subset
<1> HIDE DEF S, T, f
<1>4. f \in Injection(S, T)
  BY <1>1, <1>2 DEF Injection, IsInjective
<1>5. Cardinality(S) <= Cardinality(T)
  BY <1>3, <1>4, FS_Injection
<1> QED BY <1>5 DEF S, T

\* ADR-0013: the bus is for post-commit side effects.  It sees no event more often than
\* it is stored, whatever the order in which threads commit and dispatch, or die.
THEOREM PublishedAfterCommit == Spec => []PublishedWasCommitted
<1>1. ASSUME EventSourcing PROVE Spec => []PublishedWasCommitted
  <2>1. Init => HaveOrigins
    <3> SUFFICES ASSUME Init PROVE HaveOrigins
      OBVIOUS
    <3>1. \A id \in Ids : Len(published[id]) = 0
      BY DEF Init
    <3>2. Publishing = {}
      BY DEF Init, Publishing
    <3>3. Origins([id \in Ids |-> <<>>], <<>>)
      BY <3>1, <3>2 DEF Origins, ComesFrom
    <3> QED BY <3>3 DEF HaveOrigins
  <2>2. IInv /\ HaveOrigins /\ [Next]_vars => HaveOrigins'
    BY <1>1, NextKeepsOrigins
  <2>3. IInv /\ HaveOrigins => PublishedWasCommitted
    <3> SUFFICES ASSUME IInv, HaveOrigins PROVE PublishedWasCommitted
      OBVIOUS
    <3>1. PICK origin, place : Origins(origin, place)
      BY DEF HaveOrigins
    <3>2. \A id \in Ids : stream[id] \in Seq(Event)
      BY DEF IInv, TypeOK, LedgerTypeOK
    <3>3. \A id \in Ids : ComesFrom(id, origin[id]) /\ Len(stream[id]) \in Nat
      BY <3>1, <3>2, LenProperties DEF Origins
    <3> QED BY <3>3, OriginsCount DEF PublishedWasCommitted
  <2> QED BY <2>1, <2>2, <2>3, Inductive, PTL DEF Spec
<1>2. ASSUME ~ EventSourcing PROVE Spec => []PublishedWasCommitted
  <2>1. PublishedWasCommitted
    BY <1>2 DEF PublishedWasCommitted
  <2> QED BY <1>2, <2>1, PTL
<1> QED BY <1>1, <1>2, FlagsAssumption

-----------------------------------------------------------------------------
(* One request at a time *)

OneThread == \A t, u \in Threads : t = u

\* What a single thread holds is still about the row that it read: this is what the
\* second thread of a race takes away.
HeldIsCurrent ==
    \A t \in Threads : pc[t] = "commit" =>
        LET w == work[t]
        IN  /\ w.persist = "save" => row[w.id] # NoTask
                                     /\ Explains(row[w.id], w.events, w.task, Strict)
            /\ w.persist = "delete" => row[w.id] # NoTask

RowsReplay == EventSourcing => \A id \in Ids : row[id] # NoTask => Replays(stream[id], row[id])

\* A step takes up a task and changes nothing stored, ends a request without storing
\* anything, or is one of the three transactions.
LEMMA StepKinds ==
    ASSUME IInv, [Next]_vars
    PROVE  \/ \E t \in Threads : Request(t) /\ UNCHANGED <<row, stream>>
           \/ \E t \in Threads : CommitAdd(t) \/ CommitSave(t) \/ CommitDelete(t)
           \/ /\ UNCHANGED <<row, stream>>
              /\ \A t \in Threads : pc'[t] = "commit" => pc[t] = "commit" /\ work'[t] = work[t]
<1>1. ASSUME NEW t \in Threads, Request(t) PROVE UNCHANGED <<row, stream>>
  BY <1>1 DEF Request, CreateTask, EditTask, ReprioritizeTask, TransitionTask, DeleteTask,
              FindNothing, Receive, ledger
<1>2. ASSUME NEW t \in Threads, SaveFindsNothing(t) \/ RollBack(t) \/ Publish(t)
      PROVE  /\ UNCHANGED <<row, stream>>
             /\ \A u \in Threads : pc'[u] = "commit" => pc[u] = "commit" /\ work'[u] = work[u]
  BY <1>2 DEF SaveFindsNothing, RollBack, Publish, Release, ledger, IInv, TypeOK
<1>3. ASSUME Crash \/ UNCHANGED vars
      PROVE  /\ UNCHANGED <<row, stream>>
             /\ \A u \in Threads : pc'[u] = "commit" => pc[u] = "commit" /\ work'[u] = work[u]
  BY <1>3 DEF Crash, vars, ledger
<1> QED BY <1>1, <1>2, <1>3 DEF Next, Finish, Terminated

\* The thread that has committed holds nothing that is to be committed.
LEMMA CommitEnds ==
    ASSUME IInv, NEW t \in Threads, CommitAdd(t) \/ CommitSave(t) \/ CommitDelete(t)
    PROVE  pc'[t] # "commit"
<1>1. Committed(t) /\ pc \in [Threads -> {"idle", "commit", "publish"}]
  BY DEF CommitAdd, CommitSave, CommitDelete, IInv, TypeOK
<1> QED BY <1>1 DEF Committed, Release

LEMMA LoadsCurrent ==
    ASSUME IInv, NEW t \in Threads, Request(t), UNCHANGED row, pc'[t] = "commit"
    PROVE  LET w == work'[t]
           IN  /\ w.persist = "save" => row[w.id] # NoTask
                                        /\ Explains(row[w.id], w.events, w.task, Strict)
               /\ w.persist = "delete" => row[w.id] # NoTask
<1> DEFINE Right(w) == /\ w.persist = "save" => row[w.id] # NoTask
                                                /\ Explains(row[w.id], w.events, w.task, Strict)
                       /\ w.persist = "delete" => row[w.id] # NoTask
<1>1. pc \in [Threads -> {"idle", "commit", "publish"}]
      /\ work \in [Threads -> Work \cup {NoWork}] /\ pc[t] = "idle"
  BY DEF IInv, TypeOK, Request, CreateTask, EditTask, ReprioritizeTask, TransitionTask,
         DeleteTask, FindNothing, Receive
<1>2. ASSUME NEW persist, NEW id \in Ids, NEW outcome, Hold(t, persist, id, outcome),
             \/ persist = "add"
             \/ row[id] # NoTask /\ Sound(row[id], outcome, Strict)
      PROVE  Right(work'[t])
  <2>1. ~ outcome.raised /\ work'[t] = [persist |-> persist, id |-> id,
                                        task |-> outcome.task, events |-> outcome.events]
    BY <1>1, <1>2 DEF Hold
  <2> QED BY <2>1, <1>2 DEF Sound
<1>3. \A id \in Ids : row[id] # NoTask => row[id] \in Task
  BY DEF IInv, TypeOK, LedgerTypeOK
<1>4. CASE CreateTask(t)
  BY <1>4, <1>2 DEF CreateTask
<1>5. CASE EditTask(t)
  BY <1>5, <1>2, <1>3, EditSound DEF EditTask
<1>6. CASE ReprioritizeTask(t)
  BY <1>6, <1>2, <1>3, PrioritySound DEF ReprioritizeTask
<1>7. CASE TransitionTask(t)
  BY <1>7, <1>2, <1>3, TransitionSound, FlagsAssumption DEF TransitionTask
<1>8. CASE DeleteTask(t)
  BY <1>8, <1>2, <1>3, DeleteSound DEF DeleteTask
<1>9. CASE FindNothing(t)
  BY <1>9, <1>1 DEF FindNothing
<1> QED BY <1>4, <1>5, <1>6, <1>7, <1>8, <1>9 DEF Request

LEMMA NextKeepsHeldIsCurrent ==
    ASSUME OneThread, IInv, HeldIsCurrent, [Next]_vars
    PROVE  HeldIsCurrent'
<1>1. ASSUME NEW t \in Threads, Request(t), UNCHANGED <<row, stream>> PROVE HeldIsCurrent'
  BY <1>1, LoadsCurrent DEF HeldIsCurrent, OneThread
<1>2. ASSUME NEW t \in Threads, CommitAdd(t) \/ CommitSave(t) \/ CommitDelete(t)
      PROVE  HeldIsCurrent'
  BY <1>2, CommitEnds DEF HeldIsCurrent, OneThread
<1>3. ASSUME UNCHANGED <<row, stream>>,
             \A t \in Threads : pc'[t] = "commit" => pc[t] = "commit" /\ work'[t] = work[t]
      PROVE  HeldIsCurrent'
  BY <1>3 DEF HeldIsCurrent
<1> QED BY <1>1, <1>2, <1>3, StepKinds

\* The transactions of a single thread store the events that explain the new row.
LEMMA CommitKeepsRowsReplay ==
    ASSUME IInv, HeldIsCurrent, RowsReplay, EventSourcing, NEW t \in Threads,
           CommitAdd(t) \/ CommitSave(t) \/ CommitDelete(t)
    PROVE  RowsReplay'
<1> DEFINE w == work[t]
           more == stream[w.id] \o w.events
<1>1. pc[t] = "commit" /\ w \in Work
  BY HeldIsMinted DEF CommitAdd, CommitSave, CommitDelete
<1>2. /\ w.id \in Ids /\ w.events \in Seq(Event) /\ w.task \in Task
      /\ row \in [Ids -> Task \cup {NoTask}] /\ stream \in [Ids -> Seq(Event)]
      /\ stream[w.id] \in Seq(Event)
  BY <1>1 DEF Work, IInv, TypeOK, LedgerTypeOK
<1>3. stream' = [stream EXCEPT ![w.id] = more]
  BY DEF CommitAdd, CommitSave, CommitDelete, AppendEvents
<1>4. \/ CommitDelete(t) /\ row' = [row EXCEPT ![w.id] = NoTask]
      \/ Replays(more, w.task) /\ row' = [row EXCEPT ![w.id] = w.task]
  <2>1. CASE CommitAdd(t)
    <3>1. PICK event \in CreatedEvents : w.task = RebuildStep(NoTask, event) /\ w.events = <<event>>
      BY <2>1, AddStores
    <3>2. stream[w.id] = <<>> /\ event \in Event
      BY <2>1, AddStores, EventKinds
    <3>3. Replays(Append(<<>>, event), w.task)
      BY <3>1, <3>2, EmptySeq, ReplaysNothing, ReplaysOneMore
    <3>4. more = Append(<<>>, event)
      BY <3>1, <3>2, EmptySeq, AppendIsConcat
    <3> QED BY <2>1, <3>3, <3>4 DEF CommitAdd
  <2>2. CASE CommitSave(t)
    <3>1. row[w.id] # NoTask /\ Explains(row[w.id], w.events, w.task, Strict)
      BY <2>2, <1>1 DEF HeldIsCurrent, CommitSave
    <3>2. Replays(stream[w.id], row[w.id])
      BY <3>1, <1>2 DEF RowsReplay
    <3>3. Replays(more, w.task)
      BY <3>1, <3>2, <1>2, ReplaysMore
    <3> QED BY <2>2, <3>3 DEF CommitSave
  <2>3. CASE CommitDelete(t)
    BY <2>3 DEF CommitDelete
  <2> QED BY <2>1, <2>2, <2>3
<1> HIDE DEF w, more
<1>5. ASSUME NEW id \in Ids, row'[id] # NoTask PROVE Replays(stream'[id], row'[id])
  <2>1. CASE id = w.id
    BY <2>1, <1>2, <1>3, <1>4, <1>5
  <2>2. CASE id # w.id
    BY <2>2, <1>2, <1>3, <1>4, <1>5 DEF RowsReplay
  <2> QED BY <2>1, <2>2
<1> QED BY <1>5 DEF RowsReplay

LEMMA SequentialInv == OneThread /\ Spec => [](HeldIsCurrent /\ RowsReplay)
<1> SUFFICES ASSUME OneThread PROVE Spec => [](HeldIsCurrent /\ RowsReplay)
  OBVIOUS
<1>1. Init => HeldIsCurrent /\ RowsReplay
  BY DEF Init, LedgerInit, HeldIsCurrent, RowsReplay
<1>2. IInv /\ HeldIsCurrent /\ RowsReplay /\ [Next]_vars => (HeldIsCurrent /\ RowsReplay)'
  <2> SUFFICES ASSUME IInv, HeldIsCurrent, RowsReplay, [Next]_vars
               PROVE  HeldIsCurrent' /\ RowsReplay'
    OBVIOUS
  <2>1. HeldIsCurrent'
    BY NextKeepsHeldIsCurrent
  <2>2. ASSUME UNCHANGED <<row, stream>> PROVE RowsReplay'
    BY <2>2 DEF RowsReplay
  <2>3. ASSUME ~ EventSourcing PROVE RowsReplay'
    BY <2>3 DEF RowsReplay
  <2>4. RowsReplay'
    BY <2>2, <2>3, StepKinds, CommitKeepsRowsReplay
  <2> QED BY <2>1, <2>4
<1> QED BY <1>1, <1>2, Inductive, PTL DEF Spec

\* ADR-0016: "State is provably fully derivable from events".  One request at a time,
\* a row is what its stored events replay to, for histories of any length.
THEOREM SequentialRowIsReplay == OneThread /\ EventSourcing => (Spec => []RowIsReplay)
<1> SUFFICES ASSUME OneThread, EventSourcing PROVE Spec => []RowIsReplay
  OBVIOUS
<1>1. IInv /\ LedgerInv /\ RowsReplay => RowIsReplay
  <2> SUFFICES ASSUME IInv, LedgerInv, RowsReplay, NEW id \in Ids, row[id] # NoTask
               PROVE  row[id] = Rebuild(stream[id])
    BY DEF RowIsReplay
  <2>1. Replays(stream[id], row[id])
    BY DEF RowsReplay
  <2>2. stream[id] \in Seq(Event) /\ stream[id] # <<>>
    BY DEF IInv, RowsHaveStreams, TypeOK, LedgerTypeOK
  <2>3. Len(stream[id]) \in Nat \ {0} /\ Head(stream[id]) = stream[id][1]
    BY <2>2, EmptySeq, LenProperties
  <2>4. 1 \in 1 .. Len(stream[id])
    BY <2>3
  <2>5. Head(stream[id]).kind = "TaskCreated"
    BY <2>3, <2>4 DEF LedgerInv, StreamsBeginWithCreation
  <2> QED BY <2>1, <2>2, <2>5, ReplaysRebuild
<1>2. Spec => [](HeldIsCurrent /\ RowsReplay) /\ []IInv /\ LedgerSpec
  BY SequentialInv, Inductive, ServiceImplementsLedger
<1> QED BY <1>1, <1>2, LedgerCorrect, PTL

\* ADR-0004: "It is structurally impossible to change state without emitting the
\* matching event".
THEOREM SequentialRowChangeIsRecorded == OneThread /\ EventSourcing => (Spec => RowChangeIsRecorded)
<1> SUFFICES ASSUME OneThread, EventSourcing PROVE Spec => RowChangeIsRecorded
  OBVIOUS
<1>1. ASSUME IInv, HeldIsCurrent, [Next]_vars, NEW id \in Ids, row'[id] # row[id]
      PROVE  Len(stream'[id]) > Len(stream[id])
  <2>1. PICK t \in Threads : CommitAdd(t) \/ CommitSave(t) \/ CommitDelete(t)
    BY <1>1, StepKinds
  <2> DEFINE w == work[t]
  <2>2. pc[t] = "commit" /\ w \in Work
    BY <1>1, <2>1, HeldIsMinted DEF CommitAdd, CommitSave, CommitDelete
  <2>3. /\ w.id \in Ids /\ w.events \in Seq(Event)
        /\ row \in [Ids -> Task \cup {NoTask}] /\ stream \in [Ids -> Seq(Event)]
        /\ stream[w.id] \in Seq(Event)
    BY <1>1, <2>2 DEF Work, IInv, TypeOK, LedgerTypeOK
  <2>4. id = w.id
    BY <1>1, <2>1, <2>3 DEF CommitAdd, CommitSave, CommitDelete
  <2>5. stream'[id] = stream[id] \o w.events
    BY <1>1, <2>1, <2>3, <2>4 DEF CommitAdd, CommitSave, CommitDelete, AppendEvents
  <2>6. w.events # <<>>
    <3>1. CASE CommitAdd(t)
      <4>1. \E event \in CreatedEvents : w.events = <<event>>
        BY <1>1, <3>1, AddStores
      <4> QED BY <4>1
    <3>2. CASE CommitSave(t)
      <4>1. row'[id] = w.task /\ Explains(row[id], w.events, w.task, Strict)
        BY <1>1, <2>2, <2>3, <2>4, <3>2 DEF HeldIsCurrent, CommitSave
      <4>2. w.events = <<>> => w.task = row[id]
        BY <4>1 DEF Explains
      <4> QED BY <1>1, <4>1, <4>2
    <3>3. CASE CommitDelete(t)
      <4>1. \E event \in DeletedEvents : w.events = <<event>>
        BY <1>1, <3>3, DeleteStores
      <4> QED BY <4>1
    <3> QED BY <2>1, <3>1, <3>2, <3>3
  <2> HIDE DEF w
  <2>7. Len(w.events) \in Nat /\ Len(w.events) # 0 /\ Len(stream[id]) \in Nat
    BY <2>3, <2>4, <2>6, EmptySeq, LenProperties
  <2>8. Len(stream'[id]) = Len(stream[id]) + Len(w.events)
    BY <2>3, <2>4, <2>5, ConcatProperties
  <2>9. \A m, n \in Nat : n # 0 => m + n > m
    OBVIOUS
  <2> QED BY <2>7, <2>8, <2>9
<1>2. IInv /\ HeldIsCurrent /\ [Next]_vars =>
         [\A id \in Ids : row'[id] # row[id] => Len(stream'[id]) > Len(stream[id])]_vars
  BY <1>1
<1>3. Spec => [](HeldIsCurrent /\ RowsReplay) /\ []IInv
  BY SequentialInv, Inductive
<1> QED BY <1>2, <1>3, PTL DEF Spec, RowChangeIsRecorded

\* value_objects.py, TaskStatus.is_terminal: "Terminal states permit no further
\* transitions".  One request at a time, and with STRICT_STATE_MACHINE, an archived row
\* keeps its status until it is deleted, with event sourcing or without.
THEOREM SequentialArchivedIsTerminal == OneThread /\ Strict => (Spec => ArchivedIsTerminal)
<1> SUFFICES ASSUME OneThread, Strict PROVE Spec => ArchivedIsTerminal
  OBVIOUS
<1>1. ASSUME IInv, HeldIsCurrent, [Next]_vars, NEW id \in Ids,
             row[id] # NoTask, row[id].status = "archived", row'[id] # NoTask
      PROVE  row'[id].status = "archived"
  <2>1. ASSUME NEW t \in Threads, CommitAdd(t) \/ CommitSave(t) \/ CommitDelete(t),
               row'[id] # row[id]
        PROVE  row'[id].status = "archived"
    <3> DEFINE w == work[t]
    <3>1. pc[t] = "commit" /\ w \in Work
      BY <1>1, <2>1, HeldIsMinted DEF CommitAdd, CommitSave, CommitDelete
    <3>2. w.id \in Ids /\ row \in [Ids -> Task \cup {NoTask}]
      BY <1>1, <3>1 DEF Work, IInv, TypeOK, LedgerTypeOK
    <3>3. id = w.id /\ row[id] \in Task
      BY <1>1, <2>1, <3>2 DEF CommitAdd, CommitSave, CommitDelete
    <3>4. CommitSave(t)
      BY <1>1, <2>1, <3>2, <3>3, AddStores DEF CommitDelete
    <3>5. row'[id] = w.task /\ Explains(row[id], w.events, w.task, Strict)
      BY <1>1, <3>1, <3>2, <3>3, <3>4 DEF HeldIsCurrent, CommitSave
    <3>6. PICK e \in Event : Tells(row[id], e, w.task, Strict)
      BY <2>1, <3>5 DEF Explains
    <3>7. e.kind # "TaskStatusChanged"
      <4>1. \A to : ~ CanTransition("archived", to)
        BY DEF CanTransition, AllowedTransitions, Statuses
      <4> QED BY <1>1, <3>6, <4>1 DEF Tells
    <3>8. e.kind # "TaskCreated"
      BY <3>6 DEF Tells, ChangeEvents, EditedEvents, StatusEvents, PriorityEvents, MarkerEvents,
                  DeletedEvents
    <3>9. w.task.status = row[id].status
      BY <3>3, <3>6, <3>7, <3>8 DEF Tells, RebuildStep, Apply, Task
    <3> QED BY <1>1, <3>5, <3>9
  <2> QED BY <1>1, <2>1, StepKinds
<1>2. IInv /\ HeldIsCurrent /\ [Next]_vars =>
         [\A id \in Ids :
             row[id] # NoTask /\ row[id].status = "archived" /\ row'[id] # NoTask
                 => row'[id].status = "archived"]_vars
  BY <1>1
<1>3. Spec => [](HeldIsCurrent /\ RowsReplay) /\ []IInv
  BY SequentialInv, Inductive
<1> QED BY <1>2, <1>3, PTL DEF Spec, ArchivedIsTerminal

\* services.py, delete_task: "Load first so a missing task raises TaskNotFoundError
\* consistently".  One request at a time, no second deletion is ever recorded.
THEOREM SequentialDeletedOnce == OneThread /\ EventSourcing => (Spec => []DeletedOnce)
<1> SUFFICES ASSUME OneThread, EventSourcing PROVE Spec => []DeletedOnce
  OBVIOUS
<1>1. ASSUME IInv, LedgerInv, HeldIsCurrent, DeletedOnce, [Next]_vars
      PROVE  DeletedOnce'
  <2>1. ASSUME NEW t \in Threads, CommitAdd(t) \/ CommitSave(t) \/ CommitDelete(t)
        PROVE  DeletedOnce'
    <3> DEFINE w == work[t]
               old == stream[w.id]
               new == stream'[w.id]
    <3>1. pc[t] = "commit" /\ w \in Work
      BY <1>1, <2>1, HeldIsMinted DEF CommitAdd, CommitSave, CommitDelete
    <3>2. /\ w.id \in Ids /\ w.events \in Seq(Event)
          /\ stream \in [Ids -> Seq(Event)] /\ old \in Seq(Event)
      BY <1>1, <3>1 DEF Work, IInv, TypeOK, LedgerTypeOK
    <3>3. stream' = [stream EXCEPT ![w.id] = old \o w.events]
      BY <1>1, <2>1 DEF CommitAdd, CommitSave, CommitDelete, AppendEvents
    <3>4. new = old \o w.events /\ \A id \in Ids \ {w.id} : stream'[id] = stream[id]
      BY <3>2, <3>3
    <3>5. \A n \in 1 .. Len(old) : old[n].kind # "TaskDeleted"
      <4>1. CASE old = <<>>
        BY <4>1, EmptySeq
      <4>2. CASE old # <<>>
        <5>1. Len(old) \in Nat \ {0}
          BY <3>2, <4>2, EmptySeq, LenProperties
        <5>2. row[w.id] # NoTask
          BY <1>1, <2>1, <3>1, <4>2, AddStores DEF HeldIsCurrent, CommitSave, CommitDelete
        <5>3. old[Len(old)].kind # "TaskDeleted"
          BY <1>1, <3>2, <5>2 DEF LedgerInv, RowIffLive
        <5>4. Len(old) \in 1 .. Len(old)
          BY <5>1
        <5>5. \A n \in 1 .. Len(old) : n < Len(old) => old[n].kind # "TaskDeleted"
          BY <1>1, <3>2, <5>3, <5>4 DEF LedgerInv, DeletionIsFinal
        <5> QED BY <5>1, <5>3, <5>5
      <4> QED BY <4>1, <4>2
    <3>6. \A m, n \in 1 .. Len(w.events) :
             w.events[m].kind = "TaskDeleted" /\ w.events[n].kind = "TaskDeleted" => m = n
      <4>1. CASE CommitSave(t)
        <5>1. w.events \in Batches
          BY <1>1, <4>1, SaveStores
        <5>2. w.events \in Seq(ChangeEvents)
          <6>1. w.events \in Seq(LegalEvents)
            BY <5>1, BatchesLegal
          <6>2. LegalEvents \subseteq ChangeEvents
            BY DEF LegalEvents
          <6> QED BY <6>1, <6>2, SeqMonotonic
        <5>3. \A n \in 1 .. Len(w.events) : w.events[n].kind # "TaskDeleted"
          BY <5>2, ElementOfSeq, EventKinds
        <5> QED BY <5>3
      <4>2. CASE CommitAdd(t) \/ CommitDelete(t)
        <5>1. PICK e \in Event : w.events = <<e>>
          BY <1>1, <4>2, AddStores, DeleteStores, EventKinds
        <5>2. Len(w.events) = 1
          BY <5>1
        <5> QED BY <5>2
      <4> QED BY <2>1, <4>1, <4>2
    <3> HIDE DEF old, w
    <3>7. \A m, n \in 1 .. Len(new) :
             new[m].kind = "TaskDeleted" /\ new[n].kind = "TaskDeleted" => m = n
      <4> DEFINE a == Len(old)
                 b == Len(w.events)
      <4>1. a \in Nat /\ b \in Nat
        BY <3>2, LenProperties
      <4>2. Len(new) = a + b
            /\ \A n \in 1 .. a + b : new[n] = IF n <= a THEN old[n] ELSE w.events[n - a]
        BY <3>2, <3>4, ConcatProperties
      <4> HIDE DEF a, b, new
      <4> SUFFICES ASSUME NEW m \in 1 .. a + b, NEW n \in 1 .. a + b,
                          new[m].kind = "TaskDeleted", new[n].kind = "TaskDeleted"
                   PROVE  m = n
        BY <4>2
      <4>3. m > a /\ n > a
        BY <4>1, <4>2, <3>5 DEF a
      <4>4. m - a \in 1 .. b /\ n - a \in 1 .. b
        BY <4>1, <4>3
      <4>5. w.events[m - a].kind = "TaskDeleted" /\ w.events[n - a].kind = "TaskDeleted"
        BY <4>1, <4>2, <4>3
      <4>6. m - a = n - a
        BY <3>6, <4>4, <4>5 DEF b
      <4> QED BY <4>1, <4>6
    <3> QED BY <1>1, <3>2, <3>4, <3>7 DEF DeletedOnce
  <2>2. ASSUME UNCHANGED stream PROVE DeletedOnce'
    BY <1>1, <2>2 DEF DeletedOnce
  <2> QED BY <1>1, <2>1, <2>2, StepKinds
<1>2. Init => DeletedOnce
  BY EmptySeq DEF Init, LedgerInit, DeletedOnce
<1>3. Spec => [](HeldIsCurrent /\ RowsReplay) /\ []IInv /\ LedgerSpec
  BY SequentialInv, Inductive, ServiceImplementsLedger
<1> QED BY <1>1, <1>2, <1>3, LedgerCorrect, PTL DEF Spec
=============================================================================
