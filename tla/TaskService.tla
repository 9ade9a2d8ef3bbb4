----------------------------- MODULE TaskService -----------------------------
(***************************************************************************)
(* The write side at work: request threads run the use cases of            *)
(* TaskApplicationService (tasks/application/services.py) against one      *)
(* database through DjangoTaskRepository and DjangoEventStore: row is the  *)
(* TaskRecord table, stream the DomainEventRecord table, task by task in   *)
(* order of id.  Both are declared by TaskLedger, the specification that   *)
(* this module is shown to implement.                                      *)
(*                                                                         *)
(* A use case has three steps that other threads may come between: it      *)
(* reads the aggregate (outside any transaction) and runs the domain       *)
(* command on its copy; it stores the copy and its events in one           *)
(* transaction; it hands the events to the bus, one by one.                *)
(***************************************************************************)
EXTENDS TaskLedger, FiniteSets

CONSTANTS
    Threads,        \* request threads of the server process
    EventSourcing,  \* the EVENT_SOURCING feature flag
    MayCrash,       \* whether the process may die
    MaxRequests,    \* bound: requests received in a behaviour
    NoWork          \* the thread holds no aggregate

\* The aggregate a thread holds, how it will be persisted, and its pending events.
Work == [persist : {"add", "save", "delete"}, id : Ids, task : Task, events : Seq(Event)]

ASSUME FlagsAssumption ==
    Strict \in BOOLEAN /\ EventSourcing \in BOOLEAN /\ MayCrash \in BOOLEAN
ASSUME NoWorkAssumption == NoWork \notin Work
ASSUME MaxRequestsAssumption == MaxRequests \in Nat

VARIABLES
    minted,     \* the identities TaskId.new has returned
    pc,         \* where each thread is: idle, about to commit, or publishing
    work,       \* the aggregate each thread holds, with its events
    published,  \* published[id]: the task's events handed to the event bus, in order
    received    \* requests received so far

vars == <<ledger, minted, pc, work, published, received>>

Init ==
    /\ LedgerInit
    /\ minted = {}
    /\ pc = [t \in Threads |-> "idle"]
    /\ work = [t \in Threads |-> NoWork]
    /\ published = [id \in Ids |-> <<>>]
    /\ received = 0

-----------------------------------------------------------------------------
(* First step: load the aggregate and run the command on it *)

Receive(t) ==
    /\ pc[t] = "idle"
    /\ received < MaxRequests
    /\ received' = received + 1
    /\ UNCHANGED <<ledger, published>>

\* Mutant: an aggregate is stored though its command raised half-way.
HoldRaised(t, persist, id, outcome) ==
    /\ pc' = [pc EXCEPT ![t] = "commit"]
    /\ work' = [work EXCEPT ![t] = [persist |-> persist, id |-> id,
                                    task |-> outcome.task, events |-> outcome.events]]

\* The domain ran: either it raised, which ends the request with an error, or
\* the thread now holds the changed aggregate.
Hold(t, persist, id, outcome) ==
    IF outcome.raised THEN UNCHANGED <<pc, work>>
    ELSE /\ pc' = [pc EXCEPT ![t] = "commit"]
         /\ work' = [work EXCEPT ![t] = [persist |-> persist, id |-> id,
                                         task |-> outcome.task, events |-> outcome.events]]

CreateTask(t) ==
    /\ Receive(t)
    /\ \E id \in Ids \ minted, title \in RawTitles, description \in RawDescriptions,
          priority \in Priorities \cup {Invalid} :
         LET outcome == Create(title, description, priority)
         IN  /\ Hold(t, "add", id, outcome)
             /\ minted' = IF outcome.raised THEN minted ELSE minted \cup {id}

EditTask(t) ==
    /\ Receive(t)
    /\ \E id \in {i \in Ids : row[i] # NoTask},
          title \in RawTitles \cup {None}, description \in RawDescriptions \cup {None} :
            Hold(t, "save", id, EditDetails(row[id], title, description))
    /\ UNCHANGED minted

ReprioritizeTask(t) ==
    /\ Receive(t)
    /\ \E id \in {i \in Ids : row[i] # NoTask}, priority \in Priorities \cup {Invalid} :
            Hold(t, "save", id, ChangePriority(row[id], priority))
    /\ UNCHANGED minted

\* Mutant: the flag does not reach the aggregate.
TransitionTaskUnenforced(t) ==
    /\ Receive(t)
    /\ \E id \in {i \in Ids : row[i] # NoTask}, target \in Statuses \cup {Invalid} :
            Hold(t, "save", id, TransitionTo(row[id], target, FALSE))
    /\ UNCHANGED minted

TransitionTask(t) ==
    /\ Receive(t)
    /\ \E id \in {i \in Ids : row[i] # NoTask}, target \in Statuses \cup {Invalid} :
            Hold(t, "save", id, TransitionTo(row[id], target, Strict))
    /\ UNCHANGED minted

DeleteTask(t) ==
    /\ Receive(t)
    /\ \E id \in {i \in Ids : row[i] # NoTask} :
            Hold(t, "delete", id, MarkDeleted(row[id]))
    /\ UNCHANGED minted

\* repository.get raises TaskNotFoundError.
FindNothing(t) ==
    /\ Receive(t)
    /\ \E id \in Ids : row[id] = NoTask
    /\ UNCHANGED <<minted, pc, work>>

-----------------------------------------------------------------------------
(* Second step: the transaction *)

\* Mutant: the deletion of a task is not recorded.
AppendEventsUnlessDeleted(w) ==
    stream' = IF w.persist = "delete" THEN stream ELSE [stream EXCEPT ![w.id] = @ \o w.events]

\* event_store.append inside the transaction, unless event sourcing is off.
AppendEvents(w) ==
    stream' = IF EventSourcing THEN [stream EXCEPT ![w.id] = @ \o w.events] ELSE stream

\* The request is over, with an answer or an error: the aggregate is forgotten.
Release(t) ==
    /\ pc' = [pc EXCEPT ![t] = "idle"]
    /\ work' = [work EXCEPT ![t] = NoWork]

\* Committed: on to the events, if there are any.
Committed(t) ==
    IF work[t].events = <<>> THEN Release(t)
    ELSE pc' = [pc EXCEPT ![t] = "publish"] /\ UNCHANGED work

\* repository.add (INSERT) for a new task.
CommitAdd(t) ==
    /\ pc[t] = "commit" /\ work[t].persist = "add"
    /\ row' = [row EXCEPT ![work[t].id] = work[t].task]
    /\ AppendEvents(work[t])
    /\ Committed(t)
    /\ UNCHANGED <<minted, published, received>>

\* Mutant: a save that stores the row whether or not it is still there.
CommitSaveUpsert(t) ==
    /\ pc[t] = "commit" /\ work[t].persist = "save"
    /\ row' = [row EXCEPT ![work[t].id] = work[t].task]
    /\ AppendEvents(work[t])
    /\ Committed(t)
    /\ UNCHANGED <<minted, published, received>>

\* repository.save: the row is read again, but only to see that it is there;
\* every field of it is then overwritten.
CommitSave(t) ==
    /\ pc[t] = "commit" /\ work[t].persist = "save"
    /\ row[work[t].id] # NoTask
    /\ row' = [row EXCEPT ![work[t].id] = work[t].task]
    /\ AppendEvents(work[t])
    /\ Committed(t)
    /\ UNCHANGED <<minted, published, received>>

\* repository.save finds the row gone and raises TaskNotFoundError.
SaveFindsNothing(t) ==
    /\ pc[t] = "commit" /\ work[t].persist = "save"
    /\ row[work[t].id] = NoTask
    /\ Release(t)
    /\ UNCHANGED <<ledger, minted, published, received>>

\* Mutant: the deletion is recorded and the row stays.
CommitDeleteKeepsRow(t) ==
    /\ pc[t] = "commit" /\ work[t].persist = "delete"
    /\ AppendEvents(work[t])
    /\ Committed(t)
    /\ UNCHANGED <<row, minted, published, received>>

\* repository.delete: a DELETE that does not care whether there is a row.
CommitDelete(t) ==
    /\ pc[t] = "commit" /\ work[t].persist = "delete"
    /\ row' = [row EXCEPT ![work[t].id] = NoTask]
    /\ AppendEvents(work[t])
    /\ Committed(t)
    /\ UNCHANGED <<minted, published, received>>

\* Mutant: the events were stored in a transaction of their own.
RollBackRowOnly(t) ==
    /\ pc[t] = "commit"
    /\ Release(t)
    /\ AppendEvents(work[t])
    /\ UNCHANGED <<row, minted, published, received>>

\* Mutant: the events are dispatched although the transaction failed.
RollBackYetPublish(t) ==
    /\ pc[t] = "commit"
    /\ Committed(t)
    /\ UNCHANGED <<ledger, minted, published, received>>

\* The database refuses the transaction (it is locked, or the write fails): the
\* unit of work rolls back, the error ends the request and nothing is dispatched.
RollBack(t) ==
    /\ pc[t] = "commit"
    /\ Release(t)
    /\ UNCHANGED <<ledger, minted, published, received>>

-----------------------------------------------------------------------------
(* Third step: publish_all, event by event *)

\* Mutant: only the first event of the batch is dispatched.
PublishFirst(t) ==
    /\ pc[t] = "publish"
    /\ published' = [published EXCEPT ![work[t].id] = Append(@, Head(work[t].events))]
    /\ Release(t)
    /\ UNCHANGED <<ledger, minted, received>>

Publish(t) ==
    /\ pc[t] = "publish"
    /\ published' = [published EXCEPT ![work[t].id] = Append(@, Head(work[t].events))]
    /\ IF Len(work[t].events) = 1 THEN Release(t)
       ELSE /\ work' = [work EXCEPT ![t].events = Tail(@)]
            /\ UNCHANGED pc
    /\ UNCHANGED <<ledger, minted, received>>

\* The process dies and starts again: what its threads held is lost.
Crash ==
    /\ MayCrash
    /\ \E t \in Threads : pc[t] # "idle"
    /\ pc' = [t \in Threads |-> "idle"]
    /\ work' = [t \in Threads |-> NoWork]
    /\ UNCHANGED <<ledger, minted, published, received>>

Request(t) == \/ CreateTask(t) \/ EditTask(t) \/ ReprioritizeTask(t)
              \/ TransitionTask(t) \/ DeleteTask(t) \/ FindNothing(t)

Finish(t) == \/ CommitAdd(t) \/ CommitSave(t) \/ SaveFindsNothing(t) \/ CommitDelete(t)
             \/ RollBack(t) \/ Publish(t)

\* All requests received and answered.
Quiet == received = MaxRequests /\ \A t \in Threads : pc[t] = "idle"
Terminated == Quiet /\ UNCHANGED vars

Next == (\E t \in Threads : Request(t) \/ Finish(t)) \/ Crash \/ Terminated

Spec == Init /\ [][Next]_vars

-----------------------------------------------------------------------------
(* What holds whatever the threads do *)

TypeOK ==
    /\ LedgerTypeOK
    /\ minted \in SUBSET Ids
    /\ pc \in [Threads -> {"idle", "commit", "publish"}]
    /\ work \in [Threads -> Work \cup {NoWork}]
    /\ \A t \in Threads : pc[t] = "idle" <=> work[t] = NoWork
    /\ published \in [Ids -> Seq(Event)]
    /\ received \in 0 .. MaxRequests

\* The bus never sees an event whose transaction did not commit, nor sees one
\* twice: of any event it was given at most as many as are stored.
PublishedWasCommitted ==
    LET count(events, e) == Cardinality({n \in 1 .. Len(events) : events[n] = e})
    IN  EventSourcing =>
        \A id \in Ids : \A n \in 1 .. Len(published[id]) :
            count(published[id], published[id][n]) <= count(stream[id], published[id][n])

-----------------------------------------------------------------------------
(* What one request at a time adds *)

\* The stored row is what the stored events replay to (ADR-0016: "State is
\* provably fully derivable from events").  Deletion leaves no row.
RowIsReplay ==
    \A id \in Ids : row[id] # NoTask => row[id] = Rebuild(stream[id])

\* "Terminal states permit no further transitions" (value_objects.py,
\* TaskStatus.is_terminal): an archived row keeps its status until it is deleted.
ArchivedIsTerminal ==
    [][\A id \in Ids :
          row[id] # NoTask /\ row[id].status = "archived" /\ row'[id] # NoTask
              => row'[id].status = "archived"]_vars

\* The row never changes without an event being stored for it (ADR-0004: "It is
\* structurally impossible to change state without emitting the matching event").
RowChangeIsRecorded ==
    [][\A id \in Ids : row'[id] # row[id] => Len(stream'[id]) > Len(stream[id])]_vars

\* A task is deleted once (services.py, delete_task: "Load first so a missing task
\* raises TaskNotFoundError consistently"): no second deletion is ever recorded.
DeletedOnce ==
    \A id \in Ids : \A m, n \in 1 .. Len(stream[id]) :
        stream[id][m].kind = "TaskDeleted" /\ stream[id][n].kind = "TaskDeleted" => m = n
=============================================================================
