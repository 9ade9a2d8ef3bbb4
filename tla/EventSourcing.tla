---------------------------- MODULE EventSourcing ----------------------------
(***************************************************************************)
(* The event-sourced repository (event_sourced_repository.py) beside the   *)
(* running write side: readers load a task from its newest snapshot and    *)
(* the events stored since, and store new snapshots, while others write.   *)
(*                                                                         *)
(* The writers are TaskLedger's: TaskService implements it, so whatever    *)
(* its threads store is stored here too.  A reader takes no transaction:   *)
(* each of its statements sees the database of its own moment.  An event's *)
(* id is its place in its task's stream: ids grow, and are only compared   *)
(* within a task.                                                          *)
(***************************************************************************)
EXTENDS TaskLedger

CONSTANTS
    Readers,       \* callers of the event-sourced repository
    MaxEvents,     \* bound: events stored for a task
    NoSnapshot,    \* the query for the newest snapshot found none
    NotFound       \* get raised TaskNotFoundError

ASSUME MaxEventsAssumption == MaxEvents \in Nat

VARIABLES
    snapshots,  \* snapshots[id]: the TaskSnapshot rows of the task
    reader      \* reader[r]: what r has read so far, and the step it is at

vars == <<ledger, snapshots, reader>>

Snapshot == [last : 1 .. MaxEvents, state : Task]
Idle == [step |-> "idle"]
Looking == [step : {"newest"}, id : Ids, last : 1 .. MaxEvents]
Folding == [step : {"fold"}, id : Ids, last : 1 .. MaxEvents,
            snapshot : Snapshot \cup {NoSnapshot}]
Storing == [step : {"store"}, id : Ids, last : 1 .. MaxEvents, state : Task]

Init ==
    /\ LedgerInit
    /\ snapshots = [id \in Ids |-> {}]
    /\ reader = [r \in Readers |-> Idle]

Write ==
    /\ LedgerNext
    /\ \A id \in Ids : Len(stream'[id]) <= MaxEvents
    /\ UNCHANGED <<snapshots, reader>>

Goto(r, state) ==
    /\ reader' = [reader EXCEPT ![r] = state]
    /\ UNCHANGED <<ledger, snapshots>>

-----------------------------------------------------------------------------

\* order_by("-last_event_id").first(): of snapshots taken at the same event, any.
Newest(id) ==
    IF snapshots[id] = {} THEN {NoSnapshot}
    ELSE {s \in snapshots[id] : \A other \in snapshots[id] : other.last <= s.last}

\* What get makes of a snapshot, or none, and the events after it.  get changes
\* nothing, so on its own it is no action: AnySnapshotWillDo says what it answers.
Fold(snapshot, events) ==
    IF events # <<>> /\ events[Len(events)].kind = "TaskDeleted" THEN NotFound
    ELSE IF snapshot # NoSnapshot THEN ApplyAll(snapshot.state, events)
    ELSE IF events = <<>> THEN NotFound
    ELSE Rebuild(events)

Since(snapshot, events) ==
    IF snapshot = NoSnapshot THEN events ELSE SubSeq(events, snapshot.last + 1, Len(events))

\* Mutant: the snapshot is taken of a task without events too.
StartSnapshotUnchecked(r) ==
    /\ reader[r] = Idle
    /\ \E id \in Ids : Goto(r, [step |-> "newest", id |-> id, last |-> Len(stream[id])])

\* take_snapshot, first statement: the id of the task's last event, or an error.
StartSnapshot(r) ==
    /\ reader[r] = Idle
    /\ \E id \in Ids :
         /\ stream[id] # <<>>
         /\ Goto(r, [step |-> "newest", id |-> id, last |-> Len(stream[id])])

\* take_snapshot calls get, second and third statement.
FindNewest(r) ==
    /\ reader[r].step = "newest"
    /\ \E s \in Newest(reader[r].id) :
         Goto(r, [step |-> "fold", id |-> reader[r].id, last |-> reader[r].last, snapshot |-> s])

FoldEvents(r) ==
    /\ reader[r].step = "fold"
    /\ LET me == reader[r]
           task == Fold(me.snapshot, Since(me.snapshot, stream[me.id]))
       IN  IF task = NotFound THEN Goto(r, Idle)
           ELSE Goto(r, [step |-> "store", id |-> me.id, last |-> me.last, state |-> task])

\* Mutant: the snapshot is stored under the id of the event that is last by now.
StoreSnapshotUnderNewest(r) ==
    /\ reader[r].step = "store"
    /\ LET me == reader[r]
       IN  snapshots' = [snapshots EXCEPT ![me.id] =
                             @ \cup {[last |-> Len(stream[me.id]), state |-> me.state]}]
    /\ reader' = [reader EXCEPT ![r] = Idle]
    /\ UNCHANGED ledger

\* take_snapshot, last statement.
StoreSnapshot(r) ==
    /\ reader[r].step = "store"
    /\ LET me == reader[r]
       IN  snapshots' = [snapshots EXCEPT ![me.id] =
                             @ \cup {[last |-> me.last, state |-> me.state]}]
    /\ reader' = [reader EXCEPT ![r] = Idle]
    /\ UNCHANGED ledger

Next ==
    \/ Write
    \/ \E r \in Readers : \/ StartSnapshot(r) \/ FindNewest(r)
                          \/ FoldEvents(r) \/ StoreSnapshot(r)

Spec == Init /\ [][Next]_vars

-----------------------------------------------------------------------------

TypeOK ==
    /\ LedgerTypeOK
    /\ snapshots \in [Ids -> SUBSET Snapshot]
    /\ \A r \in Readers : reader[r] \in {Idle} \cup Looking \cup Folding \cup Storing

\* What the stored events alone say: the task, or that there is none (any more).
Current(id) ==
    IF stream[id] = <<>> \/ stream[id][Len(stream[id])].kind = "TaskDeleted" THEN NotFound
    ELSE Rebuild(stream[id])

\* Snapshots change nothing but the cost: from any snapshot, however long ago a
\* reader found it and whatever was stored while it was being taken, get arrives
\* at what a replay of the whole stream gives, or finds the task deleted.
AnySnapshotWillDo ==
    \A id \in Ids : \A s \in snapshots[id] \cup {NoSnapshot} :
        Fold(s, Since(s, stream[id])) = Current(id)
=============================================================================
