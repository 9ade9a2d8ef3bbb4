----------------------------- MODULE TaskLedger -----------------------------
(***************************************************************************)
(* What the write side promises: a table of tasks and, for every task, an  *)
(* append-only stream of its events, changed together in one step          *)
(* (services.py, _commit: "state and history commit together or roll back  *)
(* together").  There are no threads, transactions or failures here:       *)
(* TaskService, which has them, is shown to implement this specification.  *)
(*                                                                         *)
(* The ledger does not promise that a row is what its stream replays to,   *)
(* nor that a removal finds a row to remove: with more than one thread the *)
(* service keeps neither promise (see the violation runs of TaskService).  *)
(*                                                                         *)
(* The refinement mapping is the identity: row and stream are what they    *)
(* are in TaskService, which extends this module.                          *)
(***************************************************************************)
EXTENDS TaskDomain

CONSTANTS
    Ids,     \* task identities
    Strict   \* the STRICT_STATE_MACHINE feature flag

VARIABLES
    row,     \* row[id]: the stored task, or NoTask
    stream   \* stream[id]: the events stored for the task, in order

ledger == <<row, stream>>

LedgerInit ==
    /\ row = [id \in Ids |-> NoTask]
    /\ stream = [id \in Ids |-> <<>>]

\* The events one command on an existing task may store: none (the command
\* changed nothing), one, or a status change with its semantic event.
Batches ==
    {<<>>}
    \cup {<<e>> : e \in EditedEvents \cup PriorityEvents}
    \cup {StatusChange(c[1], c[2]) :
              c \in {p \in Statuses \X Statuses :
                         p[1] # p[2] /\ (Strict => CanTransition(p[1], p[2]))}}

Store(id, task, events) ==
    /\ row' = [row EXCEPT ![id] = task]
    /\ stream' = [stream EXCEPT ![id] = @ \o events]

\* A new task begins its stream with the event that describes it.
AddTask(id) ==
    /\ row[id] = NoTask
    /\ stream[id] = <<>>
    /\ \E event \in CreatedEvents : Store(id, RebuildStep(NoTask, event), <<event>>)

\* An existing task is replaced, and at most one command's events are added.
ChangeTask(id) ==
    /\ row[id] # NoTask
    /\ \E task \in Task :
         /\ CompletionConsistent(task)
         /\ \E events \in Batches : Store(id, task, events)

\* A task that existed is gone, and the removal is recorded.
RemoveTask(id) ==
    /\ stream[id] # <<>>
    /\ \E event \in DeletedEvents : Store(id, NoTask, <<event>>)

LedgerNext == \E id \in Ids : AddTask(id) \/ ChangeTask(id) \/ RemoveTask(id)

LedgerSpec == LedgerInit /\ [][LedgerNext]_ledger

-----------------------------------------------------------------------------

LedgerTypeOK ==
    /\ row \in [Ids -> Task \cup {NoTask}]
    /\ stream \in [Ids -> Seq(Event)]

\* completed_at is set exactly on the rows whose status is "completed".
RowsConsistent ==
    \A id \in Ids : row[id] # NoTask => CompletionConsistent(row[id])

\* A stream that is not empty begins with the only TaskCreated in it, so that
\* rebuild always finds its first event.
StreamsBeginWithCreation ==
    \A id \in Ids : \A n \in 1 .. Len(stream[id]) :
        stream[id][n].kind = "TaskCreated" <=> n = 1

\* Nothing but further deletions follows a deletion: a late save never brings a
\* deleted task back, neither in the table nor in the history.
DeletionIsFinal ==
    \A id \in Ids : \A m, n \in 1 .. Len(stream[id]) :
        m < n /\ stream[id][m].kind = "TaskDeleted" => stream[id][n].kind = "TaskDeleted"

\* A task has a row exactly while its history says it was created and not deleted.
RowIffLive ==
    \A id \in Ids :
        row[id] # NoTask <=> /\ stream[id] # <<>>
                             /\ stream[id][Len(stream[id])].kind # "TaskDeleted"

\* With the state machine enforced, every status change in the history is one
\* the lifecycle graph allows, whatever the row was when it was stored.
HistoryIsLegal ==
    Strict => \A id \in Ids : \A n \in 1 .. Len(stream[id]) :
        stream[id][n].kind = "TaskStatusChanged"
            => CanTransition(stream[id][n].from, stream[id][n].to)
=============================================================================
