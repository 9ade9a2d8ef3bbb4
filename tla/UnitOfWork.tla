------------------------------ MODULE UnitOfWork ------------------------------
(***************************************************************************)
(* The second step of a use case taken apart: the statements that          *)
(* _commit, DjangoTaskRepository and DjangoEventStore.append send within   *)
(* one transaction.atomic(), and the locks SQLite takes for them in its    *)
(* default journal mode.  TaskService takes the transaction to be one      *)
(* step, and AuditChain takes appends to be serialized; both are checked   *)
(* here, as refinements.                                                   *)
(*                                                                         *)
(* A transaction begins without a lock.  Its first read takes SHARED,      *)
(* which many may hold; its first write takes RESERVED, which only one     *)
(* may, and its writes stay in its own copy; COMMIT waits, as PENDING,     *)
(* until no one else holds SHARED, and PENDING lets no one take it.  A     *)
(* lock that is taken is waited for, except by a transaction that holds    *)
(* SHARED and asks for RESERVED: that one is refused at once.              *)
(*                                                                         *)
(* What is committed is row and stream, which are TaskService's, and, of   *)
(* the events table, the rows of all tasks in order of id: log has whose   *)
(* event each is and what it is sealed to.  A digest is the number of the  *)
(* row it seals.  head is the anchor.                                      *)
(***************************************************************************)
EXTENDS TaskService

CONSTANTS
    NoHead,   \* of AuditChain
    NoTx      \* the thread has no transaction with a statement in it

LogRow == [id : Ids, prev : Nat]
Database == [row : [Ids -> Task \cup {NoTask}], stream : [Ids -> Seq(Event)],
             log : Seq(LogRow), head : [count : Nat, last : Nat] \cup {NoHead}]

\* A transaction: the statements it has yet to send, the lock it holds, its copy of the
\* tables, and the digest of the last row it read or inserted.
Transaction == [left : Seq({"write", "digest", "insert", "anchor", "commit"}),
                lock : {"shared", "reserved", "pending"}, copy : Database, last : Nat]

ASSUME NoTxAssumption == NoTx \notin Transaction
ASSUME NoHeadAssumption == NoHead \notin [count : Nat, last : Nat]

VARIABLES
    log,    \* the events of all tasks, by id
    head,   \* the AuditChainHead row, or NoHead
    tx      \* tx[t]: the transaction of the thread, or NoTx

storage == <<log, head, tx>>
txVars == <<vars, storage>>

\* What is committed.
db == [row |-> row, stream |-> stream, log |-> log, head |-> head]

\* What the rows of the log are to AuditChain: digests spelled out.
Digests(rows) ==
    LET digest[n \in 0 .. Len(rows)] ==
            IF n = 0 THEN <<>> ELSE Append(digest[rows[n].prev], n)
    IN  digest
Chain(rows) ==
    [n \in 1 .. Len(rows) |-> [id |-> n, content |-> n,
                               prev |-> Digests(rows)[rows[n].prev], hash |-> Digests(rows)[n]]]
AnchorOf(rows, anchor) ==
    IF anchor = NoHead THEN NoHead
    ELSE [count |-> anchor.count, hash |-> Digests(rows)[anchor.last]]

\* To AuditChain the log is one that is only appended to.
Audit == INSTANCE AuditChain WITH
    Altered <- "altered", MaxEvents <- 2 * MaxRequests, MaxBatch <- 2,
    MayWipe <- FALSE, MayDamage <- FALSE, verifier <- [at |-> "idle"],
    wipedTo <- 0, resealed <- FALSE, lastId <- Len(log),
    log <- Chain(log), head <- AnchorOf(log, head)

TxInit ==
    /\ Init
    /\ log = <<>> /\ head = NoHead
    /\ tx = [t \in Threads |-> NoTx]

-----------------------------------------------------------------------------
(* Locks *)

Others(t) == {u \in Threads \ {t} : tx[u] # NoTx}
NoneIsPending(t) == \A u \in Others(t) : tx[u].lock # "pending"
NoneHasReserved(t) == \A u \in Others(t) : tx[u].lock \notin {"reserved", "pending"}
NoneHasShared(t) == \A u \in Others(t) : tx[u].lock # "shared"

-----------------------------------------------------------------------------
(* The statements of a transaction *)

\* The aggregate first, then its events, if there are any to store.
Statements(w) ==
    LET writes == IF EventSourcing /\ w.events # <<>>
                  THEN <<"write", "digest", "insert", "anchor", "commit">>
                  ELSE <<"write", "commit">>
    IN  IF w.persist = "save" THEN <<"select">> \o writes ELSE writes

\* The statements the thread has yet to send.
Left(t) == IF tx[t] = NoTx THEN Statements(work[t]) ELSE tx[t].left

Sends(t, statement) == pc[t] = "commit" /\ Head(Left(t)) = statement
Writing(t) == tx[t] # NoTx /\ tx[t].lock # "shared"

\* The statement was executed: the transaction has this lock and this copy.
Executed(t, lock, copy, last) ==
    /\ tx' = [tx EXCEPT ![t] = [left |-> Tail(Left(t)), lock |-> lock, copy |-> copy,
                                last |-> last]]
    /\ UNCHANGED <<vars, log, head>>

\* Mutant: the row is looked for outside the transaction.
SelectRowUnlocked(t) ==
    /\ Sends(t, "select")
    /\ row[work[t].id] # NoTask
    /\ Executed(t, "none", db, 0)

\* repository.save reads the row.
SelectRow(t) ==
    /\ Sends(t, "select")
    /\ NoneIsPending(t)
    /\ row[work[t].id] # NoTask
    /\ Executed(t, "shared", db, 0)

\* The row is not there: TaskNotFoundError.
SelectNothing(t) ==
    /\ Sends(t, "select")
    /\ NoneIsPending(t)
    /\ SaveFindsNothing(t)
    /\ UNCHANGED storage

\* INSERT, UPDATE or DELETE of the task.
WriteRow(t) ==
    /\ Sends(t, "write")
    /\ NoneHasReserved(t)
    /\ LET task == IF work[t].persist = "delete" THEN NoTask ELSE work[t].task
       IN  Executed(t, "reserved", [db EXCEPT !.row[work[t].id] = task], 0)

\* append: the digest of the last row of the log.
ReadDigest(t) ==
    /\ Sends(t, "digest")
    /\ Executed(t, tx[t].lock, tx[t].copy, Len(tx[t].copy.log))

\* append: bulk_create, each row sealed to the one before it.
InsertRows(t) ==
    /\ Sends(t, "insert")
    /\ LET rows == [n \in 1 .. Len(work[t].events) |->
                       [id |-> work[t].id, prev |-> tx[t].last + n - 1]]
       IN  Executed(t, tx[t].lock,
                    [tx[t].copy EXCEPT !.log = @ \o rows,
                                       !.stream[work[t].id] = @ \o work[t].events],
                    tx[t].last + Len(rows))

\* Mutant: the rows counted are those that are committed.
MoveAnchorByCommitted(t) ==
    /\ Sends(t, "anchor")
    /\ Executed(t, tx[t].lock, [tx[t].copy EXCEPT
           !.head = [count |-> Len(log), last |-> tx[t].last]], tx[t].last)

\* append: the rows counted again, and update_head.
MoveAnchor(t) ==
    /\ Sends(t, "anchor")
    /\ Executed(t, tx[t].lock, [tx[t].copy EXCEPT
           !.head = [count |-> Len(tx[t].copy.log), last |-> tx[t].last]], tx[t].last)

\* COMMIT finds others reading, and waits.
AwaitReaders(t) ==
    /\ Sends(t, "commit")
    /\ tx[t].lock = "reserved" /\ ~ NoneHasShared(t)
    /\ tx' = [tx EXCEPT ![t].lock = "pending"]
    /\ UNCHANGED <<vars, log, head>>

\* COMMIT: the copy is the database.
Commit(t) ==
    /\ Sends(t, "commit")
    /\ NoneHasShared(t)
    /\ row' = tx[t].copy.row /\ stream' = tx[t].copy.stream
    /\ log' = tx[t].copy.log /\ head' = tx[t].copy.head
    /\ tx' = [tx EXCEPT ![t] = NoTx]
    /\ Committed(t)
    /\ UNCHANGED <<minted, published, received>>

\* Mutant: what was written before the error stays.
EndTxRowStays(t) ==
    /\ tx' = [tx EXCEPT ![t] = NoTx]
    /\ row' = IF Writing(t) THEN tx[t].copy.row ELSE row
    /\ Release(t)
    /\ UNCHANGED <<stream, log, head, minted, published, received>>

\* Mutant: the error leaves the transaction open.
EndTxLeftOpen(t) == RollBack(t) /\ UNCHANGED storage

\* atomic(), on any error: ROLLBACK, and the error goes on.
EndTx(t) ==
    /\ RollBack(t)
    /\ tx' = [tx EXCEPT ![t] = NoTx]
    /\ UNCHANGED <<log, head>>

\* A statement fails: the wait for a lock took too long, or the write failed.
StatementFails(t) == pc[t] = "commit" /\ EndTx(t)

\* A transaction that has read is refused RESERVED while another one has it.
LockedOut(t) ==
    /\ Sends(t, "write")
    /\ tx[t] # NoTx
    /\ ~ NoneHasReserved(t)
    /\ EndTx(t)

-----------------------------------------------------------------------------
(* The whole use case *)

\* The first step, which reads the row and so waits for a pending commit; a new
\* task is not read.
Load(t) ==
    /\ \/ CreateTask(t)
       \/ NoneIsPending(t) /\ (\/ EditTask(t) \/ ReprioritizeTask(t) \/ TransitionTask(t)
                               \/ DeleteTask(t) \/ FindNothing(t))
    /\ UNCHANGED storage

\* The third step.
Dispatch(t) == Publish(t) /\ UNCHANGED storage

\* The process dies: nothing of an open transaction is in the database.
Die == Crash /\ tx' = [t \in Threads |-> NoTx] /\ UNCHANGED <<log, head>>

\* What a transaction does unless something fails.
TxStep(t) ==
    \/ SelectRow(t) \/ SelectNothing(t) \/ WriteRow(t) \/ LockedOut(t) \/ ReadDigest(t)
    \/ InsertRows(t) \/ MoveAnchor(t) \/ AwaitReaders(t) \/ Commit(t)

TxNext ==
    \/ \E t \in Threads : Load(t) \/ TxStep(t) \/ StatementFails(t) \/ Dispatch(t)
    \/ Die \/ (Terminated /\ UNCHANGED storage)

TxSpec == TxInit /\ [][TxNext]_txVars

-----------------------------------------------------------------------------
(* Properties *)

\* unit_of_work.py: "Everything written inside atomic() commits as one transaction,
\* or rolls back together on any error".  Statement by statement, with the locks of
\* the database and nothing else, the use cases are those of TaskService.
ImplementsService == Spec

\* event_store.py, append: "Runs inside the unit-of-work transaction; appends are
\* serialized".  The digest that append reads is that of the row its own rows will
\* follow, and the anchor counts them: the log grows as AuditChain has it grow.
KeepsChain == Audit!Spec

\* repositories.py, save: between the SELECT that found the row and the UPDATE that
\* must find it (force_update), no other transaction removes it.
RowStillThere ==
    \A t \in Threads :
        tx[t] # NoTx /\ work[t].persist = "save" => row[work[t].id] # NoTask
=============================================================================
