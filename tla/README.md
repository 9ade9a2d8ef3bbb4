# A TLA+ verification of the task manager

This directory models the write side, the event log and the read models of the
task manager in `src/tasks`, model-checks them with TLC on small instances and
proves the central properties with TLAPS for every instance. Source lines below
are relative to `src/tasks/` unless they begin with `src/`.

## 1. The system

| Component | State it keeps | Operations | Hard behaviour | What makes it correct |
|---|---|---|---|---|
| **Task aggregate** `domain/entities.py`, `state_machine.py`, `events.py`, `value_objects.py` | one object's fields, its pending events | `create`, `edit_details`, `change_priority`, `transition_to`, `mark_deleted`, `pull_events`, `rebuild`/`_apply` | commands and replay are two implementations of each change; commands may raise half-way | the completion timestamp follows the status; replaying the events gives the object |
| **Application service** `application/services.py` with repository, mappers, unit of work | the aggregate each request holds | five commands: load, run the command, store in one transaction, dispatch | the load is outside the transaction; the whole row is stored; transactions fail; the process dies | row and events change together; history stays legal; only committed events are dispatched |
| **Event store** `infrastructure/event_store.py` | the table of events | `append` | part of the commit | streams only grow, in command order |
| **Audit chain** `infrastructure/audit_chain.py`, `verify_audit_log` | digests in the rows, the head anchor | sealing, `update_head`, `verify_chain` | verification is two reads; wipes and lost rows move the anchor | a verdict says what it claims about the log |
| **Event bus** `application/event_bus.py`, `handlers.py` | subscriptions | `publish`, `publish_all` | a handler that raises is skipped over | every event of a commit is handed over, in order |
| **Read model** `infrastructure/projections.py`, `rebuild_projections` | counts per status | projector, query, rebuild | two statements per count, after the commit, on many threads; rebuilds meanwhile | each stored event is counted once |
| **Event-sourced repository** `infrastructure/event_sourced_repository.py`, `event_serialization.py` | snapshots | `get`, `reconstitute_at`, `take_snapshot` | every statement sees another moment | from any snapshot a read finds what the stream says |
| **Container** `infrastructure/container.py`, `apps.py` | the process-wide singleton | `get_container`, `reset_container`, warm start | double-checked locking | one container, `None` only after a reset |
| **Interfaces** `interface/`: REST, GraphQL, HTML | none; clients remember what they were shown | validate, build commands, call the service, translate errors | several commands in a request; stale clients; requests sent again | an answer says what was stored |
| **Maintenance** `seed_tasks`, admin site | none of their own | seed, wipe, edit rows | several commands, several autocommitted deletes | a seed is a client like others; what a wipe leaves behind |
| **Health** `interface/health.py` | none | read | none | |

How they interact: an interface gets the service from the container and calls one of
its methods, or several in a row (a GraphQL document, a seed). The service
reads the row through the repository, runs the domain command on the object,
and in `_commit` (`application/services.py` 117-133) stores the row and appends
the object's events in one `atomic()` block; the append seals the events to the
log's last row and moves the anchor in the same transaction. After the commit,
`_dispatch` hands the events to the bus, which calls the logging handler and the
statistics projector synchronously, in the request's thread, outside any
transaction. The event-sourced repository and `verify_chain` read the same
tables from other threads or processes, with no transaction around their
statements.

### What the database gives

`src/config/settings.py` configures SQLite with Django's defaults: autocommit, `BEGIN
DEFERRED`, a rollback journal. This fixes the grain of the models.

- An `atomic()` block whose first statement is a write holds the write lock
  from there to its commit. Every `_commit` begins with a write of the row or a
  read inside the same block that is followed by one; the read lock
  it then holds keeps every other connection from committing in between, and of two
  such blocks one cannot get the write lock and rolls back. So in `TaskService` a
  commit is **one step**, and `RollBack` is the other thing that can happen to
  it ("database is locked", a failing write). This is not taken for granted:
  `UnitOfWork` has the statements and the locks, and the run `server` checks that it
  implements both `TaskService` and `AuditChain`.
- Each statement outside `atomic()` commits on its own: the load, each of the
  projector's statements, each statement of `take_snapshot`, and the two reads
  of `verify_chain` are **separate steps**.
- A `SELECT` that is still being iterated holds its read lock, so the scan of
  `verify_chain` sees one state of the log.
- Ids of events are `AUTOINCREMENT`: never reused, not even after a wipe.

## 2. Modules

| Module | Models | Extends |
|---|---|---|
| `TaskDomain` | lifecycle graph, events, commands, replay: pure operators | |
| `TaskAggregate` | one Task object and its owner | `TaskDomain` |
| `TaskLedger` | **abstract specification** of the write side: rows and streams change together | `TaskDomain` |
| `TaskService` | request threads, loads, transactions, dispatch, crashes | `TaskLedger` |
| `Projection` | the statistics projector, statement by statement, and the rebuild, fed by `TaskService` | `TaskService` |
| `EventSourcing` | readers that fold and snapshot while `TaskLedger`'s writers write | `TaskLedger` |
| `AuditChain` | sealing, the anchor, wipes, damage, verification | |
| `UnitOfWork` | the transaction statement by statement, under SQLite's locks; implements `TaskService` and `AuditChain` | `TaskService` |
| `Container` | `get_container` on several threads, `reset_container` | |
| `Server` | **composition**: threads that get the service from the container and run use cases on the database; restarts | `UnitOfWork`, `Container` |
| `Transports` | REST, HTML, GraphQL and seed requests, their clients and answers; implements `TaskService` | `TaskService` |
| `MC*` | finite values of the constants for TLC | the module of that name |
| `TaskDomainProofs` … `ServerProofs` | theorems and proofs (section 4) | the module of that name |
| `ServiceEdgesProofs` | proofs about what stands before the service and behind it | `Transports`, `Projection` |

**TaskDomain.** A command is an operator from the task as it is to an *outcome*:
the task it leaves, the events it recorded, whether it raised. Raw titles and
descriptions are model values that `CleanTitle` and `CleanDescription` map to
their stripped form or to `Invalid`; a priority or status name that does not
parse is `Invalid` too. Timestamps are reduced to "`completed_at` is set".
`EditDetails` keeps the order of the code: the title is assigned before the
description is validated (`domain/entities.py` 90-93). `Apply` is `_apply`, which ignores a `TaskCreated`; `Replay` is
the loop of `rebuild`, which constructs the task from it, and `Rebuild` adds the check of the first event; `ApplyAll` is the
loop with which the event-sourced `get` goes on from a snapshot.

**TaskAggregate.** `task`, `pending` (`_pending_events`), `history` (what
`pull_events` returned so far) and `raised`. One action per method, plus `Drop`:
every caller loses the object when a command raises.

**TaskLedger and TaskService.** `row` and `stream` are the two tables, by task.
`TaskService` adds the identities minted, the program counter of each thread
(`idle`, `commit`, `publish`), the aggregate it holds, and `published`, what the
bus was given. `CreateTask` … `DeleteTask` are the use cases up to the commit;
`CommitAdd`, `CommitSave`, `SaveFindsNothing`, `CommitDelete`, `RollBack` are the
outcomes of the transaction; `Publish` dispatches one event; `Crash` loses what
the threads hold. `CommitSave` overwrites every field with the thread's copy,
as `apply_entity_to_record` does. The ledger has neither threads nor failures:
`AddTask`, `ChangeTask`, `RemoveTask`, each a change of row and stream together.
The refinement mapping is the identity on `row` and `stream`. What the ledger
does not promise is as telling: a changed row may be any consistent task, and a
removal need not find a row.

**Projection.** `stats` is the table, `bumps` what a projector still has to do
for the event at hand, as a sequence of increments and decrements; what a replay of some events counts is how
many of them enter a status less how many leave it (`Tally` over the `Places` of a
family of sequences: the streams, the events held by publishing threads, the bumps); `GetOrCreate` and `Update` are the two statements of
`_bump`. `HandlerFails` is a handler that raises between two of them and is
swallowed by the bus. `RebuildStatistics` is one transaction; `RebuildAnytime`
says whether it may run while events are in flight. `lost` is a history variable: something was not
counted in full since the last rebuild.

**EventSourcing.** `snapshots` is the table, `reader` how far each `take_snapshot`
is: id of the last event (`StartSnapshot`), newest snapshot (`FindNewest`), the
events since and the fold (`FoldEvents`), the insert (`StoreSnapshot`). The writers are
`TaskLedger`'s, because `TaskService` implements it: everything the threads of
the service may store is stored here, with far fewer states. `get` on its own changes nothing; `Fold` is
what it answers. `reconstitute_at` is `Rebuild` of a prefix, covered by
`EveryPrefixRebuilds`.

**AuditChain.** `log` is the table of events by id, `head` the anchor, `verifier` the run of
`verify_chain`: `ScanFindsBreak` or `ScanToTheEnd`, then `ReadHead`. A digest is the sequence of what it seals, so two
digests are equal only if all the content sealed is. `EditRow` and `RemoveRow` are the
edits and deletions that the module documents it detects; they are not part of the
program and are marked external. `wipedTo`, `resealed` and the `seen` part of
`verifier` are history.

**UnitOfWork.** `row` and `stream` are those of `TaskService`; `log` has the events of all tasks by
id and what each is sealed to, `head` is the anchor, `tx[t]` the transaction of a thread: the statements it has
left, its lock, its copy of the tables. `Statements` is the order of
`_commit` and `append`: the `SELECT` of `save`, the write of the row, the digest of the last event,
`bulk_create`, the anchor, `COMMIT`. `SelectRow` … `Commit` execute one each; `StatementFails` is
a lock waited for too long or a failed write, `LockedOut` the refusal of a reader that asks for
the write lock while another has it. The locks are SQLite's and marked external. Two refinements
are checked: `ImplementsService` (load, publish, roll-back and crash *are* the actions of `TaskService`; what has to be
shown is that `Commit`, five statements after the row was read, still is `CommitAdd`,
`CommitSave` or `CommitDelete`) and `KeepsChain` (digests spelled out from
the row each row is sealed to; in it, appends are the only thing that happens to the log).

**Container and Server.** `caller[t]` is where a thread is in `get_container`; the lock is
`_lock`. The second check and the construction, which assigns the global last, are two steps under the lock. The process starts cold, or with the container that
`TasksConfig.ready` built; `Restart` always is warm. `overtaken` is history: the threads whose call a reset came into, after it had
found or constructed the container and before it returned the global. `Server` lets every request begin with
`get_task_service`, as the views do; a view that gets `None` fails and its request ends.

**Transports.** `call[t]` is the request a thread serves for its client: the transport, the
command that runs, how many commands it has sent and how many were stored, the fault that ended it, and the task
as the client was last shown it (`present_task`). `Offered` is which commands each transport has,
`Serialized` what the REST serializers let through (so that a `Command` is one that can reach the service); HTML and GraphQL hand strings on as they
are. A GraphQL document and a seed go on with `NextCommand`, each command a transaction of its own,
until one fails: the mutations have non-null types, so one that raises ends the document. `Resend` repeats
a request that was done. `RunCreate` and `RunOnTask` are the first step of
`TaskService` with the command of the request, `CommandStored`, `CommandMisses`, `CommandFails`
its transaction with what the client learns, `Dispatch` the bus with or without failing
subscribers. That all of it is the `TaskService` of the other modules is checked (`ImplementsService`).

## 3. Model checking

| Run | Instance | Shows |
|---|---|---|
| `aggregate` | two valid and one invalid title and description, five events | `ReplayYieldsTask`, `EveryPrefixRebuilds`, `CompletedAtFollowsStatus`, `StatusEventsFormAWalk` for every command sequence |
| `service` | 2 threads, 2 tasks, 4 requests, crashes, symmetry of threads and tasks | the service implements `LedgerSpec`; `RowIffLive`, `DeletionIsFinal`, `HistoryIsLegal`, `RowsConsistent`, `PublishedWasCommitted` |
| `sequential` | 1 thread, 2 tasks, 4 requests, an edit that fails half-way, crashes, failing handlers and transactions | `RowIsReplay`, `ArchivedIsTerminal`, `RowChangeIsRecorded`, `DeletedOnce`, `CountsMatchRows`, `RebuildHeals`: what the documentation promises holds one request at a time |
| `projection` | 2 threads, 2 tasks, 3 requests, failing handlers, rebuilds at rest, fairness | `CountedOnce`, `StoredIsPublished`, `CatchesUp` |
| `event_sourcing` | 1 task, 3 events, 1 reader, any legal or illegal status change | `AnySnapshotWillDo` |
| `audit` | 5 events in batches of 1 or 2, wipes and damage | `AnchorFollowsLog`, `OkMeansIntact`, `FirstBadIsBad`, `NoFalseAlarmUnlessRaced` |
| `server` | 2 threads, 2 tasks, 3 requests, 2 resets, failing statements, restarts, fairness | `ImplementsService`, `KeepsChain`: the transactions are atomic and serialized; `RowStillThere`, `BuiltOnce`, `NoneOnlyByReset`; `EveryRequestEnds` |
| `transports` | 2 clients, 1 task, 3 commands, documents of 2 mutations, symmetry of threads | `AnswerIsHonest`, `RetryRecordsNothing`, `ConflictMeansStale`, `MissingMeansDeleted`, `ImplementsService` |

Most runs also check the type invariant of their module; `StreamsBeginWithCreation`, of the ledger, has no
run of its own because it is proved (section 4). The check of each
property is validated by a *mutant*: an operator marked `\* Mutant:` beside the definition it
replaces, a plausible mistake under which the run must find the property
violated.

**Why the bounds are enough.** The longest path that a race of two saves needs
is create, load, load, save, save: three requests, on one task, by two threads;
four leave room for a deletion or a second task. Two titles are needed to see
a stale field, two tasks to see streams mixed up. The aggregate's five events are
the longest walk through the lifecycle with distinct phases (created, activated,
completed with its marker, reactivated). A snapshot
taken late, or of a stale state, differs from its label by one event; three
events allow a creation, an event before and one after the label, and because the ledger accepts any
status event, a completion is among them. In `audit`, five ids allow two rows before a wipe, a batch after it and damage in
the middle, at the end, and under a later append. `MCEventSourcing` uses a
`VIEW` that forgets what a row says: its readers look only at events, and a writer's guards only at whether there is a row.

In `server`, two threads and two tasks show every pair of transactions that may
meet: two readers, a reader and a writer, two writers, on the same or on different rows; three
requests give two of them a row to meet on, and a log that is not empty; two resets are one that is over when a call
begins, and one that comes into it. In `transports`, three commands are a
creation, one that a client's knowledge comes from or is made stale by, and one that is
answered on it; a document of two mutations has one to keep and one to fail.

**Deadlock** is checked in every run. `TaskService` has `Terminated` for the
state in which the bounded requests are all answered; a request never waits for another.

**Fairness.** `FairProjectionSpec` has one assumption: weak fairness of `ProjectorStep(t)`
for each thread. A thread that has committed runs `publish_all` to the end without
waiting for anything: the bus is synchronous, its handlers wait for no other thread, and
one that fails is skipped (`application/event_bus.py` 35-42). No fairness
is assumed of requests, commits, failures, crashes or rebuilds. `ServerSpec` assumes weak fairness of
`Serve(t)`, what a thread does with a request that nothing fails for: threads of a process are scheduled, SQLite
executes statements, and a lock that has become free is got by whoever is left asking for it. Not
assumed are `StatementFails`, so no wait is ended by a timeout, and new requests. The requests are bounded, so that
a thread is not overtaken for ever: SQLite is not fair in that. The projector's statements are not in `Server`: each is a
transaction of its own, so a thread that waits to execute one holds no lock that others wait for. The
liveness run has no crashes: a process that dies between commit and dispatch loses the events for good, until a rebuild.

### What does not hold

Each of these has a run that finds the counterexample.

| Run | Statement in the repository | What the code does |
|---|---|---|
| `service_row_is_replay` | "State is provably fully derivable from events" (`src/docs/adr/0016-event-sourcing.md` 44) | two saves of copies loaded before either was stored: the second undoes in the row what the first changed and recorded |
| `projection_rebuild_race` | "if the … projector ever drifts, replay heals it" (`infrastructure/projections.py` 5-7) | a rebuild between commit and dispatch counts the events, their dispatch counts them again |
| `audit_truncation` | the anchor is checked by `verify_chain`, "which catches truncation too" (`src/docs/TECH_DEBT.md` 102) | an append after rows at the end were lost recounts the rows and seals its own to the last one left: the shorter log verifies from then on |
| `audit_false_alarm` | "Exits 0 if the chain is intact, 1 if tampering is detected" (`verify_audit_log.py` 5) | an append between the two reads makes an intact log fail |

With two threads, `ArchivedIsTerminal` ("Terminal states permit no further
transitions.", `domain/value_objects.py` 55: a save of a copy loaded before the archiving stores the old
status), `DeletedOnce`, `RowChangeIsRecorded` and `RebuildHeals` fail too, by the
same stale copies; `src/docs/adr/0004-rich-aggregate-and-state-machine.md` 31 and `src/docs/cqrs.md` 43-44 say otherwise. They
have no run of their own. Neither have two more statements that are not quite true:

- "A cached fold of an aggregate's events up to `last_event_id`" (`infrastructure/models.py` 105): an event stored after the label was
  read is in the state of the snapshot as well. Reads are right all the same (`AnySnapshotWillDo`).
- No state changes without an event (`domain/entities.py` 7-8): an edit with a valid new title and an invalid description does. No use
  case stores that object (`RowChangeIsRecorded` in `sequential`).

## 4. Proofs

All theorems hold for every value of the constants that satisfies the named
assumptions, which TLC evaluates in the runs:

- `CleaningAssumption` in `TaskDomain`: the validators return a clean value or fail;
- sentinels are none of the values they stand beside: `SentinelAssumption`, `NoTaskAssumption`, `NoWorkAssumption`,
  `NoTxAssumption`, `NoHeadAssumption`, `AlteredAssumption`, `NoRowAssumption`, `NoCallAssumption`, `NotShownAssumption`;
- flags are Booleans and bounds are natural numbers: `StrictAssumption`, `FlagsAssumption`,
  `ProjectionFlagsAssumption`, `MaxEventsAssumption`, `MaxRequestsAssumption`, `MaxBatchAssumption`;
- `CallersAssumption` in `Server`: whoever calls `get_container` is a thread of the server;
- `CountableAssumption` in `Projection`: there are finitely many identities and threads, without which the
  number of rows with a status is no number.

The bounds are arbitrary, so a theorem is about runs of any length; `Strict`, `EventSourcing`, `MayCrash`,
`MayFail`, `MayWipe` and `MayDamage` are free, so it covers both values unless it has one for a hypothesis.

| Theorem | Statement |
|---|---|
| `TaskAggregateProofs!` | of `Spec`, one object |
| `TypeCorrect`, `CompletionTimestampCorrect`, `ReplayCorrect`, `PrefixesRebuild`, `WalkCorrect` | `TypeOK`, `CompletedAtFollowsStatus`, `ReplayYieldsTask`, `EveryPrefixRebuilds`, `StatusEventsFormAWalk` |
| `TaskLedgerProofs!` | of `LedgerSpec` |
| `LedgerCorrect` | the types, `RowsConsistent`, `RowIffLive`, `StreamsBeginWithCreation`, `DeletionIsFinal`, `HistoryIsLegal` |
| `TaskServiceProofs!` | of `Spec`, any number of threads |
| `ServiceTypeCorrect`, `StoredRowsConsistent`, `PublishedAfterCommit` | `TypeOK`, `RowsConsistent`, `PublishedWasCommitted` |
| `ServiceImplementsLedger` | `EventSourcing => (Spec => LedgerSpec)` |
| `ServiceKeepsDeletions`, `ServiceRowIffLive`, `ServiceHistoryIsLegal` | with `EventSourcing`: `DeletionIsFinal`, `RowIffLive`, `HistoryIsLegal` |
| `SequentialRowIsReplay`, `SequentialRowChangeIsRecorded`, `SequentialDeletedOnce` | with `OneThread` and `EventSourcing`: `RowIsReplay`, `RowChangeIsRecorded`, `DeletedOnce` |
| `SequentialArchivedIsTerminal` | with `OneThread` and `Strict`: `ArchivedIsTerminal` |
| `ServerProofs!` | statements, locks and the container, any number of threads |
| `TransactionsImplementService`, `TransactionsKeepChain`, `RowsAreStillThere` | of `TxSpec`: `ImplementsService`, `KeepsChain`, `RowStillThere` |
| `ServerRunsTransactions`, `ServerImplementsService` | `ServerSpec => TxSpec`, and so all three of the above |
| `ServerImplementsLedger` | `EventSourcing => (ServerSpec => LedgerSpec)` |
| `ContainerBuiltOnce`, `ContainerIsThere` | of `ServerSpec`: `BuiltOnce`, `NoneOnlyByReset` |
| `AuditChainProofs!` | of `Spec`, any wipes and damage |
| `ChainTypeCorrect`, `AnchorFollows`, `OkIsIntact`, `FirstBadIsFirst`, `FalseAlarmsAreRaces` | `TypeOK`, `AnchorFollowsLog`, `OkMeansIntact`, `FirstBadIsBad`, `NoFalseAlarmUnlessRaced` |
| `EventSourcingProofs!` | of `Spec`, any number of readers |
| `SnapshotTypeCorrect`, `AnySnapshotAnswers` | `TypeOK`, `AnySnapshotWillDo` |
| `ServiceEdgesProofs!` | of `TransportSpec` |
| `TransportsImplementService`, `AnswersAreHonest`, `RetriesRecordNothing`, `ConflictsMeanStale` | `ImplementsService`, `AnswerIsHonest`, `RetryRecordsNothing`, `ConflictMeansStale` |
| `MissingIsDeleted` | with `EventSourcing`: `MissingMeansDeleted` |
| `ServiceEdgesProofs!` | of `ProjectionSpec` |
| `ProjectorOnlyWatches`, `ProjectionTypeCorrect` | `TaskService!Spec`; `ProjectionTypeOK` |
| `EventsAreCountedOnce`, `NoDrift` | with `EventSourcing` and `~ RebuildAnytime`: `CountedOnce`, `NoDriftAtRest` |
| `CountsAreTheRows` | and with `OneThread`: `CountsMatchRows` |
| `RebuildRestores` | with `OneThread` and `EventSourcing`: `RebuildHeals` |

**The hypotheses** are where the code makes its promise, and the runs of "What does not hold" show that they
are needed: `OneThread` (one request at a time) for what a stale copy breaks, `~ RebuildAnytime` (rebuilds only
when nothing is in flight) for the counts, `Strict` (the setting `STRICT_STATE_MACHINE`) for what only the enforced state
machine promises, `EventSourcing` (the setting of that name) for what relates rows or counts to a log, which is
empty otherwise. All four are values the runs have.

### The arguments

**Induction over a history.** `Replay` is a recursive *function*. The induction theorems of the library take an operator, which the
provers cannot instantiate, but `TaskDomainProofs!SetInduction` says the same of a *set* of numbers, from
`WFMin`. With it `PartialSteps` shows that the function has a value at every event, `ReplaysMore` what replaying one history after another
gives, and `PartialTasks` what holds at every prefix.

**Aggregate.** `Explained` is the invariant behind the last three theorems: the object, unless a command has
raised, is what its events replay to and has the status they lead to, and each event is sane where it
stands. The properties alone say nothing of the object that the next event is about.
`TaskDomainProofs` shows per command that applying its events to the task it started from gives
the task it left (`Sound`).

**Ledger.** Each guarantee is inductive given those before it: a stream that
begins with its creation, grows at the end, and has a row exactly while it is
live can only be extended by a change while there is a row, or by a deletion.

**Service.** Type correctness is not enough for the refinement: when a thread
commits, nothing in the types says that its events are ones the ledger accepts, or
that the task it adds is new. `IInv` adds what a thread holds:

- `Held`: what it will save is a consistent task with the events of *one* command,
  and what it will add is the task its one creation event describes;
- `AddsAlone`, `Fresh`: no two threads add the same identity, and an identity nobody has
  stored yet has no row and no stream;
- `RowsHaveStreams`: a row has a non-empty stream (with event sourcing on), so a
  deletion's load proves that there is something to delete;
- `PublishingSomething`: a publishing thread has an event left.

With it each action of the service is a step of the ledger or leaves row and
stream alone, and the ledger's guarantees carry over.

`PublishedWasCommitted` counts, and a count is not inductive: which stored event a published one is has to be said.
`HaveOrigins` is: there is a map from published events to places of the stream, one to one, in which the events
a thread has yet to dispatch stand together at a place from which nothing was published, each thread at its own.

The properties of one request at a time rest on `HeldIsCurrent`: what the thread holds is still about the row that
it read. It is exactly what a second thread takes away.

**Transactions.** `TxInv` says of an open transaction that either it has only read (`HasRead`), or it holds
the write lock, alone (`Exclusive`), and its copy is what is *now* committed, with just the writes it has sent
(`HasWritten`); and that a row found by `save` is there. Others' commits cannot falsify it: a commit needs that no one
else holds `SHARED`, and no one else has written. So at `COMMIT` the copy is the step of `TaskService`.

**Chain.** That appends are serialized (`KeepsChain`) has three parts. `Linked`: row *n* of the log is sealed to row *n* - 1, and the
anchor names and counts the last row; a transaction that writes has a copy for which the same holds, and its digest is that of
the last row of that copy, because of the write lock. `Bounded`: rows in the log and rows about to be committed are at most twice the
requests received, so the two modules' bounds agree. `DigestsAre`: of such a log the digest of row *n*, spelled out from the row
that each row is sealed to, is `<<1, ..., n>>`, by `SetInduction`; and so is what `AuditChain` computes for a batch sealed to the end of the log.

**Container.** `LockInv`: whoever constructs holds the lock and has seen the container missing. `BuiltInv`: a container
that is missing was reset, if it was ever built. `NoneOnlyByReset` is inductive with these: a thread that constructs makes the
container be there, one that does not has just found it there, and whoever was about to return when it went away is in `overtaken`.

**Audit chain.** What no damage undoes is the inductive invariant (`Chained`): in every row the digest
seals the id to the digest before it, ids grow, and a row whose predecessor is still there is sealed to it. `AnchorInv`: the anchor is the digest of the last
event ever written, and counts the rows that were there then. `ReadingInv` is what a verification knows between its two
reads, whatever the rest has done meanwhile. An edited row then cannot be linked, and an undamaged log is as long as its last digest.

**Snapshots.** `Fits`: a snapshot labelled with an event is a state the replay went through *at or after* it. Reading from it applies some events again
to a state that has them already; as an event gives each field a value of its own or leaves it alone (`EventsOverwrite`), the result at the
end is the same (`ReplayAgain`); and as no second `TaskCreated` is among them, the two loops agree (`ReplayApplies`). With a deletion in the stream there is nothing to read.

**Transports.** `CallInv` relates the request of a thread to where the thread is in `TaskService`; its core
is `Settled`: once a command is stored, running it once more on the task shown would record nothing, a fact
about each command.

**Projection.** `CountedOnce` is an equation between four cardinalities, and inductive only together with `RowThere`: the
row that the second statement of a bump updates was made by the first. Each action moves an event, or
a bump, from one of the four to the next; `Tally` of a family in which one sequence changes is the lemma they share.
`CountsAreTheRows` and `RebuildRestores` add that the log counts the rows (`AddsUp`), for which the status that
a deletion records must be the row's (`DeletesCurrent`), again a matter of one request at a time.

### Only model-checked

- Liveness (`StoredIsPublished`, `CatchesUp`, `EveryRequestEnds`): the provers here have neither fairness nor `ENABLED`.

Every other property of a run that passes is stated by a theorem.

## 5. What is not modelled

- **List queries** of the interfaces, with their filters, order and pages: one `SELECT` each, no state,
  and nothing is promised across pages.
- **Creates that are sent again** make a second task. The code has nothing to tell them by, and
  says nothing of them; `Resend` repeats everything else.
- **Clients that lose an answer** are clients that send a request again though it was done; answers have
  no other effect. A process that dies while it serves a client is in `Server`, not in `Transports`.
- **Reads that time out.** A read that waits for a pending commit gets its turn; that it
  may give up first would be one more request that fails before anything is done.
- **Admin site.** Django's generic editing of rows, past the domain and the event store; no
  property of the ledger is claimed in its presence.
- **Wipes and the ledger.** `seed_tasks --wipe` deletes rows and streams;
  `LedgerSpec` has no such step. Only its effect on the audit chain is modelled. It leaves the counts, until
  the next rebuild, and the snapshots, for good.
- **Upcasting** of version 1 events and rows older than the chain: no code writes them any more.
- **Health endpoints**, formatting, logging: no state.
- **Settings, migrations, templates, static files**: configuration and generated code.

## 6. Plan

1. Done: all modules of section 2 with their runs, and the theorems of section 4.
2. Next: carry what `AuditChain` proves of verdicts over to a verification beside a running server, where `KeepsChain` only
   says how the log grows; and look for the shortest forms of the longest proofs (`ServiceEdgesProofs`, `ServerProofs`).
3. Left to model: a wipe beside running requests, which may store what they loaded before it
   (`TaskService` with the two deletes), and the snapshots and counts it leaves.
