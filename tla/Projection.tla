----------------------------- MODULE Projection -----------------------------
(***************************************************************************)
(* The CQRS read model (tasks/infrastructure/projections.py) fed by the    *)
(* write side of TaskService: the StatisticsProjector counts tasks per     *)
(* status, event by event, after each commit, and rebuild_projections      *)
(* recomputes the counts from the stored events.                           *)
(*                                                                         *)
(* Each count changes by two statements of their own (get_or_create, then  *)
(* update), outside any transaction: other threads, the death of the       *)
(* process or an error may come between any two of them.                   *)
(***************************************************************************)
EXTENDS TaskService

CONSTANTS
    MayFail,          \* whether the database may refuse a projector's statement
    RebuildAnytime,   \* whether rebuild_projections may run while events are in flight
    NoRow             \* the statistics table has no row for a status

ASSUME ProjectionFlagsAssumption == MayFail \in BOOLEAN /\ RebuildAnytime \in BOOLEAN
ASSUME NoRowAssumption == NoRow \notin Int
ASSUME CountableAssumption == IsFiniteSet(Ids) /\ IsFiniteSet(Threads)

VARIABLES
    stats,   \* TaskStatistics: stats[s] is the count stored for s, or NoRow
    bumps,   \* bumps[t]: what the projector has still to do for the event t handles
    lost     \* history: an event was not counted in full since the last rebuild

projection == <<stats, bumps, lost>>
allVars == <<vars, projection>>

Bump == [status : Statuses, delta : {-1, 1}, next : {"get_or_create", "update"}]

ProjectionInit ==
    /\ Init
    /\ stats = [s \in Statuses |-> NoRow]
    /\ bumps = [t \in Threads |-> <<>>]
    /\ lost = FALSE

-----------------------------------------------------------------------------
(* The projector *)

\* Mutant: a deletion is not counted.
BumpsIgnoringDeletion(event) ==
    LET bump(s, d) == [status |-> s, delta |-> d, next |-> "get_or_create"]
    IN  CASE event.kind = "TaskCreated" -> <<bump("draft", 1)>>
          [] event.kind = "TaskStatusChanged" -> <<bump(event.from, -1), bump(event.to, 1)>>
          [] OTHER -> <<>>

\* StatisticsProjector.__call__: the calls of _bump for an event.
Bumps(event) ==
    LET bump(s, d) == [status |-> s, delta |-> d, next |-> "get_or_create"]
    IN  CASE event.kind = "TaskCreated" -> <<bump("draft", 1)>>
          [] event.kind = "TaskStatusChanged" -> <<bump(event.from, -1), bump(event.to, 1)>>
          [] event.kind = "TaskDeleted" -> <<bump(event.status, -1)>>
          [] OTHER -> <<>>

Busy(t) == bumps[t] # <<>>

\* The thread runs anything but a handler: that needs the handler to be done.
RunService(t) ==
    /\ ~ Busy(t)
    /\ \/ Request(t)
       \/ CommitAdd(t) \/ CommitSave(t) \/ SaveFindsNothing(t) \/ CommitDelete(t)
       \/ RollBack(t)
    /\ UNCHANGED projection

\* The bus hands the next event to the projector.
Deliver(t) ==
    /\ ~ Busy(t)
    /\ Publish(t)
    /\ bumps' = [bumps EXCEPT ![t] = Bumps(Head(work[t].events))]
    /\ UNCHANGED <<stats, lost>>

\* Mutant: the row starts again from zero.
GetOrReset(t) ==
    /\ Busy(t) /\ Head(bumps[t]).next = "get_or_create"
    /\ stats' = [stats EXCEPT ![Head(bumps[t]).status] = 0]
    /\ bumps' = [bumps EXCEPT ![t][1].next = "update"]
    /\ UNCHANGED <<vars, lost>>

\* Mutant: the row is created without a count.
GetOrCreateWithoutDefault(t) ==
    /\ Busy(t) /\ Head(bumps[t]).next = "get_or_create"
    /\ stats' = [stats EXCEPT ![Head(bumps[t]).status] = IF @ = NoRow THEN None ELSE @]
    /\ bumps' = [bumps EXCEPT ![t][1].next = "update"]
    /\ UNCHANGED <<vars, lost>>

\* First statement of _bump: the row is there afterwards.
GetOrCreate(t) ==
    /\ Busy(t) /\ Head(bumps[t]).next = "get_or_create"
    /\ stats' = [stats EXCEPT ![Head(bumps[t]).status] = IF @ = NoRow THEN 0 ELSE @]
    /\ bumps' = [bumps EXCEPT ![t][1].next = "update"]
    /\ UNCHANGED <<vars, lost>>

\* Second statement of _bump: an UPDATE in the database, of no row if the row
\* has gone in the meantime.
Update(t) ==
    /\ Busy(t) /\ Head(bumps[t]).next = "update"
    /\ stats' = [stats EXCEPT ![Head(bumps[t]).status] =
                     IF @ = NoRow THEN NoRow ELSE @ + Head(bumps[t]).delta]
    /\ bumps' = [bumps EXCEPT ![t] = Tail(@)]
    /\ UNCHANGED <<vars, lost>>

\* The projector raises: the bus logs it and goes on with the next event.
HandlerFails(t) ==
    /\ MayFail
    /\ Busy(t)
    /\ bumps' = [bumps EXCEPT ![t] = <<>>]
    /\ lost' = TRUE
    /\ UNCHANGED <<vars, stats>>

CrashProjecting ==
    /\ MayCrash
    /\ \E t \in Threads : pc[t] # "idle" \/ Busy(t)
    /\ pc' = [t \in Threads |-> "idle"]
    /\ work' = [t \in Threads |-> NoWork]
    /\ bumps' = [t \in Threads |-> <<>>]
    /\ lost' = (lost \/ \E t \in Threads : pc[t] = "publish" \/ Busy(t))
    /\ UNCHANGED <<ledger, minted, published, received, stats>>

-----------------------------------------------------------------------------
(* Rebuilding, and what the counts should be *)

Entered(event, s) ==
    \/ event.kind = "TaskCreated" /\ s = "draft"
    \/ event.kind = "TaskStatusChanged" /\ event.to = s
Left(event, s) ==
    \/ event.kind = "TaskStatusChanged" /\ event.from = s
    \/ event.kind = "TaskDeleted" /\ event.status = s

Entering(s) == {event \in Event : Entered(event, s)}
Leaving(s) == {event \in Event : Left(event, s)}

\* The places in the sequences q[x] where one of the wanted is found.
Places(q, wanted) ==
    UNION {{<<x, n>> : n \in {m \in 1 .. Len(q[x]) : q[x][m] \in wanted}} : x \in DOMAIN q}
Tally(q, wanted) == Cardinality(Places(q, wanted))

\* What replaying the whole event log adds up to.
Replayed(s) == Tally(stream, Entering(s)) - Tally(stream, Leaving(s))

InFlight == \E t \in Threads : pc[t] = "publish" \/ Busy(t)

\* Mutant: the old rows are not deleted first.
RebuildOnTop ==
    /\ ~ RebuildAnytime => ~ InFlight
    /\ stats' = [s \in Statuses |-> IF stats[s] = NoRow THEN Replayed(s)
                                    ELSE stats[s] + Replayed(s)]
    /\ lost' = FALSE
    /\ UNCHANGED <<vars, bumps>>

\* rebuild_statistics, one transaction: all rows deleted, every event replayed.
RebuildStatistics ==
    /\ ~ RebuildAnytime => ~ InFlight
    /\ stats' = [s \in Statuses |->
                    IF Places(stream, Entering(s) \cup Leaving(s)) # {}
                    THEN Replayed(s) ELSE NoRow]
    /\ lost' = FALSE
    /\ UNCHANGED <<vars, bumps>>

ProjectionNext ==
    \/ \E t \in Threads : \/ RunService(t) \/ Deliver(t) \/ GetOrCreate(t) \/ Update(t)
                          \/ HandlerFails(t)
    \/ CrashProjecting
    \/ RebuildStatistics

ProjectionSpec == ProjectionInit /\ [][ProjectionNext]_allVars

ProjectorStep(t) == Deliver(t) \/ GetOrCreate(t) \/ Update(t)

\* A thread that is publishing runs the handlers to the end.
FairProjectionSpec == ProjectionSpec /\ \A t \in Threads : WF_allVars(ProjectorStep(t))

-----------------------------------------------------------------------------

ProjectionTypeOK ==
    /\ stats \in [Statuses -> Int \cup {NoRow}]
    /\ bumps \in [Threads -> Seq(Bump)]
    /\ lost \in BOOLEAN

Counted(s) == IF stats[s] = NoRow THEN 0 ELSE stats[s]

\* What the events and bumps still in flight will add to the count of s.
Queued == [t \in Threads |-> IF pc[t] = "publish" THEN work[t].events ELSE <<>>]
Adding(s) == {bump \in Bump : bump.status = s /\ bump.delta = 1}
Taking(s) == {bump \in Bump : bump.status = s /\ bump.delta = -1}
Due(s) == Tally(Queued, Entering(s)) - Tally(Queued, Leaving(s))
          + Tally(bumps, Adding(s)) - Tally(bumps, Taking(s))

\* Every stored event is counted exactly once: as long as nothing was lost, the
\* counts and what is in flight add up to what a replay would give, whatever the
\* order in which threads dispatch.
CountedOnce == ~ lost => \A s \in Statuses : Counted(s) + Due(s) = Replayed(s)

\* projections.py: if the projector "ever drifts, replay heals it".  So at rest,
\* with nothing lost since the last rebuild, the counts are those of a replay.
NoDriftAtRest == ~ lost /\ ~ InFlight => \A s \in Statuses : Counted(s) = Replayed(s)

\* The test of the documentation (cqrs.md: "the live projection matches a GROUP BY
\* over the write model") for one thread, at rest and with nothing lost.
CountsMatchRows ==
    ~ lost /\ ~ InFlight =>
        \A s \in Statuses : Counted(s) = Cardinality({id \in Ids : row[id] # NoTask
                                                                   /\ row[id].status = s})

\* ADR-0017: rebuild_projections replays the whole log and "heals any drift": what
\* it leaves is the count of the rows.
RebuildHeals ==
    [][RebuildStatistics =>
          \A s \in Statuses :
             Counted(s)' = Cardinality({id \in Ids : row[id] # NoTask
                                                     /\ row[id].status = s})]_allVars

\* Unless the process dies, every stored event is published in the end: an
\* answer, a failing transaction or another thread never makes _dispatch skip one.
StoredIsPublished ==
    \A id \in Ids : \A n \in 1 .. 2 * MaxRequests :
        Len(stream[id]) >= n ~> Len(published[id]) >= n

\* cqrs.md: the read model "briefly lags": if nothing is lost, it is in step with
\* the stored events again and again.
CatchesUp == []<>(lost \/ \A s \in Statuses : Counted(s) = Replayed(s))
=============================================================================
