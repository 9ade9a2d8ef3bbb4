------------------------------ MODULE AuditChain ------------------------------
(***************************************************************************)
(* The hash chain over the event log: DjangoEventStore.append seals every  *)
(* event to the one before it and moves the head anchor; verify_chain      *)
(* walks the log and compares what it found with the anchor; seed_tasks    *)
(* --wipe empties the log.  Appends are transactions, and the database     *)
(* serializes them; a verification is two reads without a transaction,     *)
(* the rows and then the anchor, and an append may come between them.      *)
(*                                                                         *)
(* An event's content is the id its row was given (no two events are the   *)
(* same: the content has the aggregate's identity and the time), or        *)
(* Altered.  A digest is the sequence of the contents it seals, as if      *)
(* SHA-256 had no collisions.  Damage is what the module's documentation   *)
(* sets out to detect: an edited row, a deleted row.                       *)
(***************************************************************************)
EXTENDS Integers, Sequences

CONSTANTS
    Altered,    \* the content of a row that was edited in the database
    NoHead,     \* there is no AuditChainHead row yet
    MaxEvents,  \* bound: ids given to events
    MaxBatch,   \* events a use case appends at once: 1, or 2 for a status change
    MayWipe,    \* whether seed_tasks --wipe is run
    MayDamage   \* whether rows are edited or deleted behind the program's back

ASSUME AlteredAssumption == Altered \notin Nat
ASSUME MaxBatchAssumption == MaxEvents \in Nat /\ MaxBatch \in Nat \ {0}

VARIABLES
    log,       \* the DomainEventRecord rows, by id
    lastId,    \* the last id given (AUTOINCREMENT: never given again)
    head,      \* the AuditChainHead row, or NoHead
    verifier,  \* the run of verify_chain under way, or the verdict of the last one
    wipedTo,   \* history: the last id at the last wipe
    resealed   \* history: since the last wipe, an append followed a lost last row

vars == <<log, lastId, head, verifier, wipedTo, resealed>>

Contents == 1 .. MaxEvents \cup {Altered}
Digests == Seq(Contents)
Row == [id : 1 .. MaxEvents, content : Contents, prev : Digests, hash : Digests]
Anchor == [count : 0 .. MaxEvents, hash : Digests]

ASSUME NoHeadAssumption == NoHead \notin Anchor

\* compute_entry_hash.
Hash(prev, content) == Append(prev, content)

\* What a row is sealed to: the digest of the row before it.
DigestBefore(rows, n) == IF n = 1 THEN <<>> ELSE rows[n - 1].hash
DigestOf(rows) == DigestBefore(rows, Len(rows) + 1)

\* The rows are those written since the last wipe, unaltered and complete.
Intact(rows) ==
    /\ Len(rows) = lastId - wipedTo
    /\ \A n \in 1 .. Len(rows) : rows[n].id = wipedTo + n /\ rows[n].content = rows[n].id

Init ==
    /\ log = <<>> /\ lastId = 0 /\ head = NoHead
    /\ verifier = [at |-> "idle"]
    /\ wipedTo = 0 /\ resealed = FALSE

-----------------------------------------------------------------------------
(* Appending and wiping *)

\* Mutant: every event of a batch sealed to the row before the batch.
SealedToTheLog(size) ==
    [n \in 1 .. size |-> [id |-> lastId + n, content |-> lastId + n, prev |-> DigestOf(log),
                          hash |-> Hash(DigestOf(log), lastId + n)]]

\* The new rows of a batch, each sealed to the one before it.
Sealed(size) ==
    LET digest[n \in 0 .. size] ==
            IF n = 0 THEN DigestOf(log) ELSE Hash(digest[n - 1], lastId + n)
    IN  [n \in 1 .. size |-> [id |-> lastId + n, content |-> lastId + n,
                              prev |-> digest[n - 1], hash |-> digest[n]]]

\* Mutant: the count is advanced by the size of the batch.
UpdateHeadByBatch(rows) ==
    head' = [count |-> (IF head = NoHead THEN 0 ELSE head.count) + Len(rows) - Len(log),
             hash |-> DigestOf(rows)]

\* update_head: the rows counted again, and the digest of the last one.
UpdateHead(rows) == head' = [count |-> Len(rows), hash |-> DigestOf(rows)]

LastRowLost == lastId > wipedTo /\ (log = <<>> \/ log[Len(log)].id # lastId)

AppendEvents(size) ==
    /\ lastId + size <= MaxEvents
    /\ log' = log \o Sealed(size)
    /\ UpdateHead(log \o Sealed(size))
    /\ lastId' = lastId + size
    /\ resealed' = (resealed \/ LastRowLost)
    /\ verifier' = IF verifier.at = "head" THEN [verifier EXCEPT !.raced = TRUE] ELSE verifier
    /\ UNCHANGED wipedTo

\* Mutant: ids start again from 1.
WipeResettingIds ==
    /\ MayWipe
    /\ log' = <<>>
    /\ lastId' = 0
    /\ wipedTo' = lastId
    /\ resealed' = FALSE
    /\ UNCHANGED <<head, verifier>>

\* seed_tasks --wipe: the rows are deleted; the anchor is left as it is.
Wipe ==
    /\ MayWipe
    /\ log' = <<>>
    /\ wipedTo' = lastId
    /\ resealed' = FALSE
    /\ UNCHANGED <<lastId, head, verifier>>

-----------------------------------------------------------------------------
(* Damage, by something other than this program *)

EditRow ==
    /\ MayDamage
    /\ \E n \in 1 .. Len(log) : log' = [log EXCEPT ![n].content = Altered]
    /\ UNCHANGED <<lastId, head, verifier, wipedTo, resealed>>

RemoveRow ==
    /\ MayDamage
    /\ \E n \in 1 .. Len(log) : log' = SubSeq(log, 1, n - 1) \o SubSeq(log, n + 1, Len(log))
    /\ UNCHANGED <<lastId, head, verifier, wipedTo, resealed>>

-----------------------------------------------------------------------------
(* verify_chain *)

\* Mutant: each row checked against the previous digest that it holds itself.
LinkedToItself(rows, n) == rows[n].hash = Hash(rows[n].prev, rows[n].content)

Linked(rows, n) ==
    /\ rows[n].prev = DigestBefore(rows, n)
    /\ rows[n].hash = Hash(DigestBefore(rows, n), rows[n].content)

Unlinked == {n \in 1 .. Len(log) : ~ Linked(log, n)}

\* The log as the walk sees it, and (history) what had become of it by then.
Seen == [rows |-> log, from |-> wipedTo + 1, intact |-> Intact(log), resealed |-> resealed]

\* The walk over the rows finds one that is not linked, and returns.
ScanFindsBreak ==
    /\ verifier.at # "head"
    /\ \E n \in Unlinked :
         /\ \A m \in Unlinked : n <= m
         /\ verifier' = [at |-> "done", verdict |-> "broken", firstBad |-> n,
                         raced |-> FALSE, seen |-> Seen]
    /\ UNCHANGED <<log, lastId, head, wipedTo, resealed>>

\* The walk comes to the end; the anchor is to be read next.
ScanToTheEnd ==
    /\ verifier.at # "head"
    /\ Unlinked = {}
    /\ verifier' = [at |-> "head", raced |-> FALSE, seen |-> Seen]
    /\ UNCHANGED <<log, lastId, head, wipedTo, resealed>>

\* The anchor, if there is one, has the count and the last digest of the walk.
Anchored ==
    LET rows == verifier.seen.rows
    IN  head # NoHead => head = [count |-> Len(rows), hash |-> DigestOf(rows)]

ReadHead ==
    /\ verifier.at = "head"
    /\ verifier' = [at |-> "done", verdict |-> IF Anchored THEN "ok" ELSE "mismatch",
                    firstBad |-> 0, raced |-> verifier.raced, seen |-> verifier.seen]
    /\ UNCHANGED <<log, lastId, head, wipedTo, resealed>>

Next ==
    \/ \E size \in 1 .. MaxBatch : AppendEvents(size)
    \/ Wipe \/ EditRow \/ RemoveRow
    \/ ScanFindsBreak \/ ScanToTheEnd \/ ReadHead

Spec == Init /\ [][Next]_vars

-----------------------------------------------------------------------------

SeenLog == [rows : Seq(Row), from : 1 .. MaxEvents + 1, intact : BOOLEAN, resealed : BOOLEAN]
Reading == [at : {"head"}, raced : BOOLEAN, seen : SeenLog]
Verdict == [at : {"done"}, verdict : {"ok", "broken", "mismatch"}, firstBad : 0 .. MaxEvents,
            raced : BOOLEAN, seen : SeenLog]

TypeOK ==
    /\ log \in Seq(Row)
    /\ lastId \in 0 .. MaxEvents
    /\ head \in Anchor \cup {NoHead}
    /\ verifier \in {[at |-> "idle"]} \cup Reading \cup Verdict
    /\ wipedTo \in 0 .. lastId
    /\ resealed \in BOOLEAN

\* An undamaged log is linked row by row and ends where the anchor says, after
\* any number of wipes too: the chain starts afresh and the rows are counted again.
AnchorFollowsLog ==
    Intact(log) /\ log # <<>> =>
        /\ Unlinked = {}
        /\ head = [count |-> Len(log), hash |-> DigestOf(log)]

\* verify_chain, docstring: it "detects edits and deletions that leave a subsequent
\* record", and "trailing truncation" through the anchor.  So after a verdict of ok
\* no row it walked over had been edited, whatever was appended or wiped between its
\* two reads; and no row was missing, unless the last ones had been and a later
\* append moved the anchor.
OkMeansIntact ==
    verifier.at = "done" /\ verifier.verdict = "ok" =>
        /\ \A n \in 1 .. Len(verifier.seen.rows) :
               verifier.seen.rows[n].content = verifier.seen.rows[n].id
        /\ verifier.seen.intact \/ verifier.seen.resealed

\* A verification points at the place of the damage: the row it names was edited, or
\* the row written before it is missing, and no row in front of it was edited.
FirstBadIsBad ==
    verifier.at = "done" /\ verifier.verdict = "broken" =>
        LET rows == verifier.seen.rows
            bad == verifier.firstBad
            expected == IF bad = 1 THEN verifier.seen.from ELSE rows[bad - 1].id + 1
        IN  /\ rows[bad].content = Altered \/ rows[bad].id # expected
            /\ \A n \in 1 .. bad - 1 : rows[n].content = rows[n].id

\* A verification that no append comes between finds fault with an undamaged log
\* only if the log was wiped and nothing has been appended since.
NoFalseAlarmUnlessRaced ==
    verifier.at = "done" /\ verifier.verdict # "ok" /\ verifier.seen.intact =>
        verifier.raced \/ verifier.seen.rows = <<>>

\* verify_audit_log.py: "Exits 0 if the chain is intact, 1 if tampering is detected".
NoFalseAlarm ==
    verifier.at = "done" /\ verifier.verdict # "ok" => ~ verifier.seen.intact

\* docs/TECH_DEBT.md, item 10, of the anchor: verify_chain checks it, "which catches
\* truncation too".  So no row that was written would be missing after a verdict of ok.
TruncationIsCaught ==
    verifier.at = "done" /\ verifier.verdict = "ok" => verifier.seen.intact
=============================================================================
