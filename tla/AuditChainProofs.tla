-------------------------- MODULE AuditChainProofs --------------------------
(***************************************************************************)
(* What a verification of the audit chain is worth, for any number of      *)
(* events, any size of a batch, and any wipes and damage between them.     *)
(***************************************************************************)
EXTENDS AuditChain, SequenceTheorems, WellFoundedInduction, TLAPS

\* The n-th row is the one written right after the one in front of it (or, for the
\* first, right after the wipe).
InPlace(rows, from, n) == rows[n].id = IF n = 1 THEN from ELSE rows[n - 1].id + 1

\* What writing leaves in the rows and no damage undoes: a digest that seals the id
\* to the previous digest, ids that grow, and, for a row whose predecessor is still
\* there, the predecessor's digest.  As long as no append followed a lost last row,
\* a digest is as long as the number of events written up to its row.
Chained(rows, from, again) ==
    /\ \A n \in 1 .. Len(rows) :
         /\ rows[n].id >= from
         /\ rows[n].content \in {rows[n].id, Altered}
         /\ rows[n].hash = Hash(rows[n].prev, rows[n].id)
         /\ InPlace(rows, from, n) => rows[n].prev = DigestBefore(rows, n)
         /\ ~ again => Len(rows[n].hash) = rows[n].id - from + 1
    /\ \A m, n \in 1 .. Len(rows) : m < n => rows[m].id < rows[n].id

LogInv ==
    /\ Chained(log, wipedTo + 1, resealed)
    /\ \A n \in 1 .. Len(log) : log[n].id <= lastId
    /\ Len(log) <= lastId - wipedTo

\* The anchor names the last event ever written, and counts the rows that were there
\* then: at least those that are left, at most those written since the last wipe.
AnchorInv ==
    /\ head = NoHead <=> lastId = 0
    /\ head # NoHead => head.count > 0 /\ head.hash # <<>> /\ head.hash[Len(head.hash)] = lastId
    /\ log # <<>> => /\ Len(log) <= head.count
                     /\ head.count <= lastId - wipedTo
                     /\ log[Len(log)].id = lastId => head.hash = log[Len(log)].hash

\* What a verification that is about to read the anchor knows.
ReadingInv ==
    verifier.at = "head" =>
        LET seen == verifier.seen
            rows == seen.rows
        IN  /\ Chained(rows, seen.from, seen.resealed)
            /\ \A n \in 1 .. Len(rows) : Linked(rows, n)
            /\ ~ seen.intact /\ ~ seen.resealed =>
                  /\ lastId > 0
                  /\ rows # <<>> => rows[Len(rows)].id < lastId
            /\ ~ verifier.raced /\ seen.intact /\ rows # <<>> =>
                  head = [count |-> Len(rows), hash |-> DigestOf(rows)]

IInv ==
    /\ TypeOK
    /\ LogInv
    /\ AnchorInv
    /\ ReadingInv
    /\ OkMeansIntact
    /\ FirstBadIsBad
    /\ NoFalseAlarmUnlessRaced

-----------------------------------------------------------------------------
(* Sequences of rows *)

\* A set of numbers that is not empty has a first one.
LEMMA FirstOf ==
    ASSUME NEW T \in SUBSET Nat, T # {}
    PROVE  \E m \in T : \A k \in T : m <= k
<1> DEFINE R == {p \in Nat \X Nat : p[1] < p[2]}
<1>1. IsWellFoundedOn(R, Nat)
  BY NatLessThanWellFounded DEF OpToRel
<1> HIDE DEF R
<1>2. PICK m \in T : \A k \in T : ~ (<<k, m>> \in R)
  BY <1>1, WFMin
<1>3. ASSUME NEW k \in T, k < m PROVE FALSE
  <2> DEFINE p == <<k, m>>
  <2>1. p \in Nat \X Nat /\ p[1] < p[2]
    BY <1>3
  <2> QED BY <2>1, <1>2 DEF R
<1> QED BY <1>3

LEMMA DigestType ==
    ASSUME NEW rows \in Seq(Row), NEW n \in 1 .. Len(rows) + 1
    PROVE  DigestBefore(rows, n) \in Digests
<1>1. CASE n = 1
  BY <1>1, EmptySeq DEF DigestBefore, Digests
<1>2. CASE n # 1
  <2>1. Len(rows) \in Nat /\ n - 1 \in 1 .. Len(rows)
    BY <1>2, LenProperties
  <2>2. rows[n - 1] \in Row
    BY <2>1, ElementOfSeq
  <2> QED BY <1>2, <2>2 DEF DigestBefore, Row
<1> QED BY <1>1, <1>2

\* What one more seal adds to a digest.
LEMMA HashAdds ==
    ASSUME NEW digest \in Digests, NEW content \in Contents
    PROVE  /\ Hash(digest, content) \in Digests
           /\ Hash(digest, content) # <<>>
           /\ Len(Hash(digest, content)) = Len(digest) + 1
           /\ Hash(digest, content)[Len(Hash(digest, content))] = content
           /\ \A other \in Contents :
                 Hash(digest, content) = Hash(digest, other) => content = other
  BY AppendProperties, AppendInjective DEF Digests, Hash

\* In a chain, a row passes the check of verify_chain exactly when it follows the
\* digest in front of it and was not edited.
LEMMA LinkedMeans ==
    ASSUME NEW rows \in Seq(Row), NEW from, NEW again, Chained(rows, from, again),
           NEW n \in 1 .. Len(rows)
    PROVE  Linked(rows, n) <=> /\ rows[n].prev = DigestBefore(rows, n)
                               /\ rows[n].content = rows[n].id
<1>1. rows[n] \in Row
  BY ElementOfSeq
<1>2. rows[n].id \in Contents /\ rows[n].content \in Contents /\ rows[n].prev \in Digests
  BY <1>1 DEF Row, Contents
<1>3. rows[n].hash = Hash(rows[n].prev, rows[n].id)
  BY DEF Chained
<1>4. rows[n].hash = Hash(rows[n].prev, rows[n].content) => rows[n].content = rows[n].id
  BY ZenonT(40), <1>2, <1>3, HashAdds
<1> QED BY <1>3, <1>4 DEF Linked

\* Rows that all pass the check, in a chain that was never resealed, are the first
\* ones written since the wipe.
LEMMA LinkedIsPrefix ==
    ASSUME NEW rows \in Seq(Row), NEW from \in Nat, Chained(rows, from, FALSE),
           \A n \in 1 .. Len(rows) : Linked(rows, n)
    PROVE  \A n \in 1 .. Len(rows) : rows[n].id = from + n - 1
<1>1. Len(rows) \in Nat
  BY LenProperties
<1>2. \A n \in 1 .. Len(rows) :
         /\ rows[n] \in Row
         /\ Len(rows[n].hash) = rows[n].id - from + 1
         /\ Len(rows[n].hash) = Len(DigestBefore(rows, n)) + 1
  <2> TAKE n \in 1 .. Len(rows)
  <2>1. rows[n] \in Row
    BY ElementOfSeq
  <2>2. rows[n].id \in Contents /\ rows[n].prev \in Digests
    BY <2>1 DEF Row, Contents
  <2>3. rows[n].prev = DigestBefore(rows, n)
    BY LinkedMeans
  <2>4. /\ rows[n].hash = Hash(rows[n].prev, rows[n].id)
        /\ Len(rows[n].hash) = rows[n].id - from + 1
    BY DEF Chained
  <2> QED BY <2>1, <2>2, <2>3, <2>4, HashAdds
<1> DEFINE wrong == {n \in 1 .. Len(rows) : rows[n].id # from + n - 1}
<1>3. SUFFICES ASSUME wrong # {} PROVE FALSE
  OBVIOUS
<1>4. PICK n \in wrong : \A k \in wrong : n <= k
  <2>1. wrong \in SUBSET Nat
    BY <1>1
  <2> QED BY <1>3, <2>1, FirstOf
<1>5. /\ n \in 1 .. Len(rows) /\ rows[n].id \in Nat /\ rows[n].id # from + n - 1
      /\ rows[n].id - from + 1 = Len(DigestBefore(rows, n)) + 1
  BY <1>2 DEF Row
<1>6. CASE n = 1
  <2>1. Len(DigestBefore(rows, n)) = 0
    BY <1>6, EmptySeq DEF DigestBefore
  <2> QED BY <1>5, <1>6, <2>1
<1>7. CASE n # 1
  <2>1. n - 1 \in 1 .. Len(rows) /\ n - 1 \notin wrong
    BY SMTT(40), <1>1, <1>4, <1>5, <1>7
  <2>2. rows[n - 1].id = from + (n - 1) - 1
    BY <2>1
  <2>3. DigestBefore(rows, n) = rows[n - 1].hash
    BY <1>7 DEF DigestBefore
  <2>4. Len(rows[n - 1].hash) = rows[n - 1].id - from + 1
    BY <1>2, <2>1
  <2> QED BY SMTT(40), <1>1, <1>5, <2>2, <2>3, <2>4
<1> QED BY <1>6, <1>7

\* Of growing numbers, as many fit as there is room for.
LEMMA GapsShow ==
    ASSUME NEW rows \in Seq(Row), NEW from \in Nat, NEW again, Chained(rows, from, again),
           NEW n \in 1 .. Len(rows)
    PROVE  rows[n].id >= from + n - 1
<1>1. Len(rows) \in Nat /\ \A m \in 1 .. Len(rows) : rows[m].id \in Nat
  <2>1. \A m \in 1 .. Len(rows) : rows[m] \in Row
    BY ElementOfSeq
  <2> QED BY <2>1, LenProperties DEF Row
<1> DEFINE wrong == {m \in 1 .. Len(rows) : ~ (rows[m].id >= from + m - 1)}
<1>2. SUFFICES ASSUME wrong # {} PROVE FALSE
  OBVIOUS
<1>3. PICK m \in wrong : \A k \in wrong : m <= k
  <2>1. wrong \in SUBSET Nat
    BY <1>1
  <2> QED BY <1>2, <2>1, FirstOf
<1>4. m # 1
  BY <1>1, <1>3 DEF Chained
<1>5. m - 1 \in 1 .. Len(rows) /\ m - 1 \notin wrong
  BY <1>1, <1>3, <1>4
<1>6. rows[m - 1].id < rows[m].id
  BY <1>1, <1>3, <1>5 DEF Chained
<1> QED BY <1>1, <1>3, <1>5, <1>6

-----------------------------------------------------------------------------
(* Appending *)

\* The rows of a batch: each holds the next id and seals it to the row in front.
LEMMA SealedRows ==
    ASSUME TypeOK, NEW size \in Nat, lastId + size <= MaxEvents
    PROVE  /\ Sealed(size) \in Seq(Row)
           /\ Len(Sealed(size)) = size
           /\ \A n \in 1 .. size :
                 LET row == Sealed(size)[n]
                 IN  /\ row.id = lastId + n /\ row.content = lastId + n
                     /\ row.prev = IF n = 1 THEN DigestOf(log) ELSE Sealed(size)[n - 1].hash
                     /\ row.hash = Hash(row.prev, lastId + n)
                     /\ Len(row.hash) = Len(DigestOf(log)) + n
<1> DEFINE start == DigestOf(log)
           IsDigest(d) == d = [n \in 0 .. size |->
                                  IF n = 0 THEN start ELSE Hash(d[n - 1], lastId + n)]
           digest == CHOOSE d : IsDigest(d)
           closed == [n \in 0 .. size |->
                         [k \in 1 .. Len(start) + n |->
                             IF k <= Len(start) THEN start[k] ELSE lastId + k - Len(start)]]
           row(n) == [id |-> lastId + n, content |-> lastId + n,
                      prev |-> digest[n - 1], hash |-> digest[n]]
<1>1. lastId \in Nat /\ MaxEvents \in Nat /\ log \in Seq(Row) /\ Len(log) \in Nat
  BY MaxBatchAssumption, LenProperties DEF TypeOK
<1>2. start \in Digests /\ Len(start) \in Nat /\ start \in Seq(Contents)
  BY <1>1, DigestType, LenProperties DEF DigestOf, Digests
<1>3. \A n \in 1 .. size : lastId + n \in Contents /\ lastId + n \in 1 .. MaxEvents
  BY <1>1 DEF Contents
<1>4. Sealed(size) = [n \in 1 .. size |-> row(n)]
  BY DEF Sealed
<1> HIDE DEF start, digest
<1>5. IsDigest(closed)
  <2>1. \A n \in 0 .. size : closed[n] \in Seq(Contents) /\ Len(closed[n]) = Len(start) + n
    <3> TAKE n \in 0 .. size
    <3>1. \A k \in 1 .. Len(start) + n :
             (IF k <= Len(start) THEN start[k] ELSE lastId + k - Len(start)) \in Contents
      <4> TAKE k \in 1 .. Len(start) + n
      <4>1. CASE k <= Len(start)
        BY <4>1, <1>2, ElementOfSeq
      <4>2. CASE ~ (k <= Len(start))
        <5>1. k - Len(start) \in 1 .. size
          BY <4>2, <1>2
        <5> QED BY <5>1, <4>2, <1>1, <1>2, <1>3
      <4> QED BY <4>1, <4>2
    <3> QED BY <3>1, <1>2
  <2>2. closed[0] = start
    <3>1. closed[0] \in Seq(Contents) /\ Len(closed[0]) = Len(start)
      BY <2>1, <1>2
    <3>2. \A k \in 1 .. Len(start) : closed[0][k] = start[k]
      BY <1>2
    <3> QED BY <3>1, <3>2, <1>2, SeqEqual
  <2>3. \A n \in 1 .. size : closed[n] = Hash(closed[n - 1], lastId + n)
    <3> TAKE n \in 1 .. size
    <3>1. n \in 0 .. size /\ n - 1 \in 0 .. size
      OBVIOUS
    <3> DEFINE before == closed[n - 1]
               after == Hash(before, lastId + n)
    <3>2. before \in Seq(Contents) /\ Len(before) = Len(start) + n - 1
      BY <2>1, <3>1, <1>2
    <3>3. \A k \in 1 .. Len(start) + n - 1 : closed[n][k] = before[k]
      BY <3>1, <1>2
    <3>4. closed[n][Len(start) + n] = lastId + n
      BY <3>1, <1>1, <1>2
    <3> HIDE DEF before
    <3>5. /\ after \in Seq(Contents) /\ Len(after) = Len(before) + 1
          /\ \A k \in 1 .. Len(before) : after[k] = before[k]
          /\ after[Len(before) + 1] = lastId + n
      BY <3>2, <1>3, AppendProperties DEF Hash
    <3>6. closed[n] \in Seq(Contents) /\ Len(closed[n]) = Len(start) + n
      BY <2>1, <3>1
    <3> HIDE DEF after, closed
    <3>7. Len(closed[n]) = Len(after)
      BY <3>2, <3>5, <3>6, <1>2
    <3>8. ASSUME NEW k \in 1 .. Len(closed[n]) PROVE closed[n][k] = after[k]
      <4>1. k \in 1 .. Len(start) + n - 1 \/ k = Len(start) + n
        BY <3>6, <1>2
      <4>2. CASE k \in 1 .. Len(start) + n - 1
        BY <4>2, <3>2, <3>3, <3>5
      <4>3. CASE k = Len(start) + n
        <5>1. k = Len(before) + 1
          BY <4>3, <3>2, <1>2
        <5> QED BY <4>3, <5>1, <3>4, <3>5
      <4> QED BY <4>1, <4>2, <4>3
    <3>9. closed[n] = after
      BY <3>5, <3>6, <3>7, <3>8, SeqEqual
    <3> QED BY <3>9 DEF after, before
  <2> HIDE DEF closed
  <2>4. \A n \in 0 .. size : closed[n] = IF n = 0 THEN start ELSE Hash(closed[n - 1], lastId + n)
    BY <2>2, <2>3
  <2> QED BY <2>4 DEF closed
<1> HIDE DEF closed
<1>6. digest = [n \in 0 .. size |-> IF n = 0 THEN start ELSE Hash(digest[n - 1], lastId + n)]
  BY <1>5 DEF digest
<1>7. digest[0] = start /\ \A n \in 1 .. size : digest[n] = Hash(digest[n - 1], lastId + n)
  BY <1>6
<1>8. \A n \in 0 .. size : digest[n] \in Digests /\ Len(digest[n]) = Len(start) + n
  <2> DEFINE wrong == {n \in 0 .. size : ~ (digest[n] \in Digests
                                            /\ Len(digest[n]) = Len(start) + n)}
  <2>1. SUFFICES ASSUME wrong # {} PROVE FALSE
    OBVIOUS
  <2>2. PICK n \in wrong : \A k \in wrong : n <= k
    <3>1. wrong \in SUBSET Nat
      OBVIOUS
    <3> QED BY <2>1, <3>1, FirstOf
  <2>3. n # 0
    BY <2>2, <1>2, <1>7
  <2>4. n \in 1 .. size /\ n - 1 \in 0 .. size /\ n - 1 \notin wrong
    BY <2>2, <2>3
  <2>5. digest[n - 1] \in Digests /\ Len(digest[n - 1]) = Len(start) + n - 1
    BY <2>4, <1>2
  <2>6. digest[n] \in Digests /\ Len(digest[n]) = Len(digest[n - 1]) + 1
    BY <2>4, <2>5, <1>3, <1>7, HashAdds
  <2> QED BY <2>2, <2>4, <2>5, <2>6, <1>2
<1>9. \A n \in 1 .. size : row(n) \in Row
  <2> TAKE n \in 1 .. size
  <2>1. n - 1 \in 0 .. size /\ n \in 0 .. size
    OBVIOUS
  <2>2. digest[n - 1] \in Digests /\ digest[n] \in Digests
    BY <2>1, <1>8
  <2> QED BY <2>2, <1>3 DEF Row
<1>10. Sealed(size) \in Seq(Row) /\ Len(Sealed(size)) = size
  BY <1>4, <1>9
<1>11. ASSUME NEW n \in 1 .. size
       PROVE  LET row_n == Sealed(size)[n]
              IN  /\ row_n.id = lastId + n /\ row_n.content = lastId + n
                  /\ row_n.prev = IF n = 1 THEN start ELSE Sealed(size)[n - 1].hash
                  /\ row_n.hash = Hash(row_n.prev, lastId + n)
                  /\ Len(row_n.hash) = Len(start) + n
  <2>1. Sealed(size)[n] = row(n)
    BY <1>4
  <2>2. n # 1 => Sealed(size)[n - 1] = row(n - 1)
    BY <1>4
  <2>3. /\ digest[n] = Hash(digest[n - 1], lastId + n)
        /\ Len(digest[n]) = Len(start) + n
        /\ n = 1 => digest[n - 1] = start
    BY <1>7, <1>8
  <2> QED BY <2>1, <2>2, <2>3
<1> QED BY <1>10, <1>11 DEF start

\* An append keeps what the log and the anchor are known to satisfy.
LEMMA AppendKeeps ==
    ASSUME IInv, NEW size \in 1 .. MaxBatch, AppendEvents(size)
    PROVE  LogInv' /\ AnchorInv' /\ log' \in Seq(Row)
           /\ head' \in Anchor
<1> DEFINE new == Sealed(size)
           rows == log \o new
<1>1. /\ log \in Seq(Row) /\ Len(log) \in Nat /\ lastId \in Nat /\ wipedTo \in Nat
      /\ wipedTo <= lastId /\ MaxEvents \in Nat /\ size \in Nat \ {0}
      /\ lastId + size <= MaxEvents /\ resealed \in BOOLEAN
  BY MaxBatchAssumption, LenProperties DEF IInv, TypeOK, AppendEvents
<1>2. /\ log' = rows /\ lastId' = lastId + size /\ wipedTo' = wipedTo
      /\ head' = [count |-> Len(rows), hash |-> DigestOf(rows)]
      /\ ~ resealed' => ~ resealed /\ ~ LastRowLost
  BY DEF AppendEvents, UpdateHead
<1>3. /\ new \in Seq(Row) /\ Len(new) = size
      /\ \A n \in 1 .. size :
            /\ new[n].id = lastId + n /\ new[n].content = lastId + n
            /\ new[n].prev = IF n = 1 THEN DigestOf(log) ELSE new[n - 1].hash
            /\ new[n].hash = Hash(new[n].prev, lastId + n)
            /\ Len(new[n].hash) = Len(DigestOf(log)) + n
  <2>1. size \in Nat
    BY <1>1
  <2> QED BY <1>1, <2>1, SealedRows DEF IInv
<1> HIDE DEF new
<1>4. /\ rows \in Seq(Row) /\ Len(rows) = Len(log) + size
      /\ \A n \in 1 .. Len(rows) :
            rows[n] = IF n <= Len(log) THEN log[n] ELSE new[n - Len(log)]
  <2>1. /\ log \o new \in Seq(Row) /\ Len(log \o new) = Len(log) + Len(new)
        /\ \A n \in 1 .. Len(log) + Len(new) : (log \o new)[n] =
              IF n <= Len(log) THEN log[n] ELSE new[n - Len(log)]
    <3>1. log \in Seq(Row) /\ new \in Seq(Row)
      BY <1>1, <1>3
    <3> QED BY <3>1, ConcatProperties
  <2> QED BY <2>1, <1>3
<1> HIDE DEF rows
<1>5. /\ \A n \in 1 .. Len(log) : rows[n] = log[n]
      /\ \A n \in 1 .. size : rows[Len(log) + n] = new[n]
  <2>1. \A n \in 1 .. size : /\ Len(log) + n \in 1 .. Len(rows) /\ ~ (Len(log) + n <= Len(log))
                             /\ (Len(log) + n) - Len(log) = n
    BY <1>1, <1>4
  <2> QED BY <1>1, <1>4, <2>1
<1>6. \A n \in 1 .. Len(log) : /\ log[n].id >= wipedTo + 1 /\ log[n].id <= lastId
                               /\ log[n].id \in Nat
  <2>1. \A n \in 1 .. Len(log) : log[n] \in Row
    BY <1>1, ElementOfSeq
  <2> QED BY <2>1 DEF IInv, LogInv, Chained, Row
\* If the last row is there, the batch goes on where the log left off.
<1>7. ~ LastRowLost /\ ~ resealed => Len(DigestOf(log)) = lastId - wipedTo
  <2> SUFFICES ASSUME ~ LastRowLost, ~ resealed PROVE Len(DigestOf(log)) = lastId - wipedTo
    OBVIOUS
  <2>1. CASE log = <<>>
    <3>1. DigestOf(log) = <<>> /\ lastId = wipedTo
      BY <2>1, <1>1 DEF LastRowLost, DigestOf, DigestBefore
    <3> QED BY <3>1, <1>1
  <2>2. CASE log # <<>>
    <3>1. Len(log) \in 1 .. Len(log)
      BY <2>2, <1>1, EmptySeq
    <3>2. log[Len(log)].id = lastId
      BY <2>2, <3>1, <1>1, <1>6 DEF LastRowLost
    <3>3. DigestOf(log) = log[Len(log)].hash
      BY <3>1, <1>1 DEF DigestOf, DigestBefore
    <3>4. Len(log[Len(log)].hash) = log[Len(log)].id - (wipedTo + 1) + 1
      BY <3>1 DEF IInv, LogInv, Chained
    <3> QED BY <3>2, <3>3, <3>4, <1>1
  <2> QED BY <2>1, <2>2
\* Every row of the new log is one of the old ones or one of the batch.
<1>8. ASSUME NEW n \in 1 .. Len(rows)
      PROVE  \/ n \in 1 .. Len(log)
             \/ \E k \in 1 .. size : n = Len(log) + k
  <2>1. n - Len(log) \in 1 .. size \/ n \in 1 .. Len(log)
    BY <1>1, <1>4
  <2>2. n = Len(log) + (n - Len(log))
    BY <1>1
  <2> QED BY <2>1, <2>2
<1>9. ASSUME NEW n \in 1 .. Len(rows)
      PROVE  /\ rows[n].id >= wipedTo + 1
             /\ rows[n].id <= lastId + size
             /\ rows[n].content \in {rows[n].id, Altered}
             /\ rows[n].hash = Hash(rows[n].prev, rows[n].id)
             /\ InPlace(rows, wipedTo + 1, n) => rows[n].prev = DigestBefore(rows, n)
             /\ ~ resealed' => Len(rows[n].hash) = rows[n].id - (wipedTo + 1) + 1
  <2>1. CASE n \in 1 .. Len(log)
    <3>1. rows[n] = log[n] /\ (n # 1 => rows[n - 1] = log[n - 1])
      BY <2>1, <1>1, <1>5
    <3>2. /\ InPlace(rows, wipedTo + 1, n) <=> InPlace(log, wipedTo + 1, n)
          /\ DigestBefore(rows, n) = DigestBefore(log, n)
      BY <3>1 DEF InPlace, DigestBefore
    <3>3. /\ log[n].content \in {log[n].id, Altered}
          /\ log[n].hash = Hash(log[n].prev, log[n].id)
          /\ InPlace(log, wipedTo + 1, n) => log[n].prev = DigestBefore(log, n)
          /\ ~ resealed => Len(log[n].hash) = log[n].id - (wipedTo + 1) + 1
      BY <2>1 DEF IInv, LogInv, Chained
    <3>4. log[n].id >= wipedTo + 1 /\ log[n].id <= lastId + size
      BY <2>1, <1>1, <1>6
    <3> QED BY <3>1, <3>2, <3>3, <3>4, <1>2
  <2>2. ASSUME NEW k \in 1 .. size, n = Len(log) + k
        PROVE  /\ rows[n].id >= wipedTo + 1
               /\ rows[n].id <= lastId + size
               /\ rows[n].content \in {rows[n].id, Altered}
               /\ rows[n].hash = Hash(rows[n].prev, rows[n].id)
               /\ InPlace(rows, wipedTo + 1, n) => rows[n].prev = DigestBefore(rows, n)
               /\ ~ resealed' => Len(rows[n].hash) = rows[n].id - (wipedTo + 1) + 1
    <3>1. rows[n] = new[k]
      BY <2>2, <1>5
    <3>2. rows[n].prev = DigestBefore(rows, n)
      <4>1. CASE k # 1
        <5>1. k - 1 \in 1 .. size /\ n - 1 = Len(log) + (k - 1) /\ n # 1
          BY <4>1, <2>2, <1>1
        <5>2. rows[n - 1] = new[k - 1]
          BY <5>1, <1>5
        <5> QED BY SMTT(40), <3>1, <4>1, <5>1, <5>2, <1>3 DEF DigestBefore
      <4>2. CASE k = 1 /\ Len(log) = 0
        <5>1. n = 1 /\ DigestOf(log) = <<>>
          BY <4>2, <2>2 DEF DigestOf, DigestBefore
        <5> QED BY <3>1, <4>2, <5>1, <1>3 DEF DigestBefore
      <4>3. CASE k = 1 /\ Len(log) # 0
        <5>1. n # 1 /\ n - 1 = Len(log) /\ Len(log) \in 1 .. Len(log) /\ Len(log) + 1 # 1
              /\ Len(log) + 1 - 1 = Len(log)
          BY <4>3, <2>2, <1>1
        <5>2. rows[n - 1] = log[Len(log)]
          BY <5>1, <1>5
        <5>3. DigestOf(log) = log[Len(log)].hash
          BY <5>1 DEF DigestOf, DigestBefore
        <5> QED BY <3>1, <4>3, <5>1, <5>2, <5>3, <1>3 DEF DigestBefore
      <4> QED BY <4>1, <4>2, <4>3
    <3>3. rows[n].id = lastId + k /\ rows[n].content = lastId + k
          /\ rows[n].hash = Hash(rows[n].prev, lastId + k)
          /\ Len(rows[n].hash) = Len(DigestOf(log)) + k
      BY <3>1, <1>3
    <3>4. ~ resealed' => Len(rows[n].hash) = lastId + k - (wipedTo + 1) + 1
      <4> SUFFICES ASSUME ~ resealed'
                   PROVE  Len(rows[n].hash) = lastId + k - (wipedTo + 1) + 1
        OBVIOUS
      <4>1. Len(DigestOf(log)) = lastId - wipedTo
        BY <1>2, <1>7
      <4>2. Len(rows[n].hash) = lastId - wipedTo + k /\ k \in Nat
        BY <3>3, <4>1, <1>1
      <4> QED BY <4>2, <1>1
    <3> QED BY <3>2, <3>3, <3>4, <1>1
  <2> QED BY <2>1, <2>2, <1>8
<1>10. ASSUME NEW m \in 1 .. Len(rows), NEW n \in 1 .. Len(rows), m < n
       PROVE  rows[m].id < rows[n].id
  <2>1. CASE n \in 1 .. Len(log)
    <3>1. m \in 1 .. Len(log)
      BY <2>1, <1>10, <1>1
    <3>2. log[m].id < log[n].id
      BY <2>1, <3>1, <1>10 DEF IInv, LogInv, Chained
    <3> QED BY <2>1, <3>1, <3>2, <1>5
  <2>2. ASSUME NEW k \in 1 .. size, n = Len(log) + k PROVE rows[m].id < rows[n].id
    <3>1. rows[n].id = lastId + k
      BY <2>2, <1>3, <1>5
    <3>2. CASE m \in 1 .. Len(log)
      <4>1. rows[m] = log[m] /\ log[m].id \in Nat /\ log[m].id <= lastId
        BY <3>2, <1>5, <1>6
      <4> QED BY <3>1, <4>1, <1>1
    <3>3. ASSUME NEW j \in 1 .. size, m = Len(log) + j PROVE rows[m].id < rows[n].id
      <4>1. rows[m].id = lastId + j /\ j < k
        <5>1. rows[m].id = lastId + j
          BY <3>3, <1>3, <1>5
        <5>2. j < k
          BY <2>2, <3>3, <1>1, <1>10
        <5> QED BY <5>1, <5>2
      <4> QED BY <3>1, <4>1, <1>1
    <3> QED BY <3>2, <3>3, <1>8
  <2> QED BY <2>1, <2>2, <1>8
<1>11. Len(rows) <= lastId + size - wipedTo
  BY <1>1, <1>4 DEF IInv, LogInv
<1>12. LogInv'
  <2>1. Chained(rows, wipedTo + 1, resealed')
    BY <1>9, <1>10 DEF Chained
  <2>2. Chained(log, wipedTo + 1, resealed)'
    BY <2>1, <1>2 DEF Chained, InPlace, DigestBefore, Hash
  <2>3. /\ \A n \in 1 .. Len(log') : log'[n].id <= lastId'
        /\ Len(log') <= lastId' - wipedTo'
    <3>1. \A n \in 1 .. Len(rows) : rows[n].id <= lastId + size
      BY <1>9
    <3>2. log' = rows /\ lastId' = lastId + size /\ wipedTo' = wipedTo
      BY <1>2
    <3>3. Len(log') <= lastId' - wipedTo'
      BY <3>2, <1>1, <1>4, <1>11
    <3>4. \A n \in 1 .. Len(log') : log'[n].id <= lastId'
      BY <3>1, <3>2
    <3> QED BY <3>3, <3>4
  <2> QED BY <2>2, <2>3 DEF LogInv
<1>13. /\ Len(rows) \in 1 .. Len(rows) /\ rows # <<>>
       /\ DigestOf(rows) = rows[Len(rows)].hash
       /\ rows[Len(rows)].id = lastId + size
       /\ rows[Len(rows)].hash = Hash(rows[Len(rows)].prev, lastId + size)
  <2>1. Len(rows) = Len(log) + size /\ size \in 1 .. size /\ Len(rows) \in 1 .. Len(rows)
        /\ Len(rows) + 1 # 1 /\ Len(rows) + 1 - 1 = Len(rows)
    BY <1>1, <1>4
  <2>2. rows[Len(rows)] = new[size]
    BY <2>1, <1>5
  <2>3. rows # <<>>
    BY <2>1, EmptySeq
  <2> QED BY <2>1, <2>2, <2>3, <1>3 DEF DigestOf, DigestBefore
<1>14. /\ DigestOf(rows) \in Digests /\ DigestOf(rows) # <<>>
       /\ DigestOf(rows)[Len(DigestOf(rows))] = lastId + size
  <2>1. rows[Len(rows)] \in Row
    BY <1>4, <1>13, ElementOfSeq
  <2>2. rows[Len(rows)].prev \in Digests /\ lastId + size \in Contents
    BY <2>1, <1>1 DEF Row, Contents
  <2> QED BY <2>2, <1>13, HashAdds
<1>15. head' # NoHead /\ head'.count = Len(rows) /\ head'.hash = DigestOf(rows)
       /\ head' \in Anchor
  <2>1. Len(rows) \in 0 .. MaxEvents
    BY <1>1, <1>4, <1>11
  <2>2. head' \in Anchor
    BY <2>1, <1>2, <1>14 DEF Anchor
  <2> QED BY <2>2, <1>2, NoHeadAssumption
<1>16. AnchorInv'
  BY <1>1, <1>2, <1>4, <1>11, <1>13, <1>14, <1>15 DEF AnchorInv
<1> QED BY <1>2, <1>4, <1>12, <1>15, <1>16

-----------------------------------------------------------------------------
(* Wiping and damage *)

\* Nothing that happens to the log itself concerns a verdict already given, and a
\* verification under way only minds that ids go on growing and who moves the anchor.
LEMMA OthersKeepVerifier ==
    ASSUME IInv, verifier' = verifier, lastId' = lastId, head' = head
    PROVE  ReadingInv' /\ OkMeansIntact' /\ FirstBadIsBad' /\ NoFalseAlarmUnlessRaced'
  BY ZenonT(40) DEF IInv, ReadingInv, OkMeansIntact, FirstBadIsBad, NoFalseAlarmUnlessRaced, Chained,
         InPlace, DigestOf, DigestBefore, Hash, Linked

LEMMA WipeKeepsIInv == ASSUME IInv, Wipe PROVE IInv'
<1>1. /\ log' = <<>> /\ wipedTo' = lastId /\ resealed' = FALSE
      /\ lastId' = lastId /\ head' = head /\ verifier' = verifier
  BY DEF Wipe
<1>2. lastId \in 0 .. MaxEvents
  BY DEF IInv, TypeOK
<1>3. lastId \in 0 .. lastId /\ lastId - lastId = 0
  BY <1>2
<1>4. TypeOK'
  BY <1>1, <1>3, EmptySeq DEF IInv, TypeOK
<1>5. LogInv'
  BY <1>1, <1>3 DEF LogInv, Chained
<1>6. AnchorInv'
  BY <1>1 DEF IInv, AnchorInv
<1> QED BY <1>1, <1>4, <1>5, <1>6, OthersKeepVerifier DEF IInv

LEMMA EditKeepsIInv == ASSUME IInv, EditRow PROVE IInv'
<1>1. PICK k \in 1 .. Len(log) : log' = [log EXCEPT ![k].content = Altered]
  BY DEF EditRow
<1>2. UNCHANGED <<lastId, head, verifier, wipedTo, resealed>>
  BY DEF EditRow
<1> DEFINE edited == [log[k] EXCEPT !.content = Altered]
<1>3. log \in Seq(Row) /\ Len(log) \in Nat /\ log[k] \in Row
  BY LenProperties, ElementOfSeq DEF IInv, TypeOK
<1>4. /\ edited \in Row
      /\ edited.content = Altered /\ edited.id = log[k].id /\ edited.prev = log[k].prev
      /\ edited.hash = log[k].hash
  BY <1>3 DEF Row, Contents
<1>5. log' = [log EXCEPT ![k] = edited]
  BY <1>1
<1> HIDE DEF edited
<1>6. /\ log' \in Seq(Row) /\ Len(log') = Len(log)
      /\ \A n \in 1 .. Len(log) : log'[n] = IF n = k THEN edited ELSE log[n]
  BY <1>3, <1>4, <1>5, ExceptSeq
<1>7. \A n \in 1 .. Len(log) : /\ log'[n].id = log[n].id /\ log'[n].prev = log[n].prev
                               /\ log'[n].hash = log[n].hash
                               /\ log'[n].content \in {log[n].content, Altered}
  BY <1>4, <1>6
<1>8. \A n \in 1 .. Len(log) + 1 : DigestBefore(log', n) = DigestBefore(log, n)
  <2> TAKE n \in 1 .. Len(log) + 1
  <2>1. n = 1 \/ n - 1 \in 1 .. Len(log)
    BY <1>3
  <2> QED BY <2>1, <1>7 DEF DigestBefore
<1>9. \A n \in 1 .. Len(log) : InPlace(log', wipedTo + 1, n) <=> InPlace(log, wipedTo + 1, n)
  <2> TAKE n \in 1 .. Len(log)
  <2>1. n = 1 \/ n - 1 \in 1 .. Len(log)
    BY <1>3
  <2> QED BY <2>1, <1>7 DEF InPlace
<1>10. Chained(log', wipedTo + 1, resealed)
  <2>1. Chained(log, wipedTo + 1, resealed)
    BY DEF IInv, LogInv
  <2>2. ASSUME NEW n \in 1 .. Len(log)
        PROVE  /\ log'[n].id >= wipedTo + 1
               /\ log'[n].content \in {log'[n].id, Altered}
               /\ log'[n].hash = Hash(log'[n].prev, log'[n].id)
               /\ InPlace(log', wipedTo + 1, n) => log'[n].prev = DigestBefore(log', n)
               /\ ~ resealed => Len(log'[n].hash) = log'[n].id - (wipedTo + 1) + 1
    <3>1. n \in 1 .. Len(log) + 1
      BY <1>3
    <3>2. DigestBefore(log', n) = DigestBefore(log, n)
      BY <3>1, <1>8
    <3>3. /\ log[n].id >= wipedTo + 1
          /\ log[n].content \in {log[n].id, Altered}
          /\ log[n].hash = Hash(log[n].prev, log[n].id)
          /\ InPlace(log, wipedTo + 1, n) => log[n].prev = DigestBefore(log, n)
          /\ ~ resealed => Len(log[n].hash) = log[n].id - (wipedTo + 1) + 1
      BY <2>1 DEF Chained
    <3> QED BY <3>2, <3>3, <1>7, <1>9
  <2>3. \A m, n \in 1 .. Len(log) : m < n => log'[m].id < log'[n].id
    BY <2>1, <1>7 DEF Chained
  <2> QED BY <2>2, <2>3, <1>6 DEF Chained
<1>11. LogInv'
  <2>1. Chained(log, wipedTo + 1, resealed)'
    BY <1>2, <1>10 DEF Chained, InPlace, DigestBefore, Hash
  <2>2. /\ \A n \in 1 .. Len(log) : log'[n].id <= lastId
        /\ Len(log) <= lastId - wipedTo
    BY <1>7 DEF IInv, LogInv
  <2> QED BY <2>1, <2>2, <1>2, <1>6 DEF LogInv
<1>12. AnchorInv'
  <2>1. log # <<>> /\ Len(log) \in 1 .. Len(log)
    BY <1>3, EmptySeq
  <2>2. log'[Len(log)].id = log[Len(log)].id /\ log'[Len(log)].hash = log[Len(log)].hash
    BY <2>1, <1>7
  <2> QED BY <2>1, <2>2, <1>2, <1>6 DEF IInv, AnchorInv
<1>13. TypeOK'
  BY <1>2, <1>6 DEF IInv, TypeOK
<1> QED BY <1>2, <1>11, <1>12, <1>13, OthersKeepVerifier DEF IInv

LEMMA RemoveKeepsIInv == ASSUME IInv, RemoveRow PROVE IInv'
<1>1. PICK k \in 1 .. Len(log) : log' = SubSeq(log, 1, k - 1) \o SubSeq(log, k + 1, Len(log))
  BY DEF RemoveRow
<1>2. UNCHANGED <<lastId, head, verifier, wipedTo, resealed>>
  BY DEF RemoveRow
<1> DEFINE N == Len(log)
           front == SubSeq(log, 1, k - 1)
           back == SubSeq(log, k + 1, N)
<1>3. log \in Seq(Row) /\ N \in Nat /\ k \in 1 .. N /\ \A n \in 1 .. N : log[n] \in Row
  BY LenProperties, ElementOfSeq DEF IInv, TypeOK
<1>4. /\ front \in Seq(Row) /\ Len(front) = k - 1
      /\ \A n \in 1 .. k - 1 : front[n] = log[n]
  <2>1. \A n \in 1 .. k - 1 : log[n] \in Row
    BY <1>3
  <2>2. 1 \in Int /\ k - 1 \in Int
    BY <1>3
  <2>3. /\ front \in Seq(Row) /\ Len(front) = IF 1 <= k - 1 THEN (k - 1) - 1 + 1 ELSE 0
        /\ \A n \in 1 .. (k - 1) - 1 + 1 : front[n] = log[1 + n - 1]
    BY <2>1, <2>2, SubSeqProperties
  <2> QED BY <2>3, <1>3
<1>5. /\ back \in Seq(Row) /\ Len(back) = N - k
      /\ \A n \in 1 .. N - k : back[n] = log[k + n]
  <2>1. \A n \in k + 1 .. N : log[n] \in Row
    BY <1>3
  <2>2. k + 1 \in Int /\ N \in Int
    BY <1>3
  <2>3. /\ back \in Seq(Row) /\ Len(back) = IF k + 1 <= N THEN N - (k + 1) + 1 ELSE 0
        /\ \A n \in 1 .. N - (k + 1) + 1 : back[n] = log[(k + 1) + n - 1]
    BY <2>1, <2>2, SubSeqProperties
  <2>4. \A n \in 1 .. N - k : n \in 1 .. N - (k + 1) + 1 /\ (k + 1) + n - 1 = k + n
    BY <1>3
  <2> QED BY <2>3, <2>4, <1>3
<1> DEFINE rest == front \o back
<1>6. log' = rest
  BY <1>1
<1> HIDE DEF front, back
\* The rows in front of the removed one stay where they are, the others move up.
<1>7. /\ rest \in Seq(Row) /\ Len(rest) = N - 1
      /\ \A n \in 1 .. N - 1 : rest[n] = IF n < k THEN log[n] ELSE log[n + 1]
  <2>1. /\ rest \in Seq(Row) /\ Len(rest) = Len(front) + Len(back)
        /\ \A n \in 1 .. Len(front) + Len(back) :
              rest[n] = IF n <= Len(front) THEN front[n] ELSE back[n - Len(front)]
    BY <1>4, <1>5, ConcatProperties
  <2> HIDE DEF rest
  <2>2. ASSUME NEW n \in 1 .. N - 1 PROVE rest[n] = IF n < k THEN log[n] ELSE log[n + 1]
    <3>1. rest[n] = IF n <= k - 1 THEN front[n] ELSE back[n - (k - 1)]
      BY <2>1, <1>3, <1>4, <1>5
    <3>2. CASE n < k
      BY <3>1, <3>2, <1>3, <1>4
    <3>3. CASE ~ (n < k)
      <4>1. n - (k - 1) \in 1 .. N - k /\ k + (n - (k - 1)) = n + 1 /\ ~ (n <= k - 1)
        BY <3>3, <1>3
      <4> QED BY <3>1, <3>3, <4>1, <1>5
    <3> QED BY <3>2, <3>3
  <2> QED BY <2>1, <2>2, <1>3, <1>4, <1>5
<1> HIDE DEF rest
<1> DEFINE moved(n) == IF n < k THEN n ELSE n + 1
<1>8. /\ \A n \in 1 .. N - 1 : moved(n) \in 1 .. N /\ rest[n] = log[moved(n)]
      /\ \A m, n \in 1 .. N - 1 : m < n => moved(m) < moved(n)
  BY <1>3, <1>7
<1>9. /\ \A n \in 1 .. N :
            /\ log[n].id >= wipedTo + 1 /\ log[n].id <= lastId /\ log[n].id \in Nat
            /\ log[n].content \in {log[n].id, Altered}
            /\ log[n].hash = Hash(log[n].prev, log[n].id)
            /\ InPlace(log, wipedTo + 1, n) => log[n].prev = DigestBefore(log, n)
            /\ ~ resealed => Len(log[n].hash) = log[n].id - (wipedTo + 1) + 1
      /\ \A m, n \in 1 .. N : m < n => log[m].id < log[n].id
      /\ wipedTo \in Nat /\ lastId \in Nat /\ N <= lastId - wipedTo
  <2>1. \A n \in 1 .. N : log[n].id \in Nat
    BY <1>3 DEF Row
  <2>2. wipedTo \in Nat /\ lastId \in Nat
    BY DEF IInv, TypeOK
  <2> QED BY <2>1, <2>2 DEF IInv, LogInv, Chained
<1>10. Chained(rest, wipedTo + 1, resealed)
  <2>1. ASSUME NEW n \in 1 .. N - 1, InPlace(rest, wipedTo + 1, n)
        PROVE  rest[n].prev = DigestBefore(rest, n)
    <3>1. CASE n < k
      <4>1. n \in 1 .. N /\ rest[n] = log[n] /\ (n # 1 => rest[n - 1] = log[n - 1])
        <5>1. n # 1 => n - 1 \in 1 .. N - 1 /\ n - 1 < k
          BY <3>1, <1>3
        <5> QED BY <3>1, <5>1, <1>3, <1>7
      <4> QED BY <2>1, <4>1, <1>9 DEF InPlace, DigestBefore
    <3>2. CASE n = k
      <4>1. k + 1 \in 1 .. N /\ k + 1 # k /\ rest[n] = log[k + 1] /\ k < k + 1
        BY <3>2, <1>3, <1>7
      <4>2. log[k].id < log[k + 1].id /\ log[k].id >= wipedTo + 1
            /\ log[k].id \in Nat /\ log[k + 1].id \in Nat
        BY <4>1, <1>3, <1>9
      <4>3. CASE k = 1
        BY <2>1, <3>2, <4>1, <4>2, <4>3, <1>9 DEF InPlace
      <4>4. CASE k # 1
        <5>1. k - 1 \in 1 .. N - 1 /\ k - 1 \in 1 .. N /\ k - 1 < k
          BY <4>4, <1>3
        <5>2. rest[k - 1] = log[k - 1] /\ log[k - 1].id < log[k].id /\ log[k - 1].id \in Nat
          BY <5>1, <1>3, <1>7, <1>9
        <5>3. log[k + 1].id = log[k - 1].id + 1
          BY <2>1, <3>2, <4>1, <4>4, <5>2 DEF InPlace
        <5> QED BY <4>2, <5>2, <5>3
      <4> QED BY <4>3, <4>4
    <3>3. CASE n > k
      <4>1. /\ n # 1 /\ n + 1 # 1 /\ (n + 1) - 1 = n /\ n + 1 \in 1 .. N
            /\ n - 1 \in 1 .. N - 1 /\ ~ (n - 1 < k) /\ ~ (n < k) /\ (n - 1) + 1 = n
        BY <3>3, <1>3
      <4>2. rest[n] = log[n + 1] /\ rest[n - 1] = log[n]
        BY <4>1, <1>7
      <4>3. InPlace(log, wipedTo + 1, n + 1)
        BY <2>1, <4>1, <4>2 DEF InPlace
      <4>4. log[n + 1].prev = DigestBefore(log, n + 1)
        BY <4>1, <4>3, <1>9
      <4> QED BY <4>1, <4>2, <4>4 DEF DigestBefore
    <3> QED BY <3>1, <3>2, <3>3, <1>3
  <2>2. ASSUME NEW n \in 1 .. N - 1
        PROVE  /\ rest[n].id >= wipedTo + 1
               /\ rest[n].content \in {rest[n].id, Altered}
               /\ rest[n].hash = Hash(rest[n].prev, rest[n].id)
               /\ ~ resealed => Len(rest[n].hash) = rest[n].id - (wipedTo + 1) + 1
    <3> HIDE DEF moved
    <3> QED BY <1>8, <1>9
  <2>3. ASSUME NEW m \in 1 .. N - 1, NEW n \in 1 .. N - 1, m < n
        PROVE  rest[m].id < rest[n].id
    <3> HIDE DEF moved
    <3> QED BY <2>3, <1>8, <1>9
  <2> QED BY <2>1, <2>2, <2>3, <1>7 DEF Chained
<1>11. LogInv'
  <2>1. Chained(log, wipedTo + 1, resealed)'
    BY <1>2, <1>6, <1>10 DEF Chained, InPlace, DigestBefore, Hash
  <2>2. \A n \in 1 .. Len(log') : log'[n].id <= lastId'
    <3> HIDE DEF moved
    <3>1. \A n \in 1 .. N - 1 : rest[n].id <= lastId
      BY <1>8, <1>9
    <3> QED BY <3>1, <1>2, <1>6, <1>7
  <2>3. Len(log') <= lastId' - wipedTo'
    BY <1>2, <1>3, <1>6, <1>7, <1>9
  <2> QED BY <2>1, <2>2, <2>3 DEF LogInv
<1>12. AnchorInv'
  <2>1. log # <<>> /\ (head # NoHead <=> lastId # 0)
    BY <1>3, EmptySeq DEF IInv, AnchorInv
  <2>2. head # NoHead
    BY <1>3, <1>9, <2>1
  <2>3. head.count \in Nat /\ N <= head.count /\ head.count <= lastId - wipedTo
        /\ (log[N].id = lastId => head.hash = log[N].hash)
    BY <2>1, <2>2 DEF IInv, TypeOK, Anchor, AnchorInv
  <2>4. ASSUME log' # <<>>
        PROVE  /\ Len(log') <= head.count
               /\ log'[Len(log')].id = lastId => head.hash = log'[Len(log')].hash
    <3>1. N - 1 \in 1 .. N - 1
      BY <2>4, <1>3, <1>6, <1>7, EmptySeq
    <3>2. CASE k = N
      <4>1. rest[N - 1] = log[N - 1] /\ N - 1 \in 1 .. N /\ N \in 1 .. N /\ N - 1 < N
        BY <3>1, <3>2, <1>3, <1>7
      <4>2. log[N - 1].id < log[N].id /\ log[N].id <= lastId /\ log[N].id \in Nat
            /\ log[N - 1].id \in Nat
        BY <4>1, <1>9
      <4> QED BY SMTT(40), <2>3, <4>1, <4>2, <1>3, <1>6, <1>7, <1>9
    <3>3. CASE k # N
      <4>1. ~ (N - 1 < k) /\ (N - 1) + 1 = N
        BY <3>3, <1>3
      <4>2. rest[N - 1] = log[N]
        BY <3>1, <4>1, <1>7
      <4> QED BY <2>3, <4>2, <1>3, <1>6, <1>7
    <3> QED BY <3>2, <3>3
  <2> QED BY <2>3, <2>4, <1>2 DEF IInv, AnchorInv
<1>13. TypeOK'
  BY <1>2, <1>6, <1>7 DEF IInv, TypeOK
<1> QED BY <1>2, <1>11, <1>12, <1>13, OthersKeepVerifier DEF IInv

-----------------------------------------------------------------------------
(* Verification *)

\* Rows that are complete and unaltered pass the check.
LEMMA IntactIsLinked ==
    ASSUME NEW rows \in Seq(Row), NEW from \in Nat, NEW again, Chained(rows, from, again),
           \A n \in 1 .. Len(rows) : rows[n].id = from + n - 1 /\ rows[n].content = rows[n].id
    PROVE  \A n \in 1 .. Len(rows) : Linked(rows, n)
<1> TAKE n \in 1 .. Len(rows)
<1>1. Len(rows) \in Nat
  BY LenProperties
<1>2. n # 1 => n - 1 \in 1 .. Len(rows)
  BY <1>1
<1>3. n # 1 => rows[n - 1].id + 1 = rows[n].id
  <2>1. SUFFICES ASSUME n # 1 PROVE rows[n - 1].id + 1 = rows[n].id
    OBVIOUS
  <2>2. rows[n - 1].id = from + (n - 1) - 1 /\ rows[n].id = from + n - 1
    BY <2>1, <1>2
  <2> QED BY <2>2, <1>1
<1>4. n = 1 => rows[n].id = from
  <2>1. rows[n].id = from + n - 1
    OBVIOUS
  <2> QED BY <2>1
<1>5. InPlace(rows, from, n)
  BY <1>3, <1>4 DEF InPlace
<1>6. rows[n].prev = DigestBefore(rows, n)
  BY <1>5 DEF Chained
<1> QED BY <1>6, LinkedMeans

\* The anchor ends at an undamaged log.
LEMMA IInvAnchors == ASSUME IInv PROVE AnchorFollowsLog
<1>1. SUFFICES ASSUME Intact(log), log # <<>>
               PROVE  Unlinked = {} /\ head = [count |-> Len(log), hash |-> DigestOf(log)]
  BY DEF AnchorFollowsLog
<1>2. /\ log \in Seq(Row) /\ Len(log) \in Nat /\ wipedTo \in Nat /\ lastId \in Nat
      /\ Len(log) = lastId - wipedTo /\ Chained(log, wipedTo + 1, resealed)
      /\ wipedTo + 1 \in Nat
  BY <1>1, LenProperties DEF IInv, TypeOK, LogInv, Intact
<1>3. \A n \in 1 .. Len(log) : log[n].id = (wipedTo + 1) + n - 1 /\ log[n].content = log[n].id
  <2> TAKE n \in 1 .. Len(log)
  <2>1. log[n].id = wipedTo + n /\ log[n].content = log[n].id
    BY <1>1 DEF Intact
  <2>2. wipedTo + n = (wipedTo + 1) + n - 1
    BY <1>2
  <2> QED BY <2>1, <2>2
<1>4. Unlinked = {}
  BY <1>2, <1>3, IntactIsLinked DEF Unlinked
<1>5. Len(log) \in 1 .. Len(log)
  BY <1>1, <1>2, EmptySeq
<1>6. lastId # 0 /\ head # NoHead
  BY <1>2, <1>5 DEF IInv, AnchorInv
<1>7. log[Len(log)].id = lastId
  BY <1>2, <1>3, <1>5
<1>8. DigestOf(log) = log[Len(log)].hash
  BY <1>2, <1>5 DEF DigestOf, DigestBefore
<1>9. head \in Anchor /\ head.hash = log[Len(log)].hash
      /\ Len(log) <= head.count /\ head.count <= lastId - wipedTo
  BY <1>1, <1>6, <1>7 DEF IInv, TypeOK, AnchorInv
<1>10. head.count = Len(log)
  BY <1>2, <1>9 DEF Anchor
<1>11. head = [count |-> head.count, hash |-> head.hash]
  BY <1>9 DEF Anchor
<1> QED BY <1>4, <1>8, <1>9, <1>10, <1>11

LEMMA AppendKeepsIInv ==
    ASSUME IInv, NEW size \in 1 .. MaxBatch, AppendEvents(size)
    PROVE  IInv'
<1>1. LogInv' /\ AnchorInv' /\ log' \in Seq(Row) /\ head' \in Anchor
  BY AppendKeeps
<1>2. /\ lastId' = lastId + size /\ wipedTo' = wipedTo /\ resealed' \in BOOLEAN
      /\ lastId + size <= MaxEvents /\ lastId \in Nat /\ size \in Nat \ {0}
      /\ wipedTo \in 0 .. lastId /\ MaxEvents \in Nat
  BY MaxBatchAssumption DEF AppendEvents, LastRowLost, IInv, TypeOK
<1>3. CASE verifier.at = "head"
  <2>1. verifier' = [verifier EXCEPT !.raced = TRUE]
    BY <1>3 DEF AppendEvents
  <2>2. verifier \in Reading
    BY <1>3 DEF IInv, TypeOK, Verdict
  <2>3. /\ verifier' \in Reading /\ verifier'.at = "head" /\ verifier'.raced = TRUE
        /\ verifier'.seen = verifier.seen
    BY <2>1, <2>2 DEF Reading
  <2>4. TypeOK'
    BY <1>1, <1>2, <2>3 DEF TypeOK
  <2>5. ReadingInv'
    <3> DEFINE seen == verifier.seen
               rows == seen.rows
    <3>1. /\ Chained(rows, seen.from, seen.resealed)
          /\ \A n \in 1 .. Len(rows) : Linked(rows, n)
          /\ ~ seen.intact /\ ~ seen.resealed =>
                /\ lastId > 0
                /\ rows # <<>> => rows[Len(rows)].id < lastId
      BY <1>3 DEF IInv, ReadingInv
    <3>2. rows \in Seq(Row)
      BY <2>2 DEF Reading, SeenLog
    <3>3. rows # <<>> => rows[Len(rows)].id \in Nat
      <4>1. rows # <<>> => Len(rows) \in 1 .. Len(rows)
        BY <3>2, LenProperties, EmptySeq
      <4>2. rows # <<>> => rows[Len(rows)] \in Row
        BY <3>2, <4>1, ElementOfSeq
      <4> QED BY <4>2 DEF Row
    <3>4. ~ seen.intact /\ ~ seen.resealed =>
                /\ lastId' > 0
                /\ rows # <<>> => rows[Len(rows)].id < lastId'
      <4> HIDE DEF rows, seen
      <4> QED BY <1>2, <3>1, <3>3
    <3>5. /\ Chained(verifier'.seen.rows, verifier'.seen.from, verifier'.seen.resealed)
          /\ \A n \in 1 .. Len(verifier'.seen.rows) : Linked(verifier'.seen.rows, n)
      BY <2>3, <3>1
    <3> QED BY <2>3, <3>4, <3>5 DEF ReadingInv, Chained, InPlace, DigestBefore, Hash, Linked
  <2>6. OkMeansIntact' /\ FirstBadIsBad' /\ NoFalseAlarmUnlessRaced'
    BY <2>3 DEF OkMeansIntact, FirstBadIsBad, NoFalseAlarmUnlessRaced
  <2> QED BY <1>1, <2>4, <2>5, <2>6 DEF IInv
<1>4. CASE verifier.at # "head"
  <2>1. verifier' = verifier
    BY <1>4 DEF AppendEvents
  <2>2. TypeOK'
    BY <1>1, <1>2, <2>1 DEF IInv, TypeOK
  <2>3. ReadingInv'
    BY <1>4, <2>1 DEF ReadingInv
  <2>4. OkMeansIntact' /\ FirstBadIsBad' /\ NoFalseAlarmUnlessRaced'
    BY <2>1 DEF IInv, OkMeansIntact, FirstBadIsBad, NoFalseAlarmUnlessRaced
  <2> QED BY <1>1, <2>2, <2>3, <2>4 DEF IInv
<1> QED BY <1>3, <1>4

\* verify_chain only reads.
LEMMA ReadersKeepLog ==
    ASSUME IInv, UNCHANGED <<log, lastId, head, wipedTo, resealed>>,
           verifier' \in Reading \cup Verdict
    PROVE  TypeOK' /\ LogInv' /\ AnchorInv'
  BY DEF IInv, TypeOK, LogInv, AnchorInv, Chained, InPlace, DigestBefore, Hash

LEMMA ScanFindsBreakKeepsIInv == ASSUME IInv, ScanFindsBreak PROVE IInv'
<1>1. PICK bad \in Unlinked :
         /\ \A m \in Unlinked : bad <= m
         /\ verifier' = [at |-> "done", verdict |-> "broken", firstBad |-> bad,
                         raced |-> FALSE, seen |-> Seen]
  BY DEF ScanFindsBreak
<1>2. UNCHANGED <<log, lastId, head, wipedTo, resealed>>
  BY DEF ScanFindsBreak
<1>3. /\ log \in Seq(Row) /\ Len(log) \in Nat /\ wipedTo \in Nat /\ lastId \in Nat
      /\ Len(log) <= lastId - wipedTo /\ Chained(log, wipedTo + 1, resealed)
      /\ lastId <= MaxEvents /\ wipedTo <= lastId /\ MaxEvents \in Nat /\ resealed \in BOOLEAN
  BY LenProperties, MaxBatchAssumption DEF IInv, TypeOK, LogInv
<1>4. bad \in 1 .. Len(log) /\ ~ Linked(log, bad)
  BY DEF Unlinked
<1>5. /\ Seen.rows = log /\ Seen.from = wipedTo + 1 /\ Seen.intact = Intact(log)
      /\ Seen \in SeenLog
  BY <1>3 DEF Seen, SeenLog, Intact
<1>6. verifier' \in Verdict
  <2>1. bad \in 0 .. MaxEvents
    BY <1>3, <1>4
  <2> QED BY <2>1, <1>1, <1>5 DEF Verdict
<1>7. ReadingInv' /\ OkMeansIntact'
  BY <1>1 DEF ReadingInv, OkMeansIntact
<1>8. /\ log[bad].content = Altered \/ ~ InPlace(log, wipedTo + 1, bad)
      /\ \A n \in 1 .. bad - 1 : log[n].content = log[n].id
  <2>1. log[bad].prev # DigestBefore(log, bad) \/ log[bad].content # log[bad].id
    BY <1>3, <1>4, LinkedMeans
  <2>2. ASSUME NEW n \in 1 .. bad - 1 PROVE log[n].content = log[n].id
    <3>1. n \in 1 .. Len(log) /\ ~ (bad <= n)
      BY <1>3, <1>4
    <3>2. Linked(log, n)
      BY <1>1, <3>1 DEF Unlinked
    <3> QED BY <1>3, <3>1, <3>2, LinkedMeans
  <2> QED BY <2>1, <2>2, <1>3, <1>4 DEF Chained
<1>9. FirstBadIsBad'
  <2>1. verifier'.seen.rows = log /\ verifier'.seen.from = wipedTo + 1
        /\ verifier'.firstBad = bad
    BY <1>1, <1>5
  <2> QED BY <2>1, <1>8 DEF FirstBadIsBad, InPlace
<1>10. NoFalseAlarmUnlessRaced'
  <2>1. SUFFICES ASSUME Intact(log) PROVE FALSE
    BY <1>1, <1>5 DEF NoFalseAlarmUnlessRaced
  <2>2. log # <<>>
    BY <1>3, <1>4, EmptySeq
  <2> QED BY <2>1, <2>2, IInvAnchors DEF AnchorFollowsLog
<1> QED BY <1>2, <1>6, <1>7, <1>9, <1>10, ReadersKeepLog DEF IInv

\* Rows that all pass the check and are no longer complete have lost their last ones,
\* unless a later append hid it: rows missing in front of others would show.
LEMMA OnlyTheLastAreMissing ==
    ASSUME IInv, Unlinked = {}, ~ Intact(log), ~ resealed
    PROVE  lastId > 0 /\ (log # <<>> => log[Len(log)].id < lastId)
<1>1. /\ log \in Seq(Row) /\ Len(log) \in Nat /\ wipedTo \in Nat /\ lastId \in Nat
      /\ Len(log) <= lastId - wipedTo /\ Chained(log, wipedTo + 1, FALSE)
      /\ wipedTo <= lastId /\ wipedTo + 1 \in Nat
  <2>1. resealed = FALSE
    BY DEF IInv, TypeOK
  <2>2. Chained(log, wipedTo + 1, FALSE)
    BY <2>1 DEF IInv, LogInv
  <2>3. /\ log \in Seq(Row) /\ wipedTo \in 0 .. lastId /\ lastId \in Nat
        /\ Len(log) <= lastId - wipedTo
    BY DEF IInv, TypeOK, LogInv
  <2>4. wipedTo \in Nat /\ wipedTo <= lastId /\ wipedTo + 1 \in Nat
    BY <2>3
  <2>5. Len(log) \in Nat
    BY <2>3, LenProperties
  <2> QED BY <2>2, <2>3, <2>4, <2>5
<1>2. \A n \in 1 .. Len(log) : Linked(log, n)
  BY DEF Unlinked
<1>3. \A n \in 1 .. Len(log) : log[n].id = (wipedTo + 1) + n - 1
  BY <1>1, <1>2, LinkedIsPrefix
<1>4. \A n \in 1 .. Len(log) : log[n].content = log[n].id
  BY <1>1, <1>2, LinkedMeans
<1>5. \A n \in 1 .. Len(log) : log[n].id = wipedTo + n
  BY <1>1, <1>3
<1>6. Len(log) # lastId - wipedTo
  BY <1>4, <1>5 DEF Intact
<1>7. Len(log) < lastId - wipedTo
  BY <1>1, <1>6
<1>8. log # <<>> => Len(log) \in 1 .. Len(log)
  BY <1>1, EmptySeq
<1> QED BY <1>1, <1>5, <1>7, <1>8

LEMMA ScanToTheEndKeepsIInv == ASSUME IInv, ScanToTheEnd PROVE IInv'
<1>1. /\ Unlinked = {}
      /\ verifier' = [at |-> "head", raced |-> FALSE, seen |-> Seen]
      /\ UNCHANGED <<log, lastId, head, wipedTo, resealed>>
  BY DEF ScanToTheEnd
<1>2. /\ log \in Seq(Row) /\ wipedTo \in 0 .. lastId /\ lastId \in 0 .. MaxEvents
      /\ MaxEvents \in Nat /\ resealed \in BOOLEAN /\ Chained(log, wipedTo + 1, resealed)
  BY MaxBatchAssumption DEF IInv, TypeOK, LogInv
<1>3. /\ Seen.rows = log /\ Seen.from = wipedTo + 1 /\ Seen.intact = Intact(log)
      /\ Seen.resealed = resealed
      /\ Seen \in SeenLog
  BY <1>2 DEF Seen, SeenLog, Intact
<1>4. verifier' \in Reading
  BY <1>1, <1>3 DEF Reading
<1>5. OkMeansIntact' /\ FirstBadIsBad' /\ NoFalseAlarmUnlessRaced'
  BY <1>1 DEF OkMeansIntact, FirstBadIsBad, NoFalseAlarmUnlessRaced
<1>6. ReadingInv'
  <2>1. /\ verifier'.seen.rows = log /\ verifier'.seen.from = wipedTo + 1
        /\ verifier'.seen.intact = Intact(log) /\ verifier'.seen.resealed = resealed
    BY <1>1, <1>3
  <2>2. \A n \in 1 .. Len(log) : Linked(log, n)
    BY <1>1 DEF Unlinked
  <2>3. ~ Intact(log) /\ ~ resealed => lastId > 0 /\ (log # <<>> => log[Len(log)].id < lastId)
    BY <1>1, OnlyTheLastAreMissing
  <2>4. Intact(log) /\ log # <<>> => head = [count |-> Len(log), hash |-> DigestOf(log)]
    BY IInvAnchors DEF AnchorFollowsLog
  <2>5. Chained(verifier'.seen.rows, verifier'.seen.from, verifier'.seen.resealed)
    BY <1>2, <2>1
  <2>6. (verifier.at = "head" =>
            /\ Chained(verifier.seen.rows, verifier.seen.from, verifier.seen.resealed)
            /\ \A n \in 1 .. Len(verifier.seen.rows) : Linked(verifier.seen.rows, n))'
    BY <2>1, <2>2, <2>5 DEF Chained, InPlace, DigestBefore, Hash, Linked
  <2>7. (verifier.at = "head" /\ ~ verifier.seen.intact /\ ~ verifier.seen.resealed =>
            /\ lastId > 0
            /\ verifier.seen.rows # <<>> =>
                   verifier.seen.rows[Len(verifier.seen.rows)].id < lastId)'
    BY <1>1, <2>1, <2>3
  <2>8. (verifier.at = "head" /\ verifier.seen.intact /\ verifier.seen.rows # <<>> =>
            head = [count |-> Len(verifier.seen.rows), hash |-> DigestOf(verifier.seen.rows)])'
    BY <1>1, <2>1, <2>4 DEF DigestOf, DigestBefore
  <2> QED BY <2>6, <2>7, <2>8 DEF ReadingInv
<1> QED BY <1>1, <1>4, <1>5, <1>6, ReadersKeepLog DEF IInv

LEMMA ReadHeadKeepsIInv == ASSUME IInv, ReadHead PROVE IInv'
<1> DEFINE seen == verifier.seen
           rows == seen.rows
<1>1. /\ verifier.at = "head"
      /\ verifier' = [at |-> "done", verdict |-> IF Anchored THEN "ok" ELSE "mismatch",
                      firstBad |-> 0, raced |-> verifier.raced, seen |-> verifier.seen]
      /\ UNCHANGED <<log, lastId, head, wipedTo, resealed>>
  BY DEF ReadHead
<1>2. verifier \in Reading
  BY <1>1 DEF IInv, TypeOK, Verdict
<1>3. verifier' \in Verdict
  <2>1. MaxEvents \in Nat
    BY MaxBatchAssumption
  <2> QED BY <1>1, <1>2, <2>1 DEF Reading, Verdict
<1>4. /\ verifier'.seen = seen /\ verifier'.raced = verifier.raced
      /\ verifier'.at = "done" /\ verifier'.verdict = (IF Anchored THEN "ok" ELSE "mismatch")
  BY <1>1
<1>5. /\ Chained(rows, seen.from, seen.resealed)
      /\ \A n \in 1 .. Len(rows) : Linked(rows, n)
      /\ ~ seen.intact /\ ~ seen.resealed => /\ lastId > 0
                                             /\ rows # <<>> => rows[Len(rows)].id < lastId
      /\ ~ verifier.raced /\ seen.intact /\ rows # <<>> =>
            head = [count |-> Len(rows), hash |-> DigestOf(rows)]
  BY <1>1 DEF IInv, ReadingInv
<1>6. rows \in Seq(Row) /\ seen.intact \in BOOLEAN /\ seen.resealed \in BOOLEAN
  BY <1>2 DEF Reading, SeenLog
<1> HIDE DEF rows, seen
<1>7. ReadingInv' /\ FirstBadIsBad'
  BY <1>4 DEF ReadingInv, FirstBadIsBad
<1>8. NoFalseAlarmUnlessRaced'
  BY <1>4, <1>5 DEF NoFalseAlarmUnlessRaced, Anchored, rows, seen
<1>9. \A n \in 1 .. Len(rows) : rows[n].content = rows[n].id
  BY <1>5, <1>6, LinkedMeans
<1>10. ASSUME Anchored PROVE seen.intact \/ seen.resealed
  <2>1. SUFFICES ASSUME ~ seen.intact, ~ seen.resealed PROVE FALSE
    OBVIOUS
  <2>2. lastId > 0 /\ (rows # <<>> => rows[Len(rows)].id < lastId)
    BY <1>5, <2>1
  <2>3. lastId # 0 /\ lastId \in Nat
    BY <2>2 DEF IInv, TypeOK
  <2>4. head # NoHead
    BY <2>3 DEF IInv, AnchorInv
  <2>5. /\ head = [count |-> Len(rows), hash |-> DigestOf(rows)]
        /\ head.count > 0 /\ head.hash[Len(head.hash)] = lastId
    BY <1>10, <2>4 DEF IInv, AnchorInv, Anchored, rows, seen
  <2>6. Len(rows) > 0 /\ Len(rows) \in Nat /\ rows # <<>>
    BY <2>5, <1>6, LenProperties, EmptySeq
  <2>7. DigestOf(rows) = rows[Len(rows)].hash /\ Len(rows) \in 1 .. Len(rows)
    BY <2>6 DEF DigestOf, DigestBefore
  <2>8. rows[Len(rows)] \in Row
    BY <2>7, <1>6, ElementOfSeq
  <2>9. /\ rows[Len(rows)].prev \in Digests /\ rows[Len(rows)].id \in Contents
        /\ rows[Len(rows)].id \in Nat
    BY <2>8 DEF Row, Contents
  <2>10. rows[Len(rows)].hash = Hash(rows[Len(rows)].prev, rows[Len(rows)].id)
    BY <1>5, <2>7 DEF Chained
  <2>11. head.hash[Len(head.hash)] = rows[Len(rows)].id
    BY <2>5, <2>7, <2>9, <2>10, HashAdds
  <2> QED BY <2>2, <2>3, <2>5, <2>6, <2>9, <2>11
<1>11. OkMeansIntact'
  <2>1. ASSUME verifier'.verdict = "ok" PROVE Anchored
    BY <2>1, <1>4
  <2> QED BY <2>1, <1>4, <1>9, <1>10 DEF OkMeansIntact, rows, seen
<1> QED BY <1>1, <1>3, <1>7, <1>8, <1>11, ReadersKeepLog DEF IInv

-----------------------------------------------------------------------------
(* The theorems *)

LEMMA InitIInv == Init => IInv
<1>1. SUFFICES ASSUME Init PROVE IInv
  OBVIOUS
<1>2. /\ log = <<>> /\ lastId = 0 /\ head = NoHead /\ verifier = [at |-> "idle"]
      /\ wipedTo = 0 /\ resealed = FALSE
  BY <1>1 DEF Init
<1>3. TypeOK
  <2>1. log \in Seq(Row)
    BY <1>2, EmptySeq
  <2>2. lastId \in 0 .. MaxEvents /\ wipedTo \in 0 .. lastId
    BY <1>2, MaxBatchAssumption
  <2> QED BY <1>2, <2>1, <2>2 DEF TypeOK
<1>4. LogInv /\ AnchorInv
  BY <1>2, EmptySeq DEF LogInv, AnchorInv, Chained
<1>5. ReadingInv /\ OkMeansIntact /\ FirstBadIsBad /\ NoFalseAlarmUnlessRaced
  BY <1>2 DEF ReadingInv, OkMeansIntact, FirstBadIsBad, NoFalseAlarmUnlessRaced
<1> QED BY <1>3, <1>4, <1>5 DEF IInv

LEMMA NextKeepsIInv == IInv /\ [Next]_vars => IInv'
<1>1. SUFFICES ASSUME IInv, [Next]_vars PROVE IInv'
  OBVIOUS
<1>2. ASSUME NEW size \in 1 .. MaxBatch, AppendEvents(size) PROVE IInv'
  BY <1>1, <1>2, AppendKeepsIInv
<1>3. CASE Wipe
  BY <1>1, <1>3, WipeKeepsIInv
<1>4. CASE EditRow
  BY <1>1, <1>4, EditKeepsIInv
<1>5. CASE RemoveRow
  BY <1>1, <1>5, RemoveKeepsIInv
<1>6. CASE ScanFindsBreak
  BY <1>1, <1>6, ScanFindsBreakKeepsIInv
<1>7. CASE ScanToTheEnd
  BY <1>1, <1>7, ScanToTheEndKeepsIInv
<1>8. CASE ReadHead
  BY <1>1, <1>8, ReadHeadKeepsIInv
<1>9. CASE UNCHANGED vars
  <2>1. UNCHANGED <<log, lastId, head, verifier, wipedTo, resealed>>
    BY <1>9 DEF vars
  <2>2. TypeOK' /\ LogInv' /\ AnchorInv'
    BY <1>1, <2>1 DEF IInv, TypeOK, LogInv, AnchorInv, Chained, InPlace, DigestBefore, Hash
  <2> QED BY <1>1, <2>1, <2>2, OthersKeepVerifier DEF IInv
<1> QED BY <1>1, <1>2, <1>3, <1>4, <1>5, <1>6, <1>7, <1>8, <1>9 DEF Next

LEMMA Inductive == Spec => []IInv
  BY InitIInv, NextKeepsIInv, PTL DEF Spec

\* The log, the anchor and every verification stay of their types: the anchor never
\* counts more rows than there are ids, the first bad row is one of those walked over.
THEOREM ChainTypeCorrect == Spec => []TypeOK
<1>1. IInv => TypeOK
  BY DEF IInv
<1> QED BY <1>1, Inductive, PTL

\* DjangoEventStore.append and its update_head leave an undamaged log linked row by
\* row, and its end where the anchor says, after any appends, wipes and reads.
THEOREM AnchorFollows == Spec => []AnchorFollowsLog
  BY Inductive, IInvAnchors, PTL

\* verify_chain: after a verdict of ok, whatever came between its two reads, no row it
\* walked over had been edited, and none was missing unless the last ones had been
\* and an append moved the anchor since.
THEOREM OkIsIntact == Spec => []OkMeansIntact
<1>1. IInv => OkMeansIntact
  BY DEF IInv
<1> QED BY <1>1, Inductive, PTL

\* verify_chain: the row it reports is the first that damage shows at.
THEOREM FirstBadIsFirst == Spec => []FirstBadIsBad
<1>1. IInv => FirstBadIsBad
  BY DEF IInv
<1> QED BY <1>1, Inductive, PTL

\* verify_chain finds fault with an undamaged log only when an append came between its
\* reads, or the log was just wiped.
THEOREM FalseAlarmsAreRaces == Spec => []NoFalseAlarmUnlessRaced
<1>1. IInv => NoFalseAlarmUnlessRaced
  BY DEF IInv
<1> QED BY <1>1, Inductive, PTL
=============================================================================
