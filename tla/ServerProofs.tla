---------------------------- MODULE ServerProofs ----------------------------
(***************************************************************************)
(* The server and its database: the transactions, statement by statement,  *)
(* are the one step that TaskService takes them to be, and the container   *)
(* is built once; for any threads, identities and events.                  *)
(***************************************************************************)
EXTENDS Server, TaskServiceProofs

-----------------------------------------------------------------------------
(* Transactions *)

TxTypeOK ==
    /\ log \in Seq(LogRow)
    /\ head \in [count : Nat, last : Nat] \cup {NoHead}
    /\ tx \in [Threads -> Transaction \cup {NoTx}]

Appends(w) == EventSourcing /\ w.events # <<>>
Writes(w) == IF Appends(w) THEN <<"write", "digest", "insert", "anchor", "commit">>
             ELSE <<"write", "commit">>
AfterWrite(w) == IF Appends(w) THEN <<"digest", "insert", "anchor", "commit">>
                 ELSE <<"commit">>
NewRow(w) == IF w.persist = "delete" THEN NoTask ELSE w.task
NewRows(w) == [n \in 1 .. Len(w.events) |-> [id |-> w.id, prev |-> Len(log) + n - 1]]

\* A transaction that only has read: it saves, and has its writes before it.
HasRead(w, x) == w.persist = "save" /\ x.left = Writes(w)

\* A transaction that has written: its copy differs from what is committed by just
\* what it has sent.
HasWritten(w, x) ==
    /\ x.copy.row = [row EXCEPT ![w.id] = NewRow(w)]
    /\ \/ /\ x.copy.stream = stream /\ x.copy.log = log /\ x.copy.head = head
          /\ \/ Appends(w) /\ x.left = <<"digest", "insert", "anchor", "commit">>
             \/ Appends(w) /\ x.left = <<"insert", "anchor", "commit">> /\ x.last = Len(log)
             \/ ~ Appends(w) /\ x.left = <<"commit">>
       \/ /\ Appends(w)
          /\ x.copy.stream = [stream EXCEPT ![w.id] = @ \o w.events]
          /\ x.copy.log = log \o NewRows(w)
          /\ x.last = Len(x.copy.log)
          /\ \/ x.left = <<"anchor", "commit">>
             \/ /\ x.left = <<"commit">>
                /\ x.copy.head = [count |-> Len(x.copy.log), last |-> Len(x.copy.log)]

\* What is true of the transaction x of a thread that holds w.
TxSound(w, x) ==
    /\ x.lock = "shared" => HasRead(w, x)
    /\ x.lock # "shared" => HasWritten(w, x)
    /\ w.persist = "save" => row[w.id] # NoTask

OnlyInCommit == \A t \in Threads : tx[t] # NoTx => pc[t] = "commit"

\* Only one transaction at a time has written something.
Exclusive == \A t, u \in Threads : Writing(t) /\ Writing(u) => t = u

TxInv ==
    /\ TxTypeOK
    /\ OnlyInCommit
    /\ Exclusive
    /\ \A t \in Threads : tx[t] # NoTx => TxSound(work[t], tx[t])

-----------------------------------------------------------------------------
(* What a thread has sent when a statement is its next *)

LEMMA Heads ==
    /\ Head(<<"digest", "insert", "anchor", "commit">>) = "digest"
    /\ Head(<<"insert", "anchor", "commit">>) = "insert"
    /\ Head(<<"anchor", "commit">>) = "anchor"
    /\ Head(<<"commit">>) = "commit"
  OBVIOUS

LEMMA HeadTail ==
    ASSUME NEW S, NEW e \in S, NEW s \in Seq(S)
    PROVE  Head(<<e>> \o s) = e /\ Tail(<<e>> \o s) = s
<1> DEFINE one == <<e>>
           both == one \o s
           k == Len(s)
<1>1. one \in Seq(S) /\ Len(one) = 1 /\ one[1] = e
  OBVIOUS
<1> HIDE DEF one
<1>2. k \in Nat /\ both \in Seq(S) /\ Len(both) = 1 + k
      /\ \A n \in 1 .. Len(both) : both[n] = IF n <= 1 THEN one[n] ELSE s[n - 1]
  <2>1. k \in Nat
    BY LenProperties
  <2>2. /\ both \in Seq(S) /\ Len(both) = Len(one) + Len(s)
        /\ \A n \in 1 .. Len(one) + Len(s) :
              both[n] = IF n <= Len(one) THEN one[n] ELSE s[n - Len(one)]
    BY <1>1, ConcatProperties
  <2> QED BY <1>1, <2>1, <2>2
<1> HIDE DEF both, k
<1>3. both # <<>>
  BY <1>2, EmptySeq
<1>4. /\ Head(both) = both[1] /\ Tail(both) \in Seq(S) /\ Len(Tail(both)) = Len(both) - 1
      /\ \A n \in 1 .. Len(Tail(both)) : Tail(both)[n] = both[n + 1]
  BY <1>2, <1>3, HeadTailProperties
<1>5. Head(both) = e
  BY <1>1, <1>2, <1>4
<1>6. \A n \in 1 .. k : Tail(both)[n] = s[n]
  BY <1>2, <1>4
<1>7. Tail(both) = s
  BY <1>2, <1>4, <1>6, SeqEqual DEF k
<1> QED BY <1>5, <1>7 DEF both, one

LEMMA Lists ==
    ASSUME NEW w
    PROVE  /\ Writes(w) \in Seq({"write", "digest", "insert", "anchor", "commit"})
           /\ AfterWrite(w) \in Seq({"write", "digest", "insert", "anchor", "commit"})
           /\ Head(Writes(w)) = "write" /\ Tail(Writes(w)) = AfterWrite(w)
           /\ w.persist = "save" => Head(Statements(w)) = "select" /\ Tail(Statements(w)) = Writes(w)
           /\ w.persist # "save" => Statements(w) = Writes(w)
<1> DEFINE S == {"write", "digest", "insert", "anchor", "commit"}
<1>1. /\ Writes(w) \in Seq(S) /\ AfterWrite(w) \in Seq(S)
      /\ Head(Writes(w)) = "write" /\ Tail(Writes(w)) = AfterWrite(w)
  <2>1. CASE Appends(w)
    <3>1. /\ Writes(w) = <<"write", "digest", "insert", "anchor", "commit">>
          /\ AfterWrite(w) = <<"digest", "insert", "anchor", "commit">>
      BY <2>1 DEF Writes, AfterWrite
    <3> QED BY <3>1
  <2>2. CASE ~ Appends(w)
    <3>1. Writes(w) = <<"write", "commit">> /\ AfterWrite(w) = <<"commit">>
      BY <2>2 DEF Writes, AfterWrite
    <3> QED BY <3>1
  <2> QED BY <2>1, <2>2
<1>2. Statements(w) = IF w.persist = "save" THEN <<"select">> \o Writes(w) ELSE Writes(w)
  BY DEF Statements, Writes, Appends
<1>3. Writes(w) \in Seq(S \cup {"select"})
  BY <1>1, SeqMonotonic
<1>4. Head(<<"select">> \o Writes(w)) = "select" /\ Tail(<<"select">> \o Writes(w)) = Writes(w)
  BY <1>3, HeadTail
<1> QED BY <1>1, <1>2, <1>4

LEMMA SendsMeans ==
    ASSUME TxInv, NEW t \in Threads, NEW statement, Sends(t, statement)
    PROVE  /\ pc[t] = "commit"
           /\ statement = "select" =>
                 tx[t] = NoTx /\ work[t].persist = "save" /\ Tail(Left(t)) = Writes(work[t])
           /\ statement = "write" =>
                 /\ \/ tx[t] = NoTx /\ work[t].persist # "save"
                    \/ tx[t] \in Transaction /\ tx[t].lock = "shared"
                       /\ TxSound(work[t], tx[t])
                 /\ Tail(Left(t)) = AfterWrite(work[t])
           /\ statement \in {"digest", "insert", "anchor", "commit"} =>
                 /\ tx[t] # NoTx /\ tx[t] \in Transaction /\ tx[t].lock # "shared"
                 /\ TxSound(work[t], tx[t])
                 /\ Left(t) = tx[t].left
<1> DEFINE w == work[t]
           x == tx[t]
<1>1. pc[t] = "commit" /\ Head(Left(t)) = statement
  BY DEF Sends
<1>2. x \in Transaction \cup {NoTx} /\ (x # NoTx => TxSound(w, x))
  BY DEF TxInv, TxTypeOK
<1>3. CASE x = NoTx
  <2>1. Left(t) = Statements(w)
    BY <1>3 DEF Left
  <2> QED BY <1>1, <1>3, <2>1, Lists
<1>4. CASE x # NoTx /\ x.lock = "shared"
  <2>1. x.left = Writes(w) /\ Left(t) = x.left
    BY <1>2, <1>4 DEF Left, TxSound, HasRead
  <2> QED BY <1>1, <1>2, <1>4, <2>1, Lists
<1>5. CASE x # NoTx /\ x.lock # "shared"
  <2>1. HasWritten(w, x) /\ Left(t) = x.left
    BY <1>2, <1>5 DEF Left, TxSound
  <2>2. Head(x.left) \in {"digest", "insert", "anchor", "commit"}
    <3>1. \/ x.left = <<"digest", "insert", "anchor", "commit">>
          \/ x.left = <<"insert", "anchor", "commit">>
          \/ x.left = <<"anchor", "commit">>
          \/ x.left = <<"commit">>
      BY <2>1 DEF HasWritten
    <3> QED BY <3>1, Heads
  <2> QED BY <1>1, <1>2, <1>5, <2>1, <2>2
<1> QED BY <1>3, <1>4, <1>5

-----------------------------------------------------------------------------
(* Steps keep the invariant *)

LEMMA SoundStays ==
    ASSUME NEW w, NEW x, TxSound(w, x), UNCHANGED <<row, stream, log, head>>,
           NEW t \in Threads, work'[t] = w, tx'[t] = x
    PROVE  TxSound(work[t], tx[t])'
  BY ZenonT(40) DEF TxSound, HasRead, HasWritten, NewRow, NewRows, Writes, Appends

\* A thread ends its transaction, if it has one, and commits nothing.
LEMMA EndKeepsTxInv ==
    ASSUME TxInv, NEW t \in Threads, tx' = [tx EXCEPT ![t] = NoTx],
           UNCHANGED <<row, stream, log, head>>,
           \A u \in Threads \ {t} : tx[u] # NoTx => pc'[u] = pc[u] /\ work'[u] = work[u]
    PROVE  TxInv'
<1>1. TxTypeOK' /\ tx'[t] = NoTx /\ \A u \in Threads \ {t} : tx'[u] = tx[u]
  BY DEF TxInv, TxTypeOK
<1>2. OnlyInCommit'
  BY <1>1 DEF TxInv, OnlyInCommit
<1>3. Exclusive'
  BY <1>1 DEF TxInv, Exclusive, Writing
<1>4. ASSUME NEW u \in Threads, tx'[u] # NoTx
      PROVE  TxSound(work[u], tx[u])'
  <2>1. TxSound(work[u], tx[u]) /\ work'[u] = work[u] /\ tx'[u] = tx[u]
    BY <1>1, <1>4 DEF TxInv
  <2> QED BY <2>1, SoundStays
<1> QED BY <1>1, <1>2, <1>3, <1>4 DEF TxInv

\* A thread has sent a statement.
LEMMA ExecutedKeepsTxInv ==
    ASSUME TxInv, NEW t \in Threads, pc[t] = "commit",
           UNCHANGED <<row, stream, pc, work, log, head>>,
           NEW x \in Transaction, tx' = [tx EXCEPT ![t] = x],
           TxSound(work[t], x),
           x.lock # "shared" => \A u \in Threads \ {t} : ~ Writing(u)
    PROVE  TxInv'
<1>1. TxTypeOK' /\ tx'[t] = x /\ \A u \in Threads \ {t} : tx'[u] = tx[u]
  BY DEF TxInv, TxTypeOK
<1>2. OnlyInCommit'
  BY <1>1 DEF TxInv, OnlyInCommit
<1>3. Exclusive'
  BY <1>1 DEF TxInv, Exclusive, Writing
<1>4. ASSUME NEW u \in Threads, tx'[u] # NoTx
      PROVE  TxSound(work[u], tx[u])'
  <2>1. TxSound(work[u], tx'[u]) /\ work'[u] = work[u]
    BY <1>1, <1>4 DEF TxInv
  <2> QED BY <2>1, SoundStays
<1> QED BY <1>1, <1>2, <1>3, <1>4 DEF TxInv

LEMMA Committing ==
    ASSUME IInv, NEW t \in Threads, pc[t] = "commit"
    PROVE  /\ work[t] \in Work /\ work[t].id \in Ids /\ work[t].events \in Seq(Event)
           /\ NewRow(work[t]) \in Task \cup {NoTask}
           /\ row \in [Ids -> Task \cup {NoTask}] /\ stream \in [Ids -> Seq(Event)]
<1>1. work[t] \in Work
  BY HeldIsMinted
<1> QED BY <1>1 DEF Work, NewRow, IInv, TypeOK, LedgerTypeOK

LEMMA NewRowsType ==
    ASSUME NEW w, w.id \in Ids, w.events \in Seq(Event), log \in Seq(LogRow)
    PROVE  NewRows(w) \in Seq(LogRow) /\ Len(NewRows(w)) = Len(w.events)
<1>1. Len(w.events) \in Nat /\ Len(log) \in Nat
  BY LenProperties
<1>2. ASSUME NEW n \in 1 .. Len(w.events)
      PROVE  [id |-> w.id, prev |-> Len(log) + n - 1] \in LogRow
  <2>1. Len(log) + n - 1 \in Nat
    BY <1>1
  <2> QED BY <2>1 DEF LogRow
<1> DEFINE k == Len(w.events)
           f == [n \in 1 .. k |-> [id |-> w.id, prev |-> Len(log) + n - 1]]
<1>3. k \in Nat /\ f \in [1 .. k -> LogRow]
  BY <1>1, <1>2
<1>4. f = NewRows(w)
  BY DEF NewRows
<1> HIDE DEF k, f
<1>5. f \in Seq(LogRow) /\ Len(f) = k
  BY <1>3
<1> QED BY <1>4, <1>5 DEF k

LEMMA IsTransaction ==
    ASSUME NEW left \in Seq({"write", "digest", "insert", "anchor", "commit"}),
           NEW held \in {"shared", "reserved", "pending"}, NEW copy \in Database,
           NEW last \in Nat
    PROVE  [left |-> left, lock |-> held, copy |-> copy, last |-> last] \in Transaction
  BY DEF Transaction

LEMMA DatabaseType ==
    ASSUME IInv, TxInv
    PROVE  db \in Database
  BY DEF IInv, TypeOK, LedgerTypeOK, TxInv, TxTypeOK, Database, db

LEMMA SelectKeepsTxInv ==
    ASSUME IInv, TxInv, NEW t \in Threads, SelectRow(t)
    PROVE  TxInv'
<1> DEFINE x == [left |-> Tail(Left(t)), lock |-> "shared", copy |-> db, last |-> 0]
<1>1. tx[t] = NoTx /\ work[t].persist = "save" /\ Tail(Left(t)) = Writes(work[t])
      /\ pc[t] = "commit"
  BY SendsMeans DEF SelectRow
<1>2. x \in Transaction
  <2>1. Writes(work[t]) \in Seq({"write", "digest", "insert", "anchor", "commit"})
    BY Lists
  <2>2. db \in Database
    BY DatabaseType
  <2>3. [left |-> Writes(work[t]), lock |-> "shared", copy |-> db, last |-> 0] \in Transaction
    BY <2>1, <2>2, IsTransaction
  <2>4. Tail(Left(t)) = Writes(work[t])
    BY <1>1
  <2> QED BY <2>3, <2>4
<1>3. TxSound(work[t], x)
  BY <1>1 DEF TxSound, HasRead, SelectRow
<1>4. tx' = [tx EXCEPT ![t] = x] /\ UNCHANGED <<row, stream, pc, work, log, head>>
  BY DEF SelectRow, Executed, vars, ledger
<1>5. x.lock = "shared"
  OBVIOUS
<1> HIDE DEF x
<1> QED BY <1>1, <1>2, <1>3, <1>4, <1>5, ExecutedKeepsTxInv

LEMMA WriteKeepsTxInv ==
    ASSUME IInv, TxInv, NEW t \in Threads, WriteRow(t)
    PROVE  TxInv'
<1> DEFINE w == work[t]
           copy == [db EXCEPT !.row[w.id] = NewRow(w)]
           x == [left |-> Tail(Left(t)), lock |-> "reserved", copy |-> copy, last |-> 0]
<1>1. /\ pc[t] = "commit" /\ Tail(Left(t)) = AfterWrite(w)
      /\ \/ tx[t] = NoTx /\ w.persist # "save"
         \/ tx[t] \in Transaction /\ tx[t].lock = "shared" /\ TxSound(w, tx[t])
  BY SendsMeans DEF WriteRow
<1>2. w.id \in Ids /\ NewRow(w) \in Task \cup {NoTask} /\ row \in [Ids -> Task \cup {NoTask}]
  BY <1>1, Committing
<1>3. /\ copy \in Database
      /\ copy.row = [row EXCEPT ![w.id] = NewRow(w)]
      /\ copy.stream = stream /\ copy.log = log /\ copy.head = head
  BY <1>2, DatabaseType DEF Database, db
<1> HIDE DEF copy
<1>4. x \in Transaction
  <2>1. AfterWrite(w) \in Seq({"write", "digest", "insert", "anchor", "commit"})
    BY Lists
  <2>2. [left |-> AfterWrite(w), lock |-> "reserved", copy |-> copy, last |-> 0] \in Transaction
    BY <1>3, <2>1, IsTransaction
  <2>3. Tail(Left(t)) = AfterWrite(w)
    BY <1>1
  <2> QED BY <2>2, <2>3
<1>5. TxSound(w, x)
  BY <1>1, <1>3 DEF TxSound, HasWritten, AfterWrite
<1>6. tx' = [tx EXCEPT ![t] = x] /\ UNCHANGED <<row, stream, pc, work, log, head>>
  BY DEF WriteRow, Executed, vars, ledger, copy, NewRow
<1>7. \A u \in Threads \ {t} : ~ Writing(u)
  BY DEF WriteRow, NoneHasReserved, Others, Writing, TxInv, TxTypeOK, Transaction
<1> HIDE DEF x
<1> QED BY <1>1, <1>4, <1>5, <1>6, <1>7, ExecutedKeepsTxInv

\* A thread that has written sends one more statement.
LEMMA GoesOnKeepsTxInv ==
    ASSUME TxInv, NEW t \in Threads, pc[t] = "commit", Writing(t),
           UNCHANGED <<row, stream, pc, work, log, head>>,
           NEW x \in Transaction, tx' = [tx EXCEPT ![t] = x], HasWritten(work[t], x),
           x.lock = tx[t].lock \/ x.lock = "pending"
    PROVE  TxInv'
<1>1. x.lock # "shared"
  BY DEF Writing
<1>2. TxSound(work[t], x)
  BY <1>1 DEF TxSound, Writing, TxInv
<1>3. \A u \in Threads \ {t} : ~ Writing(u)
  BY DEF TxInv, Exclusive
<1> QED BY <1>2, <1>3, ExecutedKeepsTxInv

\* What a thread has that sends the statement after its writes to the task table.
LEMMA SendsWriting ==
    ASSUME TxInv, NEW t \in Threads,
           NEW statement \in {"digest", "insert", "anchor", "commit"}, Sends(t, statement)
    PROVE  /\ pc[t] = "commit" /\ Writing(t) /\ HasWritten(work[t], tx[t])
           /\ tx[t] \in Transaction /\ Left(t) = tx[t].left /\ Head(tx[t].left) = statement
<1>1. Head(Left(t)) = statement
  BY DEF Sends
<1> QED BY <1>1, SendsMeans DEF TxSound, Writing

LEMMA DigestKeepsTxInv ==
    ASSUME TxInv, NEW t \in Threads, ReadDigest(t)
    PROVE  TxInv'
<1> DEFINE w == work[t]
           x == [left |-> Tail(Left(t)), lock |-> tx[t].lock, copy |-> tx[t].copy,
                 last |-> Len(tx[t].copy.log)]
<1>1. /\ pc[t] = "commit" /\ Writing(t) /\ HasWritten(w, tx[t])
      /\ tx[t] \in Transaction /\ Left(t) = tx[t].left /\ Head(tx[t].left) = "digest"
  BY SendsWriting DEF ReadDigest
<1>2. /\ Appends(w) /\ tx[t].left = <<"digest", "insert", "anchor", "commit">>
      /\ tx[t].copy.stream = stream /\ tx[t].copy.log = log /\ tx[t].copy.head = head
  BY SMTT(40), <1>1 DEF HasWritten
<1>3. Tail(Left(t)) = <<"insert", "anchor", "commit">>
  BY <1>1, <1>2
<1>4. x \in Transaction
  <2>1. tx[t].copy.log \in Seq(LogRow)
    BY <1>1 DEF Transaction, Database
  <2>2. Len(tx[t].copy.log) \in Nat
    BY <2>1, LenProperties
  <2> QED BY <1>1, <1>3, <2>2 DEF Transaction
<1>5. HasWritten(w, x)
  BY <1>1, <1>2, <1>3 DEF HasWritten
<1>6. tx' = [tx EXCEPT ![t] = x] /\ UNCHANGED <<row, stream, pc, work, log, head>>
  BY DEF ReadDigest, Executed, vars, ledger
<1>7. x.lock = tx[t].lock
  OBVIOUS
<1> HIDE DEF x
<1> QED BY <1>1, <1>4, <1>5, <1>6, <1>7, GoesOnKeepsTxInv

LEMMA InsertKeepsTxInv ==
    ASSUME IInv, TxInv, NEW t \in Threads, InsertRows(t)
    PROVE  TxInv'
<1> DEFINE w == work[t]
           copy == [tx[t].copy EXCEPT !.log = @ \o NewRows(w), !.stream[w.id] = @ \o w.events]
           x == [left |-> Tail(Left(t)), lock |-> tx[t].lock, copy |-> copy,
                 last |-> tx[t].last + Len(NewRows(w))]
<1>1. /\ pc[t] = "commit" /\ Writing(t) /\ HasWritten(w, tx[t])
      /\ tx[t] \in Transaction /\ Left(t) = tx[t].left /\ Head(tx[t].left) = "insert"
  BY SendsWriting DEF InsertRows
<1>2. /\ Appends(w) /\ tx[t].left = <<"insert", "anchor", "commit">>
      /\ tx[t].copy.stream = stream /\ tx[t].copy.log = log /\ tx[t].copy.head = head
      /\ tx[t].copy.row = [row EXCEPT ![w.id] = NewRow(w)] /\ tx[t].last = Len(log)
  BY SMTT(40), <1>1 DEF HasWritten
<1>3. Tail(Left(t)) = <<"anchor", "commit">>
  BY <1>1, <1>2
<1>4. w.id \in Ids /\ w.events \in Seq(Event) /\ stream \in [Ids -> Seq(Event)]
      /\ log \in Seq(LogRow)
  BY <1>1, Committing DEF TxInv, TxTypeOK
<1>5. NewRows(w) \in Seq(LogRow) /\ Len(NewRows(w)) = Len(w.events)
  BY <1>4, NewRowsType
<1>6. log \o NewRows(w) \in Seq(LogRow) /\ Len(log \o NewRows(w)) = Len(log) + Len(NewRows(w))
  BY <1>4, <1>5, ConcatProperties
<1>7. stream[w.id] \o w.events \in Seq(Event)
  BY <1>4, ConcatProperties
<1>8. /\ copy \in Database
      /\ copy.row = [row EXCEPT ![w.id] = NewRow(w)]
      /\ copy.stream = [stream EXCEPT ![w.id] = @ \o w.events]
      /\ copy.log = log \o NewRows(w)
  <2>1. tx[t].copy \in Database
    BY <1>1 DEF Transaction
  <2> QED BY <2>1, <1>2, <1>4, <1>6, <1>7 DEF Database
<1>9. tx[t].last + Len(NewRows(w)) = Len(copy.log) /\ Len(copy.log) \in Nat
  <2>1. Len(log \o NewRows(w)) \in Nat
    BY <1>6, LenProperties
  <2> QED BY <1>2, <1>6, <1>8, <2>1
<1>10. tx' = [tx EXCEPT ![t] = x]
  <2>1. NewRows(w) = [n \in 1 .. Len(work[t].events) |->
                         [id |-> work[t].id, prev |-> tx[t].last + n - 1]]
    BY <1>2 DEF NewRows
  <2> QED BY <2>1 DEF InsertRows, Executed
<1> HIDE DEF copy
<1>11. x \in Transaction
  <2>1. tx[t].lock \in {"shared", "reserved", "pending"}
    BY <1>1 DEF Transaction
  <2>2. <<"anchor", "commit">> \in Seq({"write", "digest", "insert", "anchor", "commit"})
    OBVIOUS
  <2> QED BY <1>3, <1>8, <1>9, <2>1, <2>2, IsTransaction
<1>12. HasWritten(w, x)
  BY <1>2, <1>3, <1>8, <1>9 DEF HasWritten
<1>13. UNCHANGED <<row, stream, pc, work, log, head>> /\ x.lock = tx[t].lock
  BY DEF InsertRows, Executed, vars, ledger
<1> HIDE DEF x
<1> QED BY <1>1, <1>10, <1>11, <1>12, <1>13, GoesOnKeepsTxInv

LEMMA AnchorKeepsTxInv ==
    ASSUME TxInv, NEW t \in Threads, MoveAnchor(t)
    PROVE  TxInv'
<1> DEFINE w == work[t]
           moved == [count |-> Len(tx[t].copy.log), last |-> tx[t].last]
           copy == [tx[t].copy EXCEPT !.head = moved]
           x == [left |-> Tail(Left(t)), lock |-> tx[t].lock, copy |-> copy,
                 last |-> tx[t].last]
<1>1. /\ pc[t] = "commit" /\ Writing(t) /\ HasWritten(w, tx[t])
      /\ tx[t] \in Transaction /\ Left(t) = tx[t].left /\ Head(tx[t].left) = "anchor"
  BY SendsWriting DEF MoveAnchor
<1>2. /\ Appends(w) /\ tx[t].left = <<"anchor", "commit">>
      /\ tx[t].copy.row = [row EXCEPT ![w.id] = NewRow(w)]
      /\ tx[t].copy.stream = [stream EXCEPT ![w.id] = @ \o w.events]
      /\ tx[t].copy.log = log \o NewRows(w) /\ tx[t].last = Len(tx[t].copy.log)
  BY <1>1, Heads DEF HasWritten
<1>3. Tail(Left(t)) = <<"commit">>
  BY <1>1, <1>2
<1>4. /\ copy \in Database
      /\ copy.row = tx[t].copy.row /\ copy.stream = tx[t].copy.stream
      /\ copy.log = tx[t].copy.log /\ copy.head = moved
  <2>1. tx[t].copy \in Database /\ tx[t].last \in Nat
    BY <1>1 DEF Transaction
  <2>2. moved \in [count : Nat, last : Nat]
    BY <1>2, <2>1
  <2> QED BY <2>1, <2>2 DEF Database
<1>5. tx' = [tx EXCEPT ![t] = x] /\ UNCHANGED <<row, stream, pc, work, log, head>>
      /\ x.lock = tx[t].lock
  BY DEF MoveAnchor, Executed, vars, ledger
<1> HIDE DEF copy
<1>6. x \in Transaction
  <2>1. tx[t].lock \in {"shared", "reserved", "pending"} /\ tx[t].last \in Nat
    BY <1>1 DEF Transaction
  <2>2. <<"commit">> \in Seq({"write", "digest", "insert", "anchor", "commit"})
    OBVIOUS
  <2> QED BY <1>3, <1>4, <2>1, <2>2, IsTransaction
<1>7. HasWritten(w, x)
  BY <1>2, <1>3, <1>4 DEF HasWritten
<1> HIDE DEF x
<1> QED BY <1>1, <1>5, <1>6, <1>7, GoesOnKeepsTxInv

LEMMA AwaitKeepsTxInv ==
    ASSUME TxInv, NEW t \in Threads, AwaitReaders(t)
    PROVE  TxInv'
<1> DEFINE x == [tx[t] EXCEPT !.lock = "pending"]
<1>1. /\ pc[t] = "commit" /\ Writing(t) /\ HasWritten(work[t], tx[t])
      /\ tx[t] \in Transaction
  BY SendsWriting DEF AwaitReaders
<1>2. x \in Transaction /\ x.lock = "pending" /\ x.left = tx[t].left
      /\ x.copy = tx[t].copy /\ x.last = tx[t].last
  BY <1>1 DEF Transaction
<1>3. tx' = [tx EXCEPT ![t] = x] /\ UNCHANGED <<row, stream, pc, work, log, head>>
  BY DEF AwaitReaders, vars, ledger
<1> HIDE DEF x
<1>4. HasWritten(work[t], x)
  BY <1>1, <1>2 DEF HasWritten
<1> QED BY <1>1, <1>2, <1>3, <1>4, GoesOnKeepsTxInv

\* A commit finds no other transaction at all, and stores what the service's one
\* step stores.
LEMMA CommitMeans ==
    ASSUME IInv, TxInv, NEW t \in Threads, Commit(t)
    PROVE  LET w == work[t]
           IN  /\ pc[t] = "commit" /\ tx[t] \in Transaction
               /\ \A u \in Threads \ {t} : tx[u] = NoTx
               /\ row' = [row EXCEPT ![w.id] = NewRow(w)]
               /\ AppendEvents(w)
               /\ w.persist = "save" => row[w.id] # NoTask
<1> DEFINE w == work[t]
<1>1. /\ pc[t] = "commit" /\ Writing(t) /\ HasWritten(w, tx[t])
      /\ tx[t] \in Transaction /\ Left(t) = tx[t].left /\ Head(tx[t].left) = "commit"
  BY SendsWriting DEF Commit
<1>2. \A u \in Threads \ {t} : tx[u] = NoTx
  BY <1>1 DEF TxInv, Exclusive, Writing, Commit, NoneHasShared, Others
<1>3. row' = [row EXCEPT ![w.id] = NewRow(w)] /\ stream' = tx[t].copy.stream
  BY <1>1 DEF HasWritten, Commit
<1>4. w.persist = "save" => row[w.id] # NoTask
  BY <1>1 DEF Writing, TxInv, TxSound
<1>5. AppendEvents(w)
  <2>1. CASE Appends(w)
    BY SMTT(40), <2>1, <1>1, <1>3 DEF HasWritten, AppendEvents, Appends
  <2>2. CASE ~ Appends(w)
    <3>1. stream' = stream
      BY <2>2, <1>1, <1>3 DEF HasWritten
    <3>2. CASE EventSourcing
      <4>1. w.id \in Ids /\ stream \in [Ids -> Seq(Event)] /\ w.events = <<>>
        BY <1>1, <2>2, <3>2, Committing DEF Appends
      <4>2. stream[w.id] \o <<>> = stream[w.id]
        BY <4>1, ConcatEmptySeq
      <4>3. stream = [stream EXCEPT ![w.id] = @ \o w.events]
        BY <4>1, <4>2
      <4> QED BY <3>1, <3>2, <4>3 DEF AppendEvents
    <3>3. CASE ~ EventSourcing
      BY <3>1, <3>3 DEF AppendEvents
    <3> QED BY <3>2, <3>3
  <2> QED BY <2>1, <2>2
<1> QED BY <1>1, <1>2, <1>3, <1>4, <1>5

\* Nobody has a transaction.
LEMMA NoneKeepsTxInv ==
    ASSUME TxTypeOK', \A t \in Threads : tx'[t] = NoTx
    PROVE  TxInv'
  BY DEF TxInv, OnlyInCommit, Exclusive, Writing

LEMMA CommitKeepsTxInv ==
    ASSUME IInv, TxInv, NEW t \in Threads, Commit(t)
    PROVE  TxInv'
<1>1. tx[t] \in Transaction /\ \A u \in Threads \ {t} : tx[u] = NoTx
  BY CommitMeans
<1>2. tx' = [tx EXCEPT ![t] = NoTx] /\ log' = tx[t].copy.log /\ head' = tx[t].copy.head
  BY DEF Commit
<1>3. TxTypeOK' /\ \A u \in Threads : tx'[u] = NoTx
  BY <1>1, <1>2 DEF TxInv, TxTypeOK, Transaction, Database
<1> QED BY <1>3, NoneKeepsTxInv

-----------------------------------------------------------------------------
(* Each step is one of the service's, or none *)

\* A transaction's steps are one step of the service, the last.
LEMMA TxStepIsNext ==
    ASSUME IInv, TxInv, NEW t \in Threads, TxStep(t)
    PROVE  [Next]_vars /\ TxInv'
<1>1. CASE SelectRow(t)
  BY <1>1, SelectKeepsTxInv DEF SelectRow, Executed
<1>2. CASE SelectNothing(t)
  <2>1. Next
    BY <1>2 DEF SelectNothing, Next, Finish
  <2>2. tx[t] = NoTx
    BY <1>2, SendsMeans DEF SelectNothing
  <2>3. tx' = [tx EXCEPT ![t] = NoTx] /\ UNCHANGED <<row, stream, log, head>>
    BY <1>2, <2>2 DEF SelectNothing, SaveFindsNothing, ledger, storage, TxInv, TxTypeOK
  <2>4. \A u \in Threads \ {t} : pc'[u] = pc[u] /\ work'[u] = work[u]
    BY <1>2 DEF SelectNothing, SaveFindsNothing, Release, IInv, TypeOK
  <2> QED BY <2>1, <2>3, <2>4, EndKeepsTxInv
<1>3. CASE WriteRow(t)
  BY <1>3, WriteKeepsTxInv DEF WriteRow, Executed
<1>4. CASE LockedOut(t)
  <2>1. EndTx(t)
    BY <1>4 DEF LockedOut
  <2>2. Next
    BY <2>1 DEF EndTx, Next, Finish
  <2>3. \A u \in Threads \ {t} : pc'[u] = pc[u] /\ work'[u] = work[u]
    BY <2>1 DEF EndTx, RollBack, Release, IInv, TypeOK
  <2> QED BY <2>1, <2>2, <2>3, EndKeepsTxInv DEF EndTx, RollBack, ledger
<1>5. CASE ReadDigest(t)
  BY <1>5, DigestKeepsTxInv DEF ReadDigest, Executed
<1>6. CASE InsertRows(t)
  BY <1>6, InsertKeepsTxInv DEF InsertRows, Executed
<1>7. CASE MoveAnchor(t)
  BY <1>7, AnchorKeepsTxInv DEF MoveAnchor, Executed
<1>8. CASE AwaitReaders(t)
  BY <1>8, AwaitKeepsTxInv DEF AwaitReaders
<1>9. CASE Commit(t)
  <2> DEFINE w == work[t]
  <2>1. /\ pc[t] = "commit" /\ row' = [row EXCEPT ![w.id] = NewRow(w)] /\ AppendEvents(w)
        /\ w.persist = "save" => row[w.id] # NoTask
    BY <1>9, CommitMeans
  <2>2. Committed(t) /\ UNCHANGED <<minted, published, received>>
    BY <1>9 DEF Commit
  <2>3. w.persist \in {"add", "save", "delete"}
    BY <2>1, Committing DEF Work
  <2>4. CommitAdd(t) \/ CommitSave(t) \/ CommitDelete(t)
    BY <2>1, <2>2, <2>3 DEF CommitAdd, CommitSave, CommitDelete, NewRow
  <2>5. Next
    BY <2>4 DEF Next, Finish
  <2> QED BY <1>9, <2>5, CommitKeepsTxInv
<1> QED BY <1>1, <1>2, <1>3, <1>4, <1>5, <1>6, <1>7, <1>8, <1>9 DEF TxStep

LEMMA TxNextIsNext ==
    ASSUME IInv, TxInv, [TxNext]_txVars
    PROVE  [Next]_vars /\ TxInv'
<1>1. ASSUME NEW t \in Threads, Load(t) PROVE [Next]_vars /\ TxInv'
  <2>1. Request(t) /\ UNCHANGED storage
    BY <1>1 DEF Load, Request
  <2>2. Next
    BY <2>1 DEF Next
  <2>3. pc[t] = "idle" /\ UNCHANGED <<row, stream>>
    BY <2>1 DEF Request, CreateTask, EditTask, ReprioritizeTask, TransitionTask, DeleteTask,
                FindNothing, Receive, ledger
  <2>4. tx[t] = NoTx
    BY <2>3 DEF TxInv, OnlyInCommit
  <2>5. tx' = [tx EXCEPT ![t] = NoTx] /\ UNCHANGED <<log, head>>
    BY <2>1, <2>4 DEF storage, TxInv, TxTypeOK
  <2>6. \A u \in Threads \ {t} : pc'[u] = pc[u] /\ work'[u] = work[u]
    BY <2>1 DEF Request, CreateTask, EditTask, ReprioritizeTask, TransitionTask, DeleteTask,
                FindNothing, Hold, IInv, TypeOK
  <2> QED BY <2>2, <2>3, <2>5, <2>6, EndKeepsTxInv
<1>2. ASSUME NEW t \in Threads, StatementFails(t) PROVE [Next]_vars /\ TxInv'
  <2>1. EndTx(t)
    BY <1>2 DEF StatementFails
  <2>2. Next
    BY <2>1 DEF EndTx, Next, Finish
  <2>3. \A u \in Threads \ {t} : pc'[u] = pc[u] /\ work'[u] = work[u]
    BY <2>1 DEF EndTx, RollBack, Release, IInv, TypeOK
  <2> QED BY <2>1, <2>2, <2>3, EndKeepsTxInv DEF EndTx, RollBack, ledger
<1>3. ASSUME NEW t \in Threads, Dispatch(t) PROVE [Next]_vars /\ TxInv'
  <2>1. Next
    BY <1>3 DEF Dispatch, Next, Finish
  <2>2. pc[t] = "publish" /\ UNCHANGED <<row, stream>> /\ UNCHANGED storage
    BY <1>3 DEF Dispatch, Publish, ledger
  <2>3. tx[t] = NoTx
    BY <2>2 DEF TxInv, OnlyInCommit
  <2>4. tx' = [tx EXCEPT ![t] = NoTx] /\ UNCHANGED <<log, head>>
    BY <2>2, <2>3 DEF storage, TxInv, TxTypeOK
  <2>5. \A u \in Threads \ {t} : pc'[u] = pc[u] /\ work'[u] = work[u]
    BY <1>3 DEF Dispatch, Publish, Release, IInv, TypeOK
  <2> QED BY <2>1, <2>2, <2>4, <2>5, EndKeepsTxInv
<1>4. CASE Die
  <2>1. Next
    BY <1>4 DEF Die, Next
  <2>2. TxTypeOK' /\ \A t \in Threads : tx'[t] = NoTx
    BY <1>4 DEF Die, TxInv, TxTypeOK
  <2> QED BY <2>1, <2>2, NoneKeepsTxInv
<1>5. CASE (Terminated /\ UNCHANGED storage) \/ UNCHANGED txVars
  <2>1. UNCHANGED vars /\ UNCHANGED <<row, stream, pc, work, log, head, tx>>
    BY <1>5 DEF Terminated, txVars, storage, vars, ledger
  <2>2. TxTypeOK' /\ OnlyInCommit' /\ Exclusive'
    BY <2>1 DEF TxInv, TxTypeOK, OnlyInCommit, Exclusive, Writing
  <2>3. ASSUME NEW u \in Threads, tx'[u] # NoTx PROVE TxSound(work[u], tx[u])'
    <3>1. TxSound(work[u], tx[u]) /\ work'[u] = work[u] /\ tx'[u] = tx[u]
      BY <2>1, <2>3 DEF TxInv
    <3> QED BY <2>1, <3>1, SoundStays
  <2>4. [Next]_vars
    BY <2>1
  <2> QED BY <2>2, <2>3, <2>4 DEF TxInv
<1> QED BY <1>1, <1>2, <1>3, <1>4, <1>5, TxStepIsNext DEF TxNext

LEMMA TxInductive == TxSpec => [](IInv /\ TxInv)
<1>1. TxInit => IInv /\ TxInv
  <2> SUFFICES ASSUME TxInit PROVE IInv /\ TxInv
    OBVIOUS
  <2>1. IInv
    BY InitIInv DEF TxInit
  <2>2. TxTypeOK
    BY EmptySeq DEF TxInit, TxTypeOK
  <2> QED BY <2>1, <2>2 DEF TxInit, TxInv, OnlyInCommit, Exclusive, Writing
<1>2. IInv /\ TxInv /\ [TxNext]_txVars => IInv' /\ TxInv'
  BY TxNextIsNext, NextKeepsIInv
<1> QED BY <1>1, <1>2, PTL DEF TxSpec

-----------------------------------------------------------------------------
(* The log as a chain *)

\* The rows are sealed one to the other, and the anchor to the last: what append reads
\* within its transaction is still so when it commits.
Linked ==
    /\ \A n \in 1 .. Len(log) : log[n].prev = n - 1
    /\ head = IF log = <<>> THEN NoHead ELSE [count |-> Len(log), last |-> Len(log)]

\* Every request adds two events at most, those about to commit have not yet.
AtWork == {t \in Threads : pc[t] = "commit"}
Bounded == IsFiniteSet(AtWork) /\ Len(log) + 2 * Cardinality(AtWork) <= 2 * received

\* The digest of the n-th row of a log that is only appended to, and the row.
Numbers(n) == [i \in 1 .. n |-> i]
Link(n) == [id |-> n, content |-> n, prev |-> Numbers(n - 1), hash |-> Numbers(n)]

LEMMA NumbersGrow ==
    ASSUME NEW n \in Nat
    PROVE  /\ Numbers(n) \in Seq(Nat) /\ Len(Numbers(n)) = n
           /\ Append(Numbers(n), n + 1) = Numbers(n + 1)
<1>1. \A k \in Nat : /\ Numbers(k) \in Seq(Nat) /\ Len(Numbers(k)) = k
                     /\ \A i \in 1 .. k : Numbers(k)[i] = i
  BY DEF Numbers
<1> DEFINE a == Numbers(n)
           b == Numbers(n + 1)
           c == Append(a, n + 1)
<1>2. n + 1 \in Nat
  OBVIOUS
<1>3. /\ a \in Seq(Nat) /\ Len(a) = n /\ \A i \in 1 .. n : a[i] = i
      /\ b \in Seq(Nat) /\ Len(b) = n + 1 /\ \A i \in 1 .. n + 1 : b[i] = i
  BY <1>1, <1>2
<1> HIDE DEF a, b
<1>4. /\ c \in Seq(Nat) /\ Len(c) = n + 1
      /\ \A i \in 1 .. n : c[i] = i
      /\ c[n + 1] = n + 1
  BY <1>2, <1>3, AppendProperties
<1> HIDE DEF c
<1>5. \A i \in 1 .. n + 1 : c[i] = i
  BY <1>4
<1>6. c = b
  BY <1>3, <1>4, <1>5, SeqEqual
<1> QED BY <1>3, <1>6 DEF a, b, c

\* A recursion that starts at the k-th number and appends the next ones.
LEMMA CountingUp ==
    ASSUME NEW k \in Nat, NEW size \in Nat, NEW d,
           d[0] = Numbers(k), \A n \in 1 .. size : d[n] = Append(d[n - 1], k + n)
    PROVE  \A n \in 0 .. size : d[n] = Numbers(k + n)
<1> DEFINE T == {n \in Nat : n <= size => d[n] = Numbers(k + n)}
<1>1. 0 \in T
  BY NumbersGrow
<1>2. ASSUME NEW n \in T PROVE n + 1 \in T
  <2>1. CASE n + 1 <= size
    <3>1. n \in Nat /\ n + 1 \in 1 .. size /\ (n + 1) - 1 = n /\ k + (n + 1) = (k + n) + 1
      BY <2>1
    <3>2. d[n] = Numbers(k + n) /\ k + n \in Nat
      BY <2>1, <3>1
    <3>3. d[n + 1] = Append(Numbers(k + n), (k + n) + 1)
      BY <3>1, <3>2
    <3>4. d[n + 1] = Numbers(k + (n + 1))
      BY <3>1, <3>2, <3>3, NumbersGrow
    <3> QED BY <3>1, <3>4
  <2>2. CASE ~ (n + 1 <= size)
    BY <2>2
  <2> QED BY <2>1, <2>2
<1>3. T \in SUBSET Nat
  OBVIOUS
<1> HIDE DEF T
<1>4. \A n \in Nat : n \in T
  BY <1>1, <1>2, <1>3, SetInduction
<1> QED BY <1>4 DEF T

LEMMA CountingIsThere ==
    ASSUME NEW k \in Nat, NEW size \in Nat
    PROVE  LET closed == [n \in 0 .. size |-> Numbers(k + n)]
           IN  closed = [n \in 0 .. size |->
                            IF n = 0 THEN Numbers(k) ELSE Append(closed[n - 1], k + n)]
<1> DEFINE closed == [n \in 0 .. size |-> Numbers(k + n)]
<1>1. ASSUME NEW n \in 0 .. size
      PROVE  closed[n] = IF n = 0 THEN Numbers(k) ELSE Append(closed[n - 1], k + n)
  <2>1. CASE n = 0
    BY <2>1
  <2>2. CASE n # 0
    <3>1. n - 1 \in 0 .. size /\ k + (n - 1) \in Nat /\ (k + (n - 1)) + 1 = k + n
      BY <2>2
    <3>2. closed[n - 1] = Numbers(k + (n - 1)) /\ closed[n] = Numbers(k + n)
      BY <3>1
    <3> HIDE DEF closed
    <3> QED BY <2>2, <3>1, <3>2, NumbersGrow
  <2> QED BY <2>1, <2>2
<1> QED BY <1>1

\* The rows of the log are links of a chain.
LEMMA DigestsAre ==
    ASSUME NEW rows, Len(rows) \in Nat, \A n \in 1 .. Len(rows) : rows[n].prev = n - 1
    PROVE  \A n \in 0 .. Len(rows) : Digests(rows)[n] = Numbers(n)
<1> DEFINE m == Len(rows)
           Is(d) == d = [n \in 0 .. m |-> IF n = 0 THEN <<>> ELSE Append(d[rows[n].prev], n)]
           closed == [n \in 0 .. m |-> Numbers(0 + n)]
           d == Digests(rows)
<1>1. Numbers(0) = <<>>
  BY NumbersGrow, EmptySeq
<1>2. closed = [n \in 0 .. m |-> IF n = 0 THEN Numbers(0) ELSE Append(closed[n - 1], 0 + n)]
  BY CountingIsThere
<1> HIDE DEF closed
<1>3. Is(closed)
  <2>1. ASSUME NEW n \in 0 .. m
        PROVE  (IF n = 0 THEN Numbers(0) ELSE Append(closed[n - 1], 0 + n)) =
                   IF n = 0 THEN <<>> ELSE Append(closed[rows[n].prev], n)
    <3>1. CASE n = 0
      BY <3>1, <1>1
    <3>2. CASE n # 0
      <4>1. rows[n].prev = n - 1 /\ 0 + n = n
        BY <3>2
      <4> QED BY <3>2, <4>1
    <3> QED BY <3>1, <3>2
  <2> QED BY <2>1, <1>2
<1>4. d = CHOOSE f : Is(f)
  BY DEF Digests
<1> HIDE DEF d
<1>5. Is(d)
  BY <1>3, <1>4
<1>6. d[0] = Numbers(0) /\ \A n \in 1 .. m : d[n] = Append(d[n - 1], 0 + n)
  <2>1. \A n \in 0 .. m : d[n] = IF n = 0 THEN <<>> ELSE Append(d[rows[n].prev], n)
    BY <1>5
  <2>2. d[0] = <<>>
    BY <2>1
  <2>3. ASSUME NEW n \in 1 .. m PROVE d[n] = Append(d[n - 1], 0 + n)
    <3>1. n \in 0 .. m /\ n # 0 /\ rows[n].prev = n - 1 /\ 0 + n = n
      OBVIOUS
    <3>2. d[n] = Append(d[rows[n].prev], n)
      BY <2>1, <3>1
    <3> QED BY <3>1, <3>2
  <2> QED BY <1>1, <2>2, <2>3
<1>7. \A n \in 0 .. m : d[n] = Numbers(0 + n)
  BY <1>6, CountingUp
<1> QED BY <1>7 DEF d

LEMMA ChainIs ==
    ASSUME NEW rows, Len(rows) \in Nat, \A n \in 1 .. Len(rows) : rows[n].prev = n - 1
    PROVE  Chain(rows) = [n \in 1 .. Len(rows) |-> Link(n)]
<1>1. \A n \in 1 .. Len(rows) : /\ Digests(rows)[rows[n].prev] = Numbers(n - 1)
                                /\ Digests(rows)[n] = Numbers(n)
  BY DigestsAre
<1> QED BY <1>1 DEF Chain, Link

\* Where a chain ends.
LEMMA ChainEnds ==
    ASSUME NEW rows, Len(rows) \in Nat, \A n \in 1 .. Len(rows) : rows[n].prev = n - 1
    PROVE  /\ Len(Chain(rows)) = Len(rows)
           /\ Audit!DigestOf(Chain(rows)) = Numbers(Len(rows))
<1> DEFINE m == Len(rows)
           chain == Chain(rows)
<1>1. chain = [n \in 1 .. m |-> Link(n)]
  BY ChainIs
<1>2. m \in Nat
  OBVIOUS
<1> HIDE DEF chain, m
<1>3. Len(chain) = m
  BY <1>1, <1>2
<1>4. CASE m = 0
  <2>1. Audit!DigestOf(chain) = <<>>
    BY <1>3, <1>4 DEF Audit!DigestOf, Audit!DigestBefore
  <2> QED BY <1>3, <1>4, <2>1, NumbersGrow, EmptySeq DEF chain, m
<1>5. CASE m # 0
  <2>1. m + 1 # 1 /\ (m + 1) - 1 = m /\ m \in 1 .. m
    BY <1>2, <1>5
  <2>2. Audit!DigestOf(chain) = chain[m].hash
    BY <1>3, <2>1 DEF Audit!DigestOf, Audit!DigestBefore
  <2>3. chain[m] = Link(m)
    BY <1>1, <2>1
  <2> QED BY <1>3, <2>2, <2>3 DEF Link, chain, m
<1> QED BY <1>4, <1>5

\* What append adds to a chain.
LEMMA SealedIs ==
    ASSUME Linked, Len(log) \in Nat, NEW size \in Nat
    PROVE  Audit!Sealed(size) = [n \in 1 .. size |-> Link(Len(log) + n)]
<1> DEFINE k == Len(log)
           start == Audit!DigestOf(Chain(log))
           Is(d) == d = [n \in 0 .. size |->
                            IF n = 0 THEN start ELSE Audit!Hash(d[n - 1], k + n)]
           digest == CHOOSE d : Is(d)
           closed == [n \in 0 .. size |-> Numbers(k + n)]
<1>1. Audit!Sealed(size) = [n \in 1 .. size |-> [id |-> k + n, content |-> k + n,
                                                 prev |-> digest[n - 1], hash |-> digest[n]]]
  BY DEF Audit!Sealed
<1>2. start = Numbers(k) /\ k \in Nat
  BY ChainEnds DEF Linked
<1> HIDE DEF k, start, digest
<1>3. closed = [n \in 0 .. size |->
                   IF n = 0 THEN Numbers(k) ELSE Append(closed[n - 1], k + n)]
  BY <1>2, CountingIsThere
<1> HIDE DEF closed
<1>4. Is(closed)
  BY <1>2, <1>3 DEF Audit!Hash
<1>5. Is(digest)
  BY <1>4 DEF digest
<1>6. digest[0] = Numbers(k) /\ \A n \in 1 .. size : digest[n] = Append(digest[n - 1], k + n)
  <2>1. \A n \in 0 .. size : digest[n] = IF n = 0 THEN start ELSE Audit!Hash(digest[n - 1], k + n)
    BY <1>5
  <2>2. digest[0] = Numbers(k)
    BY <1>2, <2>1
  <2>3. ASSUME NEW n \in 1 .. size PROVE digest[n] = Append(digest[n - 1], k + n)
    <3>1. n \in 0 .. size /\ n # 0
      OBVIOUS
    <3>2. digest[n] = Audit!Hash(digest[n - 1], k + n)
      BY <2>1, <3>1
    <3> QED BY <3>2 DEF Audit!Hash
  <2> QED BY <2>2, <2>3
<1>7. \A n \in 0 .. size : digest[n] = Numbers(k + n)
  BY <1>2, <1>6, CountingUp
<1>8. ASSUME NEW n \in 1 .. size
      PROVE  [id |-> k + n, content |-> k + n, prev |-> digest[n - 1], hash |-> digest[n]]
                 = Link(k + n)
  <2>1. n \in 0 .. size /\ n - 1 \in 0 .. size /\ k + (n - 1) = (k + n) - 1
    BY <1>2
  <2> QED BY <1>7, <2>1 DEF Link
<1> QED BY <1>1, <1>8 DEF k

LEMMA LinksGoOn ==
    ASSUME NEW k \in Nat, NEW size \in Nat
    PROVE  [n \in 1 .. k |-> Link(n)] \o [n \in 1 .. size |-> Link(k + n)]
               = [n \in 1 .. k + size |-> Link(n)]
<1> DEFINE Links == {Link(n) : n \in Nat}
           a == [n \in 1 .. k |-> Link(n)]
           b == [n \in 1 .. size |-> Link(k + n)]
           c == [n \in 1 .. k + size |-> Link(n)]
           ab == a \o b
<1>1. \A n \in 1 .. size : k + n \in Nat
  OBVIOUS
<1> HIDE DEF Link
<1>2. a \in Seq(Links) /\ Len(a) = k /\ \A n \in 1 .. k : a[n] = Link(n)
  OBVIOUS
<1>3. b \in Seq(Links) /\ Len(b) = size /\ \A n \in 1 .. size : b[n] = Link(k + n)
  BY <1>1
<1>4. c \in Seq(Links) /\ Len(c) = k + size /\ \A n \in 1 .. k + size : c[n] = Link(n)
  OBVIOUS
<1> HIDE DEF a, b, c, Links
<1>5. /\ ab \in Seq(Links) /\ Len(ab) = k + size
      /\ \A n \in 1 .. k + size : ab[n] = IF n <= k THEN a[n] ELSE b[n - k]
  BY <1>2, <1>3, ConcatProperties
<1> HIDE DEF ab
<1>6. ASSUME NEW n \in 1 .. k + size PROVE ab[n] = c[n]
  <2>1. CASE n <= k
    BY <2>1, <1>2, <1>4, <1>5
  <2>2. CASE ~ (n <= k)
    <3>1. n - k \in 1 .. size /\ k + (n - k) = n
      BY <2>2
    <3> QED BY <2>2, <3>1, <1>3, <1>4, <1>5
  <2> QED BY <2>1, <2>2
<1>7. ab = c
  BY <1>4, <1>5, <1>6, SeqEqual
<1> QED BY <1>7 DEF ab, a, b, c

-----------------------------------------------------------------------------
(* What a commit does to the log *)

LEMMA CommitAppends ==
    ASSUME IInv, TxInv, NEW t \in Threads, Commit(t)
    PROVE  IF Appends(work[t])
           THEN /\ log' = log \o NewRows(work[t])
                /\ head' = [count |-> Len(log'), last |-> Len(log')]
           ELSE UNCHANGED <<log, head>>
<1>1. /\ Writing(t) /\ HasWritten(work[t], tx[t])
      /\ Left(t) = tx[t].left /\ Head(tx[t].left) = "commit"
  BY SendsWriting DEF Commit
<1>2. log' = tx[t].copy.log /\ head' = tx[t].copy.head
  BY DEF Commit
<1>3. CASE Appends(work[t])
  <2> DEFINE x == tx[t]
  <2>1. \/ Head(x.left) # "commit"
        \/ /\ x.copy.log = log \o NewRows(work[t])
           /\ x.copy.head = [count |-> Len(x.copy.log), last |-> Len(x.copy.log)]
    <3> HIDE DEF x
    <3>1. HasWritten(work[t], x)
      BY <1>1 DEF x
    <3> QED BY <3>1, <1>3, Heads DEF HasWritten
  <2>2. log' = x.copy.log /\ head' = x.copy.head /\ Head(x.left) = "commit"
    BY <1>1, <1>2
  <2> HIDE DEF x
  <2> QED BY <1>3, <2>1, <2>2
<1>4. CASE ~ Appends(work[t])
  BY <1>1, <1>2, <1>4 DEF HasWritten
<1> QED BY <1>3, <1>4

\* No command records more than two events.
LEMMA AtMostTwo ==
    ASSUME IInv, NEW t \in Threads, pc[t] = "commit"
    PROVE  Len(work[t].events) \in 0 .. 2
<1>1. work[t].persist \in {"add", "save", "delete"}
  BY Committing DEF Work
<1>2. CASE work[t].persist = "save"
  <2>1. work[t].events \in Batches
    BY <1>2 DEF IInv, Held, MaySave
  <2>2. \/ work[t].events = <<>>
        \/ \E e : work[t].events = <<e>>
        \/ \E e, f : work[t].events = <<e, f>>
    BY <2>1 DEF Batches, StatusChange
  <2>3. ASSUME NEW e, work[t].events = <<e>> PROVE Len(work[t].events) = 1
    BY <2>3
  <2>4. ASSUME NEW e, NEW f, work[t].events = <<e, f>> PROVE Len(work[t].events) = 2
    BY <2>4
  <2>5. work[t].events = <<>> => Len(work[t].events) = 0
    OBVIOUS
  <2> QED BY <2>2, <2>3, <2>4, <2>5
<1>3. CASE work[t].persist # "save"
  <2>1. \E e : work[t].events = <<e>>
    BY <1>1, <1>3 DEF IInv, Held, MayAdd, MayDelete
  <2> QED BY <2>1
<1> QED BY <1>2, <1>3

\* The log after a commit that appends.
LEMMA AppendKeepsLinked ==
    ASSUME IInv, TxInv, Linked, NEW t \in Threads, Commit(t), Appends(work[t])
    PROVE  /\ Linked' /\ Len(log) \in Nat /\ Len(work[t].events) \in 1 .. 2
           /\ Len(log') = Len(log) + Len(work[t].events)
<1> DEFINE w == work[t]
           k == Len(log)
           size == Len(w.events)
<1>1. pc[t] = "commit" /\ log' = log \o NewRows(w)
      /\ head' = [count |-> Len(log'), last |-> Len(log')]
  BY CommitMeans, CommitAppends
<1>2. w.id \in Ids /\ w.events \in Seq(Event) /\ log \in Seq(LogRow)
  BY <1>1, Committing DEF TxInv, TxTypeOK
<1>3. size \in 0 .. 2 /\ w.events # <<>>
  BY <1>1, AtMostTwo DEF Appends
<1>4. size \in 1 .. 2 /\ k \in Nat
  BY <1>2, <1>3, LenProperties, EmptySeq
<1>5. NewRows(w) \in Seq(LogRow) /\ Len(NewRows(w)) = size
  BY <1>2, NewRowsType
<1>6. /\ Len(log') = k + size
      /\ \A n \in 1 .. k + size : log'[n] = IF n <= k THEN log[n] ELSE NewRows(w)[n - k]
  <2> DEFINE more == NewRows(w)
  <2>1. more \in Seq(LogRow) /\ Len(more) = size /\ log' = log \o more
    BY <1>1, <1>5
  <2> HIDE DEF more, w
  <2>2. /\ Len(log \o more) = Len(log) + Len(more)
        /\ \A n \in 1 .. Len(log) + Len(more) :
              (log \o more)[n] = IF n <= Len(log) THEN log[n] ELSE more[n - Len(log)]
    BY <1>2, <2>1, ConcatProperties
  <2> QED BY <2>1, <2>2 DEF more
<1>7. ASSUME NEW n \in 1 .. k + size PROVE log'[n].prev = n - 1
  <2>1. CASE n <= k
    BY <2>1, <1>4, <1>6 DEF Linked
  <2>2. CASE ~ (n <= k)
    <3>1. n - k \in 1 .. size /\ k + (n - k) - 1 = n - 1
      BY <2>2, <1>4
    <3>2. NewRows(w)[n - k].prev = k + (n - k) - 1
      BY <3>1 DEF NewRows
    <3> QED BY <2>2, <3>1, <3>2, <1>6
  <2> QED BY <2>1, <2>2
<1>8. log' # <<>>
  <2>1. Len(log') = k + size
    BY <1>6
  <2> HIDE DEF k, size
  <2>2. k + size # 0
    BY <1>4
  <2> QED BY <2>1, <2>2
<1>9. Linked'
  BY <1>1, <1>6, <1>7, <1>8 DEF Linked
<1> QED BY <1>4, <1>6, <1>9

\* It is one that AuditChain has.
LEMMA AppendIsAudits ==
    ASSUME IInv, TxInv, Linked, NEW t \in Threads, Commit(t), Appends(work[t]),
           Len(log') <= 2 * MaxRequests
    PROVE  Audit!Next
<1> DEFINE k == Len(log)
           size == Len(work[t].events)
<1>1. /\ Linked' /\ k \in Nat /\ size \in 1 .. 2 /\ size \in Nat /\ Len(log') = k + size
      /\ k + size \in Nat
  BY AppendKeepsLinked
<1>2. Chain(log) = [n \in 1 .. k |-> Link(n)] /\ Chain(log') = [n \in 1 .. k + size |-> Link(n)]
  <2>1. Chain(log) = [n \in 1 .. Len(log) |-> Link(n)]
    BY <1>1, ChainIs DEF Linked
  <2>2. Chain(log') = [n \in 1 .. Len(log') |-> Link(n)]
    BY <1>1, ChainIs DEF Linked
  <2> QED BY <1>1, <2>1, <2>2
<1>3. Audit!Sealed(size) = [n \in 1 .. size |-> Link(k + n)]
  BY <1>1, SealedIs
<1>4. Chain(log') = Chain(log) \o Audit!Sealed(size)
  BY <1>1, <1>2, <1>3, LinksGoOn
<1>5. AnchorOf(log', head') = [count |-> Len(Chain(log')), hash |-> Audit!DigestOf(Chain(log'))]
  <2>1. head' = [count |-> k + size, last |-> k + size]
    BY <1>1, CommitAppends
  <2>2. head' # NoHead /\ head'.count = k + size /\ head'.last = k + size
    BY <1>1, <2>1, NoHeadAssumption
  <2>3. \A n \in 0 .. Len(log') : Digests(log')[n] = Numbers(n)
    BY <1>1, DigestsAre DEF Linked
  <2>4. Digests(log')[k + size] = Numbers(k + size)
    BY <1>1, <2>3
  <2>5. Len(Chain(log')) = k + size /\ Audit!DigestOf(Chain(log')) = Numbers(k + size)
    BY <1>1, ChainEnds DEF Linked
  <2> QED BY <2>2, <2>4, <2>5 DEF AnchorOf
<1>6. ~ Audit!LastRowLost
  <2>1. CASE k = 0
    BY <2>1 DEF Audit!LastRowLost
  <2>2. CASE k # 0
    <3>1. k \in 1 .. k /\ Len(Chain(log)) = k
      BY <2>2, <1>1, <1>2
    <3>2. Chain(log)[k].id = k
      BY <1>2, <3>1 DEF Link
    <3>3. Chain(log) # <<>>
      BY <3>1
    <3> QED BY <3>1, <3>2, <3>3 DEF Audit!LastRowLost
  <2> QED BY <2>1, <2>2
<1>7. Audit!AppendEvents(size)
  BY <1>1, <1>4, <1>5, <1>6 DEF Audit!AppendEvents, Audit!UpdateHead
<1> QED BY <1>1, <1>7 DEF Audit!Next

-----------------------------------------------------------------------------
(* The log, step by step *)

\* A step leaves the log alone, or is a commit that appends.
LEMMA LogSteps ==
    ASSUME IInv, TxInv, [TxNext]_txVars
    PROVE  \/ UNCHANGED <<log, head>>
           \/ \E t \in Threads : Commit(t) /\ Appends(work[t])
<1>1. ASSUME NEW t \in Threads, Commit(t), ~ Appends(work[t]) PROVE UNCHANGED <<log, head>>
  BY <1>1, CommitAppends
<1>2. ASSUME NEW t \in Threads, Load(t) \/ Dispatch(t) \/ StatementFails(t)
      PROVE  UNCHANGED <<log, head>>
  BY <1>2 DEF Load, Dispatch, StatementFails, EndTx, storage
<1>3. ASSUME NEW t \in Threads, TxStep(t), ~ Commit(t) PROVE UNCHANGED <<log, head>>
  BY <1>3 DEF TxStep, SelectRow, SelectNothing, WriteRow, LockedOut, EndTx, ReadDigest,
              InsertRows, MoveAnchor, AwaitReaders, Executed, storage
<1>4. ASSUME Die \/ (Terminated /\ UNCHANGED storage) \/ UNCHANGED txVars
      PROVE  UNCHANGED <<log, head>>
  BY <1>4 DEF Die, storage, txVars
<1> QED BY <1>1, <1>2, <1>3, <1>4 DEF TxNext

LEMMA NextKeepsLinked ==
    ASSUME IInv, TxInv, Linked, [TxNext]_txVars
    PROVE  Linked'
<1>1. CASE UNCHANGED <<log, head>>
  BY <1>1 DEF Linked
<1> QED BY <1>1, LogSteps, AppendKeepsLinked

\* Who is about to commit, and what was received, step by step.
LEMMA AtWorkSteps ==
    ASSUME IInv, [Next]_vars
    PROVE  \/ /\ AtWork' \subseteq AtWork
              /\ received' \in Nat /\ received' >= received
           \/ /\ \E t \in Threads \ AtWork : AtWork' = AtWork \cup {t}
              /\ received' = received + 1
<1>1. pc \in [Threads -> {"idle", "commit", "publish"}] /\ received \in Nat
  BY DEF IInv, TypeOK
<1>2. ASSUME NEW t \in Threads, Request(t)
      PROVE  /\ pc[t] = "idle" /\ received' = received + 1
             /\ pc' = pc \/ pc' = [pc EXCEPT ![t] = "commit"]
  BY <1>2 DEF Request, CreateTask, EditTask, ReprioritizeTask, TransitionTask, DeleteTask,
              FindNothing, Receive, Hold
<1>3. ASSUME NEW t \in Threads, Finish(t)
      PROVE  /\ received' = received
             /\ pc' = pc \/ pc' = [pc EXCEPT ![t] = "idle"] \/ pc' = [pc EXCEPT ![t] = "publish"]
  BY <1>3 DEF Finish, CommitAdd, CommitSave, CommitDelete, Committed, SaveFindsNothing,
              RollBack, Publish, Release
<1>4. ASSUME Crash \/ Terminated \/ UNCHANGED vars
      PROVE  received' = received /\ (pc' = pc \/ pc' = [t \in Threads |-> "idle"])
  BY <1>4 DEF Crash, Terminated, vars
<1>5. ASSUME received' = received,
             \/ pc' = pc \/ pc' = [t \in Threads |-> "idle"]
             \/ \E t \in Threads : pc' = [pc EXCEPT ![t] = "idle"] \/ pc' = [pc EXCEPT ![t] = "publish"]
      PROVE  AtWork' \subseteq AtWork /\ received' \in Nat /\ received' >= received
  BY <1>1, <1>5 DEF AtWork
<1>6. ASSUME NEW t \in Threads, Request(t), pc' = pc
      PROVE  AtWork' \subseteq AtWork /\ received' \in Nat /\ received' >= received
  BY <1>1, <1>2, <1>6 DEF AtWork
<1>7. ASSUME NEW t \in Threads, Request(t), pc' = [pc EXCEPT ![t] = "commit"]
      PROVE  t \in Threads \ AtWork /\ AtWork' = AtWork \cup {t} /\ received' = received + 1
  BY <1>1, <1>2, <1>7 DEF AtWork
<1> QED BY <1>2, <1>3, <1>4, <1>5, <1>6, <1>7 DEF Next

LEMMA NextKeepsBounded ==
    ASSUME IInv, TxInv, Linked, Bounded, [TxNext]_txVars
    PROVE  Bounded'
<1> DEFINE c == Cardinality(AtWork)
           d == Cardinality(AtWork')
<1>1. /\ c \in Nat /\ received \in Nat /\ Len(log) \in Nat
      /\ IsFiniteSet(AtWork) /\ Len(log) + 2 * c <= 2 * received
  BY FS_CardinalityType, LenProperties DEF Bounded, IInv, TypeOK, TxInv, TxTypeOK
<1>2. [Next]_vars
  BY TxNextIsNext
<1>3. CASE UNCHANGED log
  <2>1. CASE AtWork' \subseteq AtWork /\ received' \in Nat /\ received' >= received
    <3>1. IsFiniteSet(AtWork') /\ d \in Nat /\ d <= c
      BY <1>1, <2>1, FS_Subset, FS_CardinalityType
    <3> HIDE DEF c, d
    <3>2. Len(log) + 2 * d <= 2 * received'
      BY <1>1, <2>1, <3>1
    <3> QED BY <1>3, <3>1, <3>2 DEF Bounded, d
  <2>2. CASE (\E t \in Threads \ AtWork : AtWork' = AtWork \cup {t}) /\ received' = received + 1
    <3>1. IsFiniteSet(AtWork') /\ d = c + 1
      BY <1>1, <2>2, FS_AddElement
    <3> HIDE DEF c, d
    <3>2. Len(log) + 2 * d <= 2 * received'
      BY <1>1, <2>2, <3>1
    <3> QED BY <1>3, <3>1, <3>2 DEF Bounded, d
  <2> QED BY <1>2, <2>1, <2>2, AtWorkSteps
<1>4. ASSUME NEW t \in Threads, Commit(t), Appends(work[t])
      PROVE  Bounded'
  <2>1. pc[t] = "commit" /\ Len(work[t].events) \in 1 .. 2
        /\ Len(log') = Len(log) + Len(work[t].events)
    BY <1>4, CommitMeans, AppendKeepsLinked
  <2>2. t \in AtWork /\ AtWork' = AtWork \ {t} /\ received' = received
    BY <1>4, <2>1 DEF AtWork, Commit, Committed, Release, Appends, IInv, TypeOK
  <2>3. IsFiniteSet(AtWork') /\ d = c - 1
    BY <1>1, <2>2, FS_RemoveElement
  <2> HIDE DEF c, d
  <2>4. Len(log') + 2 * d <= 2 * received'
    <3> DEFINE k == Len(log)
               size == Len(work[t].events)
    <3>1. k \in Nat /\ size \in 1 .. 2 /\ Len(log') = k + size
      BY <1>1, <2>1
    <3>2. k + 2 * c <= 2 * received
      BY <1>1
    <3> HIDE DEF k, size
    <3>3. (k + size) + 2 * d <= 2 * received
      BY <1>1, <2>3, <3>1, <3>2
    <3> QED BY <2>2, <3>1, <3>3
  <2> QED BY <2>3, <2>4 DEF Bounded, d
<1> QED BY <1>3, <1>4, LogSteps

LEMMA ChainInductive == TxSpec => [](IInv /\ TxInv /\ Linked /\ Bounded)
<1>1. TxInit => Linked /\ Bounded
  <2> SUFFICES ASSUME TxInit PROVE Linked /\ Bounded
    OBVIOUS
  <2>1. Linked
    BY DEF TxInit, Linked
  <2>2. AtWork = {} /\ received = 0 /\ Len(log) = 0
    BY DEF TxInit, Init, AtWork
  <2> QED BY <2>1, <2>2, FS_EmptySet DEF Bounded
<1>2. IInv /\ TxInv /\ Linked /\ Bounded /\ [TxNext]_txVars => Linked' /\ Bounded'
  BY NextKeepsLinked, NextKeepsBounded
<1> QED BY <1>1, <1>2, TxInductive, PTL DEF TxSpec

-----------------------------------------------------------------------------
(* Theorems about transactions *)

\* unit_of_work.py: "Everything written inside atomic() commits as one transaction, or
\* rolls back together on any error".
THEOREM TransactionsImplementService == TxSpec => ImplementsService
<1>1. TxInit => Init
  BY DEF TxInit
<1>2. IInv /\ TxInv /\ [TxNext]_txVars => [Next]_vars
  BY TxNextIsNext
<1> QED BY <1>1, <1>2, TxInductive, PTL DEF ImplementsService, Spec, TxSpec

\* The row that a save has found stays until it is overwritten.
THEOREM RowsAreStillThere == TxSpec => []RowStillThere
<1>1. TxInv => RowStillThere
  BY DEF TxInv, TxSound, RowStillThere
<1> QED BY <1>1, TxInductive, PTL

\* event_store.py, append: "Runs inside the unit-of-work transaction; appends are
\* serialized".  Whatever the transactions of other threads do meanwhile, the log grows
\* by batches that are sealed to its end, and the anchor with it, as AuditChain has it:
\* the digest that was read and the rows that were counted are those of the log that the
\* transaction commits to.
THEOREM TransactionsKeepChain == TxSpec => KeepsChain
<1>1. TxInit => Audit!Init
  <2> SUFFICES ASSUME TxInit PROVE Audit!Init
    OBVIOUS
  <2>1. Len(log) = 0 /\ log = <<>> /\ head = NoHead
    BY DEF TxInit
  <2>2. Chain(log) = <<>>
    <3> DEFINE nothing == [n \in 1 .. 0 |-> Link(n)]
    <3>1. Chain(log) = nothing
      BY <2>1, ChainIs
    <3> HIDE DEF Link
    <3>2. nothing \in Seq(Nat) /\ Len(nothing) = 0
      OBVIOUS
    <3> QED BY <3>1, <3>2, EmptySeq
  <2> QED BY <2>1, <2>2 DEF Audit!Init, AnchorOf
<1>2. ASSUME IInv, TxInv, Linked, Bounded', IInv', [TxNext]_txVars
      PROVE  [Audit!Next]_(Audit!vars)
  <2>1. ASSUME UNCHANGED <<log, head>> PROVE UNCHANGED Audit!vars
    BY <2>1 DEF Audit!vars
  <2>2. ASSUME NEW t \in Threads, Commit(t), Appends(work[t]) PROVE Audit!Next
    <3> DEFINE d == Cardinality(AtWork')
    <3>1. d \in Nat /\ Len(log') + 2 * d <= 2 * received' /\ Len(log') \in Nat
      BY <2>2, <1>2, FS_CardinalityType, AppendKeepsLinked DEF Bounded
    <3>2. received' \in Nat /\ received' <= MaxRequests /\ MaxRequests \in Nat
      BY <1>2, MaxRequestsAssumption DEF IInv, TypeOK
    <3> HIDE DEF d
    <3>3. Len(log') <= 2 * MaxRequests
      BY <3>1, <3>2
    <3> QED BY <1>2, <2>2, <3>3, AppendIsAudits
  <2> QED BY <1>2, <2>1, <2>2, LogSteps
<1> QED BY <1>1, <1>2, ChainInductive, PTL DEF KeepsChain, Audit!Spec, TxSpec

-----------------------------------------------------------------------------
(* The container *)

ContainerTypeOK ==
    /\ container \in Nat /\ built \in Nat /\ resets \in Nat
    /\ caller \in [Callers -> {"out", "wait", "locked", "constructs", "return"}]

\* Who holds the lock has seen the container missing, if it constructs one.
LockInv ==
    \A t \in Callers : /\ caller[t] \in {"locked", "constructs"} <=> lock = t
                       /\ caller[t] = "constructs" => container = 0

\* A container that is missing has been reset, if it was ever built.
BuiltInv == IF container = 0 THEN built <= resets ELSE built <= 1 + resets

ContainerInv == ContainerTypeOK /\ LockInv /\ BuiltInv /\ NoneOnlyByReset

LEMMA GetKeepsContainerInv ==
    ASSUME ContainerInv, NEW t \in Callers,
           FirstCheck(t) \/ Acquire(t) \/ SecondCheck(t) \/ Construct(t) \/ Return(t)
    PROVE  ContainerInv'
<1>0. caller' \in [Callers -> {"out", "wait", "locked", "constructs", "return"}]
      /\ \A u \in Callers \ {t} : caller'[u] = caller[u]
  BY DEF ContainerInv, ContainerTypeOK, FirstCheck, Acquire, SecondCheck, Construct, Return
<1>1. CASE FirstCheck(t)
  <2>1. caller[t] = "out" /\ caller'[t] = (IF container = 0 THEN "wait" ELSE "return")
        /\ UNCHANGED <<container, lock, built, resets, overtaken>>
    BY <1>1 DEF FirstCheck, ContainerInv, ContainerTypeOK
  <2> QED BY <1>0, <2>1 DEF ContainerInv, ContainerTypeOK, LockInv, BuiltInv, NoneOnlyByReset
<1>2. CASE Acquire(t)
  <2>1. lock = Nobody /\ lock' = t /\ caller'[t] = "locked"
        /\ UNCHANGED <<container, built, resets, overtaken>>
    BY <1>2 DEF Acquire, ContainerInv, ContainerTypeOK
  <2> QED BY <1>0, <2>1, CallersAssumption
          DEF ContainerInv, ContainerTypeOK, LockInv, BuiltInv, NoneOnlyByReset
<1>3. CASE SecondCheck(t)
  <2>1. lock = t /\ UNCHANGED <<container, built, resets, overtaken>>
    BY <1>3 DEF SecondCheck, ContainerInv, LockInv
  <2>2. CASE container = 0
    <3>1. caller'[t] = "constructs" /\ lock' = lock
      BY <1>3, <2>2 DEF SecondCheck, ContainerInv, ContainerTypeOK
    <3> QED BY <1>0, <2>1, <2>2, <3>1
            DEF ContainerInv, ContainerTypeOK, LockInv, BuiltInv, NoneOnlyByReset
  <2>3. CASE container # 0
    <3>1. caller'[t] = "return" /\ lock' = Nobody
      BY <1>3, <2>3 DEF SecondCheck, ContainerInv, ContainerTypeOK
    <3> QED BY <1>0, <2>1, <2>3, <3>1, CallersAssumption
            DEF ContainerInv, ContainerTypeOK, LockInv, BuiltInv, NoneOnlyByReset
  <2> QED BY <2>2, <2>3
<1>4. CASE Construct(t)
  <2>1. lock = t /\ container = 0 /\ built <= resets
    BY <1>4 DEF Construct, ContainerInv, LockInv, BuiltInv
  <2>2. caller'[t] = "return" /\ lock' = Nobody /\ container' = built + 1 /\ built' = built + 1
        /\ UNCHANGED <<resets, overtaken>>
    BY <1>4 DEF Construct, ContainerInv, ContainerTypeOK
  <2>3. container' \in Nat /\ built' \in Nat /\ container' # 0 /\ built' <= 1 + resets'
    BY <2>1, <2>2 DEF ContainerInv, ContainerTypeOK
  <2>4. LockInv'
    BY <1>0, <2>1, <2>2, CallersAssumption DEF ContainerInv, LockInv
  <2> QED BY <1>0, <2>2, <2>3, <2>4 DEF ContainerInv, ContainerTypeOK, BuiltInv, NoneOnlyByReset
<1>5. CASE Return(t)
  <2>1. caller[t] = "return" /\ caller'[t] = "out" /\ overtaken' = overtaken \ {t}
        /\ UNCHANGED <<container, lock, built, resets>>
    BY <1>5 DEF Return, ContainerInv, ContainerTypeOK
  <2> QED BY <1>0, <2>1 DEF ContainerInv, ContainerTypeOK, LockInv, BuiltInv, NoneOnlyByReset
<1> QED BY <1>1, <1>2, <1>3, <1>4, <1>5

LEMMA ResetKeepsContainerInv == ASSUME ContainerInv, ResetContainer PROVE ContainerInv'
<1>1. /\ lock = Nobody /\ container' = 0 /\ resets' = resets + 1
      /\ \A t \in Callers : caller[t] = "return" => t \in overtaken'
      /\ UNCHANGED <<lock, caller, built>>
  BY DEF ResetContainer
<1>2. resets' \in Nat /\ built' <= resets'
  BY <1>1 DEF ContainerInv, ContainerTypeOK, BuiltInv
<1>3. \A t \in Callers : caller[t] \notin {"locked", "constructs"}
  BY <1>1, CallersAssumption DEF ContainerInv, LockInv
<1> QED BY <1>1, <1>2, <1>3 DEF ContainerInv, ContainerTypeOK, LockInv, BuiltInv, NoneOnlyByReset

\* Every step of the server is one of its transactions', or none, and keeps the container.
LEMMA ServerNextIsTxNext ==
    ASSUME ContainerInv, [ServerNext]_svars
    PROVE  [TxNext]_txVars /\ ContainerInv'
<1>1. ASSUME UNCHANGED container_vars PROVE ContainerInv'
  BY <1>1 DEF container_vars, ContainerInv, ContainerTypeOK, LockInv, BuiltInv, NoneOnlyByReset
<1>2. ASSUME NEW t \in Threads, Ask(t) PROVE [TxNext]_txVars /\ ContainerInv'
  BY <1>2, CallersAssumption, GetKeepsContainerInv DEF Ask
<1>3. ASSUME NEW t \in Threads, GetContainer(t) PROVE [TxNext]_txVars /\ ContainerInv'
  BY <1>3, CallersAssumption, GetKeepsContainerInv DEF GetContainer
<1>4. ASSUME NEW t \in Threads, GetTaskService(t) PROVE [TxNext]_txVars /\ ContainerInv'
  BY <1>4, CallersAssumption, GetKeepsContainerInv DEF GetTaskService
<1>5. ASSUME NEW t \in Threads, CallService(t) PROVE [TxNext]_txVars /\ ContainerInv'
  BY <1>5, <1>1 DEF CallService, TxNext
<1>6. ASSUME NEW t \in Threads, Proceed(t) \/ StatementFails(t),
             UNCHANGED <<container_vars, serving>>
      PROVE  [TxNext]_txVars /\ ContainerInv'
  BY <1>6, <1>1 DEF Proceed, TxNext
<1>7. CASE ResetContainer /\ UNCHANGED <<txVars, serving>>
  BY <1>7, ResetKeepsContainerInv
<1>8. CASE Restart
  <2>1. ContainerInv'
    BY <1>8, CallersAssumption
       DEF Restart, ContainerInv, ContainerTypeOK, LockInv, BuiltInv, NoneOnlyByReset
  <2> QED BY <1>8, <2>1 DEF Restart, TxNext
<1>9. CASE AllDone \/ UNCHANGED svars
  BY <1>9, <1>1 DEF AllDone, svars
<1> QED BY <1>2, <1>3, <1>4, <1>5, <1>6, <1>7, <1>8, <1>9 DEF ServerNext, Serve

LEMMA ContainerInductive == ServerSpec => []ContainerInv
<1>1. ServerInit => ContainerInv
  BY CallersAssumption
     DEF ServerInit, ContainerInit, ContainerInv, ContainerTypeOK, LockInv, BuiltInv, NoneOnlyByReset
<1>2. ContainerInv /\ [ServerNext]_svars => ContainerInv'
  BY ServerNextIsTxNext
<1> QED BY <1>1, <1>2, PTL DEF ServerSpec

-----------------------------------------------------------------------------
(* Theorems about the server *)

\* Behind the container and its threads, the server does what its transactions do.
THEOREM ServerRunsTransactions == ServerSpec => TxSpec
<1>1. ServerInit => TxInit
  BY DEF ServerInit
<1>2. ContainerInv /\ [ServerNext]_svars => [TxNext]_txVars
  BY ServerNextIsTxNext
<1> QED BY <1>1, <1>2, ContainerInductive, PTL DEF ServerSpec, TxSpec

\* container.py: "Constructs and wires the object graph exactly once per process",
\* for any number of threads that find it missing, and once more after each reset.
THEOREM ContainerBuiltOnce == ServerSpec => []BuiltOnce
<1>1. ContainerInv => BuiltOnce
  BY DEF ContainerInv, ContainerTypeOK, BuiltInv, BuiltOnce
<1> QED BY <1>1, ContainerInductive, PTL

\* get_container returns None only if a reset came between the check, or the
\* construction, with which this very call found the container there, and its return,
\* whatever was reset before it and however many threads ask meanwhile.
THEOREM ContainerIsThere == ServerSpec => []NoneOnlyByReset
<1>1. ContainerInv => NoneOnlyByReset
  BY DEF ContainerInv
<1> QED BY <1>1, ContainerInductive, PTL

\* The use cases that the server runs are those of the service, what they append is
\* what AuditChain has appended, and the row a save has found stays until it is
\* overwritten.
THEOREM ServerImplementsService ==
    ServerSpec => ImplementsService /\ KeepsChain /\ []RowStillThere
  BY ServerRunsTransactions, TransactionsImplementService, TransactionsKeepChain,
     RowsAreStillThere

\* services.py, _commit: "state and history commit together or roll back together".
\* So it is for the server as a whole: its threads, its locks, its statements and its
\* restarts are an implementation of the ledger, which has none of them.
THEOREM ServerImplementsLedger == EventSourcing => (ServerSpec => LedgerSpec)
<1> SUFFICES ASSUME EventSourcing PROVE ServerSpec => LedgerSpec
  OBVIOUS
<1>1. Spec => LedgerSpec
  BY ServiceImplementsLedger
<1>2. ServerSpec => Spec
  BY ServerImplementsService DEF ImplementsService
<1> QED BY <1>1, <1>2, PTL
=============================================================================
