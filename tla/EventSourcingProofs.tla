------------------------- MODULE EventSourcingProofs -------------------------
(***************************************************************************)
(* The event-sourced repository answers the same from any snapshot, for    *)
(* any tasks, readers and histories: an event gives a field a value of its *)
(* own or leaves it alone, so that applying events a second time, to a     *)
(* state that has them in it already, does no harm.                        *)
(***************************************************************************)
EXTENDS EventSourcing, TaskLedgerProofs, TaskDomainProofs

\* A state that replaying the task's first events gives, up to last or further; what
\* last refers to is not a deletion.
Fits(id, last, state) ==
    /\ last \in 1 .. Len(stream[id])
    /\ stream[id][last].kind # "TaskDeleted"
    /\ \E k \in last .. Len(stream[id]) : state = Partial(NoTask, stream[id])[k]

\* What a reader holds fits.
ReaderFits(me) ==
    /\ me # Idle => me.id \in Ids /\ me.last \in 1 .. Len(stream[me.id])
    /\ me.step = "fold" /\ me.snapshot # NoSnapshot =>
          Fits(me.id, me.snapshot.last, me.snapshot.state)
    /\ me.step = "store" => Fits(me.id, me.last, me.state)

IInv ==
    /\ \A id \in Ids : Len(stream[id]) <= MaxEvents
    /\ snapshots \in [Ids -> SUBSET Snapshot]
    /\ \A id \in Ids : \A s \in snapshots[id] : Fits(id, s.last, s.state)
    /\ reader \in [Readers -> {Idle} \cup Looking \cup Folding \cup Storing]
    /\ \A r \in Readers : ReaderFits(reader[r])

-----------------------------------------------------------------------------
(* What is written beside the readers *)

LEMMA WritersAreTheLedgers == Spec => LedgerSpec
<1>1. Init => LedgerInit
  BY DEF Init
<1>2. [Next]_vars => [LedgerNext]_ledger
  BY DEF Next, vars, Write, StartSnapshot, FindNewest, FoldEvents, StoreSnapshot, Goto
<1> QED BY <1>1, <1>2, PTL DEF Spec, LedgerSpec

\* Streams only grow.
LEMMA StreamsGrow ==
    ASSUME LedgerInv, LedgerNext, NEW id \in Ids
    PROVE  /\ Len(stream[id]) \in Nat /\ Len(stream'[id]) \in Nat
           /\ Len(stream[id]) <= Len(stream'[id])
           /\ \A n \in 1 .. Len(stream[id]) : stream'[id][n] = stream[id][n]
<1>1. PICK i \in Ids : AddTask(i) \/ ChangeTask(i) \/ RemoveTask(i)
  BY DEF LedgerNext
<1>2. Step(i) /\ stream' \in [Ids -> Seq(Event)] /\ stream \in [Ids -> Seq(Event)]
  BY <1>1, NextIsStep DEF LedgerInv, LedgerTypeOK
<1>3. Len(stream[id]) \in Nat /\ Len(stream'[id]) \in Nat
  BY <1>2, LenProperties
<1>4. CASE id # i
  BY <1>2, <1>3, <1>4 DEF Step
<1>5. CASE stream[id] = <<>>
  <2>1. Len(stream[id]) = 0
    BY <1>5
  <2> QED BY <2>1, <1>3
<1>6. CASE id = i /\ stream[id] # <<>>
  BY <1>2, <1>3, <1>6 DEF Step, GoesOn
<1> QED BY <1>4, <1>5, <1>6

LEMMA FitsStays ==
    ASSUME LedgerInv, LedgerNext, NEW id \in Ids, NEW last, NEW state, Fits(id, last, state)
    PROVE  Fits(id, last, state)'
<1> DEFINE old == stream[id]
           new == stream'[id]
<1>1. /\ Len(old) \in Nat /\ Len(new) \in Nat /\ Len(old) <= Len(new)
      /\ \A n \in 1 .. Len(old) : new[n] = old[n]
  BY StreamsGrow
<1>2. /\ last \in 1 .. Len(old) /\ old[last].kind # "TaskDeleted"
      /\ \E k \in last .. Len(old) : state = Partial(NoTask, old)[k]
  BY DEF Fits
<1> HIDE DEF old, new
<1>3. PICK k \in last .. Len(old) : state = Partial(NoTask, old)[k]
  BY <1>2
<1>4. /\ k \in Nat /\ k <= Len(old) /\ k <= Len(new) /\ k \in 0 .. k /\ k \in last .. Len(new)
      /\ last \in 1 .. Len(new) /\ \A n \in 1 .. k : new[n] = old[n]
  BY <1>1, <1>2
<1>5. Partial(NoTask, new)[k] = Partial(NoTask, old)[k]
  BY <1>1, <1>4, PartialIsStable
<1>6. state = Partial(NoTask, new)[k]
  BY <1>3, <1>5
<1>7. new[last].kind # "TaskDeleted"
  BY <1>1, <1>2
<1> QED BY <1>4, <1>6, <1>7 DEF Fits, new

-----------------------------------------------------------------------------
(* What a reader makes of it *)

LEMMA StreamFacts ==
    ASSUME LedgerInv, NEW id \in Ids, stream[id] # <<>>
    PROVE  /\ stream[id] \in Seq(Event) /\ Len(stream[id]) \in Nat \ {0}
           /\ Head(stream[id]) = stream[id][1] /\ stream[id][1].kind = "TaskCreated"
<1>1. stream[id] \in Seq(Event)
  BY DEF LedgerInv, LedgerTypeOK
<1>2. Len(stream[id]) \in Nat \ {0} /\ Head(stream[id]) = stream[id][1]
  BY <1>1, EmptySeq, LenProperties
<1>3. 1 \in 1 .. Len(stream[id])
  BY <1>2
<1> QED BY <1>1, <1>2, <1>3 DEF LedgerInv, StreamsBeginWithCreation

LEMMA CurrentIsReplay ==
    ASSUME LedgerInv, NEW id \in Ids, stream[id] # <<>>,
           stream[id][Len(stream[id])].kind # "TaskDeleted"
    PROVE  Current(id) = Partial(NoTask, stream[id])[Len(stream[id])]
  BY StreamFacts, ReplayIsLast DEF Current, Rebuild

\* The snapshot's state, and the events after the one it refers to, give the task.
LEMMA FoldIsCurrent ==
    ASSUME LedgerInv, NEW id \in Ids, NEW s,
           s # NoSnapshot => Fits(id, s.last, s.state)
    PROVE  Fold(s, Since(s, stream[id])) = Current(id)
<1>1. CASE s = NoSnapshot
  BY <1>1 DEF Fold, Since, Current
<1>2. CASE s # NoSnapshot
  <2> DEFINE all == stream[id]
             N == Len(all)
             m == s.last
             rest == SubSeq(all, m + 1, N)
  <2>1. PICK k \in m .. N : /\ m \in 1 .. N /\ all[m].kind # "TaskDeleted"
                            /\ s.state = Partial(NoTask, all)[k]
    BY <1>2 DEF Fits
  <2>2. all # <<>>
    BY <2>1
  <2>3. all \in Seq(Event) /\ N \in Nat \ {0} /\ all[1].kind = "TaskCreated"
    BY <2>2, StreamFacts
  <2>4. Replay(s.state, rest) = Partial(NoTask, all)[N]
    BY <2>1, <2>2, <2>3, ReplayAgain
  <2>5. /\ Len(rest) = N - m /\ (rest = <<>> <=> m = N)
        /\ m < N => rest[Len(rest)] = all[N]
        /\ \A i \in 1 .. N - m : rest[i] = all[m + i]
    <3>1. \A i \in m + 1 .. N : all[i] \in Event
      BY <2>1, <2>3, ElementOfSeq
    <3>2. m + 1 \in Int /\ N \in Int
      BY <2>1, <2>3
    <3> HIDE DEF all, N, m
    <3>3. /\ rest \in Seq(Event) /\ Len(rest) = (IF m + 1 <= N THEN N - (m + 1) + 1 ELSE 0)
          /\ \A i \in 1 .. N - (m + 1) + 1 : rest[i] = all[(m + 1) + i - 1]
      BY <3>1, <3>2, SubSeqProperties
    <3> HIDE DEF rest
    <3>4. Len(rest) = N - m
      BY <3>3, <2>1, <2>3
    <3>5. rest = <<>> <=> m = N
      BY <3>3, <3>4, <2>1, <2>3, EmptySeq
    <3>6. ASSUME m < N PROVE rest[Len(rest)] = all[N]
      <4>1. m \in Int /\ N \in Int
        BY <2>1, <2>3
      <4>2. N - m \in 1 .. N - (m + 1) + 1 /\ (m + 1) + (N - m) - 1 = N
        BY <4>1, <3>6
      <4> QED BY <4>2, <3>3, <3>4
    <3>7. ASSUME NEW i \in 1 .. N - m PROVE rest[i] = all[m + i]
      <4>1. m \in Int /\ N \in Int
        BY <2>1, <2>3
      <4>2. i \in 1 .. N - (m + 1) + 1 /\ (m + 1) + i - 1 = m + i
        BY <4>1
      <4> QED BY <4>2, <3>3
    <3> QED BY <3>4, <3>5, <3>6, <3>7
  <2>6. ApplyAll(s.state, rest) = Replay(s.state, rest)
    <3>1. ASSUME NEW i \in 1 .. N - m PROVE all[m + i].kind # "TaskCreated"
      <4>1. m + i \in 1 .. N /\ m + i # 1
        BY <2>1, <2>3
      <4> HIDE DEF m, N
      <4> QED BY <4>1 DEF LedgerInv, StreamsBeginWithCreation, N
    <3>2. N - m \in Nat
      BY <2>1, <2>3
    <3> HIDE DEF rest, all, m, N
    <3> QED BY <2>5, <3>1, <3>2, ReplayApplies
  <2>7. Since(s, all) = rest
    BY <1>2 DEF Since
  <2> HIDE DEF rest, m
  <2>8. CASE all[N].kind = "TaskDeleted"
    <3>1. m < N
      BY <2>1, <2>3, <2>8
    <3>2. Fold(s, rest) = NotFound
      BY <2>5, <2>8, <3>1, <2>3, <2>1 DEF Fold
    <3>3. Current(id) = NotFound
      BY <2>8 DEF Current
    <3> QED BY <3>2, <3>3, <2>7
  <2>9. CASE all[N].kind # "TaskDeleted"
    <3>1. ~ (rest # <<>> /\ rest[Len(rest)].kind = "TaskDeleted")
      BY <2>5, <2>9, <2>1, <2>3
    <3>2. Fold(s, rest) = ApplyAll(s.state, rest)
      BY <3>1, <1>2 DEF Fold
    <3>3. Current(id) = Partial(NoTask, all)[N]
      BY <2>2, <2>9, CurrentIsReplay
    <3> QED BY <3>2, <3>3, <2>4, <2>6, <2>7
  <2> QED BY <2>8, <2>9
<1> QED BY <1>1, <1>2

-----------------------------------------------------------------------------
(* Steps *)

LEMMA ReaderFitsStays ==
    ASSUME LedgerInv, LedgerNext, NEW me, ReaderFits(me)
    PROVE  ReaderFits(me)'
<1>1. me # Idle => me.id \in Ids /\ me.last \in 1 .. Len(stream'[me.id])
  BY StreamsGrow DEF ReaderFits
<1>2. me.step = "fold" /\ me.snapshot # NoSnapshot =>
         Fits(me.id, me.snapshot.last, me.snapshot.state)'
  BY FitsStays DEF ReaderFits, Idle
<1>3. me.step = "store" => Fits(me.id, me.last, me.state)'
  BY FitsStays DEF ReaderFits, Idle
<1> QED BY <1>1, <1>2, <1>3 DEF ReaderFits

LEMMA WriteKeepsIInv == ASSUME LedgerInv, IInv, Write PROVE IInv'
<1>1. LedgerNext /\ UNCHANGED <<snapshots, reader>> /\ \A id \in Ids : Len(stream'[id]) <= MaxEvents
  BY DEF Write
<1>2. ASSUME NEW id \in Ids, NEW s \in snapshots'[id] PROVE Fits(id, s.last, s.state)'
  BY <1>1, <1>2, FitsStays DEF IInv
<1>3. ASSUME NEW r \in Readers PROVE ReaderFits(reader[r])'
  <2>1. PICK me : me = reader[r]
    OBVIOUS
  <2>2. reader'[r] = me /\ ReaderFits(me)
    BY <1>1, <2>1 DEF IInv
  <2>3. ReaderFits(me)'
    BY <1>1, <2>2, ReaderFitsStays
  <2> QED BY <2>2, <2>3 DEF ReaderFits, Fits
<1> QED BY <1>1, <1>2, <1>3 DEF IInv

LEMMA GotoKeepsIInv ==
    ASSUME IInv, NEW r \in Readers, NEW state \in {Idle} \cup Looking \cup Folding \cup Storing,
           ReaderFits(state), Goto(r, state)
    PROVE  IInv'
<1>1. UNCHANGED <<row, stream, snapshots>> /\ reader' = [reader EXCEPT ![r] = state]
  BY DEF Goto, ledger
<1>2. ASSUME NEW u \in Readers PROVE ReaderFits(reader[u])'
  <2>1. PICK me : me = reader'[u]
    OBVIOUS
  <2>2. ReaderFits(me)
    BY <1>1, <2>1 DEF IInv
  <2> QED BY ZenonT(40), <1>1, <2>1, <2>2 DEF ReaderFits, Fits
<1>3. reader' \in [Readers -> {Idle} \cup Looking \cup Folding \cup Storing]
  BY <1>1 DEF IInv
<1> QED BY <1>1, <1>2, <1>3 DEF IInv, Fits

\* What a reader that is at a step holds.
LEMMA AtStep ==
    ASSUME IInv, NEW r \in Readers
    PROVE  /\ reader[r].step = "newest" => reader[r] \in Looking
           /\ reader[r].step = "fold" => reader[r] \in Folding
           /\ reader[r].step = "store" => reader[r] \in Storing
           /\ reader[r].step # "idle" => reader[r] # Idle
           /\ ReaderFits(reader[r])
  BY DEF IInv, Idle, Looking, Folding, Storing

LEMMA StartKeepsIInv ==
    ASSUME LedgerInv, IInv, NEW r \in Readers, StartSnapshot(r)
    PROVE  IInv'
<1>1. PICK id \in Ids : /\ stream[id] # <<>>
                        /\ Goto(r, [step |-> "newest", id |-> id, last |-> Len(stream[id])])
  BY DEF StartSnapshot
<1> DEFINE N == Len(stream[id])
           state == [step |-> "newest", id |-> id, last |-> N]
<1>2. N \in Nat \ {0} /\ N <= MaxEvents
  BY <1>1, StreamFacts DEF IInv
<1>3. N \in 1 .. MaxEvents
  BY <1>2, MaxEventsAssumption
<1>4. state \in Looking /\ ReaderFits(state)
  BY <1>2, <1>3 DEF Looking, ReaderFits
<1>5. Goto(r, state)
  BY <1>1
<1> HIDE DEF state
<1> QED BY <1>4, <1>5, GotoKeepsIInv

LEMMA FindKeepsIInv ==
    ASSUME IInv, NEW r \in Readers, FindNewest(r)
    PROVE  IInv'
<1> DEFINE me == reader[r]
<1>1. me \in Looking /\ ReaderFits(me) /\ me # Idle
  BY AtStep DEF FindNewest
<1>2. PICK s \in Newest(me.id) :
          Goto(r, [step |-> "fold", id |-> me.id, last |-> me.last, snapshot |-> s])
  BY DEF FindNewest
<1> DEFINE state == [step |-> "fold", id |-> me.id, last |-> me.last, snapshot |-> s]
<1>3. s = NoSnapshot \/ s \in snapshots[me.id]
  BY <1>2 DEF Newest
<1>4. me.id \in Ids /\ me.last \in 1 .. MaxEvents /\ me.last \in 1 .. Len(stream[me.id])
  BY <1>1 DEF Looking, ReaderFits
<1>5. s \in Snapshot \cup {NoSnapshot} /\ (s # NoSnapshot => Fits(me.id, s.last, s.state))
  BY <1>3, <1>4 DEF IInv
<1>6. state \in Folding
  BY <1>4, <1>5 DEF Folding
<1>7. ReaderFits(state)
  BY <1>4, <1>5 DEF ReaderFits
<1>8. Goto(r, state)
  BY <1>2
<1> HIDE DEF state
<1> QED BY <1>6, <1>7, <1>8, GotoKeepsIInv

LEMMA FoldKeepsIInv ==
    ASSUME LedgerInv, IInv, NEW r \in Readers, FoldEvents(r)
    PROVE  IInv'
<1> DEFINE me == reader[r]
           all == stream[me.id]
           N == Len(all)
           task == Fold(me.snapshot, Since(me.snapshot, all))
           state == [step |-> "store", id |-> me.id, last |-> me.last, state |-> task]
<1>1. me \in Folding /\ ReaderFits(me) /\ me # Idle /\ me.step = "fold"
  BY AtStep DEF FoldEvents
<1>2. me.id \in Ids /\ me.last \in 1 .. MaxEvents /\ me.last \in 1 .. N
      /\ (me.snapshot # NoSnapshot => Fits(me.id, me.snapshot.last, me.snapshot.state))
  BY <1>1 DEF Folding, ReaderFits
<1>3. task = Current(me.id)
  BY <1>2, FoldIsCurrent
<1>4. IF task = NotFound THEN Goto(r, Idle) ELSE Goto(r, state)
  BY DEF FoldEvents
<1>5. CASE task = NotFound
  <2>1. ReaderFits(Idle)
    BY DEF ReaderFits, Idle
  <2> QED BY <1>4, <1>5, <2>1, GotoKeepsIInv
<1>6. CASE task # NotFound
  <2>1. all # <<>> /\ all[N].kind # "TaskDeleted"
    BY <1>3, <1>6 DEF Current
  <2>2. all \in Seq(Event) /\ N \in Nat \ {0} /\ all[1].kind = "TaskCreated"
    BY <1>2, <2>1, StreamFacts
  <2>3. task = Partial(NoTask, all)[N]
    BY <1>2, <1>3, <2>1, CurrentIsReplay
  <2>4. task \in Task
    BY <2>1, <2>2, <2>3, PartialTasks
  <2>5. all[me.last].kind # "TaskDeleted"
    <3> SUFFICES ASSUME all[me.last].kind = "TaskDeleted" PROVE FALSE
      OBVIOUS
    <3>1. me.last < N /\ N \in 1 .. N
      BY <1>2, <2>1, <2>2
    <3> QED BY <1>2, <2>1, <3>1 DEF LedgerInv, DeletionIsFinal
  <2> HIDE DEF task
  <2>6. state \in Storing
    BY <1>2, <2>4 DEF Storing
  <2>7. Fits(me.id, me.last, task)
    BY <1>2, <2>2, <2>3, <2>5 DEF Fits
  <2>8. ReaderFits(state)
    BY <1>2, <2>7 DEF ReaderFits
  <2>9. Goto(r, state)
    BY <1>4, <1>6
  <2> HIDE DEF state
  <2> QED BY <2>6, <2>8, <2>9, GotoKeepsIInv
<1> QED BY <1>5, <1>6

LEMMA StoreKeepsIInv ==
    ASSUME IInv, NEW r \in Readers, StoreSnapshot(r)
    PROVE  IInv'
<1> DEFINE me == reader[r]
           s == [last |-> me.last, state |-> me.state]
<1>1. me \in Storing /\ ReaderFits(me) /\ me # Idle /\ me.step = "store"
  BY AtStep DEF StoreSnapshot
<1>2. me.id \in Ids /\ s \in Snapshot /\ Fits(me.id, s.last, s.state)
  BY <1>1 DEF Storing, ReaderFits, Snapshot
<1>3. snapshots' = [snapshots EXCEPT ![me.id] = @ \cup {s}]
      /\ reader' = [reader EXCEPT ![r] = Idle] /\ UNCHANGED <<row, stream>>
  BY DEF StoreSnapshot, ledger
<1> HIDE DEF s
<1>4. snapshots' \in [Ids -> SUBSET Snapshot]
  BY <1>2, <1>3 DEF IInv
<1>5. ASSUME NEW id \in Ids, NEW t \in snapshots'[id] PROVE Fits(id, t.last, t.state)
  BY <1>2, <1>3, <1>5 DEF IInv
<1>6. ASSUME NEW u \in Readers PROVE ReaderFits(reader[u])'
  <2>1. PICK it : it = reader'[u]
    OBVIOUS
  <2>2. ReaderFits(it)
    BY <1>3, <2>1 DEF IInv, ReaderFits, Idle
  <2> QED BY <1>3, <2>1, <2>2 DEF ReaderFits, Fits
<1>7. reader' \in [Readers -> {Idle} \cup Looking \cup Folding \cup Storing]
  BY <1>3 DEF IInv
<1> QED BY <1>3, <1>4, <1>5, <1>6, <1>7 DEF IInv, Fits

LEMMA Inductive == Spec => [](LedgerInv /\ IInv)
<1>1. Init => IInv
  <2> SUFFICES ASSUME Init PROVE IInv
    OBVIOUS
  <2>1. \A id \in Ids : stream[id] = <<>> /\ Len(stream[id]) = 0
    BY DEF Init, LedgerInit
  <2> QED BY <2>1, MaxEventsAssumption DEF Init, IInv, ReaderFits, Idle
<1>2. LedgerInv /\ IInv /\ [Next]_vars => IInv'
  <2> SUFFICES ASSUME LedgerInv, IInv, [Next]_vars PROVE IInv'
    OBVIOUS
  <2>1. CASE UNCHANGED vars
    <3>1. UNCHANGED <<row, stream, snapshots, reader>>
      BY <2>1 DEF vars, ledger
    <3> QED BY <3>1 DEF IInv, ReaderFits, Fits
  <2> QED BY <2>1, WriteKeepsIInv, StartKeepsIInv, FindKeepsIInv, FoldKeepsIInv, StoreKeepsIInv
          DEF Next
<1> QED BY <1>1, <1>2, WritersAreTheLedgers, LedgerCorrect, PTL DEF Spec

-----------------------------------------------------------------------------
(* Theorems *)

\* Every variable keeps its type: in particular, what is stored as a snapshot is a task.
THEOREM SnapshotTypeCorrect == Spec => []TypeOK
<1>1. LedgerInv /\ IInv => TypeOK
  BY DEF LedgerInv, IInv, TypeOK
<1> QED BY <1>1, Inductive, PTL

\* ADR-0016: "future reads replay only events after the snapshot".  For any number of
\* readers that take snapshots while others write, and for any history, get arrives from
\* any snapshot at what the whole history says.
THEOREM AnySnapshotAnswers == Spec => []AnySnapshotWillDo
<1>1. LedgerInv /\ IInv => AnySnapshotWillDo
  BY FoldIsCurrent DEF IInv, AnySnapshotWillDo
<1> QED BY <1>1, Inductive, PTL
=============================================================================
