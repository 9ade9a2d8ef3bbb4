-------------------------- MODULE TaskLedgerProofs --------------------------
(***************************************************************************)
(* The invariants of the ledger, for any identities, titles, descriptions  *)
(* and priorities.                                                         *)
(***************************************************************************)
EXTENDS TaskLedger, SequenceTheorems, TLAPS

\* The events that may follow others in a stream, other than a deletion.
LegalEvents ==
    {e \in ChangeEvents :
         Strict /\ e.kind = "TaskStatusChanged" => CanTransition(e.from, e.to)}

\* The two streams agree on the first events, and the longer one goes on with
\* events of a given set.
GoesOn(old, new, events) ==
    /\ old \in Seq(Event) /\ new \in Seq(Event)
    /\ Len(old) <= Len(new)
    /\ \A n \in 1 .. Len(old) : new[n] = old[n]
    /\ \A n \in Len(old) + 1 .. Len(new) : new[n] \in events

LedgerInv ==
    /\ LedgerTypeOK
    /\ RowsConsistent
    /\ StreamsBeginWithCreation
    /\ DeletionIsFinal
    /\ RowIffLive
    /\ HistoryIsLegal

-----------------------------------------------------------------------------

LEMMA EventKinds ==
    /\ \A e \in CreatedEvents : e \in Event /\ e.kind = "TaskCreated"
    /\ \A e \in DeletedEvents : e \in Event /\ e.kind = "TaskDeleted"
    /\ \A e \in ChangeEvents : e \in Event /\ e.kind \notin {"TaskCreated", "TaskDeleted"}
  BY DEF Event, ChangeEvents, CreatedEvents, DeletedEvents, EditedEvents, StatusEvents,
         PriorityEvents, MarkerEvents

\* Storing a sequence of events goes on with them.
LEMMA ConcatGoesOn ==
    ASSUME NEW old \in Seq(Event), NEW S \in SUBSET Event, NEW more \in Seq(S)
    PROVE  /\ GoesOn(old, old \o more, S)
           /\ Len(old \o more) = Len(old) + Len(more)
<1>1. more \in Seq(Event)
  BY SeqMonotonic
<1>2. /\ old \o more \in Seq(Event) /\ Len(old \o more) = Len(old) + Len(more)
      /\ \A n \in 1 .. Len(old) + Len(more) :
            (old \o more)[n] = IF n <= Len(old) THEN old[n] ELSE more[n - Len(old)]
  BY <1>1, ConcatProperties
<1>3. Len(old) \in Nat /\ Len(more) \in Nat /\ \A n \in 1 .. Len(more) : more[n] \in S
  BY LenProperties, ElementOfSeq
<1> DEFINE new == old \o more
<1> HIDE DEF new
<1>4. new \in Seq(Event) /\ Len(new) = Len(old) + Len(more)
      /\ \A n \in 1 .. Len(new) :
            new[n] = IF n <= Len(old) THEN old[n] ELSE more[n - Len(old)]
  BY <1>2 DEF new
<1>5. \A n \in Len(old) + 1 .. Len(new) : new[n] \in S
  <2> TAKE n \in Len(old) + 1 .. Len(new)
  <2>1. n - Len(old) \in 1 .. Len(more) /\ n \in 1 .. Len(new) /\ ~ (n <= Len(old))
    BY <1>3, <1>4
  <2> QED BY <2>1, <1>3, <1>4
<1>6. \A n \in 1 .. Len(old) : new[n] = old[n]
  BY <1>3, <1>4
<1> QED BY <1>3, <1>4, <1>5, <1>6 DEF GoesOn, new

\* The events of a batch are legal.
LEMMA BatchesLegal ==
    ASSUME NEW events \in Batches PROVE events \in Seq(LegalEvents)
<1>1. CASE events = <<>>
  BY <1>1, EmptySeq
<1>2. CASE \E e \in EditedEvents \cup PriorityEvents : events = <<e>>
  <2>1. PICK e \in EditedEvents \cup PriorityEvents : events = <<e>>
    BY <1>2
  <2>2. e \in LegalEvents
    BY DEF ChangeEvents, LegalEvents, EditedEvents, PriorityEvents
  <2> QED BY <2>1, <2>2
<1>3. CASE \E s, t \in Statuses : /\ events = StatusChange(s, t)
                                  /\ Strict => CanTransition(s, t)
  <2>1. PICK s \in Statuses, t \in Statuses : /\ events = StatusChange(s, t)
                                              /\ Strict => CanTransition(s, t)
    BY <1>3
  <2> DEFINE changed == [kind |-> "TaskStatusChanged", from |-> s, to |-> t]
  <2>2. changed \in LegalEvents
    BY <2>1 DEF ChangeEvents, LegalEvents, StatusEvents
  <2>3. \A m \in MarkerEvents : m \in LegalEvents
    BY DEF ChangeEvents, LegalEvents, MarkerEvents
  <2>4. [kind |-> "TaskCompleted"] \in LegalEvents /\ [kind |-> "TaskArchived"] \in LegalEvents
    BY <2>3 DEF MarkerEvents
  <2>5. \/ events = <<changed>>
        \/ events = <<changed, [kind |-> "TaskCompleted"]>>
        \/ events = <<changed, [kind |-> "TaskArchived"]>>
    BY <2>1 DEF StatusChange
  <2> DEFINE m1 == [kind |-> "TaskCompleted"]
             m2 == [kind |-> "TaskArchived"]
  <2> HIDE DEF changed, m1, m2
  <2>6. <<changed>> \in Seq(LegalEvents) /\ <<changed, m1>> \in Seq(LegalEvents) /\ <<changed, m2>> \in Seq(LegalEvents)
    BY <2>2, <2>4 DEF m1, m2
  <2> QED BY <2>5, <2>6 DEF m1, m2
<1>4. \/ events = <<>>
      \/ \E e \in EditedEvents \cup PriorityEvents : events = <<e>>
      \/ \E s, t \in Statuses : events = StatusChange(s, t) /\ (Strict => CanTransition(s, t))
  BY DEF Batches
<1> QED BY <1>1, <1>2, <1>3, <1>4

LEMMA BatchIsSeq == ASSUME NEW events \in Batches PROVE events \in Seq(Event)
<1>1. LegalEvents \in SUBSET Event
  BY EventKinds DEF LegalEvents
<1> QED BY <1>1, BatchesLegal, SeqMonotonic

-----------------------------------------------------------------------------
(* Steps *)

\* Every step changes at most one task, and only goes on with its stream: with
\* TaskCreated if it was empty, with legal changes if there is a row, with a
\* deletion if it was not empty.
Step(id) ==
    /\ \A other \in Ids \ {id} : row'[other] = row[other] /\ stream'[other] = stream[other]
    /\ \/ /\ stream[id] = <<>>
          /\ row'[id] \in Task /\ CompletionConsistent(row'[id])
          /\ \E event \in CreatedEvents : stream'[id] = <<event>>
       \/ /\ row[id] # NoTask
          /\ row'[id] \in Task /\ CompletionConsistent(row'[id])
          /\ GoesOn(stream[id], stream'[id], LegalEvents)
       \/ /\ stream[id] # <<>>
          /\ row'[id] = NoTask
          /\ GoesOn(stream[id], stream'[id], DeletedEvents)
          /\ Len(stream'[id]) = Len(stream[id]) + 1

LEMMA NextIsStep ==
    ASSUME LedgerTypeOK, NEW id \in Ids, AddTask(id) \/ ChangeTask(id) \/ RemoveTask(id)
    PROVE  Step(id) /\ row' \in [Ids -> Task \cup {NoTask}] /\ stream' \in [Ids -> Seq(Event)]
<1>0. stream \in [Ids -> Seq(Event)] /\ row \in [Ids -> Task \cup {NoTask}]
      /\ stream[id] \in Seq(Event)
  BY DEF LedgerTypeOK
<1>1. CASE AddTask(id)
  <2>1. PICK event \in CreatedEvents : Store(id, RebuildStep(NoTask, event), <<event>>)
    BY <1>1 DEF AddTask
  <2>2. stream[id] = <<>> /\ event \in Event
    BY <1>1, EventKinds DEF AddTask
  <2>3. RebuildStep(NoTask, event) \in Task /\ CompletionConsistent(RebuildStep(NoTask, event))
    BY DEF RebuildStep, Apply, Task, CreatedEvents, CompletionConsistent, Statuses
  <2> DEFINE task == RebuildStep(NoTask, event)
             new == stream[id] \o <<event>>
  <2>4. new = <<event>> /\ new \in Seq(Event)
    BY <2>2, ConcatEmptySeq
  <2>5. row' = [row EXCEPT ![id] = task] /\ stream' = [stream EXCEPT ![id] = new]
    BY <2>1 DEF Store
  <2> HIDE DEF task, new
  <2> QED BY <1>0, <2>2, <2>3, <2>4, <2>5 DEF Step, task
<1>2. CASE ChangeTask(id)
  <2>1. PICK task \in Task, events \in Batches :
            CompletionConsistent(task) /\ Store(id, task, events)
    BY <1>2 DEF ChangeTask
  <2> DEFINE new == stream[id] \o events
  <2>2. events \in Seq(LegalEvents)
    BY BatchesLegal
  <2>3. LegalEvents \in SUBSET Event
    BY EventKinds DEF LegalEvents
  <2>4. GoesOn(stream[id], new, LegalEvents)
    BY <1>0, <2>2, <2>3, ConcatGoesOn
  <2>5. row' = [row EXCEPT ![id] = task] /\ stream' = [stream EXCEPT ![id] = new]
    BY <2>1 DEF Store
  <2>6. new \in Seq(Event)
    BY <2>4 DEF GoesOn
  <2>7. row[id] # NoTask
    BY <1>2 DEF ChangeTask
  <2> HIDE DEF new
  <2> QED BY <1>0, <2>1, <2>4, <2>5, <2>6, <2>7 DEF Step
<1>3. CASE RemoveTask(id)
  <2>1. PICK event \in DeletedEvents : Store(id, NoTask, <<event>>)
    BY <1>3 DEF RemoveTask
  <2> DEFINE new == stream[id] \o <<event>>
  <2>2. <<event>> \in Seq(DeletedEvents) /\ Len(<<event>>) = 1
    OBVIOUS
  <2>3. DeletedEvents \in SUBSET Event
    BY EventKinds
  <2>4. GoesOn(stream[id], new, DeletedEvents) /\ Len(new) = Len(stream[id]) + 1
    BY <1>0, <2>2, <2>3, ConcatGoesOn
  <2>5. row' = [row EXCEPT ![id] = NoTask] /\ stream' = [stream EXCEPT ![id] = new]
    BY <2>1 DEF Store
  <2>6. new \in Seq(Event) /\ stream[id] # <<>>
    BY <2>4, <1>3 DEF GoesOn, RemoveTask
  <2> HIDE DEF new
  <2> QED BY <1>0, <2>4, <2>5, <2>6 DEF Step
<1> QED BY <1>1, <1>2, <1>3

LEMMA StepKeepsLedgerInv ==
    ASSUME LedgerInv, NEW id \in Ids, AddTask(id) \/ ChangeTask(id) \/ RemoveTask(id)
    PROVE  LedgerInv'
<1>1. LedgerTypeOK'
  BY NextIsStep DEF LedgerInv, LedgerTypeOK
<1>2. Step(id)
  BY NextIsStep DEF LedgerInv
<1>3. \A other \in Ids \ {id} : row'[other] = row[other] /\ stream'[other] = stream[other]
  BY <1>2 DEF Step
<1> DEFINE old == stream[id]
           new == stream'[id]
<1>4. old \in Seq(Event) /\ new \in Seq(Event) /\ Len(old) \in Nat /\ Len(new) \in Nat
      /\ (old = <<>> <=> Len(old) = 0) /\ (new = <<>> <=> Len(new) = 0)
      /\ \A n \in 1 .. Len(new) : new[n] \in Event
  BY <1>1, LenProperties, EmptySeq, ElementOfSeq DEF LedgerInv, LedgerTypeOK
\* What the invariant says of the old stream alone.
<1>5. /\ row[id] # NoTask <=> old # <<>> /\ old[Len(old)].kind # "TaskDeleted"
      /\ \A n \in 1 .. Len(old) : old[n].kind = "TaskCreated" <=> n = 1
      /\ \A m, n \in 1 .. Len(old) :
            m < n /\ old[m].kind = "TaskDeleted" => old[n].kind = "TaskDeleted"
      /\ Strict => \A n \in 1 .. Len(old) : old[n].kind = "TaskStatusChanged"
                                    => CanTransition(old[n].from, old[n].to)
  BY DEF LedgerInv, RowIffLive, StreamsBeginWithCreation, DeletionIsFinal, HistoryIsLegal
\* The same of the new one, and of the new row.
<1> DEFINE Good ==
      /\ row'[id] # NoTask => CompletionConsistent(row'[id])
      /\ row'[id] # NoTask <=> new # <<>> /\ new[Len(new)].kind # "TaskDeleted"
      /\ \A n \in 1 .. Len(new) : new[n].kind = "TaskCreated" <=> n = 1
      /\ \A m, n \in 1 .. Len(new) :
            m < n /\ new[m].kind = "TaskDeleted" => new[n].kind = "TaskDeleted"
      /\ Strict => \A n \in 1 .. Len(new) : new[n].kind = "TaskStatusChanged"
                                    => CanTransition(new[n].from, new[n].to)
<1> HIDE DEF old, new
<1>6. ASSUME /\ old = <<>>
             /\ row'[id] \in Task /\ CompletionConsistent(row'[id])
             /\ \E event \in CreatedEvents : new = <<event>>
      PROVE  Good
  <2>1. PICK event \in CreatedEvents : new = <<event>>
    BY <1>6
  <2>2. Len(new) = 1 /\ new[1] = event /\ event.kind = "TaskCreated"
    BY <2>1, EventKinds
  <2> QED BY <2>2, <1>4, <1>6, NoTaskAssumption
<1>7. ASSUME /\ row[id] # NoTask
             /\ row'[id] \in Task /\ CompletionConsistent(row'[id])
             /\ GoesOn(old, new, LegalEvents)
      PROVE  Good
  <2>1. Len(old) > 0 /\ Len(new) > 0 /\ Len(old) <= Len(new) /\ new # <<>>
    BY <1>4, <1>5, <1>7 DEF GoesOn
  <2>2. \A n \in 1 .. Len(old) : old[n].kind # "TaskDeleted"
    <3> SUFFICES ASSUME NEW n \in 1 .. Len(old), old[n].kind = "TaskDeleted" PROVE FALSE
      OBVIOUS
    <3>1. old[Len(old)].kind # "TaskDeleted"
      BY <1>5, <1>7
    <3> QED BY <3>1, <2>1, <1>4, <1>5
  <2>3. \A n \in 1 .. Len(old) : new[n] = old[n]
    BY <1>7 DEF GoesOn
  <2>4. \A n \in Len(old) + 1 .. Len(new) :
            /\ new[n].kind \notin {"TaskCreated", "TaskDeleted"}
            /\ Strict /\ new[n].kind = "TaskStatusChanged"
                   => CanTransition(new[n].from, new[n].to)
    BY <1>7, EventKinds DEF GoesOn, LegalEvents
  <2>5. \A n \in 1 .. Len(new) : n \in 1 .. Len(old) \/ n \in Len(old) + 1 .. Len(new)
    BY <1>4
  <2>6. \A n \in 1 .. Len(new) : new[n].kind # "TaskDeleted"
    BY <2>2, <2>3, <2>4, <2>5
  <2>7. \A n \in 1 .. Len(new) : new[n].kind = "TaskCreated" <=> n = 1
    BY <2>1, <2>3, <2>4, <2>5, <1>4, <1>5
  <2>8. Strict => \A n \in 1 .. Len(new) : new[n].kind = "TaskStatusChanged"
                               => CanTransition(new[n].from, new[n].to)
    BY <2>3, <2>4, <2>5, <1>5
  <2>9. new[Len(new)].kind # "TaskDeleted"
    BY <2>1, <2>6, <1>4
  <2> QED BY <2>1, <2>6, <2>7, <2>8, <2>9, <1>7, NoTaskAssumption
<1>8. ASSUME /\ old # <<>>
             /\ row'[id] = NoTask
             /\ GoesOn(old, new, DeletedEvents)
             /\ Len(new) = Len(old) + 1
      PROVE  Good
  <2>1. new[Len(new)].kind = "TaskDeleted"
    BY <1>4, <1>8, EventKinds DEF GoesOn
  <2>2. \A n \in 1 .. Len(old) : new[n] = old[n]
    BY <1>8 DEF GoesOn
  <2>3. \A n \in 1 .. Len(new) : n \in 1 .. Len(old) \/ n = Len(new)
    BY <1>4, <1>8
  <2>4. \A n \in 1 .. Len(new) : new[n].kind = "TaskCreated" <=> n = 1
    BY <2>1, <2>2, <2>3, <1>4, <1>5, <1>8
  <2>5. \A m, n \in 1 .. Len(new) :
            m < n /\ new[m].kind = "TaskDeleted" => new[n].kind = "TaskDeleted"
    BY <2>1, <2>2, <2>3, <1>4, <1>5, <1>8
  <2>6. Strict => \A n \in 1 .. Len(new) : new[n].kind = "TaskStatusChanged"
                               => CanTransition(new[n].from, new[n].to)
    BY <2>1, <2>2, <2>3, <1>5
  <2> QED BY <2>1, <2>4, <2>5, <2>6, <1>4, <1>8
<1>9. Good
  BY <1>2, <1>6, <1>7, <1>8 DEF Step, old, new
<1>10. RowsConsistent'
  BY <1>3, <1>9 DEF LedgerInv, RowsConsistent
<1>11. StreamsBeginWithCreation' /\ DeletionIsFinal'
  BY <1>3, <1>9 DEF LedgerInv, StreamsBeginWithCreation, DeletionIsFinal, new
<1>12. RowIffLive'
  BY <1>3, <1>9 DEF LedgerInv, RowIffLive, new
<1>13. HistoryIsLegal'
  BY <1>3, <1>9 DEF LedgerInv, HistoryIsLegal, new
<1> QED BY <1>1, <1>10, <1>11, <1>12, <1>13 DEF LedgerInv

LEMMA InitLedgerInv == LedgerInit => LedgerInv
<1> SUFFICES ASSUME LedgerInit PROVE LedgerInv
  OBVIOUS
<1>1. LedgerTypeOK
  BY EmptySeq DEF LedgerInit, LedgerTypeOK
<1>2. \A id \in Ids : row[id] = NoTask /\ stream[id] = <<>> /\ Len(stream[id]) = 0
  BY DEF LedgerInit
<1> QED BY <1>1, <1>2 DEF LedgerInv, RowsConsistent, StreamsBeginWithCreation, DeletionIsFinal,
                          RowIffLive, HistoryIsLegal

\* The ledger's types and its five guarantees hold in every reachable state: rows
\* have consistent completion timestamps and exist exactly while the history says
\* so, streams begin with their only creation, nothing follows a deletion but
\* deletions, and every stored status change is legal.
THEOREM LedgerCorrect == LedgerSpec => []LedgerInv
<1>1. LedgerInv /\ [LedgerNext]_ledger => LedgerInv'
  <2> SUFFICES ASSUME LedgerInv, [LedgerNext]_ledger PROVE LedgerInv'
    OBVIOUS
  <2>1. CASE LedgerNext
    BY <2>1, StepKeepsLedgerInv DEF LedgerNext
  <2>2. CASE UNCHANGED ledger
    BY <2>2 DEF ledger, LedgerInv, LedgerTypeOK, RowsConsistent, StreamsBeginWithCreation,
                DeletionIsFinal, RowIffLive, HistoryIsLegal
  <2> QED BY <2>1, <2>2
<1> QED BY InitLedgerInv, <1>1, PTL DEF LedgerSpec
=============================================================================
