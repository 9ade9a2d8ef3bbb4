-------------------------- MODULE TaskDomainProofs --------------------------
(***************************************************************************)
(* Lemmas about the operators of TaskDomain: what a command's outcome is,  *)
(* that its events explain its effect, and what replay returns.            *)
(***************************************************************************)
EXTENDS TaskDomain, SequenceTheorems, WellFoundedInduction, TLAPS

\* A sequence of two elements.
LEMMA Pair ==
    ASSUME NEW S, NEW a \in S, NEW b \in S
    PROVE  <<a, b>> \in Seq(S) /\ <<a, b>> = <<a>> \o <<b>>
<1>1. <<a, b>> \in Seq(S) /\ <<a>> \in Seq(S) /\ <<b>> \in Seq(S)
  OBVIOUS
<1>2. <<a>> \o <<b>> \in Seq(S) /\ Len(<<a>> \o <<b>>) = 2
      /\ (<<a>> \o <<b>>)[1] = a /\ (<<a>> \o <<b>>)[2] = b
  BY <1>1, ConcatProperties
<1>3. Len(<<a, b>>) = 2 /\ <<a, b>>[1] = a /\ <<a, b>>[2] = b
  OBVIOUS
<1>4. \A i \in 1 .. 2 : <<a, b>>[i] = (<<a>> \o <<b>>)[i]
  <2>1. 1 .. 2 = {1, 2}
    OBVIOUS
  <2> QED BY <2>1, <1>2, <1>3
<1> QED BY <1>1, <1>2, <1>3, <1>4, SeqEqual

-----------------------------------------------------------------------------
(* Replay *)

\* partial is the sequence of tasks that replaying events goes through.
IsReplay(partial, events) ==
    partial = [n \in 0 .. Len(events) |->
                  IF n = 0 THEN NoTask ELSE RebuildStep(partial[n - 1], events[n])]

\* Replaying events, from no task at all, ends in task.  That there is such a
\* sequence is part of the statement, so that it can be extended event by event.
Replays(events, task) ==
    /\ \E partial : IsReplay(partial, events)
    /\ \A partial : IsReplay(partial, events) => partial[Len(events)] = task

\* The empty stream replays to no task.
LEMMA ReplaysNothing == Replays(<<>>, NoTask)
<1>1. IsReplay([n \in 0 .. 0 |-> NoTask], <<>>)
  BY DEF IsReplay
<1>2. ASSUME NEW partial, IsReplay(partial, <<>>) PROVE partial[0] = NoTask
  BY <1>2 DEF IsReplay
<1> QED BY <1>1, <1>2 DEF Replays

\* One more event takes the replay one step further.
LEMMA ReplaysOneMore ==
    ASSUME NEW S, NEW events \in Seq(S), NEW event, NEW task, Replays(events, task)
    PROVE  Replays(Append(events, event), RebuildStep(task, event))
<1> DEFINE more == Append(events, event)
           N == Len(events)
<1>1. /\ N \in Nat /\ Len(more) = N + 1
      /\ \A n \in 1 .. N : more[n] = events[n]
      /\ more[N + 1] = event
  OBVIOUS
<1> HIDE DEF more, N
<1>2. \E partial : IsReplay(partial, more)
  <2>1. PICK p : IsReplay(p, events)
    BY DEF Replays
  <2> DEFINE q == [n \in 0 .. N + 1 |-> IF n <= N THEN p[n] ELSE RebuildStep(task, event)]
  <2>2. p[N] = task
    BY <2>1 DEF Replays, N
  <2>3. ASSUME NEW n \in 0 .. N + 1
        PROVE  q[n] = IF n = 0 THEN NoTask ELSE RebuildStep(q[n - 1], more[n])
    <3>1. CASE n = 0
      BY <3>1, <2>1, <1>1 DEF IsReplay, N
    <3>2. CASE n \in 1 .. N
      <4>1. q[n] = p[n] /\ q[n - 1] = p[n - 1]
        BY <3>2, <1>1
      <4>2. p[n] = RebuildStep(p[n - 1], events[n])
        BY SMTT(40), <2>1, <3>2, <1>1 DEF IsReplay, N
      <4> QED BY <4>1, <4>2, <3>2, <1>1
    <3>3. CASE n = N + 1
      BY <3>3, <2>2, <1>1
    <3> QED BY <3>1, <3>2, <3>3, <1>1
  <2>4. IsReplay(q, more)
    BY <2>3, <1>1 DEF IsReplay
  <2> QED BY <2>4
<1>3. ASSUME NEW q, IsReplay(q, more) PROVE q[N + 1] = RebuildStep(task, event)
  <2> DEFINE p == [n \in 0 .. N |-> q[n]]
  <2>1. \A n \in 0 .. N + 1 : q[n] = IF n = 0 THEN NoTask ELSE RebuildStep(q[n - 1], more[n])
    BY <1>3, <1>1 DEF IsReplay
  <2>2. ASSUME NEW n \in 0 .. N
        PROVE  p[n] = IF n = 0 THEN NoTask ELSE RebuildStep(p[n - 1], events[n])
    BY <2>1, <1>1
  <2>3. IsReplay(p, events)
    BY <2>2 DEF IsReplay, N
  <2>4. q[N] = task
    BY <2>3, <1>1 DEF Replays, N
  <2> QED BY <2>4, <2>1, <1>1
<1> QED BY <1>1, <1>2, <1>3 DEF Replays, more

\* Rebuild returns what the events replay to, when the first one is TaskCreated.
LEMMA ReplaysRebuild ==
    ASSUME NEW events, NEW task, Replays(events, task),
           events # <<>>, Head(events).kind = "TaskCreated"
    PROVE  Rebuild(events) = task
<1>1. Rebuild(events) = (CHOOSE partial : IsReplay(partial, events))[Len(events)]
  BY DEF Rebuild, Replay, IsReplay
<1> QED BY <1>1 DEF Replays

\* A command changed task to result and recorded event, which says so.
Tells(task, event, result, enforce) ==
    /\ event \in ChangeEvents \cup DeletedEvents
    /\ result = RebuildStep(task, event)
    /\ event.kind = "TaskStatusChanged" =>
          event.from = task.status /\ (enforce => CanTransition(event.from, event.to))

\* Events that a command records: none, one, or a change and its semantic event.
Explains(task, events, result, enforce) ==
    \/ events = <<>> /\ result = task
    \/ \E e \in Event : events = <<e>> /\ Tells(task, e, result, enforce)
    \/ \E e \in Event, f \in MarkerEvents :
          events = <<e, f>> /\ Tells(task, e, result, enforce) /\ Tells(result, f, result, enforce)

\* Two more events are one and another one.
LEMMA TwoMore ==
    ASSUME NEW S, NEW events \in Seq(S), NEW e \in S, NEW f \in S
    PROVE  /\ Append(events, e) \in Seq(S)
           /\ events \o <<e, f>> = Append(Append(events, e), f)
<1>1. <<e, f>> = <<e>> \o <<f>>
  BY Pair
<1>2. Append(events, e) \in Seq(S) /\ Append(events, e) = events \o <<e>>
  BY AppendIsConcat, AppendProperties
<1>3. Append(Append(events, e), f) = (events \o <<e>>) \o <<f>>
  BY <1>2, AppendIsConcat
<1>4. <<e>> \in Seq(S) /\ <<f>> \in Seq(S)
  OBVIOUS
<1> QED BY <1>1, <1>2, <1>3, <1>4, ConcatAssociative

\* Events that explain a change extend a replay by it.
LEMMA ReplaysMore ==
    ASSUME NEW events \in Seq(Event), NEW task, Replays(events, task), NEW enforce,
           NEW more \in Seq(Event), NEW result, Explains(task, more, result, enforce)
    PROVE  Replays(events \o more, result)
<1>1. CASE more = <<>> /\ result = task
  <2>1. events \o more = events
    BY <1>1, ConcatEmptySeq
  <2> QED BY <1>1, <2>1
<1>2. ASSUME NEW e \in Event, more = <<e>>, result = RebuildStep(task, e)
      PROVE  Replays(events \o more, result)
  <2>1. events \o more = Append(events, e)
    BY <1>2, AppendIsConcat
  <2> QED BY <1>2, <2>1, ReplaysOneMore
<1>3. ASSUME NEW e \in Event, NEW f \in Event, more = <<e, f>>,
             result = RebuildStep(task, e), result = RebuildStep(result, f)
      PROVE  Replays(events \o more, result)
  <2>1. events \o more = Append(Append(events, e), f) /\ Append(events, e) \in Seq(Event)
    BY <1>3, TwoMore
  <2>2. Replays(Append(events, e), result)
    BY <1>3, ReplaysOneMore
  <2> QED BY <1>3, <2>1, <2>2, ReplaysOneMore
<1> QED BY <1>1, <1>2, <1>3 DEF Explains, Tells, Event, ChangeEvents

-----------------------------------------------------------------------------
(* Replay, event by event *)

\* The natural numbers by induction, said of a set of them.
LEMMA SetInduction ==
    ASSUME NEW T \in SUBSET Nat, 0 \in T, \A n \in T : n + 1 \in T
    PROVE  \A n \in Nat : n \in T
<1> DEFINE R == {p \in Nat \X Nat : p[1] < p[2]}
           W == Nat \ T
<1>1. IsWellFoundedOn(R, Nat)
  BY NatLessThanWellFounded DEF OpToRel
<1>2. SUFFICES ASSUME W # {} PROVE FALSE
  OBVIOUS
<1> HIDE DEF R
<1>3. W \subseteq Nat
  OBVIOUS
<1> HIDE DEF W
<1>4. PICK m \in W : \A k \in W : ~ (<<k, m>> \in R)
  BY <1>1, <1>2, <1>3, WFMin
<1>5. m \in Nat /\ m \notin T
  BY DEF W
<1>6. m # 0 /\ m - 1 \in Nat
  BY <1>5
<1>7. m - 1 \in T
  <2> DEFINE p == <<m - 1, m>>
  <2>1. p \in Nat \X Nat /\ p[1] < p[2]
    BY <1>5, <1>6
  <2>2. p \in R
    BY <2>1 DEF R
  <2> QED BY <2>2, <1>4, <1>6 DEF W
<1> QED BY <1>5, <1>6, <1>7

\* The tasks that replaying the events on a task goes through: the last one is what
\* Replay returns.
Partial(task, events) ==
    LET upTo[n \in 0 .. Len(events)] ==
            IF n = 0 THEN task ELSE RebuildStep(upTo[n - 1], events[n])
    IN  upTo

LEMMA ReplayIsLast ==
    ASSUME NEW task, NEW events
    PROVE  Replay(task, events) = Partial(task, events)[Len(events)]
  BY DEF Replay, Partial

\* Where no task is created, rebuild's loop is the one of the event-sourced get.
LEMMA ReplayApplies ==
    ASSUME NEW task, NEW events,
           \A n \in 1 .. Len(events) : events[n].kind # "TaskCreated", Len(events) \in Nat
    PROVE  ApplyAll(task, events) = Replay(task, events)
<1> DEFINE N == Len(events)
           Built(f) == [n \in 0 .. N |-> IF n = 0 THEN task ELSE RebuildStep(f[n - 1], events[n])]
           Applied(f) == [n \in 0 .. N |-> IF n = 0 THEN task ELSE Apply(f[n - 1], events[n])]
<1>1. ASSUME NEW f PROVE Built(f) = Applied(f)
  <2>1. ASSUME NEW n \in 0 .. N, n # 0
        PROVE  RebuildStep(f[n - 1], events[n]) = Apply(f[n - 1], events[n])
    BY <2>1 DEF RebuildStep
  <2> QED BY <2>1
<1>2. Replay(task, events) = (CHOOSE f : f = Built(f))[N]
  BY DEF Replay
<1>3. ApplyAll(task, events) = (CHOOSE f : f = Applied(f))[N]
  BY DEF ApplyAll
<1> HIDE DEF Built, Applied
<1>4. (CHOOSE f : f = Built(f)) = (CHOOSE f : f = Applied(f))
  BY <1>1
<1> QED BY <1>2, <1>3, <1>4

\* There is such a sequence of tasks, for histories of any length.
LEMMA PartialSteps ==
    ASSUME NEW task, NEW events, Len(events) \in Nat
    PROVE  \A n \in 0 .. Len(events) :
              Partial(task, events)[n] =
                  IF n = 0 THEN task ELSE RebuildStep(Partial(task, events)[n - 1], events[n])
<1> DEFINE Upto(p, m) == p = [n \in 0 .. m |-> IF n = 0 THEN task ELSE RebuildStep(p[n - 1], events[n])]
           T == {m \in Nat : \E p : Upto(p, m)}
<1>1. 0 \in T
  <2> DEFINE p == [n \in 0 .. 0 |-> task]
  <2>1. Upto(p, 0)
    OBVIOUS
  <2> HIDE DEF p
  <2> QED BY <2>1
<1>2. ASSUME NEW m \in T PROVE m + 1 \in T
  <2>1. PICK p : Upto(p, m)
    BY <1>2
  <2>2. m \in Nat
    BY <1>2
  <2> DEFINE q == [n \in 0 .. m + 1 |-> IF n <= m THEN p[n] ELSE RebuildStep(p[m], events[m + 1])]
  <2>3. ASSUME NEW n \in 0 .. m + 1
        PROVE  q[n] = IF n = 0 THEN task ELSE RebuildStep(q[n - 1], events[n])
    <3>1. CASE n = 0
      BY <3>1, <2>1, <2>2
    <3>2. CASE n \in 1 .. m
      <4>1. q[n] = p[n] /\ q[n - 1] = p[n - 1] /\ n # 0 /\ n \in 0 .. m
        BY <3>2, <2>2
      <4>2. p[n] = RebuildStep(p[n - 1], events[n])
        BY <2>1, <4>1
      <4> QED BY <4>1, <4>2
    <3>3. CASE n = m + 1
      BY <3>3, <2>2
    <3> QED BY <3>1, <3>2, <3>3, <2>2
  <2>4. Upto(q, m + 1)
    BY <2>3
  <2> HIDE DEF q, Upto
  <2>5. \E r : Upto(r, m + 1)
    BY <2>4
  <2> QED BY <2>2, <2>5
<1>3. T \in SUBSET Nat
  OBVIOUS
<1> HIDE DEF T
<1>4. Len(events) \in T
  BY <1>1, <1>2, <1>3, SetInduction
<1>5. \E p : Upto(p, Len(events))
  BY <1>4 DEF T
<1>6. Partial(task, events) = CHOOSE p : Upto(p, Len(events))
  BY DEF Partial
<1>7. Upto(Partial(task, events), Len(events))
  BY <1>5, <1>6
<1> QED BY <1>7

\* What comes later changes nothing of it.
LEMMA PartialIsStable ==
    ASSUME NEW task, NEW events, NEW more, Len(events) \in Nat, Len(more) \in Nat,
           NEW k \in Nat, k <= Len(events), k <= Len(more),
           \A n \in 1 .. k : more[n] = events[n]
    PROVE  \A n \in 0 .. k : Partial(task, more)[n] = Partial(task, events)[n]
<1> DEFINE p == Partial(task, events)
           q == Partial(task, more)
           T == {n \in Nat : n <= k => q[n] = p[n]}
<1>1. /\ \A n \in 0 .. k : p[n] = IF n = 0 THEN task ELSE RebuildStep(p[n - 1], events[n])
      /\ \A n \in 0 .. k : q[n] = IF n = 0 THEN task ELSE RebuildStep(q[n - 1], more[n])
  BY PartialSteps
<1> HIDE DEF p, q
<1>2. 0 \in T
  BY <1>1
<1>3. ASSUME NEW n \in T PROVE n + 1 \in T
  <2>1. CASE n + 1 <= k
    <3>1. n \in Nat /\ n + 1 \in 1 .. k /\ n + 1 \in 0 .. k /\ n + 1 # 0 /\ (n + 1) - 1 = n
      BY <2>1
    <3>2. q[n + 1] = RebuildStep(q[n], more[n + 1]) /\ p[n + 1] = RebuildStep(p[n], events[n + 1])
      BY <1>1, <3>1
    <3> QED BY <3>1, <3>2
  <2>2. CASE ~ (n + 1 <= k)
    BY <2>2
  <2> QED BY <2>1, <2>2
<1>4. T \in SUBSET Nat
  OBVIOUS
<1> HIDE DEF T
<1>5. \A n \in Nat : n \in T
  BY <1>2, <1>3, <1>4, SetInduction
<1> QED BY <1>5 DEF T, p, q

LEMMA ApplyTask ==
    ASSUME NEW event \in Event, NEW task, task \in Task \/ event.kind = "TaskCreated"
    PROVE  RebuildStep(task, event) \in Task
<1>1. CASE event \in CreatedEvents
  BY <1>1 DEF CreatedEvents, RebuildStep, Apply, Task, Statuses
<1>2. CASE event \in EditedEvents
  BY <1>2 DEF EditedEvents, RebuildStep, Apply, Task
<1>3. CASE event \in StatusEvents
  BY <1>3 DEF StatusEvents, RebuildStep, Apply, Task, CompletedAtAfter
<1>4. CASE event \in PriorityEvents
  BY <1>4 DEF PriorityEvents, RebuildStep, Apply, Task
<1>5. CASE event \in MarkerEvents
  BY <1>5 DEF MarkerEvents, RebuildStep, Apply
<1>6. CASE event \in DeletedEvents
  BY <1>6 DEF DeletedEvents, RebuildStep, Apply
<1> QED BY <1>1, <1>2, <1>3, <1>4, <1>5, <1>6 DEF Event, ChangeEvents

\* A stream that begins with a creation goes through tasks.
LEMMA PartialTasks ==
    ASSUME NEW events \in Seq(Event), events # <<>>, events[1].kind = "TaskCreated"
    PROVE  \A n \in 1 .. Len(events) : Partial(NoTask, events)[n] \in Task
<1> DEFINE p == Partial(NoTask, events)
           N == Len(events)
           T == {n \in Nat : n + 1 <= N => p[n + 1] \in Task}
<1>1. N \in Nat /\ N # 0 /\ \A n \in 1 .. N : events[n] \in Event
  BY LenProperties, EmptySeq, ElementOfSeq
<1>2. \A n \in 0 .. N : p[n] = IF n = 0 THEN NoTask ELSE RebuildStep(p[n - 1], events[n])
  BY <1>1, PartialSteps
<1> HIDE DEF p, N
<1>3. 0 \in T
  <2>1. 1 \in 1 .. N /\ p[1] = RebuildStep(p[0], events[1])
    BY <1>1, <1>2
  <2>2. p[1] \in Task
    BY <2>1, <1>1, ApplyTask
  <2> QED BY <2>2
<1>4. ASSUME NEW n \in T PROVE n + 1 \in T
  <2> SUFFICES ASSUME (n + 1) + 1 <= N PROVE p[(n + 1) + 1] \in Task
    OBVIOUS
  <2>1. n \in Nat /\ n + 1 <= N /\ n + 2 \in 1 .. N /\ n + 2 \in 0 .. N /\ n + 2 # 0
        /\ (n + 2) - 1 = n + 1 /\ (n + 1) + 1 = n + 2
    BY <1>1
  <2>2. p[n + 1] \in Task
    BY <2>1
  <2>3. p[n + 2] = RebuildStep(p[n + 1], events[n + 2])
    BY <1>2, <2>1
  <2> QED BY <2>1, <2>2, <2>3, <1>1, ApplyTask
<1>5. T \in SUBSET Nat
  OBVIOUS
<1>6. ASSUME NEW n \in 1 .. N PROVE p[n] \in Task
  <2>1. n - 1 \in Nat /\ (n - 1) + 1 = n /\ n <= N
    BY <1>1
  <2> HIDE DEF T
  <2>2. n - 1 \in T
    BY <2>1, <1>3, <1>4, <1>5, SetInduction
  <2> QED BY <2>1, <2>2 DEF T
<1> QED BY <1>6 DEF p, N

\* Every field of the task b has the value it has in a or the one it has in c.
Mixed(b, a, c) ==
    /\ b.title \in {a.title, c.title}
    /\ b.description \in {a.description, c.description}
    /\ b.priority \in {a.priority, c.priority}
    /\ b.status \in {a.status, c.status}
    /\ b.completedAt \in {a.completedAt, c.completedAt}

\* An event gives a field a value of its own or leaves it alone: there is none that
\* depends on what it finds.  This is what makes a snapshot with a later state harmless.
LEMMA EventsOverwrite ==
    ASSUME NEW a \in Task, NEW b \in Task, NEW c, Mixed(b, a, c), NEW event \in Event
    PROVE  Mixed(RebuildStep(b, event), RebuildStep(a, event), c)
<1>1. CASE event \in CreatedEvents
  BY <1>1 DEF CreatedEvents, RebuildStep, Apply, Task, Mixed
<1>2. CASE event \in EditedEvents
  BY <1>2 DEF EditedEvents, RebuildStep, Apply, Task, Mixed
<1>3. CASE event \in StatusEvents
  BY <1>3 DEF StatusEvents, RebuildStep, Apply, Task, Mixed, CompletedAtAfter
<1>4. CASE event \in PriorityEvents
  BY <1>4 DEF PriorityEvents, RebuildStep, Apply, Task, Mixed
<1>5. CASE event \in MarkerEvents
  BY <1>5 DEF MarkerEvents, RebuildStep, Apply
<1>6. CASE event \in DeletedEvents
  BY <1>6 DEF DeletedEvents, RebuildStep, Apply
<1> QED BY <1>1, <1>2, <1>3, <1>4, <1>5, <1>6 DEF Event, ChangeEvents

\* Replaying events on the task that came out of some of them, and of what was before
\* them, gives what replaying everything gives.
LEMMA ReplayAgain ==
    ASSUME NEW events \in Seq(Event), events # <<>>, events[1].kind = "TaskCreated",
           NEW m \in 1 .. Len(events), NEW k \in m .. Len(events)
    PROVE  Replay(Partial(NoTask, events)[k], SubSeq(events, m + 1, Len(events)))
              = Partial(NoTask, events)[Len(events)]
<1> DEFINE N == Len(events)
           rest == SubSeq(events, m + 1, N)
           a == Partial(NoTask, events)
           b == Partial(a[k], rest)
           T == {i \in Nat : m + i <= N => /\ b[i] \in Task
                                           /\ IF m + i < k THEN Mixed(b[i], a[m + i], a[k])
                                              ELSE b[i] = a[m + i]}
<1>1. N \in Nat /\ m \in Nat /\ k \in Nat /\ 1 <= m /\ m <= k /\ k <= N
  BY LenProperties
<1>2. \A n \in 1 .. N : events[n] \in Event /\ a[n] \in Task
                       /\ a[n] = IF n = 1 THEN a[1] ELSE RebuildStep(a[n - 1], events[n])
  <2>1. \A n \in 0 .. N : a[n] = IF n = 0 THEN NoTask ELSE RebuildStep(a[n - 1], events[n])
    BY <1>1, PartialSteps
  <2> HIDE DEF a
  <2>2. \A n \in 1 .. N : a[n] = IF n = 1 THEN a[1] ELSE RebuildStep(a[n - 1], events[n])
    BY <1>1, <2>1
  <2> QED BY <2>2, ElementOfSeq, PartialTasks DEF a
<1>3. rest \in Seq(Event) /\ Len(rest) = N - m /\ \A i \in 1 .. N - m : rest[i] = events[m + i]
  <2>1. \A i \in m + 1 .. N : events[i] \in Event
    BY <1>1, <1>2
  <2>2. m + 1 \in Int /\ N \in Int
    BY <1>1
  <2> HIDE DEF N
  <2>3. /\ rest \in Seq(Event) /\ Len(rest) = (IF m + 1 <= N THEN N - (m + 1) + 1 ELSE 0)
        /\ \A i \in 1 .. N - (m + 1) + 1 : rest[i] = events[(m + 1) + i - 1]
    BY <2>1, <2>2, SubSeqProperties
  <2> HIDE DEF rest
  <2>4. N - (m + 1) + 1 = N - m /\ \A i \in 1 .. N - m : (m + 1) + i - 1 = m + i
    BY <1>1
  <2>5. Len(rest) = N - m
    BY <2>3, <1>1
  <2> QED BY <2>3, <2>4, <2>5
<1>4. \A i \in 0 .. N - m : b[i] = IF i = 0 THEN a[k] ELSE RebuildStep(b[i - 1], rest[i])
  <2>1. Len(rest) \in Nat /\ 0 .. Len(rest) = 0 .. N - m
    BY <1>3, <1>1
  <2> HIDE DEF rest, a
  <2> QED BY <2>1, PartialSteps
<1> HIDE DEF N, rest, a, b
<1>5. 0 \in T
  BY <1>1, <1>2, <1>4 DEF Mixed
<1>6. ASSUME NEW i \in T PROVE i + 1 \in T
  <2> SUFFICES ASSUME m + (i + 1) <= N
               PROVE  /\ b[i + 1] \in Task
                      /\ IF m + (i + 1) < k THEN Mixed(b[i + 1], a[m + (i + 1)], a[k])
                         ELSE b[i + 1] = a[m + (i + 1)]
    OBVIOUS
  <2> DEFINE n == m + i
  <2>1. /\ i \in Nat /\ n <= N /\ i + 1 \in 1 .. N - m /\ i + 1 \in 0 .. N - m
        /\ i + 1 # 0 /\ (i + 1) - 1 = i /\ m + (i + 1) = n + 1
        /\ n + 1 \in 1 .. N /\ n \in 1 .. N /\ n + 1 # 1 /\ (n + 1) - 1 = n
    BY <1>1
  <2>2. /\ b[i] \in Task
        /\ IF n < k THEN Mixed(b[i], a[n], a[k]) ELSE b[i] = a[n]
    BY <2>1
  <2> HIDE DEF n
  <2>3. b[i + 1] = RebuildStep(b[i], events[n + 1]) /\ a[n + 1] = RebuildStep(a[n], events[n + 1])
    BY <1>2, <1>3, <1>4, <2>1
  <2>4. events[n + 1] \in Event /\ a[n] \in Task /\ a[n + 1] \in Task
    BY <1>2, <2>1
  <2>5. b[i + 1] \in Task
    BY <2>2, <2>3, <2>4, ApplyTask
  <2>6. CASE n < k
    <3>1. Mixed(b[i + 1], a[n + 1], a[k])
      BY <2>2, <2>3, <2>4, <2>6, EventsOverwrite
    <3>2. n + 1 < k \/ n + 1 = k
      BY <2>1, <2>6, <1>1
    <3>3. n + 1 = k => b[i + 1] = a[n + 1]
      BY <3>1, <2>4, <2>5 DEF Mixed, Task
    <3> QED BY <2>1, <2>5, <3>1, <3>2, <3>3
  <2>7. CASE ~ (n < k)
    <3>1. ~ (n + 1 < k)
      BY <2>1, <2>7, <1>1
    <3> QED BY <2>1, <2>2, <2>3, <2>5, <2>7, <3>1
  <2> QED BY <2>6, <2>7
<1>7. T \in SUBSET Nat
  OBVIOUS
<1> HIDE DEF T
<1>8. N - m \in T
  BY SMTT(40), <1>1, <1>5, <1>6, <1>7, SetInduction
<1>9. b[N - m] = a[N]
  BY <1>1, <1>8 DEF T
<1>10. Replay(a[k], rest) = b[N - m]
  BY <1>3, ReplayIsLast DEF b
<1> QED BY <1>9, <1>10 DEF a, rest, N

-----------------------------------------------------------------------------
(* Commands *)

\* What every command on an existing task guarantees: a well-formed task, whose
\* completion timestamp still agrees with its status if it did before, and events that
\* explain the change, or none when it raised.
Sound(task, outcome, enforce) ==
    /\ outcome.task \in Task
    /\ outcome.events \in Seq(ChangeEvents \cup DeletedEvents)
    /\ outcome.raised \in BOOLEAN
    /\ CompletionConsistent(task) => CompletionConsistent(outcome.task)
    /\ IF outcome.raised THEN outcome.events = <<>>
       ELSE Explains(task, outcome.events, outcome.task, enforce)

LEMMA DoneUnchanged ==
    ASSUME NEW task \in Task, NEW enforce PROVE Sound(task, Done(task, <<>>), enforce)
  BY DEF Sound, Done, Explains

LEMMA RaiseSound ==
    ASSUME NEW task \in Task, NEW left \in Task, NEW enforce,
           left.status = task.status, left.completedAt = task.completedAt
    PROVE  Sound(task, Raise(left), enforce)
  BY DEF Sound, Raise, CompletionConsistent

LEMMA EditSound ==
    ASSUME NEW task \in Task,
           NEW title \in RawTitles \cup {None}, NEW description \in RawDescriptions \cup {None},
           NEW enforce
    PROVE  Sound(task, EditDetails(task, title, description), enforce)
<1> DEFINE ti == IF title = None THEN task.title ELSE CleanTitle[title]
           de == IF description = None THEN task.description
                 ELSE CleanDescription[description]
           tiGiven == IF ti = task.title THEN None ELSE ti
           deGiven == IF de = task.description THEN None ELSE de
           event == [kind |-> "TaskDetailsEdited", title |-> tiGiven, description |-> deGiven]
           left == [task EXCEPT !.title = ti, !.description = de]
<1>1. ti \in Titles \cup {Invalid} /\ de \in Descriptions \cup {Invalid}
  BY CleaningAssumption DEF Task
<1>2. CASE ti = Invalid
  <2>1. EditDetails(task, title, description) = Raise(task)
    BY <1>2 DEF EditDetails
  <2> QED BY <2>1, RaiseSound
<1>3. CASE ti # Invalid /\ de = Invalid
  <2>1. EditDetails(task, title, description) = Raise([task EXCEPT !.title = ti])
    BY <1>3 DEF EditDetails
  <2>2. [task EXCEPT !.title = ti] \in Task
    BY <1>1, <1>3 DEF Task
  <2> QED BY <2>1, <2>2, RaiseSound DEF Task
<1>4. CASE ti # Invalid /\ de # Invalid /\ ti = task.title /\ de = task.description
  <2>1. EditDetails(task, title, description) = Done(left, <<>>)
    BY <1>4 DEF EditDetails
  <2>2. left = task
    BY <1>4 DEF Task
  <2> QED BY <2>1, <2>2, DoneUnchanged
<1>5. CASE ti # Invalid /\ de # Invalid /\ ~ (ti = task.title /\ de = task.description)
  <2>1. EditDetails(task, title, description) = Done(left, <<event>>)
    BY <1>5 DEF EditDetails
  <2>2. left \in Task /\ left.status = task.status /\ left.completedAt = task.completedAt
    BY <1>1, <1>5 DEF Task
  <2>3. event \in EditedEvents
    BY <1>1, <1>5 DEF EditedEvents
  <2>4. left = RebuildStep(task, event)
    BY <1>1, <1>5, SentinelAssumption DEF RebuildStep, Apply, Task
  <2>5. Explains(task, <<event>>, left, enforce)
    <3>1. Tells(task, event, left, enforce)
      BY <2>3, <2>4 DEF Tells, ChangeEvents
    <3>2. event \in Event
      BY <2>3 DEF Event, ChangeEvents
    <3> QED BY <3>1, <3>2 DEF Explains
  <2>6. <<event>> \in Seq(ChangeEvents \cup DeletedEvents)
    BY <2>3 DEF ChangeEvents
  <2> HIDE DEF event, left
  <2> QED BY <2>1, <2>2, <2>5, <2>6 DEF Sound, Done, CompletionConsistent
<1> QED BY <1>2, <1>3, <1>4, <1>5

LEMMA PrioritySound ==
    ASSUME NEW task \in Task, NEW priority \in Priorities \cup {Invalid}, NEW enforce
    PROVE  Sound(task, ChangePriority(task, priority), enforce)
<1> DEFINE event == [kind |-> "TaskPriorityChanged", from |-> task.priority, to |-> priority]
           left == [task EXCEPT !.priority = priority]
<1>1. CASE priority = Invalid
  BY <1>1, RaiseSound DEF ChangePriority
<1>2. CASE priority # Invalid /\ priority = task.priority
  BY <1>2, DoneUnchanged DEF ChangePriority
<1>3. CASE priority # Invalid /\ priority # task.priority
  <2>1. ChangePriority(task, priority) = Done(left, <<event>>)
    BY <1>3 DEF ChangePriority
  <2>2. left \in Task /\ left.status = task.status /\ left.completedAt = task.completedAt
    BY <1>3 DEF Task
  <2>3. event \in PriorityEvents
    BY <1>3 DEF PriorityEvents, Task
  <2>4. left = RebuildStep(task, event)
    BY DEF RebuildStep, Apply
  <2>5. Explains(task, <<event>>, left, enforce)
    <3>1. Tells(task, event, left, enforce)
      BY <2>3, <2>4 DEF Tells, ChangeEvents
    <3>2. event \in Event
      BY <2>3 DEF Event, ChangeEvents
    <3> QED BY <3>1, <3>2 DEF Explains
  <2>6. <<event>> \in Seq(ChangeEvents \cup DeletedEvents)
    BY <2>3 DEF ChangeEvents
  <2> HIDE DEF event, left
  <2> QED BY <2>1, <2>2, <2>5, <2>6 DEF Sound, Done, CompletionConsistent
<1> QED BY <1>1, <1>2, <1>3

LEMMA TransitionSound ==
    ASSUME NEW task \in Task, NEW target \in Statuses \cup {Invalid}, NEW enforce \in BOOLEAN
    PROVE  Sound(task, TransitionTo(task, target, enforce), enforce)
<1> DEFINE changed == [kind |-> "TaskStatusChanged", from |-> task.status, to |-> target]
           left == [task EXCEPT !.status = target,
                                !.completedAt = CompletedAtAfter(task, task.status, target)]
           events == StatusChange(task.status, target)
<1>1. CASE target = Invalid \/ (enforce /\ ~ CanTransition(task.status, target)
                               /\ target # task.status)
  BY <1>1, RaiseSound DEF TransitionTo
<1>2. CASE target # Invalid /\ target = task.status
  BY <1>2, DoneUnchanged DEF TransitionTo
<1>3. CASE /\ target # Invalid /\ target # task.status
           /\ ~ (enforce /\ ~ CanTransition(task.status, target))
  <2>1. TransitionTo(task, target, enforce) = Done(left, events)
    BY <1>3 DEF TransitionTo
  <2>2. target \in Statuses /\ task.status \in Statuses
    BY <1>3 DEF Task
  <2>3. left \in Task /\ left.status = target
        /\ left.completedAt = CompletedAtAfter(task, task.status, target)
    BY <2>2 DEF Task, CompletedAtAfter
  <2>4. CompletionConsistent(task) => CompletionConsistent(left)
    BY <2>3, <1>3 DEF CompletionConsistent, CompletedAtAfter
  <2>5. changed \in StatusEvents /\ left = RebuildStep(task, changed)
    BY <2>2 DEF StatusEvents, RebuildStep, Apply
  <2>6. \/ events = <<changed>>
        \/ \E m \in MarkerEvents : events = <<changed, m>>
    <3>1. CASE target = "completed"
      BY <3>1 DEF StatusChange, MarkerEvents
    <3>2. CASE target = "archived"
      BY <3>2 DEF StatusChange, MarkerEvents
    <3>3. CASE target # "completed" /\ target # "archived"
      BY <3>3 DEF StatusChange
    <3> QED BY <3>1, <3>2, <3>3
  <2>7. \A m \in MarkerEvents : RebuildStep(left, m) = left
    BY DEF MarkerEvents, RebuildStep, Apply
  <2> HIDE DEF events, left, changed
  <2>8. Explains(task, events, left, enforce)
    <3>1. Tells(task, changed, left, enforce)
      BY <1>3, <2>5 DEF Tells, ChangeEvents, changed
    <3>2. \A m \in MarkerEvents : Tells(left, m, left, enforce)
      BY <2>7 DEF Tells, ChangeEvents, MarkerEvents
    <3>3. changed \in Event
      BY <2>5 DEF Event, ChangeEvents
    <3> QED BY <3>1, <3>2, <3>3, <2>6 DEF Explains
  <2>9. events \in Seq(ChangeEvents \cup DeletedEvents)
    <3>1. CASE events = <<changed>>
      BY <3>1, <2>5 DEF ChangeEvents
    <3>2. CASE \E m \in MarkerEvents : events = <<changed, m>>
      BY <3>2, <2>5, Pair DEF ChangeEvents
    <3> QED BY <3>1, <3>2, <2>6
  <2> QED BY <2>1, <2>3, <2>4, <2>8, <2>9 DEF Sound, Done
<1> QED BY <1>1, <1>2, <1>3

LEMMA DeleteSound ==
    ASSUME NEW task \in Task, NEW enforce PROVE Sound(task, MarkDeleted(task), enforce)
<1> DEFINE event == [kind |-> "TaskDeleted", status |-> task.status]
<1>1. event \in DeletedEvents
  BY DEF DeletedEvents, Task
<1>2. RebuildStep(task, event) = task
  BY DEF RebuildStep, Apply
<1>3. Explains(task, <<event>>, task, enforce)
  <2>1. Tells(task, event, task, enforce) /\ event \in Event
    BY <1>1, <1>2 DEF Tells, DeletedEvents, Event
  <2> QED BY <2>1 DEF Explains
<1>4. <<event>> \in Seq(ChangeEvents \cup DeletedEvents)
  BY <1>1
<1> QED BY <1>3, <1>4 DEF Sound, MarkDeleted, Done

\* A new task is a draft without completion timestamp, and it is what its first
\* event describes.
LEMMA CreateSound ==
    ASSUME NEW title \in RawTitles, NEW description \in RawDescriptions,
           NEW priority \in Priorities \cup {Invalid},
           NEW outcome, outcome = Create(title, description, priority)
    PROVE  \/ outcome = Raise(NoTask)
           \/ \E event \in CreatedEvents :
                /\ outcome = Done(RebuildStep(NoTask, event), <<event>>)
                /\ RebuildStep(NoTask, event) \in Task
                /\ CompletionConsistent(RebuildStep(NoTask, event))
<1> DEFINE event == [kind |-> "TaskCreated", title |-> CleanTitle[title],
                     description |-> CleanDescription[description],
                     priority |-> priority, status |-> "draft"]
<1>1. SUFFICES ASSUME Invalid \notin {CleanTitle[title], CleanDescription[description], priority}
               PROVE  /\ event \in CreatedEvents
                      /\ outcome = Done(RebuildStep(NoTask, event), <<event>>)
                      /\ RebuildStep(NoTask, event) \in Task
                      /\ CompletionConsistent(RebuildStep(NoTask, event))
  BY DEF Create
<1>2. event \in CreatedEvents
  BY <1>1, CleaningAssumption DEF CreatedEvents
<1>3. outcome = Done(RebuildStep(NoTask, event), <<event>>)
  BY <1>1 DEF Create, RebuildStep, Apply
<1>4. RebuildStep(NoTask, event) \in Task /\ CompletionConsistent(RebuildStep(NoTask, event))
  BY <1>2 DEF RebuildStep, Apply, Task, CreatedEvents, CompletionConsistent, Statuses
<1> QED BY <1>2, <1>3, <1>4
=============================================================================
