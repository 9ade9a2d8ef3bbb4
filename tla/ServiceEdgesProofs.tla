-------------------------- MODULE ServiceEdgesProofs --------------------------
(***************************************************************************)
(* What stands before the service and behind it, for any number of         *)
(* threads, tasks and commands.                                            *)
(*                                                                         *)
(* Transports: every transport runs the use cases of TaskService, and its  *)
(* answers say what became of them.                                        *)
(*                                                                         *)
(* Projection: the projector only watches, and counts every stored event   *)
(* once.                                                                   *)
(***************************************************************************)
EXTENDS Transports, Projection, TaskServiceProofs

(***************************************************************************)
(* TRANSPORTS                                                              *)
(***************************************************************************)


\* Running the command on the task once more would record nothing.
Settled(command, id, task) ==
    command.op # "create" =>
        /\ id = command.id
        /\ task # NoTask => Outcome(task, command).events = <<>>

\* A request whose next command is not yet at the service: those before it are stored.
\* One that is sent again is settled.
Running(c) ==
    /\ c.fault = "none"
    /\ c.commits = c.sent - 1
    /\ c.sent > 1 => c.shown # NoTask
    /\ c.again => /\ c.sent = 1 /\ c.command \in Command /\ c.command.op # "create"
                  /\ c.shown # NoTask /\ Settled(c.command, c.shown.id, c.shown.task)

\* The last command is stored, and what it left is shown.
StoredAll(c) ==
    /\ c.commits = c.sent
    /\ c.command \in Command
    /\ c.shown # NoTask /\ Settled(c.command, c.shown.id, c.shown.task)

\* The last command is not stored: the thread holds what it will store.
Storing(c, w) ==
    /\ c.commits = c.sent - 1
    /\ c.command \in Command
    /\ w.persist = "add" <=> c.command.op = "create"
    /\ Settled(c.command, w.id, IF w.persist = "delete" THEN NoTask ELSE w.task)
    /\ c.again /\ c.fresh => w.events = <<>>

Answered(c) ==
    /\ c.fault = "none" => StoredAll(c) \/ (c.sent = 0 /\ c.commits = 0)
    /\ c.fault # "none" => c.commits = c.sent - 1
    /\ c.fault = "IllegalStateTransitionError" /\ c.fresh =>
          /\ c.command \in TransitionTaskCommand
          /\ c.shown # NoTask /\ c.shown.task \in Task
          /\ c.command.target \notin AllowedTransitions[c.shown.task.status]

\* How the request that a thread serves goes with where the thread is in TaskService.
Serves(c, p, w) ==
    /\ c = NoCall => p = "idle"
    /\ c # NoCall => /\ p # "idle" => c.at = "busy"
                     /\ c.at = "run" => Running(c)
                     /\ c.at = "busy" => /\ c.fault = "none"
                                         /\ IF p = "commit" THEN Storing(c, w) ELSE StoredAll(c)
                     /\ c.at = "answered" => Answered(c)

CallInv ==
    /\ call \in [Threads -> Call \cup {NoCall}]
    /\ \A t \in Threads : Serves(call[t], pc[t], work[t])

-----------------------------------------------------------------------------
(* Commands *)

LEMMA CommandKinds ==
    ASSUME NEW c \in Command
    PROVE  /\ c.op \in {"create", "edit", "priority", "transition", "delete"}
           /\ c.op = "create" => c \in CreateTaskCommand
           /\ c.op = "edit" => c \in EditTaskCommand
           /\ c.op = "priority" => c \in ChangePriorityCommand
           /\ c.op = "transition" => c \in TransitionTaskCommand
           /\ c.op = "delete" => c \in DeleteTaskCommand
  BY DEF Command, CreateTaskCommand, EditTaskCommand, ChangePriorityCommand,
         TransitionTaskCommand, DeleteTaskCommand

\* An edit, a change of priority or a transition that is done a second time is not a
\* change.
LEMMA EditSettles ==
    ASSUME NEW task \in Task,
           NEW title \in RawTitles \cup {None}, NEW description \in RawDescriptions \cup {None},
           ~ EditDetails(task, title, description).raised
    PROVE  EditDetails(EditDetails(task, title, description).task, title, description).events
               = <<>>
<1> DEFINE ti == IF title = None THEN task.title ELSE CleanTitle[title]
           de == IF description = None THEN task.description
                 ELSE CleanDescription[description]
           left == [task EXCEPT !.title = ti, !.description = de]
<1>1. ti # Invalid /\ de # Invalid
  BY DEF EditDetails, Raise
<1>2. EditDetails(task, title, description).task = left
  BY <1>1 DEF EditDetails, Done
<1>3. left.title = ti /\ left.description = de
  BY DEF Task
<1>4. /\ (IF title = None THEN left.title ELSE CleanTitle[title]) = ti
      /\ (IF description = None THEN left.description ELSE CleanDescription[description]) = de
  BY <1>3
<1> HIDE DEF left, ti, de
<1>5. EditDetails(left, title, description).events = <<>>
  BY <1>1, <1>3, <1>4 DEF EditDetails, Done
<1> QED BY <1>2, <1>5

LEMMA PrioritySettles ==
    ASSUME NEW task \in Task, NEW priority \in Priorities \cup {Invalid},
           ~ ChangePriority(task, priority).raised
    PROVE  ChangePriority(ChangePriority(task, priority).task, priority).events = <<>>
<1> DEFINE left == ChangePriority(task, priority).task
<1>1. priority # Invalid
  BY DEF ChangePriority, Raise
<1>2. left.priority = priority
  BY <1>1 DEF ChangePriority, Done, Task
<1> HIDE DEF left
<1>3. ChangePriority(left, priority).events = <<>>
  BY <1>1, <1>2 DEF ChangePriority, Done
<1> QED BY <1>3 DEF left

LEMMA TransitionSettles ==
    ASSUME NEW task \in Task, NEW target \in Statuses \cup {Invalid}, NEW enforce,
           ~ TransitionTo(task, target, enforce).raised
    PROVE  TransitionTo(TransitionTo(task, target, enforce).task, target, enforce).events = <<>>
<1> DEFINE left == TransitionTo(task, target, enforce).task
<1>1. target # Invalid
  BY DEF TransitionTo, Raise
<1>2. left.status = target
  BY <1>1 DEF TransitionTo, Done, Raise, Task
<1> HIDE DEF left
<1>3. TransitionTo(left, target, enforce).events = <<>>
  BY <1>1, <1>2 DEF TransitionTo, Done
<1> QED BY <1>3 DEF left

\* So a command that was run is settled.
LEMMA OutcomeSettles ==
    ASSUME NEW c \in Command, c.op # "create", NEW task \in Task, ~ Outcome(task, c).raised
    PROVE  Settled(c, c.id, IF c.op = "delete" THEN NoTask ELSE Outcome(task, c).task)
<1>1. CASE c.op = "edit"
  <2>1. c.title \in RawTitles \cup {None} /\ c.description \in RawDescriptions \cup {None}
    BY <1>1, CommandKinds DEF EditTaskCommand
  <2>2. \A other : Outcome(other, c) = EditDetails(other, c.title, c.description)
    BY <1>1 DEF Outcome
  <2> QED BY <1>1, <2>1, <2>2, EditSettles DEF Settled
<1>2. CASE c.op = "priority"
  <2>1. c.priority \in Priorities \cup {Invalid}
    BY <1>2, CommandKinds DEF ChangePriorityCommand
  <2>2. \A other : Outcome(other, c) = ChangePriority(other, c.priority)
    BY <1>2 DEF Outcome
  <2> QED BY <1>2, <2>1, <2>2, PrioritySettles DEF Settled
<1>3. CASE c.op = "transition"
  <2>1. c.target \in Statuses \cup {Invalid}
    BY <1>3, CommandKinds DEF TransitionTaskCommand
  <2>2. \A other : Outcome(other, c) = TransitionTo(other, c.target, Enforce)
    BY <1>3 DEF Outcome
  <2> QED BY <1>3, <2>1, <2>2, TransitionSettles DEF Settled
<1>4. CASE c.op = "delete"
  BY <1>4 DEF Settled
<1> QED BY <1>1, <1>2, <1>3, <1>4, CommandKinds

\* A transition is refused with a conflict only outside the lifecycle graph.
LEMMA ConflictMeans ==
    ASSUME NEW c \in Command, c.op # "create", NEW task \in Task, Outcome(task, c).raised,
           ErrorOf(c) = "IllegalStateTransitionError"
    PROVE  c \in TransitionTaskCommand /\ c.target \notin AllowedTransitions[task.status]
<1>1. c.op = "transition" /\ c.target # Invalid
  BY DEF ErrorOf
<1>2. c \in TransitionTaskCommand
  BY <1>1, CommandKinds
<1>3. TransitionTo(task, c.target, Enforce).raised
  BY <1>1 DEF Outcome
<1>4. c.target # task.status /\ ~ CanTransition(task.status, c.target)
  BY <1>1, <1>3 DEF TransitionTo, Done
<1> QED BY <1>2, <1>4 DEF CanTransition

-----------------------------------------------------------------------------
(* One request changes, the others stay *)

LEMMA OneCall ==
    ASSUME CallInv, NEW t \in Threads, NEW c \in Call, call' = [call EXCEPT ![t] = c],
           \A u \in Threads \ {t} : pc'[u] = pc[u] /\ work'[u] = work[u],
           Serves(c, pc'[t], work'[t])
    PROVE  CallInv' /\ call'[t] = c
<1>1. call' \in [Threads -> Call \cup {NoCall}] /\ call'[t] = c
      /\ \A u \in Threads \ {t} : call'[u] = call[u]
  BY DEF CallInv
<1>2. ASSUME NEW u \in Threads PROVE Serves(call'[u], pc'[u], work'[u])
  BY <1>1 DEF CallInv
<1> QED BY <1>1, <1>2 DEF CallInv

\* The service goes on, and the request of the thread stays as it is.
LEMMA SameCall ==
    ASSUME CallInv, NEW t \in Threads, UNCHANGED call,
           \A u \in Threads \ {t} : pc'[u] = pc[u] /\ work'[u] = work[u],
           Serves(call[t], pc'[t], work'[t])
    PROVE  CallInv'
<1>1. ASSUME NEW u \in Threads PROVE Serves(call'[u], pc'[u], work'[u])
  BY DEF CallInv
<1> QED BY <1>1 DEF CallInv

\* What is known of a thread that serves a request, or does not.
LEMMA OpenCall ==
    ASSUME CallInv, NEW t \in Threads
    PROVE  /\ call[t] # NoCall => call[t] \in Call
           /\ Serves(call[t], pc[t], work[t])
           /\ Shown(t) \in Showing \cup {NoTask}
           /\ pc[t] # "idle" => Open(t) /\ call[t].at = "busy"
           /\ ~ Open(t) => pc[t] = "idle"
<1>1. call[t] \in Call \cup {NoCall} /\ Serves(call[t], pc[t], work[t])
  BY DEF CallInv
<1>2. Shown(t) \in Showing \cup {NoTask}
  BY <1>1 DEF Shown, Call
<1> QED BY <1>1, <1>2 DEF Serves, Open

LEMMA OpenedIsCall ==
    ASSUME CallInv, NEW t \in Threads, NEW transport \in {"rest", "web", "graphql", "seed"}
    PROVE  /\ Opened(t, transport) \in Call
           /\ Opened(t, transport).at = "run" /\ ~ Opened(t, transport).again
           /\ Opened(t, transport).sent = 1 /\ Opened(t, transport).commits = 0
           /\ Opened(t, transport).fault = "none" /\ ~ Opened(t, transport).fresh
           /\ Opened(t, transport).shown = Shown(t)
<1>1. Shown(t) \in Showing \cup {NoTask}
  BY OpenCall
<1> QED BY <1>1 DEF Opened, Call

LEMMA SendKeeps ==
    ASSUME CallInv, NEW t \in Threads, Send(t) PROVE CallInv' /\ UNCHANGED vars
<1>1. PICK transport \in {"rest", "web", "graphql", "seed"} :
          call' = [call EXCEPT ![t] = Opened(t, transport)]
  BY DEF Send
<1> DEFINE c == Opened(t, transport)
<1>2. c \in Call /\ c.at = "run" /\ ~ c.again /\ c.sent = 1 /\ c.commits = 0
      /\ c.fault = "none"
  BY OpenedIsCall
<1>3. UNCHANGED vars /\ pc[t] = "idle"
  BY OpenCall DEF Send
<1>4. UNCHANGED <<pc, work>>
  BY <1>3 DEF vars
<1> HIDE DEF c
<1>5. Serves(c, pc'[t], work'[t])
  BY <1>2, <1>3, <1>4, NoCallAssumption DEF Serves, Running
<1>6. call' = [call EXCEPT ![t] = c]
  BY <1>1 DEF c
<1> QED BY <1>2, <1>3, <1>4, <1>5, <1>6, OneCall

LEMMA RejectKeeps ==
    ASSUME CallInv, NEW t \in Threads, Reject(t) PROVE CallInv' /\ UNCHANGED vars
<1> DEFINE o == Opened(t, "rest")
           c == [o EXCEPT !.at = "answered", !.fault = "TaskValidationError"]
<1>1. call' = [call EXCEPT ![t] = c] /\ UNCHANGED vars /\ ~ Open(t)
  BY DEF Reject
<1>2. o \in Call /\ o.sent = 1 /\ o.commits = 0
  BY OpenedIsCall
<1> HIDE DEF o
<1>3. c \in Call /\ c.at = "answered" /\ c.sent = 1 /\ c.commits = 0
      /\ c.fault = "TaskValidationError"
  BY <1>2 DEF Call, DomainErrors
<1> HIDE DEF c
<1>4. pc[t] = "idle" /\ UNCHANGED <<pc, work>>
  BY <1>1, OpenCall DEF vars
<1>5. Serves(c, pc'[t], work'[t])
  BY <1>3, <1>4, NoCallAssumption DEF Serves, Answered
<1> QED BY <1>1, <1>3, <1>4, <1>5, OneCall

LEMMA ResendKeeps ==
    ASSUME CallInv, NEW t \in Threads, Resend(t) PROVE CallInv' /\ UNCHANGED vars
<1> DEFINE last == call[t]
           o == Opened(t, call[t].transport)
           c == [o EXCEPT !.command = call[t].command, !.again = TRUE]
<1>1. call' = [call EXCEPT ![t] = c] /\ UNCHANGED vars /\ ~ Open(t) /\ last # NoCall
      /\ last.fault = "none" /\ last.sent = 1 /\ last.command.op # "create"
  BY DEF Resend
<1>2. last \in Call /\ Serves(last, pc[t], work[t]) /\ pc[t] = "idle"
  BY <1>1, OpenCall
<1>3. last.at = "answered" /\ Answered(last)
  BY <1>1, <1>2 DEF Open, Serves
<1>4. StoredAll(last)
  BY <1>1, <1>3 DEF Answered
<1>5. o \in Call /\ o.at = "run" /\ o.sent = 1 /\ o.commits = 0 /\ o.fault = "none"
      /\ o.shown = last.shown
  <2>1. last.transport \in {"rest", "web", "graphql", "seed"}
    BY <1>2 DEF Call
  <2> QED BY <1>1, <2>1, OpenedIsCall DEF Shown
<1>6. last.command \in Command
  BY <1>4 DEF StoredAll
<1> HIDE DEF o
<1>7. c \in Call /\ c.at = "run" /\ c.sent = 1 /\ c.commits = 0 /\ c.fault = "none"
      /\ c.shown = last.shown /\ c.command = last.command
  BY <1>5, <1>6 DEF Call
<1> HIDE DEF c, last
<1>8. UNCHANGED <<pc, work>>
  BY <1>1 DEF vars
<1>9. Serves(c, pc'[t], work'[t])
  BY <1>1, <1>2, <1>4, <1>7, <1>8, NoCallAssumption DEF Serves, Running, StoredAll
<1> QED BY <1>1, <1>7, <1>8, <1>9, OneCall

LEMMA RetrieveKeeps ==
    ASSUME IInv, CallInv, NEW t \in Threads, Retrieve(t) PROVE CallInv' /\ UNCHANGED vars
<1> DEFINE o == Opened(t, "rest")
<1>1. PICK q \in GetTaskQuery :
          call' = [call EXCEPT ![t] =
             IF row[q.id] = NoTask
             THEN [o EXCEPT !.command = q, !.at = "answered", !.fault = "TaskNotFoundError"]
             ELSE [o EXCEPT !.command = q, !.at = "answered", !.sent = 0,
                            !.shown = [id |-> q.id, task |-> row[q.id]]]]
  BY DEF Retrieve
<1>2. UNCHANGED vars /\ ~ Open(t)
  BY DEF Retrieve
<1>3. pc[t] = "idle" /\ UNCHANGED <<pc, work>>
  BY <1>2, OpenCall DEF vars
<1>4. o \in Call /\ o.sent = 1 /\ o.commits = 0 /\ o.fault = "none"
  BY OpenedIsCall
<1>5. q.id \in Ids /\ row[q.id] \in Task \cup {NoTask}
  BY DEF GetTaskQuery, IInv, TypeOK, LedgerTypeOK
<1> HIDE DEF o
<1>6. CASE row[q.id] = NoTask
  <2> DEFINE c == [o EXCEPT !.command = q, !.at = "answered", !.fault = "TaskNotFoundError"]
  <2>1. c \in Call /\ c.at = "answered" /\ c.sent = 1 /\ c.commits = 0
        /\ c.fault = "TaskNotFoundError"
    BY <1>4 DEF Call, DomainErrors
  <2>2. call' = [call EXCEPT ![t] = c]
    BY <1>1, <1>6
  <2> HIDE DEF c
  <2>3. Serves(c, pc'[t], work'[t])
    BY <1>3, <2>1, NoCallAssumption DEF Serves, Answered
  <2> QED BY <1>2, <1>3, <2>1, <2>2, <2>3, OneCall
<1>7. CASE row[q.id] # NoTask
  <2> DEFINE seen == [id |-> q.id, task |-> row[q.id]]
             c == [o EXCEPT !.command = q, !.at = "answered", !.sent = 0, !.shown = seen]
  <2>1. seen \in Showing
    BY <1>5 DEF Showing
  <2>2. call' = [call EXCEPT ![t] = c]
    BY <1>1, <1>7
  <2> HIDE DEF seen
  <2>3. c \in Call /\ c.at = "answered" /\ c.sent = 0 /\ c.commits = 0 /\ c.fault = "none"
    BY <1>4, <2>1 DEF Call
  <2> HIDE DEF c
  <2>4. Serves(c, pc'[t], work'[t])
    BY <1>3, <2>3, NoCallAssumption DEF Serves, Answered
  <2> QED BY <1>2, <1>3, <2>2, <2>3, <2>4, OneCall
<1> QED BY <1>6, <1>7

-----------------------------------------------------------------------------
(* The commands of a request are use cases of the service *)

\* What a request has for the service is a command; of one that is sent again, the
\* command that is settled.
LEMMA CommandsAre ==
    ASSUME CallInv, NEW t \in Threads, Runs(t), NEW c \in Commands(t)
    PROVE  /\ c \in Command
           /\ call[t] \in Call /\ call[t].at = "run" /\ Running(call[t]) /\ pc[t] = "idle"
           /\ call[t].again => c = call[t].command
<1>1. call[t] # NoCall /\ call[t].at = "run" /\ pc[t] = "idle"
  BY DEF Runs, Open, Receive
<1>2. call[t] \in Call /\ Running(call[t])
  BY <1>1, OpenCall DEF Serves
<1>3. CASE call[t].again
  <2>1. c = call[t].command
    BY <1>2, <1>3 DEF Commands, Running
  <2> QED BY <1>1, <1>2, <1>3, <2>1 DEF Running
<1>4. CASE ~ call[t].again /\ call[t].transport = "seed" /\ call[t].sent > 1
  <2>1. c \in [op : {"transition"}, id : {Shown(t).id},
               target : SeedTargets(Shown(t).task.status)]
    BY <1>4 DEF Commands
  <2>2. Shown(t) \in [id : Ids, task : Task \cup {NoTask}]
    BY <1>1, <1>2, <1>4, OpenCall DEF Running, Shown, Showing
  <2>3. \A status : SeedTargets(status) \subseteq Statuses
    BY DEF SeedTargets, Statuses
  <2>4. c \in TransitionTaskCommand
    BY <2>1, <2>2, <2>3 DEF TransitionTaskCommand
  <2> QED BY <1>1, <1>2, <1>4, <2>4 DEF Command
<1>5. CASE ~ call[t].again /\ ~ (call[t].transport = "seed" /\ call[t].sent > 1)
  <2>1. c \in Offered(call[t].transport)
    BY <1>5 DEF Commands
  <2>2. c \in Command
    BY <2>1 DEF Offered, Command
  <2> QED BY <1>1, <1>2, <1>5, <2>2
<1> QED BY <1>3, <1>4, <1>5

\* A command is run: either it raises, and that is the answer, or the thread holds
\* what it will store.
LEMMA RanKeeps ==
    ASSUME CallInv, IInv, NEW t \in Threads, Runs(t), NEW c \in Commands(t),
           NEW persist, NEW id, NEW outcome, NEW fresh \in BOOLEAN,
           Hold(t, persist, id, outcome), Ran(t, c, outcome, fresh),
           ~ outcome.raised =>
              /\ persist = "add" <=> c.op = "create"
              /\ Settled(c, id, IF persist = "delete" THEN NoTask ELSE outcome.task)
              /\ call[t].again /\ fresh => outcome.events = <<>>,
           outcome.raised /\ fresh /\ ErrorOf(c) = "IllegalStateTransitionError" =>
              /\ c \in TransitionTaskCommand /\ Shown(t) # NoTask /\ Shown(t).task \in Task
              /\ c.target \notin AllowedTransitions[Shown(t).task.status]
    PROVE  CallInv'
<1> DEFINE old == call[t]
           ran == [old EXCEPT !.command = c, !.fresh = fresh]
           refused == [ran EXCEPT !.at = "answered", !.fault = ErrorOf(c)]
           goes == [ran EXCEPT !.at = "busy"]
<1>1. c \in Command /\ old \in Call /\ old.at = "run" /\ Running(old) /\ pc[t] = "idle"
  BY CommandsAre
<1>2. ran \in Call /\ ran.command = c /\ ran.fresh = fresh /\ ran.commits = ran.sent - 1
      /\ ran.again = old.again /\ ran.shown = old.shown /\ ran.fault = "none"
  BY <1>1 DEF Call, Running
<1>3. Shown(t) = old.shown
  BY <1>1, NoCallAssumption DEF Shown
<1>4. ErrorOf(c) \in {"IllegalStateTransitionError", "TaskValidationError"}
  BY DEF ErrorOf
<1>5. /\ pc \in [Threads -> {"idle", "commit", "publish"}]
      /\ work \in [Threads -> Work \cup {NoWork}]
  BY DEF IInv, TypeOK
<1>6. CASE outcome.raised
  <2>1. call' = [call EXCEPT ![t] = refused] /\ UNCHANGED <<pc, work>>
    BY <1>6 DEF Ran, Hold
  <2> HIDE DEF old, ran
  <2>2. /\ refused \in Call /\ refused.at = "answered" /\ refused.fault = ErrorOf(c)
        /\ refused.command = c /\ refused.fresh = fresh /\ refused.shown = Shown(t)
        /\ refused.commits = refused.sent - 1
    BY <1>2, <1>3, <1>4 DEF Call, DomainErrors
  <2> HIDE DEF refused
  <2>3. Answered(refused)
    BY <1>4, <1>6, <2>2 DEF Answered
  <2>4. Serves(refused, pc'[t], work'[t])
    BY <1>1, <2>1, <2>2, <2>3, NoCallAssumption DEF Serves
  <2> QED BY <2>1, <2>2, <2>4, OneCall
<1>7. CASE ~ outcome.raised
  <2> DEFINE w == [persist |-> persist, id |-> id,
                   task |-> outcome.task, events |-> outcome.events]
  <2>1. call' = [call EXCEPT ![t] = goes] /\ pc' = [pc EXCEPT ![t] = "commit"]
        /\ work' = [work EXCEPT ![t] = w]
    BY <1>7 DEF Ran, Hold
  <2> HIDE DEF old, ran
  <2>2. /\ goes \in Call /\ goes.at = "busy" /\ goes.fault = "none" /\ goes.command = c
        /\ goes.fresh = fresh /\ goes.again = old.again /\ goes.commits = goes.sent - 1
    BY <1>2 DEF Call
  <2>3. w.persist = persist /\ w.id = id /\ w.task = outcome.task
        /\ w.events = outcome.events
    OBVIOUS
  <2> HIDE DEF goes, w
  <2>4. Storing(goes, w)
    BY <1>1, <1>7, <2>2, <2>3 DEF Storing, old
  <2>5. pc'[t] = "commit" /\ work'[t] = w
        /\ \A u \in Threads \ {t} : pc'[u] = pc[u] /\ work'[u] = work[u]
    BY <1>5, <2>1
  <2>6. Serves(goes, pc'[t], work'[t])
    BY <2>2, <2>4, <2>5, NoCallAssumption DEF Serves
  <2> QED BY <2>1, <2>2, <2>5, <2>6, OneCall
<1> QED BY <1>6, <1>7

LEMMA RunCreateKeeps ==
    ASSUME IInv, CallInv, NEW t \in Threads, RunCreate(t) PROVE CallInv' /\ CreateTask(t)
<1>1. PICK c \in {d \in Commands(t) : d.op = "create"}, id \in Ids \ minted :
          LET outcome == Create(c.title, c.description, c.priority)
          IN  /\ Hold(t, "add", id, outcome)
              /\ minted' = IF outcome.raised THEN minted ELSE minted \cup {id}
              /\ Ran(t, c, outcome, FALSE)
  BY DEF RunCreate
<1> DEFINE outcome == Create(c.title, c.description, c.priority)
<1>2. Runs(t) /\ c \in Commands(t) /\ c.op = "create"
  BY DEF RunCreate
<1>3. c \in Command
  BY <1>2, CommandsAre
<1>4. c.title \in RawTitles /\ c.description \in RawDescriptions
      /\ c.priority \in Priorities \cup {Invalid}
  BY <1>2, <1>3, CommandKinds DEF CreateTaskCommand
<1>5. Hold(t, "add", id, outcome) /\ Ran(t, c, outcome, FALSE)
  BY <1>1
<1>6. CreateTask(t)
  BY <1>1, <1>2, <1>4 DEF CreateTask, Runs
<1>7. Settled(c, id, outcome.task)
  BY <1>2 DEF Settled
<1> HIDE DEF outcome
<1>8. CallInv'
  BY <1>2, <1>5, <1>7, RanKeeps
<1> QED BY <1>6, <1>8

\* The command on an existing task is one of the four use cases.
LEMMA OutcomeIsUseCase ==
    ASSUME IInv, NEW t \in Threads, Receive(t), UNCHANGED minted,
           NEW c \in Command, c.op # "create", row[c.id] # NoTask,
           Hold(t, IF c.op = "delete" THEN "delete" ELSE "save", c.id, Outcome(row[c.id], c))
    PROVE  Request(t)
<1>1. c.id \in {i \in Ids : row[i] # NoTask}
  BY CommandKinds DEF EditTaskCommand, ChangePriorityCommand, TransitionTaskCommand,
                      DeleteTaskCommand
<1>2. CASE c.op = "edit"
  <2>1. c.title \in RawTitles \cup {None} /\ c.description \in RawDescriptions \cup {None}
    BY <1>2, CommandKinds DEF EditTaskCommand
  <2>2. Hold(t, "save", c.id, EditDetails(row[c.id], c.title, c.description))
    BY <1>2 DEF Outcome
  <2> QED BY <1>1, <2>1, <2>2 DEF Request, EditTask
<1>3. CASE c.op = "priority"
  <2>1. c.priority \in Priorities \cup {Invalid}
    BY <1>3, CommandKinds DEF ChangePriorityCommand
  <2>2. Hold(t, "save", c.id, ChangePriority(row[c.id], c.priority))
    BY <1>3 DEF Outcome
  <2> QED BY <1>1, <2>1, <2>2 DEF Request, ReprioritizeTask
<1>4. CASE c.op = "transition"
  <2>1. c.target \in Statuses \cup {Invalid}
    BY <1>4, CommandKinds DEF TransitionTaskCommand
  <2>2. Hold(t, "save", c.id, TransitionTo(row[c.id], c.target, Strict))
    BY <1>4 DEF Outcome, Enforce
  <2> QED BY <1>1, <2>1, <2>2 DEF Request, TransitionTask
<1>5. CASE c.op = "delete"
  <2>1. Hold(t, "delete", c.id, MarkDeleted(row[c.id]))
    BY <1>5 DEF Outcome
  <2> QED BY <1>1, <2>1 DEF Request, DeleteTask
<1> QED BY <1>2, <1>3, <1>4, <1>5, CommandKinds

LEMMA RunOnTaskKeeps ==
    ASSUME IInv, CallInv, NEW t \in Threads, RunOnTask(t) PROVE CallInv' /\ Request(t)
<1>1. PICK c \in {d \in Commands(t) : d.op # "create" /\ row[d.id] # NoTask} :
          /\ Hold(t, IF c.op = "delete" THEN "delete" ELSE "save", c.id, Outcome(row[c.id], c))
          /\ Ran(t, c, Outcome(row[c.id], c), AsShown(t, c.id))
  BY DEF RunOnTask
<1> DEFINE outcome == Outcome(row[c.id], c)
           persist == IF c.op = "delete" THEN "delete" ELSE "save"
           fresh == AsShown(t, c.id)
<1>2. Runs(t) /\ Receive(t) /\ UNCHANGED minted /\ c \in Commands(t) /\ c.op # "create"
      /\ row[c.id] # NoTask
  BY DEF RunOnTask, Runs
<1>3. c \in Command /\ Running(call[t]) /\ call[t] \in Call
      /\ (call[t].again => c = call[t].command)
  BY <1>2, CommandsAre
<1>4. Hold(t, persist, c.id, outcome) /\ Ran(t, c, outcome, fresh)
  BY <1>1
<1>5. Request(t)
  BY <1>2, <1>3, <1>4, OutcomeIsUseCase
<1>6. c.id \in Ids /\ row[c.id] \in Task
  <2>1. c.id \in Ids
    BY <1>2, <1>3, CommandKinds DEF EditTaskCommand, ChangePriorityCommand,
                                    TransitionTaskCommand, DeleteTaskCommand
  <2> QED BY <1>2, <2>1 DEF IInv, TypeOK, LedgerTypeOK
<1>7. fresh \in BOOLEAN
  BY DEF AsShown
<1>8. Shown(t) = call[t].shown
  BY <1>3, NoCallAssumption DEF Shown
<1>9. fresh => Shown(t) # NoTask /\ Shown(t).id = c.id /\ Shown(t).task = row[c.id]
  BY DEF AsShown
<1>10. ~ outcome.raised => Settled(c, c.id, IF persist = "delete" THEN NoTask ELSE outcome.task)
  <2>1. ~ outcome.raised =>
            Settled(c, c.id, IF c.op = "delete" THEN NoTask ELSE Outcome(row[c.id], c).task)
    BY <1>2, <1>3, <1>6, OutcomeSettles
  <2> QED BY <2>1
<1>11. call[t].again /\ fresh => outcome.events = <<>>
  <2> SUFFICES ASSUME call[t].again, fresh PROVE outcome.events = <<>>
    OBVIOUS
  <2>1. Settled(c, call[t].shown.id, call[t].shown.task)
    BY <1>3 DEF Running
  <2> QED BY <1>2, <1>8, <1>9, <2>1 DEF Settled
<1>12. outcome.raised /\ fresh /\ ErrorOf(c) = "IllegalStateTransitionError" =>
          /\ c \in TransitionTaskCommand /\ Shown(t) # NoTask /\ Shown(t).task \in Task
          /\ c.target \notin AllowedTransitions[Shown(t).task.status]
  BY <1>2, <1>3, <1>6, <1>9, ConflictMeans
<1>13. persist # "add"
  OBVIOUS
<1> HIDE DEF outcome, persist, fresh
<1>14. CallInv'
  BY <1>2, <1>4, <1>7, <1>10, <1>11, <1>12, <1>13, RanKeeps
<1> QED BY <1>5, <1>14

LEMMA RunOnNothingKeeps ==
    ASSUME IInv, CallInv, NEW t \in Threads, RunOnNothing(t)
    PROVE  CallInv' /\ FindNothing(t)
<1>1. PICK c \in {d \in Commands(t) : d.op # "create" /\ row[d.id] = NoTask} :
          call' = [call EXCEPT ![t].command = c, ![t].at = "answered",
                               ![t].fault = "TaskNotFoundError"]
  BY DEF RunOnNothing
<1>2. Runs(t) /\ Receive(t) /\ UNCHANGED <<minted, pc, work>>
  BY DEF RunOnNothing, Runs
<1>3. c \in Command /\ Running(call[t]) /\ call[t] \in Call /\ pc[t] = "idle"
  BY <1>1, <1>2, CommandsAre
<1> DEFINE old == call[t]
           new == [old EXCEPT !.command = c, !.at = "answered", !.fault = "TaskNotFoundError"]
<1>4. call' = [call EXCEPT ![t] = new]
  BY <1>1, <1>3 DEF CallInv
<1>5. c.id \in Ids
  BY <1>1, <1>3, CommandKinds DEF EditTaskCommand, ChangePriorityCommand,
                                  TransitionTaskCommand, DeleteTaskCommand
<1>6. FindNothing(t)
  BY <1>1, <1>2, <1>5 DEF FindNothing
<1>7. old \in Call /\ old.commits = old.sent - 1
  BY <1>3 DEF Running
<1> HIDE DEF old
<1>8. new \in Call /\ new.at = "answered" /\ new.fault = "TaskNotFoundError"
      /\ new.commits = new.sent - 1
  BY <1>3, <1>7 DEF Call, DomainErrors
<1> HIDE DEF new
<1>9. Serves(new, pc'[t], work'[t])
  BY <1>2, <1>3, <1>8, NoCallAssumption DEF Serves, Answered
<1> QED BY <1>2, <1>4, <1>6, <1>8, <1>9, OneCall

-----------------------------------------------------------------------------
(* What comes of a command *)

\* A thread at a transaction serves a request, whose command it is.
LEMMA CommittingCall ==
    ASSUME IInv, CallInv, NEW t \in Threads, pc[t] = "commit"
    PROVE  /\ call[t] \in Call /\ call[t].at = "busy" /\ call[t].fault = "none"
           /\ Storing(call[t], work[t]) /\ work[t] \in Work
<1>1. call[t] # NoCall /\ call[t].at = "busy"
  BY OpenCall DEF Open
<1>2. call[t] \in Call /\ Serves(call[t], pc[t], work[t])
  BY <1>1, OpenCall
<1> QED BY <1>1, <1>2, HeldIsMinted DEF Serves

LEMMA CommandStoredKeeps ==
    ASSUME IInv, CallInv, NEW t \in Threads, CommandStored(t) PROVE CallInv' /\ Finish(t)
<1> DEFINE old == call[t]
           w == work[t]
           left == IF w.persist = "delete" THEN NoTask ELSE w.task
           seen == [id |-> w.id, task |-> left]
           new == [old EXCEPT !.commits = @ + 1, !.shown = seen]
<1>1. pc[t] = "commit" /\ Committed(t) /\ Finish(t)
  BY DEF CommandStored, CommitAdd, CommitSave, CommitDelete, Finish
<1>2. old \in Call /\ old.at = "busy" /\ old.fault = "none" /\ Storing(old, w) /\ w \in Work
  BY <1>1, CommittingCall
<1>3. call' = [call EXCEPT ![t] = new]
  BY <1>2 DEF CommandStored, CallInv
<1>4. /\ pc \in [Threads -> {"idle", "commit", "publish"}]
      /\ work \in [Threads -> Work \cup {NoWork}]
  BY DEF IInv, TypeOK
<1>5. \A u \in Threads \ {t} : pc'[u] = pc[u] /\ work'[u] = work[u]
  BY <1>1, <1>4 DEF Committed, Release
<1>6. pc'[t] # "commit"
  BY <1>1, <1>4 DEF Committed, Release
<1>7. seen \in Showing /\ seen.id = w.id /\ seen.task = left
  BY <1>2 DEF Work, Showing
<1>8. seen # NoTask
  BY <1>7, NotShownAssumption
<1>9. old.commits = old.sent - 1 /\ old.command \in Command
      /\ Settled(old.command, w.id, left)
  BY <1>2 DEF Storing
<1> HIDE DEF old, seen
<1>10. /\ new \in Call /\ new.at = "busy" /\ new.fault = "none" /\ new.commits = new.sent
       /\ new.command = old.command /\ new.shown = seen
  <2>1. old.commits + 1 = old.sent /\ old.commits + 1 \in Nat
    BY <1>2, <1>9 DEF Call
  <2> QED BY <1>2, <1>7, <2>1 DEF Call
<1> HIDE DEF new, left
<1>11. StoredAll(new)
  BY <1>7, <1>8, <1>9, <1>10 DEF StoredAll
<1>12. Serves(new, pc'[t], work'[t])
  BY <1>6, <1>10, <1>11, NoCallAssumption DEF Serves
<1> QED BY <1>1, <1>3, <1>5, <1>10, <1>12, OneCall

\* The thread lets go of what it held, and the request is answered with an error.
LEMMA FailKeeps ==
    ASSUME IInv, CallInv, NEW t \in Threads, pc[t] = "commit", Release(t),
           NEW fault \in {"TaskNotFoundError", "DatabaseError"}, Fail(t, fault)
    PROVE  CallInv'
<1> DEFINE old == call[t]
           new == [old EXCEPT !.at = "answered", !.fault = fault]
<1>1. old \in Call /\ Storing(old, work[t])
  BY CommittingCall
<1>2. call' = [call EXCEPT ![t] = new]
  BY <1>1 DEF Fail, CallInv
<1>3. pc'[t] = "idle" /\ \A u \in Threads \ {t} : pc'[u] = pc[u] /\ work'[u] = work[u]
  BY DEF Release, IInv, TypeOK
<1>4. old.commits = old.sent - 1
  BY <1>1 DEF Storing
<1> HIDE DEF old
<1>5. new \in Call /\ new.at = "answered" /\ new.fault = fault /\ new.commits = new.sent - 1
  BY <1>1, <1>4 DEF Call, DomainErrors
<1> HIDE DEF new
<1>6. Serves(new, pc'[t], work'[t])
  BY <1>3, <1>5, NoCallAssumption DEF Serves, Answered
<1> QED BY <1>2, <1>3, <1>5, <1>6, OneCall

LEMMA DispatchKeeps ==
    ASSUME IInv, CallInv, NEW t \in Threads, Dispatch(t) PROVE CallInv' /\ Finish(t)
<1>1. pc[t] = "publish" /\ Publish(t) /\ UNCHANGED call
  BY DEF Dispatch, Publish
<1>2. /\ pc \in [Threads -> {"idle", "commit", "publish"}]
      /\ work \in [Threads -> Work \cup {NoWork}]
  BY DEF IInv, TypeOK
<1>3. pc'[t] # "commit" /\ \A u \in Threads \ {t} : pc'[u] = pc[u] /\ work'[u] = work[u]
  BY <1>1, <1>2 DEF Publish, Release
<1>4. call[t] # NoCall /\ call[t].at = "busy" /\ Serves(call[t], pc[t], work[t])
  BY <1>1, OpenCall DEF Open
<1>5. Serves(call[t], pc'[t], work'[t])
  BY <1>1, <1>3, <1>4 DEF Serves
<1> QED BY <1>1, <1>3, <1>5, SameCall DEF Finish

\* A request whose last command is stored and dispatched.
LEMMA FinishedCall ==
    ASSUME CallInv, NEW t \in Threads, Finished(t)
    PROVE  /\ call[t] \in Call /\ call[t].fault = "none" /\ StoredAll(call[t])
           /\ pc[t] = "idle"
<1>1. call[t] # NoCall /\ call[t].at = "busy" /\ pc[t] = "idle"
  BY DEF Finished, Open
<1> QED BY <1>1, OpenCall DEF Serves

LEMMA NextCommandKeeps ==
    ASSUME CallInv, NEW t \in Threads, NextCommand(t) PROVE CallInv' /\ UNCHANGED vars
<1> DEFINE old == call[t]
           new == [old EXCEPT !.sent = @ + 1, !.fresh = FALSE, !.again = FALSE, !.at = "run"]
<1>1. old \in Call /\ old.fault = "none" /\ StoredAll(old) /\ pc[t] = "idle" /\ UNCHANGED vars
  BY FinishedCall DEF NextCommand
<1>2. call' = [call EXCEPT ![t] = new]
  BY <1>1 DEF NextCommand, CallInv
<1>3. UNCHANGED <<pc, work>>
  BY <1>1 DEF vars
<1>4. old.commits = old.sent /\ old.shown # NoTask
  BY <1>1 DEF StoredAll
<1> HIDE DEF old
<1>5. /\ new \in Call /\ new.at = "run" /\ new.fault = "none" /\ ~ new.again
      /\ new.commits = new.sent - 1 /\ new.shown # NoTask
  <2>1. old.sent + 1 \in Nat /\ old.commits = (old.sent + 1) - 1
    BY <1>1, <1>4 DEF Call
  <2> QED BY <1>1, <1>4, <2>1 DEF Call
<1> HIDE DEF new
<1>6. Serves(new, pc'[t], work'[t])
  BY <1>1, <1>3, <1>5, NoCallAssumption DEF Serves, Running
<1> QED BY <1>1, <1>2, <1>3, <1>5, <1>6, OneCall

LEMMA AnswerKeeps ==
    ASSUME CallInv, NEW t \in Threads, Answer(t) PROVE CallInv' /\ UNCHANGED vars
<1> DEFINE old == call[t]
           new == [old EXCEPT !.at = "answered"]
<1>1. old \in Call /\ old.fault = "none" /\ StoredAll(old) /\ pc[t] = "idle" /\ UNCHANGED vars
  BY FinishedCall DEF Answer
<1>2. call' = [call EXCEPT ![t] = new]
  BY DEF Answer
<1>3. UNCHANGED <<pc, work>>
  BY <1>1 DEF vars
<1> HIDE DEF old
<1>4. /\ new \in Call /\ new.at = "answered" /\ new.fault = "none"
      /\ new.commits = old.commits /\ new.sent = old.sent /\ new.command = old.command
      /\ new.shown = old.shown
  BY <1>1 DEF Call
<1> HIDE DEF new
<1>5. StoredAll(new)
  BY <1>1, <1>4 DEF StoredAll
<1>6. Serves(new, pc'[t], work'[t])
  BY <1>1, <1>3, <1>4, <1>5, NoCallAssumption DEF Serves, Answered
<1> QED BY <1>1, <1>2, <1>3, <1>4, <1>6, OneCall

-----------------------------------------------------------------------------
(* The steps together *)

LEMMA TransportNextKeeps ==
    ASSUME IInv, CallInv, [TransportNext]_tvars PROVE CallInv' /\ [Next]_vars
<1>1. ASSUME NEW t \in Threads, Send(t) \/ Reject(t) \/ Resend(t) \/ Retrieve(t)
                                \/ NextCommand(t) \/ Answer(t)
      PROVE  CallInv' /\ UNCHANGED vars
  BY <1>1, SendKeeps, RejectKeeps, ResendKeeps, RetrieveKeeps, NextCommandKeeps, AnswerKeeps
<1>2. ASSUME NEW t \in Threads, RunCreate(t) \/ RunOnTask(t) \/ RunOnNothing(t)
      PROVE  CallInv' /\ Request(t)
  BY <1>2, RunCreateKeeps, RunOnTaskKeeps, RunOnNothingKeeps DEF Request
<1>3. ASSUME NEW t \in Threads, CommandMisses(t) PROVE CallInv' /\ Finish(t)
  BY <1>3, FailKeeps DEF CommandMisses, SaveFindsNothing, Finish
<1>4. ASSUME NEW t \in Threads, CommandFails(t) PROVE CallInv' /\ Finish(t)
  BY <1>4, FailKeeps DEF CommandFails, RollBack, Finish
<1>5. ASSUME NEW t \in Threads, CommandStored(t) \/ Dispatch(t) PROVE CallInv' /\ Finish(t)
  BY <1>5, CommandStoredKeeps, DispatchKeeps
<1>6. ASSUME AllAnswered \/ UNCHANGED tvars PROVE CallInv' /\ UNCHANGED vars
  <2>1. UNCHANGED <<vars, call>>
    BY <1>6 DEF AllAnswered, tvars
  <2> QED BY <2>1 DEF vars, CallInv
<1> QED BY <1>1, <1>2, <1>3, <1>4, <1>5, <1>6 DEF TransportNext, Next

LEMMA InitCallInv == TransportInit => IInv /\ CallInv
<1> SUFFICES ASSUME TransportInit PROVE IInv /\ CallInv
  OBVIOUS
<1>1. IInv
  BY InitIInv DEF TransportInit
<1>2. CallInv
  BY DEF TransportInit, Init, CallInv, Serves
<1> QED BY <1>1, <1>2

LEMMA CallInductive == TransportSpec => [](IInv /\ CallInv)
<1>1. IInv /\ CallInv /\ [TransportNext]_tvars => IInv' /\ CallInv'
  BY TransportNextKeeps, NextKeepsIInv
<1> QED BY <1>1, InitCallInv, PTL DEF TransportSpec

-----------------------------------------------------------------------------
(* Theorems *)

\* Whatever the transport, what reaches the tables and the bus are the use cases of the
\* service ("a thin HTTP adapter over the application service").
THEOREM TransportsImplementService == TransportSpec => ImplementsService
<1>1. TransportInit => Init
  BY DEF TransportInit
<1>2. IInv /\ CallInv /\ [TransportNext]_tvars => [Next]_vars
  BY TransportNextKeeps
<1> QED BY <1>1, <1>2, CallInductive, PTL DEF TransportSpec, ImplementsService, Spec

\* A client is told that its request was done exactly if all its commands were stored,
\* and of a request that failed all but the last: neither a subscriber that raises nor
\* a transaction that fails makes the answer wrong.
THEOREM AnswersAreHonest == TransportSpec => []AnswerIsHonest
<1>1. CallInv => AnswerIsHonest
  <2> SUFFICES ASSUME CallInv, NEW t \in Threads, call[t] # NoCall, call[t].at = "answered"
               PROVE  call[t].commits = IF SaysDone(t) THEN call[t].sent ELSE call[t].sent - 1
    BY DEF AnswerIsHonest
  <2>1. call[t] \in Call /\ Answered(call[t])
    BY OpenCall DEF Serves
  <2>2. call[t].fault \in DomainErrors \cup {"none", "DatabaseError"}
    BY <2>1 DEF Call
  <2>3. SaysDone(t) <=> call[t].fault = "none"
    BY <2>2 DEF SaysDone, Status, StatusFor, DomainErrors
  <2> QED BY <2>1, <2>3 DEF Answered, StoredAll
<1> QED BY <1>1, CallInductive, PTL

\* A request that is sent again after it was done records nothing more, if the task is
\* still as the answer showed it: a client may retry edits, changes of priority and
\* transitions.
THEOREM RetriesRecordNothing == TransportSpec => []RetryRecordsNothing
<1>1. IInv /\ CallInv => RetryRecordsNothing
  BY CommittingCall DEF RetryRecordsNothing, Storing
<1> QED BY <1>1, CallInductive, PTL

\* A client that asks for a transition among the allowed_transitions it was shown is told
\* of a conflict only if the task has changed since.
THEOREM ConflictsMeanStale == TransportSpec => []ConflictMeansStale
<1>1. CallInv => ConflictMeansStale
  <2> SUFFICES ASSUME CallInv, NEW t \in Threads, Answers(t, 409), call[t].fresh
               PROVE  call[t].command.target \notin AllowedTargets(Shown(t).task.status)
    BY DEF ConflictMeansStale
  <2>1. call[t] \in Call /\ Answered(call[t]) /\ call[t].shown = Shown(t)
    BY OpenCall DEF Answers, Serves, Shown
  <2>2. call[t].fault \in DomainErrors \cup {"none", "DatabaseError"}
    BY <2>1 DEF Call
  <2>3. call[t].fault = "IllegalStateTransitionError"
    BY <2>2 DEF Answers, Status, StatusFor, DomainErrors
  <2> QED BY <2>1, <2>3 DEF Answered, AllowedTargets
<1> QED BY <1>1, CallInductive, PTL

-----------------------------------------------------------------------------
(* What a client has seen *)

\* With event sourcing on, what a client has seen has a history; and if the client was
\* last told that it does not exist, then it has no row.
SeenCall(c) ==
    c # NoCall /\ c.shown # NoTask =>
        /\ stream[c.shown.id] # <<>>
        /\ c.at = "answered" /\ c.fault = "TaskNotFoundError" /\ c.command.id = c.shown.id
              => row[c.shown.id] = NoTask

SeenInv == \A t \in Threads : SeenCall(call[t])

\* A history does not get lost, and a task that has one but no row never has one again.
LEMMA GoneStays ==
    ASSUME EventSourcing, IInv, [Next]_vars, NEW id \in Ids, stream[id] # <<>>
    PROVE  stream'[id] # <<>> /\ (row[id] = NoTask => row'[id] = NoTask)
<1>1. CASE UNCHANGED ledger
  BY <1>1 DEF ledger
<1>2. CASE LedgerNext
  <2>1. PICK i \in Ids : AddTask(i) \/ ChangeTask(i) \/ RemoveTask(i)
    BY <1>2 DEF LedgerNext
  <2>2. Step(i) /\ stream \in [Ids -> Seq(Event)] /\ stream' \in [Ids -> Seq(Event)]
    BY <2>1, NextIsStep DEF IInv, TypeOK, LedgerTypeOK
  <2>3. Len(stream[id]) \in Nat /\ Len(stream[id]) # 0
    BY <2>2, LenProperties, EmptySeq
  <2>4. CASE id # i
    BY <2>2, <2>4 DEF Step
  <2>5. CASE id = i
    <3>1. \/ row[id] # NoTask /\ GoesOn(stream[id], stream'[id], LegalEvents)
          \/ row'[id] = NoTask /\ GoesOn(stream[id], stream'[id], DeletedEvents)
      BY <2>2, <2>5 DEF Step
    <3>2. Len(stream'[id]) # 0
      BY <2>3, <3>1 DEF GoesOn
    <3>3. Len(<<>>) = 0
      OBVIOUS
    <3> QED BY <3>1, <3>2, <3>3
  <2> QED BY <2>4, <2>5
<1> QED BY <1>1, <1>2, NextIsLedgerNext

\* Most steps show the client nothing new, and do not miss a task.
LEMMA MostKeepShowing ==
    ASSUME IInv, CallInv, NEW t \in Threads,
           \/ Send(t) \/ Reject(t) \/ Resend(t) \/ RunCreate(t) \/ RunOnTask(t)
           \/ NextCommand(t) \/ Answer(t) \/ CommandFails(t) \/ Dispatch(t)
    PROVE  /\ \A u \in Threads \ {t} : call'[u] = call[u]
           /\ call'[t].shown = Shown(t)
           /\ ~ (call'[t].at = "answered" /\ call'[t].fault = "TaskNotFoundError")
<1> DEFINE Keeps == /\ \A u \in Threads \ {t} : call'[u] = call[u]
                    /\ call'[t].shown = Shown(t)
                    /\ ~ (call'[t].at = "answered" /\ call'[t].fault = "TaskNotFoundError")
<1>1. ASSUME NEW c, call' = [call EXCEPT ![t] = c], c.shown = Shown(t),
             ~ (c.at = "answered" /\ c.fault = "TaskNotFoundError")
      PROVE  Keeps
  BY <1>1 DEF CallInv
<1>2. CASE Send(t)
  <2>1. PICK transport \in {"rest", "web", "graphql", "seed"} :
            call' = [call EXCEPT ![t] = Opened(t, transport)]
    BY <1>2 DEF Send
  <2> QED BY <2>1, <1>1, OpenedIsCall
<1>3. CASE Reject(t)
  BY <1>3, <1>1 DEF Reject, Opened
<1>4. CASE Resend(t)
  BY <1>4, <1>1 DEF Resend, Opened
<1>5. ASSUME NEW c, NEW outcome, NEW fresh, Runs(t), Ran(t, c, outcome, fresh) PROVE Keeps
  <2> DEFINE ran == [call[t] EXCEPT !.command = c, !.fresh = fresh]
             new == IF outcome.raised
                    THEN [ran EXCEPT !.at = "answered", !.fault = ErrorOf(c)]
                    ELSE [ran EXCEPT !.at = "busy"]
  <2>1. call[t] \in Call /\ Shown(t) = call[t].shown
    BY <1>5, OpenCall DEF Runs, Open, Shown
  <2>2. ErrorOf(c) # "TaskNotFoundError"
    BY DEF ErrorOf
  <2>3. call' = [call EXCEPT ![t] = new]
    BY <1>5 DEF Ran
  <2>4. new.shown = call[t].shown
        /\ ~ (new.at = "answered" /\ new.fault = "TaskNotFoundError")
    BY <2>1, <2>2 DEF Call
  <2> HIDE DEF new
  <2> QED BY <1>1, <2>1, <2>3, <2>4
<1>6. CASE RunCreate(t) \/ RunOnTask(t)
  BY <1>6, <1>5 DEF RunCreate, RunOnTask
<1>7. CASE NextCommand(t) \/ Answer(t)
  <2>1. call[t] \in Call /\ call[t].fault = "none" /\ Shown(t) = call[t].shown
    BY <1>7, FinishedCall DEF NextCommand, Answer, Finished, Open, Shown
  <2>2. CASE NextCommand(t)
    <3> DEFINE new == [call[t] EXCEPT !.sent = @ + 1, !.fresh = FALSE, !.again = FALSE,
                                      !.at = "run"]
    <3>1. call' = [call EXCEPT ![t] = new]
      BY <2>2 DEF NextCommand, CallInv
    <3>2. new.at = "run" /\ new.shown = call[t].shown
      BY <2>1 DEF Call
    <3> HIDE DEF new
    <3> QED BY <1>1, <2>1, <3>1, <3>2
  <2>3. CASE Answer(t)
    <3> DEFINE new == [call[t] EXCEPT !.at = "answered"]
    <3>1. call' = [call EXCEPT ![t] = new]
      BY <2>3 DEF Answer
    <3>2. new.fault = "none" /\ new.shown = call[t].shown
      BY <2>1 DEF Call
    <3> HIDE DEF new
    <3> QED BY <1>1, <2>1, <3>1, <3>2
  <2> QED BY <1>7, <2>2, <2>3
<1>8. CASE CommandFails(t)
  <2> DEFINE new == [call[t] EXCEPT !.at = "answered", !.fault = "DatabaseError"]
  <2>1. pc[t] = "commit"
    BY <1>8 DEF CommandFails, RollBack
  <2>2. call[t] \in Call /\ Shown(t) = call[t].shown
    BY <2>1, CommittingCall, NoCallAssumption DEF Shown
  <2>3. call' = [call EXCEPT ![t] = new]
    BY <1>8 DEF CommandFails, Fail, CallInv
  <2>4. new.fault = "DatabaseError" /\ new.shown = call[t].shown
    BY <2>2 DEF Call
  <2> HIDE DEF new
  <2> QED BY <1>1, <2>2, <2>3, <2>4
<1>9. CASE Dispatch(t)
  <2>1. UNCHANGED call /\ pc[t] = "publish"
    BY <1>9 DEF Dispatch, Publish
  <2>2. call[t] # NoCall /\ call[t].at = "busy"
    BY <2>1, OpenCall DEF Open
  <2> QED BY <2>1, <2>2 DEF Shown
<1> QED BY <1>2, <1>3, <1>4, <1>6, <1>7, <1>8, <1>9

\* What a step does to the request of the thread that takes it is all that matters.
LEMMA SeenStep ==
    ASSUME EventSourcing, IInv, CallInv, SeenInv, [Next]_vars, NEW t \in Threads,
           \A u \in Threads \ {t} : call'[u] = call[u], SeenCall(call[t])'
    PROVE  SeenInv'
<1> SUFFICES ASSUME NEW u \in Threads PROVE SeenCall(call[u])'
  BY DEF SeenInv
<1>1. CASE u = t
  BY <1>1
<1>2. CASE u # t
  <2>1. SeenCall(call[u]) /\ call'[u] = call[u]
    BY <1>2 DEF SeenInv
  <2>2. call[u] # NoCall /\ call[u].shown # NoTask => call[u].shown.id \in Ids
    BY DEF CallInv, Call, Showing
  <2> QED BY <2>1, <2>2, GoneStays DEF SeenCall
<1> QED BY <1>1, <1>2

LEMMA MostKeepSeen ==
    ASSUME EventSourcing, IInv, CallInv, SeenInv, [Next]_vars, NEW t \in Threads,
           \/ Send(t) \/ Reject(t) \/ Resend(t) \/ RunCreate(t) \/ RunOnTask(t)
           \/ NextCommand(t) \/ Answer(t) \/ CommandFails(t) \/ Dispatch(t)
    PROVE  SeenInv'
<1>1. /\ \A u \in Threads \ {t} : call'[u] = call[u]
      /\ call'[t].shown = Shown(t)
      /\ ~ (call'[t].at = "answered" /\ call'[t].fault = "TaskNotFoundError")
  BY MostKeepShowing
<1>2. Shown(t) # NoTask => Shown(t).id \in Ids /\ stream[Shown(t).id] # <<>>
  BY OpenCall DEF SeenInv, SeenCall, Shown, Showing
<1>3. Shown(t) # NoTask => stream'[Shown(t).id] # <<>>
  BY <1>2, GoneStays
<1>4. SeenCall(call[t])'
  BY <1>1, <1>3 DEF SeenCall
<1> QED BY <1>1, <1>4, SeenStep

\* A task is missed only if it has no row.
LEMMA MissesKeepSeen ==
    ASSUME EventSourcing, IInv, CallInv, SeenInv, [Next]_vars, NEW t \in Threads,
           RunOnNothing(t) \/ CommandMisses(t)
    PROVE  SeenInv'
<1> DEFINE old == call[t]
<1>1. ASSUME NEW c, call' = [call EXCEPT ![t] = c], old \in Call, c.shown = old.shown,
             UNCHANGED <<row, stream>>, row[c.command.id] = NoTask
      PROVE  SeenInv'
  <2>1. call'[t] = c /\ \A u \in Threads \ {t} : call'[u] = call[u]
    BY <1>1 DEF CallInv
  <2>2. old.shown # NoTask => stream[old.shown.id] # <<>>
    BY <1>1, NoCallAssumption DEF SeenInv, SeenCall
  <2>3. SeenCall(call[t])'
    BY <1>1, <2>1, <2>2 DEF SeenCall
  <2> QED BY <2>1, <2>3, SeenStep
<1>2. CASE RunOnNothing(t)
  <2>1. PICK c \in {d \in Commands(t) : d.op # "create" /\ row[d.id] = NoTask} :
            call' = [call EXCEPT ![t].command = c, ![t].at = "answered",
                                 ![t].fault = "TaskNotFoundError"]
    BY <1>2 DEF RunOnNothing
  <2> DEFINE new == [old EXCEPT !.command = c, !.at = "answered",
                                !.fault = "TaskNotFoundError"]
  <2>2. Runs(t) /\ UNCHANGED <<row, stream>>
    BY <1>2 DEF RunOnNothing, Runs, Receive, ledger
  <2>3. old \in Call
    BY <2>1, <2>2, CommandsAre
  <2>4. call' = [call EXCEPT ![t] = new]
    BY <2>1, <2>3 DEF CallInv
  <2>5. new.command = c /\ new.shown = old.shown
    BY <2>3 DEF Call
  <2> HIDE DEF new, old
  <2> QED BY <1>1, <2>1, <2>2, <2>3, <2>4, <2>5
<1>3. CASE CommandMisses(t)
  <2> DEFINE new == [old EXCEPT !.at = "answered", !.fault = "TaskNotFoundError"]
  <2>1. pc[t] = "commit" /\ UNCHANGED <<row, stream>> /\ work[t].persist = "save"
        /\ row[work[t].id] = NoTask
    BY <1>3 DEF CommandMisses, SaveFindsNothing, ledger
  <2>2. old \in Call /\ Storing(old, work[t])
    BY <2>1, CommittingCall
  <2>3. work[t].id = old.command.id
    BY <2>1, <2>2 DEF Storing, Settled
  <2>4. call' = [call EXCEPT ![t] = new]
    BY <1>3, <2>2 DEF CommandMisses, Fail, CallInv
  <2>5. new.command = old.command /\ new.shown = old.shown
    BY <2>2 DEF Call
  <2> HIDE DEF new, old
  <2> QED BY <1>1, <2>1, <2>2, <2>3, <2>4, <2>5
<1> QED BY <1>2, <1>3

\* A task is shown only if it has a row, or had one that is now deleted.
LEMMA ShowsKeepSeen ==
    ASSUME EventSourcing, IInv, CallInv, SeenInv, [Next]_vars, NEW t \in Threads,
           Retrieve(t) \/ CommandStored(t)
    PROVE  SeenInv'
<1>1. IInv'
  BY NextKeepsIInv
<1>2. ASSUME NEW c, call' = [call EXCEPT ![t] = c], c.fault = "none",
             stream'[c.shown.id] # <<>>
      PROVE  SeenInv'
  <2>1. call'[t] = c /\ \A u \in Threads \ {t} : call'[u] = call[u]
    BY <1>2 DEF CallInv
  <2>2. SeenCall(call[t])'
    BY <1>2, <2>1 DEF SeenCall
  <2> QED BY <2>1, <2>2, SeenStep
<1>3. CASE CommandStored(t)
  <2> DEFINE w == work[t]
             left == IF w.persist = "delete" THEN NoTask ELSE w.task
             seen == [id |-> w.id, task |-> left]
             new == [call[t] EXCEPT !.commits = @ + 1, !.shown = seen]
  <2>1. pc[t] = "commit" /\ (CommitAdd(t) \/ CommitSave(t) \/ CommitDelete(t))
    BY <1>3 DEF CommandStored, CommitAdd, CommitSave, CommitDelete
  <2>2. call[t] \in Call /\ call[t].fault = "none" /\ w \in Work
    BY <2>1, CommittingCall
  <2>3. call' = [call EXCEPT ![t] = new]
    BY <1>3, <2>2 DEF CommandStored, CallInv
  <2>4. new.fault = "none" /\ new.shown = seen
    BY <2>2 DEF Call
  <2>5. w.id \in Ids /\ w.task \in Task
    BY <2>2 DEF Work
  <2>6. stream'[w.id] # <<>>
    <3>1. CASE CommitAdd(t) \/ CommitSave(t)
      <4>1. row' = [row EXCEPT ![w.id] = w.task] /\ row \in [Ids -> Task \cup {NoTask}]
        BY <3>1 DEF CommitAdd, CommitSave, IInv, TypeOK, LedgerTypeOK
      <4>2. row'[w.id] # NoTask
        BY <2>5, <4>1, NoTaskAssumption
      <4> QED BY <1>1, <2>5, <4>2 DEF IInv, RowsHaveStreams
    <3>2. CASE CommitDelete(t)
      BY <2>5, <3>2, DeleteStores, GoneStays
    <3> QED BY <2>1, <3>1, <3>2
  <2>7. new.shown.id = w.id
    BY <2>4
  <2> HIDE DEF new, w
  <2> QED BY <1>2, <2>3, <2>4, <2>6, <2>7
<1>4. CASE Retrieve(t)
  <2> DEFINE o == Opened(t, "rest")
  <2>1. PICK q \in GetTaskQuery :
            call' = [call EXCEPT ![t] =
               IF row[q.id] = NoTask
               THEN [o EXCEPT !.command = q, !.at = "answered", !.fault = "TaskNotFoundError"]
               ELSE [o EXCEPT !.command = q, !.at = "answered", !.sent = 0,
                              !.shown = [id |-> q.id, task |-> row[q.id]]]]
    BY <1>4 DEF Retrieve
  <2>2. UNCHANGED <<row, stream>> /\ q.id \in Ids
    BY <1>4 DEF Retrieve, vars, ledger, GetTaskQuery
  <2>3. o \in Call /\ o.fault = "none" /\ o.shown = Shown(t)
    BY OpenedIsCall
  <2> HIDE DEF o
  <2>4. CASE row[q.id] = NoTask
    <3> DEFINE c == [o EXCEPT !.command = q, !.at = "answered", !.fault = "TaskNotFoundError"]
    <3>1. call' = [call EXCEPT ![t] = c] /\ c.command = q /\ c.shown = Shown(t)
      BY <2>1, <2>3, <2>4 DEF Call
    <3> HIDE DEF c
    <3>2. call'[t] = c /\ \A u \in Threads \ {t} : call'[u] = call[u]
      BY <3>1 DEF CallInv
    <3>3. Shown(t) # NoTask => stream[Shown(t).id] # <<>>
      BY DEF SeenInv, SeenCall, Shown
    <3>4. SeenCall(call[t])'
      BY <2>2, <2>4, <3>1, <3>2, <3>3 DEF SeenCall
    <3> QED BY <3>2, <3>4, SeenStep
  <2>5. CASE row[q.id] # NoTask
    <3> DEFINE seen == [id |-> q.id, task |-> row[q.id]]
               c == [o EXCEPT !.command = q, !.at = "answered", !.sent = 0, !.shown = seen]
    <3>1. call' = [call EXCEPT ![t] = c] /\ c.fault = "none" /\ c.shown.id = q.id
      BY <2>1, <2>3, <2>5 DEF Call
    <3>2. stream'[q.id] # <<>>
      BY <2>2, <2>5 DEF IInv, RowsHaveStreams
    <3> HIDE DEF c
    <3> QED BY <1>2, <3>1, <3>2
  <2> QED BY <2>4, <2>5
<1> QED BY <1>3, <1>4

LEMMA TransportNextKeepsSeen ==
    ASSUME EventSourcing, IInv, CallInv, SeenInv, [TransportNext]_tvars PROVE SeenInv'
<1>1. [Next]_vars
  BY TransportNextKeeps
<1>2. ASSUME NEW t \in Threads,
             \/ Send(t) \/ Reject(t) \/ Resend(t) \/ RunCreate(t) \/ RunOnTask(t)
             \/ NextCommand(t) \/ Answer(t) \/ CommandFails(t) \/ Dispatch(t)
      PROVE  SeenInv'
  BY <1>1, <1>2, MostKeepSeen
<1>3. ASSUME NEW t \in Threads, \/ RunOnNothing(t) \/ CommandMisses(t)
                                \/ Retrieve(t) \/ CommandStored(t)
      PROVE  SeenInv'
  BY <1>1, <1>3, MissesKeepSeen, ShowsKeepSeen
<1>4. ASSUME AllAnswered \/ UNCHANGED tvars PROVE SeenInv'
  <2>1. UNCHANGED <<row, stream, call>>
    BY <1>4 DEF AllAnswered, tvars, vars, ledger
  <2> QED BY <2>1 DEF SeenInv, SeenCall
<1> QED BY <1>2, <1>3, <1>4 DEF TransportNext

\* A task that a client has seen, and that it is now told does not exist, was deleted,
\* and with event sourcing on the history says so.
THEOREM MissingIsDeleted == EventSourcing => (TransportSpec => []MissingMeansDeleted)
<1> SUFFICES ASSUME EventSourcing PROVE TransportSpec => []MissingMeansDeleted
  OBVIOUS
<1>1. TransportInit => SeenInv
  BY DEF TransportInit, SeenInv, SeenCall
<1>2. IInv /\ CallInv /\ SeenInv /\ [TransportNext]_tvars => SeenInv'
  BY TransportNextKeepsSeen
<1>3. LedgerInv /\ CallInv /\ SeenInv => MissingMeansDeleted
  <2> SUFFICES ASSUME LedgerInv, CallInv, SeenInv, NEW t \in Threads, Answers(t, 404),
                      Shown(t) # NoTask, call[t].command.id = Shown(t).id
               PROVE  LET events == stream[Shown(t).id]
                      IN  events # <<>> /\ events[Len(events)].kind = "TaskDeleted"
    BY DEF MissingMeansDeleted
  <2>1. call[t] \in Call /\ call[t].at = "answered" /\ call[t].shown = Shown(t)
    BY OpenCall DEF Answers, Shown
  <2>2. call[t].fault = "TaskNotFoundError"
    BY <2>1 DEF Call, Answers, Status, StatusFor, DomainErrors
  <2>3. Shown(t).id \in Ids
    BY <2>1 DEF Call, Showing
  <2>4. stream[Shown(t).id] # <<>> /\ row[Shown(t).id] = NoTask
    BY <2>1, <2>2, NoCallAssumption DEF SeenInv, SeenCall
  <2> QED BY <2>3, <2>4 DEF LedgerInv, RowIffLive
<1>4. TransportSpec => []LedgerInv
  BY TransportsImplementService, ServiceImplementsLedger, LedgerCorrect, PTL DEF ImplementsService
<1> QED BY <1>1, <1>2, <1>3, <1>4, CallInductive, PTL DEF TransportSpec

-----------------------------------------------------------------------------
(***************************************************************************)
(* PROJECTION                                                              *)
(***************************************************************************)


-----------------------------------------------------------------------------
(* Counting in sequences *)

Spots(seq, wanted) == {m \in 1 .. Len(seq) : seq[m] \in wanted}
Count(seq, wanted) == Cardinality(Spots(seq, wanted))

LEMMA SpotsFinite ==
    ASSUME NEW S, NEW seq \in Seq(S), NEW wanted
    PROVE  IsFiniteSet(Spots(seq, wanted)) /\ Count(seq, wanted) \in Nat
<1>1. Len(seq) \in Nat
  BY LenProperties
<1>2. IsFiniteSet(1 .. Len(seq))
  BY <1>1, FS_Interval
<1>3. Spots(seq, wanted) \in SUBSET (1 .. Len(seq))
  BY DEF Spots
<1>4. IsFiniteSet(Spots(seq, wanted))
  BY <1>2, <1>3, FS_Subset
<1> QED BY <1>4, FS_CardinalityType DEF Count

LEMMA CountNone ==
    ASSUME NEW seq, NEW wanted, \A m \in 1 .. Len(seq) : seq[m] \notin wanted
    PROVE  Count(seq, wanted) = 0
<1>1. Spots(seq, wanted) = {}
  BY DEF Spots
<1> QED BY <1>1, FS_EmptySet DEF Count

LEMMA CountEmpty == ASSUME NEW wanted PROVE Count(<<>>, wanted) = 0
  BY CountNone

\* Moving numbers along changes neither that they are finitely many nor how many.
LEMMA Shifted ==
    ASSUME NEW S \in SUBSET Nat, IsFiniteSet(S), NEW k \in Nat
    PROVE  IsFiniteSet({k + m : m \in S}) /\ Cardinality({k + m : m \in S}) = Cardinality(S)
<1> DEFINE T == {k + m : m \in S}
           f == [m \in S |-> k + m]
<1>1. f \in [S -> T] /\ \A n \in T : \E m \in S : f[m] = n
  OBVIOUS
<1>2. \A m, n \in S : f[m] = f[n] => m = n
  OBVIOUS
<1>3. f \in Bijection(S, T)
  BY <1>1, <1>2 DEF Bijection, Injection, Surjection, IsInjective
<1>4. ExistsBijection(S, T)
  BY <1>3 DEF ExistsBijection
<1> QED BY <1>4, FS_Bijection

LEMMA CountConcat ==
    ASSUME NEW S, NEW a \in Seq(S), NEW b \in Seq(S), NEW wanted
    PROVE  Count(a \o b, wanted) = Count(a, wanted) + Count(b, wanted)
<1> DEFINE k == Len(a)
           A == Spots(a, wanted)
           B == {k + m : m \in Spots(b, wanted)}
<1>1. k \in Nat /\ Len(b) \in Nat /\ Len(a \o b) = k + Len(b)
      /\ a \o b \in Seq(S)
      /\ (\A m \in 1 .. k : (a \o b)[m] = a[m])
      /\ (\A m \in 1 .. Len(b) : (a \o b)[k + m] = b[m])
  <2>1. k \in Nat /\ Len(b) \in Nat
    BY LenProperties
  <2>2. Len(a \o b) = k + Len(b) /\ a \o b \in Seq(S)
    BY ConcatProperties
  <2>3. \A m \in 1 .. k + Len(b) : (a \o b)[m] = IF m <= k THEN a[m] ELSE b[m - k]
    BY ConcatProperties
  <2>4. \A m \in 1 .. Len(b) : k + m \in 1 .. k + Len(b) /\ ~ (k + m <= k) /\ k + m - k = m
    BY <2>1
  <2> QED BY <2>1, <2>2, <2>3, <2>4
<1>2. Spots(a \o b, wanted) = A \cup B
  <2>1. ASSUME NEW m \in Spots(a \o b, wanted) PROVE m \in A \cup B
    <3>1. m \in 1 .. k + Len(b) /\ (a \o b)[m] \in wanted
      BY <1>1 DEF Spots
    <3>2. CASE m <= k
      BY <1>1, <3>1, <3>2 DEF Spots
    <3>3. CASE m > k
      <4>1. m - k \in 1 .. Len(b) /\ k + (m - k) = m
        BY <1>1, <3>1, <3>3
      <4>2. b[m - k] \in wanted
        BY <1>1, <3>1, <4>1
      <4>3. m - k \in Spots(b, wanted)
        BY <4>1, <4>2 DEF Spots
      <4> QED BY <4>1, <4>3
    <3> QED BY <1>1, <3>1, <3>2, <3>3
  <2>2. ASSUME NEW m \in A PROVE m \in Spots(a \o b, wanted)
    BY <1>1 DEF Spots
  <2>3. ASSUME NEW m \in Spots(b, wanted) PROVE k + m \in Spots(a \o b, wanted)
    <3>1. m \in 1 .. Len(b) /\ b[m] \in wanted
      BY DEF Spots
    <3>2. k + m \in 1 .. Len(a \o b) /\ (a \o b)[k + m] \in wanted
      BY <1>1, <3>1
    <3> QED BY <3>2 DEF Spots
  <2> QED BY <2>1, <2>2, <2>3
<1>3. A \cap B = {}
  BY <1>1 DEF Spots
<1>4. IsFiniteSet(A) /\ IsFiniteSet(Spots(b, wanted))
  BY SpotsFinite
<1>5. Spots(b, wanted) \in SUBSET Nat
  BY <1>1 DEF Spots
<1>6. IsFiniteSet(B) /\ Cardinality(B) = Count(b, wanted)
  BY <1>1, <1>4, <1>5, Shifted DEF Count
<1>7. Cardinality(A \cap B) = 0
  BY <1>3, FS_EmptySet
<1>8. Count(a, wanted) \in Nat /\ Count(b, wanted) \in Nat
  BY SpotsFinite
<1> HIDE DEF A, B
<1>9. Cardinality(A \cup B) = Cardinality(A) + Cardinality(B) - Cardinality(A \cap B)
  BY <1>4, <1>6, FS_Union
<1> QED BY <1>2, <1>6, <1>7, <1>8, <1>9 DEF Count, A

\* Whether one is wanted, as a number.
Unit(e, wanted) == IF e \in wanted THEN 1 ELSE 0

LEMMA CountOne == ASSUME NEW e, NEW wanted PROVE Count(<<e>>, wanted) = Unit(e, wanted)
<1>1. Len(<<e>>) = 1 /\ <<e>>[1] = e /\ 1 .. 1 = {1}
  OBVIOUS
<1>2. CASE e \in wanted
  <2>1. Spots(<<e>>, wanted) = {1}
    BY <1>1, <1>2 DEF Spots
  <2> QED BY <1>2, <2>1, FS_Singleton DEF Count, Unit
<1>3. CASE e \notin wanted
  BY <1>1, <1>3, CountNone DEF Unit
<1> QED BY <1>2, <1>3

LEMMA CountTwo ==
    ASSUME NEW d, NEW e, NEW wanted
    PROVE  Count(<<d, e>>, wanted) = Unit(d, wanted) + Unit(e, wanted)
<1> DEFINE S == {d, e}
<1>1. d \in S /\ e \in S
  OBVIOUS
<1> HIDE DEF S
<1>2. <<d, e>> = <<d>> \o <<e>> /\ <<d>> \in Seq(S) /\ <<e>> \in Seq(S)
  BY <1>1, Pair
<1> DEFINE a == <<d>>
           b == <<e>>
<1>3. a \in Seq(S) /\ b \in Seq(S)
  BY <1>2
<1> HIDE DEF a, b
<1>4. Count(a \o b, wanted) = Count(a, wanted) + Count(b, wanted)
  BY <1>3, CountConcat
<1> QED BY <1>2, <1>4, CountOne DEF a, b

LEMMA CountTail ==
    ASSUME NEW S, NEW seq \in Seq(S), seq # <<>>, NEW wanted
    PROVE  /\ Head(seq) \in S /\ Tail(seq) \in Seq(S)
           /\ Count(seq, wanted) = Unit(Head(seq), wanted) + Count(Tail(seq), wanted)
           /\ Count(Tail(seq), wanted) \in Nat
<1> DEFINE one == <<Head(seq)>>
           rest == Tail(seq)
<1>1. /\ Head(seq) \in S /\ rest \in Seq(S) /\ Len(rest) = Len(seq) - 1
      /\ \A i \in 1 .. Len(rest) : rest[i] = seq[i + 1]
  BY HeadTailProperties
<1>2. Len(seq) \in Nat /\ Len(seq) # 0 /\ Head(seq) = seq[1]
  BY LenProperties, EmptySeq
<1>3. one \in Seq(S) /\ Len(one) = 1 /\ one[1] = seq[1]
  BY <1>1, <1>2
<1> HIDE DEF one, rest
<1>4. /\ one \o rest \in Seq(S) /\ Len(one \o rest) = Len(seq)
      /\ \A i \in 1 .. Len(seq) : (one \o rest)[i] = IF i <= 1 THEN one[i] ELSE rest[i - 1]
  <2>1. one \in Seq(S) /\ rest \in Seq(S)
    BY <1>1, <1>3
  <2>2. /\ one \o rest \in Seq(S) /\ Len(one \o rest) = Len(one) + Len(rest)
        /\ \A i \in 1 .. Len(one) + Len(rest) :
              (one \o rest)[i] = IF i <= Len(one) THEN one[i] ELSE rest[i - Len(one)]
    BY <2>1, ConcatProperties
  <2> QED BY <2>2, <1>1, <1>2, <1>3
<1>5. \A i \in 1 .. Len(seq) : seq[i] = (one \o rest)[i]
  BY <1>1, <1>2, <1>3, <1>4
<1>6. seq = one \o rest
  BY <1>4, <1>5, SeqEqual
<1>7. Count(seq, wanted) = Count(one, wanted) + Count(rest, wanted)
  BY <1>1, <1>3, <1>6, CountConcat
<1>8. Count(rest, wanted) \in Nat
  BY <1>1, SpotsFinite
<1> QED BY <1>1, <1>7, <1>8, CountOne DEF one, rest

-----------------------------------------------------------------------------
(* Counting in many sequences *)

LEMMA PlacesFinite ==
    ASSUME NEW X, IsFiniteSet(X), NEW S, NEW q \in [X -> Seq(S)], NEW wanted
    PROVE  IsFiniteSet(Places(q, wanted)) /\ Tally(q, wanted) \in Nat
<1> DEFINE At(x) == {<<x, n>> : n \in Spots(q[x], wanted)}
           Parts == {At(x) : x \in X}
           f == [x \in X |-> At(x)]
<1>1. Places(q, wanted) = UNION Parts
  BY DEF Places, Spots
<1>2. IsFiniteSet(Parts)
  <2>1. f \in [X -> Parts] /\ \A part \in Parts : \E x \in X : f[x] = part
    OBVIOUS
  <2> HIDE DEF f, Parts
  <2>2. f \in Surjection(X, Parts)
    BY <2>1 DEF Surjection
  <2> QED BY <2>2, FS_Surjection
<1>3. ASSUME NEW x \in X PROVE IsFiniteSet(At(x))
  <2> DEFINE g == [n \in Spots(q[x], wanted) |-> <<x, n>>]
  <2>1. g \in Surjection(Spots(q[x], wanted), At(x))
    BY DEF Surjection
  <2>2. IsFiniteSet(Spots(q[x], wanted))
    BY SpotsFinite
  <2> QED BY <2>1, <2>2, FS_Surjection
<1>4. IsFiniteSet(UNION Parts)
  BY <1>2, <1>3, FS_UNION
<1> QED BY <1>1, <1>4, FS_CardinalityType DEF Tally

\* Sequences that are empty count for nothing.
LEMMA TallyNone ==
    ASSUME NEW q, \A x \in DOMAIN q : q[x] = <<>>, NEW wanted PROVE Tally(q, wanted) = 0
<1>1. Places(q, wanted) = {}
  BY DEF Places
<1> QED BY <1>1, FS_EmptySet DEF Tally

SameBut(X, q, r, x) == \A y \in X \ {x} : r[y] = q[y]

\* Their tallies differ by what they count at x.
DifferAt(q, r, x, wanted) ==
    /\ Tally(q, wanted) \in Nat /\ Tally(r, wanted) \in Nat
    /\ Count(q[x], wanted) \in Nat /\ Count(r[x], wanted) \in Nat
    /\ Tally(r, wanted) - Count(r[x], wanted) = Tally(q, wanted) - Count(q[x], wanted)

\* Where one sequence is replaced, the tally changes by what it counts.
LEMMA TallyChange ==
    ASSUME NEW X, IsFiniteSet(X), NEW S, NEW q \in [X -> Seq(S)], NEW r \in [X -> Seq(S)],
           NEW x \in X, SameBut(X, q, r, x), NEW wanted
    PROVE  DifferAt(q, r, x, wanted)
<1> DEFINE At(p) == {<<x, n>> : n \in Spots(p[x], wanted)}
           Rest(p) == {place \in Places(p, wanted) : place[1] # x}
<1>1. ASSUME NEW p \in [X -> Seq(S)]
      PROVE  /\ Tally(p, wanted) \in Nat /\ Count(p[x], wanted) \in Nat
             /\ Cardinality(Rest(p)) \in Nat
             /\ Tally(p, wanted) = Cardinality(Rest(p)) + Count(p[x], wanted)
  <2>1. IsFiniteSet(Places(p, wanted)) /\ Tally(p, wanted) \in Nat
    BY PlacesFinite
  <2>2. IsFiniteSet(Rest(p)) /\ Cardinality(Rest(p)) \in Nat
    <3>1. Rest(p) \in SUBSET Places(p, wanted)
      OBVIOUS
    <3> QED BY <2>1, <3>1, FS_Subset, FS_CardinalityType
  <2>3. IsFiniteSet(Spots(p[x], wanted)) /\ Count(p[x], wanted) \in Nat
    BY SpotsFinite
  <2>4. IsFiniteSet(At(p)) /\ Cardinality(At(p)) = Count(p[x], wanted)
    <3> DEFINE g == [n \in Spots(p[x], wanted) |-> <<x, n>>]
    <3>1. g \in [Spots(p[x], wanted) -> At(p)]
          /\ \A place \in At(p) : \E n \in Spots(p[x], wanted) : g[n] = place
      OBVIOUS
    <3>2. \A m, n \in Spots(p[x], wanted) : g[m] = g[n] => m = n
      OBVIOUS
    <3>3. g \in Bijection(Spots(p[x], wanted), At(p))
      BY <3>1, <3>2 DEF Bijection, Injection, Surjection, IsInjective
    <3>4. ExistsBijection(Spots(p[x], wanted), At(p))
      BY <3>3 DEF ExistsBijection
    <3> QED BY <2>3, <3>4, FS_Bijection DEF Count
  <2>5. Places(p, wanted) = Rest(p) \cup At(p)
    BY DEF Places, Spots
  <2>6. Rest(p) \cap At(p) = {}
    OBVIOUS
  <2>7. Cardinality(Rest(p) \cap At(p)) = 0
    BY <2>6, FS_EmptySet
  <2> HIDE DEF Rest, At
  <2>8. Cardinality(Rest(p) \cup At(p)) = Cardinality(Rest(p)) + Cardinality(At(p))
                                          - Cardinality(Rest(p) \cap At(p))
    BY <2>2, <2>4, FS_Union
  <2> QED BY <2>1, <2>2, <2>3, <2>4, <2>5, <2>7, <2>8 DEF Tally
<1>2. Rest(q) = Rest(r)
  BY DEF Places, SameBut
<1> HIDE DEF Rest
<1> QED BY <1>1, <1>2 DEF DifferAt

-----------------------------------------------------------------------------
(* What events and bumps add to a count *)

NetOf(seq, s) == Count(seq, Entering(s)) - Count(seq, Leaving(s))
Net(q, s) == Tally(q, Entering(s)) - Tally(q, Leaving(s))
BumpOf(seq, s) == Count(seq, Adding(s)) - Count(seq, Taking(s))
BumpNet(q, s) == Tally(q, Adding(s)) - Tally(q, Taking(s))

\* Their nets differ by what they add at x.
NetDiffersAt(q, r, x, s) ==
    /\ Net(q, s) \in Int /\ Net(r, s) \in Int
    /\ NetOf(q[x], s) \in Int /\ NetOf(r[x], s) \in Int
    /\ Net(r, s) - NetOf(r[x], s) = Net(q, s) - NetOf(q[x], s)
BumpNetDiffersAt(q, r, x, s) ==
    /\ BumpNet(q, s) \in Int /\ BumpNet(r, s) \in Int
    /\ BumpOf(q[x], s) \in Int /\ BumpOf(r[x], s) \in Int
    /\ BumpNet(r, s) - BumpOf(r[x], s) = BumpNet(q, s) - BumpOf(q[x], s)

LEMMA NetChange ==
    ASSUME NEW X, IsFiniteSet(X), NEW S, NEW q \in [X -> Seq(S)], NEW r \in [X -> Seq(S)],
           NEW x \in X, SameBut(X, q, r, x), NEW s
    PROVE  NetDiffersAt(q, r, x, s) /\ BumpNetDiffersAt(q, r, x, s)
<1>1. DifferAt(q, r, x, Entering(s)) /\ DifferAt(q, r, x, Leaving(s))
  BY TallyChange
<1>2. DifferAt(q, r, x, Adding(s)) /\ DifferAt(q, r, x, Taking(s))
  BY TallyChange
<1>3. /\ Net(q, s) \in Int /\ Net(r, s) \in Int
      /\ NetOf(q[x], s) \in Int /\ NetOf(r[x], s) \in Int
      /\ Net(r, s) - NetOf(r[x], s) = Net(q, s) - NetOf(q[x], s)
  <2> DEFINE a == Tally(q, Entering(s))
             b == Tally(q, Leaving(s))
             c == Tally(r, Entering(s))
             d == Tally(r, Leaving(s))
             k == Count(q[x], Entering(s))
             l == Count(q[x], Leaving(s))
             m == Count(r[x], Entering(s))
             n == Count(r[x], Leaving(s))
  <2>1. /\ a \in Nat /\ b \in Nat /\ c \in Nat /\ d \in Nat
        /\ k \in Nat /\ l \in Nat /\ m \in Nat /\ n \in Nat
        /\ c - m = a - k /\ d - n = b - l
    BY <1>1 DEF DifferAt
  <2>2. /\ Net(q, s) = a - b /\ Net(r, s) = c - d
        /\ NetOf(q[x], s) = k - l /\ NetOf(r[x], s) = m - n
    BY DEF Net, NetOf
  <2> HIDE DEF a, b, c, d, k, l, m, n
  <2> QED BY <2>1, <2>2
<1>4. /\ BumpNet(q, s) \in Int /\ BumpNet(r, s) \in Int
      /\ BumpOf(q[x], s) \in Int /\ BumpOf(r[x], s) \in Int
      /\ BumpNet(r, s) - BumpOf(r[x], s) = BumpNet(q, s) - BumpOf(q[x], s)
  <2> DEFINE a == Tally(q, Adding(s))
             b == Tally(q, Taking(s))
             c == Tally(r, Adding(s))
             d == Tally(r, Taking(s))
             k == Count(q[x], Adding(s))
             l == Count(q[x], Taking(s))
             m == Count(r[x], Adding(s))
             n == Count(r[x], Taking(s))
  <2>1. /\ a \in Nat /\ b \in Nat /\ c \in Nat /\ d \in Nat
        /\ k \in Nat /\ l \in Nat /\ m \in Nat /\ n \in Nat
        /\ c - m = a - k /\ d - n = b - l
    BY <1>2 DEF DifferAt
  <2>2. /\ BumpNet(q, s) = a - b /\ BumpNet(r, s) = c - d
        /\ BumpOf(q[x], s) = k - l /\ BumpOf(r[x], s) = m - n
    BY DEF BumpNet, BumpOf
  <2> HIDE DEF a, b, c, d, k, l, m, n
  <2> QED BY <2>1, <2>2
<1> QED BY <1>3, <1>4 DEF NetDiffersAt, BumpNetDiffersAt

LEMMA NetType ==
    ASSUME NEW X, IsFiniteSet(X), NEW S, NEW q \in [X -> Seq(S)], NEW s
    PROVE  Net(q, s) \in Int /\ BumpNet(q, s) \in Int
<1>1. ASSUME NEW wanted PROVE Tally(q, wanted) \in Nat
  BY PlacesFinite
<1> QED BY <1>1 DEF Net, BumpNet

LEMMA NetNone ==
    ASSUME NEW X, NEW q \in [X -> {<<>>}], NEW s PROVE Net(q, s) = 0 /\ BumpNet(q, s) = 0
<1>1. ASSUME NEW wanted PROVE Tally(q, wanted) = 0
  BY TallyNone
<1> QED BY <1>1 DEF Net, BumpNet

\* The bumps of an event add up to what the event says.
LEMMA BumpsAdd ==
    ASSUME NEW e \in Event, NEW s \in Statuses
    PROVE  /\ Bumps(e) \in Seq(Bump)
           /\ BumpOf(Bumps(e), s) = Unit(e, Entering(s)) - Unit(e, Leaving(s))
<1> DEFINE bump(status, delta) == [status |-> status, delta |-> delta, next |-> "get_or_create"]
<1>1. ASSUME NEW status \in Statuses, NEW delta \in {-1, 1}
      PROVE  /\ bump(status, delta) \in Bump
             /\ bump(status, delta) \in Adding(s) <=> status = s /\ delta = 1
             /\ bump(status, delta) \in Taking(s) <=> status = s /\ delta = -1
  BY DEF Bump, Adding, Taking
<1>2. /\ e \in Entering(s) <=> Entered(e, s)
      /\ e \in Leaving(s) <=> Left(e, s)
  BY DEF Entering, Leaving
<1>3. CASE e \in CreatedEvents
  <2> DEFINE b == bump("draft", 1)
  <2>1. Bumps(e) = <<b>> /\ e.kind = "TaskCreated"
    BY <1>3 DEF Bumps, CreatedEvents
  <2>2. b \in Bump /\ (b \in Adding(s) <=> s = "draft") /\ b \notin Taking(s)
    BY <1>1 DEF Statuses
  <2> HIDE DEF b
  <2>3. BumpOf(<<b>>, s) = Unit(b, Adding(s)) - Unit(b, Taking(s))
    BY CountOne DEF BumpOf
  <2> QED BY <1>2, <2>1, <2>2, <2>3 DEF Unit, Entered, Left
<1>4. CASE e \in StatusEvents
  <2> DEFINE b == bump(e.from, -1)
             c == bump(e.to, 1)
  <2>1. Bumps(e) = <<b, c>> /\ e.kind = "TaskStatusChanged"
    BY <1>4 DEF Bumps, StatusEvents
  <2>2. /\ b \in Bump /\ b \notin Adding(s) /\ (b \in Taking(s) <=> e.from = s)
        /\ c \in Bump /\ c \notin Taking(s) /\ (c \in Adding(s) <=> e.to = s)
    <3>1. e.from \in Statuses /\ e.to \in Statuses
      BY <1>4 DEF StatusEvents
    <3>2. b \in Bump /\ b.status = e.from /\ b.delta = -1
      BY <3>1 DEF Bump
    <3>3. c \in Bump /\ c.status = e.to /\ c.delta = 1
      BY <3>1 DEF Bump
    <3> HIDE DEF b, c
    <3> QED BY <3>2, <3>3 DEF Adding, Taking
  <2> HIDE DEF b, c
  <2>3. BumpOf(<<b, c>>, s) = Unit(b, Adding(s)) + Unit(c, Adding(s))
                              - (Unit(b, Taking(s)) + Unit(c, Taking(s)))
    <3>1. Count(<<b, c>>, Adding(s)) = Unit(b, Adding(s)) + Unit(c, Adding(s))
      BY CountTwo
    <3>2. Count(<<b, c>>, Taking(s)) = Unit(b, Taking(s)) + Unit(c, Taking(s))
      BY CountTwo
    <3> DEFINE k == Count(<<b, c>>, Adding(s))
               l == Count(<<b, c>>, Taking(s))
               ba == Unit(b, Adding(s))
               bt == Unit(b, Taking(s))
               ca == Unit(c, Adding(s))
               ct == Unit(c, Taking(s))
    <3>3. ba \in Nat /\ bt \in Nat /\ ca \in Nat /\ ct \in Nat
      BY DEF Unit
    <3>4. k = ba + ca /\ l = bt + ct /\ BumpOf(<<b, c>>, s) = k - l
      BY <3>1, <3>2 DEF BumpOf
    <3> HIDE DEF k, l, ba, bt, ca, ct
    <3>5. BumpOf(<<b, c>>, s) = ba + ca - (bt + ct)
      BY <3>3, <3>4
    <3> QED BY <3>5 DEF ba, bt, ca, ct
  <2>4. <<b, c>> \in Seq(Bump)
    BY <2>2
  <2> QED BY <1>2, <2>1, <2>2, <2>3, <2>4 DEF Unit, Entered, Left
<1>5. CASE e \in DeletedEvents
  <2> DEFINE b == bump(e.status, -1)
  <2>1. Bumps(e) = <<b>> /\ e.kind = "TaskDeleted"
    BY <1>5 DEF Bumps, DeletedEvents
  <2>2. b \in Bump /\ b \notin Adding(s) /\ (b \in Taking(s) <=> e.status = s)
    <3>1. e.status \in Statuses
      BY <1>5 DEF DeletedEvents
    <3>2. b \in Bump /\ b.status = e.status /\ b.delta = -1
      BY <3>1 DEF Bump
    <3> HIDE DEF b
    <3> QED BY <3>2 DEF Adding, Taking
  <2> HIDE DEF b
  <2>3. BumpOf(<<b>>, s) = Unit(b, Adding(s)) - Unit(b, Taking(s))
    BY CountOne DEF BumpOf
  <2> QED BY <1>2, <2>1, <2>2, <2>3 DEF Unit, Entered, Left
<1>6. CASE e \in EditedEvents \cup PriorityEvents \cup MarkerEvents
  <2>1. Bumps(e) = <<>> /\ e.kind \notin {"TaskCreated", "TaskStatusChanged", "TaskDeleted"}
    BY <1>6 DEF Bumps, EditedEvents, PriorityEvents, MarkerEvents
  <2>2. BumpOf(<<>>, s) = 0
    BY CountEmpty DEF BumpOf
  <2>3. <<>> \in Seq(Bump)
    OBVIOUS
  <2> QED BY <1>2, <2>1, <2>2, <2>3 DEF Unit, Entered, Left
<1> QED BY <1>3, <1>4, <1>5, <1>6 DEF Event, ChangeEvents

\* The first bump goes on to its second statement: it is still the same bump.
Marked(seq) == [seq EXCEPT ![1].next = "update"]

LEMMA MarkedIsSame ==
    ASSUME NEW seq \in Seq(Bump), seq # <<>>, NEW s
    PROVE  /\ Marked(seq) \in Seq(Bump) /\ Len(Marked(seq)) = Len(seq)
           /\ Marked(seq)[1] = [seq[1] EXCEPT !.next = "update"]
           /\ \A n \in 2 .. Len(seq) : Marked(seq)[n] = seq[n]
           /\ BumpOf(Marked(seq), s) = BumpOf(seq, s)
<1> DEFINE first == [seq[1] EXCEPT !.next = "update"]
<1>1. Len(seq) \in Nat /\ Len(seq) # 0
  BY LenProperties, EmptySeq
<1>2. seq[1] \in Bump
  BY <1>1, ElementOfSeq
<1>3. first \in Bump /\ first.status = seq[1].status /\ first.delta = seq[1].delta
  BY <1>2 DEF Bump
<1>4. Marked(seq) = [seq EXCEPT ![1] = first]
  BY DEF Marked
<1> HIDE DEF first
<1>5. Marked(seq) \in Seq(Bump) /\ Len(Marked(seq)) = Len(seq)
      /\ \A n \in 1 .. Len(seq) : Marked(seq)[n] = IF n = 1 THEN first ELSE seq[n]
  BY <1>1, <1>3, <1>4, ExceptSeq
<1>6. \A n \in 1 .. Len(seq) : seq[n] \in Bump
  BY ElementOfSeq
<1>7. Spots(Marked(seq), Adding(s)) = Spots(seq, Adding(s))
      /\ Spots(Marked(seq), Taking(s)) = Spots(seq, Taking(s))
  BY <1>3, <1>5, <1>6 DEF Spots, Adding, Taking
<1> QED BY <1>1, <1>5, <1>7 DEF BumpOf, Count, first
-----------------------------------------------------------------------------
(* The projector only watches the service *)

LEMMA ProjectionStep == ASSUME IInv, [ProjectionNext]_allVars PROVE [Next]_vars
<1>1. ASSUME NEW t \in Threads, RunService(t) PROVE Next
  BY <1>1 DEF RunService, Next, Finish
<1>2. ASSUME NEW t \in Threads, Deliver(t) PROVE Next
  BY <1>2 DEF Deliver, Next, Finish
<1>3. ASSUME CrashProjecting PROVE [Next]_vars
  <2>1. CASE \E t \in Threads : pc[t] # "idle"
    BY <1>3, <2>1 DEF CrashProjecting, Next, Crash
  <2>2. CASE \A t \in Threads : pc[t] = "idle"
    <3>1. /\ pc \in [Threads -> {"idle", "commit", "publish"}]
          /\ work \in [Threads -> Work \cup {NoWork}]
          /\ \A t \in Threads : pc[t] = "idle" /\ work[t] = NoWork
      BY <2>2 DEF IInv, TypeOK
    <3>2. pc = [t \in Threads |-> "idle"] /\ work = [t \in Threads |-> NoWork]
      BY <3>1
    <3> QED BY <1>3, <3>2 DEF CrashProjecting, vars
  <2> QED BY <2>1, <2>2
<1>4. ASSUME NEW t \in Threads, GetOrCreate(t) \/ Update(t) \/ HandlerFails(t)
      PROVE  UNCHANGED vars
  BY <1>4 DEF GetOrCreate, Update, HandlerFails
<1>5. ASSUME RebuildStatistics PROVE UNCHANGED vars
  BY <1>5 DEF RebuildStatistics
<1>6. ASSUME UNCHANGED allVars PROVE UNCHANGED vars
  BY <1>6 DEF allVars
<1> QED BY <1>1, <1>2, <1>3, <1>4, <1>5, <1>6 DEF ProjectionNext

\* Whatever the projector does, and whatever becomes of it, the write side behaves as
\* it would without: all that is proved of TaskService holds of the two together.
THEOREM ProjectorOnlyWatches == ProjectionSpec => Spec
<1>1. ProjectionInit => Init
  BY DEF ProjectionInit
<1>2. IInv /\ [ProjectionNext]_allVars => [Next]_vars
  BY ProjectionStep
<1>3. IInv /\ [ProjectionNext]_allVars => IInv'
  BY <1>2, NextKeepsIInv
<1>4. ProjectionSpec => []IInv
  BY <1>1, <1>3, InitIInv, PTL DEF ProjectionSpec
<1> QED BY <1>1, <1>2, <1>4, PTL DEF ProjectionSpec, Spec

-----------------------------------------------------------------------------
(* Types *)

LEMMA BumpsType == ASSUME NEW e \in Event PROVE Bumps(e) \in Seq(Bump)
<1>1. "draft" \in Statuses
  BY DEF Statuses
<1> QED BY <1>1, BumpsAdd

LEMMA QueuedType == ASSUME IInv PROVE Queued \in [Threads -> Seq(Event)]
<1>1. ASSUME NEW t \in Threads, pc[t] = "publish" PROVE work[t].events \in Seq(Event)
  <2>1. work[t] \in Work
    BY <1>1 DEF IInv, TypeOK
  <2> QED BY <2>1 DEF Work
<1> QED BY <1>1 DEF Queued

LEMMA NetOfStored ==
    ASSUME IInv, NEW s PROVE Net(stream, s) \in Int
<1>1. stream \in [Ids -> Seq(Event)]
  BY DEF IInv, TypeOK, LedgerTypeOK
<1> QED BY <1>1, CountableAssumption, NetType

LEMMA ReplayedIs == ASSUME NEW s PROVE Replayed(s) = Net(stream, s)
  BY DEF Replayed, Net

\* What a handler still has to do is typed bumps, of which the first is the next.
LEMMA BusyType ==
    ASSUME ProjectionTypeOK, NEW t \in Threads, Busy(t)
    PROVE  /\ bumps[t] \in Seq(Bump) /\ bumps[t] # <<>>
           /\ Head(bumps[t]) \in Bump /\ Head(bumps[t]) = bumps[t][1]
           /\ Tail(bumps[t]) \in Seq(Bump)
           /\ Head(bumps[t]).status \in Statuses
           /\ Head(bumps[t]).delta \in Int
<1>1. bumps[t] \in Seq(Bump) /\ bumps[t] # <<>>
  BY DEF ProjectionTypeOK, Busy
<1>2. Head(bumps[t]) \in Bump /\ Tail(bumps[t]) \in Seq(Bump)
  BY <1>1, HeadTailProperties
<1>3. Head(bumps[t]) = bumps[t][1]
  BY <1>1
<1>4. \A bump \in Bump : bump.status \in Statuses /\ bump.delta \in Int
  BY DEF Bump
<1> QED BY <1>1, <1>2, <1>3, <1>4

\* What the bus hands over first.
LEMMA FirstEvent ==
    ASSUME IInv, NEW t \in Threads, pc[t] = "publish"
    PROVE  /\ work[t].events \in Seq(Event) /\ work[t].events # <<>>
           /\ Head(work[t].events) \in Event /\ Tail(work[t].events) \in Seq(Event)
<1>1. work[t] \in Work /\ work[t].events # <<>>
  BY DEF IInv, TypeOK, PublishingSomething
<1>2. work[t].events \in Seq(Event)
  BY <1>1 DEF Work
<1> QED BY <1>1, <1>2, HeadTailProperties

LEMMA StepKeepsProjectionType ==
    ASSUME IInv, ProjectionTypeOK, [ProjectionNext]_allVars
    PROVE  ProjectionTypeOK'
<1>1. ASSUME UNCHANGED projection PROVE ProjectionTypeOK'
  BY <1>1 DEF projection, ProjectionTypeOK
<1>2. ASSUME NEW t \in Threads, Deliver(t) PROVE ProjectionTypeOK'
  <2>1. bumps' = [bumps EXCEPT ![t] = Bumps(Head(work[t].events))] /\ UNCHANGED <<stats, lost>>
        /\ pc[t] = "publish"
    BY <1>2 DEF Deliver, Publish
  <2>2. Bumps(Head(work[t].events)) \in Seq(Bump)
    BY <2>1, FirstEvent, BumpsType
  <2> QED BY <2>1, <2>2 DEF ProjectionTypeOK
<1>3. ASSUME NEW t \in Threads, GetOrCreate(t) PROVE ProjectionTypeOK'
  <2>1. Busy(t) /\ UNCHANGED lost
        /\ stats' = [stats EXCEPT ![Head(bumps[t]).status] = IF @ = NoRow THEN 0 ELSE @]
        /\ bumps' = [bumps EXCEPT ![t] = Marked(bumps[t])]
    BY <1>3 DEF GetOrCreate, Marked
  <2>2. Marked(bumps[t]) \in Seq(Bump)
    BY <2>1, BusyType, MarkedIsSame
  <2>3. stats' \in [Statuses -> Int \cup {NoRow}]
    BY <2>1, BusyType DEF ProjectionTypeOK
  <2>4. bumps' \in [Threads -> Seq(Bump)]
    BY <2>1, <2>2 DEF ProjectionTypeOK
  <2> QED BY <2>1, <2>3, <2>4 DEF ProjectionTypeOK
<1>4. ASSUME NEW t \in Threads, Update(t) PROVE ProjectionTypeOK'
  <2>1. Busy(t) /\ UNCHANGED lost
        /\ stats' = [stats EXCEPT ![Head(bumps[t]).status] =
                         IF @ = NoRow THEN NoRow ELSE @ + Head(bumps[t]).delta]
        /\ bumps' = [bumps EXCEPT ![t] = Tail(bumps[t])]
    BY <1>4 DEF Update
  <2>2. Tail(bumps[t]) \in Seq(Bump) /\ Head(bumps[t]).delta \in Int
        /\ Head(bumps[t]).status \in Statuses
    BY <2>1, BusyType
  <2>3. stats' \in [Statuses -> Int \cup {NoRow}]
    BY <2>1, <2>2 DEF ProjectionTypeOK
  <2> QED BY <2>1, <2>2, <2>3 DEF ProjectionTypeOK
<1>5. ASSUME NEW t \in Threads, HandlerFails(t) PROVE ProjectionTypeOK'
  BY <1>5 DEF HandlerFails, ProjectionTypeOK
<1>6. ASSUME CrashProjecting PROVE ProjectionTypeOK'
  BY <1>6 DEF CrashProjecting, ProjectionTypeOK
<1>7. ASSUME RebuildStatistics PROVE ProjectionTypeOK'
  <2>1. \A s \in Statuses : Replayed(s) \in Int
    BY NetOfStored, ReplayedIs
  <2> QED BY <1>7, <2>1 DEF RebuildStatistics, ProjectionTypeOK
<1> QED BY <1>1, <1>2, <1>3, <1>4, <1>5, <1>6, <1>7 DEF ProjectionNext, RunService, allVars

-----------------------------------------------------------------------------
(* Counted once *)

\* The row that the second statement of a bump updates is there.
RowThere ==
    \A t \in Threads : \A n \in 1 .. Len(bumps[t]) :
        bumps[t][n].next = "update" => stats[bumps[t][n].status] # NoRow

CountIn(st, s) == IF st[s] = NoRow THEN 0 ELSE st[s]

\* The counts st, with the events q and the bumps b in flight, are those of the streams.
Balanced(st, q, b, streams) ==
    \A s \in Statuses : CountIn(st, s) + (Net(q, s) + BumpNet(b, s)) = Net(streams, s)

Balance == ~ lost => Balanced(stats, Queued, bumps, stream)

LEMMA CountType ==
    ASSUME NEW st \in [Statuses -> Int \cup {NoRow}], NEW s \in Statuses
    PROVE  CountIn(st, s) \in Int
BY DEF CountIn

LEMMA BalanceCounts ==
    ASSUME IInv, ProjectionTypeOK, Balance PROVE CountedOnce
<1> SUFFICES ASSUME ~ lost, NEW s \in Statuses PROVE Counted(s) + Due(s) = Replayed(s)
  BY DEF CountedOnce
<1> DEFINE a == Tally(Queued, Entering(s))
           b == Tally(Queued, Leaving(s))
           c == Tally(bumps, Adding(s))
           d == Tally(bumps, Taking(s))
           k == CountIn(stats, s)
<1>1. Queued \in [Threads -> Seq(Event)] /\ bumps \in [Threads -> Seq(Bump)]
      /\ stats \in [Statuses -> Int \cup {NoRow}]
  BY QueuedType DEF ProjectionTypeOK
<1>2. a \in Nat /\ b \in Nat
  BY <1>1, CountableAssumption, PlacesFinite
<1>3. c \in Nat /\ d \in Nat
  BY <1>1, CountableAssumption, PlacesFinite
<1>4. k \in Int
  BY <1>1, CountType
<1>5. Net(Queued, s) = a - b /\ BumpNet(bumps, s) = c - d /\ Due(s) = a - b + c - d
  BY DEF Net, BumpNet, Due
<1>6. k + (Net(Queued, s) + BumpNet(bumps, s)) = Net(stream, s)
  BY DEF Balance, Balanced
<1>7. Counted(s) = k /\ Replayed(s) = Net(stream, s)
  BY DEF Counted, CountIn, Replayed, Net
<1> HIDE DEF a, b, c, d, k
<1> QED BY <1>2, <1>3, <1>4, <1>5, <1>6, <1>7

\* When nothing is in flight, nothing is due.
LEMMA RestDue ==
    ASSUME NEW s, ~ InFlight, ProjectionTypeOK
    PROVE  Net(Queued, s) = 0 /\ BumpNet(bumps, s) = 0
<1>1. \A t \in Threads : pc[t] # "publish" /\ bumps[t] = <<>>
  BY DEF InFlight, Busy
<1>2. Queued \in [Threads -> {<<>>}]
  BY <1>1 DEF Queued
<1>3. bumps \in [Threads -> {<<>>}]
  BY <1>1 DEF ProjectionTypeOK
<1> QED BY <1>2, <1>3, NetNone

\* The streams, the queue and the bumps change at one place each.
LEMMA StreamGrows ==
    ASSUME IInv, NEW id \in Ids, NEW events \in Seq(Event), NEW streams,
           streams = [stream EXCEPT ![id] = @ \o events], NEW s
    PROVE  /\ Net(streams, s) = Net(stream, s) + NetOf(events, s)
           /\ Net(stream, s) \in Int /\ NetOf(events, s) \in Int
<1> DEFINE more == stream[id] \o events
<1>1. stream \in [Ids -> Seq(Event)] /\ stream[id] \in Seq(Event)
  BY DEF IInv, TypeOK, LedgerTypeOK
<1>2. more \in Seq(Event)
  BY <1>1, ConcatProperties
<1>3. /\ Count(more, Entering(s)) = Count(stream[id], Entering(s)) + Count(events, Entering(s))
      /\ Count(more, Leaving(s)) = Count(stream[id], Leaving(s)) + Count(events, Leaving(s))
  BY <1>1, CountConcat
<1>4. /\ Count(stream[id], Entering(s)) \in Nat /\ Count(stream[id], Leaving(s)) \in Nat
      /\ Count(events, Entering(s)) \in Nat /\ Count(events, Leaving(s)) \in Nat
  BY <1>1, SpotsFinite
<1>5. NetOf(more, s) = NetOf(stream[id], s) + NetOf(events, s)
      /\ NetOf(stream[id], s) \in Int /\ NetOf(events, s) \in Int
  <2> DEFINE k == Count(stream[id], Entering(s))
             l == Count(stream[id], Leaving(s))
             m == Count(events, Entering(s))
             n == Count(events, Leaving(s))
  <2>1. NetOf(more, s) = (k + m) - (l + n) /\ NetOf(stream[id], s) = k - l
        /\ NetOf(events, s) = m - n
    BY <1>3 DEF NetOf
  <2>2. k \in Nat /\ l \in Nat /\ m \in Nat /\ n \in Nat
    BY <1>4
  <2> HIDE DEF k, l, m, n
  <2> QED BY <2>1, <2>2
<1> HIDE DEF more
<1>6. streams \in [Ids -> Seq(Event)] /\ streams[id] = more /\ SameBut(Ids, stream, streams, id)
  BY <1>1, <1>2 DEF SameBut, more
<1>7. NetDiffersAt(stream, streams, id, s)
  BY <1>1, <1>6, CountableAssumption, NetChange
<1> DEFINE k == Net(stream, s)
           l == Net(streams, s)
           m == NetOf(stream[id], s)
           n == NetOf(events, s)
           o == NetOf(more, s)
<1>8. k \in Int /\ l \in Int /\ m \in Int /\ n \in Int /\ o = m + n /\ l - o = k - m
  BY <1>5, <1>6, <1>7 DEF NetDiffersAt
<1> HIDE DEF k, l, m, n, o
<1>9. l = k + n
  BY <1>8
<1> QED BY <1>8, <1>9 DEF k, l, n

LEMMA QueueChanges ==
    ASSUME IInv, NEW t \in Threads, NEW events \in Seq(Event), NEW queue,
           queue = [Queued EXCEPT ![t] = events], NEW s
    PROVE  /\ Net(queue, s) = Net(Queued, s) - NetOf(Queued[t], s) + NetOf(events, s)
           /\ Net(Queued, s) \in Int /\ NetOf(Queued[t], s) \in Int /\ NetOf(events, s) \in Int
<1>1. Queued \in [Threads -> Seq(Event)]
  BY QueuedType
<1>2. queue \in [Threads -> Seq(Event)] /\ queue[t] = events
      /\ SameBut(Threads, Queued, queue, t)
  BY <1>1 DEF SameBut
<1>3. NetDiffersAt(Queued, queue, t, s)
  BY <1>1, <1>2, CountableAssumption, NetChange
<1> QED BY <1>2, <1>3 DEF NetDiffersAt

LEMMA BumpsChange ==
    ASSUME ProjectionTypeOK, NEW t \in Threads, NEW todo \in Seq(Bump), NEW next,
           next = [bumps EXCEPT ![t] = todo], NEW s
    PROVE  /\ BumpNet(next, s) = BumpNet(bumps, s) - BumpOf(bumps[t], s) + BumpOf(todo, s)
           /\ BumpNet(bumps, s) \in Int /\ BumpOf(bumps[t], s) \in Int /\ BumpOf(todo, s) \in Int
<1>1. bumps \in [Threads -> Seq(Bump)]
  BY DEF ProjectionTypeOK
<1>2. next \in [Threads -> Seq(Bump)] /\ next[t] = todo
      /\ SameBut(Threads, bumps, next, t)
  BY <1>1 DEF SameBut
<1>3. BumpNetDiffersAt(bumps, next, t, s)
  BY <1>1, <1>2, CountableAssumption, NetChange
<1> QED BY <1>2, <1>3 DEF BumpNetDiffersAt

-----------------------------------------------------------------------------
(* Every step keeps the balance *)

LEMMA BalanceNext ==
    ASSUME NEW st, NEW q, NEW b, NEW streams,
           st = stats', q = Queued', b = bumps', streams = stream',
           ~ lost' => Balanced(st, q, b, streams)
    PROVE  Balance'
<1>1. ASSUME NEW s
      PROVE  CountIn(stats, s)' = CountIn(st, s)
             /\ Net(Queued, s)' = Net(q, s) /\ Net(stream, s)' = Net(streams, s)
             /\ BumpNet(bumps, s)' = BumpNet(b, s)
  <2>1. ASSUME NEW wanted
        PROVE  /\ Tally(Queued, wanted)' = Tally(q, wanted)
               /\ Tally(stream, wanted)' = Tally(streams, wanted)
               /\ Tally(bumps, wanted)' = Tally(b, wanted)
    BY DEF Tally, Places
  <2> QED BY <2>1 DEF CountIn, Net, BumpNet
<1> QED BY <1>1 DEF Balance, Balanced

LEMMA NothingCounted ==
    ASSUME Balance, Queued' = Queued, UNCHANGED <<stream, stats, bumps>>, ~ lost' => ~ lost
    PROVE  Balance'
<1>1. ~ lost' => Balanced(stats, Queued, bumps, stream)
  BY DEF Balance
<1> QED BY <1>1, BalanceNext

LEMMA NetOfNothing == ASSUME NEW s PROVE NetOf(<<>>, s) = 0 /\ BumpOf(<<>>, s) = 0
  BY CountEmpty DEF NetOf, BumpOf

\* The first of a sequence and the rest.
LEMMA NetOfTail ==
    ASSUME NEW S, NEW seq \in Seq(S), seq # <<>>, NEW s
    PROVE  /\ NetOf(seq, s) = (Unit(Head(seq), Entering(s)) - Unit(Head(seq), Leaving(s)))
                               + NetOf(Tail(seq), s)
           /\ BumpOf(seq, s) = (Unit(Head(seq), Adding(s)) - Unit(Head(seq), Taking(s)))
                                + BumpOf(Tail(seq), s)
<1> DEFINE T(wanted) == Count(Tail(seq), wanted)
           U(wanted) == Unit(Head(seq), wanted)
           C(wanted) == Count(seq, wanted)
           Adds(wanted) == C(wanted) = U(wanted) + T(wanted) /\ T(wanted) \in Nat
                           /\ U(wanted) \in Nat
<1>1. ASSUME NEW wanted PROVE Adds(wanted)
  <2>1. C(wanted) = U(wanted) + T(wanted) /\ T(wanted) \in Nat
    BY CountTail
  <2> QED BY <2>1 DEF Unit
<1>2. /\ NetOf(seq, s) = C(Entering(s)) - C(Leaving(s))
      /\ NetOf(Tail(seq), s) = T(Entering(s)) - T(Leaving(s))
      /\ BumpOf(seq, s) = C(Adding(s)) - C(Taking(s))
      /\ BumpOf(Tail(seq), s) = T(Adding(s)) - T(Taking(s))
  BY DEF NetOf, BumpOf
<1> HIDE DEF T, U, C
<1>3. Adds(Entering(s)) /\ Adds(Leaving(s)) /\ Adds(Adding(s)) /\ Adds(Taking(s))
  BY <1>1
<1>4. C(Entering(s)) - C(Leaving(s))
        = (U(Entering(s)) - U(Leaving(s))) + (T(Entering(s)) - T(Leaving(s)))
  BY <1>3
<1>5. C(Adding(s)) - C(Taking(s))
        = (U(Adding(s)) - U(Taking(s))) + (T(Adding(s)) - T(Taking(s)))
  BY <1>3
<1> QED BY <1>2, <1>4, <1>5 DEF U

LEMMA CommitKeepsBalance ==
    ASSUME EventSourcing, IInv, ProjectionTypeOK, Balance, NEW t \in Threads,
           CommitAdd(t) \/ CommitSave(t) \/ CommitDelete(t), UNCHANGED projection
    PROVE  Balance'
<1> DEFINE w == work[t]
<1>1. pc[t] = "commit" /\ w \in Work /\ Committed(t) /\ AppendEvents(w)
  BY HeldIsMinted DEF CommitAdd, CommitSave, CommitDelete
<1>2. w.id \in Ids /\ w.events \in Seq(Event)
  BY <1>1 DEF Work
<1>3. stream' = [stream EXCEPT ![w.id] = @ \o w.events]
  BY <1>1 DEF AppendEvents
<1>4. pc \in [Threads -> {"idle", "commit", "publish"}]
      /\ work \in [Threads -> Work \cup {NoWork}]
  BY DEF IInv, TypeOK
<1>5. Queued[t] = <<>>
  BY <1>1 DEF Queued
<1>6. Queued' = [Queued EXCEPT ![t] = w.events]
  <2>1. CASE w.events = <<>>
    <3>1. pc' = [pc EXCEPT ![t] = "idle"] /\ work' = [work EXCEPT ![t] = NoWork]
      BY <1>1, <2>1 DEF Committed, Release
    <3> QED BY <1>4, <2>1, <3>1 DEF Queued
  <2>2. CASE w.events # <<>>
    <3>1. pc' = [pc EXCEPT ![t] = "publish"] /\ work' = work
      BY <1>1, <2>2 DEF Committed
    <3> QED BY <1>4, <3>1 DEF Queued
  <2> QED BY <2>1, <2>2
<1>7. PICK q, streams : q = [Queued EXCEPT ![t] = w.events]
                        /\ streams = [stream EXCEPT ![w.id] = @ \o w.events]
  OBVIOUS
<1>8. ASSUME ~ lost' PROVE Balanced(stats, q, bumps, streams)
  <2>1. SUFFICES ASSUME NEW s \in Statuses
                 PROVE  CountIn(stats, s) + (Net(q, s) + BumpNet(bumps, s)) = Net(streams, s)
    BY DEF Balanced
  <2>2. CountIn(stats, s) + (Net(Queued, s) + BumpNet(bumps, s)) = Net(stream, s)
    BY <1>8 DEF projection, Balance, Balanced
  <2>3. CountIn(stats, s) \in Int
    BY CountType DEF ProjectionTypeOK
  <2>4. BumpNet(bumps, s) \in Int
    BY CountableAssumption, NetType DEF ProjectionTypeOK
  <2>5. Net(streams, s) = Net(stream, s) + NetOf(w.events, s)
        /\ Net(stream, s) \in Int /\ NetOf(w.events, s) \in Int
    BY <1>2, <1>7, StreamGrows
  <2>6. Net(q, s) = Net(Queued, s) - 0 + NetOf(w.events, s) /\ Net(Queued, s) \in Int
    BY ZenonT(40), <1>2, <1>5, <1>7, QueueChanges, NetOfNothing
  <2> DEFINE a == CountIn(stats, s)
             b == BumpNet(bumps, s)
             c == Net(Queued, s)
             d == NetOf(w.events, s)
             e == Net(stream, s)
             f == Net(q, s)
             g == Net(streams, s)
  <2>7. /\ a \in Int /\ b \in Int /\ c \in Int /\ d \in Int /\ e \in Int
        /\ a + (c + b) = e /\ g = e + d /\ f = c - 0 + d
    BY <2>2, <2>3, <2>4, <2>5, <2>6
  <2> HIDE DEF a, b, c, d, e, f, g
  <2>8. a + (f + b) = g
    BY <2>7
  <2> QED BY <2>8 DEF a, b, f, g
<1>9. q = Queued' /\ streams = stream' /\ stats = stats' /\ bumps = bumps'
  BY <1>3, <1>6, <1>7 DEF projection
<1> QED BY <1>8, <1>9, BalanceNext

\* A request, a refused save and a rollback store nothing and put nothing in the queue.
LEMMA OthersKeepQueue ==
    ASSUME IInv, NEW t \in Threads, Request(t) \/ SaveFindsNothing(t) \/ RollBack(t)
    PROVE  Queued' = Queued /\ UNCHANGED stream
<1>1. pc \in [Threads -> {"idle", "commit", "publish"}]
      /\ work \in [Threads -> Work \cup {NoWork}]
  BY DEF IInv, TypeOK
<1>2. CASE Request(t)
  <2>1. pc[t] = "idle" /\ UNCHANGED stream
    BY <1>2 DEF Request, CreateTask, EditTask, ReprioritizeTask, TransitionTask, DeleteTask,
                FindNothing, Receive, ledger
  <2>2. \/ UNCHANGED <<pc, work>>
        \/ \E held : pc' = [pc EXCEPT ![t] = "commit"] /\ work' = [work EXCEPT ![t] = held]
    BY <1>2 DEF Request, CreateTask, EditTask, ReprioritizeTask, TransitionTask, DeleteTask,
                FindNothing, Hold
  <2>3. \A u \in Threads : IF pc'[u] = "publish" THEN pc[u] = "publish" /\ work'[u] = work[u]
                                                 ELSE pc[u] # "publish"
    BY <1>1, <2>1, <2>2
  <2> QED BY <2>1, <2>3 DEF Queued
<1>3. CASE SaveFindsNothing(t) \/ RollBack(t)
  <2>1. pc[t] = "commit" /\ UNCHANGED stream
        /\ pc' = [pc EXCEPT ![t] = "idle"] /\ work' = [work EXCEPT ![t] = NoWork]
    BY <1>3 DEF SaveFindsNothing, RollBack, Release, ledger
  <2>2. \A u \in Threads : IF pc'[u] = "publish" THEN pc[u] = "publish" /\ work'[u] = work[u]
                                                 ELSE pc[u] # "publish"
    BY <1>1, <2>1
  <2> QED BY <2>1, <2>2 DEF Queued
<1> QED BY <1>2, <1>3

\* An event leaves the queue and its bumps are begun.
LEMMA DeliverKeepsBalance ==
    ASSUME IInv, ProjectionTypeOK, Balance, NEW t \in Threads, Deliver(t)
    PROVE  Balance'
<1> DEFINE events == work[t].events
           first == Head(events)
           rest == Tail(events)
<1>1. /\ bumps[t] = <<>> /\ pc[t] = "publish" /\ Publish(t)
      /\ bumps' = [bumps EXCEPT ![t] = Bumps(first)]
      /\ UNCHANGED <<stats, lost>>
  BY DEF Deliver, Busy, Publish
<1>2. /\ events \in Seq(Event) /\ events # <<>> /\ first \in Event /\ rest \in Seq(Event)
  BY <1>1, FirstEvent
<1>3. UNCHANGED stream /\ Queued[t] = events
  BY <1>1 DEF Publish, ledger, Queued
<1>4. pc \in [Threads -> {"idle", "commit", "publish"}]
      /\ work \in [Threads -> Work \cup {NoWork}] /\ work[t] \in Work
  BY <1>1 DEF IInv, TypeOK
<1>5. Queued' = [Queued EXCEPT ![t] = rest]
  <2>1. CASE Len(events) = 1
    <3>1. pc' = [pc EXCEPT ![t] = "idle"] /\ work' = [work EXCEPT ![t] = NoWork]
      BY <1>1, <2>1 DEF Publish, Release
    <3>2. Len(rest) = 1 - 1
      BY <1>2, <2>1, HeadTailProperties
    <3>3. rest = <<>>
      <4>1. rest \in Seq(Event) /\ Len(rest) = 0
        BY <1>2, <3>2
      <4> HIDE DEF rest
      <4> QED BY <4>1, EmptySeq
    <3> QED BY <1>4, <3>1, <3>3 DEF Queued
  <2>2. CASE Len(events) # 1
    <3>1. work' = [work EXCEPT ![t].events = rest] /\ UNCHANGED pc
      BY <1>1, <2>2 DEF Publish
    <3>2. work'[t].events = rest /\ \A u \in Threads \ {t} : work'[u] = work[u]
      BY <1>4, <3>1 DEF Work
    <3> HIDE DEF rest
    <3>3. \A u \in Threads : (IF pc'[u] = "publish" THEN work'[u].events ELSE <<>>)
                               = IF u = t THEN rest ELSE Queued[u]
      BY <1>1, <3>1, <3>2 DEF Queued
    <3> QED BY <3>3 DEF Queued
  <2> QED BY <2>1, <2>2
<1>6. PICK q, b : q = [Queued EXCEPT ![t] = rest] /\ b = [bumps EXCEPT ![t] = Bumps(first)]
  OBVIOUS
<1>7. ASSUME ~ lost' PROVE Balanced(stats, q, b, stream)
  <2>1. SUFFICES ASSUME NEW s \in Statuses
                 PROVE  CountIn(stats, s) + (Net(q, s) + BumpNet(b, s)) = Net(stream, s)
    BY DEF Balanced
  <2>2. CountIn(stats, s) + (Net(Queued, s) + BumpNet(bumps, s)) = Net(stream, s)
    BY <1>1, <1>7 DEF Balance, Balanced
  <2>3. CountIn(stats, s) \in Int
    BY CountType DEF ProjectionTypeOK
  <2>4. /\ Net(q, s) = Net(Queued, s) - NetOf(events, s) + NetOf(rest, s)
        /\ Net(Queued, s) \in Int /\ NetOf(events, s) \in Int /\ NetOf(rest, s) \in Int
    <3>1. /\ Net(q, s) = Net(Queued, s) - NetOf(Queued[t], s) + NetOf(rest, s)
          /\ Net(Queued, s) \in Int /\ NetOf(Queued[t], s) \in Int /\ NetOf(rest, s) \in Int
      <4>1. q = [Queued EXCEPT ![t] = rest] /\ rest \in Seq(Event)
        BY <1>2, <1>6
      <4> HIDE DEF rest
      <4> QED BY ZenonT(40), <4>1, QueueChanges
    <3> QED BY <1>3, <3>1
  <2>5. Bumps(first) \in Seq(Bump)
        /\ BumpOf(Bumps(first), s) = Unit(first, Entering(s)) - Unit(first, Leaving(s))
    BY <1>2, BumpsAdd
  <2>6. BumpNet(b, s) = BumpNet(bumps, s) - 0 + BumpOf(Bumps(first), s)
        /\ BumpNet(bumps, s) \in Int
    BY <1>1, <1>6, <2>5, BumpsChange, NetOfNothing
  <2>7. NetOf(events, s) = (Unit(first, Entering(s)) - Unit(first, Leaving(s))) + NetOf(rest, s)
    BY <1>2, NetOfTail
  <2>8. Unit(first, Entering(s)) \in Nat /\ Unit(first, Leaving(s)) \in Nat
    BY DEF Unit
  <2> DEFINE k == CountIn(stats, s)
             l == Net(Queued, s)
             m == BumpNet(bumps, s)
             n == NetOf(events, s)
             o == NetOf(rest, s)
             u == Unit(first, Entering(s))
             v == Unit(first, Leaving(s))
             x == Net(q, s)
             y == BumpNet(b, s)
             z == Net(stream, s)
             bb == BumpOf(Bumps(first), s)
  <2>9. /\ k \in Int /\ l \in Int /\ m \in Int /\ n \in Int /\ o \in Int /\ u \in Nat /\ v \in Nat
        /\ k + (l + m) = z /\ x = l - n + o /\ y = m - 0 + bb /\ bb = u - v /\ n = (u - v) + o
    BY <2>2, <2>3, <2>4, <2>5, <2>6, <2>7, <2>8
  <2> HIDE DEF k, l, m, n, o, u, v, x, y, z, bb
  <2>10. k + (x + y) = z
    BY <2>9
  <2> QED BY <2>10 DEF k, x, y, z
<1>8. q = Queued' /\ b = bumps' /\ stats = stats' /\ stream = stream'
  BY <1>1, <1>3, <1>5, <1>6
<1> QED BY <1>7, <1>8, BalanceNext

\* A row that is created counts zero, as the missing row did.
LEMMA GetOrCreateKeepsBalance ==
    ASSUME IInv, ProjectionTypeOK, Balance, NEW t \in Threads, GetOrCreate(t)
    PROVE  Balance'
<1> DEFINE head == Head(bumps[t])
<1>1. /\ Busy(t) /\ UNCHANGED vars /\ UNCHANGED lost
      /\ stats' = [stats EXCEPT ![head.status] = IF @ = NoRow THEN 0 ELSE @]
      /\ bumps' = [bumps EXCEPT ![t] = Marked(bumps[t])]
  BY DEF GetOrCreate, Marked
<1>2. bumps[t] \in Seq(Bump) /\ bumps[t] # <<>> /\ head.status \in Statuses
  BY <1>1, BusyType
<1>3. Marked(bumps[t]) \in Seq(Bump)
  BY <1>2, MarkedIsSame
<1>4. stats \in [Statuses -> Int \cup {NoRow}]
  BY DEF ProjectionTypeOK
<1>5. PICK st, b : /\ st = [stats EXCEPT ![head.status] = IF @ = NoRow THEN 0 ELSE @]
                   /\ b = [bumps EXCEPT ![t] = Marked(bumps[t])]
  OBVIOUS
<1>6. ASSUME ~ lost' PROVE Balanced(st, Queued, b, stream)
  <2>1. SUFFICES ASSUME NEW s \in Statuses
                 PROVE  CountIn(st, s) + (Net(Queued, s) + BumpNet(b, s)) = Net(stream, s)
    BY DEF Balanced
  <2>2. CountIn(stats, s) + (Net(Queued, s) + BumpNet(bumps, s)) = Net(stream, s)
    BY <1>1, <1>6 DEF Balance, Balanced
  <2>3. CountIn(st, s) = CountIn(stats, s)
    BY <1>2, <1>4, <1>5, NoRowAssumption DEF CountIn
  <2>4. BumpNet(b, s) = BumpNet(bumps, s) - BumpOf(bumps[t], s) + BumpOf(Marked(bumps[t]), s)
        /\ BumpNet(bumps, s) \in Int /\ BumpOf(bumps[t], s) \in Int
    <3> DEFINE todo == Marked(bumps[t])
    <3>1. b = [bumps EXCEPT ![t] = todo] /\ todo \in Seq(Bump)
      BY <1>3, <1>5
    <3> HIDE DEF head, todo
    <3>2. /\ BumpNet(b, s) = BumpNet(bumps, s) - BumpOf(bumps[t], s) + BumpOf(todo, s)
          /\ BumpNet(bumps, s) \in Int /\ BumpOf(bumps[t], s) \in Int
      BY ZenonT(40), <3>1, BumpsChange
    <3> QED BY <3>2 DEF todo
  <2>5. BumpOf(Marked(bumps[t]), s) = BumpOf(bumps[t], s)
    BY <1>2, MarkedIsSame
  <2>6. BumpNet(b, s) = BumpNet(bumps, s)
    BY <2>4, <2>5
  <2> QED BY <2>2, <2>3, <2>6
<1>7. Queued' = Queued /\ stream' = stream
  BY <1>1 DEF vars, ledger, Queued
<1> QED BY <1>1, <1>5, <1>6, <1>7, BalanceNext

\* What the second statement adds to the row is what the bump had still to add.
LEMMA UpdateKeepsBalance ==
    ASSUME IInv, ProjectionTypeOK, RowThere, Balance, NEW t \in Threads, Update(t)
    PROVE  Balance'
<1> DEFINE head == Head(bumps[t])
           rest == Tail(bumps[t])
<1>1. /\ Busy(t) /\ UNCHANGED vars /\ UNCHANGED lost /\ head.next = "update"
      /\ stats' = [stats EXCEPT ![head.status] = IF @ = NoRow THEN NoRow ELSE @ + head.delta]
      /\ bumps' = [bumps EXCEPT ![t] = rest]
  BY DEF Update
<1>2. /\ bumps[t] \in Seq(Bump) /\ bumps[t] # <<>> /\ rest \in Seq(Bump)
      /\ head \in Bump /\ head = bumps[t][1]
  BY <1>1, BusyType
<1>3. head.status \in Statuses /\ head.delta \in {-1, 1}
  BY <1>2 DEF Bump
<1>4. stats \in [Statuses -> Int \cup {NoRow}] /\ stats[head.status] # NoRow
  <2>1. 1 \in 1 .. Len(bumps[t])
    BY <1>2, LenProperties, EmptySeq
  <2> QED BY <1>1, <1>2, <2>1 DEF RowThere, ProjectionTypeOK
<1>5. PICK st, b : /\ st = [stats EXCEPT ![head.status] = stats[head.status] + head.delta]
                   /\ b = [bumps EXCEPT ![t] = rest]
  OBVIOUS
<1>6. ASSUME ~ lost' PROVE Balanced(st, Queued, b, stream)
  <2>1. SUFFICES ASSUME NEW s \in Statuses
                 PROVE  CountIn(st, s) + (Net(Queued, s) + BumpNet(b, s)) = Net(stream, s)
    BY DEF Balanced
  <2>2. CountIn(stats, s) + (Net(Queued, s) + BumpNet(bumps, s)) = Net(stream, s)
    BY <1>1, <1>6 DEF Balance, Balanced
  <2>3. CountIn(st, s) = CountIn(stats, s) + (Unit(head, Adding(s)) - Unit(head, Taking(s)))
    <3>1. /\ head \in Adding(s) <=> head.status = s /\ head.delta = 1
          /\ head \in Taking(s) <=> head.status = s /\ head.delta = -1
      BY <1>2 DEF Adding, Taking
    <3> HIDE DEF head
    <3>2. CASE head.status = s
      <4>1. st[s] = stats[s] + head.delta /\ stats[s] \in Int /\ stats[s] # NoRow
        BY <1>3, <1>4, <1>5, <3>2
      <4>2. st[s] \in Int
        BY <1>3, <4>1
      <4>3. CountIn(st, s) = stats[s] + head.delta /\ CountIn(stats, s) = stats[s]
        BY <4>1, <4>2, NoRowAssumption DEF CountIn
      <4>4. CASE head.delta = 1
        <5>1. Unit(head, Adding(s)) = 1 /\ Unit(head, Taking(s)) = 0
          BY <3>1, <3>2, <4>4 DEF Unit
        <5> QED BY <4>1, <4>3, <4>4, <5>1
      <4>5. CASE head.delta = -1
        <5>1. Unit(head, Adding(s)) = 0 /\ Unit(head, Taking(s)) = 1
          BY <3>1, <3>2, <4>5 DEF Unit
        <5> QED BY <4>1, <4>3, <4>5, <5>1
      <4> QED BY <1>3, <4>4, <4>5
    <3>3. CASE head.status # s
      <4>1. CountIn(st, s) = CountIn(stats, s) /\ CountIn(stats, s) \in Int
        BY <1>4, <1>5, <3>3, CountType DEF CountIn
      <4>2. Unit(head, Adding(s)) = 0 /\ Unit(head, Taking(s)) = 0
        BY <3>1, <3>3 DEF Unit
      <4> QED BY <4>1, <4>2
    <3> QED BY <3>2, <3>3
  <2>4. /\ BumpNet(b, s) = BumpNet(bumps, s) - BumpOf(bumps[t], s) + BumpOf(rest, s)
        /\ BumpNet(bumps, s) \in Int /\ BumpOf(bumps[t], s) \in Int /\ BumpOf(rest, s) \in Int
    <3>1. b = [bumps EXCEPT ![t] = rest] /\ rest \in Seq(Bump)
      BY <1>2, <1>5
    <3> HIDE DEF rest
    <3> QED BY ZenonT(40), <3>1, BumpsChange
  <2>5. BumpOf(bumps[t], s) = (Unit(head, Adding(s)) - Unit(head, Taking(s))) + BumpOf(rest, s)
    BY <1>2, NetOfTail
  <2>6. Unit(head, Adding(s)) \in Nat /\ Unit(head, Taking(s)) \in Nat
    BY DEF Unit
  <2>7. CountIn(stats, s) \in Int /\ Net(Queued, s) \in Int
    BY <1>4, CountType, QueuedType, CountableAssumption, NetType
  <2> DEFINE k == CountIn(stats, s)
             l == Net(Queued, s)
             m == BumpNet(bumps, s)
             n == BumpOf(bumps[t], s)
             o == BumpOf(rest, s)
             u == Unit(head, Adding(s))
             v == Unit(head, Taking(s))
             x == CountIn(st, s)
             y == BumpNet(b, s)
             z == Net(stream, s)
  <2>8. /\ k \in Int /\ l \in Int /\ m \in Int /\ n \in Int /\ o \in Int /\ u \in Nat /\ v \in Nat
        /\ k + (l + m) = z /\ x = k + (u - v) /\ y = m - n + o /\ n = (u - v) + o
    BY <2>2, <2>3, <2>4, <2>5, <2>6, <2>7
  <2> HIDE DEF k, l, m, n, o, u, v, x, y, z
  <2>9. x + (l + y) = z
    BY <2>8
  <2> QED BY <2>9 DEF l, x, y, z
<1>7. Queued' = Queued /\ stream' = stream /\ st = stats' /\ b = bumps'
  BY <1>1, <1>4, <1>5 DEF vars, ledger, Queued
<1> QED BY <1>6, <1>7, BalanceNext

\* The process dies with an event uncounted, or with nothing in flight.
LEMMA CrashKeepsBalance ==
    ASSUME IInv, ProjectionTypeOK, Balance, CrashProjecting
    PROVE  Balance'
<1>1. /\ pc' = [t \in Threads |-> "idle"] /\ bumps' = [t \in Threads |-> <<>>]
      /\ lost' = (lost \/ \E t \in Threads : pc[t] = "publish" \/ Busy(t))
      /\ UNCHANGED <<stream, stats>>
  BY DEF CrashProjecting, ledger
<1>2. CASE InFlight
  BY <1>1, <1>2 DEF InFlight, Balance
<1>3. CASE ~ InFlight
  <2>1. \A t \in Threads : pc[t] # "publish" /\ bumps[t] = <<>>
    BY <1>3 DEF InFlight, Busy
  <2>2. Queued = [t \in Threads |-> <<>>] /\ Queued' = [t \in Threads |-> <<>>]
    BY <1>1, <2>1 DEF Queued
  <2>3. bumps = [t \in Threads |-> <<>>]
    BY <2>1 DEF ProjectionTypeOK
  <2> QED BY <1>1, <2>2, <2>3, NothingCounted
<1> QED BY <1>2, <1>3

\* A rebuild with nothing in flight stores the counts of a replay.
LEMMA RebuildKeepsBalance ==
    ASSUME IInv, ProjectionTypeOK, RebuildStatistics, ~ InFlight
    PROVE  Balance'
<1>1. /\ stats' = [s \in Statuses |->
                      IF Places(stream, Entering(s) \cup Leaving(s)) # {}
                      THEN Replayed(s) ELSE NoRow]
      /\ UNCHANGED <<stream, bumps>> /\ UNCHANGED <<pc, work>>
  BY DEF RebuildStatistics, vars, ledger
<1>2. PICK st : st = [s \in Statuses |->
                        IF Places(stream, Entering(s) \cup Leaving(s)) # {}
                        THEN Replayed(s) ELSE NoRow]
  OBVIOUS
<1>3. Balanced(st, Queued, bumps, stream)
  <2>1. SUFFICES ASSUME NEW s \in Statuses
                 PROVE  CountIn(st, s) + (Net(Queued, s) + BumpNet(bumps, s)) = Net(stream, s)
    BY DEF Balanced
  <2>2. Net(Queued, s) = 0 /\ BumpNet(bumps, s) = 0
    BY RestDue
  <2>3. Replayed(s) = Net(stream, s) /\ Net(stream, s) \in Int
    BY ReplayedIs, NetOfStored
  <2>4. CountIn(st, s) = Net(stream, s)
    <3>1. CASE Places(stream, Entering(s) \cup Leaving(s)) # {}
      BY <1>2, <2>3, <3>1, NoRowAssumption DEF CountIn
    <3>2. CASE Places(stream, Entering(s) \cup Leaving(s)) = {}
      <4>1. Places(stream, Entering(s)) = {} /\ Places(stream, Leaving(s)) = {}
        BY <3>2 DEF Places
      <4>2. Net(stream, s) = 0
        BY <4>1, FS_EmptySet DEF Net, Tally
      <4> QED BY <1>2, <3>2, <4>2 DEF CountIn
    <3> QED BY <3>1, <3>2
  <2> QED BY <2>2, <2>3, <2>4
<1>4. Queued' = Queued
  BY <1>1 DEF Queued
<1> QED BY <1>1, <1>2, <1>3, <1>4, BalanceNext

LEMMA StepKeepsBalance ==
    ASSUME EventSourcing, ~ RebuildAnytime, IInv, ProjectionTypeOK, RowThere, Balance,
           [ProjectionNext]_allVars
    PROVE  Balance'
<1>1. ASSUME NEW t \in Threads, RunService(t) PROVE Balance'
  <2>1. UNCHANGED projection
    BY <1>1 DEF RunService
  <2>2. CASE CommitAdd(t) \/ CommitSave(t) \/ CommitDelete(t)
    BY <2>1, <2>2, CommitKeepsBalance
  <2>3. CASE Request(t) \/ SaveFindsNothing(t) \/ RollBack(t)
    <3>1. UNCHANGED <<stats, bumps, lost>>
      BY <2>1 DEF projection
    <3> QED BY <2>3, <3>1, OthersKeepQueue, NothingCounted
  <2> QED BY <1>1, <2>2, <2>3 DEF RunService
<1>2. ASSUME NEW t \in Threads, HandlerFails(t) PROVE Balance'
  BY <1>2 DEF HandlerFails, Balance
<1>3. ASSUME RebuildStatistics PROVE Balance'
  BY <1>3, RebuildKeepsBalance DEF RebuildStatistics
<1>4. ASSUME UNCHANGED allVars PROVE Balance'
  <2>1. UNCHANGED <<stream, stats, bumps, lost>> /\ Queued' = Queued
    BY <1>4 DEF allVars, vars, ledger, projection, Queued
  <2> QED BY <2>1, NothingCounted
<1> QED BY <1>1, <1>2, <1>3, <1>4, DeliverKeepsBalance, GetOrCreateKeepsBalance,
           UpdateKeepsBalance, CrashKeepsBalance DEF ProjectionNext

-----------------------------------------------------------------------------
(* The row that is updated is there *)

\* A thread's bumps are replaced by ones whose rows are there, and no row goes.
LEMMA RowsStayThere ==
    ASSUME RowThere, NEW t \in Threads,
           \A u \in Threads \ {t} : bumps'[u] = bumps[u],
           \A s \in Statuses : stats[s] # NoRow => stats'[s] # NoRow,
           \A u \in Threads : \A n \in 1 .. Len(bumps[u]) : bumps[u][n].status \in Statuses,
           \A n \in 1 .. Len(bumps'[t]) :
              bumps'[t][n].next = "update" => stats'[bumps'[t][n].status] # NoRow
    PROVE  RowThere'
<1>1. ASSUME NEW u \in Threads, NEW n \in 1 .. Len(bumps'[u]), bumps'[u][n].next = "update"
      PROVE  stats'[bumps'[u][n].status] # NoRow
  <2>1. CASE u = t
    BY <1>1, <2>1
  <2>2. CASE u # t
    <3>1. bumps'[u] = bumps[u]
      BY <2>2
    <3> QED BY <1>1, <3>1 DEF RowThere
  <2> QED BY <2>1, <2>2
<1> QED BY <1>1 DEF RowThere

LEMMA BumpsAreTyped ==
    ASSUME ProjectionTypeOK, NEW u \in Threads, NEW n \in 1 .. Len(bumps[u])
    PROVE  bumps[u][n] \in Bump /\ bumps[u][n].status \in Statuses
<1>1. bumps[u] \in Seq(Bump)
  BY DEF ProjectionTypeOK
<1>2. bumps[u][n] \in Bump
  BY <1>1, ElementOfSeq
<1> QED BY <1>2 DEF Bump

\* No bump of an event has begun.
LEMMA BumpsBegin ==
    ASSUME NEW e, NEW n \in 1 .. Len(Bumps(e))
    PROVE  Bumps(e)[n].next = "get_or_create"
<1> DEFINE bump(s, d) == [status |-> s, delta |-> d, next |-> "get_or_create"]
<1>1. CASE e.kind = "TaskStatusChanged"
  <2>1. Bumps(e) = <<bump(e.from, -1), bump(e.to, 1)>>
    BY <1>1 DEF Bumps
  <2>2. n = 1 \/ n = 2
    BY <2>1
  <2> QED BY <2>1, <2>2
<1>2. CASE e.kind = "TaskCreated"
  BY <1>2 DEF Bumps
<1>3. CASE e.kind = "TaskDeleted"
  BY <1>3 DEF Bumps
<1>4. CASE e.kind \notin {"TaskCreated", "TaskStatusChanged", "TaskDeleted"}
  BY <1>4 DEF Bumps
<1> QED BY <1>1, <1>2, <1>3, <1>4

LEMMA StepKeepsRowThere ==
    ASSUME ~ RebuildAnytime, IInv, ProjectionTypeOK, RowThere, [ProjectionNext]_allVars
    PROVE  RowThere'
<1>0. /\ stats \in [Statuses -> Int \cup {NoRow}] /\ bumps \in [Threads -> Seq(Bump)]
      /\ \A u \in Threads : \A n \in 1 .. Len(bumps[u]) : bumps[u][n].status \in Statuses
  BY BumpsAreTyped DEF ProjectionTypeOK
<1>1. ASSUME UNCHANGED <<stats, bumps>> PROVE RowThere'
  BY <1>1 DEF RowThere
<1>2. ASSUME NEW t \in Threads, Deliver(t) PROVE RowThere'
  <2> DEFINE todo == Bumps(Head(work[t].events))
  <2>1. bumps' = [bumps EXCEPT ![t] = todo] /\ UNCHANGED stats
    BY <1>2 DEF Deliver
  <2>2. \A n \in 1 .. Len(todo) : todo[n].next = "get_or_create"
    BY BumpsBegin
  <2> HIDE DEF todo
  <2> QED BY <1>0, <2>1, <2>2, RowsStayThere
<1>3. ASSUME NEW t \in Threads, GetOrCreate(t) PROVE RowThere'
  <2> DEFINE seq == bumps[t]
             status == seq[1].status
             todo == Marked(seq)
  <2>1. /\ Busy(t) /\ bumps' = [bumps EXCEPT ![t] = todo]
        /\ stats' = [stats EXCEPT ![Head(seq).status] = IF @ = NoRow THEN 0 ELSE @]
    BY <1>3 DEF GetOrCreate, Marked
  <2>2. seq \in Seq(Bump) /\ seq # <<>> /\ Head(seq) = seq[1] /\ status \in Statuses
    BY <2>1, BusyType
  <2>3. stats' = [stats EXCEPT ![status] = IF @ = NoRow THEN 0 ELSE @]
    BY <2>1, <2>2
  <2>4. stats'[status] # NoRow /\ \A s \in Statuses : stats[s] # NoRow => stats'[s] # NoRow
    BY <1>0, <2>2, <2>3, NoRowAssumption
  <2>5. /\ Len(todo) = Len(seq) /\ todo[1] = [seq[1] EXCEPT !.next = "update"]
        /\ \A n \in 2 .. Len(seq) : todo[n] = seq[n]
    BY <2>2, MarkedIsSame
  <2>6. seq[1] \in Bump /\ Len(seq) \in Nat
    BY <2>1, <2>2, BusyType, LenProperties
  <2>7. todo[1].status = status
    BY <2>5, <2>6 DEF Bump
  <2>8. \A n \in 1 .. Len(seq) : seq[n].next = "update" => stats[seq[n].status] # NoRow
    BY DEF RowThere
  <2> HIDE DEF seq, todo, status
  <2>9. ASSUME NEW n \in 1 .. Len(todo), todo[n].next = "update"
        PROVE  stats'[todo[n].status] # NoRow
    <3>1. CASE n = 1
      BY <2>4, <2>7, <3>1
    <3>2. CASE n # 1
      <4>1. n \in 2 .. Len(seq) /\ n \in 1 .. Len(seq)
        BY <2>5, <2>6, <3>2
      <4>2. todo[n] = seq[n] /\ stats[seq[n].status] # NoRow
        BY <2>5, <2>8, <2>9, <4>1
      <4>3. seq[n].status \in Statuses
        BY <1>0, <4>1 DEF seq
      <4> QED BY <2>4, <4>2, <4>3
    <3> QED BY <3>1, <3>2
  <2>10. bumps'[t] = todo /\ \A u \in Threads \ {t} : bumps'[u] = bumps[u]
    BY <1>0, <2>1
  <2>11. \A n \in 1 .. Len(bumps'[t]) :
            bumps'[t][n].next = "update" => stats'[bumps'[t][n].status] # NoRow
    BY <2>9, <2>10
  <2>12. \A s \in Statuses : stats[s] # NoRow => stats'[s] # NoRow
    BY <2>4
  <2> QED BY <1>0, <2>10, <2>11, <2>12, RowsStayThere
<1>4. ASSUME NEW t \in Threads, Update(t) PROVE RowThere'
  <2> DEFINE seq == bumps[t]
             todo == Tail(seq)
  <2>1. /\ Busy(t) /\ bumps' = [bumps EXCEPT ![t] = todo]
        /\ stats' = [stats EXCEPT ![Head(seq).status] =
                         IF @ = NoRow THEN NoRow ELSE @ + Head(seq).delta]
    BY <1>4 DEF Update
  <2>2. seq \in Seq(Bump) /\ seq # <<>> /\ Head(seq).status \in Statuses
        /\ Head(seq).delta \in Int
    BY <2>1, BusyType
  <2>3. \A s \in Statuses : stats[s] # NoRow => stats'[s] # NoRow
    BY <1>0, <2>1, <2>2, NoRowAssumption
  <2>4. Len(todo) = Len(seq) - 1 /\ Len(seq) \in Nat
        /\ \A i \in 1 .. Len(todo) : todo[i] = seq[i + 1]
    BY <2>2, HeadTailProperties, LenProperties
  <2>5. \A n \in 1 .. Len(seq) : seq[n].next = "update" => stats[seq[n].status] # NoRow
    BY DEF RowThere
  <2>6. \A n \in 1 .. Len(seq) : seq[n].status \in Statuses
    BY <1>0
  <2> HIDE DEF seq, todo
  <2>7. ASSUME NEW n \in 1 .. Len(todo), todo[n].next = "update"
        PROVE  stats'[todo[n].status] # NoRow
    <3>1. n + 1 \in 1 .. Len(seq) /\ todo[n] = seq[n + 1]
      BY <2>4
    <3> QED BY <2>3, <2>5, <2>6, <2>7, <3>1
  <2>8. bumps'[t] = todo /\ \A u \in Threads \ {t} : bumps'[u] = bumps[u]
    BY <1>0, <2>1
  <2>9. \A n \in 1 .. Len(bumps'[t]) :
           bumps'[t][n].next = "update" => stats'[bumps'[t][n].status] # NoRow
    BY <2>7, <2>8
  <2> QED BY <1>0, <2>3, <2>8, <2>9, RowsStayThere
<1>5. ASSUME NEW t \in Threads, HandlerFails(t) PROVE RowThere'
  <2>1. bumps' = [bumps EXCEPT ![t] = <<>>] /\ UNCHANGED stats
    BY <1>5 DEF HandlerFails
  <2> QED BY <1>0, <2>1, RowsStayThere
<1>6. ASSUME \A t \in Threads : bumps'[t] = <<>> PROVE RowThere'
  BY <1>6 DEF RowThere
<1>7. ASSUME CrashProjecting PROVE RowThere'
  BY <1>6, <1>7 DEF CrashProjecting
<1>8. ASSUME RebuildStatistics PROVE RowThere'
  BY <1>6, <1>8 DEF RebuildStatistics, InFlight, Busy
<1> QED BY <1>1, <1>2, <1>3, <1>4, <1>5, <1>7, <1>8
        DEF ProjectionNext, RunService, projection, allVars

-----------------------------------------------------------------------------
(* Theorems *)

LEMMA ProjectionInductive == ProjectionSpec => [](IInv /\ ProjectionTypeOK)
<1>1. ProjectionInit => IInv /\ ProjectionTypeOK
  <2> SUFFICES ASSUME ProjectionInit PROVE IInv /\ ProjectionTypeOK
    OBVIOUS
  <2>1. <<>> \in Seq(Bump)
    OBVIOUS
  <2> QED BY <2>1, InitIInv DEF ProjectionInit, ProjectionTypeOK
<1>2. IInv /\ ProjectionTypeOK /\ [ProjectionNext]_allVars => (IInv /\ ProjectionTypeOK)'
  BY ProjectionStep, NextKeepsIInv, StepKeepsProjectionType
<1> QED BY <1>1, <1>2, PTL DEF ProjectionSpec

\* A count is a number or there is no row for it, whatever comes between the two
\* statements of a bump, and what a handler has still to do are bumps of statuses.
THEOREM ProjectionTypeCorrect == ProjectionSpec => []ProjectionTypeOK
  BY ProjectionInductive, PTL

LEMMA ProjectionBalanced ==
    EventSourcing /\ ~ RebuildAnytime => (ProjectionSpec => [](RowThere /\ Balance))
<1> SUFFICES ASSUME EventSourcing, ~ RebuildAnytime
             PROVE  ProjectionSpec => [](RowThere /\ Balance)
  OBVIOUS
<1>1. ProjectionInit => RowThere /\ Balance
  <2> SUFFICES ASSUME ProjectionInit PROVE RowThere /\ Balance
    OBVIOUS
  <2>1. /\ pc = [t \in Threads |-> "idle"] /\ stream = [id \in Ids |-> <<>>]
        /\ stats = [s \in Statuses |-> NoRow] /\ bumps = [t \in Threads |-> <<>>]
    BY DEF ProjectionInit, Init, LedgerInit
  <2>2. RowThere
    BY <2>1 DEF RowThere
  <2>3. Queued \in [Threads -> {<<>>}] /\ bumps \in [Threads -> {<<>>}]
        /\ stream \in [Ids -> {<<>>}]
    BY <2>1 DEF Queued
  <2>4. ASSUME NEW s \in Statuses
        PROVE  CountIn(stats, s) = 0 /\ Net(Queued, s) = 0 /\ BumpNet(bumps, s) = 0
               /\ Net(stream, s) = 0
    <3>1. CountIn(stats, s) = 0
      BY <2>1 DEF CountIn
    <3>2. Net(Queued, s) = 0
      BY <2>3, NetNone
    <3>3. BumpNet(bumps, s) = 0
      BY <2>3, NetNone
    <3>4. Net(stream, s) = 0
      BY <2>3, NetNone
    <3> QED BY <3>1, <3>2, <3>3, <3>4
  <2> QED BY <2>2, <2>4 DEF Balance, Balanced
<1>2. IInv /\ ProjectionTypeOK /\ RowThere /\ Balance /\ [ProjectionNext]_allVars
        => (RowThere /\ Balance)'
  BY StepKeepsRowThere, StepKeepsBalance
<1> QED BY <1>1, <1>2, ProjectionInductive, PTL DEF ProjectionSpec

\* Every stored event is counted exactly once, whatever the order in which the threads
\* dispatch: the counts, the events not yet handed over and the bumps not yet made add
\* up to what a replay of the whole log would give, as long as nothing was lost.  A
\* rebuild that runs while events are in flight counts them twice (see the violation
\* run), and with event sourcing off there is no log to compare with.
THEOREM EventsAreCountedOnce ==
    EventSourcing /\ ~ RebuildAnytime => (ProjectionSpec => []CountedOnce)
<1> SUFFICES ASSUME EventSourcing, ~ RebuildAnytime PROVE ProjectionSpec => []CountedOnce
  OBVIOUS
<1>1. IInv /\ ProjectionTypeOK /\ Balance => CountedOnce
  BY BalanceCounts
<1>2. ProjectionSpec => [](RowThere /\ Balance)
  BY ProjectionBalanced
<1> QED BY <1>1, <1>2, ProjectionInductive, PTL

\* projections.py: if the projector ever drifts, replay heals it.  At rest, and with
\* nothing lost since the last rebuild, the counts are those of a replay, whatever the
\* number of threads, unless a rebuild ran among events in flight.
THEOREM NoDrift == EventSourcing /\ ~ RebuildAnytime => (ProjectionSpec => []NoDriftAtRest)
<1> SUFFICES ASSUME EventSourcing, ~ RebuildAnytime PROVE ProjectionSpec => []NoDriftAtRest
  OBVIOUS
<1>1. IInv /\ ProjectionTypeOK /\ Balance => NoDriftAtRest
  <2> SUFFICES ASSUME IInv, ProjectionTypeOK, Balance, ~ lost, ~ InFlight, NEW s \in Statuses
               PROVE  Counted(s) = Replayed(s)
    BY DEF NoDriftAtRest
  <2>1. CountIn(stats, s) + (Net(Queued, s) + BumpNet(bumps, s)) = Net(stream, s)
    BY DEF Balance, Balanced
  <2>2. Net(Queued, s) = 0 /\ BumpNet(bumps, s) = 0
    BY RestDue
  <2>3. CountIn(stats, s) \in Int
    BY CountType DEF ProjectionTypeOK
  <2>4. Counted(s) = CountIn(stats, s) /\ Replayed(s) = Net(stream, s)
    BY ReplayedIs DEF Counted, CountIn
  <2> QED BY <2>1, <2>2, <2>3, <2>4
<1>2. ProjectionSpec => [](RowThere /\ Balance)
  BY ProjectionBalanced
<1> QED BY <1>1, <1>2, ProjectionInductive, PTL

-----------------------------------------------------------------------------
(* One request at a time, the replay is the count of the rows *)

\* The rows with a status.
Tabled(rows, s) == {id \in Ids : rows[id] # NoTask /\ rows[id].status = s}

\* Whether a row has the status, as a number.
Has(task, s) == IF task # NoTask /\ task.status = s THEN 1 ELSE 0

\* A replay adds up to the rows.
RowsAddUp(rows, streams) ==
    \A s \in Statuses : Cardinality(Tabled(rows, s)) = Net(streams, s)

LEMMA TabledFinite ==
    ASSUME NEW rows, NEW s
    PROVE  IsFiniteSet(Tabled(rows, s)) /\ Cardinality(Tabled(rows, s)) \in Nat
<1>1. Tabled(rows, s) \in SUBSET Ids
  BY DEF Tabled
<1>2. IsFiniteSet(Tabled(rows, s))
  BY <1>1, CountableAssumption, FS_Subset
<1> QED BY <1>2, FS_CardinalityType

\* The rows with a status differ by the old row and the new one.
TabledMoves(rows, next, old, new, s) ==
    Cardinality(Tabled(next, s)) = Cardinality(Tabled(rows, s)) - Has(old, s) + Has(new, s)

\* One row is replaced.
LEMMA TabledChange ==
    ASSUME NEW rows \in [Ids -> Task \cup {NoTask}], NEW id \in Ids,
           NEW task \in Task \cup {NoTask}, NEW next, next = [rows EXCEPT ![id] = task], NEW s
    PROVE  TabledMoves(rows, next, rows[id], task, s)
<1> DEFINE A == Tabled(rows, s)
           B == Tabled(next, s)
<1>1. IsFiniteSet(A) /\ Cardinality(A) \in Nat
  BY TabledFinite
<1>2. id \in A <=> Has(rows[id], s) = 1
  BY DEF Tabled, Has
<1>3. Has(rows[id], s) \in {0, 1} /\ Has(task, s) \in {0, 1}
  BY DEF Has
<1>4. \A other \in Ids \ {id} : other \in A <=> other \in B
  BY DEF Tabled
<1>5. A \subseteq Ids /\ B \subseteq Ids
  BY DEF Tabled
<1>6. id \in B <=> Has(task, s) = 1
  BY DEF Tabled, Has
<1> HIDE DEF A, B
<1>7. CASE id \in A <=> id \in B
  <2>1. A = B
    BY <1>4, <1>5, <1>7
  <2>2. Has(rows[id], s) = Has(task, s)
    BY <1>2, <1>3, <1>6, <1>7
  <2>3. Cardinality(B) = Cardinality(A) - Has(rows[id], s) + Has(task, s)
    BY <1>1, <1>3, <2>1, <2>2
  <2> QED BY <2>3 DEF A, B, TabledMoves
<1>8. CASE id \notin A /\ id \in B
  <2>1. B = A \cup {id}
    BY <1>4, <1>5, <1>8
  <2>2. Cardinality(B) = Cardinality(A) + 1
    BY <1>1, <1>8, <2>1, FS_AddElement
  <2>3. Cardinality(B) = Cardinality(A) - Has(rows[id], s) + Has(task, s)
    BY <1>1, <1>2, <1>3, <1>6, <1>8, <2>2
  <2> QED BY <2>3 DEF A, B, TabledMoves
<1>9. CASE id \in A /\ id \notin B
  <2>1. B = A \ {id}
    BY <1>4, <1>5, <1>9
  <2>2. Cardinality(B) = Cardinality(A) - 1
    BY <1>1, <1>9, <2>1, FS_RemoveElement
  <2>3. Cardinality(B) = Cardinality(A) - Has(rows[id], s) + Has(task, s)
    BY <1>1, <1>2, <1>3, <1>6, <1>9, <2>2
  <2> QED BY <2>3 DEF A, B, TabledMoves
<1> QED BY <1>7, <1>8, <1>9

\* What events add to the replay is the change from one row to another.
Moves(events, old, new) ==
    \A s \in Statuses : NetOf(events, s) = Has(new, s) - Has(old, s)

LEMMA OneMoves ==
    ASSUME NEW e, NEW s
    PROVE  NetOf(<<e>>, s) = Unit(e, Entering(s)) - Unit(e, Leaving(s))
  BY CountOne DEF NetOf

LEMMA CreationMoves ==
    ASSUME NEW e \in CreatedEvents PROVE Moves(<<e>>, NoTask, RebuildStep(NoTask, e))
<1> SUFFICES ASSUME NEW s \in Statuses
             PROVE  NetOf(<<e>>, s) = Has(RebuildStep(NoTask, e), s) - Has(NoTask, s)
  BY DEF Moves
<1>1. e \in Event /\ e.kind = "TaskCreated" /\ e.status = "draft"
  BY EventKinds DEF CreatedEvents
<1>2. RebuildStep(NoTask, e).status = "draft" /\ RebuildStep(NoTask, e) \in Task
  BY DEF RebuildStep, Apply, Task, CreatedEvents, Statuses
<1>3. (e \in Entering(s) <=> s = "draft") /\ e \notin Leaving(s)
  BY <1>1 DEF Entering, Leaving, Entered, Left
<1> QED BY <1>2, <1>3, OneMoves, NoTaskAssumption DEF Has, Unit

LEMMA DeletionMoves ==
    ASSUME NEW task \in Task, NEW e \in DeletedEvents, e.status = task.status
    PROVE  Moves(<<e>>, task, NoTask)
<1> SUFFICES ASSUME NEW s \in Statuses
             PROVE  NetOf(<<e>>, s) = Has(NoTask, s) - Has(task, s)
  BY DEF Moves
<1>1. e \in Event /\ e.kind = "TaskDeleted"
  BY EventKinds
<1>2. e \notin Entering(s) /\ (e \in Leaving(s) <=> task.status = s)
  BY <1>1 DEF Entering, Leaving, Entered, Left
<1> QED BY <1>2, OneMoves, NoTaskAssumption DEF Has, Unit

\* A change that an event tells.
LEMMA ChangeMoves ==
    ASSUME NEW task \in Task, NEW e \in ChangeEvents, NEW result, NEW enforce,
           Tells(task, e, result, enforce), result \in Task, NEW s
    PROVE  Unit(e, Entering(s)) - Unit(e, Leaving(s)) = Has(result, s) - Has(task, s)
<1>1. e \in Event /\ e.kind \notin {"TaskCreated", "TaskDeleted"}
  BY EventKinds
<1>2. result = RebuildStep(task, e)
  BY DEF Tells
<1>3. CASE e.kind = "TaskStatusChanged"
  <2>1. e.from = task.status /\ result.status = e.to
    BY <1>2, <1>3 DEF Tells, RebuildStep, Apply, Task
  <2>2. (e \in Entering(s) <=> result.status = s) /\ (e \in Leaving(s) <=> task.status = s)
    BY <1>1, <1>3, <2>1 DEF Entering, Leaving, Entered, Left
  <2> QED BY <2>2, NoTaskAssumption DEF Has, Unit
<1>4. CASE e.kind # "TaskStatusChanged"
  <2>1. result.status = task.status
    BY <1>1, <1>2, <1>4 DEF RebuildStep, Apply, Task
  <2>2. e \notin Entering(s) /\ e \notin Leaving(s)
    BY <1>1, <1>4 DEF Entering, Leaving, Entered, Left
  <2> QED BY <2>1, <2>2, NoTaskAssumption DEF Has, Unit
<1> QED BY <1>3, <1>4

LEMMA BatchMoves ==
    ASSUME NEW task \in Task, NEW events \in Batches, NEW result \in Task, NEW enforce,
           Explains(task, events, result, enforce)
    PROVE  Moves(events, task, result)
<1> SUFFICES ASSUME NEW s \in Statuses
             PROVE  NetOf(events, s) = Has(result, s) - Has(task, s)
  BY DEF Moves
<1>1. Has(task, s) \in Nat /\ Has(result, s) \in Nat
  BY DEF Has
<1>2. CASE events = <<>> /\ result = task
  BY <1>1, <1>2, NetOfNothing
<1>3. ASSUME 1 \in 1 .. Len(events) PROVE events[1] \in ChangeEvents
  <2>1. events \in Seq(LegalEvents)
    BY BatchesLegal
  <2>2. events[1] \in LegalEvents
    BY <1>3, <2>1, ElementOfSeq
  <2> QED BY <2>2 DEF LegalEvents
<1>4. ASSUME NEW e \in Event, events = <<e>>, Tells(task, e, result, enforce)
      PROVE  NetOf(events, s) = Has(result, s) - Has(task, s)
  <2>1. e \in ChangeEvents
    BY <1>3, <1>4
  <2> QED BY <1>4, <2>1, OneMoves, ChangeMoves
<1>5. ASSUME NEW e \in Event, NEW f \in MarkerEvents, events = <<e, f>>,
             Tells(task, e, result, enforce)
      PROVE  NetOf(events, s) = Has(result, s) - Has(task, s)
  <2>1. e \in ChangeEvents
    BY <1>3, <1>5
  <2>2. f \notin Entering(s) /\ f \notin Leaving(s)
    BY DEF MarkerEvents, Entering, Leaving, Entered, Left
  <2>3. /\ Count(<<e, f>>, Entering(s)) = Unit(e, Entering(s)) + Unit(f, Entering(s))
        /\ Count(<<e, f>>, Leaving(s)) = Unit(e, Leaving(s)) + Unit(f, Leaving(s))
    BY CountTwo
  <2>4. Unit(e, Entering(s)) \in Nat /\ Unit(e, Leaving(s)) \in Nat
        /\ Unit(f, Entering(s)) = 0 /\ Unit(f, Leaving(s)) = 0
    BY <2>2 DEF Unit
  <2>5. NetOf(events, s) = Unit(e, Entering(s)) - Unit(e, Leaving(s))
    BY <1>5, <2>3, <2>4 DEF NetOf
  <2> QED BY <1>5, <2>1, <2>5, ChangeMoves
<1> QED BY <1>2, <1>4, <1>5 DEF Explains

\* The deletion that a single thread is about to record is of the row as it is.
DeletesCurrent ==
    \A t \in Threads : pc[t] = "commit" /\ work[t].persist = "delete" =>
        \E e \in DeletedEvents : work[t].events = <<e>> /\ e.status = row[work[t].id].status

LEMMA LoadsDeletion ==
    ASSUME IInv, NEW t \in Threads, Request(t), UNCHANGED row, pc'[t] = "commit",
           work'[t].persist = "delete"
    PROVE  \E e \in DeletedEvents :
              work'[t].events = <<e>> /\ e.status = row[work'[t].id].status
<1>1. pc \in [Threads -> {"idle", "commit", "publish"}]
      /\ work \in [Threads -> Work \cup {NoWork}] /\ pc[t] = "idle"
  BY DEF IInv, TypeOK, Request, CreateTask, EditTask, ReprioritizeTask, TransitionTask,
         DeleteTask, FindNothing, Receive
<1>2. ASSUME NEW persist, NEW id, NEW outcome, Hold(t, persist, id, outcome)
      PROVE  work'[t] = [persist |-> persist, id |-> id,
                         task |-> outcome.task, events |-> outcome.events]
  BY <1>1, <1>2 DEF Hold
<1>3. CASE DeleteTask(t)
  <2>1. PICK id \in Ids : row[id] # NoTask /\ Hold(t, "delete", id, MarkDeleted(row[id]))
    BY <1>3 DEF DeleteTask
  <2> DEFINE e == [kind |-> "TaskDeleted", status |-> row[id].status]
  <2> DEFINE outcome == MarkDeleted(row[id])
  <2>2. work'[t].id = id /\ work'[t].events = <<e>>
    <3>1. outcome.events = <<e>>
      BY DEF MarkDeleted, Done
    <3> HIDE DEF outcome, e
    <3>2. work'[t] = [persist |-> "delete", id |-> id,
                      task |-> outcome.task, events |-> outcome.events]
      BY <1>2, <2>1 DEF outcome
    <3> QED BY <3>1, <3>2
  <2>3. row[id] \in Task
    BY <2>1 DEF IInv, TypeOK, LedgerTypeOK
  <2>4. e \in DeletedEvents /\ e.status = row[id].status
    BY <2>3 DEF DeletedEvents, Task
  <2> HIDE DEF e
  <2> QED BY <2>2, <2>4
<1>4. ASSUME NEW id, NEW outcome, Hold(t, "add", id, outcome) \/ Hold(t, "save", id, outcome)
      PROVE  FALSE
  <2>1. ASSUME NEW persist, Hold(t, persist, id, outcome) PROVE persist = "delete"
    <3>1. work'[t] = [persist |-> persist, id |-> id,
                      task |-> outcome.task, events |-> outcome.events]
      BY <1>2, <2>1
    <3> QED BY <3>1
  <2> QED BY <1>4, <2>1
<1>5. CASE FindNothing(t)
  BY <1>1, <1>5 DEF FindNothing
<1> QED BY <1>3, <1>4, <1>5
        DEF Request, CreateTask, EditTask, ReprioritizeTask, TransitionTask

LEMMA NextKeepsDeletesCurrent ==
    ASSUME OneThread, IInv, DeletesCurrent, [Next]_vars
    PROVE  DeletesCurrent'
<1>1. ASSUME NEW t \in Threads, Request(t), UNCHANGED <<row, stream>> PROVE DeletesCurrent'
  BY <1>1, LoadsDeletion DEF DeletesCurrent, OneThread
<1>2. ASSUME NEW t \in Threads, CommitAdd(t) \/ CommitSave(t) \/ CommitDelete(t)
      PROVE  DeletesCurrent'
  BY <1>2, CommitEnds DEF DeletesCurrent, OneThread
<1>3. ASSUME UNCHANGED <<row, stream>>,
             \A t \in Threads : pc'[t] = "commit" => pc[t] = "commit" /\ work'[t] = work[t]
      PROVE  DeletesCurrent'
  BY <1>3 DEF DeletesCurrent
<1> QED BY <1>1, <1>2, <1>3, StepKinds

\* The transactions of a single thread store the events that move the row.
LEMMA CommitMoves ==
    ASSUME IInv, HeldIsCurrent, DeletesCurrent, NEW t \in Threads,
           CommitAdd(t) \/ CommitSave(t) \/ CommitDelete(t)
    PROVE  \E new \in Task \cup {NoTask} :
              /\ row' = [row EXCEPT ![work[t].id] = new]
              /\ Moves(work[t].events, row[work[t].id], new)
<1>1. pc[t] = "commit" /\ work[t] \in Work
  BY HeldIsMinted DEF CommitAdd, CommitSave, CommitDelete
<1>2. work[t].task \in Task /\ row[work[t].id] \in Task \cup {NoTask}
  BY <1>1 DEF Work, IInv, TypeOK, LedgerTypeOK
<1>3. CASE CommitAdd(t)
  <2>1. PICK event \in CreatedEvents :
           work[t].task = RebuildStep(NoTask, event) /\ work[t].events = <<event>>
    BY <1>3, AddStores
  <2>2. row[work[t].id] = NoTask /\ row' = [row EXCEPT ![work[t].id] = work[t].task]
    BY <1>3, AddStores DEF CommitAdd
  <2>3. Moves(work[t].events, row[work[t].id], work[t].task)
    BY <2>1, <2>2, CreationMoves
  <2> QED BY <1>2, <2>2, <2>3
<1>4. CASE CommitSave(t)
  <2>1. work[t].persist = "save" /\ row' = [row EXCEPT ![work[t].id] = work[t].task]
    BY <1>4 DEF CommitSave
  <2>2. row[work[t].id] # NoTask
        /\ Explains(row[work[t].id], work[t].events, work[t].task, Strict)
    BY <1>1, <2>1 DEF HeldIsCurrent
  <2>3. work[t].events \in Batches
    BY <1>4, SaveStores
  <2>4. Moves(work[t].events, row[work[t].id], work[t].task)
    BY <1>2, <2>2, <2>3, BatchMoves
  <2> QED BY <1>2, <2>1, <2>4
<1>5. CASE CommitDelete(t)
  <2>1. work[t].persist = "delete" /\ row' = [row EXCEPT ![work[t].id] = NoTask]
    BY <1>5 DEF CommitDelete
  <2>2. row[work[t].id] \in Task
    BY <1>1, <1>2, <2>1 DEF HeldIsCurrent
  <2>3. PICK e \in DeletedEvents :
           work[t].events = <<e>> /\ e.status = row[work[t].id].status
    BY <1>1, <2>1 DEF DeletesCurrent
  <2>4. Moves(work[t].events, row[work[t].id], NoTask)
    BY <2>2, <2>3, DeletionMoves
  <2> QED BY <2>1, <2>4
<1> QED BY <1>3, <1>4, <1>5

AddsUp == EventSourcing => RowsAddUp(row, stream)

LEMMA AddsUpNext ==
    ASSUME NEW rows, NEW streams, rows = row', streams = stream',
           EventSourcing => RowsAddUp(rows, streams)
    PROVE  AddsUp'
<1>1. ASSUME NEW s
      PROVE  Cardinality(Tabled(row, s))' = Cardinality(Tabled(rows, s))
             /\ Net(stream, s)' = Net(streams, s)
  <2>1. ASSUME NEW wanted PROVE Tally(stream, wanted)' = Tally(streams, wanted)
    BY DEF Tally, Places
  <2>2. Net(stream, s)' = Net(streams, s)
    BY <2>1 DEF Net
  <2>3. Tabled(row, s)' = Tabled(rows, s)
    BY DEF Tabled
  <2> QED BY <2>2, <2>3
<1> QED BY <1>1 DEF AddsUp, RowsAddUp

LEMMA CommitKeepsAddsUp ==
    ASSUME IInv, HeldIsCurrent, DeletesCurrent, AddsUp, NEW t \in Threads,
           CommitAdd(t) \/ CommitSave(t) \/ CommitDelete(t)
    PROVE  AddsUp'
<1> DEFINE w == work[t]
<1>1. w \in Work /\ AppendEvents(w)
  BY HeldIsMinted DEF CommitAdd, CommitSave, CommitDelete
<1>2. w.id \in Ids /\ w.events \in Seq(Event)
  BY <1>1 DEF Work
<1>3. PICK new \in Task \cup {NoTask} : row' = [row EXCEPT ![w.id] = new]
                                         /\ Moves(w.events, row[w.id], new)
  BY CommitMoves
<1>4. PICK rows, streams : /\ rows = [row EXCEPT ![w.id] = new]
                           /\ streams = [stream EXCEPT ![w.id] = @ \o w.events]
  OBVIOUS
<1>5. ASSUME EventSourcing PROVE RowsAddUp(rows, streams)
  <2>1. SUFFICES ASSUME NEW s \in Statuses
                 PROVE  Cardinality(Tabled(rows, s)) = Net(streams, s)
    BY DEF RowsAddUp
  <2>2. Cardinality(Tabled(row, s)) = Net(stream, s)
    BY <1>5 DEF AddsUp, RowsAddUp
  <2>3. Net(streams, s) = Net(stream, s) + NetOf(w.events, s)
        /\ Net(stream, s) \in Int /\ NetOf(w.events, s) \in Int
    BY <1>2, <1>4, StreamGrows
  <2>4. Cardinality(Tabled(rows, s))
           = Cardinality(Tabled(row, s)) - Has(row[w.id], s) + Has(new, s)
    <3>1. row \in [Ids -> Task \cup {NoTask}]
      BY DEF IInv, TypeOK, LedgerTypeOK
    <3>2. rows = [row EXCEPT ![w.id] = new] /\ w.id \in Ids
      BY <1>2, <1>4
    <3> HIDE DEF w
    <3>3. TabledMoves(row, rows, row[w.id], new, s)
      BY <3>1, <3>2, TabledChange
    <3> QED BY <3>3 DEF TabledMoves
  <2>5. NetOf(w.events, s) = Has(new, s) - Has(row[w.id], s)
    BY <1>3 DEF Moves
  <2>6. Has(new, s) \in Nat /\ Has(row[w.id], s) \in Nat
    BY DEF Has
  <2> QED BY <2>2, <2>3, <2>4, <2>5, <2>6
<1>6. ASSUME EventSourcing PROVE streams = stream'
  BY <1>1, <1>4, <1>6 DEF AppendEvents
<1>7. rows = row'
  BY <1>3, <1>4
<1>8. CASE EventSourcing
  BY <1>5, <1>6, <1>7, <1>8, AddsUpNext
<1>9. CASE ~ EventSourcing
  BY <1>9 DEF AddsUp
<1> QED BY <1>8, <1>9

LEMMA SequentialAddsUp == OneThread => (Spec => [](DeletesCurrent /\ AddsUp))
<1> SUFFICES ASSUME OneThread PROVE Spec => [](DeletesCurrent /\ AddsUp)
  OBVIOUS
<1>1. Init => DeletesCurrent /\ AddsUp
  <2> SUFFICES ASSUME Init PROVE DeletesCurrent /\ AddsUp
    OBVIOUS
  <2>1. /\ pc = [t \in Threads |-> "idle"] /\ stream = [id \in Ids |-> <<>>]
        /\ row = [id \in Ids |-> NoTask]
    BY DEF Init, LedgerInit
  <2>2. DeletesCurrent
    BY <2>1 DEF DeletesCurrent
  <2>3. ASSUME NEW s PROVE Cardinality(Tabled(row, s)) = Net(stream, s)
    <3>1. Tabled(row, s) = {}
      BY <2>1 DEF Tabled
    <3>2. stream \in [Ids -> {<<>>}]
      BY <2>1
    <3>3. Net(stream, s) = 0
      BY <3>2, NetNone
    <3> QED BY <3>1, <3>3, FS_EmptySet
  <2> QED BY <2>2, <2>3 DEF AddsUp, RowsAddUp
<1>2. IInv /\ HeldIsCurrent /\ DeletesCurrent /\ AddsUp /\ [Next]_vars
        => (DeletesCurrent /\ AddsUp)'
  <2> SUFFICES ASSUME IInv, HeldIsCurrent, DeletesCurrent, AddsUp, [Next]_vars
               PROVE  DeletesCurrent' /\ AddsUp'
    OBVIOUS
  <2>1. DeletesCurrent'
    BY NextKeepsDeletesCurrent
  <2>2. ASSUME UNCHANGED <<row, stream>> PROVE AddsUp'
    BY <2>2, AddsUpNext DEF AddsUp
  <2>3. AddsUp'
    BY <2>2, StepKinds, CommitKeepsAddsUp
  <2> QED BY <2>1, <2>3
<1> QED BY <1>1, <1>2, Inductive, SequentialInv, PTL DEF Spec

\* cqrs.md: "the live projection matches a GROUP BY over the write model".  One request
\* at a time, at rest and with nothing lost, every count is the number of the rows that
\* have the status.
THEOREM CountsAreTheRows ==
    OneThread /\ EventSourcing /\ ~ RebuildAnytime => (ProjectionSpec => []CountsMatchRows)
<1> SUFFICES ASSUME OneThread, EventSourcing, ~ RebuildAnytime
             PROVE  ProjectionSpec => []CountsMatchRows
  OBVIOUS
<1>1. NoDriftAtRest /\ AddsUp => CountsMatchRows
  <2> SUFFICES ASSUME NoDriftAtRest, AddsUp, ~ lost, ~ InFlight, NEW s \in Statuses
               PROVE  Counted(s) = Cardinality(Tabled(row, s))
    BY DEF CountsMatchRows, Tabled
  <2>1. Counted(s) = Net(stream, s)
    BY ReplayedIs DEF NoDriftAtRest
  <2> QED BY <2>1 DEF AddsUp, RowsAddUp
<1>2. ProjectionSpec => []NoDriftAtRest
  BY NoDrift
<1>3. ProjectionSpec => [](DeletesCurrent /\ AddsUp)
  BY ProjectorOnlyWatches, SequentialAddsUp
<1> QED BY <1>1, <1>2, <1>3, PTL

\* ADR-0017: a rebuild replays the whole log and "heals any drift".  One request at a
\* time, what it leaves is the count of the rows, whatever was lost before and whether
\* or not events are in flight.
THEOREM RebuildRestores ==
    OneThread /\ EventSourcing => (ProjectionSpec => RebuildHeals)
<1> SUFFICES ASSUME OneThread, EventSourcing PROVE ProjectionSpec => RebuildHeals
  OBVIOUS
<1>1. ASSUME IInv, AddsUp, RebuildStatistics, NEW s \in Statuses
      PROVE  Counted(s)' = Cardinality({id \in Ids : row[id] # NoTask /\ row[id].status = s})
  <2>1. stats' = [state \in Statuses |->
                    IF Places(stream, Entering(state) \cup Leaving(state)) # {}
                    THEN Replayed(state) ELSE NoRow]
    BY <1>1 DEF RebuildStatistics
  <2>2. Replayed(s) = Net(stream, s) /\ Net(stream, s) \in Int
    BY <1>1, ReplayedIs, NetOfStored
  <2>3. (IF stats'[s] = NoRow THEN 0 ELSE stats'[s]) = Net(stream, s)
    <3>1. CASE Places(stream, Entering(s) \cup Leaving(s)) # {}
      BY <2>1, <2>2, <3>1, NoRowAssumption
    <3>2. CASE Places(stream, Entering(s) \cup Leaving(s)) = {}
      <4>1. Places(stream, Entering(s)) = {} /\ Places(stream, Leaving(s)) = {}
        BY <3>2 DEF Places
      <4>2. Net(stream, s) = 0
        BY <4>1, FS_EmptySet DEF Net, Tally
      <4> QED BY <2>1, <3>2, <4>2
    <3> QED BY <3>1, <3>2
  <2>4. Cardinality(Tabled(row, s)) = Net(stream, s)
    BY <1>1 DEF AddsUp, RowsAddUp
  <2> QED BY <2>3, <2>4 DEF Counted, Tabled
<1>2. IInv /\ AddsUp => [RebuildStatistics =>
          \A s \in Statuses :
             Counted(s)' = Cardinality({id \in Ids : row[id] # NoTask
                                                     /\ row[id].status = s})]_allVars
  BY <1>1
<1>3. ProjectionSpec => [](DeletesCurrent /\ AddsUp)
  BY ProjectorOnlyWatches, SequentialAddsUp
<1> QED BY <1>2, <1>3, ProjectionInductive, PTL DEF RebuildHeals
=============================================================================
