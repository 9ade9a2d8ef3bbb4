------------------------------ MODULE Transports ------------------------------
(***************************************************************************)
(* The ways into the application service: the REST API, the HTML forms,    *)
(* GraphQL and seed_tasks.  Each turns a request into commands for the     *)
(* service, and what comes of them into an answer.  A REST or HTML request *)
(* is one command; a GraphQL document may hold several, and seed_tasks     *)
(* creates a task and moves it through its lifecycle: they run one after   *)
(* the other, each in its own transaction, until one fails.                *)
(*                                                                         *)
(* A thread answers one client.  The client remembers the task as it last  *)
(* read it or as its last command left it, and may send a request again.   *)
(* The steps of a use case are those of TaskService.                       *)
(***************************************************************************)
EXTENDS TaskService

CONSTANTS
    MaxDocument,  \* bound: mutations in a GraphQL document
    NoCall        \* the thread has served no request yet

VARIABLE call     \* call[t]: the request the thread serves, or the last one, answered

tvars == <<vars, call>>

\* The command DTOs.  Their fields are strings a client may send.
CreateTaskCommand == [op : {"create"}, title : RawTitles, description : RawDescriptions,
                      priority : Priorities \cup {Invalid}]
EditTaskCommand == [op : {"edit"}, id : Ids, title : RawTitles \cup {None},
                    description : RawDescriptions \cup {None}]
ChangePriorityCommand == [op : {"priority"}, id : Ids, priority : Priorities \cup {Invalid}]
TransitionTaskCommand == [op : {"transition"}, id : Ids, target : Statuses \cup {Invalid}]
DeleteTaskCommand == [op : {"delete"}, id : Ids]
GetTaskQuery == [op : {"get"}, id : Ids]

Command == CreateTaskCommand \cup EditTaskCommand \cup ChangePriorityCommand
           \cup TransitionTaskCommand \cup DeleteTaskCommand

\* There is no HTML form that edits; seed_tasks begins with a creation.
Offered(transport) ==
    CreateTaskCommand
    \cup (IF transport = "seed" THEN {}
          ELSE ChangePriorityCommand \cup TransitionTaskCommand \cup DeleteTaskCommand)
    \cup (IF transport \in {"rest", "graphql"} THEN EditTaskCommand ELSE {})

\* What the serializers of the REST API accept.
Serialized(c) ==
    /\ c.op \in {"create", "edit"} =>
         /\ c.title # None => CleanTitle[c.title] # Invalid
         /\ c.description # None => CleanDescription[c.description] # Invalid
    /\ c.op = "edit" => {c.title, c.description} # {None}
    /\ c.op \in {"create", "priority"} => c.priority # Invalid
    /\ c.op = "transition" => c.target # Invalid

-----------------------------------------------------------------------------
(* Answers *)

DomainErrors == {"TaskValidationError", "IllegalStateTransitionError", "TaskNotFoundError"}

\* Mutant: the statuses of the first two errors in each other's place.
StatusForSwapped(error) ==
    CASE error = "TaskNotFoundError" -> 409
      [] error = "IllegalStateTransitionError" -> 404
      [] OTHER -> 400

\* _STATUS_MAP.
StatusFor(error) ==
    CASE error = "TaskNotFoundError" -> 404
      [] error = "IllegalStateTransitionError" -> 409
      [] OTHER -> 400

\* The HTTP status of the answer.  HTML forms redirect and GraphQL answers 200,
\* both with the error in the answer; what is not a DomainError is a 500.
Status(transport, fault) ==
    CASE transport = "graphql" -> 200
      [] fault \notin DomainErrors \cup {"none"} -> 500
      [] transport = "web" -> 302
      [] fault = "none" -> 200
      [] OTHER -> StatusFor(fault)

\* The client is told that all of its request was done: by the status, by
\* messages.success, by the absence of "errors", by the exit of the command.
SaysDone(t) ==
    IF call[t].transport = "rest" THEN Status("rest", call[t].fault) < 400
    ELSE call[t].fault = "none"

\* Mutant: whatever the task is not.
AllowedTargetsAll(status) == Statuses \ {status}

\* allowed_targets, as present_task shows it to clients.
AllowedTargets(status) == AllowedTransitions[status]

-----------------------------------------------------------------------------
(* A request comes in *)

\* A task as a client was shown it; NoTask after the client deleted it.
Showing == [id : Ids, task : Task \cup {NoTask}]

\* What a thread knows of its request: its commands so far (the last of them, how
\* many, how many were stored), how it is answered, and the task that the client
\* was last shown.  Histories: again, fresh, sent and commits.
Call == [transport : {"rest", "web", "graphql", "seed"},
         command : Command \cup GetTaskQuery \cup {NoCall},
         at : {"run", "busy", "answered"}, again : BOOLEAN, fresh : BOOLEAN,
         sent : Nat, commits : Nat,
         fault : DomainErrors \cup {"none", "DatabaseError"},
         shown : Showing \cup {NoTask}]

ASSUME NoCallAssumption == NoCall \notin Call
ASSUME NotShownAssumption == NoTask \notin Showing

Open(t) == call[t] # NoCall /\ call[t].at # "answered"
Shown(t) == IF call[t] = NoCall THEN NoTask ELSE call[t].shown

\* Bounds: commands to be run, and identities for the tasks to be created.
Waiting == {u \in Threads : Open(u) /\ call[u].at = "run"}
CommandsLeft == received + Cardinality(Waiting) < MaxRequests
RoomFor(t) ==
    Cardinality(Ids \ minted) > Cardinality({u \in Waiting \ {t} : call[u].transport = "seed"})

\* Which command it is matters when the service runs it, and is chosen then.
Opened(t, transport) ==
    [transport |-> transport, command |-> NoCall, at |-> "run", again |-> FALSE,
     fresh |-> FALSE, sent |-> 1, commits |-> 0, fault |-> "none", shown |-> Shown(t)]

Fail(t, fault) ==
    call' = [call EXCEPT ![t].at = "answered", ![t].fault = fault]

Send(t) ==
    /\ ~ Open(t)
    /\ CommandsLeft
    /\ \E transport \in {"rest", "web", "graphql", "seed"} :
         /\ transport = "seed" => RoomFor(t)
         /\ call' = [call EXCEPT ![t] = Opened(t, transport)]
    /\ UNCHANGED vars

\* serializer.is_valid(raise_exception=True): the service is not reached.
Reject(t) ==
    /\ ~ Open(t)
    /\ \E c \in Offered("rest") : ~ Serialized(c)
    /\ call' = [call EXCEPT ![t] = [Opened(t, "rest") EXCEPT
                   !.at = "answered", !.fault = "TaskValidationError"]]
    /\ UNCHANGED vars

\* The client sends the request again: it did not get the answer, or clicked twice.
Resend(t) ==
    /\ call[t] # NoCall /\ ~ Open(t) /\ call[t].fault = "none"
    /\ call[t].transport # "seed" /\ call[t].sent = 1 /\ call[t].command.op # "create"
    /\ CommandsLeft
    /\ call' = [call EXCEPT ![t] = [Opened(t, call[t].transport) EXCEPT
                   !.command = call[t].command, !.again = TRUE]]
    /\ UNCHANGED vars

\* The client reads a task.
Retrieve(t) ==
    /\ ~ Open(t)
    /\ \E q \in GetTaskQuery :
         call' = [call EXCEPT ![t] =
             IF row[q.id] = NoTask
             THEN [Opened(t, "rest") EXCEPT !.command = q, !.at = "answered",
                                            !.fault = "TaskNotFoundError"]
             ELSE [Opened(t, "rest") EXCEPT !.command = q, !.at = "answered", !.sent = 0,
                                            !.shown = [id |-> q.id, task |-> row[q.id]]]]
    /\ UNCHANGED vars

-----------------------------------------------------------------------------
(* The command is run *)

\* Mutant: the service is built without its flag.
EnforceUnwired == FALSE

\* The flag as the container gives it to the service.
Enforce == Strict

Outcome(task, c) ==
    CASE c.op = "transition" -> TransitionTo(task, c.target, Enforce)
      [] c.op = "edit" -> EditDetails(task, c.title, c.description)
      [] c.op = "priority" -> ChangePriority(task, c.priority)
      [] c.op = "delete" -> MarkDeleted(task)

ErrorOf(c) == IF c.op = "transition" /\ c.target # Invalid THEN "IllegalStateTransitionError"
              ELSE "TaskValidationError"

\* The transitions of _SEED_DATA, from the status that the last one led to.
SeedTargets(status) ==
    CASE status = "draft" -> {"active"}
      [] status = "active" -> {"blocked", "completed"}
      [] status = "completed" -> {"archived"}
      [] OTHER -> {}

\* The commands the request may have for the service now.
Commands(t) ==
    CASE call[t].again -> {call[t].command}
      [] call[t].transport = "seed" /\ call[t].sent > 1 ->
            [op : {"transition"}, id : {Shown(t).id}, target : SeedTargets(Shown(t).task.status)]
      [] OTHER -> {c \in Offered(call[t].transport) :
                      call[t].transport \in {"rest", "seed"} => Serialized(c)}

\* Where the command leaves the request: with an error for an answer, or going on.
Ran(t, c, outcome, fresh) ==
    LET ran == [call[t] EXCEPT !.command = c, !.fresh = fresh]
    IN  call' = [call EXCEPT ![t] =
            IF outcome.raised THEN [ran EXCEPT !.at = "answered", !.fault = ErrorOf(c)]
            ELSE [ran EXCEPT !.at = "busy"]]

Runs(t) == Open(t) /\ call[t].at = "run" /\ Receive(t)

RunCreate(t) ==
    /\ Runs(t)
    /\ RoomFor(t)
    /\ \E c \in {d \in Commands(t) : d.op = "create"}, id \in Ids \ minted :
         LET outcome == Create(c.title, c.description, c.priority)
         IN  /\ Hold(t, "add", id, outcome)
             /\ minted' = IF outcome.raised THEN minted ELSE minted \cup {id}
             /\ Ran(t, c, outcome, FALSE)

\* The task is as the client was last shown it.
AsShown(t, id) == Shown(t) # NoTask /\ Shown(t) = [id |-> id, task |-> row[id]]

RunOnTask(t) ==
    /\ Runs(t)
    /\ \E c \in {d \in Commands(t) : d.op # "create" /\ row[d.id] # NoTask} :
         LET outcome == Outcome(row[c.id], c)
         IN  /\ Hold(t, IF c.op = "delete" THEN "delete" ELSE "save", c.id, outcome)
             /\ Ran(t, c, outcome, AsShown(t, c.id))
    /\ UNCHANGED minted

\* repository.get finds no such task.
RunOnNothing(t) ==
    /\ Runs(t)
    /\ \E c \in {d \in Commands(t) : d.op # "create" /\ row[d.id] = NoTask} :
         call' = [call EXCEPT ![t].command = c, ![t].at = "answered",
                              ![t].fault = "TaskNotFoundError"]
    /\ UNCHANGED <<minted, pc, work>>

\* The transaction commits; the task as it is now is what the client will be shown.
CommandStored(t) ==
    /\ CommitAdd(t) \/ CommitSave(t) \/ CommitDelete(t)
    /\ LET task == IF work[t].persist = "delete" THEN NoTask ELSE work[t].task
       IN  call' = [call EXCEPT ![t].commits = @ + 1,
                                ![t].shown = [id |-> work[t].id, task |-> task]]

\* The transaction does not commit.
CommandMisses(t) ==
    SaveFindsNothing(t) /\ Fail(t, "TaskNotFoundError")
CommandFails(t) ==
    RollBack(t) /\ Fail(t, "DatabaseError")

\* Mutant: what a subscriber raises comes out of publish_all.
DispatchRaises(t) ==
    /\ pc[t] = "publish"
    /\ \/ Publish(t) /\ UNCHANGED call
       \/ Release(t) /\ Fail(t, "HandlerError") /\ UNCHANGED <<ledger, minted, published, received>>

\* An event goes to the subscribers, whether or not they fail: the bus logs what
\* they raise.
Dispatch(t) == Publish(t) /\ UNCHANGED call

-----------------------------------------------------------------------------
(* The next command, or the answer *)

MayFollow(t) ==
    \/ call[t].transport = "graphql" /\ call[t].sent < MaxDocument
    \/ call[t].transport = "seed" /\ SeedTargets(Shown(t).task.status) # {}

Finished(t) == Open(t) /\ call[t].at = "busy" /\ pc[t] = "idle"

NextCommand(t) ==
    /\ Finished(t) /\ MayFollow(t)
    /\ CommandsLeft
    /\ call' = [call EXCEPT ![t].sent = @ + 1, ![t].fresh = FALSE, ![t].again = FALSE,
                  ![t].at = "run"]
    /\ UNCHANGED vars

Answer(t) ==
    /\ Finished(t)
    /\ call' = [call EXCEPT ![t].at = "answered"]
    /\ UNCHANGED vars

-----------------------------------------------------------------------------

TransportInit == Init /\ call = [t \in Threads |-> NoCall]

AllAnswered == (\A t \in Threads : ~ Open(t)) /\ UNCHANGED tvars

TransportNext ==
    \/ \E t \in Threads :
         \/ Send(t) \/ Reject(t) \/ Resend(t) \/ Retrieve(t)
         \/ RunCreate(t) \/ RunOnTask(t) \/ RunOnNothing(t)
         \/ CommandStored(t) \/ CommandMisses(t) \/ CommandFails(t) \/ Dispatch(t)
         \/ NextCommand(t) \/ Answer(t)
    \/ AllAnswered

TransportSpec == TransportInit /\ [][TransportNext]_tvars

-----------------------------------------------------------------------------
(* Properties *)

\* Whatever the transport, the commands reach the tables and the bus as the use
\* cases of TaskService do ("a thin HTTP adapter over the application service").
ImplementsService == Spec

\* An answer that says it was done follows the commit of every command of the
\* request.  One that reports an error follows the commit of all of them but the
\* last, of which nothing is stored: subscribers that fail do not turn what is
\* stored into an error, and a transaction that failed is not reported as done.
AnswerIsHonest ==
    \A t \in Threads : call[t] # NoCall /\ call[t].at = "answered" =>
        call[t].commits = IF SaysDone(t) THEN call[t].sent ELSE call[t].sent - 1

\* A request that is sent again after it was done records nothing more, if the task
\* is still as the answer showed it.
RetryRecordsNothing ==
    \A t \in Threads : pc[t] = "commit" /\ call[t].again /\ call[t].fresh => work[t].events = <<>>

Answers(t, status) ==
    /\ call[t] # NoCall /\ call[t].at = "answered" /\ call[t].transport = "rest"
    /\ Status("rest", call[t].fault) = status

\* A transition that the task was shown to allow (present_task, allowed_transitions)
\* is refused with a conflict only if the task has changed since.
ConflictMeansStale ==
    \A t \in Threads : Answers(t, 409) /\ call[t].fresh =>
        call[t].command.target \notin AllowedTargets(Shown(t).task.status)

\* A task that a client has seen, and that it is now told does not exist, was
\* deleted, and the history says so.
MissingMeansDeleted ==
    \A t \in Threads :
        Answers(t, 404) /\ Shown(t) # NoTask /\ call[t].command.id = Shown(t).id =>
            LET events == stream[Shown(t).id]
            IN  events # <<>> /\ events[Len(events)].kind = "TaskDeleted"
=============================================================================
