-------------------------------- MODULE Server --------------------------------
(***************************************************************************)
(* A server process and its database: each of its threads takes a request, *)
(* gets the service from the container, runs the use case and dispatches   *)
(* its events, with the statements of UnitOfWork and the steps of          *)
(* get_container.  The process may die; the one that takes its place is    *)
(* started by ready(), which builds the container.                         *)
(***************************************************************************)
EXTENDS UnitOfWork, Container, FiniteSets

\* Whoever calls get_container is a thread of the server.
ASSUME CallersAssumption == Callers = Threads /\ Nobody \notin Threads

VARIABLE serving   \* serving[t]: whether the thread asks for the service or has it

svars == <<txVars, container_vars, serving>>

ServerInit == TxInit /\ ContainerInit /\ serving = [t \in Threads |-> "nothing"]

Busy(t) == serving[t] # "nothing" \/ pc[t] # "idle"

\* A request comes in, and its view calls get_task_service.
Ask(t) ==
    /\ ~ Busy(t)
    /\ received + Cardinality({u \in Threads : serving[u] # "nothing"}) < MaxRequests
    /\ FirstCheck(t)
    /\ serving' = [serving EXCEPT ![t] = "asks"]
    /\ UNCHANGED txVars

GetContainer(t) ==
    /\ serving[t] = "asks"
    /\ Acquire(t) \/ SecondCheck(t) \/ Construct(t)
    /\ UNCHANGED <<txVars, serving>>

\* get_container().task_service; None does not have one, and the request ends.
GetTaskService(t) ==
    /\ serving[t] = "asks"
    /\ Return(t)
    /\ serving' = [serving EXCEPT ![t] = IF container = 0 THEN "nothing" ELSE "has"]
    /\ UNCHANGED txVars

CallService(t) ==
    /\ serving[t] = "has"
    /\ Load(t)
    /\ serving' = [serving EXCEPT ![t] = "nothing"]
    /\ UNCHANGED container_vars

\* The rest of the use case.
Proceed(t) == TxStep(t) \/ Dispatch(t)

Restart ==
    /\ Die
    /\ serving' = [t \in Threads |-> "nothing"]
    /\ container' = 1 /\ built' = 1 /\ resets' = 0 /\ lock' = Nobody
    /\ overtaken' = {}
    /\ caller' = [t \in Threads |-> "out"]

AllDone == Quiet /\ (\A t \in Threads : ~ Busy(t)) /\ UNCHANGED svars

\* What a thread does with a request unless something fails.
Serve(t) ==
    \/ GetContainer(t) \/ GetTaskService(t) \/ CallService(t)
    \/ Proceed(t) /\ UNCHANGED <<container_vars, serving>>

ServerNext ==
    \/ \E t \in Threads :
         \/ Ask(t) \/ Serve(t)
         \/ StatementFails(t) /\ UNCHANGED <<container_vars, serving>>
    \/ ResetContainer /\ UNCHANGED <<txVars, serving>>
    \/ Restart \/ AllDone

\* Threads go on with the request they have; nothing has to fail, and no lock of the
\* database is waited for until the time is up.
ServerSpec == ServerInit /\ [][ServerNext]_svars /\ \A t \in Threads : WF_svars(Serve(t))

-----------------------------------------------------------------------------

\* Threads never wait for each other for good, neither for the locks of the database
\* nor for that of the container: every request ends, though nothing fails and no
\* wait for a lock times out.
EveryRequestEnds == \A t \in Threads : Busy(t) ~> ~ Busy(t)
=============================================================================
