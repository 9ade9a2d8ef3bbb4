------------------------------ MODULE Container ------------------------------
(***************************************************************************)
(* The composition root of tasks/infrastructure/container.py: one object   *)
(* graph per process, built on first use under double-checked locking, and *)
(* torn down by reset_container.  TasksConfig.ready calls get_container    *)
(* before any request is served; the tests reset it afterwards.            *)
(***************************************************************************)
EXTENDS Naturals

CONSTANTS
    Callers,    \* threads that call get_container
    Nobody,     \* no one holds the lock
    MaxResets   \* bound: calls of reset_container

VARIABLES
    container,  \* the module's _container: 0 is None, n the n-th one constructed
    lock,       \* who holds _lock, or Nobody
    caller,     \* where each thread is in get_container
    built,      \* history: containers constructed
    resets,     \* history: calls of reset_container
    overtaken   \* history: threads that a reset came to between their check and their return

container_vars == <<container, lock, caller, built, resets, overtaken>>

\* The process starts with None, or ready() has built the first one.
ContainerInit ==
    /\ \E warm \in {0, 1} : container = warm /\ built = warm
    /\ lock = Nobody /\ resets = 0 /\ overtaken = {}
    /\ caller = [t \in Callers |-> "out"]

\* Mutant: a container that is being constructed is taken to be there.
FirstCheckOfLock(t) ==
    /\ caller[t] = "out"
    /\ caller' = [caller EXCEPT ![t] =
           IF container = 0 /\ lock = Nobody THEN "wait" ELSE "return"]
    /\ UNCHANGED <<container, lock, built, resets, overtaken>>

\* The check without the lock.
FirstCheck(t) ==
    /\ caller[t] = "out"
    /\ caller' = [caller EXCEPT ![t] = IF container = 0 THEN "wait" ELSE "return"]
    /\ UNCHANGED <<container, lock, built, resets, overtaken>>

Acquire(t) ==
    /\ caller[t] = "wait" /\ lock = Nobody
    /\ lock' = t
    /\ caller' = [caller EXCEPT ![t] = "locked"]
    /\ UNCHANGED <<container, built, resets, overtaken>>

\* Mutant: no second check under the lock.
SecondCheckLeftOut(t) ==
    /\ caller[t] = "locked"
    /\ caller' = [caller EXCEPT ![t] = "constructs"]
    /\ UNCHANGED <<container, lock, built, resets, overtaken>>

\* The check under the lock.
SecondCheck(t) ==
    /\ caller[t] = "locked"
    /\ IF container = 0
       THEN caller' = [caller EXCEPT ![t] = "constructs"] /\ UNCHANGED lock
       ELSE caller' = [caller EXCEPT ![t] = "return"] /\ lock' = Nobody
    /\ UNCHANGED <<container, built, resets, overtaken>>

\* Container() has wired its object graph: the global is set, and the lock is free.
Construct(t) ==
    /\ caller[t] = "constructs"
    /\ built' = built + 1
    /\ container' = built + 1
    /\ lock' = Nobody
    /\ caller' = [caller EXCEPT ![t] = "return"]
    /\ UNCHANGED <<resets, overtaken>>

\* The global is read once more, and returned.
Return(t) ==
    /\ caller[t] = "return"
    /\ caller' = [caller EXCEPT ![t] = "out"]
    /\ overtaken' = overtaken \ {t}
    /\ UNCHANGED <<container, lock, built, resets>>

ResetContainer ==
    /\ resets < MaxResets
    /\ lock = Nobody
    /\ container' = 0
    /\ resets' = resets + 1
    /\ overtaken' = overtaken \cup {t \in Callers : caller[t] = "return"}
    /\ UNCHANGED <<lock, caller, built>>

-----------------------------------------------------------------------------

\* container.py: "Constructs and wires the object graph exactly once per process",
\* however many threads find it missing at the same time; once more after a reset.
BuiltOnce == built <= 1 + resets

\* get_container returns None only if a reset came between the check, or the
\* construction, with which this very call found the container there, and its return:
\* neither the resets before it nor the threads beside it, constructing or resetting
\* or waiting for the lock, make it return None.
NoneOnlyByReset ==
    \A t \in Callers : caller[t] = "return" /\ container = 0 => t \in overtaken
=============================================================================
