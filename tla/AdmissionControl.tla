--------------------------- MODULE AdmissionControl ---------------------------
(***************************************************************************)
(* control/concurrency.py: the admission gate in front of every upstream   *)
(* call.  A task reserves a place in the waiting room, takes a permit of   *)
(* its client's semaphore, then one of the global semaphore, runs its body *)
(* and gives the permits back.  The event loop is single-threaded: a step  *)
(* of this specification is the code a task executes between two           *)
(* suspensions.  The two asyncio locks of the class protect sections that  *)
(* never suspend, so no task ever waits for them and they need no state.   *)
(*                                                                         *)
(* asyncio.Semaphore (CPython 3.12) is not part of the repository; it is   *)
(* modelled here because everything the gate promises depends on it.  A    *)
(* suspended acquire is a future in the semaphore's FIFO queue.  A release *)
(* hands the permit to the first unfinished future, and its task runs      *)
(* later: in between, newcomers, other releases and cancellations happen.  *)
(***************************************************************************)
EXTENDS Integers, FiniteSets, SequencesExt

CONSTANTS
    Tasks,          \* request-handling tasks; a task may make call after call
    Clients,        \* client identifiers
    Client,         \* the client each task works for
    Global,         \* the name of the global semaphore
    MaxConcurrent,
    MaxPerClient,
    MaxWaiting

ASSUME TasksAssumption == IsFiniteSet(Tasks)
ASSUME ClientAssumption == Client \in [Tasks -> Clients] /\ Global \notin Clients
ASSUME LimitsAssumption ==
    /\ MaxConcurrent \in Nat \ {0}
    /\ MaxPerClient \in Nat \ {0}
    /\ MaxWaiting \in Nat

Sems == Clients \union {Global}

VARIABLES
    pc,             \* where each task is in slot()
    fut,            \* the state of the future a suspended task awaits
    value,          \* Semaphore._value
    queue,          \* Semaphore._waiters
    clientSems,     \* the keys of _client_sems
    waiting         \* _waiting

vars == <<pc, fut, value, queue, clientSems, waiting>>

-----------------------------------------------------------------------------
(* "revoked": the future was granted, then its task was cancelled before it *)
(* ran; the grant must be handed on.                                        *)
FutStates == {"none", "pending", "granted", "cancelled", "revoked"}
Suspended == {"clientWait", "globalWait"}
PCs == {"idle", "rejected", "running"} \union Suspended

Capacity(s) == IF s = Global THEN MaxConcurrent ELSE MaxPerClient

(* The semaphore a suspended task queues for. *)
Awaited(t) == IF pc[t] = "globalWait" THEN Global ELSE Client[t]

-----------------------------------------------------------------------------
(* asyncio.Semaphore *)

Locked(s) == value[s] = 0 \/ \E t \in Range(queue[s]) : fut[t] # "cancelled"

Without(q, t) == RemoveAt(q, CHOOSE i \in DOMAIN q : q[i] = t)

Unfinished == {t \in Tasks : fut[t] = "pending"}
Pending(q) == {t \in Range(q) : fut[t] = "pending"}

(* Mistakes: no future is woken; any unfinished future is. *)
WakesUpNobody(W, q, n) == W = {}
WakesUpAnyone(W, q, n) ==
    /\ W \subseteq Pending(q)
    /\ Cardinality(W) <= n
    /\ W # Pending(q) => Cardinality(W) = n

(* W is the set of the first n unfinished futures of q, or of all of them  *)
(* when there are fewer: what n calls of _wake_up_next() grant.            *)
WakesUp(W, q, n) ==
    /\ W \subseteq Pending(q)
    /\ Cardinality(W) <= n
    /\ W # Pending(q) => Cardinality(W) = n
    /\ \A i, j \in DOMAIN q :
          i < j /\ q[j] \in W /\ q[i] \in Pending(q) => q[i] \in W

(* The futures after task t stops awaiting and the tasks in W are granted. *)
Grant(W, t, f) ==
    [u \in Tasks |-> IF u = t THEN f ELSE IF u \in W THEN "granted" ELSE fut[u]]

-----------------------------------------------------------------------------
Init ==
    /\ pc = [t \in Tasks |-> "idle"]
    /\ fut = [t \in Tasks |-> "none"]
    /\ value = [s \in Sems |-> Capacity(s)]
    /\ queue = [s \in Sems |-> <<>>]
    /\ clientSems = {}
    /\ waiting = 0

(* The waiting room is full: OverloadedError. *)
Reject(t) ==
    /\ pc[t] \in {"idle", "rejected"}
    /\ waiting >= MaxWaiting
    /\ pc' = [pc EXCEPT ![t] = "rejected"]
    /\ UNCHANGED <<fut, value, queue, clientSems, waiting>>

(* The room has a place and _get_or_create_client_sem() returns the one    *)
(* semaphore of the client.                                                *)
Reserve(t) ==
    /\ pc[t] \in {"idle", "rejected"}
    /\ waiting < MaxWaiting
    /\ clientSems' = clientSems \union {Client[t]}

(* Semaphore of the client: a fresh one when the client was never seen. *)
ClientValue(c) == IF c \in clientSems THEN value[c] ELSE MaxPerClient

(* client_sem.acquire() suspends. *)
EnterClientWait(t) ==
    /\ Reserve(t)
    /\ Locked(Client[t])
    /\ waiting' = waiting + 1
    /\ pc' = [pc EXCEPT ![t] = "clientWait"]
    /\ fut' = [fut EXCEPT ![t] = "pending"]
    /\ queue' = [queue EXCEPT ![Client[t]] = Append(@, t)]
    /\ UNCHANGED value

(* The client's permit is free, global_sem.acquire() suspends. *)
EnterGlobalWait(t) ==
    /\ Reserve(t)
    /\ ~Locked(Client[t])
    /\ Locked(Global)
    /\ waiting' = waiting + 1
    /\ pc' = [pc EXCEPT ![t] = "globalWait"]
    /\ fut' = [fut EXCEPT ![t] = "pending"]
    /\ value' = [value EXCEPT ![Client[t]] = ClientValue(Client[t]) - 1]
    /\ queue' = [queue EXCEPT ![Global] = Append(@, t)]

(* Both permits are free: the waiting count goes up and down in one run. *)
EnterRunning(t) ==
    /\ Reserve(t)
    /\ ~Locked(Client[t])
    /\ ~Locked(Global)
    /\ pc' = [pc EXCEPT ![t] = "running"]
    /\ value' = [value EXCEPT ![Client[t]] = ClientValue(Client[t]) - 1,
                              ![Global] = @ - 1]
    /\ UNCHANGED <<fut, queue, waiting>>

(* A task whose client permit was granted runs again: it leaves the queue, *)
(* wakes whom the remaining value allows (W), and goes on to the global    *)
(* semaphore, which suspends it or not.                                    *)
ResumeToGlobalWait(t) ==
    /\ pc[t] = "clientWait" /\ fut[t] = "granted"
    /\ Locked(Global)
    /\ \E W \in SUBSET Unfinished :
          /\ WakesUp(W, Without(queue[Client[t]], t), value[Client[t]])
          /\ value' = [value EXCEPT ![Client[t]] = @ - Cardinality(W)]
          /\ fut' = Grant(W, t, "pending")
    /\ queue' = [queue EXCEPT ![Client[t]] = Without(@, t), ![Global] = Append(@, t)]
    /\ pc' = [pc EXCEPT ![t] = "globalWait"]
    /\ UNCHANGED <<clientSems, waiting>>

ResumeToRunning(t) ==
    /\ pc[t] = "clientWait" /\ fut[t] = "granted"
    /\ ~Locked(Global)
    /\ \E W \in SUBSET Unfinished :
          /\ WakesUp(W, Without(queue[Client[t]], t), value[Client[t]])
          /\ value' = [value EXCEPT ![Client[t]] = @ - Cardinality(W), ![Global] = @ - 1]
          /\ fut' = Grant(W, t, "none")
    /\ queue' = [queue EXCEPT ![Client[t]] = Without(@, t)]
    /\ pc' = [pc EXCEPT ![t] = "running"]
    /\ waiting' = waiting - 1
    /\ UNCHANGED clientSems

(* A task whose global permit was granted runs again. *)
ResumeGlobal(t) ==
    /\ pc[t] = "globalWait" /\ fut[t] = "granted"
    /\ \E W \in SUBSET Unfinished :
          /\ WakesUp(W, Without(queue[Global], t), value[Global])
          /\ value' = [value EXCEPT ![Global] = @ - Cardinality(W)]
          /\ fut' = Grant(W, t, "none")
    /\ queue' = [queue EXCEPT ![Global] = Without(@, t)]
    /\ pc' = [pc EXCEPT ![t] = "running"]
    /\ waiting' = waiting - 1
    /\ UNCHANGED clientSems

(* Task.cancel() on a suspended task, before or after its grant.  The task *)
(* itself runs later (Unwind...).                                          *)
Cancel(t) ==
    /\ pc[t] \in Suspended
    /\ fut[t] \in {"pending", "granted"}
    /\ fut' = [fut EXCEPT ![t] = IF @ = "pending" THEN "cancelled" ELSE "revoked"]
    /\ UNCHANGED <<pc, value, queue, clientSems, waiting>>

(* Mistake: a permit is given back that was never granted. *)
ReturnedAlways(t) == 1

(* The permit a cancelled acquire() has to give back before it wakes others. *)
Returned(t) == IF fut[t] = "revoked" THEN 1 ELSE 0

(* CancelledError leaves client_sem.acquire() and slot(). *)
UnwindClient(t) ==
    /\ pc[t] = "clientWait" /\ fut[t] \in {"cancelled", "revoked"}
    /\ \E W \in SUBSET Unfinished :
          /\ WakesUp(W, Without(queue[Client[t]], t), value[Client[t]] + Returned(t))
          /\ value' = [value EXCEPT ![Client[t]] = @ + Returned(t) - Cardinality(W)]
          /\ fut' = Grant(W, t, "none")
    /\ queue' = [queue EXCEPT ![Client[t]] = Without(@, t)]
    /\ pc' = [pc EXCEPT ![t] = "idle"]
    /\ waiting' = waiting - 1
    /\ UNCHANGED clientSems

(* Mistake: a task cancelled at the global semaphore keeps the permit of   *)
(* its client.                                                             *)
UnwindGlobalLeaks(t) ==
    /\ pc[t] = "globalWait" /\ fut[t] \in {"cancelled", "revoked"}
    /\ \E W \in SUBSET Unfinished :
          /\ WakesUp(W, Without(queue[Global], t), value[Global] + Returned(t))
          /\ value' = [value EXCEPT ![Global] = @ + Returned(t) - Cardinality(W)]
          /\ fut' = Grant(W, t, "none")
    /\ queue' = [queue EXCEPT ![Global] = Without(@, t)]
    /\ pc' = [pc EXCEPT ![t] = "idle"]
    /\ waiting' = waiting - 1
    /\ UNCHANGED clientSems

(* CancelledError leaves global_sem.acquire(); slot() then releases the    *)
(* client permit, which wakes at most one task (V).                        *)
UnwindGlobal(t) ==
    /\ pc[t] = "globalWait" /\ fut[t] \in {"cancelled", "revoked"}
    /\ \E W \in SUBSET Unfinished, V \in SUBSET Unfinished :
          /\ WakesUp(W, Without(queue[Global], t), value[Global] + Returned(t))
          /\ WakesUp(V, queue[Client[t]], 1)
          /\ value' = [value EXCEPT ![Global] = @ + Returned(t) - Cardinality(W),
                                    ![Client[t]] = @ + 1 - Cardinality(V)]
          /\ fut' = Grant(W \union V, t, "none")
    /\ queue' = [queue EXCEPT ![Global] = Without(@, t)]
    /\ pc' = [pc EXCEPT ![t] = "idle"]
    /\ waiting' = waiting - 1
    /\ UNCHANGED clientSems

(* Mistake: the place in the waiting room, left before, is left again. *)
ExitLeavesRoomAgain(t) ==
    /\ pc[t] = "running"
    /\ \E W \in SUBSET Unfinished, V \in SUBSET Unfinished :
          /\ WakesUp(W, queue[Global], 1)
          /\ WakesUp(V, queue[Client[t]], 1)
          /\ value' = [value EXCEPT ![Global] = @ + 1 - Cardinality(W),
                                    ![Client[t]] = @ + 1 - Cardinality(V)]
          /\ fut' = Grant(W \union V, t, "none")
    /\ pc' = [pc EXCEPT ![t] = "idle"]
    /\ waiting' = waiting - 1
    /\ UNCHANGED <<queue, clientSems>>

(* The body ends, normally, with an exception or by cancellation: both     *)
(* permits are released.                                                   *)
Exit(t) ==
    /\ pc[t] = "running"
    /\ \E W \in SUBSET Unfinished, V \in SUBSET Unfinished :
          /\ WakesUp(W, queue[Global], 1)
          /\ WakesUp(V, queue[Client[t]], 1)
          /\ value' = [value EXCEPT ![Global] = @ + 1 - Cardinality(W),
                                    ![Client[t]] = @ + 1 - Cardinality(V)]
          /\ fut' = Grant(W \union V, t, "none")
    /\ pc' = [pc EXCEPT ![t] = "idle"]
    /\ UNCHANGED <<queue, clientSems, waiting>>

Enter(t) == EnterClientWait(t) \/ EnterGlobalWait(t) \/ EnterRunning(t)
Resume(t) == ResumeToGlobalWait(t) \/ ResumeToRunning(t) \/ ResumeGlobal(t)
Unwind(t) == UnwindClient(t) \/ UnwindGlobal(t)

Next == \E t \in Tasks :
    Reject(t) \/ Enter(t) \/ Resume(t) \/ Cancel(t) \/ Unwind(t) \/ Exit(t)

(* The event loop runs every ready task, and a body ends: every upstream   *)
(* call has a timeout.                                                     *)
Fairness == \A t \in Tasks : WF_vars(Resume(t)) /\ WF_vars(Unwind(t)) /\ WF_vars(Exit(t))

Spec == Init /\ [][Next]_vars
FairSpec == Spec /\ Fairness

-----------------------------------------------------------------------------
(* Properties *)

TypeOK ==
    /\ pc \in [Tasks -> PCs]
    /\ fut \in [Tasks -> FutStates]
    /\ value \in [Sems -> Nat]
    /\ queue \in [Sems -> Seq(Tasks)]
    /\ clientSems \in SUBSET Clients
    /\ waiting \in Nat

Running == {t \in Tasks : pc[t] = "running"}
Waiters == {t \in Tasks : pc[t] \in Suspended}
Of(S, c) == {t \in S : Client[t] = c}

(* A task owns a permit of s when acquire() has returned and, before that, *)
(* from the moment the permit is granted to its future.                    *)
Owns(t, s) ==
    \/ pc[t] = "running" /\ s \in {Client[t], Global}
    \/ pc[t] = "globalWait" /\ s = Client[t]
    \/ pc[t] \in Suspended /\ s = Awaited(t) /\ fut[t] \in {"granted", "revoked"}

Owners(s) == {t \in Tasks : Owns(t, s)}

(* The bounds of the docstring (concurrency.py:8-11): the running tasks    *)
(* overall and per client, the waiting ones, and their sum.                *)
Bounds ==
    /\ Cardinality(Running) <= MaxConcurrent
    /\ \A c \in Clients : Cardinality(Of(Running, c)) <= MaxPerClient
    /\ Cardinality(Waiters) <= MaxWaiting
    /\ Cardinality(Running \union Waiters) <= MaxConcurrent + MaxWaiting

(* The counter that decides on rejection is exactly the number of tasks    *)
(* suspended in slot(), whatever was cancelled when.                       *)
WaitingIsExact == waiting = Cardinality(Waiters)

(* No permit leaks and none is invented: the permits of each semaphore     *)
(* are free or have one owner each.                                        *)
PermitsConserved == \A s \in Sems : value[s] + Cardinality(Owners(s)) = Capacity(s)

(* A future sits in exactly the queue its task waits on, once.             *)
QueuesMatch == \A s \in Sems :
    /\ IsInjective(queue[s])
    /\ Range(queue[s]) = {t \in Waiters : Awaited(t) = s}

(* No lost wake-up: a free permit never coexists with an unfinished future *)
(* unless a task of the same queue is about to run and will pass it on.    *)
NoLostWakeup == \A s \in Sems :
    value[s] > 0 /\ Pending(queue[s]) # {} => Range(queue[s]) # Pending(queue[s])

(* First come, first served at each semaphore: while w waits, no task gets *)
(* a permit that was not queued before it, not even a newcomer that finds  *)
(* the value positive.                                                     *)
NoOvertaking == [][
    \A s \in Sems : \A i \in DOMAIN queue[s] :
        LET w == queue[s][i]
        IN  fut[w] = "pending" /\ fut'[w] = "pending" /\ w \in Range(queue'[s]) =>
              \A u \in Owners(s)' \ Owners(s) :
                 \E j \in 1..(i - 1) : queue[s][j] = u]_vars

(* What a task knows about its own call: suspended anywhere is "waiting". *)
Seen(p) ==
    CASE p = "idle"        -> "outside"
      [] p = "rejected"    -> "refused"
      [] p \in Suspended   -> "waiting"
      [] p = "running"     -> "running"
CallState == [t \in Tasks |-> Seen(pc[t])]

(* The gate implements its promise (concurrency.py:1-18). *)
Promise == INSTANCE AdmissionSpec WITH state <- CallState
ImplementsPromise == Promise!Spec

(* Every task that got into the waiting room runs or is cancelled. *)
EveryWaiterIsServed == \A t \in Tasks :
    (pc[t] \in Suspended /\ fut[t] = "pending") ~>
        (pc[t] = "running" \/ fut[t] \in {"cancelled", "revoked"})

=============================================================================
