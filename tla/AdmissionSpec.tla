----------------------------- MODULE AdmissionSpec -----------------------------
(***************************************************************************)
(* What the admission gate promises its callers (concurrency.py:1-18),     *)
(* without semaphores, futures or cancellation protocol: three bounds, a   *)
(* refusal only when the waiting room is full, and a start only when both  *)
(* bounds leave room.                                                      *)
(***************************************************************************)
EXTENDS Integers, FiniteSets

CONSTANTS Tasks, Clients, Client, MaxConcurrent, MaxPerClient, MaxWaiting

VARIABLE state      \* what each task knows about its own call of slot()

In(s) == {t \in Tasks : state[t] = s}
InOf(s, c) == {t \in In(s) : Client[t] = c}

MayWait == Cardinality(In("waiting")) < MaxWaiting
MayRun(t) ==
    /\ Cardinality(In("running")) < MaxConcurrent
    /\ Cardinality(InOf("running", Client[t])) < MaxPerClient

Init == state = [t \in Tasks |-> "outside"]

Outside(t) == state[t] \in {"outside", "refused"}

Refuse(t) == Outside(t) /\ ~MayWait /\ state' = [state EXCEPT ![t] = "refused"]

(* A newcomer needs a place in the room even when it can start at once. *)
Wait(t) == Outside(t) /\ MayWait /\ state' = [state EXCEPT ![t] = "waiting"]
StartAtOnce(t) ==
    Outside(t) /\ MayWait /\ MayRun(t) /\ state' = [state EXCEPT ![t] = "running"]

Start(t) == state[t] = "waiting" /\ MayRun(t) /\ state' = [state EXCEPT ![t] = "running"]
GiveUp(t) == state[t] = "waiting" /\ state' = [state EXCEPT ![t] = "outside"]
Finish(t) == state[t] = "running" /\ state' = [state EXCEPT ![t] = "outside"]

Next == \E t \in Tasks :
    Refuse(t) \/ Wait(t) \/ StartAtOnce(t) \/ Start(t) \/ GiveUp(t) \/ Finish(t)

Spec == Init /\ [][Next]_state

=============================================================================
