-------------------------------- MODULE Gateway --------------------------------
(***************************************************************************)
(* The life of a request: the handlers of routes/messages.py and           *)
(* routes/chat.py around the admission gate, the rate limiter and the      *)
(* upstream client.  Both routes take the same steps; a task serves either *)
(* streaming or other requests.  The gate is the whole of                  *)
(* AdmissionControl, whose "running" body is what is detailed here.  The   *)
(* limiter is seen as a sleep, the upstream as its outcomes (UpstreamCall) *)
(* and the stream as a beginning and an end (StreamConverter).             *)
(*                                                                         *)
(* A task can be cancelled wherever it is suspended.  A handler that uses  *)
(* "async with" leaves the slot at once.  A streaming handler entered the  *)
(* slot by hand: where no except or finally clause of its own runs, the    *)
(* slot is left only when the event loop finalizes the abandoned generator *)
(* of slot() (stage "orphaned").                                           *)
(***************************************************************************)
EXTENDS Integers, FiniteSets

CONSTANTS
    Tasks, Clients, Client, Global, MaxConcurrent, MaxPerClient, MaxWaiting,
    Streaming,      \* the tasks that serve streaming requests
    MaxAttempts     \* RetryConfig.max_attempts

ASSUME GateAssumption ==
    /\ IsFiniteSet(Tasks) /\ Client \in [Tasks -> Clients] /\ Global \notin Clients
    /\ MaxConcurrent \in Nat \ {0} /\ MaxPerClient \in Nat \ {0} /\ MaxWaiting \in Nat
ASSUME StreamingAssumption == Streaming \subseteq Tasks
ASSUME AttemptsAssumption == MaxAttempts \in Nat \ {0}

VARIABLES pc, fut, value, queue, clientSems, waiting
gate == <<pc, fut, value, queue, clientSems, waiting>>

Gate == INSTANCE AdmissionControl

VARIABLES
    stage,          \* where in the body of slot() each task is
    attempts,       \* upstream calls made by the request
    reply           \* what its client has seen

vars == <<gate, stage, attempts, reply>>

Stages == {"none", "limiter", "calling", "backoff", "committed", "streaming", "orphaned"}
Replies == {"none", "overloaded", "error", "answer", "open", "complete", "broken", "cut"}
-----------------------------------------------------------------------------
Init ==
    /\ Gate!Init
    /\ stage = [t \in Tasks |-> "none"]
    /\ attempts = [t \in Tasks |-> 0]
    /\ reply = [t \in Tasks |-> "none"]

Goto(t, s) == stage' = [stage EXCEPT ![t] = s]
Call(t) == Goto(t, "calling") /\ attempts' = [attempts EXCEPT ![t] = @ + 1]
Reply(t, r) == reply' = [reply EXCEPT ![t] = r]

(* A task that got into the slot goes on to the limiter, which may put it  *)
(* to sleep, and to the first call.                                        *)
GoOn(t) ==
    IF pc'[t] = "running" THEN Call(t) \/ (Goto(t, "limiter") /\ UNCHANGED attempts)
    ELSE UNCHANGED <<stage, attempts>>

(* The request ends and so does the slot. *)
Leave(t, r) ==
    /\ Gate!Exit(t)
    /\ Goto(t, "none")
    /\ attempts' = [attempts EXCEPT ![t] = 0]
    /\ Reply(t, r)

Arrive(t) == Gate!Enter(t) /\ GoOn(t) /\ Reply(t, "none")

Overloaded(t) == Gate!Reject(t) /\ Reply(t, "overloaded") /\ UNCHANGED <<stage, attempts>>

Resume(t) == Gate!Resume(t) /\ GoOn(t) /\ UNCHANGED reply

LimiterWakes(t) == stage[t] = "limiter" /\ Call(t) /\ UNCHANGED <<gate, reply>>

(* tenacity's loop; for a streaming request it ends with the first chunk. *)
AttemptFails(t) ==
    /\ stage[t] = "calling"
    /\ attempts[t] < MaxAttempts
    /\ Goto(t, "backoff")
    /\ UNCHANGED <<gate, attempts, reply>>

(* Mistake: an attempt is not counted. *)
RetryUncounted(t) ==
    stage[t] = "backoff" /\ Goto(t, "calling") /\ UNCHANGED <<gate, attempts, reply>>

Retry(t) == stage[t] = "backoff" /\ Call(t) /\ UNCHANGED <<gate, reply>>

(* Mistake: an error reply without leaving the slot. *)
GiveUpLeaks(t) ==
    /\ stage[t] = "calling"
    /\ Goto(t, "none")
    /\ attempts' = [attempts EXCEPT ![t] = 0]
    /\ Reply(t, "error")
    /\ UNCHANGED gate

(* An error that is not retried, or the last attempt: an error status. *)
GiveUp(t) == stage[t] = "calling" /\ Leave(t, "error")

Answer(t) == stage[t] = "calling" /\ t \notin Streaming /\ Leave(t, "answer")

(* Mistake: the slot is left when the handler returns its response. *)
CommitLeaves(t) ==
    /\ stage[t] = "calling" /\ t \in Streaming
    /\ Gate!Exit(t)
    /\ Goto(t, "committed")
    /\ UNCHANGED <<attempts, reply>>

(* The first chunk has come, or the stream is empty: the handler returns a *)
(* StreamingResponse over event_gen().                                     *)
Commit(t) ==
    /\ stage[t] = "calling" /\ t \in Streaming
    /\ Goto(t, "committed")
    /\ UNCHANGED <<gate, attempts, reply>>

(* The server sends the head of the response and iterates event_gen(). *)
Open(t) ==
    /\ stage[t] = "committed"
    /\ Goto(t, "streaming")
    /\ Reply(t, "open")
    /\ UNCHANGED <<gate, attempts>>

(* Mistake: a stream that breaks off is retried. *)
StreamEndsOrRetries(t) ==
    /\ stage[t] = "streaming"
    /\ \/ \E r \in {"complete", "broken"} : Leave(t, r)
       \/ attempts[t] < MaxAttempts /\ Call(t) /\ UNCHANGED <<gate, reply>>

(* The stream is flushed, or broken off with an error event; finally. *)
StreamEnds(t) == stage[t] = "streaming" /\ \E r \in {"complete", "broken"} : Leave(t, r)

(* Cancellation while in slot() itself, and its unwinding. *)
CancelWait(t) == Gate!Cancel(t) /\ UNCHANGED <<stage, attempts, reply>>
Unwind(t) == Gate!Unwind(t) /\ Reply(t, "cut") /\ UNCHANGED <<stage, attempts>>

(* Cancellation in the body: "async with" or event_gen() leaves the slot.  *)
CancelLeaves(t) ==
    /\ \/ t \notin Streaming /\ stage[t] \in {"limiter", "calling", "backoff"}
       \/ stage[t] = "streaming"
    /\ Leave(t, "cut")

(* Mistake: the slot is left, and left again by the finalizer. *)
CancelLeavesTwice(t) ==
    /\ t \in Streaming
    /\ stage[t] \in {"limiter", "calling", "backoff", "committed", "streaming"}
    /\ Gate!Exit(t)
    /\ Goto(t, "orphaned")
    /\ Reply(t, "cut")
    /\ UNCHANGED attempts

(* CancelledError is no AnthropicError, nor any Exception, and an          *)
(* event_gen() that never started or is abandoned at a yield runs no       *)
(* finally clause.                                                         *)
CancelOrphans(t) ==
    /\ t \in Streaming
    /\ stage[t] \in {"limiter", "calling", "backoff", "committed", "streaming"}
    /\ Goto(t, "orphaned")
    /\ Reply(t, "cut")
    /\ UNCHANGED <<gate, attempts>>

(* The event loop's finalizer hook closes the abandoned generator. *)
Finalize(t) == stage[t] = "orphaned" /\ Leave(t, "cut")

Next == \E t \in Tasks :
    \/ Arrive(t) \/ Overloaded(t) \/ Resume(t) \/ CancelWait(t) \/ Unwind(t)
    \/ LimiterWakes(t) \/ AttemptFails(t) \/ Retry(t) \/ GiveUp(t) \/ Answer(t)
    \/ Commit(t) \/ Open(t) \/ StreamEnds(t)
    \/ CancelLeaves(t) \/ CancelOrphans(t) \/ Finalize(t)

(* Every ready task runs, sleeps end, the upstream answers or times out,   *)
(* the server iterates a response it got, a stream ends, and an abandoned  *)
(* generator is finalized.                                                 *)
Progress(t) ==
    \/ Resume(t) \/ Unwind(t) \/ LimiterWakes(t) \/ AttemptFails(t) \/ Retry(t)
    \/ GiveUp(t) \/ Answer(t) \/ Commit(t) \/ Open(t) \/ StreamEnds(t) \/ Finalize(t)
Fairness == \A t \in Tasks : WF_vars(Progress(t))

Spec == Init /\ [][Next]_vars
FairSpec == Spec /\ Fairness
-----------------------------------------------------------------------------
(* Properties *)

(* A task has a stage exactly while it holds a slot. *)
TypeOK ==
    /\ Gate!TypeOK
    /\ stage \in [Tasks -> Stages]
    /\ attempts \in [Tasks -> 0..MaxAttempts]
    /\ reply \in [Tasks -> Replies]
    /\ \A t \in Tasks : stage[t] # "none" <=> pc[t] = "running"

(* The load on the upstream is bounded (concurrency.py:1-18): the calls    *)
(* and streams under way, of all routes together and of each client.       *)
AtUpstream(S) == {t \in S : stage[t] \in {"calling", "committed", "streaming"}}
UpstreamLoad ==
    /\ Cardinality(AtUpstream(Tasks)) <= MaxConcurrent
    /\ \A c \in Clients :
          Cardinality(AtUpstream({t \in Tasks : Client[t] = c})) <= MaxPerClient

(* "No SSE emitted yet, so we can retry safely" (messages.py:139): no      *)
(* upstream call is made for a request whose client has seen a reply.      *)
RetriesAreInvisible ==
    [][\A t \in Tasks : attempts'[t] > attempts[t] => reply'[t] = "none"]_vars

(* The routes use the gate as it is meant to be used, and give it what its *)
(* liveness rests on: every body ends, cancelled or not.                   *)
UsesGateFairly == Gate!FairSpec

(* Every request ends: its client gets a reply and its slot is free.       *)
EveryRequestEnds == \A t \in Tasks :
    (pc[t] \in {"clientWait", "globalWait", "running"}) ~>
        (pc[t] \in {"idle", "rejected"} /\ reply[t] \notin {"none", "open"})

=============================================================================
