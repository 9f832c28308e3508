------------------------------ MODULE UpstreamCall ------------------------------
(***************************************************************************)
(* One request to the upstream: upstream/client.py (chat, chat_stream and  *)
(* the normalisation of the upstream's error formats), control/retry.py    *)
(* around it, and the status the routes answer with.  For a streaming      *)
(* request this is the part before the first chunk, which is all that is   *)
(* retried (messages.py:138-170, chat.py:122-161).                         *)
(*                                                                         *)
(* An HTTP response is abstracted to what the code looks at: the status,   *)
(* the shape of the body, the code a body carries (0 for none or zero, the *)
(* code tells them apart nowhere) and the status its message hints at.     *)
(***************************************************************************)
EXTENDS Integers

CONSTANTS
    Responses,      \* the responses the upstream may give
    MaxAttempts     \* RetryConfig.max_attempts

(* error, errorText: {"error": {...}} and {"error": "..."}; codeMsg: an    *)
(* integer code and a msg; detail, detailText: {"detail": ...}; opaque: an *)
(* "error" or "detail" that says nothing; chat: a chat completion or a     *)
(* chunk; object: any other JSON object; text: no JSON.  JSON values that  *)
(* are not objects are left out.                                           *)
ErrorShapes == {"error", "errorText", "codeMsg", "detail", "detailText", "opaque"}
Shapes == ErrorShapes \union {"chat", "object", "text"}

(* framed: the body of a streaming response is made of "data:" lines. *)
ASSUME ResponsesAssumption == Responses \subseteq
    [status : Nat, shape : Shapes, code : Nat, hint : {0, 401, 403, 429}, framed : BOOLEAN]
ASSUME AttemptsAssumption == MaxAttempts \in Nat \ {0}

(* What may come back instead of a response.  "protocol" is an             *)
(* httpx.RemoteProtocolError, neither a NetworkError nor a timeout.        *)
Failures == {"network", "timeout", "protocol"}
-----------------------------------------------------------------------------
(* Error classes: the exception types of upstream/errors.py, by name. *)

TypedError(status) ==
    CASE status = 401 -> "auth"
      [] status = 403 -> "permission"
      [] status = 429 -> "rateLimit"
      [] status = 400 -> "badRequest"
      [] status \in 500..599 -> "server"
      [] OTHER -> "other"

LooksLikeError(r) == r.shape \in ErrorShapes

ErrorFromBody(r) ==
    TypedError(CASE r.shape \in {"error", "detail"} -> IF r.code # 0 THEN r.code ELSE r.hint
                 [] r.shape \in {"errorText", "detailText"} -> r.hint
                 [] r.shape = "codeMsg" -> r.code
                 [] r.shape = "opaque" -> 0)

ErrorFromStatus(r) == TypedError(r.status)

(* Mistakes: only the status is looked at; framed errors have no class. *)
ChatOnceByStatus(r) ==
    IF r.status >= 400 THEN ErrorFromStatus(r)
    ELSE IF r.shape = "text" THEN "other" ELSE "answer"
PeekFirstUntyped(r) ==
    CASE r.status >= 400 -> ErrorFromStatus(r)
      [] r.status < 400 /\ (~r.framed \/ r.shape = "text") -> "empty"
      [] r.status < 400 /\ r.framed /\ LooksLikeError(r) -> "other"
      [] r.status < 400 /\ r.framed /\ r.shape \in {"chat", "object"} -> "answer"

(* _chat_once(): the body is looked at before the status. *)
ChatOnce(r) ==
    CASE LooksLikeError(r) -> ErrorFromBody(r)
      [] ~LooksLikeError(r) /\ r.status >= 400 -> ErrorFromStatus(r)
      [] r.status < 400 /\ r.shape = "text" -> "other"
      [] r.status < 400 /\ r.shape = "object" -> "invalid"
      [] r.status < 400 /\ r.shape = "chat" -> "answer"

(* chat_stream() up to its first chunk: the status first; lines that are   *)
(* not frames and frames that are not JSON are skipped, down to the end.   *)
PeekFirst(r) ==
    CASE r.status >= 400 -> ErrorFromStatus(r)
      [] r.status < 400 /\ (~r.framed \/ r.shape = "text") -> "empty"
      [] r.status < 400 /\ r.framed /\ LooksLikeError(r) -> ErrorFromBody(r)
      [] r.status < 400 /\ r.framed /\ r.shape \in {"chat", "object"} -> "answer"

ErrorFromFailure(failure) == IF failure = "protocol" THEN "unexpected" ELSE "network"

(* Mistake: a rate limit is not retried. *)
RetryableFailures == {"server", "network"}

Retryable == {"rateLimit", "server", "network"}

(* The status a route answers with. *)
ReplyStatus(outcome) ==
    CASE outcome \in {"answer", "empty"} -> 200
      [] outcome = "auth" -> 401
      [] outcome = "permission" -> 403
      [] outcome = "rateLimit" -> 429
      [] outcome = "badRequest" -> 400
      [] outcome = "server" -> 502
      [] outcome = "network" -> 503
      [] outcome = "other" -> 502
      [] outcome \in {"invalid", "unexpected"} -> 500
-----------------------------------------------------------------------------
VARIABLES
    stream,         \* is it a streaming request?
    phase,          \* "calling", "backoff" or "done"
    attempts,       \* calls made, the one under way included
    received,       \* the response the last finished attempt got, if any
    outcome         \* the class of what it got

callVars == <<stream, phase, attempts, received, outcome>>

CallInit ==
    /\ stream \in BOOLEAN
    /\ phase = "calling"
    /\ attempts = 1
    /\ received = <<>>
    /\ outcome = "none"

(* tenacity: stop after max_attempts, retry the three classes, reraise. *)
Settle(result) ==
    /\ phase = "calling"
    /\ outcome' = result
    /\ phase' = IF result \in Retryable /\ attempts < MaxAttempts THEN "backoff" ELSE "done"
    /\ UNCHANGED <<stream, attempts>>

Respond(r) ==
    /\ received' = <<r>>
    /\ Settle(IF stream THEN PeekFirst(r) ELSE ChatOnce(r))

Fail(failure) == received' = <<>> /\ Settle(ErrorFromFailure(failure))

Retry ==
    /\ phase = "backoff"
    /\ phase' = "calling"
    /\ attempts' = attempts + 1
    /\ UNCHANGED <<stream, received, outcome>>

CallNext == Retry \/ (\E r \in Responses : Respond(r)) \/ (\E f \in Failures : Fail(f))

CallSpec == CallInit /\ [][CallNext]_callVars
-----------------------------------------------------------------------------
(* Properties *)

GotResponse == received # <<>>

(* "HTTP is always 200, the error is in the body" (README.md:172): no      *)
(* error, in whichever of its formats, is passed off as an answer, neither *)
(* by the streaming nor by the other path (client.py:84-102, 130-153).  An *)
(* unframed body that ends as an empty stream is no outcome "answer": that *)
(* one passes for a success is the subject of StreamErrorsAreSeen.         *)
NoErrorIsAnAnswer == phase = "done" /\ GotResponse /\ outcome = "answer" =>
    /\ received[1].status < 400
    /\ ~LooksLikeError(received[1])

(* The two paths judge an error that comes with HTTP 200 alike, though     *)
(* each has its own order of checks; only the body of a streaming response *)
(* that is not framed is not looked at.                                    *)
PathsAgree == GotResponse =>
    LET r == received[1]
    IN  r.status < 400 /\ r.framed /\ LooksLikeError(r) => PeekFirst(r) = ChatOnce(r)

(* Giving up is justified: a status that tells the client to come back     *)
(* (429, 503) is given only after every attempt was used (retry.py:7-10).  *)
GivesUpLate == phase = "done" /\ ReplyStatus(outcome) \in {429, 503} => attempts = MaxAttempts

(* "retry on: 429, 5xx, network errors" (retry.py:8). *)
RetryPolicy == phase = "done" /\ GotResponse /\ ~stream =>
    (received[1].status \in {429} \union 500..599 => attempts = MaxAttempts)

(* README.md:172 for a streaming request whose error body is not framed.   *)
StreamErrorsAreSeen == phase = "done" /\ GotResponse /\ stream /\ outcome = "empty" =>
    ~LooksLikeError(received[1])

=============================================================================
