# UnifiedAPI: specifications and proofs

UnifiedAPI is a gateway: clients speak the Anthropic Messages API (`/v1/messages`)
or OpenAI chat completions (`/v1/chat/completions`), one OpenAI-compatible
upstream answers.  The program is a single Python process on one asyncio event
loop.  This directory holds TLA+ modules that model it, TLC configurations that
check them on small instances, and TLAPS proofs.  Paths below are relative to
`src/src/unified_api/`, `tests/` is `src/tests/`.

Contents: [inventory](#1-inventory) · [modules](#2-modules) · [runs](#3-runs) ·
[proofs](#4-proofs) · [disagreements](#5-where-code-and-documentation-disagree) ·
[not modelled](#6-what-is-not-modelled) · [plan](#7-plan)

## 1. Inventory

| Part | Source | State it keeps | Operations | What makes it correct |
|---|---|---|---|---|
| Admission gate | `control/concurrency.py` | two levels of semaphores (one global, one per client), the semaphores by client, the count of the waiting room | `slot()` (enter, wait, run, leave) | never more running or waiting than configured; no permit lost or invented; a waiter is served, in order; a refusal only when the room is full |
| Rate limiter | `control/rate_limiter.py` | token buckets (balance, time of last refill), global and per client | `acquire()` | throughput within rate plus burst; sleepers wake one by one; newcomers do not pass them |
| Think splitter | `tools/think_splitter.py` | a buffer, inside `<think>` or not | `feed`, `flush`, one-shot `strip_think_complete` | independent of how the stream is cut; nothing sent has to be taken back |
| XML tool-call scanner | `tools/xml_parser.py` | a buffer, inside `<function_calls>` or not | `feed`, `flush`, one-shot `parse_complete` | the same, for text and tool calls in order |
| Messages stream conversion | `converters/stream.py`, `routes/messages.py` (`event_gen`) | open block, next index, finish reason, the two scanners, native calls | `feed`, `flush` | events form a legal Messages stream with exactly the content of the upstream |
| Chat stream conversion | `routes/chat.py` (`event_gen`, `_process_stream_chunk`) | scanner, tool index | one frame list per chunk, flush | one terminator, tools numbered, content exact |
| Upstream client and retry | `upstream/client.py`, `upstream/errors.py`, `control/retry.py` | the HTTP client; attempts of a call | `chat`, `chat_stream`, normalisation of error bodies, tenacity's loop | no error is taken for an answer; the temporary ones are retried, the others are not |
| Request handlers | `routes/messages.py`, `routes/chat.py` | the slot and the stage of each request | stream and non-stream paths | every way out leaves the slot once; nothing is retried after the client saw something |
| max_tokens budget | `converters/request.py` | none | `_compute_upstream_max_tokens` | input and output fit the context, nothing is withheld without need, the cap holds |
| Request conversion | `converters/request.py`, `tools/prompt_builder.py` | none | messages and tools flattened into prompts, tools also translated | the history replayed whole, in order and readable; tools in words and native ones agree; the size that is estimated is the size that is sent |
| Response conversion | `converters/response.py` | none | one-shot conversion of a completion | the message a stream of the same answer makes |
| Chat history, one-shot tool post-processing | `routes/chat.py:245-405` | none | tool prompt injection, normalisation, post-processing | the same history; the message the chat stream makes |
| Configuration, key pool | `config.py` | settings; an `itertools.cycle` under a lock | load, `next_key` | round-robin |
| Application shell | `main.py`, `errors.py` | shared objects built by `lifespan` | authentication, wiring, logging | |

A request passes through them in this order: it is converted to what goes upstream;
the handler reserves a place in the
gate; holding the slot it sleeps in the limiter if it must; then it calls the
upstream, with retries, until the first chunk or the whole answer is there.  A
stream is then converted chunk by chunk as the server asks for more.  The slot is
left when the answer is complete, the stream ends, an error is returned, or the
request is cancelled.

**Where it is hard.**  All the concurrency is cooperative: code runs without
interruption from one `await` to the next, and between two of them any other
request may run, and the request itself may be cancelled (a client that
disconnects).  The critical cases are a cancellation between the two semaphores,
or between the grant of a permit and the moment its task runs; a streaming
handler that enters `slot()` by hand, so that a cancellation meets no `finally`;
balances that go negative and are refilled lazily; tags cut by chunk boundaries,
with one scanner feeding the other; the end of a stream in any of these states;
the upstream's habit of reporting errors in bodies with HTTP 200; and that
everything is done twice, once for streams and once for whole answers, by code that
shares little.
`PROJECT.json` lists these hazards line by line, with the properties aimed at
each, and says why a few have none.

## 2. Modules

| Module | Models | Uses |
|---|---|---|
| `AdmissionSpec` | what the gate promises: three bounds and when a call may be refused or started | |
| `AdmissionControl` | `slot()` on asyncio's semaphores; implements `AdmissionSpec` | |
| `VirtualSchedule` | what a rate limiter with bursts promises, as one clock per budget | |
| `RateLimiter` | both buckets and their sleeps; implements `VirtualSchedule` | |
| `TagText` | text in which a tag is two symbols | |
| `ThinkSplitter`, `XmlScanner` | the scanners, incremental and one-shot | `TagText` |
| `OneShotAnswers` | `convert_response` and `_postprocess_tool_calls` | the scanners |
| `ScannerStreams` | both scanners fed any text cut in any way | the scanners |
| `AnthropicStream` | a client that follows the Messages stream contract | |
| `StreamConverter` | `StreamConverter` and the loop that drives it, sending to that client | `OneShotAnswers`, `AnthropicStream` |
| `ChatStream` | the chat route's stream | `OneShotAnswers` |
| `UpstreamCall` | one upstream request with its retries and the status the client gets | |
| `Gateway` | the life of a request in both routes | `AdmissionControl` (instance) |
| `TokenBudget` | `_compute_upstream_max_tokens` | |
| `InvokeXml` | tool calls as XML: escaping, the strict parser and its fallback | |
| `PromptText` | the prompt fragments of `prompt_builder.py` and their sizes | `InvokeXml` |
| `ChatHistory` | what happens to the messages of a chat request | `PromptText` |
| `RequestConversion` | a request of either route on its way upstream; implements the budget's specification | `TokenBudget`, `ChatHistory` |
| `AdmissionProofs` | the gate: invariants, wake-ups, order, implementation of `AdmissionSpec` | `AdmissionControl` |
| `RateLimiterProofs` | the limiter: invariants, throughput, implementation of `VirtualSchedule` | `RateLimiter` |
| `GatewayProofs` | the handlers around the gate | `Gateway`, `AdmissionProofs` (instance) |
| `RequestProofs` | the budget, the prompts and the history of a request; one upstream call | `RequestConversion`, `UpstreamCall`, `ScannerProofs` and `FoldTheorems` (instances) |
| `FoldTheorems` | induction on numbers, folds and bounded loops, for any operator | |
| `ScannerProofs` | the scanners on texts of any length | `ScannerStreams`, `FoldTheorems` (instances) |
| `StreamProofs` | the Messages stream of any length | `StreamConverter`, `ScannerProofs` and `FoldTheorems` (instances) |
| `ChatProofs` | the chat stream of any length | `ChatStream`, `ScannerProofs` and `FoldTheorems` (instances) |
| `MCRoute` | a conversion and the call that sends it, one after the other | `MCRequests`, `MCUpstream` |
| other `MC*` | constants of the runs | |

Conventions.  A definition bears the name of the method or field it models.
An operator preceded by a comment *Mistake* is a wrong version of the definition
that follows it; nothing in the specifications uses it.  It is there to show that
a property tells the two apart (`"mutants"` in `PROJECT.json`).  Variables
marked *history* do not exist in the code.

### AdmissionControl

One action is what a task executes between two suspensions, so one run through
`slot()` is cut exactly where `Semaphore.acquire` awaits a future.  `Reserve` is
the check and increment of the waiting room and the look-up of the client's
semaphore; it then suspends at the client's semaphore (`EnterClientWait`), at the
global one (`EnterGlobalWait`) or nowhere (`EnterRunning`).  `Resume...` is a
task whose future was granted, `Cancel` is `Task.cancel()`, `Unwind...` the
cancelled task running through the `except` and `finally` clauses, and `Exit` the
end of the body.  The two `asyncio.Lock`s guard code without an `await`, so
nobody ever waits for them.

`asyncio.Semaphore` is not in the repository; it is modelled after CPython 3.12
(the version `src/README.md:21` asks for): a FIFO of futures, `locked()` also true
when an unfinished or granted future is queued, a release that hands the permit
to the first unfinished future, and a cancelled `acquire` that gives a granted
permit back and wakes the next.  `WakesUp(W, q, n)` describes the set of futures
that *n* hand-overs choose, instead of a loop.

### RateLimiter

`acquire()` of a bucket refills, subtracts a token even when there is none, and
sleeps outside the lock for the deficit.  A balance is an integer in units of
1/`Minute` of a token, so that the refill of *k* ticks, `k * Rpm` units, is exact;
the code's floats, and their rounding, are not modelled.  `asyncio.sleep` may wake
late and never wakes early.  A task that is not asleep may call again at once.
In the implementation of `VirtualSchedule` the clock of a bucket is the instant
at which its balance is zero.

### The scanners and the two streams

The scanners only distinguish tags, the invoke elements inside a block, and other
text.  A tag is therefore two symbols, which is the least that lets a chunk
boundary fall inside it; "hold back the last `len(tag) - 1` characters" becomes
`SafeLength`.  An invoke element is one symbol: its name and parameters do not influence
what surrounds it.  What does matter is who reads it and how often its argument is
decoded, and so there are four such symbols: `Invoke`, as the prompt asks for it;
`Escaped`, with the text of an entity for an argument; `Quoted`, with the name in single
quotes; and `Nested`, inside an element of its own.

`_parse_invokes_from_xml` has two parsers, and each is an operator: ElementTree
(`ParseInvokesStrictly`, on what `IsXml` describes) reads the invokes that are children of
the root, however they are quoted, and the argument is then decoded a second time; the
regular expression (`ParseInvokesRegex`) reads those with a name in double quotes,
whatever stands around them, and the argument is decoded once.  `parse_complete` passes
whole blocks, which ElementTree accepts if they are well-formed.  The scanner has cut off
the opening tag by the time it parses (`CutCalls`), so that ElementTree rejects its
blocks, except one that begins with a second opening tag, and all is left to the regular
expression.  The two therefore agree only on a `Plain` text: its invokes are written as
the prompt asks, and no think tag stands behind the first opening tag, where it would be an
element to ElementTree.  Where streaming is said to make no difference, that is a premise.

The code has `while` loops on a shrinking buffer.  Here they are
folds over `Passes`: a pass cuts off what ends with the next tag (`CutTag`, `CutCalls`)
or leaves everything as it is when there is none, which half as many passes as there
are symbols always reach (proved, `LoopEnds`), and then comes the last, different pass
(`EmitSafe`, `ScanSafe`).  `StripThink` and `ParseComplete` translate the one-shot
functions in the same way and serve as the reference.

`OneShotAnswers` holds what the two routes make of an answer that arrives in one
piece.  `StreamConverter` and `ChatStream` compare their streams with it
(`OneShotAgrees`), so both implementations of each route are in one specification.
White space is a symbol of its own (`Blank`), because the one-shot code strips
and drops blank text where the streams do not.

`StreamConverter` threads a record of the converter's fields through one operator
per method; what the methods yield is collected in `out` and received at once by
the client of `AnthropicStream`, which turns *illegal* at the first event out of
place.  A chunk whose `delta.tool_calls` is a list makes `feed()` raise (section
5), and the loop answers an exception with an error event.  `ChatStream` does
the same for the chat route's frames.

### UpstreamCall

A response is the five things the code looks at: HTTP status, shape of the body,
the code in it, the status its message hints at, and whether a streamed body
consists of `data:` lines.  `ChatOnce` and `PeekFirst` translate the two paths
with their different orders of checks, `Settle` and `Retry` tenacity's loop.

### Gateway

The variables of the gate are those of an instance of `AdmissionControl`; every
step of a request is a step of the gate conjoined with a step of `stage`,
`attempts` and `reply`, or leaves the gate alone.  A request that is cancelled in
its body leaves the slot at once where `async with` or the `finally` of a running
`event_gen` does it; otherwise it is *orphaned* until the event loop's hook for
abandoned asynchronous generators closes the generator of `slot()`.  The other
components appear by their outcomes: the limiter as a sleep or none, the upstream
as failure to retry, failure to report, or success, the stream as complete or
broken.

### RequestConversion

One action converts a request: `Refuse` and `ConvertRequest` are the two ways
`convert_request` ends, `PassOn` is the beginning of the chat handler.  A prompt is a
sequence of *parts* rather than characters (`PromptText`): a plain text is its length, a
block of calls keeps the calls as they are written, a tool prompt keeps its tools and
its hint.  That is enough to tell apart what can go wrong: a part that is lost, out of
order, in the wrong role or not counted, and a call that does not read back.  `Length`
counts a tag, a separator or a line of instructions as one character; the properties
about sizes compare sizes only.

`InvokeXml` models the argument of a call symbol by symbol.  Entities and tags inside
it are two symbols, so that `&` and `<` also occur alone and an argument may contain
the text of an entity.  `Replaced` is `str.replace`; `Escape` and `Decode` are the
chains of replacements in their order; `ParseBlock` is `_parse_invokes_from_xml` with
ElementTree's acceptance (`WellFormed`) and its result (`ElementText`), which ends at
the first child element, and with the regular expression when any argument of the
block is rejected.

`TokenBudget` is the computation of `max_tokens` as a specification of its own:
`Compute` takes the size of the input from anywhere.  `ConvertRequest` conjoins it with
the size `InputChars` computes, and `ComputesBudget` (section 4) says that this
implements it.

## 3. Runs

Each line of a run's configuration is in its `.cfg`; times are a few seconds to
about two minutes.

| Run | Instance | Shows |
|---|---|---|
| `Admission` | 3 tasks of client a, 2 of b; 2 permits overall and per client, room for 2 | the bounds, the exact count, conserved permits, no lost wake-up, no overtaking, refinement of `AdmissionSpec`, and that every waiter runs or is cancelled |
| `RateLimiter` | 2 + 1 tasks, 2 rpm, a minute of 3 ticks, 3 ticks, debts up to 2 tokens | throughput, distinct wake-up times, sleepers before newcomers, refinement of `VirtualSchedule` |
| `Scanners` | every text of up to 6 symbols over the tags of each scanner, cut in every way | the splitter agrees with its one-shot function; the scanner with itself on the uncut text and, where it is plain, with its one-shot function; neither yields too early or holds back a whole tag |
| `Stream` | streams of up to 4 of 18 chunks, one with an invoke that the parsers decode differently, with and without thinking | legal event sequences, exact thinking, never an empty answer; of plain content the exact text and tools, and the same message and stop reason as without streaming |
| `ChatStream` | streams of up to 5 of 12 chunks, one with an invoke that only ElementTree reads | one terminator, numbered tools; of plain content the exact text and tools, and the same message as without streaming |
| `Gateway` | 2 + 1 tasks, two of them streaming; 2 permits, 1 per client, room for 2; 2 attempts | load on the upstream, invisible retries, fair use of the gate, every request ends |
| `Route` | *conversion*: the profiles of `request.py:68-90` and two small ones with inputs around their boundaries; turns of up to 3 of 6 blocks; every argument of up to 3 of 7 symbols; tool lists × choices; chats of up to 3 of 15 messages. *Call*: 9 statuses × 41 bodies, framed or not, and 3 failures; 3 attempts | the budget's fit, floor and cap; the payload fits; both offers of the tools agree; the history is kept; no error is an answer, the paths agree, giving up is justified |
| `LostTextClaim` | texts of up to 5 symbols over the tags of tool calls, an invoke and other text | violated, see section 5 |
| `NativeCallsClaim` | as `Stream`, 2 chunks | violated, see section 5 |
| `RetryClaim`, `StreamErrorClaim` | the call of `Route` | violated, see section 5 |
| `DecodedTwiceClaim` | the conversion of `Route` | violated, see section 5 |

**Why the bounds are enough.**
`Admission`: with two permits, a releasing and a woken task exist at once while a
third waits; three tasks of one client fill its permits and queue behind them;
five tasks overflow the room of two; and two clients compete for the global
permits so that one holds its own permit while it waits.  The cancellation of any
of them happens before and after its grant.
`RateLimiter`: each bucket empties, owes two tokens and refills past its capacity
within the bounds; `MaxTime` and `MaxDebt` only cut behaviours off.
`Scanners`: six symbols are a block with its two tags and two symbols of content, or
a block cut anywhere with half tags around it.  All cuts are taken, so a
property of texts of this length is a property of the pair of functions.  Texts that are
not plain (their cuts make no difference either) are left to the theorem.
`Stream` and `ChatStream`: the chunks contain tags whole and cut, a complete
block in one chunk, tools, reasoning, and finish reasons with and without content;
four of them open, fill, close and follow a block, and a fifth lets the chat stream
have a second block with a tool in it.
`Route`: the families of requests vary one thing at a time (sizes, blocks, the
argument, tools and choices, chats), since the code treats each apart; three symbols
are an entity or a tag next to a symbol, or an entity's text escaped; three blocks are
a call between any two others, three messages a call, its result and a system prompt
anywhere.  The responses are enumerated; the only bound on the call is the number of
attempts, and it is the default of the configuration.  What becomes of a call depends on
the responses only, so it is followed for one request (`Followed` in `MCRoute`),
streaming and not.
`Gateway`: one permit per client makes one task wait while the other is in each of
its stages, with the other route or the other client at the global gate.

**Deadlock** is checked in `Admission` and `Gateway`.  The other systems end: a
stream is over, a computation is done, the clock is at its bound.

**Fairness.**  `Admission` assumes weak fairness of `Resume`, `Unwind` and `Exit` of
each task: the event loop runs every ready callback, and a body ends.
The latter is an assumption about what uses the gate, and `Gateway` discharges
it: `UsesGateFairly` checks that the gate inside the gateway satisfies the gate's
own `FairSpec`.  `Gateway` assumes that a request's ready steps happen: the loop
runs ready tasks, limiter sleeps and back-offs are timers, an upstream call answers
or hits the timeout (`config.yaml`, `upstream.timeout_seconds`), the server
iterates a response it was given, an abandoned generator is finalized by the hook
asyncio installs, and a stream ends.  The last is not enforced by the code: the
timeout is per read, so an upstream that sends a chunk now and then keeps its slot
for as long as it likes.  New requests, rejections and cancellations are never
assumed to happen.  Other runs check safety only.

**Reading the properties.**  Each property has a comment that states it and cites
the code or text it is about.  The less obvious ones:

* `NoLostWakeup`: a free permit and an unfinished future coexist only while some
  member of that queue has been granted or cancelled and will pass the permit on.
* `NoOvertaking`: compares a step's new owners of a semaphore with the queue before
  it; a newcomer that finds the value positive while a woken task has not run yet
  would violate it.
* `SleepersFirst`: the balance a newcomer finds is at most what it would have to be
  for the sleeper to be due.  A refund on cancellation, which looks like a
  fix, breaks it.
* `ContentIsExact` (in both stream modules) is a round trip: what a client
  assembles from the events equals what the one-shot functions find in the whole
  content.
* `ScanIsExact` has two halves.  That the cuts make no difference holds for every text:
  the scanner is compared with itself on the text in one chunk.  That it finds what
  `parse_complete` finds is said of plain texts, and of a block still open at the end only
  where `flush()` keeps it as text.  That nothing in such a block is lost is a claim of its
  own (`NothingIsLost`), and violated.
* `OneShotAgrees` (in both stream modules) relates two implementations of one answer.
  They do not agree everywhere, and the property says where: it leaves out white space
  at the ends, the warning, a block still open at the end, and content that is not
  `Plain`, where the two parsers accept or decode differently.  The chat stream also
  differs in native calls, in closed blocks in which nothing parses, and in finish
  reasons other than `tool_calls`, for which it says `stop` (section 5).
* `HistoryIsKept` is a round trip through the prompt: what a parser of the model's
  answers would read in it is what the client said.  `DecodedOnce` is the same with the
  one-shot parser, and is violated.
* `OffersAgree`: a request's tools go upstream twice, in words and as native
  definitions, and so does `tool_choice`; each is filtered by a function of its own.  The
  two differ over a tool choice whose name is empty, and the property says how: the
  demand is made in words and the native field is left out.
* `PayloadFits`: the budget is computed before the payload is complete; the property
  measures the payload.
* `RetriesAreInvisible`: relates the number of calls to what the client has seen.

## 4. Proofs

TLAPS checks these for every value of the constants that satisfies the stated
assumptions.

**`AdmissionProofs`** (any finite set of tasks, any clients, limits of at least 1, a
waiting room of any size, 0 included): `TypeCorrect`, `CountIsExact`
(`WaitingIsExact`), `NoPermitLeaks` (`PermitsConserved`), `BoundsHold` (`Bounds`), all
from `Invariance`: `Spec => []IInv`.

The invariant is the conjunction of `TypeOK`, `WaitingIsExact`,
`PermitsConserved` and four facts they need.  `QueuesMatch` says that a
queue holds exactly the tasks suspended at its semaphore, each once: without it
removing a future or granting to a member of a queue could touch somebody who is
not waiting.  `FutMatchesPc` ties the state of the future to being suspended,
without it a granted task could be counted as owner twice.  `RoomIsBounded` bounds
the waiters.  `KnownClients` says that a client without a semaphore has no owners, so
that creating one with a full value neither adds nor drops permits (the
check-then-create of `_get_or_create_client_sem`).  `Bounds` then follows: running tasks own a
permit of their client and a global one, and owners are at most the
capacity.

There is one lemma per action.  The arithmetic of permits is in four lemmas
(`TakePermit`, `HandPermits`, `GivePermit`, `KeepPermits`): the value of a
semaphore and its set of owners change together, by taking from the value, handing to
woken tasks, giving back, or not at all.  Sequences without repetition get two
lemmas (`AppendNew`, `WithoutPresent`).

`NoWakeupIsLost`, that is `Spec => []NoLostWakeup`.  The property is inductive once `IInv` is known.  It is
split by semaphore: `Healthy(s)` is the property at `s` in terms of `At(s)`, the tasks
suspended there.  Every action does one of four things to a semaphore, and each has
a lemma: it leaves the queue alone and does not raise the value (`KeepHealth`), puts
a task behind a locked semaphore (`JoinHealth`), takes a member out of the queue and
wakes as many as the value allows (`LeaveHealth`), or releases a permit
(`ReleaseHealth`).  `JoinHealth` rests on `locked()`: with a free permit the semaphore is
locked only while a member of its queue is not cancelled, and by the property before the
step one of them has been woken.  `LeaveHealth` rests on the loop that wakes the next: it
stops only when the value is 0 or nobody is pending.  Both need `QueuesMatch`.

`NobodyOvertakes`, that is `Spec => NoOvertaking`, a property of steps.  A release or a
cancellation wakes the first unfinished members of the queue, and `WakesUp` describes
them by what stands before them; taking a member out leaves the order of the rest.  A
newcomer that runs found the semaphore unlocked, and then, by `QueuesMatch`, everybody
in the queue is cancelled.

`PromiseIsKept`, that is `Spec => ImplementsPromise`.  `CallState` maps the program counters of a task to the
four states a caller can tell apart.  `Counted` shows that the sets whose sizes the
abstract specification limits are the tasks waiting and running in the gate, and
`MayWaitNow` that the code's test of its counter is the abstract test of the room (from
`WaitingIsExact`).  `RoomForOne` and `MayRunNow` show that a task for which each
semaphore has a free permit, or which owns one already, may run under the abstract limits
(from `PermitsConserved`).  After that there is one lemma per kind of step.

**`RateLimiterProofs`** (any tasks and clients, any positive rates and resolution of
time): `TypeCorrect`, `TimesAreDistinct` (`DistinctTimes`), `SleepersComeFirst`
(`SleepersFirst`) and `ScheduleIsImplemented` (`ImplementsSchedule`).  The argument is
about the *clock* of a bucket, `lastRefill * rate - tokens`: the instant at which its
balance is zero.  A refill does not move it, unless the bucket is full and the clock is
pulled up to one capacity ago (`Settled`); a token moves it by one interval
(`TakeMovesClock`); a balance is the time left until it (`BalanceByClock`).  The
invariant `IInv` adds to the two properties that a bucket never asked is full, so that
creating it lazily changes nothing, and that every sleeper of a bucket is due by its
clock (`DueInTime`).  A new sleeper is due one interval after the clock it finds, hence
after everybody else.  Cancelling changes no clock, which is why not refunding is right.

`ThroughputHolds` (`Throughput`).  The number of passes is no invariant by itself: a sleeper passes later
with a token it took long ago.  `Holders(b, x)` are the calls that hold a token of `b`
and may return by the instant `x`, the `Load` at `x` is the passes and the holders, and
`Covered(b)` bounds the load at every `x` from now or from the clock on by the capacity
and `x`.  A call that takes a token moves the clock by the interval it adds to the load
(`TakenIsCovered`); one that returns was a holder (`KeptIsCovered`); time only removes
instants (`TickIsCovered`).  A task may hold a token of its client while it sleeps for the
global bucket, so it is a holder in two buckets at once, which `AskIsCovered` follows
case by case.  `Throughput` is `Covered` at the present instant.  That only finitely many
tasks sleep is part of the invariant and not an assumption.

**`RequestProofs`** (any set of profiles with natural-number
fields, the cap optional; any set of well-typed requests): the budget's specification
satisfies the conjunction of its properties (`BudgetIsRight`, whose content is
`GrantIsRight`), and a conversion implements the budget's specification
(`ComputesBudget`), so it has them too: `TypeCorrect`, `FitsContext`, `GrantsWhatItCan`
and `RespectsCap` for `TypeOK`, `FitsWhenFloorFits`, `NothingWithheld` and `CapRespected`.
`EstimateCoversPayload` (`PayloadFits`) needs in addition that what was measured is what
was sent (`Backed`).  The theorems say that profiles of other models can be added without
new arithmetic mistakes, and that the estimate misses no part of the payload.

`OneOffer` (`OffersAgree`) says that one part of one message puts the tools in words and
that they are the native ones; so is the constraint on their use, but for the demand of
a tool whose name is empty, which is made in words only.. What the client sent contains
no such part (`IsPlain`), through flattening, injection and normalisation, so that the
one we add is the only one (`OffersOnce`, followed through both routes by
`MessagesOffer`, `InjectionOffers` and `NormalizingKeeps`).

`DecodesWhatIsEscaped` is about `_xml_escape` and `_decode_param_value` alone.  An occurrence
of a pattern of one or two characters that differ never overlaps another, so `str.replace`
works piece by piece (`ReplacedIs`) and distributes over two texts unless a pattern straddles
them (`ReplacedConcat`, `Parted`).  No escaped text ends in `&`, hence none of the four
replacements straddles the escaped forms of two characters (`StagesConcat`), and what is
left is one character at a time (`SymbolStages`).  `"&"` after `"<"` when escaping, or before it
when decoding, breaks exactly the last two lemmas.

`HistoryKept` (`HistoryIsKept`) follows what the client said through both routes.  In a
Messages request the invariant of the loop over the blocks of a turn is that what the
parts tell, followed by the calls still pending, is what the blocks so far said (`ToldBy`,
`BlockTells`, `TurnTold`): a branch that appends a part without flushing first breaks it.
`SystemTold` does the same for the system prompt, whose tools tell nothing (`PromptUnseen`).
In a chat request every message that comes out of injection and normalisation tells what the
client said in it (`Tells`: `ClientTold`, `PromptedTold`), and when normalisation is skipped
nothing was there to normalise, because results answer calls (`Quiet` implies `Calm`,
`ChatIsRegular`, kept by the injection).  A call reads back as it was rendered by
`CallsReadBack`, that is by `DecodesWhatIsEscaped`.  The theorem is for any set of well-typed
requests (`RequestsAssumption`: texts have a length, arguments are texts), and for the chat
histories that `Regular` describes: calls are an assistant's, a result comes after a call,
system and tool messages are plain strings.

The module also proves what becomes of the call that sends the request, `UpstreamCall`
(any set of well-typed responses, any number of attempts): `ErrorsAreErrors`
(`NoErrorIsAnAnswer`), `PathsJudgeAlike` (`PathsAgree`) and `GivingUpIsLate`
(`GivesUpLate`).. The invariant says that the class on record is that of the response on
record (`OutcomeIsJudged`) and that a finished call used its attempts or got something
that is not retried (`AttemptsAreSpent`); `Judged` is the case analysis of both paths.

**`GatewayProofs`** (any tasks, clients and attempts; the limits of the gate as above):
`GateIsUsed` shows that every step of the gateway is a step of the gate or leaves it
alone, that is `Spec => Gate!Spec`.  With it every theorem of `AdmissionProofs` holds in
the gateway (they are taken from an instance of that module).  `TypeCorrect` (`TypeOK`)
contains that a request has a stage exactly while its task runs in the gate: no way
through a handler leaves the slot twice or works without one.  `LoadIsBounded`
(`UpstreamLoad`) follows from that and from the gate's `Bounds`: the requests at the
upstream are among the running ones.  `NoVisibleRetry` (`RetriesAreInvisible`) is an
action property.

**`FoldTheorems`** is what makes the loops of the converters provable.. The library's
induction theorems have an operator for a parameter, which the installed provers cannot
instantiate.. So induction is proved again for sets (`Induction`: a set that contains 0
and successors contains the naturals), from the fact that a set of naturals has a least
element, since `<` is well-founded on them, which the library states without an
operator. The module writes out the body of `FoldLeft` rather than extending
`SequencesExt`: it has many instances, and what it extends weighs on every obligation of
the modules that hold them.. The folded operator is a CONSTANT of the module, and each
use is an INSTANCE of it.. From induction come the steps of a fold (`FoldSteps`), of a
concatenation (`FoldConcat`), invariants (`FoldInSet`), invariants that speak of the
prefix folded (`FoldTracks`), simulations (`FoldMoves`), that only the operator and the
start determine a fold (`FoldIs`, by which a scanner is recognised as the same in an
instance), loops that end in time (`LoopEnds`) and loops of which the first pass can be
taken off (`LoopUnrolls`).

**`ScannerProofs`** (any alphabets, any bounds on texts and chunks): `StreamedAsAtOnce`
(`SplitIsExact`), `NothingIsHeldBack` (`SplitIsTimely`) and `ScannedAsAtOnce`
(`ScanIsExact`).  The argument is about the
*meaning* of a text that begins in or out of a think block (`Meaning`), which is what
`StripThink` makes of it, and has three facts: the meaning of a text up to its first
tag is plain and the rest follows (`MeaningAtTag`, from `StripBlock`, which takes the first
block off `strip_think_complete`'s loop), a text without a tag means itself
(`MeaningOfPlain`), and a first symbol with which no tag begins may be cut off
(`MeaningShift`).  A pass of `feed()` keeps the `Total`: what was yielded, and the
meaning of the buffer followed by any further text (`CutTagKeeps`, `EmitSafeKeeps`).  That
"any further text" is what makes a tag cut by a chunk boundary harmless.  The invariant
`FeedInv` says that the total is the meaning of the stream so far, and that less than a
tag is held back outside of a tool block.  The XML scanner is treated alike: `Xml` is what
is found in a text that begins in or out of a tool block if whole blocks are looked for, as
`parse_complete` does, and each is read as the scanner reads it, and `XmlAtTag`, `XmlPlain`
and `XmlShift` are the three facts.  They are harder to come by, since
`parse_complete` looks for whole blocks where the scanner goes from tag to tag
(`FoundBlock`, `FoundPlain`), and since an unclosed block is text for one and a block for
the other; so the invariant `ScanInv` follows, beside the total, whether a block is open at
the end of the text (`OpenBlock`), and says of a buffer out of a block that it holds no
whole tag (`Cleared`).  What is between two tags is read as the scanner reads it
(`ReadAsScanner`), whichever parser that takes.  That this depends on the text alone and
not on its cuts is the first half of `ScanIsExact` (`AtOnceIs`).  The second half is
`PlainAlike`: on a plain text, `parse_complete` reads each block as the scanner does,
though one passes it with its opening tag and ElementTree accepts it, and the other without
(`SimpleReading`, `PlainBlock`, `CutsAlike`).

**`StreamProofs`** (any set of well-formed chunks, `ChunksAssumption` and
`ReasonsAssumption`; streams of any length): `EventsMatchTheContract` (`WellFormed`),
`TheClientIsTold` (`NeverSilent`), `ContentIsTold` (`ContentIsExact`) and `ThinkingIsTold`
(`ThinkingIsExact`).  The chunks' texts are sequences, a chunk without
choices has no content, and none contains the symbol that stands for the text of
the warning; that text is of our making, and a model that quotes it is outside of the
theorems.
One lemma for each kind of event says what the client makes of it (`OnBlockStart`, ...).
`Ready(base, c)` says that a client in state `base` that receives what the converter `c`
has yielded has open the block that `c` believes to be open, and expects the index that
`c` will use next.  Each generator of the code keeps it (`Closing`, `Ensuring`,
`EmittingDelta`, `EmittingTool`), and so do the folds over the segments (`XmlSegments`,
`ThinkSegments`).  `Visible` adds that `_has_visible_content` is exactly whether the client
was shown anything, which `NeverSilent` needs, and `Small` that the scanners hold back
little, without which the flush could not be known to show what the flag says.  A
converter is in that state or `Fresh`, before its first chunk.

`ContentIsTold` is about two scanners in a row, with events in between.  `Due(base, c, t)` is
what the client has been shown, followed by what the XML scanner's buffer and a further
text `t` mean; `Promise(base, c, u)` is the same with what the splitter makes of its buffer
and further content `u` in the place of `t`.  The invariant (`Promised`) is that for every
`u` the promise is what is `Found` in the content so far followed by `u`, which for a plain
text is what the one-shot functions find (`PlainAlike`).
A segment pays what was due for its text (`ThinkSegment`, `Pays`), from the lemmas of
`ScannerProofs` about one call of a scanner (an instance: `ScanPart`, `SplitPart`); thinking
pays nothing and shows nothing of the kind (`ThinkingSegment`); so `feed()` keeps the promise
for the content of its chunk (`Feeding`, `KeepsPromise`), and `flush()` fulfils it with nothing
to follow, unless a block is open (`Draining`).  That each fold yields the items of
exactly the segments it was given is an induction over pairs of a prefix and the fold so far
(`FoldTracks`).  `StreamInv` puts it all together.

`ThinkingIsTold` is about what the client is told of two sources that mix in its thinking
blocks, the reasoning of the chunks and the think blocks in the content.  No code looks into
reasoning, so its symbols may be taken to say where they come from (`ReasonsAssumption`: they
are in no content and no tag), and `Part` takes the two sources apart again.  `Insight` is to
thinking what `Promise` is to text: what the client has been told that is not reasoning,
followed by the thinking in what the splitter holds back and any further content; `Foretold`
says that it is the thinking that `strip_think_complete` finds.  The part that is reasoning is
the reasoning received (`TellsReasons`).  Parts of thinking concatenate (`PartsGrow`), and only
two generators add to it (`ThinkSegment`, `FeedingReasoning`); a client that did not ask is told
nothing, while the splitter goes on as before (`Discreet`).

**`ChatProofs`** (any set of well-formed chunks, `ChunksAssumption`; streams of any
length): `StreamsAreTerminated` (`Terminated`), `CallsAreNumbered` (`ToolsAreNumbered`),
`StreamsAreExact` (`ContentIsExact`) and `ChatAnswersAgree` (`OneShotAgrees`).. A chat
stream has one scanner and no events between its segments, so the promise is simpler:
`Promised` says that what the client has `Seen`, followed by what the scanner's buffer
and any further text mean, is what is `Found` in the content so far followed by that
text, and for a plain one that is what `parse_complete` finds (`FoundPlainly`).. The
frames are harder, because the index of the next tool call goes into
`_process_stream_chunk` by value and comes back in its frames.. `Proper(frames, items,
n)` says of the frames of one chunk that they show these items and number their tools
from `n` on; every chunk's frames are proper (`ChunkProper`, by `FramesProper`, an
induction over the fold `Frames`), and frames that are proper can be put behind those
sent, if the handler has learned the next index (`Sending`, `Learns`, `SendingMore`)..
`ChatInv` holds both in the phase `streaming`; an ended or aborted stream is a body
followed by a finish reason or an error and by `[DONE]` (`Closed`), and if no block was
open the body shows what is `Found` in the content.. Three of the theorems are read off
this invariant.

`ChatAnswersAgree` says for which streams the two answers of the chat route are the same
(plain content, no open block, no block in which nothing parses), and compares a
sequence of frames with one of segments.. Items, pairs of a kind and a symbol, are what
they have in common.. `Spoken` and `Called` are the text and the tool calls of items,
and a sequence of parts, frames or segments alike, says what its items say (`Parts`,
`PartsSay`), whatever the pieces the text comes in.. A tool call loses its index on the
way (`AsCalls`).. Since the streamed text is stripped only after it has been put
together, stripping twice must not matter (`StripTwice`).

**Only model-checked.**  Liveness, and everything that needs fairness or ENABLED, is
outside the prover's reach (`EveryWaiterIsServed`, `UsesGateFairly`,
`EveryRequestEnds`).  Not proved: `OneShotAgrees` of
`StreamConverter`, which uses `SelectSeq`, a recursive definition of which the provers
know no fact.

## 5. Where code and documentation disagree

Each of the first five is a run that TLC must find violated.

* `NativeCallsClaim`: `_accumulate_native_tool_calls` (`converters/stream.py:262`)
  contains no `yield` and returns `None`; `yield from` of it (line 120) raises
  `TypeError`.  A chunk whose `delta.tool_calls` is a list, even an empty one, ends
  the stream with an error event, where the docstring promises tool blocks.
* `DecodedTwiceClaim`: ElementTree has decoded a parameter when
  `_decode_param_value` decodes it again (`tools/xml_parser.py:120`).  An argument that
  contains the text of an entity, `&lt;` say, escaped as the prompt asks, comes out as `<`
  in an answer that is not streamed.  The comment at line 160 wants to avoid just
  that.  Streams use the regular expression, which decodes once.
* `LostTextClaim`: a stream that ends right after `<function_calls>` loses the tag, because
  `flush()` returns early on an empty buffer (`tools/xml_parser.py:225`); and of an
  unclosed block with a whole invoke it yields the invokes and drops what follows them
  (line 230), the beginning of a second invoke, say.  Its docstring (lines 222-223) does not
  want to "lose the model's output", and `tests/test_xml_parser.py:334-335` says that
  no data is silently lost.
* `RetryClaim`: the body is looked at before the status (`upstream/client.py:96`), so a
  429 or 5xx whose JSON body has a `detail` or `error` without a code or a known
  phrase is not retried, where `control/retry.py:8` says "429, 5xx, network errors".
* `StreamErrorClaim`: for a streaming request, a JSON error body with HTTP 200 and no
  `data:` prefix is skipped line by line; the client sees an empty success.

Other observations, not runs:

* *Two parsers.*  Streams never get to ElementTree but for a block that begins with a second
  opening tag, since the scanner has cut off the first.  An invoke whose name is in single
  quotes, or that has another attribute, is dropped without a trace from a stream, where the
  one-shot parser yields it; one inside an element of its own is the other way round.  The
  docstring at lines 174-175 promises one segment per invoke.
* *Streams.*  The chat stream replaces the upstream's reason `length` by `stop`
  (`routes/chat.py:209, 469-470`), the one-shot answer keeps it.  A closed block in which
  nothing parses vanishes from a chat stream and from both kinds of Messages answers; the
  one-shot chat answer keeps it.  Only the stream warns of a `length` without content, and
  there white space counts as content.
* *Requests.*  The comment at `converters/request.py:221` promises to group consecutive
  calls into one wrapper; line 250 flushes before each call, so each gets its own.  The
  chat route does not put `tool_choice` into words.  A `tool_choice` of a tool with an empty
  name is put in words ("MUST call the tool named ''", `tools/prompt_builder.py:91`) and dropped
  from the native field (`converters/request.py:303`).  A `tool_choice` of `none` is dropped.
  A chat history with results and no calls is not rewritten (`routes/chat.py:302`).  An
  array as the content of a system message with tools, or of a result, becomes Python's
  repr (`routes/chat.py:280, 321-325`), and a `null` content of a result becomes `None`.
  Arguments that are not strings come back as JSON text.
* *Calls.*  A connection that the upstream drops without a response is an
  `httpx.RemoteProtocolError`, which is neither a `NetworkError` nor a timeout
  (`upstream/client.py:90-93`): it is not retried, against `control/retry.py:8`, and answered
  with 500.
* *Answers.*  `_postprocess_tool_calls` overwrites native calls when the text has some
  (`routes/chat.py:403`).
* *Limits.*  The limiter lets a burst of the whole capacity through on top of the refill,
  up to twice `global_rpm` in the first minute (`Throughput` states the exact bound); a
  limiter sleep holds a slot; one token of the limiter covers up to `max_attempts`
  upstream calls.  The floor on max_tokens is applied after the context
  (`request.py:180`), so a large input asks for more than fits, which is why
  `FitsWhenFloorFits` has its premise.  Cancelling a streaming request before its first
  chunk leaves the slot to the generator finalizer.

## 6. What is not modelled

* Names of tools and parameters beyond "has one"; the other ways to write an invoke that only
  one parser reads, such as a further attribute or a self-closing tag (`Quoted` and `Nested`
  stand for the two directions); several parameters of one invoke, and JSON decoding of
  values; letter case (positions found in `buffer.lower()` are used in `buffer`).
* A chat result whose content is `null`.
* `temperature`, `top_p`, `stop`, usage numbers and ids, which are passed through or
  made up; pydantic's checks of requests (`models.py`).
* Float rounding in the limiter; wall-clock time elsewhere.
* HTTP connections: `start`/`aclose`, the pool, and the upstream generator that is
  not closed with `event_gen`.
* Configuration, key pool, authentication, model list, logging: pure functions of their
  input or a single locked call.
* Eviction of per-client semaphores and buckets: there is none, and both
  dictionaries grow with the clients ever seen.

## 7. Plan

Done, in this order: gate, limiter, scanners, Messages stream, upstream, gateway,
chat stream, budget; the proofs of the gate (invariants, wake-ups, refinement) and of
the budget; request conversion and chat history, composed with the budget; the one-shot
answers, compared with the streams; arguments of an invoke; the proofs of the limiter
(invariants, refinement, throughput), of the upstream call and of the conversion; the
order of the gate's queue; the gateway; folds, both scanners, and the legality and
exactness of the Messages stream, for streams of any length; the whole of the chat stream;
the prompts and the history of a request, for any set of requests.
Next:

1. *Proofs*: `OneShotAgrees` of `StreamConverter`.
2. *Connections*: a stage of `Gateway` for the upstream generator and its finalization.
3. *Lengths*: characters whose lower case is longer, in the scanner's buffer.
