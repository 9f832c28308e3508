------------------------------ MODULE RateLimiter ------------------------------
(***************************************************************************)
(* control/rate_limiter.py: a token bucket per client and a global one,    *)
(* refilled lazily.  acquire() never refuses: a caller without a token     *)
(* takes the balance below zero and sleeps until it would be zero again.   *)
(*                                                                         *)
(* Time is counted in ticks, Minute of them to a minute.  A bucket of r    *)
(* requests per minute refills by r/Minute tokens a tick, so balances are  *)
(* kept in 1/Minute of a token: a token is Minute units, the refill r      *)
(* units a tick, and no rounding is needed (the code uses floats, whose    *)
(* rounding is not modelled).  A wake-up instant of bucket b is kept in    *)
(* 1/Rpm(b) of a tick for the same reason.  asyncio.sleep never wakes      *)
(* early but may wake late; the bucket locks never suspend anybody.        *)
(***************************************************************************)
EXTENDS Integers, FiniteSets

CONSTANTS
    Tasks, Clients, Client,
    Global,         \* the name of the global bucket
    GlobalRpm, PerClientRpm,
    Minute,
    MaxTime,        \* bound on the clock
    MaxDebt         \* bound on the tokens a bucket may owe

ASSUME NamesAssumption ==
    /\ Client \in [Tasks -> Clients]
    /\ Global \notin Clients /\ "none" \notin Clients \union {Global}
ASSUME RatesAssumption ==
    GlobalRpm \in Nat \ {0} /\ PerClientRpm \in Nat \ {0} /\ Minute \in Nat \ {0}

Buckets == Clients \union {Global}
Rpm(b) == IF b = Global THEN GlobalRpm ELSE PerClientRpm
Capacity(b) == Rpm(b) * Minute

VARIABLES
    now,
    tokens,         \* TokenBucket._tokens, in units
    lastRefill,     \* TokenBucket._last_refill
    clients,        \* the keys of _clients
    asleep,         \* the bucket each task sleeps for, or "none"
    due,            \* the end of its sleep
    passes          \* per bucket: calls of acquire() that returned (history)

vars == <<now, tokens, lastRefill, clients, asleep, due, passes>>
-----------------------------------------------------------------------------
Init ==
    /\ now = 0
    /\ tokens = [b \in Buckets |-> Capacity(b)]
    /\ lastRefill = [b \in Buckets |-> 0]
    /\ clients = {}
    /\ asleep = [t \in Tasks |-> "none"]
    /\ due = [t \in Tasks |-> 0]
    /\ passes = [b \in Buckets |-> 0]

(* Mistake: an idle bucket fills without bound. *)
RefilledUncapped(b) ==
    IF b \notin clients \union {Global} THEN Capacity(b)
    ELSE tokens[b] + (now - lastRefill[b]) * Rpm(b)

(* The balance after _refill(); a bucket created now is full. *)
Refilled(b) ==
    LET balance == tokens[b] + (now - lastRefill[b]) * Rpm(b)
    IN  IF b \notin clients \union {Global} \/ balance > Capacity(b)
        THEN Capacity(b) ELSE balance

(* Mistake: part of a token is enough. *)
HasSomething(b) == Refilled(b) >= 0

HasToken(b) == Refilled(b) >= Minute

(* Mistake: the time of the refill is not taken down. *)
TakeOnly(B) ==
    /\ tokens' = [b \in Buckets |-> IF b \in B THEN Refilled(b) - Minute ELSE tokens[b]]
    /\ UNCHANGED lastRefill

(* _refill() and the subtraction, for every bucket of B. *)
Take(B) ==
    /\ tokens' = [b \in Buckets |-> IF b \in B THEN Refilled(b) - Minute ELSE tokens[b]]
    /\ lastRefill' = [b \in Buckets |-> IF b \in B THEN now ELSE lastRefill[b]]

(* Mistake: sleep for one token, whatever the debt. *)
SleepForOne(t, b) ==
    /\ ~HasToken(b)
    /\ Refilled(b) > -MaxDebt * Minute
    /\ asleep' = [asleep EXCEPT ![t] = b]
    /\ due' = [due EXCEPT ![t] = now * Rpm(b) + Minute]
    /\ UNCHANGED passes

(* No token: sleep for the deficit. *)
Sleep(t, b) ==
    /\ ~HasToken(b)
    /\ Refilled(b) > -MaxDebt * Minute
    /\ asleep' = [asleep EXCEPT ![t] = b]
    /\ due' = [due EXCEPT ![t] = now * Rpm(b) + (Minute - Refilled(b))]
    /\ UNCHANGED passes

(* acquire() of both buckets has returned. *)
Pass(t) ==
    /\ asleep' = [asleep EXCEPT ![t] = "none"]
    /\ passes' = [passes EXCEPT ![Client[t]] = @ + 1, ![Global] = @ + 1]
    /\ due' = [due EXCEPT ![t] = 0]

(* RateLimiter.acquire(): the client's bucket first, then the global one. *)
Arrive(t) ==
    /\ asleep[t] = "none"
    /\ clients' = clients \union {Client[t]}
    /\ UNCHANGED now
    /\ \/ Sleep(t, Client[t]) /\ Take({Client[t]})
       \/ HasToken(Client[t]) /\ Sleep(t, Global) /\ Take({Client[t], Global})
       \/ HasToken(Client[t]) /\ HasToken(Global) /\ Pass(t) /\ Take({Client[t], Global})

IsDue(t) == now * Rpm(asleep[t]) >= due[t]

WakeFromClient(t) ==
    /\ asleep[t] = Client[t]
    /\ IsDue(t)
    /\ UNCHANGED <<now, clients>>
    /\ \/ Sleep(t, Global) /\ Take({Global})
       \/ HasToken(Global) /\ Pass(t) /\ Take({Global})

WakeFromGlobal(t) ==
    /\ asleep[t] = Global
    /\ IsDue(t)
    /\ Pass(t)
    /\ UNCHANGED <<now, tokens, lastRefill, clients>>

(* Mistake: a cancelled sleeper gives its token back. *)
CancelRefunds(t) ==
    /\ asleep[t] # "none"
    /\ asleep' = [asleep EXCEPT ![t] = "none"]
    /\ due' = [due EXCEPT ![t] = 0]
    /\ tokens' = [tokens EXCEPT ![asleep[t]] = @ + Minute]
    /\ UNCHANGED <<now, lastRefill, clients, passes>>

(* The sleeping call is cancelled; its reservation is not given back. *)
Cancel(t) ==
    /\ asleep[t] # "none"
    /\ asleep' = [asleep EXCEPT ![t] = "none"]
    /\ due' = [due EXCEPT ![t] = 0]
    /\ UNCHANGED <<now, tokens, lastRefill, clients, passes>>

Tick == now < MaxTime /\ now' = now + 1
        /\ UNCHANGED <<tokens, lastRefill, clients, asleep, due, passes>>

Next == Tick \/ \E t \in Tasks :
    Arrive(t) \/ WakeFromClient(t) \/ WakeFromGlobal(t) \/ Cancel(t)

Spec == Init /\ [][Next]_vars
-----------------------------------------------------------------------------
(* Properties *)

TypeOK ==
    /\ now \in Nat
    /\ tokens \in [Buckets -> Int]
    /\ \A b \in Buckets : tokens[b] <= Capacity(b)
    /\ lastRefill \in [Buckets -> Nat]
    /\ clients \in SUBSET Clients
    /\ asleep \in [Tasks -> Buckets \union {"none"}]
    /\ due \in [Tasks -> Int]
    /\ passes \in [Buckets -> Nat]

(* Since the start, a bucket lets through its capacity plus what the       *)
(* elapsed time refills, however the callers interleave, sleep late or are *)
(* cancelled (rate_limiter.py:10-12, "both must be satisfied").            *)
Throughput == \A b \in Buckets : passes[b] * Minute <= Capacity(b) + now * Rpm(b)

(* "They serialize at distinct future times" (rate_limiter.py:37-41): two  *)
(* sleepers of one bucket wake at least one token's refill apart.          *)
DistinctTimes == \A t, u \in Tasks :
    t # u /\ asleep[t] = asleep[u] /\ asleep[t] # "none" =>
        due[t] + Minute <= due[u] \/ due[u] + Minute <= due[t]

(* A newcomer never takes a token for which somebody else still sleeps:    *)
(* the balance stays negative until the last sleeper is due.               *)
SleepersFirst == \A t \in Tasks :
    asleep[t] # "none" => Refilled(asleep[t]) <= now * Rpm(asleep[t]) - due[t]

(* The lazily refilled balances that go negative are a virtual schedule:   *)
(* the clock of a bucket is the instant its balance is zero.               *)
Schedule == INSTANCE VirtualSchedule WITH
    Budgets <- Buckets, Rate <- Rpm, Interval <- Minute, place <- asleep, start <- due,
    clock <- [b \in Buckets |-> lastRefill[b] * Rpm(b) - tokens[b]]
ImplementsSchedule == Schedule!Spec

=============================================================================
