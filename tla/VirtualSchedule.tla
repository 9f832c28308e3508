---------------------------- MODULE VirtualSchedule ----------------------------
(***************************************************************************)
(* What a rate limiter with a burst allowance promises, as a virtual       *)
(* schedule: each budget has one clock, the instant at which everything    *)
(* granted so far is paid for.  A request moves the clock by one interval, *)
(* from no further back than the burst, and starts when the clock says.    *)
(* Instants of budget b are counted in 1/Rate(b) of a tick, so that one    *)
(* interval is Interval units for every budget.                            *)
(***************************************************************************)
EXTENDS Integers

CONSTANTS Tasks, Budgets, Rate(_), Interval

VARIABLES
    now,
    clock,      \* per budget: when its last grant is paid for
    place,      \* per task: the budget it waits for, or "none"
    start       \* per task: the instant its wait ends

vars == <<now, clock, place, start>>

Burst(b) == Rate(b) * Interval
Time(b) == now * Rate(b)

(* The clock of b after one more grant. *)
Granted(b) ==
    Interval + IF clock[b] < Time(b) - Burst(b) THEN Time(b) - Burst(b) ELSE clock[b]

Init ==
    /\ now = 0
    /\ clock = [b \in Budgets |-> -Burst(b)]
    /\ place = [t \in Tasks |-> "none"]
    /\ start = [t \in Tasks |-> 0]

Tick == now' = now + 1 /\ UNCHANGED <<clock, place, start>>

(* A grant that can start now. *)
GrantsNow(b) == Granted(b) <= Time(b)

WaitFor(t, b) ==
    /\ ~GrantsNow(b)
    /\ place' = [place EXCEPT ![t] = b]
    /\ start' = [start EXCEPT ![t] = Granted(b)]

Free(t) == place[t] = "none" \/ start[t] <= now * Rate(place[t])

(* A free task asks the budgets of A, all granted at once, and then b. *)
Ask(t, A, b) ==
    /\ Free(t)
    /\ \A a \in A : GrantsNow(a)
    /\ clock' = [c \in Budgets |-> IF c \in A \union {b} THEN Granted(c) ELSE clock[c]]
    /\ UNCHANGED now
    /\ \/ WaitFor(t, b)
       \/ /\ GrantsNow(b)
          /\ place' = [place EXCEPT ![t] = "none"]
          /\ start' = [start EXCEPT ![t] = 0]

(* A task leaves: served, or cancelled without giving its grant back. *)
Leave(t) ==
    /\ place[t] # "none"
    /\ place' = [place EXCEPT ![t] = "none"]
    /\ start' = [start EXCEPT ![t] = 0]
    /\ UNCHANGED <<now, clock>>

Next ==
    \/ Tick
    \/ \E t \in Tasks : Leave(t)
    \/ \E t \in Tasks, A \in SUBSET Budgets, b \in Budgets : b \notin A /\ Ask(t, A, b)

Spec == Init /\ [][Next]_vars

=============================================================================
