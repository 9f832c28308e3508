--------------------------- MODULE RateLimiterProofs ---------------------------
(***************************************************************************)
(* For all tasks, clients and rates: the sleepers of a bucket wake at      *)
(* distinct times, no newcomer passes them, and the balances implement a   *)
(* virtual schedule.  The argument is about the clock of a bucket, the     *)
(* instant at which its balance is zero: it never runs backwards, every    *)
(* sleeper is due by then, and a new one is due one interval later.        *)
(***************************************************************************)
EXTENDS RateLimiter, FiniteSetTheorems, TLAPS

Clock(b) == lastRefill[b] * Rpm(b) - tokens[b]
Time(b) == now * Rpm(b)

(* The clock once the bucket is refilled: it forgets what is too long ago. *)
Settled(b) ==
    IF Clock(b) < Time(b) - Capacity(b) THEN Time(b) - Capacity(b) ELSE Clock(b)

Known == clients \union {Global}

(* A bucket nobody has asked yet is full. *)
NewIsFull == \A b \in Buckets \ Known : tokens[b] = Capacity(b) /\ lastRefill[b] = 0

(* A sleeper sleeps for a bucket of its own, and is due by its clock. *)
DueInTime == \A t \in Tasks : asleep[t] # "none" =>
    asleep[t] \in Known \intersect {Client[t], Global} /\ due[t] <= Clock(asleep[t])

IInv == TypeOK /\ NewIsFull /\ DueInTime /\ DistinctTimes
-----------------------------------------------------------------------------
(* Arithmetic of the buckets *)

LEMMA ProductType == ASSUME NEW m \in Nat, NEW n \in Nat PROVE m * n \in Nat
  OBVIOUS

LEMMA ProductOfDifference ==
    ASSUME NEW k \in Nat, NEW m \in Nat, NEW n \in Nat
    PROVE  (k - m) * n = k * n - m * n
  OBVIOUS

LEMMA BucketTypes ==
    ASSUME TypeOK, NEW b \in Buckets
    PROVE  /\ Rpm(b) \in Nat \ {0} /\ Minute \in Nat \ {0} /\ Capacity(b) \in Nat
           /\ tokens[b] \in Int /\ tokens[b] <= Capacity(b) /\ lastRefill[b] \in Nat
           /\ lastRefill[b] * Rpm(b) \in Nat /\ Time(b) \in Nat
           /\ Clock(b) \in Int /\ Settled(b) \in Int
           /\ Time(b) - Capacity(b) <= Settled(b) /\ Clock(b) <= Settled(b)
  <1>1. /\ Rpm(b) \in Nat \ {0} /\ Minute \in Nat \ {0} /\ now \in Nat
        /\ tokens[b] \in Int /\ tokens[b] <= Capacity(b) /\ lastRefill[b] \in Nat
        BY RatesAssumption DEF TypeOK, Rpm
  <1>2. Capacity(b) \in Nat /\ lastRefill[b] * Rpm(b) \in Nat /\ now * Rpm(b) \in Nat
        BY <1>1, ProductType DEF Capacity
  <1>3. Time(b) \in Nat /\ Clock(b) \in Int
        BY <1>1, <1>2 DEF Time, Clock
  <1> QED  BY <1>1, <1>2, <1>3 DEF Settled

(* A balance is what is left until the clock. *)
LEMMA BalanceByClock ==
    ASSUME TypeOK, NewIsFull, NEW b \in Buckets
    PROVE  Refilled(b) = Time(b) - Settled(b)
  <1>1. /\ Rpm(b) \in Nat \ {0} /\ Capacity(b) \in Nat /\ tokens[b] \in Int
        /\ lastRefill[b] \in Nat /\ lastRefill[b] * Rpm(b) \in Nat /\ Time(b) \in Nat
        BY BucketTypes
  <1>2. (now - lastRefill[b]) * Rpm(b) = Time(b) - lastRefill[b] * Rpm(b)
        BY <1>1, ProductOfDifference DEF TypeOK, Time
  <1>3. CASE b \in Known
        BY <1>1, <1>2, <1>3 DEF Refilled, Settled, Clock, Known
  <1>4. CASE b \notin Known
    <2>1. Refilled(b) = Capacity(b)
          BY <1>4 DEF Refilled, Known
    <2>2. Clock(b) = -Capacity(b)
          BY <1>1, <1>4 DEF NewIsFull, Clock
    <2> QED  BY <1>1, <2>1, <2>2 DEF Settled
  <1> QED  BY <1>3, <1>4

(* A token moves the clock of its bucket by one interval. *)
LEMMA TakeMovesClock ==
    ASSUME TypeOK, NewIsFull, NEW B \in SUBSET Buckets, Take(B), now' = now, NEW b \in Buckets
    PROVE  /\ Clock(b)' = IF b \in B THEN Settled(b) + Minute ELSE Clock(b)
           /\ Clock(b) <= Clock(b)'
           /\ tokens'[b] \in Int /\ tokens'[b] <= Capacity(b) /\ lastRefill'[b] \in Nat
           /\ b \notin B => tokens'[b] = tokens[b] /\ lastRefill'[b] = lastRefill[b]
  <1>1. /\ Minute \in Nat \ {0} /\ Capacity(b) \in Nat /\ tokens[b] \in Int
        /\ tokens[b] <= Capacity(b) /\ lastRefill[b] \in Nat
        /\ Time(b) \in Nat /\ Clock(b) \in Int /\ Settled(b) \in Int
        /\ Time(b) - Capacity(b) <= Settled(b) /\ Clock(b) <= Settled(b)
        BY BucketTypes
  <1>2. Refilled(b) = Time(b) - Settled(b)
        BY BalanceByClock
  <1>3. CASE b \in B
    <2>1. tokens'[b] = Time(b) - Settled(b) - Minute /\ lastRefill'[b] = now
          BY <1>2, <1>3 DEF Take
    <2>2. Clock(b)' = now * Rpm(b) - tokens'[b]
          BY <2>1 DEF Clock, Rpm
    <2>3. Clock(b)' = Time(b) - tokens'[b]
          BY <2>2 DEF Time
    <2> QED  BY <1>1, <1>3, <2>1, <2>3 DEF TypeOK
  <1>4. CASE b \notin B
    <2>1. tokens'[b] = tokens[b] /\ lastRefill'[b] = lastRefill[b]
          BY <1>4 DEF Take
    <2>2. Clock(b)' = Clock(b)
          BY <2>1 DEF Clock, Rpm
    <2> QED  BY <1>1, <1>4, <2>1, <2>2
  <1> QED  BY <1>3, <1>4

(* A sleeper sleeps until the clock it has moved. *)
LEMMA SleepUntilClock ==
    ASSUME TypeOK, NewIsFull, NEW t \in Tasks, NEW b \in Buckets, Sleep(t, b)
    PROVE  /\ asleep' = [asleep EXCEPT ![t] = b]
           /\ due' = [due EXCEPT ![t] = Settled(b) + Minute]
           /\ passes' = passes
           /\ Time(b) < Settled(b) + Minute
  <1>1. Minute \in Nat /\ Time(b) \in Nat /\ Settled(b) \in Int
        BY BucketTypes
  <1>2. Refilled(b) = Time(b) - Settled(b)
        BY BalanceByClock
  <1>3. Time(b) + (Minute - Refilled(b)) = Settled(b) + Minute
        BY <1>1, <1>2
  <1>4. ~(Refilled(b) >= Minute)
        BY DEF Sleep, HasToken
  <1>5. due' = [due EXCEPT ![t] = Time(b) + (Minute - Refilled(b))]
        BY DEF Sleep, Time
  <1>6. Time(b) < Settled(b) + Minute
        BY <1>1, <1>2, <1>4
  <1> QED  BY <1>3, <1>5, <1>6 DEF Sleep
-----------------------------------------------------------------------------
(* The invariant *)

(* What the calls that ask for tokens have in common: t takes one from     *)
(* each bucket of B, and sleeps for one of them or has passed.             *)
Asks(t, B) ==
    /\ Take(B) /\ UNCHANGED now
    /\ B \subseteq {Client[t], Global} /\ B \subseteq clients' \union {Global}
    /\ clients \subseteq clients' /\ clients' \subseteq Clients
    /\ (\E b \in B : Sleep(t, b)) \/ Pass(t)

LEMMA ArriveAsks ==
    ASSUME TypeOK, NEW t \in Tasks, Arrive(t)
    PROVE  Asks(t, {Client[t]}) \/ Asks(t, {Client[t], Global})
  <1>1. Client[t] \in Clients /\ Client[t] \in clients'
        BY NamesAssumption DEF Arrive
  <1>2. clients \subseteq clients' /\ clients' \subseteq Clients /\ now' = now
        BY <1>1 DEF Arrive, TypeOK
  <1> QED  BY <1>1, <1>2 DEF Arrive, Asks

LEMMA WakeFromClientAsks ==
    ASSUME TypeOK, NEW t \in Tasks, WakeFromClient(t)
    PROVE  Asks(t, {Global})
  BY DEF WakeFromClient, Asks, TypeOK

(* Asking keeps the invariant: the sleep that is added ends one interval   *)
(* after the clock of its bucket, hence after every other.                 *)
LEMMA AskKeeps ==
    ASSUME IInv, NEW t \in Tasks, NEW B, Asks(t, B)
    PROVE  IInv'
  <1>1. /\ TypeOK /\ NewIsFull /\ DueInTime /\ DistinctTimes
        /\ Client[t] \in Clients /\ B \in SUBSET Buckets /\ Minute \in Nat \ {0}
        /\ Take(B) /\ now' = now
        BY NamesAssumption, RatesAssumption DEF IInv, Asks, Buckets
  <1>2. \A b \in Buckets :
            /\ Clock(b)' = IF b \in B THEN Settled(b) + Minute ELSE Clock(b)
            /\ Clock(b) <= Clock(b)' /\ Clock(b) \in Int /\ Clock(b)' \in Int
            /\ Settled(b) \in Int /\ Clock(b) <= Settled(b)
            /\ tokens'[b] \in Int /\ tokens'[b] <= Capacity(b) /\ lastRefill'[b] \in Nat
            /\ b \notin B => tokens'[b] = tokens[b] /\ lastRefill'[b] = lastRefill[b]
        BY <1>1, TakeMovesClock, BucketTypes
  <1>3. \/ \E b \in B : /\ asleep' = [asleep EXCEPT ![t] = b]
                         /\ due' = [due EXCEPT ![t] = Settled(b) + Minute]
                         /\ passes' = passes
        \/ /\ asleep' = [asleep EXCEPT ![t] = "none"]
           /\ due' = [due EXCEPT ![t] = 0]
           /\ passes' \in [Buckets -> Nat]
    <2>1. CASE \E b \in B : Sleep(t, b)
      <3>1. PICK b \in B : Sleep(t, b)
            BY <2>1
      <3>2. b \in Buckets
            BY <1>1, <3>1
      <3> QED  BY <1>1, <3>1, <3>2, SleepUntilClock
    <2>2. CASE Pass(t)
      <3>1. passes \in [Buckets -> Nat] /\ Client[t] \in Buckets /\ Global \in Buckets
            BY <1>1 DEF TypeOK, Buckets
      <3>2. passes' \in [Buckets -> Nat]
            BY <2>2, <3>1 DEF Pass
      <3> QED  BY <2>2, <3>2 DEF Pass
    <2> QED  BY <2>1, <2>2 DEF Asks
  <1>4. TypeOK'
    <2>1. /\ tokens' \in [Buckets -> Int] /\ lastRefill' \in [Buckets -> Nat]
          /\ \A b \in Buckets : tokens'[b] <= Capacity(b)
          BY <1>1, <1>2 DEF Take
    <2>2. /\ asleep' \in [Tasks -> Buckets \union {"none"}] /\ due' \in [Tasks -> Int]
          /\ passes' \in [Buckets -> Nat]
          BY <1>1, <1>2, <1>3 DEF TypeOK
    <2>3. now' \in Nat /\ clients' \in SUBSET Clients
          BY <1>1 DEF TypeOK, Asks
    <2> QED  BY <2>1, <2>2, <2>3 DEF TypeOK, Capacity, Rpm
  <1>5. NewIsFull'
        BY <1>1, <1>2 DEF NewIsFull, Known, Asks, Capacity, Rpm
  <1>6. ASSUME NEW u \in Tasks, NEW b, b = asleep'[u], b # "none"
        PROVE  b \in Known' \intersect {Client[u], Global} /\ due'[u] <= Clock(b)'
    <2>1. CASE u = t
      <3>1. b \in B /\ b \in Buckets /\ due'[t] = Settled(b) + Minute
            BY <1>1, <1>3, <1>6, <2>1 DEF TypeOK
      <3>2. due'[t] <= Clock(b)'
            BY <1>1, <1>2, <3>1
      <3> QED  BY <2>1, <3>1, <3>2 DEF Asks, Known
    <2>2. CASE u # t
      <3>1. asleep'[u] = asleep[u] /\ due'[u] = due[u]
            BY <1>1, <1>3, <2>2 DEF TypeOK
      <3>2. b \in Known \intersect {Client[u], Global} /\ due[u] <= Clock(b)
            BY <1>1, <1>6, <3>1 DEF DueInTime
      <3>3. b \in Buckets /\ due[u] \in Int
            BY <1>1, <3>2 DEF TypeOK, Known, Buckets
      <3>4. due'[u] <= Clock(b)'
            BY <1>2, <3>1, <3>2, <3>3
      <3> QED  BY <3>2, <3>4 DEF Asks, Known
    <2> QED  BY <2>1, <2>2
  <1>7. ASSUME NEW u \in Tasks, NEW v \in Tasks, u # v,
               asleep'[u] = asleep'[v], asleep'[u] # "none"
        PROVE  due'[u] + Minute <= due'[v] \/ due'[v] + Minute <= due'[u]
    <2>1. ASSUME NEW x \in Tasks, x # t, asleep'[x] # "none", asleep'[x] = asleep'[t]
          PROVE  due'[x] + Minute <= due'[t]
      <3>1. asleep'[x] = asleep[x] /\ due'[x] = due[x]
            BY <1>1, <1>3, <2>1 DEF TypeOK
      <3>2. PICK b \in B : asleep' = [asleep EXCEPT ![t] = b]
                           /\ due' = [due EXCEPT ![t] = Settled(b) + Minute]
            BY <1>1, <1>3, <2>1 DEF TypeOK
      <3>3. asleep[x] = b /\ b \in Buckets /\ due'[t] = Settled(b) + Minute
            BY <1>1, <2>1, <3>1, <3>2 DEF TypeOK
      <3>4. due[x] <= Clock(b) /\ due[x] \in Int
            BY <1>1, <2>1, <3>1, <3>3 DEF DueInTime, TypeOK
      <3> QED  BY <1>1, <1>2, <3>1, <3>3, <3>4
    <2>2. CASE u = t
          BY <1>7, <2>1, <2>2
    <2>3. CASE v = t
          BY <1>7, <2>1, <2>3
    <2>4. CASE u # t /\ v # t
      <3>1. /\ asleep'[u] = asleep[u] /\ due'[u] = due[u]
            /\ asleep'[v] = asleep[v] /\ due'[v] = due[v]
            BY <1>1, <1>3, <2>4 DEF TypeOK
      <3> QED  BY <1>1, <1>7, <3>1 DEF DistinctTimes
    <2> QED  BY <2>2, <2>3, <2>4
  <1>8. DueInTime'
        BY <1>6 DEF DueInTime, Clock, Rpm, Known
  <1>9. DistinctTimes'
        BY <1>7 DEF DistinctTimes
  <1> QED  BY <1>4, <1>5, <1>8, <1>9 DEF IInv

(* A sleep that ends, or is cancelled, leaves the clocks alone. *)
LEMMA LeaveKeeps ==
    ASSUME IInv, NEW t \in Tasks, WakeFromGlobal(t) \/ Cancel(t)
    PROVE  IInv'
  <1>1. /\ TypeOK /\ NewIsFull /\ DueInTime /\ DistinctTimes
        /\ Client[t] \in Buckets /\ Global \in Buckets
        BY NamesAssumption DEF IInv, Buckets
  <1>2. /\ asleep' = [asleep EXCEPT ![t] = "none"] /\ due' = [due EXCEPT ![t] = 0]
        /\ UNCHANGED <<now, tokens, lastRefill, clients>>
        BY DEF WakeFromGlobal, Cancel, Pass
  <1>3. passes' \in [Buckets -> Nat]
    <2>1. passes \in [Buckets -> Nat]
          BY <1>1 DEF TypeOK
    <2>2. passes' = passes \/ passes' = [passes EXCEPT ![Client[t]] = @ + 1, ![Global] = @ + 1]
          BY DEF WakeFromGlobal, Cancel, Pass
    <2> QED  BY <1>1, <2>1, <2>2
  <1>4. TypeOK'
        BY <1>1, <1>2, <1>3 DEF TypeOK, Capacity, Rpm
  <1>5. NewIsFull'
        BY <1>1, <1>2 DEF NewIsFull, Known, Capacity, Rpm
  <1>6. \A u \in Tasks : asleep'[u] # "none" => asleep'[u] = asleep[u] /\ due'[u] = due[u]
        BY <1>1, <1>2 DEF TypeOK
  <1>7. DueInTime'
        BY <1>1, <1>2, <1>6 DEF DueInTime, Clock, Rpm, Known
  <1>8. DistinctTimes'
        BY <1>1, <1>6 DEF DistinctTimes
  <1> QED  BY <1>4, <1>5, <1>7, <1>8 DEF IInv

LEMMA InitHolds == Init => IInv
  <1> SUFFICES ASSUME Init PROVE IInv
      OBVIOUS
  <1>1. \A b \in Buckets : Capacity(b) \in Nat
    <2>1. \A b \in Buckets : Rpm(b) \in Nat /\ Minute \in Nat
          BY RatesAssumption DEF Rpm
    <2> QED  BY <2>1, ProductType DEF Capacity
  <1>2. TypeOK
        BY <1>1 DEF Init, TypeOK
  <1> QED  BY <1>2 DEF Init, IInv, NewIsFull, DueInTime, DistinctTimes

LEMMA StepKeeps == IInv /\ [Next]_vars => IInv'
  <1> SUFFICES ASSUME IInv, [Next]_vars PROVE IInv'
      OBVIOUS
  <1>1. TypeOK
        BY DEF IInv
  <1>2. CASE Tick
        BY <1>2 DEF Tick, IInv, TypeOK, NewIsFull, DueInTime, DistinctTimes, Clock, Known, Capacity, Rpm
  <1>3. ASSUME NEW t \in Tasks, Arrive(t) PROVE IInv'
        BY <1>1, <1>3, ArriveAsks, AskKeeps
  <1>4. ASSUME NEW t \in Tasks, WakeFromClient(t) PROVE IInv'
        BY <1>1, <1>4, WakeFromClientAsks, AskKeeps
  <1>5. ASSUME NEW t \in Tasks, WakeFromGlobal(t) \/ Cancel(t) PROVE IInv'
        BY <1>5, LeaveKeeps
  <1>6. CASE UNCHANGED vars
        BY <1>6 DEF vars, IInv, TypeOK, NewIsFull, DueInTime, DistinctTimes, Clock, Known, Capacity, Rpm
  <1> QED  BY <1>2, <1>3, <1>4, <1>5, <1>6 DEF Next

(* Clocks, balances and sleepers agree, however the callers interleave. *)
THEOREM Invariance == Spec => []IInv
  BY InitHolds, StepKeeps, PTL DEF Spec

(* No balance exceeds the capacity of its bucket (rate_limiter.py:62). *)
THEOREM TypeCorrect == Spec => []TypeOK
  <1>1. IInv => TypeOK
        BY DEF IInv
  <1> QED  BY <1>1, Invariance, PTL

(* "They serialize at distinct future times" (rate_limiter.py:37-41). *)
THEOREM TimesAreDistinct == Spec => []DistinctTimes
  <1>1. IInv => DistinctTimes
        BY DEF IInv
  <1> QED  BY <1>1, Invariance, PTL

(* A newcomer never takes a token for which somebody else still sleeps. *)
THEOREM SleepersComeFirst == Spec => []SleepersFirst
  <1>1. IInv => SleepersFirst
    <2> SUFFICES ASSUME IInv, NEW t \in Tasks, asleep[t] # "none"
                 PROVE  Refilled(asleep[t]) <= now * Rpm(asleep[t]) - due[t]
        BY DEF SleepersFirst
    <2> DEFINE b == asleep[t]
    <2>1. TypeOK /\ NewIsFull /\ b \in Buckets /\ due[t] \in Int /\ due[t] <= Clock(b)
          BY DEF IInv, TypeOK, DueInTime
    <2> HIDE DEF b
    <2>2. /\ Refilled(b) = Time(b) - Settled(b) /\ Clock(b) <= Settled(b)
          /\ Time(b) \in Nat /\ Settled(b) \in Int /\ Clock(b) \in Int
          BY <2>1, BalanceByClock, BucketTypes
    <2>3. Refilled(b) <= Time(b) - due[t]
          BY <2>1, <2>2
    <2> QED  BY <2>3 DEF Time, b
  <1> QED  BY <1>1, Invariance, PTL
-----------------------------------------------------------------------------
(* The refinement *)

ClockNow == [b \in Buckets |-> lastRefill[b] * Rpm(b) - tokens[b]]

LEMMA ClockIs == \A b \in Buckets : ClockNow[b] = Clock(b) /\ ClockNow'[b] = Clock(b)'
  BY DEF ClockNow, Clock, Rpm

(* What the schedule grants next, and when that is now. *)
LEMMA GrantedByClock ==
    ASSUME TypeOK, NewIsFull, NEW b \in Buckets
    PROVE  /\ Schedule!Granted(b) = Settled(b) + Minute
           /\ Schedule!GrantsNow(b) <=> HasToken(b)
  <1>1. /\ Minute \in Nat /\ Time(b) \in Nat /\ Settled(b) \in Int /\ Clock(b) \in Int
        /\ Refilled(b) = Time(b) - Settled(b)
        BY BucketTypes, BalanceByClock
  <1>2. Schedule!Time(b) = Time(b) /\ Schedule!Burst(b) = Capacity(b)
        BY DEF Schedule!Time, Schedule!Burst, Time, Capacity
  <1>3. Schedule!Granted(b) = Settled(b) + Minute
        BY <1>1, <1>2, ClockIs DEF Schedule!Granted, ClockNow, Settled
  <1> QED  BY <1>1, <1>2, <1>3 DEF Schedule!GrantsNow, HasToken

(* A call that has a token of every bucket of A, all its own, and asks b.  *)
LEMMA AskRefines ==
    ASSUME IInv, NEW t \in Tasks, NEW A \in SUBSET Buckets, NEW b \in Buckets, b \notin A,
           Take(A \union {b}), now' = now,
           asleep[t] = "none" \/ IsDue(t),
           \A a \in A : HasToken(a),
           Sleep(t, b) \/ (HasToken(b) /\ Pass(t))
    PROVE  Schedule!Next
  <1>1. TypeOK /\ NewIsFull
        BY DEF IInv
  <1>2. Schedule!Free(t)
        BY DEF Schedule!Free, IsDue
  <1>3. \A a \in A : Schedule!GrantsNow(a)
        BY <1>1, GrantedByClock
  <1>4. ClockNow' = [c \in Buckets |->
                        IF c \in A \union {b} THEN Schedule!Granted(c) ELSE ClockNow[c]]
    <2>1. \A c \in Buckets : Clock(c)' =
                IF c \in A \union {b} THEN Schedule!Granted(c) ELSE Clock(c)
          BY <1>1, TakeMovesClock, GrantedByClock
    <2>2. ClockNow' = [c \in Buckets |-> ClockNow'[c]]
          BY DEF ClockNow
    <2> QED  BY <2>1, <2>2, ClockIs
  <1>5. \/ Schedule!WaitFor(t, b)
        \/ /\ Schedule!GrantsNow(b)
           /\ asleep' = [asleep EXCEPT ![t] = "none"] /\ due' = [due EXCEPT ![t] = 0]
    <2>1. CASE Sleep(t, b)
      <3>1. ~Schedule!GrantsNow(b)
            BY <1>1, <2>1, GrantedByClock DEF Sleep
      <3>2. asleep' = [asleep EXCEPT ![t] = b] /\ due' = [due EXCEPT ![t] = Settled(b) + Minute]
            BY <1>1, <2>1, SleepUntilClock
      <3>3. Schedule!Granted(b) = Settled(b) + Minute
            BY <1>1, GrantedByClock
      <3> QED  BY <3>1, <3>2, <3>3 DEF Schedule!WaitFor
    <2>2. CASE HasToken(b) /\ Pass(t)
          BY <1>1, <2>2, GrantedByClock DEF Pass
    <2> QED  BY <2>1, <2>2
  <1>6. Schedule!Ask(t, A, b)
        BY <1>2, <1>3, <1>4, <1>5 DEF Schedule!Ask, ClockNow
  <1> QED  BY <1>6 DEF Schedule!Next

(* A call that asks one bucket. *)
LEMMA AskFirstRefines ==
    ASSUME IInv, NEW t \in Tasks, NEW b \in Buckets, Take({} \union {b}), now' = now,
           asleep[t] = "none" \/ IsDue(t), Sleep(t, b) \/ (HasToken(b) /\ Pass(t))
    PROVE  Schedule!Next
  <1> DEFINE A == {}
  <1>1. A \in SUBSET Buckets /\ b \notin A /\ Take(A \union {b}) /\ \A a \in A : HasToken(a)
        OBVIOUS
  <1> HIDE DEF A
  <1> QED  BY <1>1, AskRefines

LEMMA StepRefines ==
    ASSUME IInv, [Next]_vars
    PROVE  [Schedule!Next]_<<now, ClockNow, asleep, due>>
  <1>1. TypeOK /\ NewIsFull
        BY DEF IInv
  <1>2. CASE Tick
        BY <1>2 DEF Tick, Schedule!Next, Schedule!Tick, ClockNow, Rpm
  <1>3. ASSUME NEW t \in Tasks, Arrive(t) PROVE Schedule!Next
    <2>1. Client[t] \in Buckets /\ Global \in Buckets /\ Client[t] # Global
          BY NamesAssumption DEF Buckets
    <2>2. CASE Sleep(t, Client[t]) /\ Take({Client[t]})
      <3>1. {} \union {Client[t]} = {Client[t]}
            OBVIOUS
      <3>2. Take({} \union {Client[t]})
            BY <2>2, <3>1
      <3>3. asleep[t] = "none" /\ now' = now
            BY <1>3 DEF Arrive
      <3> QED  BY <2>1, <2>2, <3>2, <3>3, AskFirstRefines
    <2>3. CASE /\ HasToken(Client[t]) /\ Take({Client[t], Global})
               /\ Sleep(t, Global) \/ (HasToken(Global) /\ Pass(t))
      <3>1. Take({Client[t]} \union {Global})
        <4>1. {Client[t]} \union {Global} = {Client[t], Global}
              OBVIOUS
        <4> QED  BY <2>3, <4>1
      <3> QED  BY <1>3, <2>1, <2>3, <3>1, AskRefines DEF Arrive
    <2> QED  BY <1>3, <2>2, <2>3 DEF Arrive
  <1>4. ASSUME NEW t \in Tasks, WakeFromClient(t) PROVE Schedule!Next
    <2>1. Global \in Buckets
          BY DEF Buckets
    <2>2. {} \union {Global} = {Global}
          OBVIOUS
    <2>3. /\ Take({} \union {Global}) /\ now' = now /\ IsDue(t)
          /\ Sleep(t, Global) \/ (HasToken(Global) /\ Pass(t))
          BY <1>4, <2>2 DEF WakeFromClient
    <2> QED  BY <2>1, <2>3, AskFirstRefines
  <1>5. ASSUME NEW t \in Tasks, WakeFromGlobal(t) \/ Cancel(t) PROVE Schedule!Next
    <2>1. asleep[t] # "none"
          BY <1>5, NamesAssumption DEF WakeFromGlobal, Cancel
    <2> QED  BY <1>5, <2>1
             DEF WakeFromGlobal, Cancel, Pass, Schedule!Next, Schedule!Leave, ClockNow, Rpm
  <1>6. CASE UNCHANGED vars
        BY <1>6 DEF vars, ClockNow, Rpm
  <1> QED  BY <1>2, <1>3, <1>4, <1>5, <1>6 DEF Next

(* The balances that go negative and the sleeps outside the lock are a     *)
(* virtual schedule with a burst (rate_limiter.py:30-56).                  *)
THEOREM ScheduleIsImplemented == Spec => ImplementsSchedule
  <1>1. Init => Schedule!Init
    <2> SUFFICES ASSUME Init PROVE Schedule!Init
        OBVIOUS
    <2>1. \A b \in Buckets : Rpm(b) \in Nat /\ Minute \in Nat
          BY RatesAssumption DEF Rpm
    <2>2. \A b \in Buckets : 0 * Rpm(b) - Rpm(b) * Minute = -(Rpm(b) * Minute)
          BY <2>1, ProductType
    <2> QED  BY <2>2 DEF Init, Schedule!Init, Schedule!Burst, Capacity
  <1>2. IInv /\ [Next]_vars => [Schedule!Next]_(Schedule!vars)
        BY StepRefines DEF Schedule!vars, ClockNow
  <1> QED  BY <1>1, <1>2, Invariance, PTL DEF Spec, ImplementsSchedule, Schedule!Spec

-----------------------------------------------------------------------------
(* Throughput: no bucket lets through more than it holds and refills.      *)
(* Passes alone are no invariant: the calls that hold a token and have not *)
(* returned count too, each from the instant it may return at, and so the  *)
(* bound has to hold for every instant to come.                            *)

Sleepers == {t \in Tasks : asleep[t] # "none"}

(* The calls that have a token of b and may return by the instant x: they  *)
(* are due by then, or sleep for the global bucket only.                   *)
Holders(b, x) == {t \in Tasks :
    \/ asleep[t] = b /\ due[t] <= x
    \/ asleep[t] = Global /\ b = Client[t]}

Load(b, x) == passes[b] + Cardinality(Holders(b, x))

(* The bound, for every instant from now, or from the clock, on. *)
Covered(b) == \A x \in Int : Time(b) <= x \/ Clock(b) <= x =>
    Load(b, x) * Minute <= Capacity(b) + x

JInv == IInv /\ IsFiniteSet(Sleepers) /\ \A b \in Buckets : Covered(b)
-----------------------------------------------------------------------------
(* Counting *)

LEMMA ProductIsMonotonic ==
    ASSUME NEW m \in Nat, NEW n \in Nat, NEW k \in Nat, m <= n
    PROVE  m * k <= n * k /\ m * k \in Int /\ n * k \in Int
  <1>1. (n - m) * k \in Nat
        BY ProductType
  <1>2. (n - m) * k = n * k - m * k
        BY ProductOfDifference
  <1> QED  BY <1>1, <1>2, ProductType

LEMMA ProductOfNext == ASSUME NEW n \in Nat, NEW k \in Nat PROVE (n + 1) * k = n * k + k
  OBVIOUS

(* A set that differs from another in t at most. *)
LEMMA OneMore ==
    ASSUME NEW S, NEW R, NEW t, IsFiniteSet(S), R \subseteq S \union {t}
    PROVE  /\ IsFiniteSet(R) /\ Cardinality(R) \in Nat /\ Cardinality(S) \in Nat
           /\ Cardinality(R) <= Cardinality(S) + 1
           /\ t \in S \/ t \notin R => Cardinality(R) <= Cardinality(S)
           /\ t \in S /\ t \notin R => Cardinality(R) + 1 <= Cardinality(S)
  <1>1. /\ IsFiniteSet(S \union {t}) /\ Cardinality(S) \in Nat
        /\ Cardinality(S \union {t}) \in Nat
        BY FS_AddElement, FS_CardinalityType
  <1>2. IsFiniteSet(R) /\ Cardinality(R) \in Nat /\ Cardinality(R) <= Cardinality(S \union {t})
        BY <1>1, FS_Subset, FS_CardinalityType
  <1>3. Cardinality(S \union {t}) <= Cardinality(S) + 1
        BY <1>1, FS_AddElement
  <1>4. ASSUME t \in S \/ t \notin R PROVE Cardinality(R) <= Cardinality(S)
    <2>1. R \subseteq S
          BY <1>4
    <2> QED  BY <2>1, FS_Subset
  <1>5. ASSUME t \in S, t \notin R PROVE Cardinality(R) + 1 <= Cardinality(S)
    <2>1. IsFiniteSet(S \ {t}) /\ Cardinality(S \ {t}) = Cardinality(S) - 1
          BY <1>5, FS_RemoveElement
    <2>2. R \subseteq S \ {t}
          BY <1>5
    <2>3. Cardinality(R) <= Cardinality(S \ {t})
          BY <2>1, <2>2, FS_Subset
    <2> QED  BY <1>1, <1>2, <2>1, <2>3
  <1> QED  BY <1>1, <1>2, <1>3, <1>4, <1>5

LEMMA HoldersAreFinite ==
    ASSUME JInv, NEW b \in Buckets, NEW x \in Int
    PROVE  IsFiniteSet(Holders(b, x)) /\ Load(b, x) \in Nat
  <1>1. "none" \notin Buckets /\ Global \in Buckets
        BY NamesAssumption DEF Buckets
  <1>2. Holders(b, x) \subseteq Sleepers
        BY <1>1 DEF Holders, Sleepers
  <1>3. IsFiniteSet(Holders(b, x)) /\ Cardinality(Holders(b, x)) \in Nat
        BY <1>2, FS_Subset, FS_CardinalityType DEF JInv
  <1> QED  BY <1>3 DEF Load, JInv, IInv, TypeOK

(* All that hold a token of b are due by its clock. *)
LEMMA HeldByClock ==
    ASSUME IInv, NEW b \in Buckets, NEW x \in Int, NEW y \in Int, Clock(b) <= y
    PROVE  Holders(b, x) \subseteq Holders(b, y)
  <1>1. "none" \notin Buckets /\ TypeOK /\ DueInTime /\ Clock(b) \in Int
        BY NamesAssumption, BucketTypes DEF IInv, Buckets
  <1>2. \A t \in Tasks : asleep[t] = b => due[t] <= Clock(b) /\ due[t] \in Int
        BY <1>1 DEF DueInTime, TypeOK
  <1> QED  BY <1>1, <1>2 DEF Holders
-----------------------------------------------------------------------------
(* A step of one task *)

Others(t) == \A u \in Tasks \ {t} : asleep'[u] = asleep[u] /\ due'[u] = due[u]

LEMMA HoldersChange ==
    ASSUME NEW t \in Tasks, Others(t), NEW b, NEW x
    PROVE  Holders(b, x)' \subseteq Holders(b, x) \union {t}
  BY DEF Holders, Others

(* A bucket whose clock stands still: what t holds may pass or be let go.  *)
LEMMA KeptIsCovered ==
    ASSUME JInv, NEW t \in Tasks, Others(t), NEW b \in Buckets,
           now' = now, Clock(b)' = Clock(b), passes'[b] \in Nat,
           \A x \in Int : Time(b) <= x \/ Clock(b) <= x =>
              \/ passes'[b] = passes[b] /\ (t \in Holders(b, x) \/ t \notin Holders(b, x)')
              \/ passes'[b] = passes[b] + 1 /\ t \in Holders(b, x) /\ t \notin Holders(b, x)'
    PROVE  Covered(b)'
  <1> SUFFICES ASSUME NEW x \in Int, Time(b)' <= x \/ Clock(b)' <= x
               PROVE  Load(b, x)' * Minute <= Capacity(b)' + x
      BY DEF Covered
  <1>1. Time(b)' = Time(b) /\ Capacity(b)' = Capacity(b)
        BY DEF Time, Capacity, Rpm
  <1>2. /\ Load(b, x) * Minute <= Capacity(b) + x
        /\ IsFiniteSet(Holders(b, x)) /\ Load(b, x) \in Nat
        /\ Minute \in Nat /\ Capacity(b) \in Nat /\ passes[b] \in Nat
        BY <1>1, HoldersAreFinite, BucketTypes DEF JInv, IInv, TypeOK, Covered
  <1>3. Holders(b, x)' \subseteq Holders(b, x) \union {t}
        BY HoldersChange
  <1>4. Load(b, x)' \in Nat /\ Load(b, x)' <= Load(b, x)
    <2> DEFINE S == Holders(b, x)
               R == Holders(b, x)'
    <2>1. /\ Cardinality(R) \in Nat /\ Cardinality(S) \in Nat
          /\ t \in S \/ t \notin R => Cardinality(R) <= Cardinality(S)
          /\ t \in S /\ t \notin R => Cardinality(R) + 1 <= Cardinality(S)
      <3>1. IsFiniteSet(S) /\ R \subseteq S \union {t}
            BY <1>2, <1>3
      <3> HIDE DEF S, R
      <3> QED  BY <3>1, OneMore
    <2>2. \/ passes'[b] = passes[b] /\ (t \in S \/ t \notin R)
          \/ passes'[b] = passes[b] + 1 /\ t \in S /\ t \notin R
          BY <1>1
    <2>3. Load(b, x) = passes[b] + Cardinality(S) /\ Load(b, x)' = passes'[b] + Cardinality(R)
          BY DEF Load
    <2> HIDE DEF S, R
    <2> QED  BY <1>2, <2>1, <2>2, <2>3
  <1>5. Load(b, x)' * Minute <= Load(b, x) * Minute
        BY <1>2, <1>4, ProductIsMonotonic
  <1> QED  BY <1>1, <1>2, <1>4, <1>5, ProductIsMonotonic

(* A bucket from which t takes a token, to return by the clock at last. *)
LEMMA TakenIsCovered ==
    ASSUME JInv, NEW t \in Tasks, Others(t), NEW b \in Buckets,
           now' = now, Clock(b)' = Settled(b) + Minute, passes'[b] \in Nat,
           t \notin Holders(b, Settled(b)),
           \A x \in Int :
              \/ passes'[b] = passes[b] /\ (t \notin Holders(b, x)' \/ Clock(b)' <= x)
              \/ /\ passes'[b] = passes[b] \/ (passes'[b] = passes[b] + 1 /\ t \notin Holders(b, x)')
                 /\ Settled(b) + Minute <= Time(b)
    PROVE  Covered(b)'
  <1> SUFFICES ASSUME NEW x \in Int, Time(b)' <= x \/ Clock(b)' <= x
               PROVE  Load(b, x)' * Minute <= Capacity(b)' + x
      BY DEF Covered
  <1>1. Time(b)' = Time(b) /\ Capacity(b)' = Capacity(b)
        BY DEF Time, Capacity, Rpm
  <1>2. /\ Minute \in Nat /\ Capacity(b) \in Nat /\ passes[b] \in Nat
        /\ Settled(b) \in Int /\ Clock(b) \in Int /\ Clock(b) <= Settled(b) /\ Time(b) \in Nat
        /\ IInv
        BY BucketTypes DEF JInv, IInv, TypeOK
  <1>3. Holders(b, x)' \subseteq Holders(b, x) \union {t}
        BY HoldersChange
  <1>4. CASE Settled(b) + Minute <= x
    <2>1. Load(b, Settled(b)) * Minute <= Capacity(b) + Settled(b)
          BY <1>2 DEF JInv, Covered
    <2>2. Holders(b, x)' \subseteq Holders(b, Settled(b)) \union {t}
          BY <1>2, <1>3, HeldByClock
    <2>3. IsFiniteSet(Holders(b, Settled(b))) /\ Load(b, Settled(b)) \in Nat
          BY <1>2, HoldersAreFinite
    <2>4. Load(b, x)' \in Nat /\ Load(b, x)' <= Load(b, Settled(b)) + 1
      <3> DEFINE S == Holders(b, Settled(b))
                 R == Holders(b, x)'
      <3>1. /\ Cardinality(R) \in Nat /\ Cardinality(S) \in Nat
            /\ Cardinality(R) <= Cardinality(S) + 1
            /\ t \notin R => Cardinality(R) <= Cardinality(S)
        <4>1. IsFiniteSet(S) /\ R \subseteq S \union {t}
              BY <2>2, <2>3
        <4> HIDE DEF S, R
        <4> QED  BY <4>1, OneMore
      <3>2. \/ passes'[b] = passes[b]
            \/ passes'[b] = passes[b] + 1 /\ t \notin R
            OBVIOUS
      <3>3. /\ Load(b, Settled(b)) = passes[b] + Cardinality(S)
            /\ Load(b, x)' = passes'[b] + Cardinality(R)
            BY DEF Load
      <3> HIDE DEF S, R
      <3> QED  BY <1>2, <3>1, <3>2, <3>3
    <2>5. /\ Load(b, x)' * Minute <= (Load(b, Settled(b)) + 1) * Minute
          /\ Load(b, x)' * Minute \in Int /\ Load(b, Settled(b)) * Minute \in Int
          BY <1>2, <2>3, <2>4, ProductIsMonotonic
    <2>6. (Load(b, Settled(b)) + 1) * Minute = Load(b, Settled(b)) * Minute + Minute
          BY <1>2, <2>3, ProductOfNext
    <2> QED  BY <1>1, <1>2, <1>4, <2>1, <2>5, <2>6
  <1>5. CASE ~(Settled(b) + Minute <= x)
    <2>1. Time(b) <= x /\ passes'[b] = passes[b] /\ t \notin Holders(b, x)'
          BY <1>1, <1>2, <1>5
    <2>2. Load(b, x) * Minute <= Capacity(b) + x /\ Load(b, x) \in Nat
          BY <2>1, HoldersAreFinite DEF JInv, Covered
    <2>3. IsFiniteSet(Holders(b, x))
          BY HoldersAreFinite
    <2>4. Load(b, x)' \in Nat /\ Load(b, x)' <= Load(b, x)
          BY <1>2, <1>3, <2>1, <2>3, OneMore DEF Load
    <2>5. /\ Load(b, x)' * Minute <= Load(b, x) * Minute
          /\ Load(b, x)' * Minute \in Int /\ Load(b, x) * Minute \in Int
          BY <1>2, <2>2, <2>4, ProductIsMonotonic
    <2> QED  BY <1>1, <1>2, <2>2, <2>5
  <1> QED  BY <1>4, <1>5
-----------------------------------------------------------------------------
(* The invariant *)

(* What each kind of call does to the passes of a bucket. *)
LEMMA PassCounts ==
    ASSUME TypeOK, NEW t \in Tasks, Pass(t)
    PROVE  \A b \in Buckets : passes'[b] =
              IF b \in {Client[t], Global} THEN passes[b] + 1 ELSE passes[b]
  <1>1. Client[t] \in Buckets /\ Global \in Buckets /\ Client[t] # Global
        BY NamesAssumption DEF Buckets
  <1>2. passes \in [Buckets -> Nat]
        BY DEF TypeOK
  <1>3. passes' = [passes EXCEPT ![Client[t]] = @ + 1, ![Global] = @ + 1]
        BY DEF Pass
  <1> QED  BY <1>1, <1>2, <1>3

LEMMA ChangesOne ==
    ASSUME TypeOK, NEW t \in Tasks, NEW p, NEW d,
           asleep' = [asleep EXCEPT ![t] = p], due' = [due EXCEPT ![t] = d]
    PROVE  /\ Others(t) /\ asleep'[t] = p /\ due'[t] = d
           /\ Sleepers' \subseteq Sleepers \union {t}
  BY DEF TypeOK, Others, Sleepers

(* A sleep without tokens ends at the clock, and a bucket has a token when *)
(* its clock has one interval to go.                                       *)
LEMMA HasTokenByClock ==
    ASSUME TypeOK, NewIsFull, NEW b \in Buckets, HasToken(b)
    PROVE  Settled(b) + Minute <= Time(b)
  <1>1. Refilled(b) = Time(b) - Settled(b) /\ Minute \in Nat
        /\ Time(b) \in Nat /\ Settled(b) \in Int
        BY BalanceByClock, BucketTypes
  <1> QED  BY <1>1 DEF HasToken

(* A task that is due holds a token of its bucket now, and by the clock.   *)
LEMMA DueHolds ==
    ASSUME IInv, NEW t \in Tasks, NEW b \in Buckets, asleep[t] = b, IsDue(t), NEW x \in Int,
           Time(b) <= x \/ Clock(b) <= x
    PROVE  t \in Holders(b, x)
  <1>1. /\ due[t] \in Int /\ Time(b) \in Nat /\ Clock(b) \in Int /\ b # "none"
        /\ due[t] <= Time(b) /\ due[t] <= Clock(b)
    <2>1. TypeOK /\ DueInTime /\ b # "none"
          BY NamesAssumption DEF IInv, Buckets
    <2>2. Time(b) \in Nat /\ Clock(b) \in Int
          BY <2>1, BucketTypes
    <2>3. due[t] \in Int /\ due[t] <= Clock(b)
          BY <2>1 DEF TypeOK, DueInTime
    <2>4. Time(b) >= due[t]
          BY DEF IsDue, Time
    <2> QED  BY <2>1, <2>2, <2>3, <2>4
  <1>2. due[t] <= x
        BY <1>1
  <1> QED  BY <1>2 DEF Holders

(* Where a call that asks for tokens comes from, and how it ends. *)
Comes(t, B) ==
    \/ asleep[t] = "none" /\ Client[t] \in B
    \/ asleep[t] = Client[t] /\ IsDue(t) /\ B = {Global}
Sleeps(t, B, s) ==
    /\ Sleep(t, s)
    /\ \/ B = {s}
       \/ s = Global /\ B = {Client[t], Global} /\ HasToken(Client[t])
Passes(t, B) == Pass(t) /\ Global \in B /\ \A b \in B : HasToken(b)

LEMMA AskIsCovered ==
    ASSUME JInv, NEW t \in Tasks, NEW B, Asks(t, B), Comes(t, B),
           (\E s \in B : Sleeps(t, B, s)) \/ Passes(t, B)
    PROVE  IsFiniteSet(Sleepers)' /\ \A b \in Buckets : Covered(b)'
  <1>1. /\ TypeOK /\ NewIsFull /\ IInv /\ IInv' /\ TypeOK' /\ Take(B) /\ now' = now
        BY AskKeeps DEF JInv, IInv, Asks
  <1>2. /\ Client[t] \in Buckets /\ Global \in Buckets /\ Client[t] # Global
        /\ Client[t] # "none" /\ Global # "none" /\ B \in SUBSET Buckets
        /\ B \subseteq {Client[t], Global}
        BY NamesAssumption DEF Buckets, Asks
  <1>3. PICK p, d : asleep' = [asleep EXCEPT ![t] = p] /\ due' = [due EXCEPT ![t] = d]
    <2>1. ASSUME NEW s \in B, Sleeps(t, B, s)
          PROVE  \E p, d : asleep' = [asleep EXCEPT ![t] = p] /\ due' = [due EXCEPT ![t] = d]
      <3>1. Sleep(t, s) /\ s \in Buckets
            BY <1>2, <2>1 DEF Sleeps
      <3> QED  BY <1>1, <3>1, SleepUntilClock
    <2>2. ASSUME Passes(t, B)
          PROVE  \E p, d : asleep' = [asleep EXCEPT ![t] = p] /\ due' = [due EXCEPT ![t] = d]
          BY <2>2 DEF Passes, Pass
    <2> QED  BY <2>1, <2>2
  <1>4. Others(t) /\ Sleepers' \subseteq Sleepers \union {t}
        BY <1>1, <1>3, ChangesOne
  <1>5. IsFiniteSet(Sleepers)'
        BY <1>4, OneMore DEF JInv
  <1>6. ASSUME NEW b \in Buckets PROVE Covered(b)'
    <2>1. /\ Clock(b)' = IF b \in B THEN Settled(b) + Minute ELSE Clock(b)
          /\ passes[b] \in Nat /\ passes'[b] \in Nat
          BY <1>1, <1>2, TakeMovesClock DEF TypeOK
    <2>2. t \notin Holders(b, Settled(b)) \/ b \notin B
          BY <1>2 DEF Comes, Holders
    <2>3. ASSUME NEW s \in B, Sleeps(t, B, s) PROVE Covered(b)'
      <3>1. /\ asleep'[t] = s /\ due'[t] = Settled(s) + Minute /\ passes'[b] = passes[b]
        <4>1. Sleep(t, s) /\ s \in Buckets
              BY <1>2, <2>3 DEF Sleeps
        <4>2. /\ asleep' = [asleep EXCEPT ![t] = s] /\ passes' = passes
              /\ due' = [due EXCEPT ![t] = Settled(s) + Minute]
              BY <1>1, <4>1, SleepUntilClock
        <4>3. asleep \in [Tasks -> Buckets \union {"none"}] /\ due \in [Tasks -> Int]
              BY <1>1 DEF TypeOK
        <4> QED  BY <4>2, <4>3
      <3>2. CASE b \in B /\ b = s
        <4>1. \A x \in Int : t \notin Holders(b, x)' \/ Clock(b)' <= x
              BY <1>2, <2>1, <3>1, <3>2 DEF Holders
        <4> QED  BY <1>1, <1>4, <2>1, <2>2, <3>1, <3>2, <4>1, TakenIsCovered
      <3>3. CASE b \in B /\ b # s
        <4>1. HasToken(b)
              BY <1>2, <2>3, <3>3 DEF Sleeps
        <4>2. Settled(b) + Minute <= Time(b)
              BY <1>1, <4>1, HasTokenByClock
        <4> QED  BY <1>1, <1>4, <2>1, <2>2, <3>1, <3>3, <4>2, TakenIsCovered
      <3>4. CASE b \notin B
        <4>1. ASSUME NEW x \in Int, Time(b) <= x \/ Clock(b) <= x
              PROVE  t \in Holders(b, x) \/ t \notin Holders(b, x)'
          <5>1. CASE asleep[t] = "none" \/ b # Client[t]
                BY <1>2, <3>1, <3>4, <5>1 DEF Holders, Comes
          <5>2. CASE asleep[t] = Client[t] /\ IsDue(t) /\ b = Client[t]
                BY <1>1, <4>1, <5>2, DueHolds
          <5> QED  BY <5>1, <5>2 DEF Comes
        <4> QED  BY <1>1, <1>4, <2>1, <3>1, <3>4, <4>1, KeptIsCovered
      <3> QED  BY <3>2, <3>3, <3>4
    <2>4. CASE Passes(t, B)
      <3>1. /\ asleep'[t] = "none"
            /\ passes'[b] = IF b \in {Client[t], Global} THEN passes[b] + 1 ELSE passes[b]
            /\ \A x : t \notin Holders(b, x)'
        <4>1. Pass(t)
              BY <2>4 DEF Passes
        <4>2. asleep'[t] = "none"
              BY <1>1, <4>1 DEF Pass, TypeOK
        <4>3. b # "none"
              BY NamesAssumption DEF Buckets
        <4> QED  BY <1>1, <1>2, <4>1, <4>2, <4>3, PassCounts DEF Holders
      <3>2. CASE b \in B
        <4>1. HasToken(b)
              BY <2>4, <3>2 DEF Passes
        <4>2. Settled(b) + Minute <= Time(b)
              BY <1>1, <4>1, HasTokenByClock
        <4> QED  BY <1>1, <1>2, <1>4, <2>1, <2>2, <3>1, <3>2, <4>2, TakenIsCovered
      <3>3. CASE b \notin B /\ b = Client[t]
        <4>1. asleep[t] = b /\ IsDue(t)
              BY <3>3 DEF Comes
        <4>2. \A x \in Int : Time(b) <= x \/ Clock(b) <= x => t \in Holders(b, x)
              BY <1>1, <4>1, DueHolds
        <4> QED  BY <1>1, <1>4, <2>1, <3>1, <3>3, <4>2, KeptIsCovered
      <3>4. CASE b \notin B /\ b # Client[t]
        <4>1. b # Global
              BY <2>4, <3>4 DEF Passes
        <4> QED  BY <1>1, <1>4, <2>1, <3>1, <3>4, <4>1, KeptIsCovered
      <3> QED  BY <3>2, <3>3, <3>4
    <2> QED  BY <2>3, <2>4
  <1> QED  BY <1>5, <1>6

(* A sleep for the global bucket that ends, or one that is cancelled. *)
LEMMA LeaveIsCovered ==
    ASSUME JInv, NEW t \in Tasks, WakeFromGlobal(t) \/ Cancel(t)
    PROVE  IsFiniteSet(Sleepers)' /\ \A b \in Buckets : Covered(b)'
  <1>1. TypeOK /\ IInv /\ IInv' /\ TypeOK' /\ now' = now
        BY LeaveKeeps DEF JInv, IInv, WakeFromGlobal, Cancel
  <1>2. /\ asleep' = [asleep EXCEPT ![t] = "none"] /\ due' = [due EXCEPT ![t] = 0]
        /\ tokens' = tokens /\ lastRefill' = lastRefill
        BY DEF WakeFromGlobal, Cancel, Pass
  <1>3. Others(t) /\ asleep'[t] = "none" /\ Sleepers' \subseteq Sleepers \union {t}
        BY <1>1, <1>2, ChangesOne
  <1>4. IsFiniteSet(Sleepers)'
        BY <1>3, OneMore DEF JInv
  <1>5. ASSUME NEW b \in Buckets PROVE Covered(b)'
    <2>1. /\ Clock(b)' = Clock(b) /\ passes[b] \in Nat /\ passes'[b] \in Nat
          /\ \A x : t \notin Holders(b, x)'
      <3>1. b # "none" /\ Global # "none"
            BY NamesAssumption DEF Buckets
      <3> QED  BY <1>1, <1>2, <1>3, <3>1 DEF Clock, Rpm, TypeOK, Holders
    <2>2. CASE Cancel(t)
      <3>1. passes'[b] = passes[b]
            BY <2>2 DEF Cancel
      <3> QED  BY <1>1, <1>3, <2>1, <3>1, KeptIsCovered
    <2>3. CASE WakeFromGlobal(t)
      <3>1. /\ asleep[t] = Global /\ IsDue(t) /\ Global \in Buckets
            /\ passes'[b] = IF b \in {Client[t], Global} THEN passes[b] + 1 ELSE passes[b]
            BY <1>1, <2>3, PassCounts DEF WakeFromGlobal, Buckets
      <3>2. ASSUME b \in {Client[t], Global}, NEW x \in Int, Time(b) <= x \/ Clock(b) <= x
            PROVE  t \in Holders(b, x)
        <4>1. CASE b = Global
              BY <1>1, <3>1, <3>2, <4>1, DueHolds
        <4>2. CASE b = Client[t]
              BY <3>1, <4>2 DEF Holders
        <4> QED  BY <3>2, <4>1, <4>2
      <3> QED  BY <1>1, <1>3, <2>1, <3>1, <3>2, KeptIsCovered
    <2> QED  BY <2>2, <2>3
  <1> QED  BY <1>4, <1>5

(* As time passes the bound has to hold for fewer instants. *)
LEMMA TickIsCovered ==
    ASSUME JInv, Tick
    PROVE  IsFiniteSet(Sleepers)' /\ \A b \in Buckets : Covered(b)'
  <1>1. UNCHANGED <<tokens, lastRefill, clients, asleep, due, passes>> /\ now' = now + 1
        BY DEF Tick
  <1>2. IsFiniteSet(Sleepers)'
        BY <1>1 DEF JInv, Sleepers
  <1>3. ASSUME NEW b \in Buckets PROVE Covered(b)'
    <2>1. TypeOK
          BY DEF JInv, IInv
    <2>2. /\ Clock(b)' = Clock(b) /\ Capacity(b)' = Capacity(b)
          /\ \A x : Load(b, x)' = Load(b, x)
          BY <1>1 DEF Clock, Capacity, Rpm, Load, Holders
    <2>3. Time(b) <= Time(b)' /\ Time(b) \in Nat /\ Time(b)' \in Nat
      <3>1. now \in Nat /\ Rpm(b) \in Nat
            BY <2>1, BucketTypes DEF TypeOK
      <3>2. Time(b)' = now' * Rpm(b)
            BY DEF Time, Rpm
      <3> QED  BY <1>1, <3>1, <3>2, ProductOfNext, ProductType DEF Time
    <2> QED  BY <2>2, <2>3 DEF JInv, Covered
  <1> QED  BY <1>2, <1>3

LEMMA CoverStep == JInv /\ [Next]_vars => JInv'
  <1> SUFFICES ASSUME JInv, [Next]_vars PROVE JInv'
      OBVIOUS
  <1>1. IInv /\ IInv' /\ TypeOK
        BY StepKeeps DEF JInv, IInv
  <1>2. CASE Tick
        BY <1>1, <1>2, TickIsCovered DEF JInv
  <1>3. ASSUME NEW t \in Tasks, Arrive(t) PROVE JInv'
    <2>1. CASE Sleep(t, Client[t]) /\ Take({Client[t]})
      <3>1. Asks(t, {Client[t]})
            BY <1>1, <1>3, <2>1, NamesAssumption DEF Arrive, Asks, TypeOK
      <3>2. Comes(t, {Client[t]}) /\ Sleeps(t, {Client[t]}, Client[t])
            BY <1>3, <2>1 DEF Arrive, Comes, Sleeps
      <3> QED  BY <1>1, <3>1, <3>2, AskIsCovered DEF JInv
    <2>2. CASE /\ HasToken(Client[t]) /\ Take({Client[t], Global})
               /\ Sleep(t, Global) \/ (HasToken(Global) /\ Pass(t))
      <3>1. Asks(t, {Client[t], Global})
            BY <1>1, <1>3, <2>2, NamesAssumption DEF Arrive, Asks, TypeOK
      <3>2. /\ Comes(t, {Client[t], Global})
            /\ \/ Sleeps(t, {Client[t], Global}, Global)
               \/ Passes(t, {Client[t], Global})
        <4>1. asleep[t] = "none"
              BY <1>3 DEF Arrive
        <4>2. CASE Sleep(t, Global)
              BY <2>2, <4>1, <4>2 DEF Comes, Sleeps
        <4>3. CASE HasToken(Global) /\ Pass(t)
              BY <2>2, <4>1, <4>3 DEF Comes, Passes
        <4> QED  BY <2>2, <4>2, <4>3
      <3> QED  BY <1>1, <3>1, <3>2, AskIsCovered DEF JInv
    <2> QED  BY <1>3, <2>1, <2>2 DEF Arrive
  <1>4. ASSUME NEW t \in Tasks, WakeFromClient(t) PROVE JInv'
    <2>1. Asks(t, {Global})
          BY <1>1, <1>4, WakeFromClientAsks
    <2>2. Comes(t, {Global}) /\ (Sleeps(t, {Global}, Global) \/ Passes(t, {Global}))
      <3>1. /\ asleep[t] = Client[t] /\ IsDue(t)
            /\ Sleep(t, Global) \/ (HasToken(Global) /\ Pass(t))
            BY <1>4 DEF WakeFromClient
      <3>2. CASE Sleep(t, Global)
            BY <3>1, <3>2 DEF Comes, Sleeps
      <3>3. CASE HasToken(Global) /\ Pass(t)
            BY <3>1, <3>3 DEF Comes, Passes
      <3> QED  BY <3>1, <3>2, <3>3
    <2> QED  BY <1>1, <2>1, <2>2, AskIsCovered DEF JInv
  <1>5. ASSUME NEW t \in Tasks, WakeFromGlobal(t) \/ Cancel(t) PROVE JInv'
        BY <1>1, <1>5, LeaveIsCovered DEF JInv
  <1>6. CASE UNCHANGED vars
        BY <1>1, <1>6
           DEF vars, JInv, Sleepers, Covered, Load, Holders, Time, Clock, Capacity, Rpm
  <1> QED  BY <1>2, <1>3, <1>4, <1>5, <1>6 DEF Next

LEMMA CoverInit == Init => JInv
  <1> SUFFICES ASSUME Init PROVE JInv
      OBVIOUS
  <1>1. IInv /\ TypeOK
        BY InitHolds DEF IInv
  <1>2. Sleepers = {}
        BY DEF Init, Sleepers
  <1>3. ASSUME NEW b \in Buckets, NEW x \in Int, Time(b) <= x \/ Clock(b) <= x
        PROVE  Load(b, x) * Minute <= Capacity(b) + x
    <2>1. Holders(b, x) = {}
          BY NamesAssumption DEF Init, Holders, Buckets
    <2>2. Load(b, x) = 0
          BY <2>1, FS_EmptySet DEF Load, Init
    <2>3. Capacity(b) \in Nat /\ Time(b) \in Nat /\ Rpm(b) \in Nat /\ Minute \in Nat
          BY <1>1, BucketTypes
    <2>4. Clock(b) = -Capacity(b)
      <3>1. lastRefill[b] = 0 /\ tokens[b] = Capacity(b)
            BY DEF Init
      <3> QED  BY <2>3, <3>1 DEF Clock
    <2> QED  BY <1>3, <2>2, <2>3, <2>4
  <1> QED  BY <1>1, <1>2, <1>3, FS_EmptySet DEF JInv, Covered

(* However callers interleave, sleep late or are cancelled, a bucket lets  *)
(* through its capacity and what the elapsed time refills                  *)
(* (rate_limiter.py:10-12).                                                *)
THEOREM ThroughputHolds == Spec => []Throughput
  <1>1. JInv => Throughput
    <2> SUFFICES ASSUME JInv, NEW b \in Buckets
                 PROVE  passes[b] * Minute <= Capacity(b) + now * Rpm(b)
        BY DEF Throughput
    <2>1. TypeOK /\ passes[b] \in Nat
          BY DEF JInv, IInv, TypeOK
    <2>2. Time(b) \in Nat /\ Minute \in Nat /\ Capacity(b) \in Nat
          BY <2>1, BucketTypes
    <2>3. Load(b, Time(b)) * Minute <= Capacity(b) + Time(b)
          BY <2>2 DEF JInv, Covered
    <2>4. IsFiniteSet(Holders(b, Time(b))) /\ Load(b, Time(b)) \in Nat
          BY <2>2, HoldersAreFinite
    <2>5. passes[b] <= Load(b, Time(b))
      <3>1. Cardinality(Holders(b, Time(b))) \in Nat
            BY <2>4, FS_CardinalityType
      <3> QED  BY <2>1, <3>1 DEF Load
    <2>6. /\ passes[b] * Minute <= Load(b, Time(b)) * Minute
          /\ passes[b] * Minute \in Int /\ Load(b, Time(b)) * Minute \in Int
          BY <2>1, <2>2, <2>4, <2>5, ProductIsMonotonic
    <2>7. passes[b] * Minute <= Capacity(b) + Time(b)
          BY <2>2, <2>3, <2>6
    <2> QED  BY <2>7 DEF Time
  <1> QED  BY <1>1, CoverInit, CoverStep, PTL DEF Spec

=============================================================================
