-------------------------- MODULE AdmissionProofs ---------------------------
(***************************************************************************)
(* For any number of tasks and clients and any limits: the counters, the   *)
(* permits and the bounds of the gate; that no wake-up is lost and nobody  *)
(* is overtaken; and that the gate implements AdmissionSpec.               *)
(***************************************************************************)
EXTENDS AdmissionControl, FiniteSetTheorems, SequenceTheorems, TLAPS

-----------------------------------------------------------------------------
(* Lemmas about sequences without repetition *)

(* Appending a new element. *)
LEMMA AppendNew ==
    ASSUME NEW S, NEW q \in Seq(S), IsInjective(q), NEW x \in S, x \notin Range(q)
    PROVE  /\ Append(q, x) \in Seq(S)
           /\ IsInjective(Append(q, x))
           /\ Range(Append(q, x)) = Range(q) \union {x}
<1>1. /\ Append(q, x) \in Seq(S)
      /\ DOMAIN Append(q, x) = 1..(Len(q) + 1)
      /\ \A i \in 1..Len(q) : Append(q, x)[i] = q[i]
      /\ Append(q, x)[Len(q) + 1] = x
      /\ DOMAIN q = 1..Len(q) /\ Len(q) \in Nat
  OBVIOUS
<1>2. IsInjective(Append(q, x))
  BY <1>1 DEF IsInjective, Range
<1>3. Range(Append(q, x)) = Range(q) \union {x}
  BY <1>1 DEF Range
<1> QED BY <1>1, <1>2, <1>3

(* What is where when an element has been removed from its place k.        *)
LEMMA WithoutPlaces ==
    ASSUME NEW S, NEW q \in Seq(S), NEW x \in Range(q)
    PROVE  /\ Without(q, x) \in Seq(S) /\ DOMAIN Without(q, x) = 1..(Len(q) - 1)
           /\ \E k \in DOMAIN q : q[k] = x /\ \A i \in 1..(Len(q) - 1) :
                 Without(q, x)[i] = IF i < k THEN q[i] ELSE q[i + 1]
<1> DEFINE k == CHOOSE i \in DOMAIN q : q[i] = x
           w == Without(q, x)
<1>1. k \in DOMAIN q /\ q[k] = x
  BY DEF Range
<1>2. DOMAIN q = 1..Len(q) /\ Len(q) \in Nat
  OBVIOUS
<1>3. /\ w \in Seq(S)
      /\ DOMAIN w = 1..(Len(q) - 1)
      /\ \A i \in 1..(Len(q) - 1) : w[i] = IF i < k THEN q[i] ELSE q[i + 1]
  <2>1. w = SubSeq(q, 1, k - 1) \o SubSeq(q, k + 1, Len(q))
    BY DEF Without, RemoveAt
  <2> HIDE DEF w, k
  <2>2. /\ SubSeq(q, 1, k - 1) \in Seq(S) /\ Len(SubSeq(q, 1, k - 1)) = k - 1
        /\ \A i \in 1..(k - 1) : SubSeq(q, 1, k - 1)[i] = q[i]
    BY <1>1, <1>2
  <2>3. /\ SubSeq(q, k + 1, Len(q)) \in Seq(S) /\ Len(SubSeq(q, k + 1, Len(q))) = Len(q) - k
        /\ \A i \in 1..(Len(q) - k) : SubSeq(q, k + 1, Len(q))[i] = q[i + k]
    BY <1>1, <1>2
  <2>4. w \in Seq(S) /\ Len(w) = Len(q) - 1
    <3> DEFINE u == SubSeq(q, 1, k - 1)
               v == SubSeq(q, k + 1, Len(q))
    <3>1. u \in Seq(S) /\ v \in Seq(S) /\ w = u \o v
      BY <2>1, <2>2, <2>3
    <3>2. Len(u) = k - 1 /\ Len(v) = Len(q) - k /\ k \in Int
      BY <1>1, <1>2, <2>2, <2>3
    <3> HIDE DEF u, v
    <3>3. w \in Seq(S) /\ Len(w) = Len(u) + Len(v)
      BY <3>1, ConcatProperties
    <3> QED BY <1>2, <3>2, <3>3
  <2>5. ASSUME NEW i \in 1..(Len(q) - 1)
        PROVE  w[i] = IF i < k THEN q[i] ELSE q[i + 1]
    <3> DEFINE u == SubSeq(q, 1, k - 1)
               v == SubSeq(q, k + 1, Len(q))
    <3>1. w[i] = IF i <= Len(u) THEN u[i] ELSE v[i - Len(u)]
      <4>1. u \in Seq(S) /\ v \in Seq(S) /\ w = u \o v /\ i \in 1..(Len(u) + Len(v))
        BY <1>1, <1>2, <2>1, <2>2, <2>3
      <4> HIDE DEF u, v
      <4> QED BY <4>1, ConcatProperties
    <3>2. CASE i < k
      BY <1>1, <1>2, <2>2, <3>1, <3>2
    <3>3. CASE i >= k
      <4>1. k \in 1..Len(q) /\ Len(q) \in Nat /\ Len(u) = k - 1
        BY <1>1, <1>2, <2>2
      <4>2. w[i] = v[i - (k - 1)] /\ i - (k - 1) \in 1..(Len(q) - k)
        <5> HIDE DEF u, v
        <5> QED BY <3>1, <3>3, <4>1
      <4>3. v[i - (k - 1)] = q[(i - (k - 1)) + k]
        BY <2>3, <4>2
      <4>4. (i - (k - 1)) + k = i + 1
        BY <4>1
      <4> QED BY <3>3, <4>1, <4>2, <4>3, <4>4
    <3> QED BY <1>1, <1>2, <3>2, <3>3
  <2> QED BY <1>1, <1>2, <2>4, <2>5
<1> QED BY <1>1, <1>3

(* Removing an element that is there. *)
LEMMA WithoutPresent ==
    ASSUME NEW S, NEW q \in Seq(S), IsInjective(q), NEW x \in Range(q)
    PROVE  /\ Without(q, x) \in Seq(S)
           /\ IsInjective(Without(q, x))
           /\ Range(Without(q, x)) = Range(q) \ {x}
<1> DEFINE w == Without(q, x)
<1>1. w \in Seq(S) /\ DOMAIN w = 1..(Len(q) - 1)
  BY WithoutPlaces
<1>2. DOMAIN q = 1..Len(q) /\ Len(q) \in Nat
  OBVIOUS
<1>3. PICK k \in DOMAIN q :
         q[k] = x /\ \A i \in 1..(Len(q) - 1) : w[i] = IF i < k THEN q[i] ELSE q[i + 1]
  BY WithoutPlaces
<1> HIDE DEF w
<1>4. IsInjective(w)
  <2> SUFFICES ASSUME NEW i \in DOMAIN w, NEW j \in DOMAIN w, w[i] = w[j]
               PROVE  i = j
    BY DEF IsInjective
  <2> DEFINE At(n) == IF n < k THEN n ELSE n + 1
  <2>1. At(i) \in DOMAIN q /\ At(j) \in DOMAIN q /\ q[At(i)] = q[At(j)]
    BY <1>1, <1>2, <1>3
  <2>2. At(i) = At(j)
    BY <2>1 DEF IsInjective
  <2> QED BY <1>1, <1>2, <1>3, <2>2
<1>5. ASSUME NEW y \in Range(w) PROVE y \in Range(q) \ {x}
  <2>1. PICK i \in 1..(Len(q) - 1) : w[i] = y
    BY <1>1 DEF Range
  <2>2. PICK j \in 1..Len(q) : q[j] = y /\ j # k
    BY <1>2, <1>3, <2>1
  <2> QED BY <1>2, <1>3, <2>2 DEF IsInjective, Range
<1>6. ASSUME NEW y \in Range(q) \ {x} PROVE y \in Range(w)
  <2>1. PICK i \in 1..Len(q) : q[i] = y
    BY <1>2 DEF Range
  <2>2. i # k
    BY <1>3, <2>1
  <2>3. CASE i < k
    BY <1>1, <1>2, <1>3, <2>1, <2>3 DEF Range
  <2>4. CASE i > k
    <3>1. i - 1 \in DOMAIN w /\ w[i - 1] = q[(i - 1) + 1]
      BY <1>1, <1>2, <1>3, <2>4
    <3> QED BY <1>2, <3>1, <2>1 DEF Range
  <2> QED BY <1>1, <1>2, <2>2, <2>3, <2>4
<1> QED BY <1>1, <1>4, <1>5, <1>6 DEF w

(* Removing an element keeps the order of the others. *)
LEMMA WithoutOrder ==
    ASSUME NEW S, NEW q \in Seq(S), NEW x \in Range(q),
           NEW a \in DOMAIN Without(q, x), NEW b \in DOMAIN Without(q, x), a < b
    PROVE  \E i, j \in DOMAIN q : i < j /\ q[i] = Without(q, x)[a] /\ q[j] = Without(q, x)[b]
<1> DEFINE w == Without(q, x)
<1>1. DOMAIN w = 1..(Len(q) - 1) /\ DOMAIN q = 1..Len(q) /\ Len(q) \in Nat
  BY WithoutPlaces
<1>2. PICK k \in DOMAIN q :
         q[k] = x /\ \A i \in 1..(Len(q) - 1) : w[i] = IF i < k THEN q[i] ELSE q[i + 1]
  BY WithoutPlaces
<1> DEFINE Place(n) == IF n < k THEN n ELSE n + 1
<1> HIDE DEF w
<1>3. Place(a) \in DOMAIN q /\ Place(b) \in DOMAIN q /\ Place(a) < Place(b)
  BY <1>1, <1>2 DEF w
<1>4. q[Place(a)] = w[a] /\ q[Place(b)] = w[b]
  BY <1>1, <1>2 DEF w
<1> QED BY <1>3, <1>4 DEF w

-----------------------------------------------------------------------------
(* Lemmas about sets of permits *)

(* A set that gains one new member is larger by one. *)
LEMMA GainSet ==
    ASSUME NEW A, IsFiniteSet(A), NEW W, IsFiniteSet(W), W \cap A = {}
    PROVE  /\ Cardinality(A) \in Nat /\ Cardinality(W) \in Nat
           /\ Cardinality(A \union W) = Cardinality(A) + Cardinality(W)
<1>1. Cardinality(A \union W) = Cardinality(A) + Cardinality(W) - Cardinality(A \cap W)
  BY FS_Union
<1>2. Cardinality(A \cap W) = 0
  BY FS_EmptySet
<1> QED BY <1>1, <1>2, FS_CardinalityType

(* Owners that lose t and gain the tasks of W. *)
LEMMA SwapSet ==
    ASSUME NEW A, IsFiniteSet(A), NEW x \in A, NEW W, IsFiniteSet(W), W \cap A = {}
    PROVE  Cardinality((A \ {x}) \union W) = Cardinality(A) - 1 + Cardinality(W)
<1>1. IsFiniteSet(A \ {x}) /\ Cardinality(A \ {x}) = Cardinality(A) - 1
  BY FS_RemoveElement
<1> QED BY <1>1, GainSet

-----------------------------------------------------------------------------
(* The inductive invariant.  Neither the bounds nor the exact count are    *)
(* inductive alone: a step is only as good as the queues and futures it    *)
(* reads.                                                                  *)

(* A task is suspended exactly while it awaits a future. *)
FutMatchesPc == \A t \in Tasks : pc[t] \in Suspended <=> fut[t] # "none"

(* The semaphore of every client inside slot() exists. *)
KnownClients == \A t \in Tasks : pc[t] \notin {"idle", "rejected"} => Client[t] \in clientSems

RoomIsBounded == waiting <= MaxWaiting

IInv ==
    /\ TypeOK
    /\ FutMatchesPc
    /\ QueuesMatch
    /\ PermitsConserved
    /\ WaitingIsExact
    /\ RoomIsBounded
    /\ KnownClients

(* The parts of the invariant that most steps use, unfolded. *)
LEMMA Facts ==
    /\ IsFiniteSet(Tasks) /\ Client \in [Tasks -> Clients] /\ Global \notin Clients
    /\ \A s : IsFiniteSet(Owners(s)) /\ Cardinality(Owners(s)) \in Nat
    /\ IsFiniteSet(Waiters) /\ Cardinality(Waiters) \in Nat
    /\ \A s \in Sems : Capacity(s) \in Nat \ {0}
<1>1. \A s : Owners(s) \subseteq Tasks
  BY DEF Owners
<1>2. Waiters \subseteq Tasks
  BY DEF Waiters
<1>3. \A s \in Sems : Capacity(s) \in Nat \ {0}
  BY LimitsAssumption DEF Capacity
<1> QED BY <1>1, <1>2, <1>3, TasksAssumption, ClientAssumption, FS_Subset, FS_CardinalityType

(* A task that a wake-up of semaphore s may pick. *)
Waits(u, s) ==
    pc[u] \in Suspended /\ Awaited(u) = s /\ fut[u] = "pending" /\ u \notin Owners(s)

(* What the tasks granted a permit of s have in common. *)
LEMMA Woken ==
    ASSUME QueuesMatch, NEW s \in Sems, NEW q, Range(q) \subseteq Range(queue[s]),
           NEW n \in Nat, NEW W \in SUBSET Tasks, WakesUp(W, q, n)
    PROVE  /\ IsFiniteSet(W) /\ Cardinality(W) \in Nat /\ Cardinality(W) <= n
           /\ \A u \in W : Waits(u, s)
<1>1. IsFiniteSet(W) /\ Cardinality(W) \in Nat /\ Cardinality(W) <= n
  BY TasksAssumption, FS_Subset, FS_CardinalityType DEF WakesUp
<1>2. \A u \in W : pc[u] \in Suspended /\ Awaited(u) = s /\ fut[u] = "pending"
  BY DEF WakesUp, Pending, QueuesMatch, Waiters
<1>3. \A u \in W : u \notin Owners(s)
  BY <1>2, ClientAssumption DEF Owners, Owns, Suspended, Sems, Awaited
<1> QED BY <1>1, <1>2, <1>3 DEF Waits

(* A client without a semaphore gets one that has all its permits. *)
LEMMA Fresh == ASSUME IInv, NEW c \in Clients, c \notin clientSems PROVE value[c] = MaxPerClient
<1>1. Owners(c) = {}
  BY ClientAssumption DEF IInv, KnownClients, Owners, Owns, Suspended, Awaited
<1>2. value[c] + Cardinality(Owners(c)) = MaxPerClient /\ value[c] \in Nat
  BY ClientAssumption DEF IInv, TypeOK, PermitsConserved, Sems, Capacity
<1> QED BY <1>1, <1>2, FS_EmptySet

(* The invariant holds initially: every semaphore is full and no one waits. *)
LEMMA InitIInv == Init => IInv
<1> SUFFICES ASSUME Init PROVE IInv
  OBVIOUS
<1>1. TypeOK
  BY LimitsAssumption DEF Init, TypeOK, PCs, FutStates, Sems, Capacity
<1>2. FutMatchesPc
  BY DEF Init, FutMatchesPc, Suspended
<1>3. QueuesMatch
  BY DEF Init, QueuesMatch, Waiters, Suspended, IsInjective, Range
<1>4. \A s \in Sems : Owners(s) = {}
  BY DEF Init, Owners, Owns, Suspended
<1>5. PermitsConserved
  <2> SUFFICES ASSUME NEW s \in Sems PROVE value[s] + Cardinality(Owners(s)) = Capacity(s)
    BY DEF PermitsConserved
  <2> QED BY <1>4, Facts, FS_EmptySet DEF Init
<1>6. WaitingIsExact
  <2>1. Waiters = {}
    BY DEF Init, Waiters, Suspended
  <2> QED BY <2>1, FS_EmptySet DEF Init, WaitingIsExact
<1>7. RoomIsBounded
  BY LimitsAssumption DEF Init, RoomIsBounded
<1>8. KnownClients
  BY DEF Init, KnownClients
<1> QED BY <1>1, <1>2, <1>3, <1>5, <1>6, <1>7, <1>8 DEF IInv

-----------------------------------------------------------------------------
(* How one step moves the waiting count and the permits of one semaphore *)

(* A newcomer that waits makes the set of waiters larger by one. *)
LEMMA RoomUp ==
    ASSUME IInv, NEW t, t \notin Waiters, Waiters' = Waiters \union {t},
           waiting' = waiting + 1, waiting < MaxWaiting
    PROVE  WaitingIsExact' /\ RoomIsBounded'
<1>1. Cardinality(Waiters') = Cardinality(Waiters) + 1
  BY Facts, FS_AddElement
<1> QED BY <1>1, LimitsAssumption DEF IInv, WaitingIsExact, RoomIsBounded, TypeOK

(* A task that stops waiting makes the set of waiters smaller by one. *)
LEMMA RoomDown ==
    ASSUME IInv, NEW t \in Waiters, Waiters' = Waiters \ {t}, waiting' = waiting - 1
    PROVE  WaitingIsExact' /\ RoomIsBounded' /\ waiting' \in Nat
<1>1. Cardinality(Waiters') = Cardinality(Waiters) - 1
  BY Facts, FS_RemoveElement
<1>2. Cardinality(Waiters) # 0
  BY Facts, FS_EmptySet
<1> QED BY <1>1, <1>2, Facts, LimitsAssumption DEF IInv, WaitingIsExact, RoomIsBounded, TypeOK

(* One conjunct of PermitsConserved. *)
Balanced(s) == value[s] + Cardinality(Owners(s)) = Capacity(s)

(* A free permit goes to t. *)
LEMMA TakePermit ==
    ASSUME IInv, NEW s \in Sems, NEW t, t \notin Owners(s),
           Owners(s)' = Owners(s) \union {t}, value'[s] = value[s] - 1
    PROVE  Balanced(s)'
<1>1. Cardinality(Owners(s)') = Cardinality(Owners(s)) + 1
  BY Facts, FS_AddElement
<1>2. value[s] \in Nat /\ value[s] + Cardinality(Owners(s)) = Capacity(s)
  BY DEF IInv, PermitsConserved, TypeOK
<1> QED BY <1>1, <1>2, Facts DEF Balanced

(* The permits that t gives back or leaves go to the tasks of W. *)
LEMMA HandPermits ==
    ASSUME IInv, NEW s \in Sems, NEW W, IsFiniteSet(W), \A u \in W : u \notin Owners(s),
           Owners(s)' = Owners(s) \union W, value'[s] = value[s] - Cardinality(W)
    PROVE  Balanced(s)'
<1>1. /\ Cardinality(Owners(s)') = Cardinality(Owners(s)) + Cardinality(W)
      /\ Cardinality(W) \in Nat
  BY Facts, GainSet
<1>2. value[s] \in Nat /\ value[s] + Cardinality(Owners(s)) = Capacity(s)
  BY DEF IInv, PermitsConserved, TypeOK
<1> QED BY <1>1, <1>2, Facts DEF Balanced

(* A permit that t gives back, and the free ones, go to the tasks of W. *)
LEMMA GivePermit ==
    ASSUME IInv, NEW s \in Sems, NEW t \in Owners(s), NEW W, IsFiniteSet(W),
           \A u \in W : u \notin Owners(s), Owners(s)' = (Owners(s) \ {t}) \union W,
           value'[s] = value[s] + 1 - Cardinality(W)
    PROVE  Balanced(s)'
<1>1. Cardinality(Owners(s)') = Cardinality(Owners(s)) - 1 + Cardinality(W)
  BY Facts, SwapSet
<1>2. value[s] \in Nat /\ value[s] + Cardinality(Owners(s)) = Capacity(s)
  BY DEF IInv, PermitsConserved, TypeOK
<1>3. Cardinality(W) \in Nat
  BY FS_CardinalityType
<1> QED BY <1>1, <1>2, <1>3, Facts DEF Balanced

(* A semaphore whose value and owners stay is balanced as before. *)
LEMMA KeepPermits ==
    ASSUME IInv, NEW s \in Sems, Owners(s)' = Owners(s), value'[s] = value[s]
    PROVE  Balanced(s)'
BY DEF IInv, PermitsConserved, Balanced

-----------------------------------------------------------------------------
(* Every action preserves the invariant *)

(* A rejection changes nothing the invariant is about. *)
LEMMA RejectStep == ASSUME IInv, NEW t \in Tasks, Reject(t) PROVE IInv'
<1> USE DEF IInv, Reject
<1>1. TypeOK'
  BY DEF TypeOK, PCs, Suspended
<1>2. FutMatchesPc'
  BY DEF TypeOK, FutMatchesPc, Suspended
<1>3. Waiters' = Waiters /\ \A u \in Waiters : Awaited(u)' = Awaited(u)
  BY DEF TypeOK, Waiters, Awaited, Suspended
<1>4. QueuesMatch'
  BY <1>3 DEF QueuesMatch
<1>5. \A s \in Sems : Owners(s)' = Owners(s)
  BY DEF TypeOK, Owners, Owns, Awaited, Suspended
<1>6. PermitsConserved' /\ WaitingIsExact' /\ RoomIsBounded'
  BY <1>3, <1>5 DEF PermitsConserved, WaitingIsExact, RoomIsBounded
<1>7. KnownClients'
  BY DEF TypeOK, KnownClients
<1> QED BY <1>1, <1>2, <1>4, <1>6, <1>7

(* A newcomer joins its client's queue. *)
LEMMA EnterClientWaitStep == ASSUME IInv, NEW t \in Tasks, EnterClientWait(t) PROVE IInv'
<1> USE DEF IInv, EnterClientWait, Reserve
<1> DEFINE c == Client[t]
<1>0. c \in Clients /\ c \in Sems /\ c # Global
  BY Facts DEF Sems
<1>1. t \notin Range(queue[c])
  BY <1>0 DEF QueuesMatch, Waiters, Suspended
<1>2. /\ queue'[c] \in Seq(Tasks) /\ IsInjective(queue'[c])
      /\ Range(queue'[c]) = Range(queue[c]) \union {t}
      /\ \A s \in Sems \ {c} : queue'[s] = queue[s]
  BY <1>0, <1>1, AppendNew DEF TypeOK, QueuesMatch
<1>3. TypeOK'
  BY <1>0, <1>2 DEF TypeOK, PCs, FutStates, Suspended
<1>4. FutMatchesPc'
  BY DEF TypeOK, FutMatchesPc, Suspended
<1>5. /\ Waiters' = Waiters \union {t} /\ t \notin Waiters
      /\ Awaited(t)' = c /\ \A u \in Waiters : Awaited(u)' = Awaited(u)
  BY DEF TypeOK, Waiters, Awaited, Suspended
<1>6. QueuesMatch'
  BY <1>0, <1>2, <1>5 DEF QueuesMatch
<1>7. \A s \in Sems : Owners(s)' = Owners(s)
  BY DEF TypeOK, Owners, Owns, Awaited, Suspended
<1>8. PermitsConserved'
  BY <1>7 DEF PermitsConserved
<1>9. WaitingIsExact' /\ RoomIsBounded'
  BY <1>5, RoomUp
<1>10. KnownClients'
  BY DEF TypeOK, KnownClients
<1> QED BY <1>3, <1>4, <1>6, <1>8, <1>9, <1>10

(* A newcomer takes its client's permit and joins the global queue. *)
LEMMA EnterGlobalWaitStep == ASSUME IInv, NEW t \in Tasks, EnterGlobalWait(t) PROVE IInv'
<1> USE DEF IInv, EnterGlobalWait, Reserve
<1> DEFINE c == Client[t]
<1>0. c \in Clients /\ c \in Sems /\ c # Global /\ Global \in Sems
  BY Facts DEF Sems
<1>1. t \notin Range(queue[Global])
  BY <1>0 DEF QueuesMatch, Waiters, Suspended
<1>2. /\ queue'[Global] \in Seq(Tasks) /\ IsInjective(queue'[Global])
      /\ Range(queue'[Global]) = Range(queue[Global]) \union {t}
      /\ \A s \in Sems \ {Global} : queue'[s] = queue[s]
  BY <1>0, <1>1, AppendNew DEF TypeOK, QueuesMatch
<1>3. /\ value'[c] = value[c] - 1
      /\ \A s \in Sems \ {c} : value'[s] = value[s]
      /\ value' \in [Sems -> Nat]
  <2>1. value[c] \in Nat \ {0} /\ ClientValue(c) = value[c]
    BY <1>0, Fresh DEF TypeOK, Locked, ClientValue
  <2>2. value' = [value EXCEPT ![c] = value[c] - 1]
    BY <2>1
  <2> QED BY <1>0, <2>1, <2>2 DEF TypeOK
<1>4. TypeOK'
  BY <1>0, <1>2, <1>3 DEF TypeOK, PCs, FutStates, Suspended
<1>5. FutMatchesPc'
  BY DEF TypeOK, FutMatchesPc, Suspended
<1>6. /\ Waiters' = Waiters \union {t} /\ t \notin Waiters
      /\ Awaited(t)' = Global /\ \A u \in Waiters : Awaited(u)' = Awaited(u)
  BY DEF TypeOK, Waiters, Awaited, Suspended
<1>7. QueuesMatch'
  BY <1>0, <1>2, <1>6 DEF QueuesMatch
<1>8. /\ Owners(c)' = Owners(c) \union {t} /\ t \notin Owners(c)
      /\ \A s \in Sems \ {c} : Owners(s)' = Owners(s)
  BY <1>0 DEF TypeOK, Owners, Owns, Awaited, Suspended
<1>9. PermitsConserved'
  <2>1. Balanced(c)'
    BY <1>0, <1>3, <1>8, TakePermit
  <2>2. \A s \in Sems \ {c} : Balanced(s)'
    BY <1>3, <1>8, KeepPermits
  <2> QED BY <2>1, <2>2 DEF PermitsConserved, Balanced
<1>10. WaitingIsExact' /\ RoomIsBounded'
  BY <1>6, RoomUp
<1>11. KnownClients'
  BY DEF TypeOK, KnownClients
<1> QED BY <1>4, <1>5, <1>7, <1>9, <1>10, <1>11

(* A newcomer takes both permits. *)
LEMMA EnterRunningStep == ASSUME IInv, NEW t \in Tasks, EnterRunning(t) PROVE IInv'
<1> USE DEF IInv, EnterRunning, Reserve
<1> DEFINE c == Client[t]
<1>0. c \in Clients /\ c \in Sems /\ c # Global /\ Global \in Sems
  BY Facts DEF Sems
<1>1. /\ value'[c] = value[c] - 1 /\ value'[Global] = value[Global] - 1
      /\ \A s \in Sems \ {c, Global} : value'[s] = value[s]
      /\ value' \in [Sems -> Nat]
  <2>1. value[c] \in Nat \ {0} /\ value[Global] \in Nat \ {0} /\ ClientValue(c) = value[c]
    BY <1>0, Fresh DEF TypeOK, Locked, ClientValue
  <2>2. value \in [Sems -> Nat]
    BY DEF TypeOK
  <2>3. value' = [value EXCEPT ![c] = value[c] - 1, ![Global] = value[Global] - 1]
    BY <2>1
  <2>4. value'[c] = value[c] - 1 /\ value'[Global] = value[Global] - 1
    BY ONLY <1>0, <2>2, <2>3
  <2>5. \A s \in Sems \ {c, Global} : value'[s] = value[s]
    BY ONLY <1>0, <2>2, <2>3
  <2>6. value' \in [Sems -> Nat]
    BY ONLY <1>0, <2>1, <2>2, <2>3
  <2> QED BY <2>4, <2>5, <2>6
<1>2. TypeOK'
  BY <1>0, <1>1 DEF TypeOK, PCs, Suspended
<1>3. FutMatchesPc'
  BY DEF TypeOK, FutMatchesPc, Suspended
<1>4. Waiters' = Waiters /\ \A u \in Waiters : Awaited(u)' = Awaited(u)
  BY DEF TypeOK, Waiters, Awaited, Suspended
<1>5. QueuesMatch'
  BY <1>4 DEF QueuesMatch
<1>6. /\ \A s \in {c, Global} : Owners(s)' = Owners(s) \union {t} /\ t \notin Owners(s)
      /\ \A s \in Sems \ {c, Global} : Owners(s)' = Owners(s)
  BY <1>0 DEF TypeOK, Owners, Owns, Awaited, Suspended
<1>7. PermitsConserved'
  <2>1. \A s \in {c, Global} : Balanced(s)'
    BY <1>0, <1>1, <1>6, TakePermit
  <2>2. \A s \in Sems \ {c, Global} : Balanced(s)'
    BY <1>1, <1>6, KeepPermits
  <2> QED BY <2>1, <2>2 DEF PermitsConserved, Balanced
<1>8. WaitingIsExact' /\ RoomIsBounded'
  BY <1>4 DEF WaitingIsExact, RoomIsBounded
<1>9. KnownClients'
  BY DEF TypeOK, KnownClients
<1> QED BY <1>2, <1>3, <1>5, <1>7, <1>8, <1>9

(* The futures after a step that wakes W, none of which is t. *)
LEMMA GrantFacts ==
    ASSUME IInv, NEW t \in Tasks, NEW W \in SUBSET Tasks, t \notin W,
           NEW f \in FutStates, fut' = Grant(W, t, f)
    PROVE  /\ fut' \in [Tasks -> FutStates] /\ fut'[t] = f
           /\ \A u \in W : fut'[u] = "granted"
           /\ \A u \in Tasks : u # t /\ u \notin W => fut'[u] = fut[u]
BY DEF IInv, TypeOK, Grant, FutStates

(* Task t leaves its queue and W is woken from the rest. *)
LEMMA LeaveQueue ==
    ASSUME IInv, NEW t \in Tasks, pc[t] \in Suspended, NEW s \in Sems, Awaited(t) = s,
           NEW n \in Nat, NEW W \in SUBSET Tasks, WakesUp(W, Without(queue[s], t), n)
    PROVE  /\ Without(queue[s], t) \in Seq(Tasks) /\ IsInjective(Without(queue[s], t))
           /\ Range(Without(queue[s], t)) = Range(queue[s]) \ {t}
           /\ IsFiniteSet(W) /\ Cardinality(W) \in Nat /\ Cardinality(W) <= n
           /\ t \notin W /\ \A u \in W : Waits(u, s)
<1> DEFINE q == Without(queue[s], t)
<1>1. t \in Range(queue[s]) /\ queue[s] \in Seq(Tasks) /\ IsInjective(queue[s]) /\ QueuesMatch
  BY DEF IInv, TypeOK, QueuesMatch, Waiters
<1>2. q \in Seq(Tasks) /\ IsInjective(q) /\ Range(q) = Range(queue[s]) \ {t}
  BY <1>1, WithoutPresent
<1>3. t \notin W
  BY <1>2 DEF WakesUp, Pending
<1> HIDE DEF q
<1>4. WakesUp(W, q, n) /\ Range(q) \subseteq Range(queue[s])
  BY <1>2 DEF q
<1>5. /\ IsFiniteSet(W) /\ Cardinality(W) \in Nat /\ Cardinality(W) <= n
      /\ \A u \in W : Waits(u, s)
  BY <1>1, <1>4, Woken
<1> QED BY <1>2, <1>3, <1>5 DEF q

(* The queues when t has left the queue of s and every other is unchanged. *)
LEMMA QueuesAfterLeaving ==
    ASSUME IInv, NEW t \in Tasks, pc[t] \in Suspended, NEW s \in Sems, Awaited(t) = s,
           queue' = [queue EXCEPT ![s] = Without(queue[s], t)],
           Waiters' = Waiters \ {t}, \A u \in Waiters \ {t} : Awaited(u)' = Awaited(u)
    PROVE  queue' \in [Sems -> Seq(Tasks)] /\ QueuesMatch'
<1> DEFINE q == Without(queue[s], t)
<1>1. t \in Range(queue[s]) /\ queue \in [Sems -> Seq(Tasks)]
  BY DEF IInv, TypeOK, QueuesMatch, Waiters
<1>2. q \in Seq(Tasks) /\ IsInjective(q) /\ Range(q) = Range(queue[s]) \ {t}
  BY <1>1, WithoutPresent DEF IInv, QueuesMatch
<1> HIDE DEF q
<1>3. queue' = [queue EXCEPT ![s] = q]
  BY DEF q
<1>4. queue'[s] = q /\ \A r \in Sems \ {s} : queue'[r] = queue[r]
  BY <1>1, <1>3
<1>5. queue' \in [Sems -> Seq(Tasks)]
  BY <1>1, <1>2, <1>3
<1>6. ASSUME NEW r \in Sems
      PROVE  IsInjective(queue'[r]) /\ Range(queue'[r]) = {u \in Waiters' : Awaited(u)' = r}
  <2>1. IsInjective(queue[r]) /\ Range(queue[r]) = {u \in Waiters : Awaited(u) = r}
    BY DEF IInv, QueuesMatch
  <2>2. CASE r = s
    BY <1>2, <1>4, <2>1, <2>2
  <2>3. CASE r # s
    BY <1>4, <2>1, <2>3
  <2> QED BY <2>2, <2>3
<1> QED BY <1>5, <1>6 DEF QueuesMatch

(* A task granted its client's permit goes on to the global queue. *)
LEMMA ResumeToGlobalWaitStep == ASSUME IInv, NEW t \in Tasks, ResumeToGlobalWait(t) PROVE IInv'
<1> DEFINE c == Client[t]
           q == Without(queue[c], t)
<1>0. c \in Clients /\ c \in Sems /\ c # Global /\ Global \in Sems
  BY Facts DEF Sems
<1>1. pc[t] = "clientWait" /\ fut[t] = "granted" /\ pc' = [pc EXCEPT ![t] = "globalWait"]
      /\ UNCHANGED <<clientSems, waiting>>
  BY DEF ResumeToGlobalWait
<1>2. PICK W \in SUBSET Tasks :
        /\ WakesUp(W, q, value[c])
        /\ value' = [value EXCEPT ![c] = @ - Cardinality(W)]
        /\ fut' = Grant(W, t, "pending")
  BY DEF ResumeToGlobalWait, Unfinished
<1>3. t \notin Range(queue[Global])
  BY <1>0, <1>1 DEF IInv, QueuesMatch, Waiters, Suspended, Awaited
<1>4. /\ q \in Seq(Tasks) /\ IsInjective(q) /\ Range(q) = Range(queue[c]) \ {t}
      /\ IsFiniteSet(W) /\ Cardinality(W) \in Nat /\ Cardinality(W) <= value[c]
      /\ t \notin W /\ \A u \in W : Waits(u, c)
  <2>1. value[c] \in Nat /\ pc[t] \in Suspended /\ Awaited(t) = c
    BY <1>0, <1>1 DEF IInv, TypeOK, Suspended, Awaited
  <2>2. W \in SUBSET Tasks /\ WakesUp(W, Without(queue[c], t), value[c])
    BY <1>2
  <2> HIDE DEF c
  <2> QED BY <1>0, <2>1, <2>2, LeaveQueue
<1>5. /\ queue'[c] = q
      /\ queue'[Global] \in Seq(Tasks) /\ IsInjective(queue'[Global])
      /\ Range(queue'[Global]) = Range(queue[Global]) \union {t}
      /\ \A s \in Sems \ {c, Global} : queue'[s] = queue[s]
      /\ queue' \in [Sems -> Seq(Tasks)]
  <2>1. queue \in [Sems -> Seq(Tasks)]
    BY DEF IInv, TypeOK
  <2>2. queue' = [queue EXCEPT ![c] = q, ![Global] = Append(queue[Global], t)]
    BY DEF ResumeToGlobalWait
  <2>3. Append(queue[Global], t) \in Seq(Tasks) /\ IsInjective(Append(queue[Global], t))
        /\ Range(Append(queue[Global], t)) = Range(queue[Global]) \union {t}
    BY <1>0, <1>3, AppendNew DEF IInv, TypeOK, QueuesMatch
  <2> HIDE DEF q, c
  <2>4. queue'[c] = q /\ queue'[Global] = Append(queue[Global], t)
    BY ONLY <1>0, <2>1, <2>2
  <2>5. \A s \in Sems \ {c, Global} : queue'[s] = queue[s]
    BY ONLY <1>0, <2>1, <2>2
  <2>6. queue' \in [Sems -> Seq(Tasks)]
    BY ONLY <1>0, <1>4, <2>1, <2>2, <2>3
  <2> QED BY <2>3, <2>4, <2>5, <2>6
<1>6. /\ value'[c] = value[c] - Cardinality(W)
      /\ \A s \in Sems \ {c} : value'[s] = value[s]
      /\ value' \in [Sems -> Nat]
  BY <1>0, <1>2, <1>4 DEF IInv, TypeOK
<1>7. /\ fut' \in [Tasks -> FutStates] /\ fut'[t] = "pending"
      /\ \A u \in W : fut'[u] = "granted"
      /\ \A u \in Tasks : u # t /\ u \notin W => fut'[u] = fut[u]
  BY <1>2, <1>4, GrantFacts DEF FutStates
<1>8. TypeOK'
  BY <1>1, <1>5, <1>6, <1>7 DEF IInv, TypeOK, PCs, Suspended
<1>9. FutMatchesPc'
  BY <1>1, <1>4, <1>7 DEF IInv, TypeOK, FutMatchesPc, Suspended, Waits
<1>10. /\ Waiters' = Waiters /\ t \in Waiters
       /\ Awaited(t)' = Global /\ \A u \in Waiters \ {t} : Awaited(u)' = Awaited(u)
  BY <1>1 DEF IInv, TypeOK, Waiters, Awaited, Suspended
<1>11. QueuesMatch'
  <2> SUFFICES ASSUME NEW s \in Sems
               PROVE  IsInjective(queue'[s]) /\ Range(queue'[s]) = {u \in Waiters' : Awaited(u)' = s}
    BY DEF QueuesMatch
  <2>1. IsInjective(queue[s]) /\ Range(queue[s]) = {u \in Waiters : Awaited(u) = s}
    BY DEF IInv, QueuesMatch
  <2>2. Awaited(t) = c
    BY <1>1 DEF Awaited
  <2>3. CASE s = c
    BY <1>0, <1>4, <1>5, <1>10, <2>1, <2>2, <2>3
  <2>4. CASE s = Global
    BY <1>0, <1>5, <1>10, <2>1, <2>2, <2>4
  <2>5. CASE s \notin {c, Global}
    BY <1>5, <1>10, <2>1, <2>2, <2>5
  <2> QED BY <2>3, <2>4, <2>5
<1>12. /\ Owners(c)' = Owners(c) \union W
       /\ \A s \in Sems \ {c} : Owners(s)' = Owners(s)
  BY <1>0, <1>1, <1>4, <1>7 DEF IInv, TypeOK, Owners, Owns, Awaited, Suspended, Waits
<1>13. PermitsConserved'
  <2>1. Balanced(c)'
    BY <1>0, <1>4, <1>6, <1>12, HandPermits DEF Waits
  <2>2. \A s \in Sems \ {c} : Balanced(s)'
    BY <1>6, <1>12, KeepPermits
  <2> QED BY <2>1, <2>2 DEF PermitsConserved, Balanced
<1>14. WaitingIsExact' /\ RoomIsBounded'
  BY <1>1, <1>10 DEF IInv, WaitingIsExact, RoomIsBounded
<1>15. KnownClients'
  BY <1>1 DEF IInv, TypeOK, KnownClients
<1> QED BY <1>8, <1>9, <1>11, <1>13, <1>14, <1>15 DEF IInv

(* A task granted its client's permit takes the global one. *)
LEMMA ResumeToRunningStep == ASSUME IInv, NEW t \in Tasks, ResumeToRunning(t) PROVE IInv'
<1> DEFINE c == Client[t]
<1>0. c \in Clients /\ c \in Sems /\ c # Global /\ Global \in Sems
  BY Facts DEF Sems
<1>1. pc[t] = "clientWait" /\ fut[t] = "granted" /\ pc' = [pc EXCEPT ![t] = "running"]
      /\ UNCHANGED clientSems /\ waiting' = waiting - 1 /\ value[Global] # 0
      /\ queue' = [queue EXCEPT ![c] = Without(queue[c], t)]
  BY DEF ResumeToRunning, Locked
<1>2. PICK W \in SUBSET Tasks :
        /\ WakesUp(W, Without(queue[c], t), value[c])
        /\ value' = [value EXCEPT ![c] = @ - Cardinality(W), ![Global] = @ - 1]
        /\ fut' = Grant(W, t, "none")
  BY DEF ResumeToRunning, Unfinished
<1>3. /\ IsFiniteSet(W) /\ Cardinality(W) \in Nat /\ Cardinality(W) <= value[c]
      /\ t \notin W /\ \A u \in W : Waits(u, c)
  <2>1. value[c] \in Nat /\ pc[t] \in Suspended /\ Awaited(t) = c
    BY <1>0, <1>1 DEF IInv, TypeOK, Suspended, Awaited
  <2>2. W \in SUBSET Tasks /\ WakesUp(W, Without(queue[c], t), value[c])
    BY <1>2
  <2> HIDE DEF c
  <2> QED BY <1>0, <2>1, <2>2, LeaveQueue
<1>4. /\ value'[c] = value[c] - Cardinality(W) /\ value'[Global] = value[Global] - 1
      /\ \A s \in Sems \ {c, Global} : value'[s] = value[s]
      /\ value' \in [Sems -> Nat]
  <2>1. value \in [Sems -> Nat]
    BY DEF IInv, TypeOK
  <2>2. value' = [value EXCEPT ![c] = value[c] - Cardinality(W), ![Global] = value[Global] - 1]
    BY <1>0, <1>2
  <2> HIDE DEF c
  <2> QED BY ONLY <1>0, <1>1, <1>3, <2>1, <2>2
<1>5. /\ fut' \in [Tasks -> FutStates] /\ fut'[t] = "none"
      /\ \A u \in W : fut'[u] = "granted"
      /\ \A u \in Tasks : u # t /\ u \notin W => fut'[u] = fut[u]
  BY <1>2, <1>3, GrantFacts DEF FutStates
<1>6. /\ Waiters' = Waiters \ {t} /\ t \in Waiters
      /\ \A u \in Waiters \ {t} : Awaited(u)' = Awaited(u)
  BY <1>1 DEF IInv, TypeOK, Waiters, Awaited, Suspended
<1>7. queue' \in [Sems -> Seq(Tasks)] /\ QueuesMatch'
  <2>1. pc[t] \in Suspended /\ Awaited(t) = c
    BY <1>0, <1>1 DEF Suspended, Awaited
  <2> QED BY <1>0, <1>1, <1>6, <2>1, QueuesAfterLeaving
<1>8. WaitingIsExact' /\ RoomIsBounded' /\ waiting' \in Nat
  BY <1>1, <1>6, RoomDown
<1>9. TypeOK'
  BY <1>1, <1>4, <1>5, <1>7, <1>8 DEF IInv, TypeOK, PCs, Suspended
<1>10. FutMatchesPc'
  BY <1>1, <1>3, <1>5 DEF IInv, TypeOK, FutMatchesPc, Suspended, Waits
<1>11. /\ Owners(c)' = Owners(c) \union W
       /\ Owners(Global)' = Owners(Global) \union {t} /\ t \notin Owners(Global)
       /\ \A s \in Sems \ {c, Global} : Owners(s)' = Owners(s)
  BY <1>0, <1>1, <1>3, <1>5 DEF IInv, TypeOK, Owners, Owns, Awaited, Suspended, Waits
<1>12. PermitsConserved'
  <2>1. Balanced(c)'
    BY <1>0, <1>3, <1>4, <1>11, HandPermits DEF Waits
  <2>2. Balanced(Global)'
    BY <1>0, <1>4, <1>11, TakePermit
  <2>3. \A s \in Sems \ {c, Global} : Balanced(s)'
    BY <1>4, <1>11, KeepPermits
  <2> QED BY <2>1, <2>2, <2>3 DEF PermitsConserved, Balanced
<1>13. KnownClients'
  BY <1>1 DEF IInv, TypeOK, KnownClients
<1> QED BY <1>7, <1>8, <1>9, <1>10, <1>12, <1>13 DEF IInv

(* A task granted the global permit starts its body. *)
LEMMA ResumeGlobalStep == ASSUME IInv, NEW t \in Tasks, ResumeGlobal(t) PROVE IInv'
<1>0. Global \in Sems
  BY DEF Sems
<1>1. pc[t] = "globalWait" /\ fut[t] = "granted" /\ pc' = [pc EXCEPT ![t] = "running"]
      /\ UNCHANGED clientSems /\ waiting' = waiting - 1
      /\ queue' = [queue EXCEPT ![Global] = Without(queue[Global], t)]
  BY DEF ResumeGlobal
<1>2. PICK W \in SUBSET Tasks :
        /\ WakesUp(W, Without(queue[Global], t), value[Global])
        /\ value' = [value EXCEPT ![Global] = @ - Cardinality(W)]
        /\ fut' = Grant(W, t, "none")
  BY DEF ResumeGlobal, Unfinished
<1>3. /\ IsFiniteSet(W) /\ Cardinality(W) \in Nat /\ Cardinality(W) <= value[Global]
      /\ t \notin W /\ \A u \in W : Waits(u, Global)
  <2>1. value[Global] \in Nat /\ pc[t] \in Suspended /\ Awaited(t) = Global
    BY <1>0, <1>1 DEF IInv, TypeOK, Suspended, Awaited
  <2> QED BY <1>0, <1>2, <2>1, LeaveQueue
<1>4. /\ value'[Global] = value[Global] - Cardinality(W)
      /\ \A s \in Sems \ {Global} : value'[s] = value[s]
      /\ value' \in [Sems -> Nat]
  BY <1>0, <1>2, <1>3 DEF IInv, TypeOK
<1>5. /\ fut' \in [Tasks -> FutStates] /\ fut'[t] = "none"
      /\ \A u \in W : fut'[u] = "granted"
      /\ \A u \in Tasks : u # t /\ u \notin W => fut'[u] = fut[u]
  BY <1>2, <1>3, GrantFacts DEF FutStates
<1>6. /\ Waiters' = Waiters \ {t} /\ t \in Waiters
      /\ \A u \in Waiters \ {t} : Awaited(u)' = Awaited(u)
  BY <1>1 DEF IInv, TypeOK, Waiters, Awaited, Suspended
<1>7. queue' \in [Sems -> Seq(Tasks)] /\ QueuesMatch'
  <2>1. pc[t] \in Suspended /\ Awaited(t) = Global
    BY <1>1 DEF Suspended, Awaited
  <2> QED BY <1>0, <1>1, <1>6, <2>1, QueuesAfterLeaving
<1>8. WaitingIsExact' /\ RoomIsBounded' /\ waiting' \in Nat
  BY <1>1, <1>6, RoomDown
<1>9. TypeOK'
  BY <1>1, <1>4, <1>5, <1>7, <1>8 DEF IInv, TypeOK, PCs, Suspended
<1>10. FutMatchesPc'
  BY <1>1, <1>3, <1>5 DEF IInv, TypeOK, FutMatchesPc, Suspended, Waits
<1>11. /\ Owners(Global)' = Owners(Global) \union W
       /\ \A s \in Sems \ {Global} : Owners(s)' = Owners(s)
  BY <1>0, <1>1, <1>3, <1>5, ClientAssumption
     DEF IInv, TypeOK, Owners, Owns, Awaited, Suspended, Waits, Sems
<1>12. PermitsConserved'
  <2>1. Balanced(Global)'
    BY <1>0, <1>3, <1>4, <1>11, HandPermits DEF Waits
  <2>2. \A s \in Sems \ {Global} : Balanced(s)'
    BY <1>4, <1>11, KeepPermits
  <2> QED BY <2>1, <2>2 DEF PermitsConserved, Balanced
<1>13. KnownClients'
  BY <1>1 DEF IInv, TypeOK, KnownClients
<1> QED BY <1>7, <1>8, <1>9, <1>10, <1>12, <1>13 DEF IInv

(* A cancellation changes the state of one future. *)
LEMMA CancelStep == ASSUME IInv, NEW t \in Tasks, Cancel(t) PROVE IInv'
<1> USE DEF IInv, Cancel
<1>1. TypeOK' /\ FutMatchesPc' /\ KnownClients'
  BY DEF TypeOK, FutStates, FutMatchesPc, KnownClients
<1>2. Waiters' = Waiters /\ \A u \in Waiters : Awaited(u)' = Awaited(u)
  BY DEF Waiters, Awaited
<1>3. QueuesMatch'
  BY <1>2 DEF QueuesMatch
<1>4. \A s \in Sems : Owners(s)' = Owners(s)
  BY DEF TypeOK, Owners, Owns, Awaited, Suspended
<1>5. PermitsConserved' /\ WaitingIsExact' /\ RoomIsBounded'
  BY <1>2, <1>4 DEF PermitsConserved, WaitingIsExact, RoomIsBounded
<1> QED BY <1>1, <1>3, <1>5

(* A task cancelled in its client's queue leaves it. *)
LEMMA UnwindClientStep == ASSUME IInv, NEW t \in Tasks, UnwindClient(t) PROVE IInv'
<1> DEFINE c == Client[t]
<1>0. c \in Clients /\ c \in Sems /\ c # Global
  BY Facts DEF Sems
<1>1. pc[t] = "clientWait" /\ fut[t] \in {"cancelled", "revoked"} /\ pc' = [pc EXCEPT ![t] = "idle"]
      /\ UNCHANGED clientSems /\ waiting' = waiting - 1
      /\ queue' = [queue EXCEPT ![c] = Without(queue[c], t)]
  BY DEF UnwindClient
<1>2. PICK W \in SUBSET Tasks :
        /\ WakesUp(W, Without(queue[c], t), value[c] + Returned(t))
        /\ value' = [value EXCEPT ![c] = @ + Returned(t) - Cardinality(W)]
        /\ fut' = Grant(W, t, "none")
  BY DEF UnwindClient, Unfinished
<1>3. /\ IsFiniteSet(W) /\ Cardinality(W) \in Nat
      /\ Cardinality(W) <= value[c] + Returned(t)
      /\ t \notin W /\ \A u \in W : Waits(u, c)
  <2>1. value[c] + Returned(t) \in Nat /\ pc[t] \in Suspended /\ Awaited(t) = c
    BY <1>0, <1>1 DEF IInv, TypeOK, Suspended, Awaited, Returned
  <2>2. W \in SUBSET Tasks /\ WakesUp(W, Without(queue[c], t), value[c] + Returned(t))
    BY <1>2
  <2> HIDE DEF c
  <2> QED BY <1>0, <2>1, <2>2, LeaveQueue
<1>4. /\ value'[c] = value[c] + Returned(t) - Cardinality(W)
      /\ \A s \in Sems \ {c} : value'[s] = value[s]
      /\ value' \in [Sems -> Nat]
  BY <1>0, <1>2, <1>3 DEF IInv, TypeOK, Returned
<1>5. /\ fut' \in [Tasks -> FutStates] /\ fut'[t] = "none"
      /\ \A u \in W : fut'[u] = "granted"
      /\ \A u \in Tasks : u # t /\ u \notin W => fut'[u] = fut[u]
  BY <1>2, <1>3, GrantFacts DEF FutStates
<1>6. /\ Waiters' = Waiters \ {t} /\ t \in Waiters
      /\ \A u \in Waiters \ {t} : Awaited(u)' = Awaited(u)
  BY <1>1 DEF IInv, TypeOK, Waiters, Awaited, Suspended
<1>7. queue' \in [Sems -> Seq(Tasks)] /\ QueuesMatch'
  <2>1. pc[t] \in Suspended /\ Awaited(t) = c
    BY <1>0, <1>1 DEF Suspended, Awaited
  <2> QED BY <1>0, <1>1, <1>6, <2>1, QueuesAfterLeaving
<1>8. WaitingIsExact' /\ RoomIsBounded' /\ waiting' \in Nat
  BY <1>1, <1>6, RoomDown
<1>9. TypeOK'
  BY <1>1, <1>4, <1>5, <1>7, <1>8 DEF IInv, TypeOK, PCs
<1>10. FutMatchesPc'
  BY <1>1, <1>3, <1>5 DEF IInv, TypeOK, FutMatchesPc, Suspended, Waits
<1>11. \A s \in Sems \ {c} : Owners(s)' = Owners(s)
  BY <1>0, <1>1, <1>3, <1>5 DEF IInv, TypeOK, Owners, Owns, Awaited, Suspended, Waits
<1>12. Balanced(c)'
  <2>1. CASE fut[t] = "revoked"
    <3>1. t \in Owners(c) /\ Owners(c)' = (Owners(c) \ {t}) \union W
      BY <1>0, <1>1, <1>3, <1>5, <2>1 DEF IInv, TypeOK, Owners, Owns, Awaited, Suspended, Waits
    <3>2. value'[c] = value[c] + 1 - Cardinality(W)
      BY <1>4, <2>1 DEF Returned
    <3> QED BY <1>0, <1>3, <3>1, <3>2, GivePermit DEF Waits
  <2>2. CASE fut[t] = "cancelled"
    <3>1. Owners(c)' = Owners(c) \union W
      BY <1>0, <1>1, <1>3, <1>5, <2>2 DEF IInv, TypeOK, Owners, Owns, Awaited, Suspended, Waits
    <3>2. value'[c] = value[c] - Cardinality(W)
      BY <1>0, <1>3, <1>4, <2>2 DEF Returned, IInv, TypeOK
    <3> QED BY <1>0, <1>3, <3>1, <3>2, HandPermits DEF Waits
  <2> QED BY <1>1, <2>1, <2>2
<1>13. PermitsConserved'
  <2>1. \A s \in Sems \ {c} : Balanced(s)'
    BY <1>4, <1>11, KeepPermits
  <2> QED BY <1>12, <2>1 DEF PermitsConserved, Balanced
<1>14. KnownClients'
  BY <1>1 DEF IInv, TypeOK, KnownClients
<1> QED BY <1>7, <1>8, <1>9, <1>10, <1>13, <1>14 DEF IInv

(* A task cancelled in the global queue leaves it and its client's permit. *)
LEMMA UnwindGlobalStep == ASSUME IInv, NEW t \in Tasks, UnwindGlobal(t) PROVE IInv'
<1> DEFINE c == Client[t]
<1>0. c \in Clients /\ c \in Sems /\ c # Global /\ Global \in Sems
  BY Facts DEF Sems
<1>1. pc[t] = "globalWait" /\ fut[t] \in {"cancelled", "revoked"} /\ pc' = [pc EXCEPT ![t] = "idle"]
      /\ UNCHANGED clientSems /\ waiting' = waiting - 1
      /\ queue' = [queue EXCEPT ![Global] = Without(queue[Global], t)]
  BY DEF UnwindGlobal
<1>2. PICK W \in SUBSET Tasks, V \in SUBSET Tasks :
        /\ WakesUp(W, Without(queue[Global], t), value[Global] + Returned(t))
        /\ WakesUp(V, queue[c], 1)
        /\ value' = [value EXCEPT ![Global] = @ + Returned(t) - Cardinality(W),
                                  ![c] = @ + 1 - Cardinality(V)]
        /\ fut' = Grant(W \union V, t, "none")
  BY DEF UnwindGlobal, Unfinished
<1>3. /\ IsFiniteSet(W) /\ Cardinality(W) \in Nat
      /\ Cardinality(W) <= value[Global] + Returned(t)
      /\ t \notin W /\ \A u \in W : Waits(u, Global)
  <2>1. value[Global] + Returned(t) \in Nat /\ pc[t] \in Suspended /\ Awaited(t) = Global
    BY <1>0, <1>1 DEF IInv, TypeOK, Suspended, Awaited, Returned
  <2>2. W \in SUBSET Tasks /\ WakesUp(W, Without(queue[Global], t), value[Global] + Returned(t))
    BY <1>2
  <2> QED BY <1>0, <2>1, <2>2, LeaveQueue
<1>4. /\ IsFiniteSet(V) /\ Cardinality(V) \in Nat /\ Cardinality(V) <= 1
      /\ t \notin V /\ \A u \in V : Waits(u, c)
  <2>1. V \in SUBSET Tasks /\ WakesUp(V, queue[c], 1) /\ QueuesMatch
    BY <1>2 DEF IInv
  <2>2. /\ IsFiniteSet(V) /\ Cardinality(V) \in Nat /\ Cardinality(V) <= 1
        /\ \A u \in V : Waits(u, c)
    <3> HIDE DEF c
    <3> QED BY <1>0, <2>1, Woken
  <2> QED BY <1>0, <1>1, <2>2 DEF Waits, Awaited
<1>5. /\ value'[Global] = value[Global] + Returned(t) - Cardinality(W)
      /\ value'[c] = value[c] + 1 - Cardinality(V)
      /\ \A s \in Sems \ {c, Global} : value'[s] = value[s]
      /\ value' \in [Sems -> Nat]
  <2>1. value \in [Sems -> Nat] /\ Returned(t) \in Nat
    BY DEF IInv, TypeOK, Returned
  <2>2. value' = [value EXCEPT ![Global] = value[Global] + Returned(t) - Cardinality(W),
                               ![c] = value[c] + 1 - Cardinality(V)]
    BY <1>0, <1>2
  <2> HIDE DEF c
  <2> QED BY ONLY <1>0, <1>3, <1>4, <2>1, <2>2
<1>6. /\ fut' \in [Tasks -> FutStates] /\ fut'[t] = "none"
      /\ \A u \in W \union V : fut'[u] = "granted"
      /\ \A u \in Tasks : u # t /\ u \notin W \union V => fut'[u] = fut[u]
  <2>1. W \union V \in SUBSET Tasks /\ t \notin W \union V /\ "none" \in FutStates
    BY <1>3, <1>4 DEF FutStates
  <2> QED BY <1>2, <2>1, GrantFacts
<1>7. /\ Waiters' = Waiters \ {t} /\ t \in Waiters
      /\ \A u \in Waiters \ {t} : Awaited(u)' = Awaited(u)
  BY <1>1 DEF IInv, TypeOK, Waiters, Awaited, Suspended
<1>8. queue' \in [Sems -> Seq(Tasks)] /\ QueuesMatch'
  <2>1. pc[t] \in Suspended /\ Awaited(t) = Global
    BY <1>1 DEF Suspended, Awaited
  <2> QED BY <1>0, <1>1, <1>7, <2>1, QueuesAfterLeaving
<1>9. WaitingIsExact' /\ RoomIsBounded' /\ waiting' \in Nat
  BY <1>1, <1>7, RoomDown
<1>10. TypeOK'
  BY <1>1, <1>5, <1>6, <1>8, <1>9 DEF IInv, TypeOK, PCs
<1>11. FutMatchesPc'
  BY <1>1, <1>3, <1>4, <1>6 DEF IInv, TypeOK, FutMatchesPc, Suspended, Waits
<1>12. /\ t \in Owners(c) /\ Owners(c)' = (Owners(c) \ {t}) \union V
       /\ \A s \in Sems \ {c, Global} : Owners(s)' = Owners(s)
  BY <1>0, <1>1, <1>3, <1>4, <1>6 DEF IInv, TypeOK, Owners, Owns, Awaited, Suspended, Waits
<1>13. Balanced(c)'
  BY <1>0, <1>4, <1>5, <1>12, GivePermit DEF Waits
<1>14. Balanced(Global)'
  <2>1. CASE fut[t] = "revoked"
    <3>1. t \in Owners(Global) /\ Owners(Global)' = (Owners(Global) \ {t}) \union W
      BY <1>0, <1>1, <1>3, <1>4, <1>6, <2>1, ClientAssumption
         DEF IInv, TypeOK, Owners, Owns, Awaited, Suspended, Waits
    <3>2. value'[Global] = value[Global] + 1 - Cardinality(W)
      BY <1>5, <2>1 DEF Returned
    <3> QED BY <1>0, <1>3, <3>1, <3>2, GivePermit DEF Waits
  <2>2. CASE fut[t] = "cancelled"
    <3>1. Owners(Global)' = Owners(Global) \union W
      BY <1>0, <1>1, <1>3, <1>4, <1>6, <2>2, ClientAssumption
         DEF IInv, TypeOK, Owners, Owns, Awaited, Suspended, Waits
    <3>2. value'[Global] = value[Global] - Cardinality(W)
      BY <1>0, <1>3, <1>5, <2>2 DEF Returned, IInv, TypeOK
    <3> QED BY <1>0, <1>3, <3>1, <3>2, HandPermits DEF Waits
  <2> QED BY <1>1, <2>1, <2>2
<1>15. PermitsConserved'
  <2>1. \A s \in Sems \ {c, Global} : Balanced(s)'
    BY <1>5, <1>12, KeepPermits
  <2> QED BY <1>13, <1>14, <2>1 DEF PermitsConserved, Balanced
<1>16. KnownClients'
  BY <1>1 DEF IInv, TypeOK, KnownClients
<1> QED BY <1>8, <1>9, <1>10, <1>11, <1>15, <1>16 DEF IInv

(* A body ends and both permits are handed on. *)
LEMMA ExitStep == ASSUME IInv, NEW t \in Tasks, Exit(t) PROVE IInv'
<1> DEFINE c == Client[t]
<1>0. c \in Clients /\ c \in Sems /\ c # Global /\ Global \in Sems
  BY Facts DEF Sems
<1>1. pc[t] = "running" /\ pc' = [pc EXCEPT ![t] = "idle"]
      /\ UNCHANGED <<queue, clientSems, waiting>>
  BY DEF Exit
<1>2. PICK W \in SUBSET Tasks, V \in SUBSET Tasks :
        /\ WakesUp(W, queue[Global], 1)
        /\ WakesUp(V, queue[c], 1)
        /\ value' = [value EXCEPT ![Global] = @ + 1 - Cardinality(W),
                                  ![c] = @ + 1 - Cardinality(V)]
        /\ fut' = Grant(W \union V, t, "none")
  BY DEF Exit, Unfinished
<1>3. /\ IsFiniteSet(W) /\ Cardinality(W) \in Nat /\ Cardinality(W) <= 1
      /\ \A u \in W : Waits(u, Global)
  <2>1. W \in SUBSET Tasks /\ WakesUp(W, queue[Global], 1) /\ QueuesMatch
    BY <1>2 DEF IInv
  <2> QED BY <1>0, <2>1, Woken
<1>4. /\ IsFiniteSet(V) /\ Cardinality(V) \in Nat /\ Cardinality(V) <= 1
      /\ \A u \in V : Waits(u, c)
  <2>1. V \in SUBSET Tasks /\ WakesUp(V, queue[c], 1) /\ QueuesMatch
    BY <1>2 DEF IInv
  <2> HIDE DEF c
  <2> QED BY <1>0, <2>1, Woken
<1>5. /\ value'[Global] = value[Global] + 1 - Cardinality(W)
      /\ value'[c] = value[c] + 1 - Cardinality(V)
      /\ \A s \in Sems \ {c, Global} : value'[s] = value[s]
      /\ value' \in [Sems -> Nat]
  <2>1. value \in [Sems -> Nat]
    BY DEF IInv, TypeOK
  <2>2. value' = [value EXCEPT ![Global] = value[Global] + 1 - Cardinality(W),
                               ![c] = value[c] + 1 - Cardinality(V)]
    BY <1>0, <1>2
  <2> HIDE DEF c
  <2> QED BY ONLY <1>0, <1>3, <1>4, <2>1, <2>2
<1>6. t \notin W \union V
  BY <1>1, <1>3, <1>4 DEF Waits, Suspended
<1>7. /\ fut' \in [Tasks -> FutStates] /\ fut'[t] = "none"
      /\ \A u \in W \union V : fut'[u] = "granted"
      /\ \A u \in Tasks : u # t /\ u \notin W \union V => fut'[u] = fut[u]
  <2>1. W \union V \in SUBSET Tasks /\ "none" \in FutStates
    BY <1>2 DEF FutStates
  <2> QED BY <1>2, <1>6, <2>1, GrantFacts
<1>8. Waiters' = Waiters /\ \A u \in Waiters : Awaited(u)' = Awaited(u)
  BY <1>1 DEF IInv, TypeOK, Waiters, Awaited, Suspended
<1>9. QueuesMatch'
  BY <1>1, <1>8 DEF IInv, QueuesMatch
<1>10. TypeOK'
  BY <1>1, <1>5, <1>7 DEF IInv, TypeOK, PCs
<1>11. FutMatchesPc'
  BY <1>1, <1>3, <1>4, <1>7 DEF IInv, TypeOK, FutMatchesPc, Suspended, Waits
<1>12. /\ t \in Owners(c) /\ Owners(c)' = (Owners(c) \ {t}) \union V
       /\ \A s \in Sems \ {c, Global} : Owners(s)' = Owners(s)
  BY <1>0, <1>1, <1>3, <1>4, <1>7 DEF IInv, TypeOK, Owners, Owns, Awaited, Suspended, Waits
<1>13. t \in Owners(Global) /\ Owners(Global)' = (Owners(Global) \ {t}) \union W
  BY <1>0, <1>1, <1>3, <1>4, <1>7, ClientAssumption
     DEF IInv, TypeOK, Owners, Owns, Awaited, Suspended, Waits
<1>14. PermitsConserved'
  <2>1. Balanced(c)'
    BY <1>0, <1>4, <1>5, <1>12, GivePermit DEF Waits
  <2>2. Balanced(Global)'
    BY <1>0, <1>3, <1>5, <1>13, GivePermit DEF Waits
  <2>3. \A s \in Sems \ {c, Global} : Balanced(s)'
    BY <1>5, <1>12, KeepPermits
  <2> QED BY <2>1, <2>2, <2>3 DEF PermitsConserved, Balanced
<1>15. WaitingIsExact' /\ RoomIsBounded' /\ KnownClients'
  BY <1>1, <1>8 DEF IInv, TypeOK, WaitingIsExact, RoomIsBounded, KnownClients
<1> QED BY <1>9, <1>10, <1>11, <1>14, <1>15 DEF IInv

(* Every step preserves the invariant. *)
LEMMA NextIInv == IInv /\ [Next]_vars => IInv'
<1> SUFFICES ASSUME IInv, [Next]_vars PROVE IInv'
  OBVIOUS
<1>1. CASE UNCHANGED vars
  BY <1>1 DEF vars, IInv, TypeOK, FutMatchesPc, QueuesMatch, PermitsConserved, WaitingIsExact,
              RoomIsBounded, KnownClients, Waiters, Owners, Owns, Awaited
<1>2. ASSUME NEW t \in Tasks,
             Reject(t) \/ Enter(t) \/ Resume(t) \/ Cancel(t) \/ Unwind(t) \/ Exit(t)
      PROVE  IInv'
  BY <1>2, RejectStep, EnterClientWaitStep, EnterGlobalWaitStep, EnterRunningStep,
     ResumeToGlobalWaitStep, ResumeToRunningStep, ResumeGlobalStep, CancelStep,
     UnwindClientStep, UnwindGlobalStep, ExitStep DEF Enter, Resume, Unwind
<1> QED BY <1>1, <1>2 DEF Next

(* The invariant holds always. *)
THEOREM Invariance == Spec => []IInv
BY InitIInv, NextIInv, PTL DEF Spec

-----------------------------------------------------------------------------
(* What follows *)

(* The state of the gate keeps its type; in particular no counter or       *)
(* semaphore value goes negative (concurrency.py:44-84).                   *)
THEOREM TypeCorrect == Spec => []TypeOK
BY Invariance, PTL DEF IInv

(* The count that decides whether the next request is turned away equals   *)
(* the number of suspended requests (concurrency.py:54-60, 72-84).         *)
THEOREM CountIsExact == Spec => []WaitingIsExact
BY Invariance, PTL DEF IInv

(* Each semaphore's permits are free or have one owner each, through       *)
(* releases, hand-overs and cancellations (concurrency.py:66-80).          *)
THEOREM NoPermitLeaks == Spec => []PermitsConserved
BY Invariance, PTL DEF IInv

(* The bounds of concurrency.py:8-11 hold for all limits.                  *)
THEOREM BoundsHold == Spec => []Bounds
<1>1. IInv => Bounds
  <2> SUFFICES ASSUME IInv PROVE Bounds
    OBVIOUS
  <2>1. \A s \in Sems : Cardinality(Owners(s)) <= Capacity(s)
    BY Facts DEF IInv, TypeOK, PermitsConserved
  <2>2. Running \subseteq Owners(Global) /\ IsFiniteSet(Running)
    BY TasksAssumption, FS_Subset DEF Running, Owners, Owns
  <2>3. Cardinality(Running) <= MaxConcurrent
    <3>1. Cardinality(Running) <= Cardinality(Owners(Global))
      BY <2>2, Facts, FS_Subset
    <3>2. Cardinality(Owners(Global)) <= MaxConcurrent
      BY <2>1 DEF Sems, Capacity
    <3> QED BY <2>2, <3>1, <3>2, Facts, LimitsAssumption, FS_CardinalityType
  <2>4. ASSUME NEW c \in Clients PROVE Cardinality(Of(Running, c)) <= MaxPerClient
    <3>1. Of(Running, c) \subseteq Owners(c)
      BY DEF Of, Running, Owners, Owns
    <3>2. Cardinality(Of(Running, c)) <= Cardinality(Owners(c)) /\ Cardinality(Of(Running, c)) \in Nat
      BY <3>1, Facts, FS_Subset, FS_CardinalityType
    <3>3. Cardinality(Owners(c)) <= MaxPerClient
      BY <2>1, ClientAssumption DEF Sems, Capacity
    <3> QED BY <3>2, <3>3, Facts, LimitsAssumption
  <2>5. Cardinality(Waiters) <= MaxWaiting
    BY DEF IInv, WaitingIsExact, RoomIsBounded
  <2>6. Cardinality(Running \union Waiters) <= MaxConcurrent + MaxWaiting
    <3>1. Running \cap Waiters = {}
      BY DEF Running, Waiters, Suspended
    <3>2. /\ Cardinality(Running \union Waiters) = Cardinality(Running) + Cardinality(Waiters)
          /\ Cardinality(Running) \in Nat /\ Cardinality(Waiters) \in Nat
      BY <2>2, <3>1, Facts, GainSet
    <3> QED BY <2>3, <2>5, <3>2, LimitsAssumption
  <2> QED BY <2>3, <2>4, <2>5, <2>6 DEF Bounds
<1> QED BY <1>1, Invariance, PTL

-----------------------------------------------------------------------------
(* Wake-ups: given the invariant, every step that frees a permit or        *)
(* removes a future from a queue leaves it as the next step needs it.     *)

(* The tasks suspended at s, and the condition of NoLostWakeup on s in     *)
(* terms of them.                                                          *)
At(s) == {u \in Waiters : Awaited(u) = s}
Healthy(s) ==
    value[s] > 0 /\ (\E u \in At(s) : fut[u] = "pending") => \E u \in At(s) : fut[u] # "pending"

(* With the queues in order, that is NoLostWakeup. *)
LEMMA HealthIsNoLostWakeup ==
    QueuesMatch => (NoLostWakeup <=> \A s \in Sems : Healthy(s))
BY DEF QueuesMatch, NoLostWakeup, Healthy, At, Pending

-----------------------------------------------------------------------------
(* What a step may do to one semaphore *)

(* Its value does not grow and nobody joins, leaves or is woken. *)
LEMMA KeepHealth ==
    ASSUME IInv, IInv', NEW s \in Sems, Healthy(s), value'[s] <= value[s],
           At(s)' = At(s), \A u \in At(s) : fut'[u] = fut[u]
    PROVE  Healthy(s)'
<1>1. value[s] \in Nat /\ value'[s] \in Nat
  BY DEF IInv, TypeOK
<1> QED BY <1>1 DEF Healthy

(* A task joins the queue of a locked semaphore. *)
LEMMA JoinHealth ==
    ASSUME IInv, NEW s \in Sems, Healthy(s), Locked(s), value'[s] = value[s],
           NEW t, At(s)' = At(s) \union {t}, \A u \in At(s) : fut'[u] = fut[u]
    PROVE  Healthy(s)'
<1>1. CASE value[s] = 0
  BY <1>1 DEF Healthy
<1>2. CASE value[s] # 0
  <2>1. value[s] > 0
    BY <1>2 DEF IInv, TypeOK
  <2>2. PICK u \in At(s) : fut[u] # "cancelled"
    BY <1>2 DEF Locked, IInv, QueuesMatch, At
  <2>3. \E v \in At(s) : fut[v] # "pending"
    BY <2>1, <2>2 DEF Healthy
  <2> QED BY <2>3 DEF Healthy
<1> QED BY <1>1, <1>2

(* A task leaves the queue and the permits at hand go to those behind it. *)
LEMMA LeaveHealth ==
    ASSUME IInv, NEW s \in Sems, NEW t \in Tasks, pc[t] \in Suspended, Awaited(t) = s,
           NEW n \in Nat, NEW W \in SUBSET Tasks, WakesUp(W, Without(queue[s], t), n),
           value'[s] = n - Cardinality(W), At(s)' = At(s) \ {t},
           \A u \in W : fut'[u] = "granted", \A u \in At(s) \ (W \union {t}) : fut'[u] = fut[u]
    PROVE  Healthy(s)'
<1> DEFINE q == Without(queue[s], t)
<1>1. Range(q) = At(s) \ {t} /\ Cardinality(W) \in Nat
  BY LeaveQueue DEF IInv, QueuesMatch, At
<1>2. CASE W = Pending(q)
  <2>1. \A u \in At(s)' : fut'[u] # "pending"
    BY <1>1, <1>2 DEF Pending
  <2> QED BY <2>1 DEF Healthy
<1>3. CASE W # Pending(q)
  <2>1. value'[s] = 0
    BY <1>1, <1>3 DEF WakesUp
  <2> QED BY <2>1 DEF Healthy
<1> QED BY <1>2, <1>3

(* A permit is released to the first unfinished future, if there is one. *)
LEMMA ReleaseHealth ==
    ASSUME IInv, NEW s \in Sems, NEW W \in SUBSET Tasks, WakesUp(W, queue[s], 1),
           At(s)' = At(s), \A u \in W : fut'[u] = "granted",
           \A u \in At(s) \ W : fut'[u] = fut[u]
    PROVE  Healthy(s)'
<1>1. Range(queue[s]) = At(s) /\ W \subseteq At(s)
  BY DEF IInv, QueuesMatch, At, WakesUp, Pending
<1>2. CASE W = Pending(queue[s])
  <2>1. \A u \in At(s)' : fut'[u] # "pending"
    BY <1>1, <1>2 DEF Pending
  <2> QED BY <2>1 DEF Healthy
<1>3. CASE W # Pending(queue[s])
  <2>1. W # {}
    BY <1>3, FS_EmptySet DEF WakesUp
  <2> QED BY <1>1, <2>1 DEF Healthy
<1> QED BY <1>2, <1>3

-----------------------------------------------------------------------------
(* Every action keeps every semaphore healthy *)

Health == \A s \in Sems : Healthy(s)

(* Nobody waits initially. *)
LEMMA InitHealth == Init => Health
BY DEF Init, Health, Healthy, At, Waiters, Suspended

(* A newcomer joins the queue of its client, which is locked. *)
LEMMA EnterClientWaitHealth ==
    ASSUME IInv, IInv', Health, NEW t \in Tasks, EnterClientWait(t) PROVE Health'
<1> DEFINE c == Client[t]
<1>0. c \in Sems /\ c # Global
  BY Facts DEF Sems
<1>1. /\ At(c)' = At(c) \union {t} /\ \A s \in Sems \ {c} : At(s)' = At(s)
      /\ \A u \in Waiters : fut'[u] = fut[u]
  BY <1>0 DEF EnterClientWait, Reserve, IInv, TypeOK, At, Waiters, Awaited, Suspended
<1>2. Locked(c) /\ value' = value
  BY DEF EnterClientWait
<1>3. Healthy(c)'
  <2> HIDE DEF c
  <2> QED BY <1>0, <1>1, <1>2, JoinHealth DEF Health, At
<1>4. ASSUME NEW s \in Sems \ {c} PROVE Healthy(s)'
  <2>1. value'[s] <= value[s]
    BY <1>2 DEF IInv, TypeOK
  <2> QED BY <1>1, <2>1, KeepHealth DEF Health, At
<1> QED BY <1>3, <1>4 DEF Health

(* A newcomer takes a permit of its client and joins the global queue. *)
LEMMA EnterGlobalWaitHealth ==
    ASSUME IInv, IInv', Health, NEW t \in Tasks, EnterGlobalWait(t) PROVE Health'
<1> DEFINE c == Client[t]
<1>0. c \in Clients /\ c \in Sems /\ c # Global /\ Global \in Sems
  BY Facts DEF Sems
<1>1. /\ At(Global)' = At(Global) \union {t} /\ \A s \in Sems \ {Global} : At(s)' = At(s)
      /\ \A u \in Waiters : fut'[u] = fut[u]
  BY <1>0 DEF EnterGlobalWait, Reserve, IInv, TypeOK, At, Waiters, Awaited, Suspended
<1>2. Locked(Global) /\ \A s \in Sems : value'[s] <= value[s]
  <2>1. value \in [Sems -> Nat] /\ value[c] = ClientValue(c)
    BY <1>0, Fresh DEF ClientValue, IInv, TypeOK
  <2>2. value' = [value EXCEPT ![c] = value[c] - 1] /\ Locked(Global)
    BY <2>1 DEF EnterGlobalWait
  <2> QED BY <1>0, <2>1, <2>2
<1>3. Healthy(Global)'
  <2>1. value'[Global] = value[Global]
    BY <1>0 DEF EnterGlobalWait, IInv, TypeOK
  <2> QED BY <1>0, <1>1, <1>2, <2>1, JoinHealth DEF Health, At
<1>4. \A s \in Sems \ {Global} : Healthy(s)'
  BY <1>1, <1>2, KeepHealth DEF Health, At
<1> QED BY <1>3, <1>4 DEF Health

(* A newcomer takes both permits; the queues are as they were. *)
LEMMA EnterRunningHealth ==
    ASSUME IInv, IInv', Health, NEW t \in Tasks, EnterRunning(t) PROVE Health'
<1> DEFINE c == Client[t]
<1>0. c \in Clients /\ c \in Sems /\ c # Global /\ Global \in Sems
  BY Facts DEF Sems
<1>1. /\ \A s \in Sems : At(s)' = At(s)
      /\ \A u \in Waiters : fut'[u] = fut[u]
  BY <1>0 DEF EnterRunning, Reserve, IInv, TypeOK, At, Waiters, Awaited, Suspended
<1>2. \A s \in Sems : value'[s] <= value[s]
  <2>1. value \in [Sems -> Nat] /\ value[c] = ClientValue(c)
    BY <1>0, Fresh DEF ClientValue, IInv, TypeOK
  <2>2. value' = [value EXCEPT ![c] = value[c] - 1, ![Global] = value[Global] - 1]
    BY <2>1 DEF EnterRunning
  <2> HIDE DEF c
  <2> QED BY ONLY <1>0, <2>1, <2>2
<1> QED BY <1>1, <1>2, KeepHealth DEF Health, At

(* A granted task leaves the queue of its client for the global one. *)
LEMMA ResumeToGlobalWaitHealth ==
    ASSUME IInv, IInv', Health, NEW t \in Tasks, ResumeToGlobalWait(t) PROVE Health'
<1> DEFINE c == Client[t]
<1>0. c \in Sems /\ c # Global /\ Global \in Sems
  BY Facts DEF Sems
<1>1. pc[t] = "clientWait" /\ pc' = [pc EXCEPT ![t] = "globalWait"] /\ Locked(Global)
  BY DEF ResumeToGlobalWait
<1>2. PICK W \in SUBSET Tasks :
        /\ WakesUp(W, Without(queue[c], t), value[c])
        /\ value' = [value EXCEPT ![c] = @ - Cardinality(W)]
        /\ fut' = Grant(W, t, "pending")
  BY DEF ResumeToGlobalWait, Unfinished
<1>3. /\ pc[t] \in Suspended /\ Awaited(t) = c /\ value[c] \in Nat
      /\ value'[c] = value[c] - Cardinality(W)
      /\ \A s \in Sems \ {c} : value'[s] = value[s] /\ value[s] \in Nat
  BY <1>0, <1>1, <1>2 DEF IInv, TypeOK, Suspended, Awaited
<1>4. t \notin W /\ \A u \in W : Waits(u, c)
  <2> HIDE DEF c
  <2> QED BY <1>0, <1>2, <1>3, LeaveQueue
<1>5. /\ \A u \in W : fut'[u] = "granted"
      /\ \A u \in Tasks : u # t /\ u \notin W => fut'[u] = fut[u]
  BY <1>2, <1>4, GrantFacts DEF FutStates
<1>6. /\ At(c)' = At(c) \ {t} /\ At(Global)' = At(Global) \union {t}
      /\ \A s \in Sems \ {c, Global} : At(s)' = At(s)
      /\ \A s \in Sems \ {c} : t \notin At(s) /\ W \cap At(s) = {}
      /\ \A s \in Sems : At(s) \subseteq Tasks
  BY <1>0, <1>1, <1>3, <1>4 DEF IInv, TypeOK, At, Waiters, Awaited, Suspended, Waits
<1>7. Healthy(c)'
  <2>1. \A u \in At(c) \ (W \union {t}) : fut'[u] = fut[u]
    BY <1>0, <1>5, <1>6
  <2> HIDE DEF c
  <2> QED BY <1>0, <1>2, <1>3, <1>5, <1>6, <2>1, LeaveHealth
<1>8. Healthy(Global)'
  BY <1>0, <1>1, <1>3, <1>5, <1>6, JoinHealth DEF Health
<1>9. ASSUME NEW s \in Sems \ {c, Global} PROVE Healthy(s)'
  <2>1. value'[s] <= value[s] /\ At(s)' = At(s) /\ \A u \in At(s) : fut'[u] = fut[u]
    BY <1>3, <1>5, <1>6
  <2> QED BY <2>1, KeepHealth DEF Health
<1> QED BY <1>7, <1>8, <1>9 DEF Health

(* A granted task leaves the queue of its client and takes a global permit. *)
LEMMA ResumeToRunningHealth ==
    ASSUME IInv, IInv', Health, NEW t \in Tasks, ResumeToRunning(t) PROVE Health'
<1> DEFINE c == Client[t]
<1>0. c \in Sems /\ c # Global /\ Global \in Sems
  BY Facts DEF Sems
<1>1. pc[t] = "clientWait" /\ pc' = [pc EXCEPT ![t] = "running"]
  BY DEF ResumeToRunning
<1>2. PICK W \in SUBSET Tasks :
        /\ WakesUp(W, Without(queue[c], t), value[c])
        /\ value' = [value EXCEPT ![c] = @ - Cardinality(W), ![Global] = @ - 1]
        /\ fut' = Grant(W, t, "none")
  BY DEF ResumeToRunning, Unfinished
<1>3. /\ pc[t] \in Suspended /\ Awaited(t) = c /\ value[c] \in Nat
      /\ value'[c] = value[c] - Cardinality(W)
      /\ \A s \in Sems \ {c} : value'[s] <= value[s]
  <2>1. value \in [Sems -> Nat] /\ pc[t] \in Suspended /\ Awaited(t) = c
    BY <1>1 DEF IInv, TypeOK, Suspended, Awaited
  <2>2. value' = [value EXCEPT ![c] = value[c] - Cardinality(W), ![Global] = value[Global] - 1]
    BY <1>0, <1>2
  <2> HIDE DEF c
  <2> QED BY ONLY <1>0, <2>1, <2>2
<1>4. t \notin W /\ \A u \in W : Waits(u, c)
  <2> HIDE DEF c
  <2> QED BY <1>0, <1>2, <1>3, LeaveQueue
<1>5. /\ \A u \in W : fut'[u] = "granted"
      /\ \A u \in Tasks : u # t /\ u \notin W => fut'[u] = fut[u]
  BY <1>2, <1>4, GrantFacts DEF FutStates
<1>6. /\ At(c)' = At(c) \ {t}
      /\ \A s \in Sems \ {c} : At(s)' = At(s) /\ t \notin At(s) /\ W \cap At(s) = {}
      /\ \A s \in Sems : At(s) \subseteq Tasks
  BY <1>0, <1>1, <1>3, <1>4 DEF IInv, TypeOK, At, Waiters, Awaited, Suspended, Waits
<1>7. Healthy(c)'
  <2>1. \A u \in At(c) \ (W \union {t}) : fut'[u] = fut[u]
    BY <1>0, <1>5, <1>6
  <2> HIDE DEF c
  <2> QED BY <1>0, <1>2, <1>3, <1>5, <1>6, <2>1, LeaveHealth
<1>8. ASSUME NEW s \in Sems \ {c} PROVE Healthy(s)'
  <2>1. value'[s] <= value[s] /\ At(s)' = At(s) /\ \A u \in At(s) : fut'[u] = fut[u]
    BY <1>3, <1>5, <1>6
  <2> QED BY <2>1, KeepHealth DEF Health
<1> QED BY <1>7, <1>8 DEF Health

(* A task granted the global permit leaves the global queue. *)
LEMMA ResumeGlobalHealth ==
    ASSUME IInv, IInv', Health, NEW t \in Tasks, ResumeGlobal(t) PROVE Health'
<1>0. Global \in Sems
  BY DEF Sems
<1>1. pc[t] = "globalWait" /\ pc' = [pc EXCEPT ![t] = "running"]
  BY DEF ResumeGlobal
<1>2. PICK W \in SUBSET Tasks :
        /\ WakesUp(W, Without(queue[Global], t), value[Global])
        /\ value' = [value EXCEPT ![Global] = @ - Cardinality(W)]
        /\ fut' = Grant(W, t, "none")
  BY DEF ResumeGlobal, Unfinished
<1>3. /\ pc[t] \in Suspended /\ Awaited(t) = Global /\ value[Global] \in Nat
      /\ value'[Global] = value[Global] - Cardinality(W)
      /\ \A s \in Sems \ {Global} : value'[s] <= value[s]
  BY <1>0, <1>1, <1>2 DEF IInv, TypeOK, Suspended, Awaited
<1>4. t \notin W /\ \A u \in W : Waits(u, Global)
  BY <1>0, <1>2, <1>3, LeaveQueue
<1>5. /\ \A u \in W : fut'[u] = "granted"
      /\ \A u \in Tasks : u # t /\ u \notin W => fut'[u] = fut[u]
  BY <1>2, <1>4, GrantFacts DEF FutStates
<1>6. /\ At(Global)' = At(Global) \ {t}
      /\ \A s \in Sems \ {Global} : At(s)' = At(s) /\ t \notin At(s) /\ W \cap At(s) = {}
      /\ \A s \in Sems : At(s) \subseteq Tasks
  BY <1>0, <1>1, <1>3, <1>4 DEF IInv, TypeOK, At, Waiters, Awaited, Suspended, Waits
<1>7. Healthy(Global)'
  <2>1. \A u \in At(Global) \ (W \union {t}) : fut'[u] = fut[u]
    BY <1>0, <1>5, <1>6
  <2> QED BY <1>0, <1>2, <1>3, <1>5, <1>6, <2>1, LeaveHealth
<1>8. ASSUME NEW s \in Sems \ {Global} PROVE Healthy(s)'
  <2>1. value'[s] <= value[s] /\ At(s)' = At(s) /\ \A u \in At(s) : fut'[u] = fut[u]
    BY <1>3, <1>5, <1>6
  <2> QED BY <2>1, KeepHealth DEF Health
<1> QED BY <1>7, <1>8 DEF Health

(* A cancelled future is not pending any more. *)
LEMMA CancelHealth ==
    ASSUME IInv, IInv', Health, NEW t \in Tasks, Cancel(t) PROVE Health'
<1>1. \A s \in Sems : At(s)' = At(s) /\ value'[s] = value[s]
  BY DEF Cancel, At, Waiters, Awaited
<1>2. fut'[t] # "pending" /\ \A u \in Tasks : u # t => fut'[u] = fut[u]
  BY DEF Cancel, IInv, TypeOK
<1>3. \A s \in Sems : At(s) \subseteq Tasks
  BY DEF At, Waiters
<1> QED BY <1>1, <1>2, <1>3 DEF Health, Healthy

(* A cancelled task leaves the queue of its client. *)
LEMMA UnwindClientHealth ==
    ASSUME IInv, IInv', Health, NEW t \in Tasks, UnwindClient(t) PROVE Health'
<1> DEFINE c == Client[t]
           n == value[c] + Returned(t)
<1>0. c \in Sems /\ c # Global
  BY Facts DEF Sems
<1>1. pc[t] = "clientWait" /\ pc' = [pc EXCEPT ![t] = "idle"]
  BY DEF UnwindClient
<1>2. PICK W \in SUBSET Tasks :
        /\ WakesUp(W, Without(queue[c], t), n)
        /\ value' = [value EXCEPT ![c] = @ + Returned(t) - Cardinality(W)]
        /\ fut' = Grant(W, t, "none")
  BY DEF UnwindClient, Unfinished
<1>3. /\ pc[t] \in Suspended /\ Awaited(t) = c /\ n \in Nat
      /\ value'[c] = n - Cardinality(W)
      /\ \A s \in Sems \ {c} : value'[s] <= value[s]
  <2>1. value \in [Sems -> Nat] /\ pc[t] \in Suspended /\ Awaited(t) = c /\ Returned(t) \in Nat
    BY <1>1 DEF IInv, TypeOK, Suspended, Awaited, Returned
  <2>2. value' = [value EXCEPT ![c] = value[c] + Returned(t) - Cardinality(W)]
    BY <1>0, <1>2
  <2>3. /\ value'[c] = value[c] + Returned(t) - Cardinality(W)
        /\ \A s \in Sems \ {c} : value'[s] <= value[s]
    <3> HIDE DEF c
    <3> QED BY ONLY <1>0, <2>1, <2>2
  <2>4. Cardinality(W) \in Nat
    BY TasksAssumption, FS_Subset, FS_CardinalityType
  <2>5. n \in Nat /\ value'[c] = n - Cardinality(W)
    BY <1>0, <2>1, <2>3, <2>4
  <2> QED BY <2>1, <2>3, <2>5
<1>4. t \notin W /\ \A u \in W : Waits(u, c)
  <2> HIDE DEF c, n
  <2> QED BY <1>0, <1>2, <1>3, LeaveQueue
<1>5. /\ \A u \in W : fut'[u] = "granted"
      /\ \A u \in Tasks : u # t /\ u \notin W => fut'[u] = fut[u]
  BY <1>2, <1>4, GrantFacts DEF FutStates
<1>6. /\ At(c)' = At(c) \ {t}
      /\ \A s \in Sems \ {c} : At(s)' = At(s) /\ t \notin At(s) /\ W \cap At(s) = {}
      /\ \A s \in Sems : At(s) \subseteq Tasks
  BY <1>0, <1>1, <1>3, <1>4 DEF IInv, TypeOK, At, Waiters, Awaited, Suspended, Waits
<1>7. Healthy(c)'
  <2>1. \A u \in At(c) \ (W \union {t}) : fut'[u] = fut[u]
    BY <1>0, <1>5, <1>6
  <2> HIDE DEF c, n
  <2> QED BY <1>0, <1>2, <1>3, <1>5, <1>6, <2>1, LeaveHealth
<1>8. ASSUME NEW s \in Sems \ {c} PROVE Healthy(s)'
  <2>1. value'[s] <= value[s] /\ At(s)' = At(s) /\ \A u \in At(s) : fut'[u] = fut[u]
    BY <1>3, <1>5, <1>6
  <2> QED BY <2>1, KeepHealth DEF Health
<1> QED BY <1>7, <1>8 DEF Health

(* A cancelled task leaves the global queue and releases its client's      *)
(* permit.                                                                 *)
LEMMA UnwindGlobalHealth ==
    ASSUME IInv, IInv', Health, NEW t \in Tasks, UnwindGlobal(t) PROVE Health'
<1> DEFINE c == Client[t]
           n == value[Global] + Returned(t)
<1>0. c \in Sems /\ c # Global /\ Global \in Sems
  BY Facts DEF Sems
<1>1. pc[t] = "globalWait" /\ pc' = [pc EXCEPT ![t] = "idle"]
  BY DEF UnwindGlobal
<1>2. PICK W \in SUBSET Tasks, V \in SUBSET Tasks :
        /\ WakesUp(W, Without(queue[Global], t), n)
        /\ WakesUp(V, queue[c], 1)
        /\ value' = [value EXCEPT ![Global] = @ + Returned(t) - Cardinality(W),
                                  ![c] = @ + 1 - Cardinality(V)]
        /\ fut' = Grant(W \union V, t, "none")
  BY DEF UnwindGlobal, Unfinished
<1>3. /\ pc[t] \in Suspended /\ Awaited(t) = Global /\ n \in Nat
      /\ value'[Global] = n - Cardinality(W)
      /\ \A s \in Sems \ {c, Global} : value'[s] <= value[s]
  <2>1. value \in [Sems -> Nat] /\ pc[t] \in Suspended /\ Awaited(t) = Global /\ Returned(t) \in Nat
    BY <1>1 DEF IInv, TypeOK, Suspended, Awaited, Returned
  <2>2. value' = [value EXCEPT ![Global] = value[Global] + Returned(t) - Cardinality(W),
                               ![c] = value[c] + 1 - Cardinality(V)]
    BY <1>0, <1>2
  <2>3. /\ value'[Global] = value[Global] + Returned(t) - Cardinality(W)
        /\ \A s \in Sems \ {c, Global} : value'[s] <= value[s]
    <3> HIDE DEF c
    <3> QED BY ONLY <1>0, <2>1, <2>2
  <2>4. Cardinality(W) \in Nat
    BY TasksAssumption, FS_Subset, FS_CardinalityType
  <2>5. n \in Nat /\ value'[Global] = n - Cardinality(W)
    BY <1>0, <2>1, <2>3, <2>4
  <2> QED BY <2>1, <2>3, <2>5
<1>4. t \notin W \union V /\ (\A u \in W : Waits(u, Global)) /\ \A u \in V : Waits(u, c)
  <2>1. t \notin W /\ \A u \in W : Waits(u, Global)
    <3> HIDE DEF n
    <3> QED BY <1>0, <1>2, <1>3, LeaveQueue
  <2>2. \A u \in V : Waits(u, c)
    <3>1. QueuesMatch
      BY DEF IInv
    <3> HIDE DEF c
    <3> QED BY <1>0, <1>2, <3>1, Woken
  <2> QED BY <1>0, <1>3, <2>1, <2>2 DEF Waits
<1>5. /\ \A u \in W \union V : fut'[u] = "granted"
      /\ \A u \in Tasks : u # t /\ u \notin W \union V => fut'[u] = fut[u]
  <2>1. W \union V \in SUBSET Tasks /\ "none" \in FutStates
    BY DEF FutStates
  <2> QED BY <1>2, <1>4, <2>1, GrantFacts
<1>6. /\ At(Global)' = At(Global) \ {t} /\ V \cap At(Global) = {}
      /\ \A s \in Sems \ {Global} : At(s)' = At(s) /\ t \notin At(s) /\ W \cap At(s) = {}
      /\ \A s \in Sems \ {c} : V \cap At(s) = {}
      /\ \A s \in Sems : At(s) \subseteq Tasks
  BY <1>0, <1>1, <1>3, <1>4 DEF IInv, TypeOK, At, Waiters, Awaited, Suspended, Waits
<1>7. Healthy(Global)'
  <2>1. \A u \in At(Global) \ (W \union {t}) : fut'[u] = fut[u]
    BY <1>0, <1>5, <1>6
  <2> HIDE DEF n
  <2> QED BY <1>0, <1>2, <1>3, <1>5, <1>6, <2>1, LeaveHealth
<1>8. Healthy(c)'
  <2>1. \A u \in At(c) \ V : fut'[u] = fut[u]
    BY <1>0, <1>5, <1>6
  <2>2. At(c)' = At(c)
    BY <1>0, <1>6
  <2> HIDE DEF c
  <2> QED BY <1>0, <1>2, <1>5, <2>1, <2>2, ReleaseHealth
<1>9. ASSUME NEW s \in Sems \ {c, Global} PROVE Healthy(s)'
  <2>1. value'[s] <= value[s] /\ At(s)' = At(s) /\ \A u \in At(s) : fut'[u] = fut[u]
    BY <1>3, <1>5, <1>6
  <2> QED BY <2>1, KeepHealth DEF Health
<1> QED BY <1>7, <1>8, <1>9 DEF Health

(* A body ends and releases both permits. *)
LEMMA ExitHealth ==
    ASSUME IInv, IInv', Health, NEW t \in Tasks, Exit(t) PROVE Health'
<1> DEFINE c == Client[t]
<1>0. c \in Sems /\ c # Global /\ Global \in Sems
  BY Facts DEF Sems
<1>1. pc[t] = "running" /\ pc' = [pc EXCEPT ![t] = "idle"]
  BY DEF Exit
<1>2. PICK W \in SUBSET Tasks, V \in SUBSET Tasks :
        /\ WakesUp(W, queue[Global], 1)
        /\ WakesUp(V, queue[c], 1)
        /\ value' = [value EXCEPT ![Global] = @ + 1 - Cardinality(W),
                                  ![c] = @ + 1 - Cardinality(V)]
        /\ fut' = Grant(W \union V, t, "none")
  BY DEF Exit, Unfinished
<1>3. \A s \in Sems \ {c, Global} : value'[s] <= value[s]
  <2>1. value \in [Sems -> Nat]
    BY DEF IInv, TypeOK
  <2>2. value' = [value EXCEPT ![Global] = value[Global] + 1 - Cardinality(W),
                               ![c] = value[c] + 1 - Cardinality(V)]
    BY <1>0, <1>2
  <2> HIDE DEF c
  <2> QED BY ONLY <1>0, <2>1, <2>2
<1>4. t \notin W \union V /\ (\A u \in W : Waits(u, Global)) /\ \A u \in V : Waits(u, c)
  <2>1. QueuesMatch
    BY DEF IInv
  <2>2. \A u \in W : Waits(u, Global)
    BY <1>0, <1>2, <2>1, Woken
  <2>3. \A u \in V : Waits(u, c)
    <3> HIDE DEF c
    <3> QED BY <1>0, <1>2, <2>1, Woken
  <2> QED BY <1>1, <2>2, <2>3 DEF Waits, Suspended
<1>5. /\ \A u \in W \union V : fut'[u] = "granted"
      /\ \A u \in Tasks : u # t /\ u \notin W \union V => fut'[u] = fut[u]
  <2>1. W \union V \in SUBSET Tasks /\ "none" \in FutStates
    BY DEF FutStates
  <2> QED BY <1>2, <1>4, <2>1, GrantFacts
<1>6. /\ \A s \in Sems : At(s)' = At(s) /\ t \notin At(s) /\ At(s) \subseteq Tasks
      /\ \A s \in Sems \ {Global} : W \cap At(s) = {}
      /\ \A s \in Sems \ {c} : V \cap At(s) = {}
  BY <1>0, <1>1, <1>4 DEF IInv, TypeOK, At, Waiters, Awaited, Suspended, Waits
<1>7. Healthy(Global)'
  <2>1. \A u \in At(Global) \ W : fut'[u] = fut[u]
    BY <1>0, <1>5, <1>6
  <2> QED BY <1>0, <1>2, <1>5, <1>6, <2>1, ReleaseHealth
<1>8. Healthy(c)'
  <2>1. \A u \in At(c) \ V : fut'[u] = fut[u]
    BY <1>0, <1>5, <1>6
  <2> HIDE DEF c
  <2> QED BY <1>0, <1>2, <1>5, <1>6, <2>1, ReleaseHealth
<1>9. ASSUME NEW s \in Sems \ {c, Global} PROVE Healthy(s)'
  <2>1. value'[s] <= value[s] /\ At(s)' = At(s) /\ \A u \in At(s) : fut'[u] = fut[u]
    BY <1>3, <1>5, <1>6
  <2> QED BY <2>1, KeepHealth DEF Health
<1> QED BY <1>7, <1>8, <1>9 DEF Health

-----------------------------------------------------------------------------
(* First come, first served.  InTurn(s) is the condition of NoOvertaking   *)
(* on the semaphore s.                                                     *)
InTurn(s) == \A i \in DOMAIN queue[s] :
    LET w == queue[s][i]
    IN  fut[w] = "pending" /\ fut'[w] = "pending" /\ w \in Range(queue'[s]) =>
          \A u \in Owners(s)' \ Owners(s) : \E j \in 1..(i - 1) : queue[s][j] = u

(* A step may hand the permits of s to nobody new. *)
LEMMA NobodyInTurn ==
    ASSUME NEW s \in Sems, Owners(s)' \subseteq Owners(s) PROVE InTurn(s)
BY DEF InTurn

(* A newcomer finds s free only when every future in its queue is         *)
(* cancelled.                                                              *)
LEMMA FreeInTurn ==
    ASSUME NEW s \in Sems, ~Locked(s) PROVE InTurn(s)
BY DEF InTurn, Locked, Range

(* A release hands its permit to the first unfinished future. *)
LEMMA ReleasedInTurn ==
    ASSUME IInv, NEW s \in Sems, NEW W, NEW n, WakesUp(W, queue[s], n),
           Owners(s)' \subseteq Owners(s) \union W, \A u \in W : fut'[u] = "granted"
    PROVE  InTurn(s)
<1> SUFFICES ASSUME NEW i \in DOMAIN queue[s], NEW u \in W,
                    fut[queue[s][i]] = "pending", fut'[queue[s][i]] = "pending"
             PROVE  \E j \in 1..(i - 1) : queue[s][j] = u
  BY DEF InTurn
<1>1. DOMAIN queue[s] = 1..Len(queue[s]) /\ Len(queue[s]) \in Nat
  BY DEF IInv, TypeOK
<1>2. PICK j \in DOMAIN queue[s] : queue[s][j] = u
  BY DEF WakesUp, Pending, Range
<1>3. queue[s][i] \in Pending(queue[s]) /\ queue[s][i] \notin W
  BY DEF Pending, Range
<1>4. ~(i < j) /\ i # j
  BY <1>2, <1>3 DEF WakesUp
<1> QED BY <1>1, <1>2, <1>4

(* A task that leaves the queue hands permits to the first ones behind or  *)
(* before it.                                                              *)
LEMMA LeftInTurn ==
    ASSUME IInv, NEW s \in Sems, NEW t \in Tasks, pc[t] \in Suspended, Awaited(t) = s,
           fut[t] # "pending", NEW W, NEW n, WakesUp(W, Without(queue[s], t), n),
           Owners(s)' \subseteq Owners(s) \union W, \A u \in W : fut'[u] = "granted"
    PROVE  InTurn(s)
<1> DEFINE q == queue[s]
           r == Without(q, t)
<1> SUFFICES ASSUME NEW i \in DOMAIN q, NEW u \in W, fut[q[i]] = "pending",
                    fut'[q[i]] = "pending"
             PROVE  \E j \in 1..(i - 1) : q[j] = u
  BY DEF InTurn
<1>1. q \in Seq(Tasks) /\ IsInjective(q) /\ t \in Range(q)
  BY DEF IInv, TypeOK, QueuesMatch, Waiters
<1>2. DOMAIN q = 1..Len(q) /\ Len(q) \in Nat
  BY <1>1
<1>3. r \in Seq(Tasks) /\ Range(r) = Range(q) \ {t}
  BY <1>1, WithoutPresent
<1>4. WakesUp(W, r, n)
  OBVIOUS
<1>5. DOMAIN r = 1..Len(r) /\ Len(r) \in Nat
  BY <1>3
<1> HIDE DEF r
<1>6. PICK a \in DOMAIN r : r[a] = u
  BY <1>4 DEF WakesUp, Pending, Range
<1>7. q[i] \in Range(r) /\ q[i] \in Pending(r) /\ q[i] \notin W
  <2>1. q[i] \in Range(q) /\ q[i] # t
    BY DEF Range
  <2>2. q[i] \in Range(r)
    BY <1>3, <2>1
  <2> QED BY <2>2 DEF Pending
<1>8. PICK b \in DOMAIN r : r[b] = q[i]
  BY <1>7 DEF Range
<1>9. a < b
  BY <1>4, <1>5, <1>6, <1>7, <1>8 DEF WakesUp
<1>10. \E k, j \in DOMAIN q : k < j /\ q[k] = r[a] /\ q[j] = r[b]
  <2> HIDE DEF q
  <2> QED BY <1>1, <1>9, WithoutOrder DEF r
<1>11. PICK k, j \in DOMAIN q : k < j /\ q[k] = r[a] /\ q[j] = r[b]
  BY <1>10
<1>12. j = i
  BY <1>1, <1>8, <1>11 DEF IsInjective
<1> QED BY <1>2, <1>6, <1>11, <1>12

-----------------------------------------------------------------------------
(* Every action serves every semaphore in turn *)

Order == \A s \in Sems : InTurn(s)

(* A newcomer that finds its client's semaphore locked gets nothing. *)
LEMMA EnterClientWaitOrder ==
    ASSUME IInv, NEW t \in Tasks, EnterClientWait(t) PROVE Order
<1>1. \A s \in Sems : Owners(s)' \subseteq Owners(s)
  BY DEF IInv, EnterClientWait, Reserve, TypeOK, Owners, Owns, Awaited, Suspended
<1> QED BY <1>1, NobodyInTurn DEF Order

(* A newcomer takes a free permit of its client. *)
LEMMA EnterGlobalWaitOrder ==
    ASSUME IInv, NEW t \in Tasks, EnterGlobalWait(t) PROVE Order
<1>1. \A s \in Sems \ {Client[t]} : Owners(s)' \subseteq Owners(s)
  BY Facts DEF IInv, EnterGlobalWait, Reserve, TypeOK, Owners, Owns, Awaited, Suspended
<1>2. ~Locked(Client[t])
  BY DEF EnterGlobalWait
<1> QED BY <1>1, <1>2, NobodyInTurn, FreeInTurn DEF Order

(* A newcomer takes two free permits. *)
LEMMA EnterRunningOrder ==
    ASSUME IInv, NEW t \in Tasks, EnterRunning(t) PROVE Order
<1>1. \A s \in Sems \ {Client[t], Global} : Owners(s)' \subseteq Owners(s)
  BY Facts DEF IInv, EnterRunning, Reserve, TypeOK, Owners, Owns, Awaited, Suspended
<1>2. ~Locked(Client[t]) /\ ~Locked(Global)
  BY DEF EnterRunning
<1> QED BY <1>1, <1>2, NobodyInTurn, FreeInTurn DEF Order

(* A granted task leaves its client's queue for the global one. *)
LEMMA ResumeToGlobalWaitOrder ==
    ASSUME IInv, NEW t \in Tasks, ResumeToGlobalWait(t) PROVE Order
<1> DEFINE c == Client[t]
<1>0. c \in Sems /\ c # Global /\ Global \in Sems
  BY Facts DEF Sems
<1>1. pc[t] = "clientWait" /\ fut[t] = "granted" /\ pc' = [pc EXCEPT ![t] = "globalWait"]
  BY DEF ResumeToGlobalWait
<1>2. PICK W \in SUBSET Tasks :
        WakesUp(W, Without(queue[c], t), value[c]) /\ fut' = Grant(W, t, "pending")
  BY DEF ResumeToGlobalWait, Unfinished
<1>3. pc[t] \in Suspended /\ Awaited(t) = c /\ value[c] \in Nat
  BY <1>0, <1>1 DEF IInv, TypeOK, Suspended, Awaited
<1>4. t \notin W /\ \A u \in W : Waits(u, c)
  <2> HIDE DEF c
  <2> QED BY <1>0, <1>2, <1>3, LeaveQueue
<1>5. /\ fut'[t] = "pending" /\ \A u \in W : fut'[u] = "granted"
      /\ \A u \in Tasks : u # t /\ u \notin W => fut'[u] = fut[u]
  BY <1>2, <1>4, GrantFacts DEF FutStates
<1>6. /\ Owners(c)' \subseteq Owners(c) \union W
      /\ \A s \in Sems \ {c} : Owners(s)' \subseteq Owners(s)
  BY <1>0, <1>1, <1>4, <1>5 DEF IInv, TypeOK, Owners, Owns, Awaited, Suspended, Waits
<1>7. InTurn(c)
  <2> HIDE DEF c
  <2> QED BY <1>0, <1>1, <1>2, <1>3, <1>5, <1>6, LeftInTurn
<1> QED BY <1>6, <1>7, NobodyInTurn DEF Order

(* A granted task leaves its client's queue and finds a global permit free. *)
LEMMA ResumeToRunningOrder ==
    ASSUME IInv, NEW t \in Tasks, ResumeToRunning(t) PROVE Order
<1> DEFINE c == Client[t]
<1>0. c \in Sems /\ c # Global /\ Global \in Sems
  BY Facts DEF Sems
<1>1. /\ pc[t] = "clientWait" /\ fut[t] = "granted" /\ pc' = [pc EXCEPT ![t] = "running"]
      /\ ~Locked(Global)
  BY DEF ResumeToRunning
<1>2. PICK W \in SUBSET Tasks :
        WakesUp(W, Without(queue[c], t), value[c]) /\ fut' = Grant(W, t, "none")
  BY DEF ResumeToRunning, Unfinished
<1>3. pc[t] \in Suspended /\ Awaited(t) = c /\ value[c] \in Nat
  BY <1>0, <1>1 DEF IInv, TypeOK, Suspended, Awaited
<1>4. t \notin W /\ \A u \in W : Waits(u, c)
  <2> HIDE DEF c
  <2> QED BY <1>0, <1>2, <1>3, LeaveQueue
<1>5. /\ fut'[t] = "none" /\ \A u \in W : fut'[u] = "granted"
      /\ \A u \in Tasks : u # t /\ u \notin W => fut'[u] = fut[u]
  BY <1>2, <1>4, GrantFacts DEF FutStates
<1>6. /\ Owners(c)' \subseteq Owners(c) \union W
      /\ \A s \in Sems \ {c, Global} : Owners(s)' \subseteq Owners(s)
  BY <1>0, <1>1, <1>4, <1>5 DEF IInv, TypeOK, Owners, Owns, Awaited, Suspended, Waits
<1>7. InTurn(c)
  <2> HIDE DEF c
  <2> QED BY <1>0, <1>1, <1>2, <1>3, <1>5, <1>6, LeftInTurn
<1> QED BY <1>0, <1>1, <1>6, <1>7, NobodyInTurn, FreeInTurn DEF Order

(* A task granted the global permit leaves the global queue. *)
LEMMA ResumeGlobalOrder ==
    ASSUME IInv, NEW t \in Tasks, ResumeGlobal(t) PROVE Order
<1>0. Global \in Sems
  BY DEF Sems
<1>1. pc[t] = "globalWait" /\ fut[t] = "granted" /\ pc' = [pc EXCEPT ![t] = "running"]
  BY DEF ResumeGlobal
<1>2. PICK W \in SUBSET Tasks :
        WakesUp(W, Without(queue[Global], t), value[Global]) /\ fut' = Grant(W, t, "none")
  BY DEF ResumeGlobal, Unfinished
<1>3. pc[t] \in Suspended /\ Awaited(t) = Global /\ value[Global] \in Nat
  BY <1>0, <1>1 DEF IInv, TypeOK, Suspended, Awaited
<1>4. t \notin W /\ \A u \in W : Waits(u, Global)
  BY <1>0, <1>2, <1>3, LeaveQueue
<1>5. /\ fut'[t] = "none" /\ \A u \in W : fut'[u] = "granted"
      /\ \A u \in Tasks : u # t /\ u \notin W => fut'[u] = fut[u]
  BY <1>2, <1>4, GrantFacts DEF FutStates
<1>6. /\ Owners(Global)' \subseteq Owners(Global) \union W
      /\ \A s \in Sems \ {Global} : Owners(s)' \subseteq Owners(s)
  BY <1>0, <1>1, <1>4, <1>5, ClientAssumption
     DEF IInv, TypeOK, Owners, Owns, Awaited, Suspended, Waits, Sems
<1>7. InTurn(Global)
  BY <1>0, <1>1, <1>2, <1>3, <1>5, <1>6, LeftInTurn
<1> QED BY <1>6, <1>7, NobodyInTurn DEF Order

(* A cancellation grants nothing. *)
LEMMA CancelOrder ==
    ASSUME IInv, NEW t \in Tasks, Cancel(t) PROVE Order
<1>1. \A s \in Sems : Owners(s)' \subseteq Owners(s)
  BY DEF IInv, Cancel, TypeOK, Owners, Owns, Awaited, Suspended
<1> QED BY <1>1, NobodyInTurn DEF Order

(* A cancelled task leaves its client's queue. *)
LEMMA UnwindClientOrder ==
    ASSUME IInv, NEW t \in Tasks, UnwindClient(t) PROVE Order
<1> DEFINE c == Client[t]
           n == value[c] + Returned(t)
<1>0. c \in Sems /\ c # Global
  BY Facts DEF Sems
<1>1. pc[t] = "clientWait" /\ fut[t] # "pending" /\ pc' = [pc EXCEPT ![t] = "idle"]
  BY DEF UnwindClient
<1>2. PICK W \in SUBSET Tasks :
        WakesUp(W, Without(queue[c], t), n) /\ fut' = Grant(W, t, "none")
  BY DEF UnwindClient, Unfinished
<1>3. pc[t] \in Suspended /\ Awaited(t) = c /\ n \in Nat
  BY <1>0, <1>1 DEF IInv, TypeOK, Suspended, Awaited, Returned
<1>4. t \notin W /\ \A u \in W : Waits(u, c)
  <2> HIDE DEF c, n
  <2> QED BY <1>0, <1>2, <1>3, LeaveQueue
<1>5. /\ fut'[t] = "none" /\ \A u \in W : fut'[u] = "granted"
      /\ \A u \in Tasks : u # t /\ u \notin W => fut'[u] = fut[u]
  BY <1>2, <1>4, GrantFacts DEF FutStates
<1>6. /\ Owners(c)' \subseteq Owners(c) \union W
      /\ \A s \in Sems \ {c} : Owners(s)' \subseteq Owners(s)
  BY <1>0, <1>1, <1>4, <1>5 DEF IInv, TypeOK, Owners, Owns, Awaited, Suspended, Waits
<1>7. InTurn(c)
  <2> HIDE DEF c, n
  <2> QED BY <1>0, <1>1, <1>2, <1>3, <1>5, <1>6, LeftInTurn
<1> QED BY <1>6, <1>7, NobodyInTurn DEF Order

(* A cancelled task leaves the global queue and gives back its client's    *)
(* permit.                                                                 *)
LEMMA UnwindGlobalOrder ==
    ASSUME IInv, NEW t \in Tasks, UnwindGlobal(t) PROVE Order
<1> DEFINE c == Client[t]
           n == value[Global] + Returned(t)
<1>0. c \in Sems /\ c # Global /\ Global \in Sems
  BY Facts DEF Sems
<1>1. pc[t] = "globalWait" /\ fut[t] # "pending" /\ pc' = [pc EXCEPT ![t] = "idle"]
  BY DEF UnwindGlobal
<1>2. PICK W \in SUBSET Tasks, V \in SUBSET Tasks :
        /\ WakesUp(W, Without(queue[Global], t), n)
        /\ WakesUp(V, queue[c], 1)
        /\ fut' = Grant(W \union V, t, "none")
  BY DEF UnwindGlobal, Unfinished
<1>3. pc[t] \in Suspended /\ Awaited(t) = Global /\ n \in Nat
  BY <1>0, <1>1 DEF IInv, TypeOK, Suspended, Awaited, Returned
<1>4. t \notin W \union V /\ (\A u \in W : Waits(u, Global)) /\ \A u \in V : Waits(u, c)
  <2>1. t \notin W /\ \A u \in W : Waits(u, Global)
    <3> HIDE DEF n
    <3> QED BY <1>0, <1>2, <1>3, LeaveQueue
  <2>2. \A u \in V : Waits(u, c)
    <3>1. QueuesMatch
      BY DEF IInv
    <3> HIDE DEF c
    <3> QED BY <1>0, <1>2, <3>1, Woken
  <2> QED BY <1>0, <1>3, <2>1, <2>2 DEF Waits
<1>5. /\ fut'[t] = "none" /\ \A u \in W \union V : fut'[u] = "granted"
      /\ \A u \in Tasks : u # t /\ u \notin W \union V => fut'[u] = fut[u]
  <2>1. W \union V \in SUBSET Tasks /\ "none" \in FutStates
    BY DEF FutStates
  <2> QED BY <1>2, <1>4, <2>1, GrantFacts
<1>6. /\ Owners(Global)' \subseteq Owners(Global) \union W
      /\ Owners(c)' \subseteq Owners(c) \union V
      /\ \A s \in Sems \ {c, Global} : Owners(s)' \subseteq Owners(s)
  BY <1>0, <1>1, <1>4, <1>5, ClientAssumption
     DEF IInv, TypeOK, Owners, Owns, Awaited, Suspended, Waits
<1>7. InTurn(Global)
  <2> HIDE DEF n
  <2> QED BY <1>0, <1>1, <1>2, <1>3, <1>5, <1>6, LeftInTurn
<1>8. InTurn(c)
  <2> HIDE DEF c
  <2> QED BY <1>0, <1>2, <1>5, <1>6, ReleasedInTurn
<1> QED BY <1>6, <1>7, <1>8, NobodyInTurn DEF Order

(* A body ends and gives back both permits. *)
LEMMA ExitOrder ==
    ASSUME IInv, NEW t \in Tasks, Exit(t) PROVE Order
<1> DEFINE c == Client[t]
<1>0. c \in Sems /\ c # Global /\ Global \in Sems
  BY Facts DEF Sems
<1>1. pc[t] = "running" /\ pc' = [pc EXCEPT ![t] = "idle"] /\ QueuesMatch
  BY DEF Exit, IInv
<1>2. PICK W \in SUBSET Tasks, V \in SUBSET Tasks :
        WakesUp(W, queue[Global], 1) /\ WakesUp(V, queue[c], 1) /\ fut' = Grant(W \union V, t, "none")
  BY DEF Exit, Unfinished
<1>3. \A u \in W : Waits(u, Global)
  BY <1>0, <1>1, <1>2, Woken
<1>4. \A u \in V : Waits(u, c)
  <2> HIDE DEF c
  <2> QED BY <1>0, <1>1, <1>2, Woken
<1>5. /\ fut'[t] = "none" /\ \A u \in W \union V : fut'[u] = "granted"
      /\ \A u \in Tasks : u # t /\ u \notin W \union V => fut'[u] = fut[u]
  <2>1. W \union V \in SUBSET Tasks /\ "none" \in FutStates /\ t \notin W \union V
    BY <1>1, <1>3, <1>4 DEF FutStates, Waits, Suspended
  <2> QED BY <1>2, <2>1, GrantFacts
<1>6. /\ Owners(Global)' \subseteq Owners(Global) \union W
      /\ Owners(c)' \subseteq Owners(c) \union V
      /\ \A s \in Sems \ {c, Global} : Owners(s)' \subseteq Owners(s)
  BY <1>0, <1>1, <1>3, <1>4, <1>5, ClientAssumption
     DEF IInv, TypeOK, Owners, Owns, Awaited, Suspended, Waits
<1>7. InTurn(Global)
  BY <1>0, <1>2, <1>5, <1>6, ReleasedInTurn
<1>8. InTurn(c)
  <2> HIDE DEF c
  <2> QED BY <1>0, <1>2, <1>5, <1>6, ReleasedInTurn
<1> QED BY <1>6, <1>7, <1>8, NobodyInTurn DEF Order

-----------------------------------------------------------------------------
(* The theorems *)

(* Every step keeps every semaphore healthy. *)
LEMMA NextHealth == IInv /\ IInv' /\ Health /\ [Next]_vars => Health'
<1> SUFFICES ASSUME IInv, IInv', Health, [Next]_vars PROVE Health'
  OBVIOUS
<1>1. CASE UNCHANGED vars
  BY <1>1 DEF vars, Health, Healthy, At, Waiters, Awaited
<1>2. ASSUME NEW t \in Tasks, Reject(t) PROVE Health'
  BY <1>2 DEF Reject, IInv, TypeOK, Health, Healthy, At, Waiters, Awaited, Suspended
<1>3. ASSUME NEW t \in Tasks, Enter(t) \/ Resume(t) \/ Cancel(t) \/ Unwind(t) \/ Exit(t)
      PROVE  Health'
  BY <1>3, EnterClientWaitHealth, EnterGlobalWaitHealth, EnterRunningHealth,
     ResumeToGlobalWaitHealth, ResumeToRunningHealth, ResumeGlobalHealth, CancelHealth,
     UnwindClientHealth, UnwindGlobalHealth, ExitHealth DEF Enter, Resume, Unwind
<1> QED BY <1>1, <1>2, <1>3 DEF Next

(* A free permit never waits for a waiter that nobody will wake, whatever  *)
(* was cancelled before or after its grant.                                *)
THEOREM NoWakeupIsLost == Spec => []NoLostWakeup
<1>1. IInv /\ Health => NoLostWakeup
  BY HealthIsNoLostWakeup DEF IInv, Health
<1> QED BY <1>1, InitHealth, Invariance, NextHealth, PTL DEF Spec

(* Every step serves every semaphore in turn. *)
LEMMA NextOrder == IInv /\ Next => Order
<1> SUFFICES ASSUME IInv, Next PROVE Order
  OBVIOUS
<1>1. ASSUME NEW t \in Tasks, Reject(t) PROVE Order
  <2>1. \A s \in Sems : Owners(s)' \subseteq Owners(s)
    BY <1>1 DEF Reject, IInv, TypeOK, Owners, Owns, Awaited, Suspended
  <2> QED BY <2>1, NobodyInTurn DEF Order
<1>2. ASSUME NEW t \in Tasks, Enter(t) \/ Resume(t) \/ Cancel(t) \/ Unwind(t) \/ Exit(t)
      PROVE  Order
  BY <1>2, EnterClientWaitOrder, EnterGlobalWaitOrder, EnterRunningOrder,
     ResumeToGlobalWaitOrder, ResumeToRunningOrder, ResumeGlobalOrder, CancelOrder,
     UnwindClientOrder, UnwindGlobalOrder, ExitOrder DEF Enter, Resume, Unwind
<1> QED BY <1>1, <1>2 DEF Next

(* Nobody gets a permit before a task that has waited for it longer and    *)
(* still waits: neither a newcomer nor, after cancellations and hand-overs,*)
(* another waiter (concurrency.py:66-84).                                  *)
THEOREM NobodyOvertakes == Spec => NoOvertaking
<1>1. IInv /\ [Next]_vars => [Order]_vars
  BY NextOrder
<1>2. [Order]_vars => [
          \A s \in Sems : \A i \in DOMAIN queue[s] :
              LET w == queue[s][i]
              IN  fut[w] = "pending" /\ fut'[w] = "pending" /\ w \in Range(queue'[s]) =>
                    \A u \in Owners(s)' \ Owners(s) :
                       \E j \in 1..(i - 1) : queue[s][j] = u]_vars
  BY DEF Order, InTurn
<1> QED BY <1>1, <1>2, Invariance, PTL DEF Spec, NoOvertaking

-----------------------------------------------------------------------------
(* The refinement: every step of the gate, with its semaphores, futures    *)
(* and cancellations, is a step of AdmissionSpec or a stutter.             *)

(* What the control points of slot() look like from outside. *)
LEMMA SeenStates ==
    /\ Seen("idle") = "outside" /\ Seen("rejected") = "refused"
    /\ Seen("clientWait") = "waiting" /\ Seen("globalWait") = "waiting"
    /\ Seen("running") = "running"
BY DEF Seen, Suspended

(* The states of the calls, task by task. *)
LEMMA CallStates ==
    ASSUME TypeOK
    PROVE  \A t \in Tasks :
                /\ CallState[t] = "outside" <=> pc[t] = "idle"
                /\ CallState[t] = "refused" <=> pc[t] = "rejected"
                /\ CallState[t] = "waiting" <=> pc[t] \in Suspended
                /\ CallState[t] = "running" <=> pc[t] = "running"
BY SeenStates DEF TypeOK, PCs, Suspended, CallState

(* The promise counts as the gate does. *)
LEMMA SameCount == ASSUME NEW S PROVE Promise!Cardinality(S) = Cardinality(S)
BY DEF Promise!Cardinality, Cardinality

(* The sets that the promise counts. *)
LEMMA Counted ==
    ASSUME TypeOK
    PROVE  /\ Promise!In("waiting") = Waiters
           /\ Promise!In("running") = Running
           /\ \A c : Promise!InOf("running", c) = Of(Running, c)
BY CallStates DEF Promise!In, Promise!InOf, Waiters, Running, Of

(* How many run when some permits are free or belong to tasks that wait. *)
LEMMA RoomForOne ==
    ASSUME IInv, NEW s \in Sems, NEW R, R \subseteq Owners(s),
           value[s] > 0 \/ \E t \in Owners(s) : t \notin R
    PROVE  Cardinality(R) < Capacity(s)
<1>1. IsFiniteSet(R) /\ Cardinality(R) \in Nat /\ Cardinality(R) <= Cardinality(Owners(s))
  BY Facts, FS_Subset, FS_CardinalityType
<1>2. /\ value[s] \in Nat /\ Cardinality(Owners(s)) \in Nat
      /\ value[s] + Cardinality(Owners(s)) = Capacity(s)
  BY Facts DEF IInv, TypeOK, PermitsConserved
<1>3. CASE value[s] > 0
  BY <1>1, <1>2, <1>3
<1>4. ASSUME NEW t \in Owners(s), t \notin R PROVE Cardinality(R) < Capacity(s)
  <2>1. Cardinality(R) # Cardinality(Owners(s))
    BY <1>4, Facts, FS_Subset
  <2> QED BY <1>1, <1>2, <2>1
<1> QED BY <1>3, <1>4

(* A task may run when both semaphores have a permit for it: a free one,   *)
(* or one that it owns already.                                            *)
LEMMA MayRunNow ==
    ASSUME IInv, NEW t \in Tasks, pc[t] # "running",
           \A s \in {Client[t], Global} : value[s] > 0 \/ t \in Owners(s)
    PROVE  Promise!MayRun(t)
<1> DEFINE c == Client[t]
<1>1. c \in Sems /\ Global \in Sems /\ c # Global /\ TypeOK
  BY Facts DEF Sems, IInv
<1>2. Running \subseteq Owners(Global) /\ t \notin Running
  BY DEF Running, Owners, Owns
<1>3. Of(Running, c) \subseteq Owners(c) /\ t \notin Of(Running, c)
  BY DEF Running, Of, Owners, Owns
<1>4. Cardinality(Running) < MaxConcurrent
  BY <1>1, <1>2, RoomForOne DEF Capacity
<1>5. Cardinality(Of(Running, c)) < MaxPerClient
  <2>1. Capacity(c) = MaxPerClient
    BY <1>1 DEF Capacity
  <2> HIDE DEF c
  <2>2. value[c] > 0 \/ t \in Owners(c)
    BY DEF c
  <2> QED BY <1>1, <1>3, <2>1, <2>2, RoomForOne
<1> QED BY <1>1, <1>4, <1>5, Counted, SameCount DEF Promise!MayRun

(* The room has a place exactly when the counter is below its limit. *)
LEMMA MayWaitNow == ASSUME IInv PROVE Promise!MayWait <=> waiting < MaxWaiting
BY Counted, SameCount DEF Promise!MayWait, IInv, WaitingIsExact

(* A step that changes the state of one task. *)
LEMMA OneCall ==
    ASSUME IInv, NEW t \in Tasks, NEW p, pc' = [pc EXCEPT ![t] = p]
    PROVE  CallState' = [CallState EXCEPT ![t] = Seen(p)]
BY DEF IInv, TypeOK, CallState

-----------------------------------------------------------------------------
(* Every step is one of the promise *)

(* A rejection is a refusal: the room is full. *)
LEMMA RejectRefines == ASSUME IInv, NEW t \in Tasks, Reject(t) PROVE Promise!Next
<1>1. CallState' = [CallState EXCEPT ![t] = "refused"]
  BY OneCall, SeenStates DEF Reject
<1>2. ~Promise!MayWait
  BY MayWaitNow, LimitsAssumption DEF Reject, IInv, TypeOK
<1>3. Promise!Outside(t)
  BY CallStates DEF Reject, IInv, Promise!Outside
<1> QED BY <1>1, <1>2, <1>3 DEF Promise!Next, Promise!Refuse

(* A newcomer waits, or starts at once with a free permit of each kind. *)
LEMMA EnterRefines == ASSUME IInv, NEW t \in Tasks, Enter(t) PROVE Promise!Next
<1>1. Promise!Outside(t) /\ Promise!MayWait /\ pc[t] \in {"idle", "rejected"}
  BY CallStates, MayWaitNow
     DEF Enter, EnterClientWait, EnterGlobalWait, EnterRunning, Reserve, IInv, Promise!Outside
<1>2. CASE EnterClientWait(t) \/ EnterGlobalWait(t)
  <2>1. CallState' = [CallState EXCEPT ![t] = "waiting"]
    BY <1>2, OneCall, SeenStates DEF EnterClientWait, EnterGlobalWait
  <2> QED BY <1>1, <2>1 DEF Promise!Next, Promise!Wait
<1>3. CASE EnterRunning(t)
  <2>1. CallState' = [CallState EXCEPT ![t] = "running"]
    BY <1>3, OneCall, SeenStates DEF EnterRunning
  <2>2. value[Client[t]] > 0 /\ value[Global] > 0
    <3>1. value[Client[t]] \in Nat /\ value[Global] \in Nat
      BY Facts DEF IInv, TypeOK, Sems
    <3> QED BY <1>3, <3>1 DEF EnterRunning, Locked
  <2>3. Promise!MayRun(t)
    BY <1>1, <2>2, MayRunNow
  <2> QED BY <1>1, <2>1, <2>3 DEF Promise!Next, Promise!StartAtOnce
<1> QED BY <1>2, <1>3 DEF Enter

(* A woken task starts, or goes on waiting at the other semaphore. *)
LEMMA ResumeRefines ==
    ASSUME IInv, NEW t \in Tasks, Resume(t) PROVE Promise!Next \/ UNCHANGED CallState
<1>1. CASE ResumeToGlobalWait(t)
  <2>1. CallState' = [CallState EXCEPT ![t] = "waiting"]
    <3>1. pc' = [pc EXCEPT ![t] = "globalWait"]
      BY <1>1 DEF ResumeToGlobalWait
    <3> QED BY <3>1, OneCall, SeenStates
  <2>2. CallState[t] = "waiting"
    BY <1>1, CallStates DEF ResumeToGlobalWait, Suspended, IInv
  <2>3. CallState' = CallState
    BY <2>1, <2>2 DEF CallState
  <2> QED BY <2>3
<1>2. CASE ResumeToRunning(t) \/ ResumeGlobal(t)
  <2>1. CallState' = [CallState EXCEPT ![t] = "running"]
    BY <1>2, OneCall, SeenStates DEF ResumeToRunning, ResumeGlobal
  <2>2. CallState[t] = "waiting"
    BY <1>2, CallStates DEF ResumeToRunning, ResumeGlobal, Suspended, IInv
  <2>3. t \in Owners(Client[t]) /\ (value[Global] > 0 \/ t \in Owners(Global))
    BY <1>2, Facts DEF ResumeToRunning, ResumeGlobal, Locked, IInv, TypeOK, Sems, Owners, Owns,
                Awaited, Suspended
  <2>4. Promise!MayRun(t)
    BY <1>2, <2>3, MayRunNow DEF ResumeToRunning, ResumeGlobal
  <2> QED BY <2>1, <2>2, <2>4 DEF Promise!Next, Promise!Start
<1> QED BY <1>1, <1>2 DEF Resume

(* A cancelled task gives up waiting. *)
LEMMA UnwindRefines == ASSUME IInv, NEW t \in Tasks, Unwind(t) PROVE Promise!Next
<1>1. CallState' = [CallState EXCEPT ![t] = "outside"]
  <2>1. pc' = [pc EXCEPT ![t] = "idle"]
    BY DEF Unwind, UnwindClient, UnwindGlobal
  <2> QED BY <2>1, OneCall, SeenStates
<1>2. CallState[t] = "waiting"
  BY CallStates DEF Unwind, UnwindClient, UnwindGlobal, Suspended, IInv
<1> QED BY <1>1, <1>2 DEF Promise!Next, Promise!GiveUp

(* A body that ends finishes the call. *)
LEMMA ExitRefines == ASSUME IInv, NEW t \in Tasks, Exit(t) PROVE Promise!Next
<1>1. CallState' = [CallState EXCEPT ![t] = "outside"]
  <2>1. pc' = [pc EXCEPT ![t] = "idle"]
    BY DEF Exit
  <2> QED BY <2>1, OneCall, SeenStates
<1>2. CallState[t] = "running"
  BY CallStates DEF Exit, IInv
<1> QED BY <1>1, <1>2 DEF Promise!Next, Promise!Finish

(* The gate keeps its promise, for any number of tasks and any limits:     *)
(* every step of it is a step of AdmissionSpec or invisible to the callers. *)
THEOREM PromiseIsKept == Spec => ImplementsPromise
<1>1. Init => Promise!Init
  BY SeenStates DEF Init, Promise!Init, CallState
<1>2. IInv /\ [Next]_vars => [Promise!Next]_CallState
  <2> SUFFICES ASSUME IInv, [Next]_vars PROVE Promise!Next \/ UNCHANGED CallState
    OBVIOUS
  <2>1. CASE UNCHANGED vars
    BY <2>1 DEF vars, CallState
  <2>2. ASSUME NEW t \in Tasks, Cancel(t) PROVE UNCHANGED CallState
    BY <2>2 DEF Cancel, CallState
  <2> QED BY <2>1, <2>2, RejectRefines, EnterRefines, ResumeRefines, UnwindRefines, ExitRefines
          DEF Next
<1> QED BY <1>1, <1>2, Invariance, PTL DEF Spec, ImplementsPromise, Promise!Spec

=============================================================================
