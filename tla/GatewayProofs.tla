----------------------------- MODULE GatewayProofs -----------------------------
(***************************************************************************)
(* Proofs about Gateway, for any number of tasks and clients and any       *)
(* limits: the handlers use the gate by its own steps only, so that what   *)
(* AdmissionProofs establishes holds of the gate inside the gateway; the   *)
(* load on the upstream is bounded; and no request is retried after its    *)
(* client saw a reply.                                                     *)
(***************************************************************************)
EXTENDS Gateway, FiniteSetTheorems, TLAPS

(* The gate with the theorems about it.  Gate!Op and GateProven!Op are the *)
(* same formula, and so are the operators of FiniteSets in both.           *)
GateProven == INSTANCE AdmissionProofs

-----------------------------------------------------------------------------
(* The gate of Gateway is the gate of the theorems *)

LEMMA SameCardinality == ASSUME NEW S PROVE GateProven!Cardinality(S) = Cardinality(S)
BY Zenon DEF GateProven!Cardinality, Cardinality

LEMMA AssumptionsHold ==
    /\ GateProven!IsFiniteSet(Tasks) /\ Client \in [Tasks -> Clients] /\ Global \notin Clients
    /\ MaxConcurrent \in Nat \ {0} /\ MaxPerClient \in Nat \ {0} /\ MaxWaiting \in Nat
<1>1. GateProven!IsFiniteSet(Tasks) <=> IsFiniteSet(Tasks)
  BY Zenon DEF GateProven!IsFiniteSet, IsFiniteSet
<1> QED BY <1>1, GateAssumption

LEMMA SameInit == Gate!Init => GateProven!Init
BY Zenon DEF Gate!Init, GateProven!Init, Gate!Sems, GateProven!Sems, Gate!Capacity,
    GateProven!Capacity

LEMMA SameNext == Gate!Next => GateProven!Next
BY Zenon DEF
    Gate!Next, Gate!Enter, Gate!Resume, Gate!Unwind, Gate!Reject,
    Gate!EnterClientWait, Gate!EnterGlobalWait, Gate!EnterRunning,
    Gate!ResumeToGlobalWait, Gate!ResumeToRunning, Gate!ResumeGlobal, Gate!Cancel,
    Gate!UnwindClient, Gate!UnwindGlobal, Gate!Exit, Gate!Reserve, Gate!ClientValue,
    Gate!Locked, Gate!Without, Gate!RemoveAt, Gate!Unfinished, Gate!Pending,
    Gate!WakesUp, Gate!Grant, Gate!Returned, Gate!Range, Gate!Cardinality,
    Gate!Suspended, GateProven!Next, GateProven!Enter, GateProven!Resume,
    GateProven!Unwind, GateProven!Reject, GateProven!EnterClientWait,
    GateProven!EnterGlobalWait, GateProven!EnterRunning,
    GateProven!ResumeToGlobalWait, GateProven!ResumeToRunning,
    GateProven!ResumeGlobal, GateProven!Cancel, GateProven!UnwindClient,
    GateProven!UnwindGlobal, GateProven!Exit, GateProven!Reserve,
    GateProven!ClientValue, GateProven!Locked, GateProven!Without,
    GateProven!RemoveAt, GateProven!Unfinished, GateProven!Pending,
    GateProven!WakesUp, GateProven!Grant, GateProven!Returned, GateProven!Range,
    GateProven!Cardinality, GateProven!Suspended

-----------------------------------------------------------------------------
(* What the handlers do to the gate *)

(* The program counter in slot() that each step of the gate leaves behind. *)
LEMMA GateMoves ==
    ASSUME NEW t \in Tasks
    PROVE  /\ Gate!Enter(t) =>
                /\ pc[t] \in {"idle", "rejected"}
                /\ \E p \in {"clientWait", "globalWait", "running"} : pc' = [pc EXCEPT ![t] = p]
           /\ Gate!Resume(t) =>
                /\ pc[t] \in {"clientWait", "globalWait"}
                /\ \E p \in {"globalWait", "running"} : pc' = [pc EXCEPT ![t] = p]
           /\ Gate!Reject(t) =>
                pc[t] \in {"idle", "rejected"} /\ pc' = [pc EXCEPT ![t] = "rejected"]
           /\ Gate!Unwind(t) =>
                pc[t] \in {"clientWait", "globalWait"} /\ pc' = [pc EXCEPT ![t] = "idle"]
           /\ Gate!Exit(t) => pc[t] = "running" /\ pc' = [pc EXCEPT ![t] = "idle"]
           /\ Gate!Cancel(t) => pc' = pc
<1>1. Gate!Enter(t) =>
        /\ pc[t] \in {"idle", "rejected"}
        /\ \E p \in {"clientWait", "globalWait", "running"} : pc' = [pc EXCEPT ![t] = p]
  BY DEF Gate!Enter, Gate!EnterClientWait, Gate!EnterGlobalWait, Gate!EnterRunning, Gate!Reserve
<1>2. Gate!Resume(t) =>
        /\ pc[t] \in {"clientWait", "globalWait"}
        /\ \E p \in {"globalWait", "running"} : pc' = [pc EXCEPT ![t] = p]
  BY DEF Gate!Resume, Gate!ResumeToGlobalWait, Gate!ResumeToRunning, Gate!ResumeGlobal
<1>3. Gate!Reject(t) =>
        pc[t] \in {"idle", "rejected"} /\ pc' = [pc EXCEPT ![t] = "rejected"]
  BY DEF Gate!Reject
<1>4. Gate!Unwind(t) =>
        pc[t] \in {"clientWait", "globalWait"} /\ pc' = [pc EXCEPT ![t] = "idle"]
  BY DEF Gate!Unwind, Gate!UnwindClient, Gate!UnwindGlobal
<1>5. Gate!Exit(t) => pc[t] = "running" /\ pc' = [pc EXCEPT ![t] = "idle"]
  BY DEF Gate!Exit
<1>6. Gate!Cancel(t) => pc' = pc
  BY DEF Gate!Cancel
<1> QED BY <1>1, <1>2, <1>3, <1>4, <1>5, <1>6

(* Every step of a handler is a step of the gate or does not touch it.     *)
LEMMA StepsOfTheGate == ASSUME [Next]_vars PROVE [Gate!Next]_gate
<1>1. CASE UNCHANGED vars
  BY <1>1 DEF vars
<1>2. ASSUME NEW t \in Tasks,
             Gate!Reject(t) \/ Gate!Enter(t) \/ Gate!Resume(t) \/ Gate!Cancel(t)
               \/ Gate!Unwind(t) \/ Gate!Exit(t)
      PROVE  Gate!Next
  BY <1>2 DEF Gate!Next
<1>3. ASSUME NEW t \in Tasks,
             \/ Arrive(t) \/ Overloaded(t) \/ Resume(t) \/ CancelWait(t) \/ Unwind(t)
             \/ GiveUp(t) \/ Answer(t) \/ StreamEnds(t) \/ CancelLeaves(t) \/ Finalize(t)
      PROVE  Gate!Next
  BY <1>2, <1>3 DEF Arrive, Overloaded, Resume, CancelWait, Unwind, GiveUp, Answer, StreamEnds,
      CancelLeaves, Finalize, Leave
<1>4. ASSUME NEW t \in Tasks,
             \/ LimiterWakes(t) \/ AttemptFails(t) \/ Retry(t) \/ Commit(t) \/ Open(t)
             \/ CancelOrphans(t)
      PROVE  UNCHANGED gate
  BY <1>4 DEF LimiterWakes, AttemptFails, Retry, Commit, Open, CancelOrphans
<1> QED BY <1>1, <1>3, <1>4 DEF Next

(* The handlers of both routes use the gate by its own steps, in its own   *)
(* order, whatever fails or is cancelled (messages.py:58-241,              *)
(* chat.py:300-560): inside the gateway the gate is the AdmissionControl   *)
(* its theorems are about.                                                 *)
THEOREM GateIsUsed == Spec => Gate!Spec
<1>1. Init => Gate!Init
  BY DEF Init
<1>2. [Next]_vars => [Gate!Next]_(Gate!vars)
  BY StepsOfTheGate DEF gate, Gate!vars
<1> QED BY <1>1, <1>2, PTL DEF Spec, Gate!Spec

LEMMA GateIsProven == Spec => GateProven!Spec
<1>1. [Gate!Next]_(Gate!vars) => [GateProven!Next]_(GateProven!vars)
  BY SameNext DEF Gate!vars, GateProven!vars
<1>2. Gate!Spec => GateProven!Spec
  BY <1>1, SameInit, PTL DEF Gate!Spec, GateProven!Spec
<1> QED BY <1>2, GateIsUsed

(* So the invariant of the gate holds in the gateway. *)
LEMMA GateInvariant == Spec => []GateProven!IInv
BY GateIsProven, AssumptionsHold, GateProven!Invariance

-----------------------------------------------------------------------------
(* The inductive invariant *)

BodyTypes ==
    /\ stage \in [Tasks -> Stages]
    /\ attempts \in [Tasks -> 0..MaxAttempts]
    /\ reply \in [Tasks -> Replies]

(* A body runs exactly while its task holds a slot. *)
StageMatchesSlot(t) == stage[t] # "none" <=> pc[t] = "running"

(* Calls are counted per request, and one is left while waiting to retry. *)
AttemptsMatchStage(t) ==
    /\ stage[t] \in {"none", "limiter"} => attempts[t] = 0
    /\ stage[t] = "backoff" => attempts[t] < MaxAttempts

(* A client sees nothing before the head of its response. *)
NothingSeen(t) ==
    \/ pc[t] \in {"clientWait", "globalWait"}
    \/ stage[t] \in {"limiter", "calling", "backoff", "committed"}
ReplyMatchesStage(t) == NothingSeen(t) => reply[t] = "none"

TaskInv(t) == StageMatchesSlot(t) /\ AttemptsMatchStage(t) /\ ReplyMatchesStage(t)

(* The program counters have their type by the theorems about the gate. *)
PcType == pc \in [Tasks -> {"idle", "rejected", "running", "clientWait", "globalWait"}]

GInv == BodyTypes /\ \A t \in Tasks : TaskInv(t)

LEMMA InitGInv == Init => GInv
BY AttemptsAssumption DEF Init, Gate!Init, GInv, BodyTypes, TaskInv, StageMatchesSlot,
    AttemptsMatchStage, ReplyMatchesStage, NothingSeen, Stages, Replies

(* A step touches the state of its own task only. *)
Untouched(t) == \A u \in Tasks \ {t} :
    pc'[u] = pc[u] /\ stage'[u] = stage[u] /\ attempts'[u] = attempts[u] /\ reply'[u] = reply[u]

LEMMA OwnStep ==
    ASSUME GInv, NEW t \in Tasks, BodyTypes', Untouched(t), TaskInv(t)'
    PROVE  GInv'
<1>1. ASSUME NEW u \in Tasks, u # t PROVE TaskInv(u)'
  BY <1>1 DEF GInv, TaskInv, Untouched, StageMatchesSlot, AttemptsMatchStage,
      ReplyMatchesStage, NothingSeen
<1> QED BY <1>1 DEF GInv

(* The calls a step adds, seen by nobody. *)
Invisible == \A t \in Tasks : attempts'[t] > attempts[t] => reply'[t] = "none"

(* A call more: it is counted, and none of this is seen by the client. *)
LEMMA CallStep ==
    ASSUME GInv, PcType, NEW t \in Tasks, Call(t), attempts[t] < MaxAttempts,
           pc' \in [Tasks -> {"idle", "rejected", "running", "clientWait", "globalWait"}],
           pc'[t] = "running", \A u \in Tasks \ {t} : pc'[u] = pc[u],
           reply' \in [Tasks -> Replies], reply'[t] = "none",
           \A u \in Tasks \ {t} : reply'[u] = reply[u]
    PROVE  GInv' /\ Invisible
<1>0. attempts[t] + 1 \in 0..MaxAttempts /\ attempts \in [Tasks -> 0..MaxAttempts]
  BY AttemptsAssumption DEF GInv, BodyTypes
<1>1. BodyTypes' /\ Untouched(t)
  BY <1>0 DEF GInv, BodyTypes, Call, Goto, Stages, Untouched
<1>2. stage'[t] = "calling"
  BY DEF GInv, BodyTypes, Call, Goto
<1>3. TaskInv(t)'
  BY <1>2 DEF TaskInv, StageMatchesSlot, AttemptsMatchStage, ReplyMatchesStage
<1>4. Invisible
  BY <1>0, <1>1 DEF Invisible, Untouched
<1> QED BY <1>1, <1>3, <1>4, OwnStep

(* The end of a request, whatever its client was told. *)
LEMMA LeaveStep ==
    ASSUME GInv, PcType, NEW t \in Tasks, NEW r \in Replies, Leave(t, r)
    PROVE  GInv' /\ Invisible
<1>1. pc' = [pc EXCEPT ![t] = "idle"]
  BY GateMoves DEF Leave
<1>2. BodyTypes' /\ Untouched(t)
  BY <1>1, AttemptsAssumption DEF GInv, BodyTypes, PcType, Leave, Goto, Reply, Stages, Untouched
<1>3. stage'[t] = "none" /\ attempts'[t] = 0 /\ pc'[t] = "idle"
  BY <1>1 DEF GInv, BodyTypes, PcType, Leave, Goto
<1>4. TaskInv(t)'
  BY <1>3 DEF TaskInv, StageMatchesSlot, AttemptsMatchStage, ReplyMatchesStage, NothingSeen
<1>5. ~(attempts'[t] > attempts[t])
  BY <1>3 DEF GInv, BodyTypes
<1>6. Invisible
  BY <1>2, <1>5 DEF Invisible, Untouched, GInv, BodyTypes
<1> QED BY <1>2, <1>4, <1>6, OwnStep

(* A step of the body that calls nobody. *)
LEMMA GotoStep ==
    ASSUME GInv, PcType, NEW t \in Tasks, NEW s \in Stages, Goto(t, s), UNCHANGED <<pc, attempts>>,
           stage[t] # "none", s \notin {"none", "limiter"},
           s = "backoff" => attempts[t] < MaxAttempts,
           reply' \in [Tasks -> Replies], \A u \in Tasks \ {t} : reply'[u] = reply[u],
           s \in {"calling", "backoff", "committed"} => reply'[t] = "none"
    PROVE  GInv' /\ Invisible
<1>1. BodyTypes' /\ Untouched(t)
  BY DEF GInv, BodyTypes, Goto, Untouched
<1>2. stage'[t] = s
  BY DEF GInv, BodyTypes, Goto
<1>3. TaskInv(t)'
  BY <1>2 DEF GInv, TaskInv, StageMatchesSlot, AttemptsMatchStage, ReplyMatchesStage, NothingSeen
<1>4. Invisible
  BY DEF Invisible, GInv, BodyTypes
<1> QED BY <1>1, <1>3, <1>4, OwnStep

-----------------------------------------------------------------------------
(* Every step preserves the invariant *)

(* What a task that enters or resumes does next (GoOn). *)
LEMMA GoOnStep ==
    ASSUME GInv, PcType, NEW t \in Tasks, GoOn(t), stage[t] = "none",
           NEW p \in {"clientWait", "globalWait", "running"}, pc' = [pc EXCEPT ![t] = p],
           reply' \in [Tasks -> Replies], reply'[t] = "none",
           \A u \in Tasks \ {t} : reply'[u] = reply[u]
    PROVE  GInv' /\ Invisible
<1>0. attempts[t] = 0 /\ attempts[t] < MaxAttempts
  BY AttemptsAssumption DEF GInv, TaskInv, AttemptsMatchStage
<1>1. CASE p = "running" /\ Call(t)
  BY <1>0, <1>1, CallStep DEF PcType
<1>2. CASE p = "running" /\ Goto(t, "limiter") /\ UNCHANGED attempts
  <2>1. BodyTypes' /\ Untouched(t)
    BY <1>2 DEF GInv, BodyTypes, Goto, Stages, Untouched, PcType
  <2>2. stage'[t] = "limiter" /\ pc'[t] = "running" /\ attempts'[t] = 0
    BY <1>0, <1>2 DEF GInv, BodyTypes, Goto, PcType
  <2>3. TaskInv(t)'
    BY <2>2 DEF TaskInv, StageMatchesSlot, AttemptsMatchStage, ReplyMatchesStage
  <2> QED BY <1>2, <2>1, <2>3, OwnStep DEF Invisible, GInv, BodyTypes
<1>3. CASE p # "running"
  <2>1. pc'[t] = p /\ UNCHANGED <<stage, attempts>>
    BY <1>3 DEF GoOn, PcType
  <2>2. BodyTypes' /\ Untouched(t)
    BY <2>1 DEF GInv, BodyTypes, Untouched, PcType
  <2>3. TaskInv(t)'
    BY <1>3, <2>1 DEF GInv, TaskInv, StageMatchesSlot, AttemptsMatchStage, ReplyMatchesStage
  <2> QED BY <2>1, <2>2, <2>3, OwnStep DEF Invisible, GInv, BodyTypes
<1>4. pc'[t] = p
  BY DEF PcType
<1> QED BY <1>1, <1>2, <1>3, <1>4 DEF GoOn

(* The steps in slot() itself. *)
LEMMA SlotStep ==
    ASSUME GInv, PcType, NEW t \in Tasks,
           Arrive(t) \/ Overloaded(t) \/ Resume(t) \/ CancelWait(t) \/ Unwind(t)
    PROVE  GInv' /\ Invisible
<1>1. CASE Arrive(t)
  <2>1. PICK p \in {"clientWait", "globalWait", "running"} : pc' = [pc EXCEPT ![t] = p]
    BY <1>1, GateMoves DEF Arrive
  <2>2. stage[t] = "none"
    BY <1>1, GateMoves DEF Arrive, GInv, TaskInv, StageMatchesSlot
  <2>3. /\ reply' \in [Tasks -> Replies] /\ reply'[t] = "none"
        /\ \A u \in Tasks \ {t} : reply'[u] = reply[u]
    BY <1>1 DEF Arrive, Reply, GInv, BodyTypes, Replies
  <2> QED BY <1>1, <2>1, <2>2, <2>3, GoOnStep DEF Arrive
<1>2. CASE Resume(t)
  <2>1. PICK p \in {"globalWait", "running"} : pc' = [pc EXCEPT ![t] = p]
    BY <1>2, GateMoves DEF Resume
  <2>2. stage[t] = "none" /\ reply[t] = "none"
    BY <1>2, GateMoves DEF Resume, GInv, TaskInv, StageMatchesSlot, ReplyMatchesStage, NothingSeen
  <2> QED BY <1>2, <2>1, <2>2, GoOnStep DEF Resume, GInv, BodyTypes
<1>3. ASSUME NEW p \in {"idle", "rejected"}, NEW r \in Replies, pc[t] # "running",
             pc' = [pc EXCEPT ![t] = p], Reply(t, r), UNCHANGED <<stage, attempts>>
      PROVE  GInv' /\ Invisible
  <2>1. BodyTypes' /\ Untouched(t)
    BY <1>3 DEF GInv, BodyTypes, Reply, Untouched, PcType
  <2>2. pc'[t] = p /\ stage'[t] = "none" /\ attempts'[t] = 0
    BY <1>3 DEF GInv, TaskInv, StageMatchesSlot, AttemptsMatchStage, PcType
  <2>3. TaskInv(t)'
    BY <2>2 DEF TaskInv, StageMatchesSlot, AttemptsMatchStage, ReplyMatchesStage, NothingSeen
  <2> QED BY <1>3, <2>1, <2>3, OwnStep DEF Invisible, GInv, BodyTypes
<1>4. CASE Overloaded(t)
  BY <1>3, <1>4, GateMoves DEF Overloaded, Replies
<1>5. CASE Unwind(t)
  BY <1>3, <1>5, GateMoves DEF Unwind, Replies
<1>6. CASE CancelWait(t)
  <2>1. UNCHANGED <<pc, stage, attempts, reply>>
    BY <1>6, GateMoves DEF CancelWait
  <2>2. BodyTypes' /\ Untouched(t) /\ TaskInv(t)'
    BY <2>1 DEF GInv, BodyTypes, Untouched, TaskInv, StageMatchesSlot, AttemptsMatchStage,
        ReplyMatchesStage, NothingSeen
  <2> QED BY <2>1, <2>2, OwnStep DEF Invisible, GInv, BodyTypes
<1> QED BY <1>1, <1>2, <1>4, <1>5, <1>6

(* The steps of the body. *)
LEMMA BodyStep ==
    ASSUME GInv, PcType, NEW t \in Tasks,
           \/ LimiterWakes(t) \/ AttemptFails(t) \/ Retry(t) \/ Commit(t) \/ Open(t)
           \/ CancelOrphans(t)
    PROVE  GInv' /\ Invisible
<1>0. UNCHANGED pc
  BY DEF LimiterWakes, AttemptFails, Retry, Commit, Open, CancelOrphans, gate
<1>1. CASE LimiterWakes(t) \/ Retry(t)
  <2>1. Call(t) /\ UNCHANGED <<pc, reply>> /\ stage[t] \in {"limiter", "backoff"}
    BY <1>1, <1>0 DEF LimiterWakes, Retry
  <2>2. attempts[t] < MaxAttempts /\ pc[t] = "running" /\ reply[t] = "none"
    BY <2>1, AttemptsAssumption DEF GInv, TaskInv, StageMatchesSlot, AttemptsMatchStage,
        ReplyMatchesStage, NothingSeen
  <2> QED BY <2>1, <2>2, CallStep DEF GInv, BodyTypes, PcType
<1>2. CASE AttemptFails(t)
  <2>1. /\ Goto(t, "backoff") /\ UNCHANGED <<pc, attempts, reply>>
        /\ attempts[t] < MaxAttempts /\ stage[t] = "calling"
    BY <1>2, <1>0 DEF AttemptFails
  <2>2. reply[t] = "none"
    BY <2>1 DEF GInv, TaskInv, ReplyMatchesStage, NothingSeen
  <2> QED BY <2>1, <2>2, GotoStep DEF GInv, BodyTypes, Stages
<1>3. CASE Commit(t)
  <2>1. Goto(t, "committed") /\ UNCHANGED <<pc, attempts, reply>> /\ stage[t] = "calling"
    BY <1>3, <1>0 DEF Commit
  <2>2. reply[t] = "none"
    BY <2>1 DEF GInv, TaskInv, ReplyMatchesStage, NothingSeen
  <2> QED BY <2>1, <2>2, GotoStep DEF GInv, BodyTypes, Stages
<1>4. ASSUME NEW s \in {"streaming", "orphaned"}, NEW r \in {"open", "cut"}, stage[t] # "none",
             Goto(t, s), Reply(t, r), UNCHANGED <<pc, attempts>>
      PROVE  GInv' /\ Invisible
  <2>1. reply' \in [Tasks -> Replies] /\ \A u \in Tasks \ {t} : reply'[u] = reply[u]
    BY <1>4 DEF Reply, GInv, BodyTypes, Replies
  <2> QED BY <1>4, <2>1, GotoStep DEF Stages
<1>5. CASE Open(t)
  BY <1>0, <1>4, <1>5 DEF Open
<1>6. CASE CancelOrphans(t)
  BY <1>0, <1>4, <1>6 DEF CancelOrphans
<1> QED BY <1>1, <1>2, <1>3, <1>5, <1>6

(* The ends of a request. *)
LEMMA EndStep ==
    ASSUME GInv, PcType, NEW t \in Tasks,
           GiveUp(t) \/ Answer(t) \/ StreamEnds(t) \/ CancelLeaves(t) \/ Finalize(t)
    PROVE  GInv' /\ Invisible
<1>1. \E r \in Replies : Leave(t, r)
  BY DEF GiveUp, Answer, StreamEnds, CancelLeaves, Finalize, Replies
<1> QED BY <1>1, LeaveStep

LEMMA NextGInv == ASSUME GInv, PcType, [Next]_vars PROVE GInv' /\ (Invisible \/ UNCHANGED vars)
<1>1. CASE UNCHANGED vars
  BY <1>1 DEF vars, gate, GInv, BodyTypes, TaskInv, StageMatchesSlot, AttemptsMatchStage,
      ReplyMatchesStage, NothingSeen
<1>2. CASE Next
  BY <1>2, SlotStep, BodyStep, EndStep DEF Next
<1> QED BY <1>1, <1>2

LEMMA GateTypes == GateProven!IInv => PcType /\ Gate!TypeOK
<1> SUFFICES ASSUME GateProven!TypeOK PROVE PcType /\ Gate!TypeOK
  BY Zenon DEF GateProven!IInv
<1>1. PcType
  BY DEF GateProven!TypeOK, PcType, GateProven!PCs, GateProven!Suspended
<1>2. Gate!TypeOK
  BY Zenon DEF GateProven!TypeOK, GateProven!PCs, GateProven!Suspended, GateProven!FutStates,
      GateProven!Sems, Gate!TypeOK, Gate!PCs, Gate!Suspended, Gate!FutStates, Gate!Sems
<1> QED BY <1>1, <1>2

LEMMA GatewayInvariant == Spec => []GInv
<1>1. GateProven!IInv => PcType
  BY GateTypes
<1>2. GInv /\ PcType /\ [Next]_vars => GInv'
  BY NextGInv
<1> QED BY <1>1, <1>2, InitGInv, GateInvariant, PTL DEF Spec

-----------------------------------------------------------------------------
(* What follows *)

(* Gateway keeps its types, and a task has a stage of the body exactly     *)
(* while it holds a slot, however the request ends (messages.py:88-241).   *)
THEOREM TypeCorrect == Spec => []TypeOK
<1>1. GInv /\ Gate!TypeOK => TypeOK
  BY DEF GInv, BodyTypes, TaskInv, StageMatchesSlot, TypeOK
<1>2. GateProven!IInv => Gate!TypeOK
  BY GateTypes
<1> QED BY <1>1, <1>2, GatewayInvariant, GateInvariant, PTL

(* The calls and streams under way at the upstream never exceed the limits *)
(* of the gate (concurrency.py:8-11), though retries, streams and          *)
(* abandoned generators outlive the handler that took the slot.            *)
THEOREM LoadIsBounded == Spec => []UpstreamLoad
<1>1. GateProven!Spec => []GateProven!Bounds
  BY AssumptionsHold, GateProven!BoundsHold
<1>2. GInv /\ GateProven!Bounds => UpstreamLoad
  <2> SUFFICES ASSUME GInv, GateProven!Bounds PROVE UpstreamLoad
    OBVIOUS
  <2> DEFINE R == {t \in Tasks : pc[t] = "running"}
             RO(c) == {t \in R : Client[t] = c}
  <2>1. GateProven!Running = R /\ \A c : GateProven!Of(R, c) = RO(c)
    BY DEF GateProven!Running, GateProven!Of
  <2>2. Cardinality(R) <= MaxConcurrent /\ \A c \in Clients : Cardinality(RO(c)) <= MaxPerClient
    BY <2>1, SameCardinality DEF GateProven!Bounds
  <2>3. R \subseteq Tasks /\ IsFiniteSet(R) /\ \A c : IsFiniteSet(RO(c))
    BY GateAssumption, FS_Subset
  <2>4. /\ AtUpstream(Tasks) \subseteq R
        /\ \A c : AtUpstream({t \in Tasks : Client[t] = c}) \subseteq RO(c)
    BY DEF AtUpstream, GInv, TaskInv, StageMatchesSlot
  <2>5. ASSUME NEW S, NEW T, IsFiniteSet(T), S \subseteq T, NEW n \in Nat, Cardinality(T) <= n
        PROVE  Cardinality(S) <= n
    BY <2>5, FS_Subset, FS_CardinalityType
  <2>6. Cardinality(AtUpstream(Tasks)) <= MaxConcurrent
    BY <2>2, <2>3, <2>4, <2>5, GateAssumption
  <2>7. ASSUME NEW c \in Clients
        PROVE  Cardinality(AtUpstream({t \in Tasks : Client[t] = c})) <= MaxPerClient
    <3> DEFINE U == AtUpstream({t \in Tasks : Client[t] = c})
    <3>1. U \subseteq RO(c) /\ IsFiniteSet(RO(c)) /\ Cardinality(RO(c)) <= MaxPerClient
      BY <2>2, <2>3, <2>4
    <3> HIDE DEF U, RO
    <3> QED BY <3>1, <2>5, GateAssumption DEF U
  <2> QED BY <2>6, <2>7 DEF UpstreamLoad
<1>3. Spec => GateProven!Spec
  BY GateIsProven
<1> QED BY <1>1, <1>2, <1>3, GatewayInvariant, PTL

(* "No SSE emitted yet, so we can retry safely" (messages.py:139): however *)
(* calls fail and clients leave, no call is made for a request after its   *)
(* client has seen something of the reply.                                 *)
THEOREM NoVisibleRetry == Spec => RetriesAreInvisible
<1>1. GInv /\ PcType /\ [Next]_vars =>
        [\A t \in Tasks : attempts'[t] > attempts[t] => reply'[t] = "none"]_vars
  BY NextGInv DEF Invisible
<1>2. GateProven!IInv => PcType
  BY GateTypes
<1> QED BY <1>1, <1>2, GatewayInvariant, GateInvariant, PTL DEF Spec, RetriesAreInvisible

=============================================================================
