--------------------------- MODULE RequestProofs ----------------------------
(***************************************************************************)
(* For every profile and every request: the budget is the largest that     *)
(* fits, converting a request computes it as TokenBudget has it, what is   *)
(* sent fits what was granted, the tools are put in words once, and the    *)
(* client's history is all there.  For every set of responses and every    *)
(* number of attempts: what the call that sends it makes of them           *)
(* (UpstreamCall).                                                         *)
(***************************************************************************)
EXTENDS RequestConversion, UpstreamCall, TLAPS

(* The size of an input in tokens is a natural number. *)
LEMMA InputTokensType ==
    ASSUME NEW n \in Nat
    PROVE  InputTokens(n) \in Nat
  BY DEF InputTokens

(* What UpstreamMaxTokens computes, by the constraint that decides it.     *)
LEMMA GrantedBy ==
    ASSUME NEW p \in Profiles, NEW n \in Nat, NEW m \in Nat
    PROVE  /\ UpstreamMaxTokens(p, n, m) \in Nat
           /\ p.cap # NoCap => UpstreamMaxTokens(p, n, m) <= p.cap
           /\ \/ UpstreamMaxTokens(p, n, m) = p.floor
              \/ UpstreamMaxTokens(p, n, m) = Desired(p, m)
              \/ UpstreamMaxTokens(p, n, m) = p.context - InputTokens(n) - p.margin
              \/ p.cap # NoCap /\ UpstreamMaxTokens(p, n, m) = p.cap
  <1>1. /\ p.context \in Nat /\ p.buffer \in Nat /\ p.floor \in Nat /\ p.margin \in Nat
        /\ p.cap \in Nat \union {NoCap}
        BY ProfilesAssumption
  <1>2. InputTokens(n) \in Nat
        BY InputTokensType
  <1> QED  BY <1>1, <1>2 DEF UpstreamMaxTokens, Least, Greatest, Desired, NoCap

(* What one computation grants satisfies the three properties. *)
LEMMA GrantIsRight ==
    ASSUME TypeOK, Compute
    PROVE  FitsWhenFloorFits' /\ NothingWithheld' /\ CapRespected'
  <1> DEFINE p == profile
             n == chars'
             g == UpstreamMaxTokens(profile, chars', asked)
  <1>1. /\ p.context \in Nat /\ p.buffer \in Nat /\ p.floor \in Nat /\ p.margin \in Nat
        /\ p.cap \in Nat \union {NoCap}
        BY ProfilesAssumption DEF TypeOK
  <1>2. n \in Nat /\ asked \in Nat
        BY DEF Compute, TypeOK
  <1>3. InputTokens(n) \in Nat
        BY <1>2, InputTokensType
  <1>4. profile' = profile /\ asked' = asked /\ granted' = g
        BY DEF Compute
  <1> HIDE DEF n
  <1>5. /\ InputTokens(n) + p.floor + p.margin <= p.context
             => InputTokens(n) + UpstreamMaxTokens(p, n, asked) + p.margin <= p.context
        BY <1>1, <1>2, <1>3 DEF UpstreamMaxTokens, Least, Greatest, Desired, NoCap
  <1>6. UpstreamMaxTokens(p, n, asked) < Desired(p, asked) =>
            \/ ~(InputTokens(n) + (UpstreamMaxTokens(p, n, asked) + 1) + p.margin <= p.context)
            \/ ~(p.cap = NoCap \/ UpstreamMaxTokens(p, n, asked) + 1 <= p.cap)
        BY <1>1, <1>2, <1>3 DEF UpstreamMaxTokens, Least, Greatest, Desired, NoCap
  <1>7. UpstreamMaxTokens(p, n, asked) < p.floor => ~(p.cap = NoCap \/ p.floor <= p.cap)
        BY <1>1, <1>2, <1>3 DEF UpstreamMaxTokens, Least, Greatest, Desired, NoCap
  <1>8. p.cap = NoCap \/ UpstreamMaxTokens(p, n, asked) <= p.cap
        BY <1>1, <1>2, <1>3 DEF UpstreamMaxTokens, Least, Greatest, Desired, NoCap
  <1>9. FitsWhenFloorFits'
        BY <1>4, <1>5 DEF FitsWhenFloorFits, Fits, n
  <1>10. NothingWithheld'
        BY <1>4, <1>6, <1>7 DEF NothingWithheld, Fits, Uncapped, Desired, n
  <1>11. CapRespected'
        BY <1>4, <1>8 DEF CapRespected, Uncapped, n
  <1> QED  BY <1>9, <1>10, <1>11

IInv == TypeOK /\ FitsWhenFloorFits /\ NothingWithheld /\ CapRespected

(* The budget is right for every profile, input and max_tokens, however    *)
(* the profiles are changed.                                               *)
THEOREM BudgetIsRight == BudgetSpec => []IInv
  <1>1. BudgetInit => IInv
        BY DEF BudgetInit, IInv, TypeOK, FitsWhenFloorFits, NothingWithheld, CapRespected
  <1>2. IInv /\ [Compute]_budget => IInv'
    <2> SUFFICES ASSUME IInv, [Compute]_budget
                 PROVE  IInv'
        OBVIOUS
    <2>1. CASE Compute
      <3>1. chars' \in Nat /\ asked \in Nat /\ profile \in Profiles
            BY <2>1 DEF IInv, TypeOK, Compute
      <3>2. granted' \in Nat
            BY <2>1, <3>1, GrantedBy DEF Compute
      <3>3. TypeOK'
            BY <2>1, <3>1, <3>2 DEF IInv, TypeOK, Compute, Pending
      <3> QED  BY <2>1, <3>3, GrantIsRight DEF IInv
    <2>2. CASE UNCHANGED budget
        BY <2>2 DEF budget, IInv, TypeOK, FitsWhenFloorFits, NothingWithheld, CapRespected,
                    Fits, Uncapped
    <2> QED  BY <2>1, <2>2
  <1> QED  BY <1>1, <1>2, PTL DEF BudgetSpec

-----------------------------------------------------------------------------
(* What goes upstream is what the budget was computed for. *)
Backed == granted # Pending =>
    /\ chars = MessagesSize(sent[1].messages) + NativeSize(sent[1].tools)
    /\ sent[1].maxTokens = granted

(* The first computation is the last. *)
Once == status = "received" => granted = Pending

(* Every step of a conversion computes the budget or leaves it alone. *)
THEOREM ComputesBudget == Spec => BudgetSpec
  <1>1. Init => BudgetInit
        BY DEF Init
  <1>2. [Next]_vars => [Compute]_budget
    <2> SUFFICES ASSUME [Next]_vars PROVE [Compute]_budget
        OBVIOUS
    <2>1. CASE Refuse
        BY <2>1 DEF Refuse
    <2>2. CASE ConvertRequest
        BY <2>2 DEF ConvertRequest
    <2>3. CASE PassOn
        BY <2>3 DEF PassOn
    <2>4. CASE UNCHANGED vars
        BY <2>4 DEF vars
    <2> QED  BY <2>1, <2>2, <2>3, <2>4 DEF Next
  <1> QED  BY <1>1, <1>2, PTL DEF Spec, BudgetSpec

(* The budget is right in every request that is converted. *)
THEOREM BudgetHolds == Spec => []IInv
  BY ComputesBudget, BudgetIsRight, PTL

(* What is granted is a size that makes sense (request.py:170-185). *)
THEOREM TypeCorrect == Spec => []TypeOK
  <1>1. IInv => TypeOK
        BY DEF IInv
  <1> QED  BY <1>1, BudgetHolds, PTL

(* Input and output share the context (request.py:159-160). *)
THEOREM FitsContext == Spec => []FitsWhenFloorFits
  <1>1. IInv => FitsWhenFloorFits
        BY DEF IInv
  <1> QED  BY <1>1, BudgetHolds, PTL

(* Nothing is held back that could be granted (request.py:157-158). *)
THEOREM GrantsWhatItCan == Spec => []NothingWithheld
  <1>1. IInv => NothingWithheld
        BY DEF IInv
  <1> QED  BY <1>1, BudgetHolds, PTL

(* The upstream's cap is respected (request.py:56-57). *)
THEOREM RespectsCap == Spec => []CapRespected
  <1>1. IInv => CapRespected
        BY DEF IInv
  <1> QED  BY <1>1, BudgetHolds, PTL

(* The estimate covers what is sent (request.py:172-177): the budget that  *)
(* fits the input fits the payload, whatever its messages and tools.       *)
THEOREM EstimateCoversPayload == Spec => []PayloadFits
  <1>1. Init => Backed /\ Once
        BY DEF Init, BudgetInit, Backed, Once
  <1>2. Backed /\ Once /\ [Next]_vars => Backed' /\ Once'
    <2> SUFFICES ASSUME Backed, Once, [Next]_vars PROVE Backed' /\ Once'
        OBVIOUS
    <2>1. CASE Refuse
        BY <2>1 DEF Refuse, Backed, Once, budget
    <2>2. CASE ConvertRequest
      <3> DEFINE messages == ConvertedMessages(request)
                 tools == ToolsToOpenai(request.tools)
                 choice == ToolChoiceToOpenai(request.choice)
      <3>1. sent' = <<[messages |-> messages, maxTokens |-> granted',
                       tools |-> tools, choice |-> choice]>>
            BY <2>2 DEF ConvertRequest
      <3>2. chars' = MessagesSize(messages) + NativeSize(tools)
            BY <2>2 DEF ConvertRequest, InputChars
      <3>3. status' = "sent"
            BY <2>2 DEF ConvertRequest
      <3> HIDE DEF messages, tools, choice
      <3>4. /\ sent'[1].messages = messages /\ sent'[1].tools = tools
            /\ sent'[1].maxTokens = granted'
            BY <3>1
      <3>5. Backed'
            BY <3>2, <3>4 DEF Backed
      <3> QED  BY <3>3, <3>5 DEF Once
    <2>3. CASE PassOn
        BY <2>3 DEF PassOn, Backed, Once, budget
    <2>4. CASE UNCHANGED vars
        BY <2>4 DEF vars, Backed, Once, budget
    <2> QED  BY <2>1, <2>2, <2>3, <2>4 DEF Next
  <1>3. Backed /\ FitsWhenFloorFits => PayloadFits
        BY DEF Backed, FitsWhenFloorFits, PayloadFits, Fits
  <1>4. Spec => [](Backed /\ Once)
        BY <1>1, <1>2, PTL DEF Spec
  <1> QED  BY <1>3, <1>4, FitsContext, PTL

-----------------------------------------------------------------------------
(* The tools in words.  No part that comes from the client is a prompt of  *)
(* tools, so that the one we add is the only one, wherever it is put.      *)

Flattening == INSTANCE FoldTheorems WITH Op <- FlattenBlock
SystemTexts == INSTANCE FoldTheorems WITH Op <- AddText

IsPlain(parts) ==
    parts \in Seq(Range(parts)) /\ \A k \in DOMAIN parts : parts[k].type # "tools"

LEMMA PlainIs ==
    ASSUME NEW S, NEW parts \in Seq(S), \A part \in S : part.type # "tools"
    PROVE  IsPlain(parts)
  <1>1. \A k \in DOMAIN parts : parts[k] \in S
        OBVIOUS
  <1>2. \A k \in DOMAIN parts : parts[k] \in Range(parts)
        BY DEF Range
  <1>3. parts \in Seq(Range(parts))
    <2> DEFINE R == Range(parts)
    <2>1. \A k \in 1..Len(parts) : parts[k] \in R
          BY <1>2
    <2> HIDE DEF R
    <2>2. parts \in Seq(R)
          BY <2>1
    <2> QED  BY <2>2 DEF R
  <1> QED  BY <1>1, <1>3 DEF IsPlain

(* The prompt is the part k and no other is one.                           *)
PromptIs(parts, k, prompt) ==
    /\ k \in DOMAIN parts /\ parts[k] = prompt
    /\ \A l \in DOMAIN parts : l # k => parts[l].type # "tools"

(* The prompt is in one message, the system's.                             *)
OffersOnce(messages, prompt) == \E i \in DOMAIN messages :
    /\ messages[i].role = "system"
    /\ \E k : PromptIs(messages[i].parts, k, prompt)
    /\ \A j \in DOMAIN messages : j # i => IsPlain(messages[j].parts)

LEMMA OfferIs ==
    ASSUME NEW messages, NEW prompt, prompt.type = "tools", OffersOnce(messages, prompt)
    PROVE  \E at \in PromptsAt(messages) :
              PromptsAt(messages) = {at} /\ messages[at[1]].parts[at[2]] = prompt
  <1>1. PICK i \in DOMAIN messages :
            /\ \E k : PromptIs(messages[i].parts, k, prompt)
            /\ \A j \in DOMAIN messages : j # i => IsPlain(messages[j].parts)
        BY DEF OffersOnce
  <1>2. PICK k : PromptIs(messages[i].parts, k, prompt)
        BY <1>1
  <1>3. <<i, k>> \in PromptsAt(messages)
        BY <1>2 DEF PromptsAt, PromptIs
  <1>4. ASSUME NEW at \in PromptsAt(messages) PROVE at = <<i, k>>
    <2>1. PICK j \in DOMAIN messages :
              at \in {j} \X {l \in DOMAIN messages[j].parts : messages[j].parts[l].type = "tools"}
          BY DEF PromptsAt
    <2>2. PICK l \in DOMAIN messages[j].parts : at = <<j, l>> /\ messages[j].parts[l].type = "tools"
          BY <2>1
    <2>3. j = i
          BY <1>1, <2>2 DEF IsPlain
    <2>4. l = k
          BY <1>2, <2>2, <2>3 DEF PromptIs
    <2> QED  BY <2>2, <2>3, <2>4
  <1>5. messages[i].parts[k] = prompt
        BY <1>2 DEF PromptIs
  <1> QED  BY <1>3, <1>4, <1>5

(* A prompt behind plain parts. *)
LEMMA PromptLast ==
    ASSUME NEW S, NEW parts \in Seq(S), IsPlain(parts), NEW prompt
    PROVE  PromptIs(parts \o <<prompt>>, Len(parts) + 1, prompt)
  <1> DEFINE n == Len(parts)
             all == parts \o <<prompt>>
  <1>1. /\ n \in Nat /\ DOMAIN parts = 1..n
        /\ DOMAIN all = 1..(n + 1) /\ all[n + 1] = prompt
        /\ \A k \in 1..n : all[k] = parts[k]
        OBVIOUS
  <1> HIDE DEF n, all
  <1>2. ASSUME NEW l \in DOMAIN all, l # n + 1 PROVE all[l].type # "tools"
        BY <1>1, <1>2 DEF IsPlain
  <1>3. n + 1 \in DOMAIN all
        BY <1>1
  <1>4. PromptIs(all, n + 1, prompt)
        BY <1>1, <1>2, <1>3 DEF PromptIs
  <1> QED  BY <1>4 DEF n, all

(* A message in front of messages without a prompt. *)
LEMMA OfferFirst ==
    ASSUME NEW S, NEW turns \in Seq(S), NEW first, NEW prompt, NEW k,
           first.role = "system", PromptIs(first.parts, k, prompt),
           \A j \in DOMAIN turns : IsPlain(turns[j].parts)
    PROVE  OffersOnce(<<first>> \o turns, prompt)
  <1> DEFINE n == Len(turns)
             all == <<first>> \o turns
  <1>1. /\ n \in Nat /\ DOMAIN turns = 1..n
        /\ DOMAIN all = 1..(n + 1) /\ all[1] = first
        /\ \A j \in 2..(n + 1) : all[j] = turns[j - 1]
        OBVIOUS
  <1> HIDE DEF n, all
  <1>2. ASSUME NEW j \in DOMAIN all, j # 1 PROVE IsPlain(all[j].parts)
    <2>1. j \in 2..(n + 1) /\ j - 1 \in DOMAIN turns
          BY <1>1, <1>2
    <2> QED  BY <1>1, <2>1
  <1>3. 1 \in DOMAIN all
        BY <1>1
  <1>4. OffersOnce(all, prompt)
        BY <1>1, <1>2, <1>3 DEF OffersOnce
  <1> QED  BY <1>4 DEF all

(* What becomes of the blocks of a turn.                                   *)
CallsOf(B) == {Call(b.name, b.argument) : b \in B}
PartsOf(B) == {TextPart(b.size) : b \in B} \union {ResultPart(b.id, b.size) : b \in B}
                \union {CallsPart(calls) : calls \in Seq(CallsOf(B))}
Flattened(B) == [parts : Seq(PartsOf(B)), pending : Seq(CallsOf(B))]

LEMMA PartsArePlain ==
    ASSUME NEW B, NEW part \in PartsOf(B)
    PROVE  part.type # "tools"
  BY DEF PartsOf, TextPart, ResultPart, CallsPart

LEMMA AddPart ==
    ASSUME NEW B, NEW c \in Flattened(B), NEW part \in PartsOf(B)
    PROVE  [c EXCEPT !.parts = Append(@, part)] \in Flattened(B)
  <1> DEFINE P == PartsOf(B)
             C == CallsOf(B)
  <1> HIDE DEF P, C
  <1>1. c \in [parts : Seq(P), pending : Seq(C)] /\ part \in P
        BY DEF P, C, Flattened
  <1>2. Append(c.parts, part) \in Seq(P)
        BY <1>1
  <1>3. [c EXCEPT !.parts = Append(@, part)] \in [parts : Seq(P), pending : Seq(C)]
        BY <1>1, <1>2
  <1> QED  BY <1>3 DEF P, C, Flattened

LEMMA AddCall ==
    ASSUME NEW B, NEW c \in Flattened(B), NEW call \in CallsOf(B)
    PROVE  [c EXCEPT !.pending = Append(@, call)] \in Flattened(B)
  <1> DEFINE P == PartsOf(B)
             C == CallsOf(B)
  <1> HIDE DEF P, C
  <1>1. c \in [parts : Seq(P), pending : Seq(C)] /\ call \in C
        BY DEF P, C, Flattened
  <1>2. Append(c.pending, call) \in Seq(C)
        BY <1>1
  <1>3. [c EXCEPT !.pending = Append(@, call)] \in [parts : Seq(P), pending : Seq(C)]
        BY <1>1, <1>2
  <1> QED  BY <1>3 DEF P, C, Flattened

LEMMA FlushKeeps ==
    ASSUME NEW B, NEW c \in Flattened(B)
    PROVE  FlushPending(c) \in Flattened(B)
  <1> DEFINE P == PartsOf(B)
             C == CallsOf(B)
             calls == CallsPart(c.pending)
  <1>1. c.pending \in Seq(C) /\ c.parts \in Seq(P)
        BY DEF Flattened
  <1>2. calls \in P
        BY <1>1 DEF PartsOf
  <1> HIDE DEF P, C, calls
  <1>3. Append(c.parts, calls) \in Seq(P) /\ <<>> \in Seq(C)
        BY <1>1, <1>2
  <1>4. [parts |-> Append(c.parts, calls), pending |-> <<>>] \in [parts : Seq(P), pending : Seq(C)]
        BY <1>3
  <1>5. [parts |-> Append(c.parts, calls), pending |-> <<>>] \in Flattened(B)
        BY <1>4 DEF P, C, Flattened
  <1> QED  BY <1>5 DEF FlushPending, calls

LEMMA FlattenBlockKeeps ==
    ASSUME NEW B, NEW c \in Flattened(B), NEW b \in B
    PROVE  FlattenBlock(c, b) \in Flattened(B)
  <1>1. FlushPending(c) \in Flattened(B)
        BY FlushKeeps
  <1>2. /\ TextPart(b.size) \in PartsOf(B) /\ ResultPart(b.id, b.size) \in PartsOf(B)
        /\ Call(b.name, b.argument) \in CallsOf(B)
        BY DEF PartsOf, CallsOf
  <1>3. /\ [FlushPending(c) EXCEPT !.parts = Append(@, TextPart(b.size))] \in Flattened(B)
        /\ [FlushPending(c) EXCEPT !.parts = Append(@, ResultPart(b.id, b.size))] \in Flattened(B)
        /\ [FlushPending(c) EXCEPT !.pending = Append(@, Call(b.name, b.argument))] \in Flattened(B)
        BY <1>1, <1>2, AddPart, AddCall
  <1>4. CASE b.type = "text"
        BY <1>1, <1>3, <1>4, Zenon DEF FlattenBlock
  <1>5. CASE b.type = "tool_use" /\ b.name # ""
        BY <1>3, <1>5 DEF FlattenBlock
  <1>6. CASE b.type = "tool_result"
        BY <1>3, <1>6 DEF FlattenBlock
  <1>7. CASE ~(b.type = "text") /\ ~(b.type = "tool_use" /\ b.name # "") /\ ~(b.type = "tool_result")
        BY <1>7 DEF FlattenBlock
  <1> QED  BY <1>4, <1>5, <1>6, <1>7

LEMMA TurnsArePlain ==
    ASSUME NEW B, NEW blocks \in Seq(B)
    PROVE  IsPlain(FlattenContent(blocks))
  <1> DEFINE empty == [parts |-> <<>>, pending |-> <<>>]
             H == Flattened(B)
             folded == Flattening!Fold(empty, blocks)
  <1>1. empty \in H
    <2> DEFINE P == PartsOf(B)
               C == CallsOf(B)
    <2> HIDE DEF P, C
    <2>1. empty \in [parts : Seq(P), pending : Seq(C)]
          OBVIOUS
    <2> QED  BY <2>1 DEF P, C, Flattened
  <1>2. Flattening!Keeps(H, B)
        BY FlattenBlockKeeps DEF Flattening!Keeps
  <1>3. folded \in H
    <2> HIDE DEF H, empty
    <2> QED  BY <1>1, <1>2, Flattening!FoldInSet
  <1>4. folded = FoldLeft(FlattenBlock, empty, blocks)
        BY Zenon DEF Flattening!Fold, FoldLeft, Flattening!MapThenFoldSet,
                     MapThenFoldSet, Flattening!Highest, Max
  <1> HIDE DEF folded
  <1>5. FlushPending(folded).parts \in Seq(PartsOf(B))
        BY <1>3, FlushKeeps DEF Flattened
  <1>6. FlattenContent(blocks) \in Seq(PartsOf(B))
        BY <1>4, <1>5 DEF FlattenContent
  <1> QED  BY <1>6, PartsArePlain, PlainIs

(* The client's system prompt. *)
SystemParts == {TextPart(n) : n \in Nat}

LEMMA SystemIsPlain ==
    ASSUME NEW texts \in Seq(Nat)
    PROVE  FlattenSystem(texts) \in Seq(SystemParts) /\ IsPlain(FlattenSystem(texts))
  <1> DEFINE H == Seq(SystemParts)
             empty == <<>>
             folded == SystemTexts!Fold(empty, texts)
  <1>1. empty \in H
        OBVIOUS
  <1>2. ASSUME NEW parts \in H, NEW n \in Nat PROVE AddText(parts, n) \in H
    <2>1. TextPart(n) \in SystemParts
          BY DEF SystemParts
    <2> DEFINE part == TextPart(n)
    <2> HIDE DEF part
    <2>2. part \in SystemParts => Append(parts, part) \in Seq(SystemParts)
          OBVIOUS
    <2> QED  BY <2>1, <2>2, Zenon DEF AddText, part
  <1>3. SystemTexts!Keeps(H, Nat)
        BY <1>2 DEF SystemTexts!Keeps
  <1>4. folded \in H
    <2> HIDE DEF H, empty
    <2> QED  BY <1>1, <1>3, SystemTexts!FoldInSet
  <1>5. folded = FlattenSystem(texts)
        BY Zenon DEF SystemTexts!Fold, FoldLeft, SystemTexts!MapThenFoldSet,
                     MapThenFoldSet, SystemTexts!Highest, Max, FlattenSystem
  <1> HIDE DEF folded
  <1>6. FlattenSystem(texts) \in Seq(SystemParts)
        BY <1>4, <1>5
  <1>7. \A part \in SystemParts : part.type # "tools"
        BY DEF SystemParts, TextPart
  <1> QED  BY <1>6, <1>7, PlainIs

(* A Messages request: the prompt ends its system prompt, which is the     *)
(* first message, as there are tools.                                      *)
LEMMA MessagesOffer ==
    ASSUME NEW requests \in Families, NEW r \in requests,
           r.route = "messages", r.tools # <<>>
    PROVE  OffersOnce(ConvertedMessages(r), ToolsPart(Named(r.tools), Hint(r.choice)))
  <1> DEFINE prompt == ToolsPart(Named(r.tools), Hint(r.choice))
             own == FlattenSystem(r.system)
             system == own \o <<prompt>>
             first == Message("system", system)
             turns == [i \in DOMAIN r.messages |->
                          Message(r.messages[i].role, FlattenContent(r.messages[i].blocks))]
  <1>1. /\ r.system \in Seq(Nat) /\ r.messages \in Seq(Range(r.messages))
        /\ \A m \in Range(r.messages) : m.blocks \in Seq({b \in Range(m.blocks) : IsBlock(b)})
        BY RequestsAssumption
  <1>2. own \in Seq(SystemParts) /\ IsPlain(own)
        BY <1>1, SystemIsPlain
  <1>3. PromptIs(system, Len(own) + 1, prompt)
    <2> HIDE DEF own, prompt
    <2> QED  BY <1>2, PromptLast
  <1>4. ToolsPrompt(r.tools, r.choice) = <<prompt>>
        BY DEF ToolsPrompt
  <1>5. system # <<>>
    <2> HIDE DEF own, prompt
    <2> QED  BY <1>2
  <1>6. ASSUME NEW j \in DOMAIN turns PROVE IsPlain(turns[j].parts)
    <2> DEFINE B == {b \in Range(r.messages[j].blocks) : IsBlock(b)}
    <2>1. r.messages[j].blocks \in Seq(B)
      <3>1. r.messages[j] \in Range(r.messages)
            BY DEF Range
      <3> QED  BY <1>1, <3>1
    <2>2. IsPlain(FlattenContent(r.messages[j].blocks))
      <3> HIDE DEF B
      <3> QED  BY <2>1, TurnsArePlain
    <2> QED  BY <2>2 DEF Message
  <1>7. turns \in Seq(Range(turns))
    <2>1. Len(r.messages) \in Nat /\ DOMAIN r.messages = 1..Len(r.messages)
          BY <1>1
    <2>2. DOMAIN turns = 1..Len(r.messages)
          BY <2>1
    <2>3. \A i \in 1..Len(r.messages) : turns[i] \in Range(turns)
          BY <2>2 DEF Range
    <2>4. turns = [i \in 1..Len(r.messages) |-> turns[i]]
          BY <2>1
    <2> HIDE DEF turns
    <2> QED  BY <2>1, <2>3, <2>4
  <1>8. ConvertedMessages(r) = <<first>> \o turns
    <2>1. FlattenSystem(r.system) \o ToolsPrompt(r.tools, r.choice) = system
          BY <1>4
    <2> HIDE DEF system, turns
    <2> QED  BY <1>5, <2>1 DEF ConvertedMessages, turns
  <1>9. first.role = "system" /\ first.parts = system
        BY DEF Message
  <1> HIDE DEF first, turns, system, prompt, own
  <1>10. OffersOnce(<<first>> \o turns, prompt)
        BY <1>3, <1>6, <1>7, <1>9, OfferFirst
  <1> QED  BY <1>8, <1>10 DEF prompt

(* The client's part of a chat request. *)
FromClient(m) ==
    /\ m = ChatMessage(m.role, m.parts, m.calls, m.id)
    /\ m.parts \in Seq(Range(m.parts))
    /\ \A k \in DOMAIN m.parts : m.parts[k].type \in {"text", "array"}

LEMMA ChatIsFromClient ==
    ASSUME NEW requests \in Families, NEW r \in requests, r.route = "chat"
    PROVE  /\ r.messages \in Seq(Range(r.messages))
           /\ \A i \in DOMAIN r.messages : FromClient(r.messages[i])
  <1>1. r.messages \in Seq(Range(r.messages))
        BY RequestsAssumption
  <1>2. ASSUME NEW i \in DOMAIN r.messages PROVE FromClient(r.messages[i])
    <2> DEFINE m == r.messages[i]
               T == {part \in Range(m.parts) : IsText(part)}
    <2>1. m \in Range(r.messages)
          BY DEF Range
    <2>2. m = ChatMessage(m.role, m.parts, m.calls, m.id) /\ m.parts \in Seq(T)
          BY <2>1, RequestsAssumption
    <2>3. \A part \in T : part \in Range(m.parts) /\ part.type \in {"text", "array"}
          BY DEF IsText
    <2> DEFINE parts == m.parts
    <2>4. parts \in Seq(T)
          BY <2>2
    <2>5. parts \in Seq(Range(parts)) /\ \A k \in DOMAIN parts : parts[k].type \in {"text", "array"}
      <3>1. \A part \in T : part \in Range(parts)
            OBVIOUS
      <3> HIDE DEF T, parts
      <3> QED  BY <2>3, <2>4, <3>1
    <2> QED  BY <2>2, <2>5 DEF FromClient
  <1> QED  BY <1>1, <1>2

LEMMA ClientIsPlain == ASSUME NEW m, FromClient(m) PROVE IsPlain(m.parts)
  BY DEF FromClient, IsPlain

LEMMA FormattedIsPlain ==
    ASSUME NEW m, FromClient(m)
    PROVE  /\ Formatted(m.parts) \in Seq(Range(Formatted(m.parts)))
           /\ IsPlain(Formatted(m.parts))
  <1> DEFINE f == Formatted(m.parts)
             n == Len(m.parts)
  <1>1. n \in Nat /\ DOMAIN m.parts = 1..n
        BY DEF FromClient
  <1>2. DOMAIN f = 1..n /\ f = [i \in 1..n |-> f[i]]
        BY <1>1 DEF Formatted
  <1>3. \A i \in 1..n : f[i] \in Range(f)
        BY <1>2 DEF Range
  <1>4. \A i \in 1..n : f[i].type # "tools"
        BY <1>1 DEF Formatted, FromClient, ReprPart
  <1> HIDE DEF f, n
  <1>5. f \in Seq(Range(f)) /\ IsPlain(f)
        BY <1>1, <1>2, <1>3, <1>4 DEF IsPlain
  <1> QED  BY <1>5 DEF f

(* A chat request: the prompt ends the first system message or becomes one. *)
LEMMA InjectionOffers ==
    ASSUME NEW messages, messages \in Seq(Range(messages)),
           \A i \in DOMAIN messages : FromClient(messages[i]),
           NEW tools, tools # <<>>
    PROVE  OffersOnce(InjectToolsPrompt(messages, tools), ToolsPart(Named(tools), "none"))
  <1> DEFINE prompt == ToolsPart(Named(tools), "none")
             I == {i \in 1..Len(messages) : messages[i].role = "system"}
             first == SelectInSeq(messages, LAMBDA m : m.role = "system")
             new == ChatMessage("system", <<prompt>>, <<>>, "none")
             out == InjectToolsPrompt(messages, tools)
  <1>1. ToolsPrompt(tools, "none") = <<prompt>> /\ <<prompt>> # <<>>
        BY DEF ToolsPrompt, Hint
  <1>2. first = IF I # {} THEN Min(I) ELSE 0
        BY Zenon DEF SelectInSeq
  <1>3. \A i \in DOMAIN messages : IsPlain(messages[i].parts)
        BY ClientIsPlain
  <1>4. Len(messages) \in Nat /\ DOMAIN messages = 1..Len(messages)
        OBVIOUS
  <1>5. CASE I = {}
    <2> DEFINE said == ToolsPrompt(tools, "none")
    <2>5. said # <<>> /\ said = <<prompt>> /\ first = 0
          BY <1>1, <1>2, <1>5
    <2>6. out = CASE said = <<>> -> messages
                  [] said # <<>> /\ first = 0 ->
                        <<ChatMessage("system", said, <<>>, "none")>> \o messages
                  [] said # <<>> /\ first > 0 ->
                        [messages EXCEPT ![first].parts = Formatted(@) \o said]
          BY Zenon DEF InjectToolsPrompt
    <2>1. out = <<new>> \o messages
      <3> HIDE DEF said, first, prompt, out
      <3> QED  BY <2>5, <2>6
    <2>2. PromptIs(new.parts, 1, prompt)
          BY DEF ChatMessage, PromptIs
    <2>3. new.role = "system"
          BY DEF ChatMessage
    <2> HIDE DEF new, prompt, out
    <2>4. OffersOnce(<<new>> \o messages, prompt)
          BY <1>3, <2>2, <2>3, OfferFirst
    <2> QED  BY <2>1, <2>4 DEF prompt, out
  <1>6. CASE I # {}
    <2>1. first \in I
      <3>1. I \in SUBSET Nat
            BY <1>4
      <3>2. \E n \in I : \A m \in I : n <= m
        <4> HIDE DEF I
        <4> QED  BY <1>6, <3>1, Flattening!LeastElement
      <3>3. Min(I) \in I
            BY <3>2, Zenon DEF Min
      <3> QED  BY <1>2, <1>6, <3>3
    <2>2. /\ first \in DOMAIN messages /\ first > 0 /\ first # 0
          /\ messages[first].role = "system"
          BY <1>4, <2>1
    <2> HIDE DEF I, first
    <2> DEFINE m == messages[first]
               told == Formatted(m.parts)
               both == told \o <<prompt>>
    <2>3. FromClient(m)
          BY <2>2
    <2>4. out = [messages EXCEPT ![first] = [m EXCEPT !.parts = both]]
          BY <1>1, <2>2 DEF InjectToolsPrompt, first
    <2>5. PromptIs(both, Len(told) + 1, prompt)
      <3>1. told \in Seq(Range(told)) /\ IsPlain(told)
            BY <2>3, FormattedIsPlain
      <3> HIDE DEF told, prompt
      <3> QED  BY <3>1, PromptLast
    <2> HIDE DEF both, prompt, out
    <2>6. [m EXCEPT !.parts = both].parts = both /\ [m EXCEPT !.parts = both].role = "system"
      <3>1. m = [role |-> m.role, parts |-> m.parts, calls |-> m.calls, id |-> m.id]
            BY <2>3 DEF FromClient, ChatMessage
      <3> HIDE DEF m
      <3> QED  BY <2>2, <3>1 DEF m
    <2>7. /\ DOMAIN out = DOMAIN messages /\ out[first].parts = both /\ out[first].role = "system"
          /\ \A j \in DOMAIN messages : j # first => out[j] = messages[j]
          BY <2>2, <2>4, <2>6
    <2>8. OffersOnce(out, prompt)
          BY <1>3, <2>2, <2>5, <2>7 DEF OffersOnce
    <2> QED  BY <2>8 DEF out, prompt
  <1> QED  BY <1>5, <1>6

(* Calls and results become text, the prompt stays what it is.             *)
LEMMA NormalizedIsPlain ==
    ASSUME NEW m, IsPlain(m.parts)
    PROVE  IsPlain(NormalizeMessage(m).parts)
  <1> DEFINE result == ResultPart(m.id, TotalSize(Formatted(m.parts)))
             called == CallsPart(Named(m.calls))
             calls == IF Named(m.calls) = <<>> THEN <<>> ELSE <<called>>
             texts == Joined(m.parts)
             T == {part \in Range(texts) : part.type = "text"} \union {called}
  <1>1. CASE m.role = "tool"
    <2>1. NormalizeMessage(m).parts = <<result>>
          BY <1>1 DEF NormalizeMessage, ChatMessage
    <2>2. result.type # "tools"
          BY DEF ResultPart
    <2> HIDE DEF result
    <2> DEFINE one == <<result>>
               S == {result}
    <2>3. one \in Seq(S) /\ \A part \in S : part.type # "tools"
          BY <2>2
    <2> HIDE DEF one, S
    <2>4. IsPlain(one)
          BY <2>3, PlainIs
    <2> QED  BY <2>1, <2>4 DEF one
  <1>2. CASE m.role = "assistant" /\ m.calls # <<>>
    <2>1. NormalizeMessage(m).parts = texts \o calls
          BY <1>2 DEF NormalizeMessage, ChatMessage
    <2>2. \A part \in T : part.type # "tools"
      <3>1. called.type = "calls"
            BY DEF CallsPart
      <3> QED  BY <3>1
    <2>3. texts \in Seq(T)
      <3>1. Len(m.parts) \in Nat /\ DOMAIN m.parts = 1..Len(m.parts)
            BY DEF IsPlain
      <3>2. /\ DOMAIN texts = 1..Len(m.parts) /\ texts = [k \in 1..Len(m.parts) |-> texts[k]]
            BY <3>1 DEF Joined
      <3>3. \A k \in 1..Len(m.parts) : texts[k].type = "text"
            BY <3>1 DEF Joined, TextPart
      <3>4. \A k \in 1..Len(m.parts) : texts[k] \in T
            BY <3>2, <3>3 DEF Range
      <3> HIDE DEF texts, T
      <3> QED  BY <3>1, <3>2, <3>4
    <2>4. calls \in Seq(T)
      <3>1. called \in T
            OBVIOUS
      <3> HIDE DEF T, called
      <3> QED  BY <3>1
    <2> HIDE DEF texts, calls, T
    <2>5. texts \o calls \in Seq(T)
          BY <2>3, <2>4
    <2> QED  BY <2>1, <2>2, <2>5, PlainIs
  <1>3. CASE ~(m.role = "tool") /\ ~(m.role = "assistant" /\ m.calls # <<>>)
    <2>1. NormalizeMessage(m) = m
          BY <1>3 DEF NormalizeMessage
    <2> QED  BY <2>1
  <1> QED  BY <1>1, <1>2, <1>3

LEMMA NormalizingKeeps ==
    ASSUME NEW messages, NEW prompt, OffersOnce(messages, prompt)
    PROVE  OffersOnce(NormalizeOaiMessages(messages), prompt)
  <1> DEFINE out == [i \in DOMAIN messages |-> NormalizeMessage(messages[i])]
  <1>1. PICK i \in DOMAIN messages :
            /\ messages[i].role = "system"
            /\ \E k : PromptIs(messages[i].parts, k, prompt)
            /\ \A j \in DOMAIN messages : j # i => IsPlain(messages[j].parts)
        BY DEF OffersOnce
  <1>2. out[i] = messages[i]
        BY <1>1 DEF NormalizeMessage
  <1>3. \A j \in DOMAIN messages : j # i => IsPlain(out[j].parts)
        BY <1>1, NormalizedIsPlain
  <1>4. DOMAIN out = DOMAIN messages
        OBVIOUS
  <1>5. OffersOnce(out, prompt)
    <2> HIDE DEF out
    <2> QED  BY <1>1, <1>2, <1>3, <1>4 DEF OffersOnce
  <1>6. NormalizeOaiMessages(messages) \in {messages, out}
        BY DEF NormalizeOaiMessages
  <1> QED  BY <1>5, <1>6

(* The constraint in words is the one of the native field, but for a tool  *)
(* whose name is empty.                                                    *)
LEMMA ChoicesAgree ==
    ASSUME NEW choice
    PROVE  /\ Hint(choice) = "any" <=> ToolChoiceToOpenai(choice) = "required"
           /\ Hint(choice) = "tool"
                <=> ToolChoiceToOpenai(choice) = "function" \/ choice = "empty"
  <1>1. CASE choice = "auto"
        BY <1>1 DEF Hint, ToolChoiceToOpenai
  <1>2. CASE choice = "any"
        BY <1>2 DEF Hint, ToolChoiceToOpenai
  <1>3. CASE choice = "tool"
        BY <1>3 DEF Hint, ToolChoiceToOpenai
  <1>4. CASE choice = "empty"
        BY <1>4 DEF Hint, ToolChoiceToOpenai
  <1>5. CASE choice \notin {"auto", "any", "tool", "empty"}
        BY <1>5 DEF Hint, ToolChoiceToOpenai
  <1> QED  BY <1>1, <1>2, <1>3, <1>4, <1>5

(* What was sent is what the route makes of the request.                   *)
Sends ==
    /\ \E requests \in Families : request \in requests
    /\ sent # <<>> /\ request.route = "messages" =>
          /\ sent[1].messages = ConvertedMessages(request)
          /\ sent[1].tools = Named(request.tools)
          /\ sent[1].choice = ToolChoiceToOpenai(request.choice)
    /\ sent # <<>> /\ request.route = "chat" =>
          /\ sent[1].messages = NormalizeOaiMessages(InjectToolsPrompt(request.messages,
                                                                      request.tools))
          /\ sent[1].tools = request.tools

LEMMA SendsIsInvariant == Spec => []Sends
  <1>1. Init => Sends
        BY DEF Init, Sends
  <1>2. Sends /\ [Next]_vars => Sends'
    <2> SUFFICES ASSUME Sends, [Next]_vars PROVE Sends'
        OBVIOUS
    <2>1. CASE Refuse
          BY <2>1 DEF Refuse, Sends
    <2>2. CASE ConvertRequest
      <3> DEFINE messages == ConvertedMessages(request)
                 tools == ToolsToOpenai(request.tools)
                 choice == ToolChoiceToOpenai(request.choice)
      <3>1. /\ sent' = <<[messages |-> messages, maxTokens |-> granted',
                          tools |-> tools, choice |-> choice]>>
            /\ request' = request /\ request.route = "messages"
            BY <2>2 DEF ConvertRequest
      <3>2. tools = Named(request.tools)
            BY DEF ToolsToOpenai
      <3> HIDE DEF messages, tools, choice
      <3>3. sent'[1].messages = messages /\ sent'[1].tools = tools /\ sent'[1].choice = choice
            BY <3>1
      <3> QED  BY <3>1, <3>2, <3>3 DEF Sends, messages, choice
    <2>3. CASE PassOn
      <3> DEFINE messages == NormalizeOaiMessages(InjectToolsPrompt(request.messages,
                                                                    request.tools))
      <3>1. /\ sent' = <<[messages |-> messages, maxTokens |-> request.maxTokens,
                          tools |-> request.tools, choice |-> request.choice]>>
            /\ request' = request /\ request.route = "chat"
            BY <2>3 DEF PassOn
      <3> HIDE DEF messages
      <3>2. sent'[1].messages = messages /\ sent'[1].tools = request.tools
            BY <3>1
      <3> QED  BY <3>1, <3>2 DEF Sends, messages
    <2>4. CASE UNCHANGED vars
          BY <2>4 DEF vars, Sends
    <2> QED  BY <2>1, <2>2, <2>3, <2>4 DEF Next
  <1> QED  BY <1>1, <1>2, PTL DEF Spec

(* Exactly one part of all that goes upstream puts tools in words, and     *)
(* they and the constraint on their use are those of the native fields,    *)
(* but for the demand of a tool whose name is empty, which is in words     *)
(* only, whatever the client's messages are (request.py:122-136, 301-304,  *)
(* prompt_builder.py:89-92, chat.py:270-287).                              *)
THEOREM OneOffer == Spec => []OffersAgree
  <1>1. Sends => OffersAgree
    <2> SUFFICES ASSUME Sends, sent # <<>>, request.tools # <<>>
                 PROVE  \E at \in PromptsAt(sent[1].messages) :
                          LET prompt == sent[1].messages[at[1]].parts[at[2]]
                          IN  /\ PromptsAt(sent[1].messages) = {at}
                              /\ request.route = "messages" =>
                                    /\ prompt.tools = sent[1].tools
                                    /\ prompt.hint = "any" <=> sent[1].choice = "required"
                                    /\ prompt.hint = "tool"
                                          <=> sent[1].choice = "function" \/ request.choice = "empty"
                              /\ request.route = "chat" => prompt.tools = Named(sent[1].tools)
        BY DEF OffersAgree
    <2> DEFINE r == request
               messages == sent[1].messages
               prompt == ToolsPart(Named(r.tools), IF r.route = "chat" THEN "none" ELSE Hint(r.choice))
    <2>1. PICK requests \in Families : r \in requests
          BY DEF Sends
    <2>2. r.route \in {"messages", "chat"}
          BY <2>1, RequestsAssumption
    <2>3. OffersOnce(messages, prompt)
      <3>1. CASE r.route = "messages"
        <4>1. messages = ConvertedMessages(r)
              BY <3>1 DEF Sends
        <4>2. OffersOnce(ConvertedMessages(r), ToolsPart(Named(r.tools), Hint(r.choice)))
              BY <2>1, <3>1, MessagesOffer
        <4> QED  BY <3>1, <4>1, <4>2
      <3>2. CASE r.route = "chat"
        <4> DEFINE m == r.messages
                   tools == r.tools
        <4>1. messages = NormalizeOaiMessages(InjectToolsPrompt(m, tools))
              BY <3>2 DEF Sends
        <4>2. m \in Seq(Range(m)) /\ \A i \in DOMAIN m : FromClient(m[i])
              BY <2>1, <3>2, ChatIsFromClient
        <4>3. OffersOnce(InjectToolsPrompt(m, tools), ToolsPart(Named(tools), "none"))
          <5>1. tools # <<>>
                OBVIOUS
          <5> HIDE DEF m, tools
          <5> QED  BY <4>2, <5>1, InjectionOffers
        <4>4. OffersOnce(NormalizeOaiMessages(InjectToolsPrompt(m, tools)),
                         ToolsPart(Named(tools), "none"))
              BY <4>3, NormalizingKeeps
        <4> QED  BY <3>2, <4>1, <4>4
      <3> QED  BY <2>2, <3>1, <3>2
    <2>4. prompt.type = "tools" /\ prompt.tools = Named(r.tools)
          /\ prompt.hint = IF r.route = "chat" THEN "none" ELSE Hint(r.choice)
          BY DEF ToolsPart
    <2> HIDE DEF prompt
    <2>5. PICK at \in PromptsAt(messages) :
              PromptsAt(messages) = {at} /\ messages[at[1]].parts[at[2]] = prompt
      <3> HIDE DEF messages
      <3> QED  BY <2>3, <2>4, OfferIs
    <2>6. /\ r.route = "messages" =>
                /\ prompt.tools = sent[1].tools
                /\ prompt.hint = "any" <=> sent[1].choice = "required"
                /\ prompt.hint = "tool"
                      <=> sent[1].choice = "function" \/ request.choice = "empty"
          /\ r.route = "chat" => prompt.tools = Named(sent[1].tools)
          BY <2>4, ChoicesAgree DEF Sends
    <2> QED  BY <2>5, <2>6
  <1> QED  BY <1>1, SendsIsInvariant, PTL

-----------------------------------------------------------------------------
(* Sequences of anything: a sequence is one of its own elements.          *)

Lists == INSTANCE ScannerProofs WITH
    Alphabets <- {{}}, MaxText <- 0, MaxChunk <- 1, text <- <<>>, splitter <- <<>>,
    scanner <- <<>>, split <- <<>>, scanned <- <<>>, ended <- FALSE

LEMMA SameFlatten == \A s : Lists!FlattenSeq(s) = FlattenSeq(s)
  BY Zenon DEF Lists!FlattenSeq, FlattenSeq, Lists!FoldLeft, FoldLeft,
               Lists!MapThenFoldSet, MapThenFoldSet, Lists!Max, Max

IsSeq(s) == s \in Seq(Range(s))
AreSeqs(seqs) == IsSeq(seqs) /\ \A i \in DOMAIN seqs : IsSeq(seqs[i])

LEMMA SeqIs ==
    ASSUME NEW S, NEW s, s \in Seq(S)
    PROVE  IsSeq(s)
  <1> DEFINE R == Range(s)
  <1>1. \A k \in 1..Len(s) : s[k] \in R
        BY DEF Range
  <1> HIDE DEF R
  <1>2. s \in Seq(R)
        BY <1>1
  <1> QED  BY <1>2 DEF R, IsSeq

LEMMA SeqHas ==
    ASSUME NEW s, IsSeq(s)
    PROVE  /\ Len(s) \in Nat /\ DOMAIN s = 1..Len(s)
           /\ s = [i \in 1..Len(s) |-> s[i]]
  BY DEF IsSeq

(* A function on 1..n is a sequence. *)
LEMMA FunctionIsSeq ==
    ASSUME NEW n \in Nat, NEW s, DOMAIN s = 1..n, s = [i \in 1..n |-> s[i]]
    PROVE  IsSeq(s) /\ Len(s) = n
  <1> DEFINE R == Range(s)
  <1>1. \A k \in 1..n : s[k] \in R
        BY DEF Range
  <1> HIDE DEF R
  <1>2. s \in Seq(R) /\ Len(s) = n
        BY <1>1
  <1> QED  BY <1>2 DEF R, IsSeq

LEMMA OneIsSeq == ASSUME NEW x PROVE IsSeq(<<x>>)
  <1> DEFINE S == {x}
             s == <<x>>
  <1>1. s \in Seq(S)
        OBVIOUS
  <1> HIDE DEF S, s
  <1>2. IsSeq(s)
        BY <1>1, SeqIs
  <1> QED  BY <1>2 DEF s

LEMMA NoneIsSeq == IsSeq(<<>>)
  <1> DEFINE S == {}
             s == <<>>
  <1>1. s \in Seq(S)
        OBVIOUS
  <1> HIDE DEF S, s
  <1>2. IsSeq(s)
        BY <1>1, SeqIs
  <1> QED  BY <1>2 DEF s

LEMMA ConcatIsSeq ==
    ASSUME NEW s, NEW t, IsSeq(s), IsSeq(t)
    PROVE  /\ IsSeq(s \o t) /\ Len(s \o t) = Len(s) + Len(t)
           /\ \A i \in 1..Len(s) : (s \o t)[i] = s[i]
           /\ \A i \in 1..Len(t) : (s \o t)[Len(s) + i] = t[i]
  <1> DEFINE S == Range(s) \union Range(t)
             u == s \o t
  <1>1. s \in Seq(S) /\ t \in Seq(S)
    <2> DEFINE A == Range(s)
               B == Range(t)
    <2>1. s \in Seq(A) /\ t \in Seq(B)
          BY DEF IsSeq
    <2> HIDE DEF A, B
    <2>2. s \in Seq(A \union B) /\ t \in Seq(A \union B)
          BY <2>1
    <2> QED  BY <2>2 DEF A, B
  <1> HIDE DEF S
  <1>2. /\ u \in Seq(S) /\ Len(u) = Len(s) + Len(t)
        /\ \A i \in 1..Len(s) : u[i] = s[i]
        /\ \A i \in 1..Len(t) : u[Len(s) + i] = t[i]
        BY <1>1
  <1> HIDE DEF u
  <1>3. IsSeq(u)
        BY <1>2, SeqIs
  <1> QED  BY <1>2, <1>3 DEF u

(* Sequences that have the same elements in the same places. *)
LEMMA SameIs ==
    ASSUME NEW s, NEW t, IsSeq(s), IsSeq(t), Len(s) = Len(t), \A i \in 1..Len(s) : s[i] = t[i]
    PROVE  s = t
  BY SeqHas

LEMMA ConcatIs ==
    ASSUME NEW s, NEW t, NEW u, IsSeq(s), IsSeq(t), IsSeq(u), Len(u) = Len(s) + Len(t),
           \A i \in 1..Len(s) : u[i] = s[i], \A i \in 1..Len(t) : u[Len(s) + i] = t[i]
    PROVE  u = s \o t
  <1> DEFINE v == s \o t
             n == Len(s)
  <1>1. /\ IsSeq(v) /\ Len(v) = Len(s) + Len(t)
        /\ \A i \in 1..Len(s) : v[i] = s[i]
        /\ \A i \in 1..Len(t) : v[Len(s) + i] = t[i]
        BY ConcatIsSeq
  <1>2. Len(s) \in Nat /\ Len(t) \in Nat
        BY SeqHas
  <1> HIDE DEF v
  <1>3. ASSUME NEW i \in 1..Len(u) PROVE u[i] = v[i]
    <2>1. CASE i <= Len(s)
          BY <1>1, <1>2, <2>1
    <2>2. CASE i > Len(s)
      <3> DEFINE j == i - Len(s)
      <3>1. j \in 1..Len(t) /\ Len(s) + j = i
            BY <1>2, <2>2
      <3> HIDE DEF j
      <3>2. u[Len(s) + j] = t[j] /\ v[Len(s) + j] = t[j]
            BY <1>1, <3>1
      <3> QED  BY <3>1, <3>2
    <2> QED  BY <1>2, <2>1, <2>2
  <1>4. u = v
        BY <1>1, <1>3, SameIs
  <1> QED  BY <1>4 DEF v

LEMMA FirstIs ==
    ASSUME NEW x, NEW t, IsSeq(t)
    PROVE  /\ IsSeq(<<x>> \o t) /\ Len(<<x>> \o t) = 1 + Len(t) /\ (<<x>> \o t)[1] = x
           /\ \A i \in 1..Len(t) : (<<x>> \o t)[1 + i] = t[i]
  <1> DEFINE one == <<x>>
             n == Len(t)
             all == one \o t
  <1>1. IsSeq(one)
        BY OneIsSeq
  <1>2. Len(one) = 1 /\ one[1] = x
        OBVIOUS
  <1> HIDE DEF one
  <1>3. IsSeq(all) /\ Len(all) = Len(one) + Len(t)
        BY <1>1, ConcatIsSeq
  <1>4. \A i \in 1..Len(one) : all[i] = one[i]
        BY <1>1, ConcatIsSeq
  <1>5. ASSUME NEW i \in 1..n PROVE all[1 + i] = t[i]
    <2>1. all[Len(one) + i] = t[i]
          BY <1>1, ConcatIsSeq
    <2> QED  BY <1>2, <2>1
  <1> HIDE DEF all
  <1>6. all[1] = x
        BY <1>2, <1>4
  <1>7. Len(all) = 1 + n
        BY <1>2, <1>3
  <1> QED  BY <1>3, <1>5, <1>6, <1>7 DEF all, one

LEMMA ConcatAssociates ==
    ASSUME NEW s, NEW t, NEW u, IsSeq(s), IsSeq(t), IsSeq(u)
    PROVE  (s \o t) \o u = s \o (t \o u)
  <1> DEFINE S == Range(s) \union Range(t) \union Range(u)
             A == Range(s)
             B == Range(t)
             C == Range(u)
  <1>1. s \in Seq(A) /\ t \in Seq(B) /\ u \in Seq(C)
        BY DEF IsSeq
  <1> HIDE DEF A, B, C
  <1>2. s \in Seq(A \union B \union C) /\ t \in Seq(A \union B \union C) /\ u \in Seq(A \union B \union C)
        BY <1>1
  <1> DEFINE D == A \union B \union C
  <1>3. s \in Seq(D) /\ t \in Seq(D) /\ u \in Seq(D)
        BY <1>2
  <1> HIDE DEF D
  <1> QED  BY <1>3

LEMMA ConcatNothing == ASSUME NEW s, IsSeq(s) PROVE s \o <<>> = s /\ <<>> \o s = s
  <1> DEFINE A == Range(s)
  <1>1. s \in Seq(A)
        BY DEF IsSeq
  <1> HIDE DEF A
  <1> QED  BY <1>1

(* What all the sequences have. *)
Elements(seqs) == UNION {Range(seqs[i]) : i \in DOMAIN seqs}

LEMMA SeqsOf ==
    ASSUME NEW seqs, AreSeqs(seqs), NEW S, Elements(seqs) \subseteq S
    PROVE  seqs \in Seq(Seq(S))
  <1> DEFINE T == Seq(S)
             n == Len(seqs)
  <1>1. n \in Nat /\ DOMAIN seqs = 1..n /\ seqs = [i \in 1..n |-> seqs[i]]
        BY SeqHas DEF AreSeqs
  <1>2. ASSUME NEW i \in 1..n PROVE seqs[i] \in T
    <2> DEFINE s == seqs[i]
               R == Range(s)
    <2>1. s \in Seq(R)
          BY <1>1 DEF AreSeqs, IsSeq
    <2>2. R \subseteq S
          BY <1>1 DEF Elements
    <2> HIDE DEF s, R
    <2>3. s \in Seq(S)
          BY <2>1, <2>2
    <2> QED  BY <2>3 DEF s
  <1> HIDE DEF T
  <1>3. seqs \in Seq(T)
    <2> HIDE DEF n
    <2> QED  BY <1>1, <1>2
  <1> QED  BY <1>3 DEF T

LEMMA FlatIsSeq == ASSUME NEW seqs, AreSeqs(seqs) PROVE IsSeq(FlattenSeq(seqs))
  <1> DEFINE S == Elements(seqs)
  <1>1. seqs \in Seq(Seq(S))
        BY SeqsOf
  <1> HIDE DEF S
  <1>2. FlattenSeq(seqs) \in Seq(S)
        BY <1>1, Lists!FlattenIs, Lists!JoinType, SameFlatten
  <1> QED  BY <1>2, SeqIs

LEMMA SeqsConcat ==
    ASSUME NEW a, NEW b, AreSeqs(a), AreSeqs(b)
    PROVE  /\ AreSeqs(a \o b)
           /\ FlattenSeq(a \o b) = FlattenSeq(a) \o FlattenSeq(b)
  <1> DEFINE S == Elements(a) \union Elements(b)
             c == a \o b
  <1>1. a \in Seq(Seq(S)) /\ b \in Seq(Seq(S))
        BY SeqsOf
  <1> HIDE DEF S
  <1>2. c \in Seq(Seq(S))
    <2> DEFINE T == Seq(S)
    <2>1. a \in Seq(T) /\ b \in Seq(T)
          BY <1>1
    <2> HIDE DEF T
    <2>2. c \in Seq(T)
          BY <2>1
    <2> QED  BY <2>2 DEF T
  <1>3. AreSeqs(c)
    <2> DEFINE T == Seq(S)
    <2>1. c \in Seq(T)
          BY <1>2
    <2>2. \A x \in T : IsSeq(x)
          BY SeqIs
    <2> HIDE DEF T, c
    <2>3. \A i \in DOMAIN c : c[i] \in T
          BY <2>1
    <2> QED  BY <2>1, <2>2, <2>3, SeqIs DEF AreSeqs
  <1>4. Lists!Joins!Fold(<<>>, a \o b) = Lists!Joins!Fold(<<>>, a) \o Lists!Joins!Fold(<<>>, b)
        BY <1>1, Lists!JoinConcat
  <1>5. /\ FlattenSeq(a) = Lists!Joins!Fold(<<>>, a)
        /\ FlattenSeq(b) = Lists!Joins!Fold(<<>>, b)
        BY <1>1, Lists!FlattenIs, SameFlatten
  <1>6. FlattenSeq(c) = Lists!Joins!Fold(<<>>, c)
    <2> HIDE DEF c
    <2> QED  BY <1>2, Lists!FlattenIs, SameFlatten
  <1> QED  BY <1>3, <1>4, <1>5, <1>6 DEF c

LEMMA FlatOfOne ==
    ASSUME NEW s, IsSeq(s)
    PROVE  AreSeqs(<<s>>) /\ FlattenSeq(<<s>>) = s
  <1> DEFINE one == <<s>>
  <1>1. AreSeqs(one)
    <2>1. IsSeq(one)
          BY OneIsSeq
    <2>2. \A i \in DOMAIN one : one[i] = s
          OBVIOUS
    <2> HIDE DEF one
    <2> QED  BY <2>1, <2>2 DEF AreSeqs
  <1>2. \E S : one \in Seq(Seq(S))
        BY <1>1, SeqsOf
  <1>3. FlattenSeq(one) = Lists!Joins!Fold(<<>>, one)
    <2> HIDE DEF one
    <2> QED  BY <1>2, Lists!FlattenIs, SameFlatten
  <1>4. Lists!Joins!Fold(<<>>, one) = <<>> \o s
        BY Lists!Joins!FoldOne DEF Lists!Join
  <1> QED  BY <1>1, <1>3, <1>4, ConcatNothing

LEMMA FlatOfNone == AreSeqs(<<>>) /\ FlattenSeq(<<>>) = <<>>
  <1>1. AreSeqs(<<>>)
        BY NoneIsSeq DEF AreSeqs
  <1>2. Len(<<>>) = 0
        OBVIOUS
  <1> QED  BY <1>1, <1>2 DEF FlattenSeq

-----------------------------------------------------------------------------
(* str.replace() of one or two characters: each place it occurs in is     *)
(* replaced by itself, so that a text may be replaced piece by piece.      *)

Occurs(old, t, i) ==
    /\ i \in 1..Len(t) /\ t[i] = old[1]
    /\ Len(old) = 2 => i + 1 \in 1..Len(t) /\ t[i + 1] = old[2]
Short(old) == IsSeq(old) /\ Len(old) \in {1, 2} /\ (Len(old) = 2 => old[1] # old[2])
Piece(t, old, new, i) ==
    IF Occurs(old, t, i) THEN new
    ELSE IF Len(old) = 2 /\ Occurs(old, t, i - 1) THEN <<>> ELSE <<t[i]>>
Pieces(t, old, new) == [i \in DOMAIN t |-> Piece(t, old, new, i)]

LEMMA PlacesAre ==
    ASSUME NEW t, IsSeq(t), NEW old, Short(old)
    PROVE  Places(old, t) = {i \in 1..Len(t) : Occurs(old, t, i)}
  <1> DEFINE A == Range(t)
             B == Range(old)
             n == Len(t)
  <1>1. t \in Seq(A) /\ old \in Seq(B) /\ n \in Nat
        BY SeqHas DEF IsSeq, Short
  <1> HIDE DEF A, B, n
  <1>2. t \in Seq(A \union B) /\ old \in Seq(A \union B)
        BY <1>1
  <1> DEFINE D == A \union B
  <1>3. t \in Seq(D) /\ old \in Seq(D)
        BY <1>2
  <1> HIDE DEF D
  <1>4. CASE Len(old) = 1
    <2>1. ASSUME NEW i \in 1..n PROVE SubSeq(t, i, i + 1 - 1) = old <=> t[i] = old[1]
      <3> DEFINE s == SubSeq(t, i, i + 1 - 1)
      <3>1. s \in Seq(D) /\ Len(s) = 1 /\ s[1] = t[i]
            BY <1>1, <1>3 DEF n
      <3> HIDE DEF s
      <3>2. s = old <=> s[1] = old[1]
            BY <1>3, <1>4, <3>1
      <3> QED  BY <3>1, <3>2 DEF s
    <2> QED  BY <1>1, <1>4, <2>1 DEF Places, Occurs, n
  <1>5. CASE Len(old) = 2
    <2> HIDE DEF n
    <2>1. ASSUME NEW i \in 1..(n - 1)
          PROVE  SubSeq(t, i, i + 2 - 1) = old <=> t[i] = old[1] /\ t[i + 1] = old[2]
      <3> DEFINE s == SubSeq(t, i, i + 2 - 1)
      <3>1. i + 2 - 1 = i + 1 /\ i \in 1..Len(t) /\ i + 1 \in 1..Len(t) /\ Len(t) \in Nat
            BY <1>1 DEF n
      <3>2. Len(s) = 2 /\ s \in Seq(D)
            BY <1>3, <3>1
      <3>3. s[1] = t[i + 0] /\ s[2] = t[i + 1] /\ i + 0 = i
            BY <1>3, <3>1
      <3> HIDE DEF s
      <3>4. s = old <=> s[1] = old[1] /\ s[2] = old[2]
            BY <1>3, <1>5, <3>2
      <3> QED  BY <3>3, <3>4 DEF s
    <2>2. n - 2 + 1 = n - 1 /\ \A i \in 1..n : (i + 1 \in 1..n <=> i \in 1..(n - 1))
          BY <1>1
    <2>3. Places(old, t) = {i \in 1..(n - 1) : SubSeq(t, i, i + 2 - 1) = old}
          BY <1>5, <2>2 DEF Places, n
    <2>4. \A i : i \in 1..n /\ Occurs(old, t, i) <=>
                  i \in 1..(n - 1) /\ t[i] = old[1] /\ t[i + 1] = old[2]
          BY <1>1, <1>5, <2>2 DEF Occurs, n
    <2>5. {i \in 1..n : Occurs(old, t, i)} = {i \in 1..(n - 1) : SubSeq(t, i, i + 2 - 1) = old}
          BY <2>1, <2>4
    <2> QED  BY <2>3, <2>5 DEF n
  <1> QED  BY <1>4, <1>5 DEF Short

LEMMA ReplacedIs ==
    ASSUME NEW t, IsSeq(t), NEW old, Short(old), NEW new
    PROVE  Replaced(t, old, new) = FlattenSeq(Pieces(t, old, new))
  <1> DEFINE at == Places(old, t)
             n == Len(t)
             Cut(i) == CASE i \in at -> new
                         [] \E k \in at : k < i /\ i < k + Len(old) -> <<>>
                         [] OTHER -> <<t[i]>>
  <1>1. n \in Nat /\ DOMAIN t = 1..n
        BY SeqHas
  <1>2. ASSUME NEW i \in 1..n PROVE Cut(i) = Piece(t, old, new, i)
    <2>1. i \in at <=> Occurs(old, t, i)
          BY PlacesAre
    <2>2. (\E k \in at : k < i /\ i < k + Len(old)) <=> Len(old) = 2 /\ Occurs(old, t, i - 1)
      <3>1. at = {k \in 1..n : Occurs(old, t, k)}
            BY PlacesAre
      <3>2. Len(old) \in {1, 2}
            BY DEF Short
      <3> HIDE DEF at
      <3>3. ASSUME NEW k \in at, k < i, i < k + Len(old)
            PROVE  Len(old) = 2 /\ Occurs(old, t, i - 1)
        <4>1. k \in 1..n /\ Occurs(old, t, k)
              BY <3>1
        <4>2. k \in Int /\ i \in Int /\ k < i
              BY <1>1, <3>3, <4>1
        <4>3. CASE Len(old) = 1
          <5>1. i < k + 1
                BY <3>3, <4>3
          <5> QED  BY <4>2, <5>1
        <4>4. CASE Len(old) = 2
          <5>1. i < k + 2
                BY <3>3, <4>4
          <5>2. k = i - 1
                BY <4>2, <5>1
          <5> QED  BY <4>1, <4>4, <5>2
        <4> QED  BY <3>2, <4>3, <4>4
      <3>4. ASSUME Len(old) = 2, Occurs(old, t, i - 1)
            PROVE  \E k \in at : k < i /\ i < k + Len(old)
        <4>1. i - 1 \in 1..n
              BY <3>4 DEF Occurs
        <4>2. i - 1 \in at
              BY <3>1, <3>4, <4>1
        <4> QED  BY <3>4, <4>1, <4>2
      <3> QED  BY <3>3, <3>4
    <2> HIDE DEF at
    <2>3. CASE i \in at
      <3>1. ~(Len(old) = 2 /\ Occurs(old, t, i - 1))
        <4>1. ASSUME Len(old) = 2, Occurs(old, t, i - 1) PROVE FALSE
          <5>1. (i - 1) + 1 = i
                BY <1>1
          <5>2. t[i] = old[2] /\ t[i] = old[1]
                BY <2>1, <2>3, <4>1, <5>1 DEF Occurs
          <5> QED  BY <4>1, <5>2 DEF Short
        <4> QED  BY <4>1
      <3>2. ~ \E k \in at : k < i /\ i < k + Len(old)
            BY <2>2, <3>1
      <3>3. Cut(i) = new
            BY <2>3, <3>2
      <3> QED  BY <2>1, <2>3, <3>3 DEF Piece
    <2>4. CASE i \notin at /\ \E k \in at : k < i /\ i < k + Len(old)
      <3>1. Cut(i) = <<>>
            BY <2>4
      <3> QED  BY <2>1, <2>2, <2>4, <3>1 DEF Piece
    <2>5. CASE i \notin at /\ ~ \E k \in at : k < i /\ i < k + Len(old)
      <3>1. Cut(i) = <<t[i]>>
            BY <2>5
      <3> QED  BY <2>1, <2>2, <2>5, <3>1 DEF Piece
    <2> QED  BY <2>3, <2>4, <2>5
  <1>3. Replaced(t, old, new) = FlattenSeq([i \in DOMAIN t |-> Cut(i)])
        BY DEF Replaced
  <1>4. [i \in DOMAIN t |-> Cut(i)] = Pieces(t, old, new)
    <2> HIDE DEF Cut
    <2> QED  BY <1>1, <1>2 DEF Pieces
  <1> QED  BY <1>3, <1>4

LEMMA PiecesAre ==
    ASSUME NEW t, IsSeq(t), NEW old, NEW new, IsSeq(new)
    PROVE  AreSeqs(Pieces(t, old, new)) /\ Len(Pieces(t, old, new)) = Len(t)
           /\ \A i \in 1..Len(t) : Pieces(t, old, new)[i] = Piece(t, old, new, i)
  <1> DEFINE p == Pieces(t, old, new)
             n == Len(t)
  <1>1. n \in Nat /\ DOMAIN t = 1..n
        BY SeqHas
  <1>2. DOMAIN p = 1..n /\ p = [i \in 1..n |-> p[i]] /\ \A i \in 1..n : p[i] = Piece(t, old, new, i)
        BY <1>1 DEF Pieces
  <1>3. \A i \in 1..n : IsSeq(Piece(t, old, new, i))
        BY NoneIsSeq, OneIsSeq DEF Piece
  <1> HIDE DEF p, n
  <1>4. IsSeq(p) /\ Len(p) = n
        BY <1>1, <1>2, FunctionIsSeq
  <1> QED  BY <1>2, <1>3, <1>4 DEF AreSeqs, p, n

(* What is replaced is not half in one text and half in the next.          *)
Parted(u, old) == Len(old) = 2 /\ u # <<>> => u[Len(u)] # old[1]

LEMMA ReplacedConcat ==
    ASSUME NEW u, NEW v, IsSeq(u), IsSeq(v), NEW old, Short(old), NEW new, IsSeq(new),
           Parted(u, old)
    PROVE  /\ Replaced(u \o v, old, new) = Replaced(u, old, new) \o Replaced(v, old, new)
           /\ IsSeq(Replaced(u, old, new))
  <1> DEFINE w == u \o v
             a == Pieces(u, old, new)
             b == Pieces(v, old, new)
             c == Pieces(w, old, new)
             m == Len(u)
             n == Len(v)
  <1>1. /\ IsSeq(w) /\ Len(w) = m + n /\ m \in Nat /\ n \in Nat
        /\ \A i \in 1..m : w[i] = u[i]
        /\ \A i \in 1..n : w[m + i] = v[i]
        BY ConcatIsSeq, SeqHas
  <1> HIDE DEF w
  <1>2. /\ AreSeqs(a) /\ Len(a) = m /\ \A i \in 1..m : a[i] = Piece(u, old, new, i)
        /\ AreSeqs(b) /\ Len(b) = n /\ \A i \in 1..n : b[i] = Piece(v, old, new, i)
        /\ AreSeqs(c) /\ Len(c) = m + n /\ \A i \in 1..(m + n) : c[i] = Piece(w, old, new, i)
        BY <1>1, PiecesAre
  <1>3. Len(old) \in {1, 2}
        BY DEF Short
  <1>4. u = <<>> <=> m = 0
        BY SeqHas
  <1> HIDE DEF m, n
  <1>5. ASSUME NEW i \in 0..m PROVE Occurs(old, w, i) <=> Occurs(old, u, i)
    <2>1. CASE i < m
          BY <1>1, <1>3, <2>1 DEF Occurs, m
    <2>2. CASE i = m
      <3>1. CASE Len(old) = 1
            BY <1>1, <2>2, <3>1 DEF Occurs, m
      <3>2. CASE Len(old) = 2
        <4>1. ~Occurs(old, u, i)
              BY <1>1, <2>2, <3>2 DEF Occurs, m
        <4>2. ~Occurs(old, w, i)
          <5>1. CASE m = 0
                BY <1>1, <2>2, <5>1 DEF Occurs
          <5>2. CASE m # 0
            <6>1. w[m] = u[m] /\ u[m] # old[1]
                  BY <1>1, <1>4, <3>2, <5>2 DEF Parted, m
            <6> QED  BY <2>2, <6>1 DEF Occurs
          <5> QED  BY <5>1, <5>2
        <4> QED  BY <4>1, <4>2
      <3> QED  BY <1>3, <3>1, <3>2
    <2> QED  BY <1>1, <2>1, <2>2
  <1>6. ASSUME NEW i \in 1..n PROVE Occurs(old, w, m + i) <=> Occurs(old, v, i)
    <2>1. /\ m + i \in 1..(m + n) /\ (m + i) + 1 = m + (i + 1)
          /\ m + (i + 1) \in 1..(m + n) <=> i + 1 \in 1..n
          BY <1>1
    <2> QED  BY <1>1, <2>1 DEF Occurs, n
  <1>7. ASSUME NEW i \in 1..m PROVE c[i] = a[i]
    <2>1. i \in 0..m /\ i - 1 \in 0..m /\ i \in 1..(m + n)
          BY <1>1
    <2>2. Piece(w, old, new, i) = Piece(u, old, new, i)
          BY <1>1, <1>5, <2>1 DEF Piece
    <2> QED  BY <1>2, <2>1, <2>2
  <1>8. ASSUME NEW i \in 1..n PROVE c[m + i] = b[i]
    <2>1. m + i \in 1..(m + n) /\ (m + i) - 1 = m + (i - 1)
          BY <1>1
    <2>2. Len(old) = 2 => (Occurs(old, w, m + (i - 1)) <=> Occurs(old, v, i - 1))
      <3>1. CASE i = 1
        <4>1. ~Occurs(old, v, i - 1)
              BY <3>1 DEF Occurs
        <4>2. m + (i - 1) = m /\ m \in 0..m
              BY <1>1, <3>1
        <4>3. Len(old) = 2 => ~Occurs(old, u, m)
              BY <1>1 DEF Occurs, m
        <4> QED  BY <1>5, <4>1, <4>2, <4>3
      <3>2. CASE i # 1
        <4>1. i - 1 \in 1..n
              BY <1>1, <3>2
        <4> QED  BY <1>6, <4>1
      <3> QED  BY <3>1, <3>2
    <2>3. Piece(w, old, new, m + i) = Piece(v, old, new, i)
          BY <1>1, <1>6, <2>1, <2>2 DEF Piece
    <2> QED  BY <1>2, <2>1, <2>3
  <1> HIDE DEF a, b, c
  <1>9. c = a \o b
    <2>1. /\ IsSeq(a) /\ IsSeq(b) /\ IsSeq(c) /\ Len(c) = Len(a) + Len(b)
          /\ \A i \in 1..Len(a) : c[i] = a[i]
          /\ \A i \in 1..Len(b) : c[Len(a) + i] = b[i]
          BY <1>2, <1>7, <1>8 DEF AreSeqs
    <2> QED  BY <2>1, ConcatIs
  <1>10. FlattenSeq(c) = FlattenSeq(a) \o FlattenSeq(b) /\ IsSeq(FlattenSeq(a))
        BY <1>2, <1>9, SeqsConcat, FlatIsSeq
  <1>11. /\ Replaced(u, old, new) = FlattenSeq(a) /\ Replaced(v, old, new) = FlattenSeq(b)
         /\ Replaced(w, old, new) = FlattenSeq(c)
        BY <1>1, ReplacedIs DEF a, b, c
  <1> QED  BY <1>10, <1>11 DEF w

LEMMA ReplacedOne ==
    ASSUME NEW x, NEW old, Short(old), NEW new, IsSeq(new)
    PROVE  Replaced(<<x>>, old, new) = IF Len(old) = 1 /\ x = old[1] THEN new ELSE <<x>>
  <1> DEFINE t == <<x>>
             p == Pieces(t, old, new)
             q == Piece(t, old, new, 1)
  <1>1. IsSeq(t) /\ Len(t) = 1 /\ t[1] = x
        BY OneIsSeq
  <1> HIDE DEF t
  <1>2. q = IF Len(old) = 1 /\ x = old[1] THEN new ELSE <<x>>
    <2>1. Occurs(old, t, 1) <=> Len(old) = 1 /\ x = old[1]
          BY <1>1 DEF Occurs, Short
    <2>2. ~Occurs(old, t, 1 - 1)
          BY DEF Occurs
    <2> QED  BY <1>1, <2>1, <2>2 DEF Piece
  <1>3. IsSeq(p) /\ Len(p) = 1 /\ p[1] = q
        BY <1>1, PiecesAre DEF AreSeqs
  <1> HIDE DEF p, q
  <1>4. p = <<q>>
    <2> DEFINE one == <<q>>
    <2>1. IsSeq(one) /\ Len(one) = 1 /\ one[1] = q
          BY OneIsSeq
    <2> HIDE DEF one
    <2>2. p = one
          BY <1>3, <2>1, SameIs
    <2> QED  BY <2>2 DEF one
  <1>5. IsSeq(q)
        BY <1>2, OneIsSeq
  <1>6. Replaced(t, old, new) = q
        BY <1>1, <1>4, <1>5, ReplacedIs, FlatOfOne DEF p
  <1> QED  BY <1>2, <1>6 DEF t

LEMMA PairIs == ASSUME NEW x, NEW y PROVE <<x>> \o <<y>> = <<x, y>>
  <1> DEFINE one == <<x>>
             two == <<y>>
             both == <<x, y>>
  <1>1. IsSeq(one) /\ Len(one) = 1 /\ one[1] = x /\ IsSeq(two) /\ Len(two) = 1 /\ two[1] = y
        BY OneIsSeq
  <1>2. IsSeq(both) /\ Len(both) = 2 /\ both[1] = x /\ both[2] = y
    <2> DEFINE S == {x, y}
    <2>1. both \in Seq(S) /\ Len(both) = 2 /\ both[1] = x /\ both[2] = y
          OBVIOUS
    <2> HIDE DEF S, both
    <2> QED  BY <2>1, SeqIs
  <1> HIDE DEF one, two, both
  <1>3. /\ Len(both) = Len(one) + Len(two)
        /\ \A i \in 1..Len(one) : both[i] = one[i]
        /\ \A i \in 1..Len(two) : both[Len(one) + i] = two[i]
        BY <1>1, <1>2
  <1>4. both = one \o two
        BY <1>1, <1>2, <1>3, ConcatIs
  <1> QED  BY <1>4 DEF one, two, both

LEMMA ReplacedTwo ==
    ASSUME NEW x, NEW y, NEW old, Short(old), Len(old) = 2, NEW new, IsSeq(new)
    PROVE  Replaced(<<x, y>>, old, new) = IF x = old[1] /\ y = old[2] THEN new ELSE <<x, y>>
  <1> DEFINE t == <<x, y>>
             p == Pieces(t, old, new)
             a == Piece(t, old, new, 1)
             b == Piece(t, old, new, 2)
  <1>1. IsSeq(t) /\ Len(t) = 2 /\ t[1] = x /\ t[2] = y
    <2> DEFINE S == {x, y}
    <2>1. t \in Seq(S) /\ Len(t) = 2 /\ t[1] = x /\ t[2] = y
          OBVIOUS
    <2> HIDE DEF S, t
    <2> QED  BY <2>1, SeqIs
  <1> HIDE DEF t
  <1>2. IF x = old[1] /\ y = old[2] THEN a = new /\ b = <<>> ELSE a = <<x>> /\ b = <<y>>
    <2>1. Occurs(old, t, 1) <=> x = old[1] /\ y = old[2]
          BY <1>1 DEF Occurs
    <2>2. ~Occurs(old, t, 0) /\ ~Occurs(old, t, 2)
          BY <1>1 DEF Occurs
    <2>3. 1 - 1 = 0 /\ 2 - 1 = 1
          OBVIOUS
    <2> QED  BY <1>1, <2>1, <2>2, <2>3 DEF Piece
  <1>3. IsSeq(p) /\ Len(p) = 2 /\ p[1] = a /\ p[2] = b
        BY <1>1, PiecesAre DEF AreSeqs
  <1> HIDE DEF p, a, b
  <1>4. IsSeq(a) /\ IsSeq(b)
        BY <1>2, OneIsSeq, NoneIsSeq
  <1>5. p = <<a>> \o <<b>>
    <2> DEFINE one == <<a>>
               two == <<b>>
    <2>1. IsSeq(one) /\ Len(one) = 1 /\ one[1] = a /\ IsSeq(two) /\ Len(two) = 1 /\ two[1] = b
          BY OneIsSeq
    <2> HIDE DEF one, two
    <2>2. /\ Len(p) = Len(one) + Len(two)
          /\ \A i \in 1..Len(one) : p[i] = one[i]
          /\ \A i \in 1..Len(two) : p[Len(one) + i] = two[i]
          BY <1>3, <2>1
    <2>3. p = one \o two
          BY <1>3, <2>1, <2>2, ConcatIs
    <2> QED  BY <2>3 DEF one, two
  <1>6. FlattenSeq(p) = a \o b
    <2> DEFINE one == <<a>>
               two == <<b>>
    <2>1. AreSeqs(one) /\ FlattenSeq(one) = a /\ AreSeqs(two) /\ FlattenSeq(two) = b
          BY <1>4, FlatOfOne
    <2> HIDE DEF one, two
    <2>2. FlattenSeq(one \o two) = a \o b
          BY <2>1, SeqsConcat
    <2> QED  BY <1>5, <2>2 DEF one, two
  <1>7. Replaced(t, old, new) = a \o b
        BY <1>1, <1>6, ReplacedIs DEF p
  <1>8. CASE x = old[1] /\ y = old[2]
        BY <1>2, <1>7, <1>8, ConcatNothing DEF t
  <1>9. CASE ~(x = old[1] /\ y = old[2])
    <2>1. a \o b = <<x, y>>
      <3>1. a = <<x>> /\ b = <<y>>
            BY <1>2, <1>9
      <3>2. <<x>> \o <<y>> = <<x, y>>
            BY PairIs
      <3> QED  BY <3>1, <3>2
    <2> QED  BY <1>7, <1>9, <2>1 DEF t
  <1> QED  BY <1>8, <1>9

LEMMA ReplacedNone ==
    ASSUME NEW old, Short(old), NEW new, IsSeq(new)
    PROVE  Replaced(<<>>, old, new) = <<>>
  <1> DEFINE t == <<>>
             p == Pieces(t, old, new)
  <1>1. IsSeq(t) /\ Len(t) = 0
        BY NoneIsSeq
  <1>2. Replaced(t, old, new) = FlattenSeq(p)
    <2> HIDE DEF t
    <2> QED  BY <1>1, ReplacedIs
  <1>3. Len(p) = 0
    <2> HIDE DEF t
    <2> QED  BY <1>1, PiecesAre
  <1> QED  BY <1>2, <1>3, FlatOfNone DEF FlattenSeq
-----------------------------------------------------------------------------
(* Escaping and decoding, symbol by symbol.                                *)

(* No escaped text ends where an entity begins.                            *)
Ends(u) == u # <<>> => u[Len(u)] # "&"

LEMMA EndsConcat ==
    ASSUME NEW u, NEW v, IsSeq(u), IsSeq(v), v # <<>>, Ends(v)
    PROVE  Ends(u \o v)
  <1> DEFINE w == u \o v
  <1>1. /\ IsSeq(w) /\ Len(w) = Len(u) + Len(v) /\ Len(u) \in Nat /\ Len(v) \in Nat
        /\ \A i \in 1..Len(v) : w[Len(u) + i] = v[i]
        BY ConcatIsSeq, SeqHas
  <1>2. Len(v) # 0
        BY SeqHas
  <1>3. Len(v) \in 1..Len(v)
        BY <1>1, <1>2
  <1> HIDE DEF w
  <1>4. w[Len(w)] = v[Len(v)]
        BY <1>1, <1>3
  <1>5. Ends(w)
        BY <1>4 DEF Ends
  <1> QED  BY <1>5 DEF w

And == <<"&">>
Less == <<"<">>

LEMMA Spelled ==
    /\ Len(And) = 1 /\ Len(Less) = 1 /\ Len(Amp) = 2 /\ Len(Lt) = 2
    /\ And[1] = "&" /\ Less[1] = "<"
    /\ Amp[1] = "&" /\ Amp[2] = "amp;" /\ Lt[1] = "&" /\ Lt[2] = "lt;"
  <1>1. Len(And) = 1 /\ And[1] = "&" /\ Len(Less) = 1 /\ Less[1] = "<"
        BY DEF And, Less
  <1>2. Len(Amp) = 2 /\ Amp[1] = "&" /\ Amp[2] = "amp;"
        BY DEF Amp
  <1>3. Len(Lt) = 2 /\ Lt[1] = "&" /\ Lt[2] = "lt;"
        BY DEF Lt
  <1> QED  BY <1>1, <1>2, <1>3, Zenon

LEMMA Entities ==
    /\ Short(And) /\ Short(Less) /\ Short(Amp) /\ Short(Lt)
    /\ IsSeq(And) /\ IsSeq(Less) /\ IsSeq(Amp) /\ IsSeq(Lt)
  <1>1. Amp \in Seq({"&", "amp;"}) /\ Lt \in Seq({"&", "lt;"})
        BY DEF Amp, Lt
  <1>2. IsSeq(Amp) /\ IsSeq(Lt) /\ IsSeq(And) /\ IsSeq(Less)
        BY <1>1, SeqIs, OneIsSeq, Zenon DEF And, Less
  <1> QED  BY <1>2, Spelled, Zenon DEF Short

Escaped1(u) == Replaced(u, And, Amp)
Escaped2(u) == Replaced(u, Less, Lt)
Decoded1(u) == Replaced(u, Lt, Less)
Decoded2(u) == Replaced(u, Amp, And)

(* What the four replacements make of a text, one after the other.         *)
Stages(u, e1, e2, d1) ==
    /\ IsSeq(e1) /\ IsSeq(e2) /\ IsSeq(d1)
    /\ e1 = Escaped1(u) /\ e2 = Escaped2(e1) /\ d1 = Decoded1(e2) /\ Decoded2(d1) = u
    /\ Ends(e2) /\ Ends(d1)
Returns(u) == \E e1, e2, d1 : Stages(u, e1, e2, d1)

LEMMA OneReplaced ==
    ASSUME NEW x
    PROVE  /\ Escaped1(<<x>>) = IF x = "&" THEN Amp ELSE <<x>>
           /\ Escaped2(<<x>>) = IF x = "<" THEN Lt ELSE <<x>>
           /\ Decoded1(<<x>>) = <<x>>
           /\ Decoded2(<<x>>) = <<x>>
  <1>1. Escaped1(<<x>>) = IF Len(And) = 1 /\ x = And[1] THEN Amp ELSE <<x>>
        BY Entities, ReplacedOne DEF Escaped1
  <1>2. Escaped2(<<x>>) = IF Len(Less) = 1 /\ x = Less[1] THEN Lt ELSE <<x>>
        BY Entities, ReplacedOne DEF Escaped2
  <1>3. Decoded1(<<x>>) = IF Len(Lt) = 1 /\ x = Lt[1] THEN Less ELSE <<x>>
        BY Entities, ReplacedOne DEF Decoded1
  <1>4. Decoded2(<<x>>) = IF Len(Amp) = 1 /\ x = Amp[1] THEN And ELSE <<x>>
        BY Entities, ReplacedOne DEF Decoded2
  <1> QED  BY <1>1, <1>2, <1>3, <1>4, Spelled, Zenon

LEMMA EntitiesReplaced ==
    /\ Escaped2(Amp) = Amp /\ Decoded1(Amp) = Amp /\ Decoded2(Amp) = And
    /\ Decoded1(Lt) = Less
  <1>1. Escaped2(Amp) = Amp
    <2> DEFINE amp == <<"amp;">>
    <2>1. Amp = And \o amp
          BY PairIs, Zenon DEF Amp, And
    <2>2. IsSeq(amp) /\ Escaped2(amp) = amp
          BY OneIsSeq, OneReplaced, Zenon
    <2>3. Escaped2(And) = And
          BY OneReplaced DEF And
    <2>4. Parted(And, Less)
          BY Spelled, Zenon DEF Parted
    <2> HIDE DEF amp
    <2>5. Escaped2(And \o amp) = Escaped2(And) \o Escaped2(amp)
          BY <2>2, <2>4, Entities, ReplacedConcat DEF Escaped2
    <2> QED  BY <2>1, <2>2, <2>3, <2>5
  <1>2. ASSUME NEW old, Short(old), Len(old) = 2, NEW new, IsSeq(new)
        PROVE  /\ Replaced(Amp, old, new) = IF "&" = old[1] /\ "amp;" = old[2] THEN new ELSE Amp
               /\ Replaced(Lt, old, new) = IF "&" = old[1] /\ "lt;" = old[2] THEN new ELSE Lt
        BY <1>2, ReplacedTwo, Zenon DEF Amp, Lt
  <1>3. Decoded1(Amp) = Amp
    <2>1. Replaced(Amp, Lt, Less) = IF "&" = Lt[1] /\ "amp;" = Lt[2] THEN Less ELSE Amp
      <3>1. Len(Amp) = 2 /\ Len(Lt) = 2
            BY Spelled, Zenon
      <3> QED  BY <1>2, <3>1, Entities, Zenon
    <2> QED  BY <2>1, Spelled, Zenon DEF Decoded1
  <1>4. Decoded2(Amp) = And
    <2>1. Replaced(Amp, Amp, And) = IF "&" = Amp[1] /\ "amp;" = Amp[2] THEN And ELSE Amp
      <3>1. Len(Amp) = 2 /\ Len(Lt) = 2
            BY Spelled, Zenon
      <3> QED  BY <1>2, <3>1, Entities, Zenon
    <2> QED  BY <2>1, Spelled, Zenon DEF Decoded2
  <1>5. Decoded1(Lt) = Less
    <2>1. Replaced(Lt, Lt, Less) = IF "&" = Lt[1] /\ "lt;" = Lt[2] THEN Less ELSE Lt
      <3>1. Len(Amp) = 2 /\ Len(Lt) = 2
            BY Spelled, Zenon
      <3> QED  BY <1>2, <3>1, Entities, Zenon
    <2> QED  BY <2>1, Spelled, Zenon DEF Decoded1
  <1> QED  BY <1>1, <1>3, <1>4, <1>5

LEMMA SymbolStages ==
    ASSUME NEW x
    PROVE  \E e1, e2, d1 : Stages(<<x>>, e1, e2, d1) /\ e2 # <<>> /\ d1 # <<>>
  <1> DEFINE one == <<x>>
  <1>1. IsSeq(one) /\ Len(one) = 1 /\ one[1] = x /\ one # <<>>
        BY OneIsSeq
  <1>2. /\ Ends(Amp) /\ Amp # <<>> /\ Ends(Lt) /\ Lt # <<>>
        /\ x # "&" => Ends(one)
    <2>1. Amp # <<>> /\ Lt # <<>>
          BY DEF Amp, Lt
    <2> HIDE DEF one
    <2> QED  BY <1>1, <2>1, Spelled, Zenon DEF Ends
  <1>3. /\ Escaped1(one) = IF x = "&" THEN Amp ELSE one
        /\ Escaped2(one) = IF x = "<" THEN Lt ELSE one
        /\ Decoded1(one) = one /\ Decoded2(one) = one
        BY OneReplaced
  <1>4. /\ x = "&" => one = And
        /\ x = "<" => one = Less
        BY DEF And, Less
  <1> HIDE DEF one
  <1>5. CASE x = "&"
    <2>1. Stages(one, Amp, Amp, Amp)
          BY <1>1, <1>2, <1>3, <1>4, <1>5, Entities, EntitiesReplaced DEF Stages
    <2> QED  BY <1>2, <2>1 DEF one
  <1>6. CASE x = "<"
    <2>1. Stages(one, one, Lt, one)
          BY <1>1, <1>2, <1>3, <1>4, <1>6, Entities, EntitiesReplaced DEF Stages
    <2> QED  BY <1>1, <1>2, <2>1 DEF one
  <1>7. CASE x # "&" /\ x # "<"
    <2>1. Stages(one, one, one, one)
          BY <1>1, <1>2, <1>3, <1>7 DEF Stages
    <2> QED  BY <1>1, <2>1 DEF one
  <1> QED  BY <1>5, <1>6, <1>7

(* Each replacement is of one text and of the next.                        *)
LEMMA StagesConcat ==
    ASSUME NEW u, NEW v, IsSeq(u), IsSeq(v), NEW e1, NEW e2, NEW d1, Stages(u, e1, e2, d1),
           NEW f1, NEW f2, NEW g1, Stages(v, f1, f2, g1), f2 # <<>>, g1 # <<>>
    PROVE  Stages(u \o v, e1 \o f1, e2 \o f2, d1 \o g1)
  <1>1. /\ IsSeq(e1) /\ IsSeq(e2) /\ IsSeq(d1) /\ Ends(e2) /\ Ends(d1)
        /\ IsSeq(f1) /\ IsSeq(f2) /\ IsSeq(g1) /\ Ends(f2) /\ Ends(g1)
        BY DEF Stages
  <1>2. /\ Parted(u, And) /\ Parted(e1, Less)
        /\ Parted(e2, Lt) /\ Parted(d1, Amp)
        BY <1>1, Spelled, Zenon DEF Parted, Ends
  <1>3. Escaped1(u \o v) = e1 \o f1
    <2>1. Escaped1(u \o v) = Escaped1(u) \o Escaped1(v)
          BY <1>1, <1>2, Entities, ReplacedConcat DEF Escaped1
    <2> QED  BY <2>1 DEF Stages
  <1>4. Escaped2(e1 \o f1) = e2 \o f2
    <2>1. Escaped2(e1 \o f1) = Escaped2(e1) \o Escaped2(f1)
          BY <1>1, <1>2, Entities, ReplacedConcat DEF Escaped2
    <2> QED  BY <2>1 DEF Stages
  <1>5. Decoded1(e2 \o f2) = d1 \o g1
    <2>1. Decoded1(e2 \o f2) = Decoded1(e2) \o Decoded1(f2)
          BY <1>1, <1>2, Entities, ReplacedConcat DEF Decoded1
    <2> QED  BY <2>1 DEF Stages
  <1>6. Decoded2(d1 \o g1) = u \o v
    <2>1. Decoded2(d1 \o g1) = Decoded2(d1) \o Decoded2(g1)
          BY <1>1, <1>2, Entities, ReplacedConcat DEF Decoded2
    <2> QED  BY <2>1 DEF Stages
  <1>7. Ends(e2 \o f2) /\ Ends(d1 \o g1)
        BY <1>1, EndsConcat
  <1>8. IsSeq(e1 \o f1) /\ IsSeq(e2 \o f2) /\ IsSeq(d1 \o g1)
        BY <1>1, ConcatIsSeq
  <1> QED  BY <1>3, <1>4, <1>5, <1>6, <1>7, <1>8 DEF Stages

(* What was escaped is decoded, whatever the text: the replacements of     *)
(* _decode_param_value undo those of _xml_escape                           *)
(* (prompt_builder.py:148-155, xml_parser.py:153-162).                     *)
THEOREM DecodesWhatIsEscaped == \A u \in Seq(Symbols) : Decode(Escape(u)) = u
  <1> DEFINE P == {u \in Seq(Symbols) : Returns(u)}
  <1>1. <<>> \in P
    <2> DEFINE none == <<>>
    <2>1. /\ Escaped1(none) = none /\ Escaped2(none) = none
          /\ Decoded1(none) = none /\ Decoded2(none) = none
          BY Entities, ReplacedNone DEF Escaped1, Escaped2, Decoded1, Decoded2
    <2>2. IsSeq(none) /\ Ends(none) /\ none \in Seq(Symbols)
          BY NoneIsSeq DEF Ends
    <2> HIDE DEF none
    <2>3. Stages(none, none, none, none)
          BY <2>1, <2>2 DEF Stages
    <2>4. none \in P
          BY <2>2, <2>3 DEF Returns
    <2> QED  BY <2>4 DEF none
  <1>2. ASSUME NEW u \in Seq(Symbols), NEW x \in Symbols, u \in P PROVE u \o <<x>> \in P
    <2> DEFINE one == <<x>>
               both == u \o one
    <2>1. PICK e1, e2, d1 : Stages(u, e1, e2, d1)
          BY <1>2 DEF Returns
    <2>2. PICK f1, f2, g1 : Stages(one, f1, f2, g1) /\ f2 # <<>> /\ g1 # <<>>
          BY SymbolStages
    <2>3. IsSeq(u) /\ IsSeq(one)
          BY SeqIs, OneIsSeq
    <2>4. both \in Seq(Symbols)
      <3>1. one \in Seq(Symbols)
            OBVIOUS
      <3> HIDE DEF one
      <3> QED  BY <3>1
    <2> HIDE DEF one
    <2>5. Stages(both, e1 \o f1, e2 \o f2, d1 \o g1)
          BY <2>1, <2>2, <2>3, StagesConcat
    <2> HIDE DEF both
    <2>6. both \in P
          BY <2>4, <2>5 DEF Returns
    <2> QED  BY <2>6 DEF one, both
  <1> HIDE DEF P
  <1>3. Lists!Grows(P, Symbols)
        BY <1>2 DEF Lists!Grows
  <1>4. \A u \in Seq(Symbols) : u \in P
        BY <1>1, <1>3, Lists!SeqsBuilt
  <1>5. ASSUME NEW u \in Seq(Symbols) PROVE Decode(Escape(u)) = u
    <2>1. PICK e1, e2, d1 : Stages(u, e1, e2, d1)
          BY <1>4 DEF P, Returns
    <2>2. Escape(u) = e2 /\ Decode(e2) = u
          BY <2>1 DEF Stages, Escape, Decode, Escaped1, Escaped2, Decoded1, Decoded2, And, Less
    <2> QED  BY <2>2
  <1> QED  BY <1>5
-----------------------------------------------------------------------------
(* What the model sees of the parts of a message, and that it sees what a  *)
(* turn of a Messages request said.                                        *)

LEMMA FlatJoined ==
    ASSUME NEW a, NEW b, NEW c, AreSeqs(a), AreSeqs(b), IsSeq(c), Len(c) = Len(a) + Len(b),
           \A i \in 1..Len(a) : c[i] = a[i], \A i \in 1..Len(b) : c[Len(a) + i] = b[i]
    PROVE  AreSeqs(c) /\ FlattenSeq(c) = FlattenSeq(a) \o FlattenSeq(b)
  <1>1. IsSeq(a) /\ IsSeq(b)
        BY DEF AreSeqs
  <1>2. c = a \o b
        BY <1>1, ConcatIs
  <1> QED  BY <1>2, SeqsConcat

(* Sequences of one element each. *)
LEMMA FlatSingles ==
    ASSUME NEW s, IsSeq(s)
    PROVE  FlattenSeq([i \in DOMAIN s |-> <<s[i]>>]) = s
  <1> DEFINE A == Range(s)
             f == [x \in A |-> x]
             g == [x \in A |-> <<x>>]
             n == Len(s)
  <1>1. s \in Seq(A) /\ n \in Nat /\ DOMAIN s = 1..n /\ s = [i \in 1..n |-> s[i]]
        BY SeqHas DEF IsSeq
  <1>2. \A i \in 1..n : s[i] \in A
        BY <1>1
  <1>3. g = [x \in A |-> g[x]] /\ f = [x \in A |-> f[x]] /\ \A x \in A : g[x] = <<f[x]>> /\ f[x] = x
        OBVIOUS
  <1>4. [i \in DOMAIN s |-> <<s[i]>>] = Lists!Each(g, s)
        BY <1>1, <1>2 DEF Lists!Each
  <1>5. Lists!Mapped(f, s) = s
        BY <1>1, <1>2 DEF Lists!Mapped
  <1>6. Lists!Picks(g, f, A, A)
    <2>1. \A x \in A : <<x>> \in Seq(A)
      <3> HIDE DEF A
      <3> QED  OBVIOUS
    <2>2. f \in [A -> A] /\ g \in [A -> Seq(A)]
          BY <2>1
    <2> HIDE DEF f, g, A
    <2> QED  BY <1>3, <2>2 DEF Lists!Picks
  <1> HIDE DEF f, g, A
  <1>7. Lists!FlattenSeq(Lists!Each(g, s)) = Lists!Mapped(f, s)
        BY <1>1, <1>6, Lists!FlatSingle
  <1> QED  BY <1>4, <1>5, <1>7, SameFlatten

(* Calls come back as they were rendered. *)
AreCalls(calls) == IsSeq(calls) /\ \A i \in DOMAIN calls : IsCall(calls[i])
Told(role, things) == [i \in DOMAIN things |-> <<role, things[i]>>]

LEMMA CallsReadBack ==
    ASSUME NEW calls, AreCalls(calls)
    PROVE  ParseBlock(RenderInvokes(calls), FALSE) = calls
  <1> DEFINE out == ParseBlock(RenderInvokes(calls), FALSE)
             n == Len(calls)
  <1>1. n \in Nat /\ DOMAIN calls = 1..n /\ calls = [i \in 1..n |-> calls[i]]
        BY SeqHas DEF AreCalls
  <1>2. out = [i \in 1..n |-> [[calls[i] EXCEPT !.argument = Escape(@)]
                                   EXCEPT !.argument = Decode(@)]]
        BY <1>1 DEF ParseBlock, RenderInvokes
  <1>3. ASSUME NEW i \in 1..n
        PROVE  [[calls[i] EXCEPT !.argument = Escape(@)] EXCEPT !.argument = Decode(@)] = calls[i]
    <2> DEFINE name == calls[i].name
               argument == calls[i].argument
               escaped == Escape(argument)
    <2>1. calls[i] = [name |-> name, argument |-> argument] /\ argument \in Seq(Symbols)
          BY <1>1 DEF AreCalls, IsCall, Call
    <2>2. Decode(escaped) = argument
          BY <2>1, DecodesWhatIsEscaped
    <2> HIDE DEF name, argument, escaped
    <2>3. [calls[i] EXCEPT !.argument = Escape(@)] = [name |-> name, argument |-> escaped]
          BY <2>1 DEF escaped
    <2> DEFINE mid == [calls[i] EXCEPT !.argument = Escape(@)]
    <2>4. mid = [name |-> name, argument |-> escaped]
          BY <2>3
    <2> HIDE DEF mid
    <2>5. [mid EXCEPT !.argument = Decode(@)] = [name |-> name, argument |-> Decode(escaped)]
          BY <2>4
    <2> QED  BY <2>1, <2>2, <2>5 DEF mid
  <1> HIDE DEF n, out
  <1> QED  BY <1>1, <1>2, <1>3 DEF out

LEMMA ToldIsSeq ==
    ASSUME NEW role, NEW things, IsSeq(things)
    PROVE  /\ IsSeq(Told(role, things)) /\ Len(Told(role, things)) = Len(things)
           /\ \A i \in 1..Len(things) : Told(role, things)[i] = <<role, things[i]>>
  <1> DEFINE t == Told(role, things)
             n == Len(things)
  <1>1. n \in Nat /\ DOMAIN things = 1..n
        BY SeqHas
  <1>2. /\ DOMAIN t = 1..n /\ t = [i \in 1..n |-> t[i]]
        /\ \A i \in 1..n : t[i] = <<role, things[i]>>
        BY <1>1 DEF Told
  <1> HIDE DEF t, n
  <1>3. IsSeq(t) /\ Len(t) = n
        BY <1>1, <1>2, FunctionIsSeq
  <1> QED  BY <1>2, <1>3 DEF t, n

(* What the model sees of a part. *)
SeenOf(role, part) == SeenInPart(role, part, FALSE)
SeenIn(role, parts) == FlattenSeq([k \in DOMAIN parts |-> SeenOf(role, parts[k])])

LEMMA SeenOfPart ==
    ASSUME NEW role, NEW part
    PROVE  /\ part.type \in {"text", "result", "repr"} => SeenOf(role, part) = <<<<role, part>>>>
           /\ part.type = "tools" => SeenOf(role, part) = <<>>
           /\ part.type = "array" => SeenOf(role, part) = <<<<role, TextPart(part.size)>>>>
  BY DEF SeenOf, SeenInPart

LEMMA SeenOfCalls ==
    ASSUME NEW role, NEW calls, AreCalls(calls)
    PROVE  SeenOf(role, CallsPart(calls)) = Told(role, calls)
  <1> DEFINE part == CallsPart(calls)
  <1>1. part.type = "calls" /\ part.calls = RenderInvokes(calls)
        BY DEF CallsPart
  <1> HIDE DEF part
  <1>2. SeenOf(role, part) = Told(role, ParseBlock(part.calls, FALSE))
        BY <1>1 DEF SeenOf, SeenInPart, Told
  <1> QED  BY <1>1, <1>2, CallsReadBack DEF part

(* The parts of a message, of which something is seen. *)
AreSeen(role, parts) == IsSeq(parts) /\ \A k \in DOMAIN parts : IsSeq(SeenOf(role, parts[k]))

LEMMA SeenSeqs ==
    ASSUME NEW role, NEW parts, AreSeen(role, parts), NEW s,
           s = [k \in DOMAIN parts |-> SeenOf(role, parts[k])]
    PROVE  /\ AreSeqs(s) /\ Len(s) = Len(parts)
           /\ \A k \in 1..Len(parts) : s[k] = SeenOf(role, parts[k])
           /\ SeenIn(role, parts) = FlattenSeq(s)
  <1>1. Len(parts) \in Nat /\ DOMAIN parts = 1..Len(parts)
        BY SeqHas DEF AreSeen
  <1>2. /\ DOMAIN s = 1..Len(parts)
        /\ s = [k \in 1..Len(parts) |-> s[k]]
        /\ \A k \in 1..Len(parts) : s[k] = SeenOf(role, parts[k])
        BY <1>1
  <1>3. IsSeq(s) /\ Len(s) = Len(parts)
        BY <1>1, <1>2, FunctionIsSeq
  <1> QED  BY <1>1, <1>2, <1>3 DEF AreSeqs, AreSeen, SeenIn

LEMMA SeenConcat ==
    ASSUME NEW role, NEW a, NEW b, AreSeen(role, a), AreSeen(role, b)
    PROVE  /\ AreSeen(role, a \o b) /\ SeenIn(role, a \o b) = SeenIn(role, a) \o SeenIn(role, b)
           /\ IsSeq(SeenIn(role, a))
  <1> DEFINE c == a \o b
             sa == [k \in DOMAIN a |-> SeenOf(role, a[k])]
             sb == [k \in DOMAIN b |-> SeenOf(role, b[k])]
             sc == [k \in DOMAIN c |-> SeenOf(role, c[k])]
             m == Len(a)
             n == Len(b)
  <1>1. /\ IsSeq(c) /\ Len(c) = m + n /\ m \in Nat /\ n \in Nat
        /\ \A k \in 1..m : c[k] = a[k]
        /\ \A k \in 1..n : c[m + k] = b[k]
        /\ DOMAIN a = 1..m /\ DOMAIN b = 1..n
        BY ConcatIsSeq, SeqHas DEF AreSeen
  <1> HIDE DEF c
  <1>2. DOMAIN c = 1..(m + n)
        BY <1>1, SeqHas
  <1>3. AreSeen(role, c)
    <2>1. ASSUME NEW k \in 1..(m + n) PROVE IsSeq(SeenOf(role, c[k]))
      <3>1. CASE k <= m
        <4>1. k \in 1..m
              BY <1>1, <3>1
        <4> QED  BY <1>1, <4>1 DEF AreSeen
      <3>2. CASE k > m
        <4> DEFINE j == k - m
        <4>1. j \in 1..n /\ m + j = k
              BY <1>1, <3>2
        <4> HIDE DEF j, m, n
        <4>2. c[k] = b[j]
              BY <1>1, <4>1
        <4> QED  BY <1>1, <4>1, <4>2 DEF AreSeen
      <3> QED  BY <1>1, <3>1, <3>2
    <2> QED  BY <1>1, <1>2, <2>1 DEF AreSeen
  <1>4. /\ AreSeqs(sa) /\ Len(sa) = m /\ \A k \in 1..m : sa[k] = SeenOf(role, a[k])
        /\ SeenIn(role, a) = FlattenSeq(sa)
        BY SeenSeqs
  <1>5. /\ AreSeqs(sb) /\ Len(sb) = n /\ \A k \in 1..n : sb[k] = SeenOf(role, b[k])
        /\ SeenIn(role, b) = FlattenSeq(sb)
        BY SeenSeqs
  <1>6. /\ AreSeqs(sc) /\ Len(sc) = Len(c) /\ \A k \in 1..Len(c) : sc[k] = SeenOf(role, c[k])
        /\ SeenIn(role, c) = FlattenSeq(sc)
        BY <1>3, SeenSeqs
  <1> HIDE DEF sa, sb, sc, m, n
  <1>7. ASSUME NEW k \in 1..m PROVE sc[k] = sa[k]
    <2>1. k \in 1..(m + n)
          BY <1>1
    <2> QED  BY <1>1, <1>4, <1>6, <2>1
  <1>8. ASSUME NEW k \in 1..n PROVE sc[m + k] = sb[k]
    <2>1. m + k \in 1..(m + n)
          BY <1>1
    <2> QED  BY <1>1, <1>5, <1>6, <2>1
  <1>9. FlattenSeq(sc) = FlattenSeq(sa) \o FlattenSeq(sb)
    <2>1. IsSeq(sc) /\ Len(sc) = Len(sa) + Len(sb)
          BY <1>1, <1>4, <1>5, <1>6 DEF AreSeqs
    <2>2. \A k \in 1..Len(sa) : sc[k] = sa[k]
          BY <1>4, <1>7
    <2>3. \A k \in 1..Len(sb) : sc[Len(sa) + k] = sb[k]
          BY <1>4, <1>5, <1>8
    <2> QED  BY <1>4, <1>5, <2>1, <2>2, <2>3, FlatJoined
  <1> QED  BY <1>3, <1>4, <1>5, <1>6, <1>9, FlatIsSeq DEF c

LEMMA SeenOne ==
    ASSUME NEW role, NEW part, IsSeq(SeenOf(role, part))
    PROVE  AreSeen(role, <<part>>) /\ SeenIn(role, <<part>>) = SeenOf(role, part)
  <1> DEFINE one == <<part>>
             s == SeenOf(role, part)
  <1>1. IsSeq(one) /\ DOMAIN one = {1} /\ one[1] = part
        BY OneIsSeq
  <1>2. [k \in DOMAIN one |-> SeenOf(role, one[k])] = <<s>>
        OBVIOUS
  <1>3. FlattenSeq(<<s>>) = s
        BY FlatOfOne
  <1> HIDE DEF s
  <1>4. SeenIn(role, one) = s
        BY <1>2, <1>3 DEF SeenIn
  <1>5. AreSeen(role, one)
    <2> HIDE DEF one
    <2> QED  BY <1>1 DEF AreSeen, s
  <1> QED  BY <1>4, <1>5 DEF s

LEMMA SeenNone == ASSUME NEW role PROVE AreSeen(role, <<>>) /\ SeenIn(role, <<>>) = <<>>
  <1>1. AreSeen(role, <<>>)
        BY NoneIsSeq DEF AreSeen
  <1>2. [k \in DOMAIN <<>> |-> SeenOf(role, <<>>[k])] = <<>>
        OBVIOUS
  <1> QED  BY <1>1, <1>2, FlatOfNone DEF SeenIn

SaidIn(role, blocks) == FlattenSeq([i \in DOMAIN blocks |-> SaidInBlock(role, blocks[i])])

LEMMA SaidOfBlock ==
    ASSUME NEW role, NEW block
    PROVE  /\ IsSeq(SaidInBlock(role, block))
           /\ block.type = "text" /\ block.size > 0 =>
                 SaidInBlock(role, block) = <<<<role, TextPart(block.size)>>>>
           /\ block.type = "tool_use" /\ block.name # "" =>
                 SaidInBlock(role, block) = <<<<role, Call(block.name, block.argument)>>>>
           /\ block.type = "tool_result" =>
                 SaidInBlock(role, block) = <<<<role, ResultPart(block.id, block.size)>>>>
           /\ ~(block.type = "text" /\ block.size > 0)
                 /\ ~(block.type = "tool_use" /\ block.name # "") /\ block.type # "tool_result" =>
                 SaidInBlock(role, block) = <<>>
  <1> DEFINE said == SaidInBlock(role, block)
             text == <<role, TextPart(block.size)>>
             call == <<role, Call(block.name, block.argument)>>
             result == <<role, ResultPart(block.id, block.size)>>
  <1>1. /\ block.type = "text" /\ block.size > 0 => said = <<text>>
        /\ block.type = "tool_use" /\ block.name # "" => said = <<call>>
        /\ block.type = "tool_result" => said = <<result>>
        /\ ~(block.type = "text" /\ block.size > 0)
              /\ ~(block.type = "tool_use" /\ block.name # "") /\ block.type # "tool_result" =>
              said = <<>>
        BY DEF SaidInBlock
  <1>2. IsSeq(<<text>>) /\ IsSeq(<<call>>) /\ IsSeq(<<result>>) /\ IsSeq(<<>>)
        BY OneIsSeq, NoneIsSeq, Zenon
  <1> HIDE DEF said, text, call, result
  <1>3. IsSeq(said)
        BY <1>1, <1>2
  <1> QED  BY <1>1, <1>3 DEF said, text, call, result

LEMMA SaidAppend ==
    ASSUME NEW role, NEW B, NEW blocks \in Seq(B), NEW b \in B
    PROVE  /\ SaidIn(role, Append(blocks, b)) = SaidIn(role, blocks) \o SaidInBlock(role, b)
           /\ IsSeq(SaidIn(role, blocks))
  <1> DEFINE more == Append(blocks, b)
             n == Len(blocks)
             said == SaidInBlock(role, b)
             sa == [i \in DOMAIN blocks |-> SaidInBlock(role, blocks[i])]
             sb == <<said>>
             sc == [i \in DOMAIN more |-> SaidInBlock(role, more[i])]
  <1>1. /\ n \in Nat /\ DOMAIN blocks = 1..n /\ DOMAIN more = 1..(n + 1)
        /\ more[n + 1] = b /\ \A i \in 1..n : more[i] = blocks[i]
        OBVIOUS
  <1> HIDE DEF more, n
  <1>2. /\ DOMAIN sa = 1..n /\ sa = [i \in 1..n |-> sa[i]]
        /\ \A i \in 1..n : sa[i] = SaidInBlock(role, blocks[i])
        BY <1>1
  <1>3. /\ DOMAIN sc = 1..(n + 1) /\ sc = [i \in 1..(n + 1) |-> sc[i]]
        /\ \A i \in 1..(n + 1) : sc[i] = SaidInBlock(role, more[i])
        BY <1>1
  <1> HIDE DEF sa, sc
  <1>4. IsSeq(sa) /\ Len(sa) = n /\ IsSeq(sc) /\ Len(sc) = n + 1
    <2>1. n + 1 \in Nat
          BY <1>1
    <2> QED  BY <1>1, <1>2, <1>3, <2>1, FunctionIsSeq
  <1>5. AreSeqs(sa)
    <2>1. \A i \in 1..n : IsSeq(sa[i])
          BY <1>2, SaidOfBlock
    <2> QED  BY <1>2, <1>4, <2>1 DEF AreSeqs
  <1>6. IsSeq(said)
        BY SaidOfBlock
  <1>7. sc[n + 1] = said /\ \A i \in 1..n : sc[i] = sa[i]
        BY <1>1, <1>2, <1>3
  <1> HIDE DEF said
  <1>8. AreSeqs(sb) /\ FlattenSeq(sb) = said
        BY <1>6, FlatOfOne
  <1>9. Len(sb) = 1 /\ sb[1] = said
        OBVIOUS
  <1> HIDE DEF sb
  <1>10. FlattenSeq(sc) = FlattenSeq(sa) \o FlattenSeq(sb)
    <2>1. Len(sc) = Len(sa) + Len(sb)
          BY <1>4, <1>9
    <2>2. \A i \in 1..Len(sa) : sc[i] = sa[i]
          BY <1>4, <1>7
    <2>3. \A i \in 1..Len(sb) : sc[Len(sa) + i] = sb[i]
          BY <1>4, <1>7, <1>9
    <2> QED  BY <1>4, <1>5, <1>8, <2>1, <2>2, <2>3, FlatJoined
  <1>11. FlattenSeq(sc) = FlattenSeq(sa) \o said /\ IsSeq(FlattenSeq(sa))
        BY <1>5, <1>8, <1>10, FlatIsSeq
  <1> QED  BY <1>11 DEF SaidIn, sa, sc, more, said

LEMMA SaidNone == ASSUME NEW role PROVE SaidIn(role, <<>>) = <<>>
  <1>1. [i \in DOMAIN <<>> |-> SaidInBlock(role, <<>>[i])] = <<>>
        OBVIOUS
  <1> QED  BY <1>1, FlatOfNone DEF SaidIn

(* A part that is appended is seen last. *)
LEMMA SeenAppend ==
    ASSUME NEW role, NEW S, NEW parts \in Seq(S), NEW part \in S, AreSeen(role, parts),
           IsSeq(SeenOf(role, part))
    PROVE  /\ AreSeen(role, Append(parts, part))
           /\ SeenIn(role, Append(parts, part)) = SeenIn(role, parts) \o SeenOf(role, part)
  <1> DEFINE one == <<part>>
  <1>1. Append(parts, part) = parts \o one
        OBVIOUS
  <1>2. AreSeen(role, one) /\ SeenIn(role, one) = SeenOf(role, part)
        BY SeenOne
  <1> HIDE DEF one
  <1>3. /\ AreSeen(role, parts \o one)
        /\ SeenIn(role, parts \o one) = SeenIn(role, parts) \o SeenIn(role, one)
        BY <1>2, SeenConcat
  <1> QED  BY <1>1, <1>2, <1>3

(* The calls that are pending are told when they are flushed. *)
ToldBy(role, c) == SeenIn(role, c.parts) \o Told(role, c.pending)
IsTelling(role, c) == AreSeen(role, c.parts) /\ AreCalls(c.pending)

LEMMA FlushTells ==
    ASSUME NEW role, NEW B, NEW c \in Flattened(B), IsTelling(role, c)
    PROVE  LET f == FlushPending(c)
           IN  /\ f \in Flattened(B) /\ f.pending = <<>> /\ AreSeen(role, f.parts)
               /\ SeenIn(role, f.parts) = ToldBy(role, c)
  <1> DEFINE calls == CallsPart(c.pending)
             f == FlushPending(c)
             P == PartsOf(B)
             C == CallsOf(B)
  <1>1. f \in Flattened(B)
        BY FlushKeeps
  <1>2. c.parts \in Seq(P) /\ c.pending \in Seq(C)
        BY DEF Flattened
  <1>3. AreSeen(role, c.parts) /\ AreCalls(c.pending)
        BY DEF IsTelling
  <1>4. CASE c.pending = <<>>
    <2>1. f = c
          BY <1>4 DEF FlushPending
    <2>2. Told(role, <<>>) = <<>>
          BY DEF Told
    <2>3. IsSeq(SeenIn(role, c.parts))
          BY <1>3, SeenConcat, SeenNone
    <2>4. ToldBy(role, c) = SeenIn(role, c.parts)
          BY <1>4, <2>2, <2>3, ConcatNothing DEF ToldBy
    <2> QED  BY <1>1, <1>3, <1>4, <2>1, <2>4
  <1>5. CASE c.pending # <<>>
    <2>1. f.parts = Append(c.parts, calls) /\ f.pending = <<>>
          BY <1>5 DEF FlushPending
    <2>2. calls \in P
          BY <1>2 DEF PartsOf
    <2>3. SeenOf(role, calls) = Told(role, c.pending)
          BY <1>3, SeenOfCalls
    <2>4. IsSeq(SeenOf(role, calls))
          BY <1>3, <2>3, ToldIsSeq DEF AreCalls
    <2> HIDE DEF calls, f, P
    <2>5. /\ AreSeen(role, f.parts)
          /\ SeenIn(role, f.parts) = SeenIn(role, c.parts) \o SeenOf(role, calls)
          BY <1>2, <1>3, <2>1, <2>2, <2>4, SeenAppend
    <2>6. SeenIn(role, f.parts) = ToldBy(role, c)
          BY <2>3, <2>5 DEF ToldBy
    <2> QED  BY <1>1, <2>1, <2>5, <2>6 DEF f
  <1> QED  BY <1>4, <1>5

LEMMA TellNothing ==
    ASSUME NEW role, NEW c, c.pending = <<>>, AreSeen(role, c.parts)
    PROVE  IsTelling(role, c) /\ ToldBy(role, c) = SeenIn(role, c.parts)
  <1>1. IsSeq(SeenIn(role, c.parts))
        BY SeenConcat, SeenNone
  <1>2. Told(role, <<>>) = <<>>
        BY DEF Told
  <1>3. AreCalls(<<>>)
        BY NoneIsSeq DEF AreCalls
  <1> QED  BY <1>1, <1>2, <1>3, ConcatNothing DEF IsTelling, ToldBy

LEMMA TellPart ==
    ASSUME NEW role, NEW B, NEW c \in Flattened(B), c.pending = <<>>, AreSeen(role, c.parts),
           NEW part \in PartsOf(B), part.type \in {"text", "result"}
    PROVE  LET d == [c EXCEPT !.parts = Append(@, part)]
           IN  /\ IsTelling(role, d)
               /\ ToldBy(role, d) = SeenIn(role, c.parts) \o <<<<role, part>>>>
  <1> DEFINE d == [c EXCEPT !.parts = Append(@, part)]
             P == PartsOf(B)
             one == <<<<role, part>>>>
  <1>1. c.parts \in Seq(P) /\ part \in P
        BY DEF Flattened
  <1>2. d.parts = Append(c.parts, part) /\ d.pending = <<>>
        BY DEF Flattened
  <1>3. SeenOf(role, part) = one
        BY SeenOfPart
  <1>4. IsSeq(one)
        BY OneIsSeq
  <1> HIDE DEF d, P, one
  <1>5. /\ AreSeen(role, d.parts)
        /\ SeenIn(role, d.parts) = SeenIn(role, c.parts) \o one
        BY <1>1, <1>2, <1>3, <1>4, SeenAppend
  <1>6. IsTelling(role, d) /\ ToldBy(role, d) = SeenIn(role, d.parts)
        BY <1>2, <1>5, TellNothing
  <1> QED  BY <1>5, <1>6 DEF d, one

LEMMA TellCall ==
    ASSUME NEW role, NEW B, NEW c \in Flattened(B), c.pending = <<>>, AreSeen(role, c.parts),
           NEW call, IsCall(call)
    PROVE  LET d == [c EXCEPT !.pending = Append(@, call)]
           IN  /\ IsTelling(role, d)
               /\ ToldBy(role, d) = SeenIn(role, c.parts) \o <<<<role, call>>>>
  <1> DEFINE d == [c EXCEPT !.pending = Append(@, call)]
             one == <<call>>
             t == <<<<role, call>>>>
  <1>1. d.parts = c.parts /\ d.pending = one
        BY DEF Flattened
  <1>2. IsSeq(one) /\ DOMAIN one = {1} /\ one[1] = call
        BY OneIsSeq
  <1>3. Told(role, one) = t
        BY DEF Told
  <1> HIDE DEF d, one, t
  <1>4. AreCalls(one)
        BY <1>2 DEF AreCalls
  <1>5. IsTelling(role, d) /\ ToldBy(role, d) = SeenIn(role, c.parts) \o t
        BY <1>1, <1>3, <1>4 DEF IsTelling, ToldBy
  <1> QED  BY <1>5 DEF d, t

LEMMA BlockTells ==
    ASSUME NEW role, NEW B, NEW c \in Flattened(B), IsTelling(role, c),
           NEW b \in B, IsBlock(b)
    PROVE  /\ IsTelling(role, FlattenBlock(c, b))
           /\ ToldBy(role, FlattenBlock(c, b)) = ToldBy(role, c) \o SaidInBlock(role, b)
  <1> DEFINE f == FlushPending(c)
             said == SaidInBlock(role, b)
             text == TextPart(b.size)
             result == ResultPart(b.id, b.size)
             call == Call(b.name, b.argument)
             before == ToldBy(role, c)
             withText == [f EXCEPT !.parts = Append(@, text)]
             withResult == [f EXCEPT !.parts = Append(@, result)]
             withCall == [f EXCEPT !.pending = Append(@, call)]
             d == FlattenBlock(c, b)
  <1>1. /\ f \in Flattened(B) /\ f.pending = <<>> /\ AreSeen(role, f.parts)
        /\ SeenIn(role, f.parts) = before
        BY FlushTells
  <1>2. IsSeq(before)
    <2> HIDE DEF f, before
    <2> QED  BY <1>1, SeenConcat
  <1>3. text \in PartsOf(B) /\ text.type = "text" /\ result \in PartsOf(B) /\ result.type = "result"
        BY DEF PartsOf, TextPart, ResultPart
  <1>4. IsTelling(role, f) /\ ToldBy(role, f) = before
        BY <1>1, TellNothing
  <1>5. IsTelling(role, withText) /\ ToldBy(role, withText) = before \o <<<<role, text>>>>
        BY <1>1, <1>3, TellPart
  <1>6. IsTelling(role, withResult) /\ ToldBy(role, withResult) = before \o <<<<role, result>>>>
        BY <1>1, <1>3, TellPart
  <1>7. before \o <<>> = before
        BY <1>2, ConcatNothing
  <1> HIDE DEF withText, withResult, f, text, result, before
  <1>8. CASE b.type = "text"
    <2>1. b.size \in Nat
          BY <1>8 DEF IsBlock
    <2>2. CASE b.size = 0
      <3>1. d = f
            BY <1>8, <2>2, Zenon DEF FlattenBlock, f
      <3>2. said = <<>>
        <4>1. ~(b.size > 0) /\ b.type # "tool_use" /\ b.type # "tool_result"
              BY <1>8, <2>2
        <4> QED  BY <4>1, SaidOfBlock
      <3> QED  BY <1>4, <1>7, <3>1, <3>2 DEF before
    <2>3. CASE b.size # 0
      <3>1. d = withText
            BY <1>8, <2>3, Zenon DEF FlattenBlock, f, text, withText
      <3>2. b.size > 0
            BY <2>1, <2>3
      <3>3. said = <<<<role, text>>>>
            BY <1>8, <3>2, SaidOfBlock DEF text
      <3> HIDE DEF d, said
      <3>4. IsTelling(role, d) /\ ToldBy(role, d) = before \o said
            BY <1>5, <3>1, <3>3
      <3> QED  BY <3>4 DEF d, said, before
    <2> QED  BY <2>2, <2>3
  <1>9. CASE b.type = "tool_use" /\ b.name # ""
    <2>1. d = withCall
          BY <1>9 DEF FlattenBlock, f
    <2>2. said = <<<<role, call>>>>
          BY <1>9, SaidOfBlock
    <2>3. IsCall(call)
          BY <1>9 DEF IsCall, IsBlock, Call
    <2> HIDE DEF d, said, call
    <2>4. IsTelling(role, withCall) /\ ToldBy(role, withCall) = before \o <<<<role, call>>>>
          BY <1>1, <2>3, TellCall
    <2>5. IsTelling(role, d) /\ ToldBy(role, d) = before \o said
          BY <2>1, <2>2, <2>4
    <2> QED  BY <2>5 DEF d, said, before
  <1>10. CASE b.type = "tool_result"
    <2>1. d = withResult
          BY <1>10 DEF FlattenBlock, f, result, withResult
    <2>2. said = <<<<role, result>>>>
          BY <1>10, SaidOfBlock DEF result
    <2> HIDE DEF d, said
    <2>3. IsTelling(role, d) /\ ToldBy(role, d) = before \o said
          BY <1>6, <2>1, <2>2
    <2> QED  BY <2>3 DEF d, said, before
  <1>11. CASE ~(b.type = "text") /\ ~(b.type = "tool_use" /\ b.name # "") /\ ~(b.type = "tool_result")
    <2>1. d = c
          BY <1>11 DEF FlattenBlock
    <2>2. said = <<>>
          BY <1>11, SaidOfBlock
    <2> QED  BY <1>7, <2>1, <2>2 DEF before
  <1> QED  BY <1>8, <1>9, <1>10, <1>11

(* A turn is told whole. *)
LEMMA TurnTold ==
    ASSUME NEW role, NEW B, \A b \in B : IsBlock(b), NEW blocks \in Seq(B)
    PROVE  SeenIn(role, FlattenContent(blocks)) = SaidIn(role, blocks)
  <1> DEFINE empty == [parts |-> <<>>, pending |-> <<>>]
             folded == Flattening!Fold(empty, blocks)
             K == {k \in Seq(B) \X Flattened(B) :
                      IsTelling(role, k[2]) /\ ToldBy(role, k[2]) = SaidIn(role, k[1])}
  <1>1. empty \in Flattened(B)
    <2> DEFINE P == PartsOf(B)
               C == CallsOf(B)
    <2> HIDE DEF P, C
    <2>1. empty \in [parts : Seq(P), pending : Seq(C)]
          OBVIOUS
    <2> QED  BY <2>1 DEF P, C, Flattened
  <1>2. <<<<>>, empty>> \in K
    <2>1. empty.pending = <<>> /\ empty.parts = <<>>
          OBVIOUS
    <2>2. <<>> \in Seq(B)
          OBVIOUS
    <2> HIDE DEF empty
    <2>3. IsTelling(role, empty) /\ ToldBy(role, empty) = SaidIn(role, <<>>)
          BY <2>1, TellNothing, SeenNone, SaidNone
    <2> QED  BY <1>1, <2>2, <2>3
  <1>3. Flattening!Tracks(K, B)
    <2>1. ASSUME NEW k \in K, NEW y \in B
          PROVE  <<k[1] \o <<y>>, FlattenBlock(k[2], y)>> \in K
      <3> DEFINE said == k[1]
                 c == k[2]
                 more == said \o <<y>>
                 d == FlattenBlock(c, y)
      <3>1. /\ said \in Seq(B) /\ c \in Flattened(B)
            /\ IsTelling(role, c) /\ ToldBy(role, c) = SaidIn(role, said)
            OBVIOUS
      <3> HIDE DEF said, c
      <3>2. d \in Flattened(B)
            BY <3>1, FlattenBlockKeeps
      <3>3. IsTelling(role, d) /\ ToldBy(role, d) = ToldBy(role, c) \o SaidInBlock(role, y)
            BY <3>1, BlockTells
      <3>4. more = Append(said, y) /\ more \in Seq(B)
            BY <3>1
      <3>5. SaidIn(role, Append(said, y)) = SaidIn(role, said) \o SaidInBlock(role, y)
            BY <3>1, SaidAppend
      <3> HIDE DEF more, d
      <3>6. ToldBy(role, d) = SaidIn(role, more)
            BY <3>1, <3>3, <3>4, <3>5
      <3>7. <<more, d>> \in K
            BY <3>2, <3>3, <3>4, <3>6
      <3> QED  BY <3>7 DEF more, d, said, c
    <2> HIDE DEF K
    <2> QED  BY <2>1 DEF Flattening!Tracks
  <1>4. <<blocks, folded>> \in K
    <2> HIDE DEF K, empty
    <2> QED  BY <1>2, <1>3, Flattening!FoldTracks
  <1>5. folded = FoldLeft(FlattenBlock, empty, blocks)
        BY Zenon DEF Flattening!Fold, FoldLeft, Flattening!MapThenFoldSet,
                     MapThenFoldSet, Flattening!Highest, Max
  <1> HIDE DEF folded
  <1>6. /\ folded \in Flattened(B) /\ IsTelling(role, folded)
        /\ ToldBy(role, folded) = SaidIn(role, blocks)
        BY <1>4
  <1>7. SeenIn(role, FlushPending(folded).parts) = ToldBy(role, folded)
        BY <1>6, FlushTells
  <1> QED  BY <1>5, <1>6, <1>7 DEF FlattenContent
-----------------------------------------------------------------------------
(* A Messages request: its system prompt and its turns.                    *)

TextBlocks(texts) == [i \in DOMAIN texts |-> TextBlock(texts[i])]

LEMMA TextBlocksAppend ==
    ASSUME NEW texts \in Seq(Nat), NEW n \in Nat, NEW B, B = {TextBlock(k) : k \in Nat}
    PROVE  /\ TextBlocks(texts) \in Seq(B) /\ TextBlock(n) \in B
           /\ TextBlocks(texts \o <<n>>) = Append(TextBlocks(texts), TextBlock(n))
  <1> DEFINE more == texts \o <<n>>
             m == Len(texts)
             a == TextBlocks(texts)
             c == TextBlocks(more)
             last == TextBlock(n)
  <1>1. /\ m \in Nat /\ DOMAIN texts = 1..m /\ DOMAIN more = 1..(m + 1)
        /\ more[m + 1] = n /\ \A i \in 1..m : more[i] = texts[i] /\ texts[i] \in Nat
        OBVIOUS
  <1> HIDE DEF more, m
  <1>2. /\ DOMAIN a = 1..m /\ a = [i \in 1..m |-> a[i]]
        /\ \A i \in 1..m : a[i] = TextBlock(texts[i]) /\ a[i] \in B
        BY <1>1 DEF TextBlocks
  <1>3. /\ DOMAIN c = 1..(m + 1) /\ c = [i \in 1..(m + 1) |-> c[i]]
        /\ c[m + 1] = last /\ \A i \in 1..m : c[i] = TextBlock(texts[i])
        BY <1>1 DEF TextBlocks
  <1>4. last \in B
        OBVIOUS
  <1> HIDE DEF a, c, last
  <1>5. a \in Seq(B)
        BY <1>1, <1>2
  <1>6. c = Append(a, last)
    <2> DEFINE d == Append(a, last)
    <2>1. /\ d = [i \in 1..(m + 1) |-> d[i]] /\ d[m + 1] = last
          /\ \A i \in 1..m : d[i] = a[i]
          BY <1>1, <1>2, <1>4, <1>5
    <2> HIDE DEF d
    <2>2. ASSUME NEW i \in 1..(m + 1) PROVE c[i] = d[i]
      <3>1. CASE i = m + 1
            BY <1>3, <2>1, <3>1
      <3>2. CASE i # m + 1
        <4>1. i \in 1..m
              BY <1>1, <3>2
        <4> QED  BY <1>2, <1>3, <2>1, <4>1
      <3> QED  BY <3>1, <3>2
    <2>3. c = d
          BY <1>3, <2>1, <2>2
    <2> QED  BY <2>3 DEF d
  <1> QED  BY <1>4, <1>5, <1>6 DEF a, c, last, more

(* The client's system prompt is told whole. *)
LEMMA SystemTold ==
    ASSUME NEW texts \in Seq(Nat)
    PROVE  /\ AreSeen("system", FlattenSystem(texts))
           /\ SeenIn("system", FlattenSystem(texts)) = SaidIn("system", TextBlocks(texts))
  <1> DEFINE role == "system"
             P == SystemParts
             B == {TextBlock(k) : k \in Nat}
             empty == <<>>
             folded == SystemTexts!Fold(empty, texts)
             K == {k \in Seq(Nat) \X Seq(P) :
                      AreSeen(role, k[2]) /\ SeenIn(role, k[2]) = SaidIn(role, TextBlocks(k[1]))}
  <1>1. <<<<>>, empty>> \in K
    <2>1. <<>> \in Seq(Nat) /\ empty \in Seq(P)
          OBVIOUS
    <2>2. TextBlocks(<<>>) = <<>>
          BY DEF TextBlocks
    <2>3. AreSeen(role, empty) /\ SeenIn(role, empty) = SaidIn(role, TextBlocks(<<>>))
          BY <2>2, SeenNone, SaidNone
    <2> QED  BY <2>1, <2>3
  <1>2. SystemTexts!Tracks(K, Nat)
    <2>1. ASSUME NEW k \in K, NEW n \in Nat
          PROVE  <<k[1] \o <<n>>, AddText(k[2], n)>> \in K
      <3> DEFINE said == k[1]
                 parts == k[2]
                 more == said \o <<n>>
                 part == TextPart(n)
                 block == TextBlock(n)
                 all == AddText(parts, n)
                 blocks == TextBlocks(said)
      <3>1. /\ said \in Seq(Nat) /\ parts \in Seq(P)
            /\ AreSeen(role, parts) /\ SeenIn(role, parts) = SaidIn(role, blocks)
            OBVIOUS
      <3>2. part \in P /\ part.type = "text"
            BY DEF SystemParts, TextPart
      <3> HIDE DEF said, parts
      <3>3. more \in Seq(Nat)
            BY <3>1
      <3>4. blocks \in Seq(B) /\ block \in B /\ TextBlocks(more) = Append(blocks, block)
            BY <3>1, TextBlocksAppend
      <3>5. block.type = "text" /\ block.size = n
            BY DEF TextBlock
      <3> HIDE DEF block, blocks, B, P, role, more
      <3>6. /\ SaidIn(role, TextBlocks(more)) = SeenIn(role, parts) \o SaidInBlock(role, block)
            /\ IsSeq(SeenIn(role, parts))
            BY <3>1, <3>4, SaidAppend
      <3>7. CASE n = 0
        <4>1. all = parts
              BY <3>7, Zenon DEF AddText
        <4>2. SaidInBlock(role, block) = <<>>
          <5>1. ~(block.size > 0) /\ block.type # "tool_use" /\ block.type # "tool_result"
                BY <3>5, <3>7
          <5> QED  BY <5>1, SaidOfBlock
        <4>3. SeenIn(role, parts) = SaidIn(role, TextBlocks(more))
              BY <3>6, <4>2, ConcatNothing
        <4> HIDE DEF all
        <4>4. <<more, all>> \in K
              BY <3>1, <3>3, <4>1, <4>3
        <4> QED  BY <4>4 DEF more, all, said, parts
      <3>8. CASE n # 0
        <4>1. all = Append(parts, part)
              BY <3>8, Zenon DEF AddText
        <4>2. SaidInBlock(role, block) = <<<<role, part>>>>
          <5>1. block.type = "text" /\ block.size > 0 /\ block.size = n
                BY <3>5, <3>8
          <5> QED  BY <5>1, SaidOfBlock
        <4>3. SeenOf(role, part) = <<<<role, part>>>>
              BY <3>2, SeenOfPart
        <4>4. IsSeq(SeenOf(role, part))
              BY <4>3, OneIsSeq
        <4> HIDE DEF part, all
        <4>5. /\ AreSeen(role, all)
              /\ SeenIn(role, all) = SeenIn(role, parts) \o SeenOf(role, part)
              BY <3>1, <3>2, <4>1, <4>4, SeenAppend
        <4>6. SeenIn(role, all) = SaidIn(role, TextBlocks(more))
              BY <3>6, <4>2, <4>3, <4>5
        <4>7. all \in Seq(P)
              BY <3>1, <3>2, <4>1
        <4>8. <<more, all>> \in K
              BY <3>3, <4>5, <4>6, <4>7
        <4> QED  BY <4>8 DEF more, all, said, parts
      <3> QED  BY <3>7, <3>8
    <2> HIDE DEF K
    <2> QED  BY <2>1 DEF SystemTexts!Tracks
  <1>3. <<texts, folded>> \in K
    <2> HIDE DEF K, empty
    <2> QED  BY <1>1, <1>2, SystemTexts!FoldTracks
  <1>4. folded = FlattenSystem(texts)
        BY Zenon DEF SystemTexts!Fold, FoldLeft, SystemTexts!MapThenFoldSet,
                     MapThenFoldSet, SystemTexts!Highest, Max, FlattenSystem
  <1> HIDE DEF folded
  <1> QED  BY <1>3, <1>4

(* The messages, one after the other. *)
SeenAll(messages) == FlattenSeq([i \in DOMAIN messages |-> SeenInMessage(messages[i], FALSE)])

LEMMA SeenMessage ==
    ASSUME NEW m
    PROVE  SeenInMessage(m, FALSE) = SeenIn(m.role, m.parts)
  BY DEF SeenInMessage, SeenIn, SeenOf

LEMMA SeenFirst ==
    ASSUME NEW first, NEW turns, IsSeq(turns), IsSeq(SeenInMessage(first, FALSE)),
           \A i \in DOMAIN turns : IsSeq(SeenInMessage(turns[i], FALSE))
    PROVE  /\ SeenAll(<<first>> \o turns) = SeenInMessage(first, FALSE) \o SeenAll(turns)
           /\ IsSeq(SeenAll(turns))
  <1> DEFINE one == <<first>>
             all == one \o turns
             n == Len(turns)
             seen == SeenInMessage(first, FALSE)
             sa == <<seen>>
             sb == [i \in DOMAIN turns |-> SeenInMessage(turns[i], FALSE)]
             sc == [i \in DOMAIN all |-> SeenInMessage(all[i], FALSE)]
  <1>1. n \in Nat /\ DOMAIN turns = 1..n
        BY SeqHas
  <1>2. /\ IsSeq(all) /\ Len(all) = 1 + n /\ all[1] = first /\ n \in Nat /\ DOMAIN turns = 1..n
        /\ \A i \in 1..n : all[1 + i] = turns[i]
        BY <1>1, FirstIs
  <1> HIDE DEF all
  <1>3. DOMAIN all = 1..(1 + n)
        BY <1>2, SeqHas
  <1> HIDE DEF n
  <1>4. /\ DOMAIN sb = 1..n /\ sb = [i \in 1..n |-> sb[i]]
        /\ \A i \in 1..n : sb[i] = SeenInMessage(turns[i], FALSE) /\ IsSeq(sb[i])
        BY <1>2
  <1>5. /\ DOMAIN sc = 1..(1 + n) /\ sc = [i \in 1..(1 + n) |-> sc[i]]
        /\ \A i \in 1..(1 + n) : sc[i] = SeenInMessage(all[i], FALSE)
        BY <1>3
  <1> HIDE DEF sb, sc, seen
  <1>6. AreSeqs(sa) /\ FlattenSeq(sa) = seen
        BY FlatOfOne DEF seen
  <1>7. Len(sa) = 1 /\ sa[1] = seen
        OBVIOUS
  <1> HIDE DEF sa
  <1>8. IsSeq(sb) /\ Len(sb) = n
        BY <1>2, <1>4, FunctionIsSeq
  <1>9. IsSeq(sc) /\ Len(sc) = 1 + n
    <2>1. 1 + n \in Nat
          BY <1>2
    <2> QED  BY <1>5, <2>1, FunctionIsSeq
  <1>10. AreSeqs(sb)
        BY <1>4, <1>8 DEF AreSeqs
  <1>11. FlattenSeq(sc) = FlattenSeq(sa) \o FlattenSeq(sb)
    <2>1. Len(sc) = Len(sa) + Len(sb)
          BY <1>7, <1>8, <1>9
    <2>2. \A i \in 1..Len(sa) : sc[i] = sa[i]
      <3>1. sc[1] = seen
        <4>1. 1 \in 1..(1 + n)
              BY <1>2
        <4>2. sc[1] = SeenInMessage(all[1], FALSE)
              BY <1>5, <4>1
        <4> QED  BY <1>2, <4>2 DEF seen
      <3> QED  BY <1>7, <3>1
    <2>3. \A i \in 1..Len(sb) : sc[Len(sa) + i] = sb[i]
      <3>1. ASSUME NEW i \in 1..n PROVE sc[1 + i] = sb[i]
        <4>1. 1 + i \in 1..(1 + n)
              BY <1>2
        <4> QED  BY <1>2, <1>4, <1>5, <4>1
      <3> QED  BY <1>7, <1>8, <3>1
    <2> QED  BY <1>6, <1>9, <1>10, <2>1, <2>2, <2>3, FlatJoined
  <1>12. FlattenSeq(sc) = seen \o FlattenSeq(sb) /\ IsSeq(FlattenSeq(sb))
        BY <1>6, <1>10, <1>11, FlatIsSeq
  <1> QED  BY <1>12 DEF SeenAll, sb, sc, all, one, seen

LEMMA SaidIsSeq ==
    ASSUME NEW role, NEW blocks, IsSeq(blocks)
    PROVE  IsSeq(SaidIn(role, blocks))
  <1> DEFINE n == Len(blocks)
             s == [i \in DOMAIN blocks |-> SaidInBlock(role, blocks[i])]
  <1>1. n \in Nat /\ DOMAIN blocks = 1..n
        BY SeqHas
  <1>2. DOMAIN s = 1..n /\ s = [i \in 1..n |-> s[i]] /\ \A i \in 1..n : IsSeq(s[i])
        BY <1>1, SaidOfBlock
  <1> HIDE DEF s, n
  <1>3. IsSeq(s)
        BY <1>1, <1>2, FunctionIsSeq
  <1>4. AreSeqs(s)
        BY <1>2, <1>3 DEF AreSeqs
  <1>5. IsSeq(FlattenSeq(s))
        BY <1>4, FlatIsSeq
  <1> QED  BY <1>5 DEF SaidIn, s

(* The prompt of tools is nobody's words. *)
LEMMA PromptUnseen ==
    ASSUME NEW role, NEW tools, NEW choice
    PROVE  /\ AreSeen(role, ToolsPrompt(tools, choice))
           /\ SeenIn(role, ToolsPrompt(tools, choice)) = <<>>
  <1> DEFINE part == ToolsPart(Named(tools), Hint(choice))
  <1>1. CASE tools = <<>>
    <2>1. ToolsPrompt(tools, choice) = <<>>
          BY <1>1 DEF ToolsPrompt
    <2> QED  BY <2>1, SeenNone
  <1>2. CASE tools # <<>>
    <2>1. ToolsPrompt(tools, choice) = <<part>>
          BY <1>2 DEF ToolsPrompt
    <2>2. part.type = "tools"
          BY DEF ToolsPart
    <2> HIDE DEF part
    <2>3. SeenOf(role, part) = <<>>
          BY <2>2, SeenOfPart
    <2>4. IsSeq(SeenOf(role, part))
          BY <2>3, NoneIsSeq
    <2> QED  BY <2>1, <2>3, <2>4, SeenOne
  <1> QED  BY <1>1, <1>2

(* A Messages request is told whole. *)
LEMMA MessagesTold ==
    ASSUME NEW requests \in Families, NEW r \in requests, r.route = "messages"
    PROVE  SeenAll(ConvertedMessages(r)) = Said(r)
  <1> DEFINE own == FlattenSystem(r.system)
             prompt == ToolsPrompt(r.tools, r.choice)
             system == own \o prompt
             first == Message("system", system)
             n == Len(r.messages)
             turns == [i \in DOMAIN r.messages |->
                          Message(r.messages[i].role, FlattenContent(r.messages[i].blocks))]
             saidFirst == SaidIn("system", TextBlocks(r.system))
             saidTurns == FlattenSeq([i \in DOMAIN r.messages |-> SaidInMessage(r.messages[i])])
  <1>1. /\ r.system \in Seq(Nat) /\ r.messages \in Seq(Range(r.messages))
        /\ \A m \in Range(r.messages) : m.blocks \in Seq({b \in Range(m.blocks) : IsBlock(b)})
        BY RequestsAssumption
  <1>2. n \in Nat /\ DOMAIN r.messages = 1..n
        BY <1>1
  <1>3. ASSUME NEW i \in DOMAIN turns
        PROVE  /\ SeenInMessage(turns[i], FALSE) = SaidInMessage(r.messages[i])
               /\ IsSeq(SeenInMessage(turns[i], FALSE))
    <2> DEFINE m == r.messages[i]
               B == {b \in Range(m.blocks) : IsBlock(b)}
               blocks == m.blocks
               flat == FlattenContent(blocks)
    <2>1. m \in Range(r.messages)
          BY DEF Range
    <2>2. blocks \in Seq(B)
          BY <1>1, <2>1
    <2>3. turns[i].role = m.role /\ turns[i].parts = flat
          BY DEF Message
    <2>4. SaidInMessage(m) = SaidIn(m.role, blocks)
          BY DEF SaidInMessage, SaidIn
    <2>5. \A b \in B : IsBlock(b)
          OBVIOUS
    <2> HIDE DEF m, B, blocks, turns
    <2>6. SeenIn(m.role, flat) = SaidIn(m.role, blocks)
          BY <2>2, <2>5, TurnTold
    <2>7. IsSeq(SaidIn(m.role, blocks))
          BY <2>2, SeqIs, SaidIsSeq
    <2>8. SeenInMessage(turns[i], FALSE) = SaidInMessage(m)
          BY <2>3, <2>4, <2>6, SeenMessage
    <2> QED  BY <2>4, <2>7, <2>8 DEF m
  <1>4. SeenAll(turns) = saidTurns
    <2>1. DOMAIN turns = DOMAIN r.messages
          OBVIOUS
    <2> HIDE DEF turns
    <2>2. [i \in DOMAIN turns |-> SeenInMessage(turns[i], FALSE)]
             = [i \in DOMAIN r.messages |-> SaidInMessage(r.messages[i])]
          BY <1>3, <2>1
    <2> QED  BY <2>2 DEF SeenAll
  <1>5. IsSeq(turns)
    <2>1. DOMAIN turns = 1..n /\ turns = [i \in 1..n |-> turns[i]]
          BY <1>2
    <2> HIDE DEF turns, n
    <2> QED  BY <1>2, <2>1, FunctionIsSeq
  <1>6. Said(r) = saidFirst \o saidTurns
    <2>1. [i \in DOMAIN r.system |-> SaidInBlock("system", TextBlock(r.system[i]))]
             = [i \in DOMAIN TextBlocks(r.system) |->
                   SaidInBlock("system", TextBlocks(r.system)[i])]
          BY DEF TextBlocks
    <2>2. r.route # "chat"
          OBVIOUS
    <2> QED  BY <2>1, <2>2, Zenon DEF Said, SaidIn
  <1>7. AreSeen("system", own) /\ SeenIn("system", own) = saidFirst
        BY <1>1, SystemTold
  <1>8. AreSeen("system", prompt) /\ SeenIn("system", prompt) = <<>>
        BY PromptUnseen
  <1>9. ConvertedMessages(r) = IF system = <<>> THEN turns ELSE <<first>> \o turns
        BY Zenon DEF ConvertedMessages
  <1>10. first.role = "system" /\ first.parts = system
        BY DEF Message
  <1> HIDE DEF own, prompt, first, turns, saidFirst, saidTurns
  <1>11. IsSeq(SeenIn("system", own))
        BY <1>7, SeenConcat
  <1>12. AreSeen("system", system) /\ SeenIn("system", system) = saidFirst
    <2>1. AreSeen("system", own \o prompt)
          /\ SeenIn("system", own \o prompt) = SeenIn("system", own) \o SeenIn("system", prompt)
          BY <1>7, <1>8, SeenConcat
    <2> QED  BY <1>7, <1>8, <1>11, <2>1, ConcatNothing
  <1> HIDE DEF system
  <1>13. SeenInMessage(first, FALSE) = saidFirst /\ IsSeq(saidFirst)
        BY <1>7, <1>10, <1>11, <1>12, SeenMessage
  <1>14. /\ SeenAll(<<first>> \o turns) = SeenInMessage(first, FALSE) \o SeenAll(turns)
         /\ IsSeq(SeenAll(turns))
        BY <1>3, <1>5, <1>13, SeenFirst
  <1>15. CASE system = <<>>
    <2>1. saidFirst = <<>>
          BY <1>12, <1>15, SeenNone
    <2>2. saidFirst \o saidTurns = saidTurns
          BY <1>4, <1>14, <2>1, ConcatNothing
    <2> QED  BY <1>4, <1>6, <1>9, <1>15, <2>2
  <1>16. CASE system # <<>>
        BY <1>4, <1>6, <1>9, <1>13, <1>14, <1>16
  <1> QED  BY <1>15, <1>16
-----------------------------------------------------------------------------
(* A chat request: its messages, injected and normalised.                  *)

Texts(role, parts) == [i \in DOMAIN parts |-> <<role, TextPart(parts[i].size)>>]
AreTexts(parts) == IsSeq(parts) /\ \A i \in DOMAIN parts : IsText(parts[i])

LEMMA TextsTold ==
    ASSUME NEW role, NEW parts, AreTexts(parts)
    PROVE  /\ AreSeen(role, parts) /\ SeenIn(role, parts) = Texts(role, parts)
           /\ IsSeq(Texts(role, parts))
  <1> DEFINE n == Len(parts)
             t == Texts(role, parts)
  <1>1. n \in Nat /\ DOMAIN parts = 1..n
        BY SeqHas DEF AreTexts
  <1>2. /\ DOMAIN t = 1..n /\ t = [i \in 1..n |-> t[i]]
        /\ \A i \in 1..n : t[i] = <<role, TextPart(parts[i].size)>>
        BY <1>1 DEF Texts
  <1>3. ASSUME NEW i \in 1..n PROVE SeenOf(role, parts[i]) = <<t[i]>> /\ IsSeq(<<t[i]>>)
    <2> DEFINE part == parts[i]
               text == TextPart(part.size)
    <2>1. /\ part = [type |-> part.type, size |-> part.size]
          /\ part.type \in {"text", "array"}
          BY <1>1 DEF AreTexts, IsText
    <2>2. SeenOf(role, part) = <<<<role, text>>>>
      <3>1. CASE part.type = "text"
        <4>1. part = text
              BY <2>1, <3>1 DEF TextPart
        <4> HIDE DEF part, text
        <4>2. SeenOf(role, part) = <<<<role, part>>>>
              BY <3>1, SeenOfPart
        <4> QED  BY <4>1, <4>2
      <3>2. CASE part.type = "array"
        <4> HIDE DEF part
        <4> QED  BY <3>2, SeenOfPart
      <3> QED  BY <2>1, <3>1, <3>2
    <2> QED  BY <1>2, <2>2, OneIsSeq
  <1> HIDE DEF t, n
  <1>4. IsSeq(t)
        BY <1>1, <1>2, FunctionIsSeq
  <1>5. AreSeen(role, parts)
        BY <1>1, <1>3 DEF AreSeen, AreTexts
  <1>6. [k \in DOMAIN parts |-> SeenOf(role, parts[k])] = [i \in DOMAIN t |-> <<t[i]>>]
        BY <1>1, <1>2, <1>3
  <1>7. SeenIn(role, parts) = t
        BY <1>4, <1>6, FlatSingles DEF SeenIn
  <1> QED  BY <1>4, <1>5, <1>7 DEF t

LEMMA JoinedTold ==
    ASSUME NEW role, NEW parts, AreTexts(parts)
    PROVE  /\ AreSeen(role, Joined(parts)) /\ SeenIn(role, Joined(parts)) = Texts(role, parts)
  <1> DEFINE n == Len(parts)
             j == Joined(parts)
  <1>1. n \in Nat /\ DOMAIN parts = 1..n
        BY SeqHas DEF AreTexts
  <1>2. /\ DOMAIN j = 1..n /\ j = [i \in 1..n |-> j[i]]
        /\ \A i \in 1..n : j[i] = TextPart(parts[i].size)
        BY <1>1 DEF Joined
  <1> HIDE DEF j, n
  <1>3. ASSUME NEW i \in 1..n PROVE IsText(j[i]) /\ j[i].size = parts[i].size
        BY <1>2 DEF IsText, TextPart
  <1>4. IsSeq(j)
        BY <1>1, <1>2, FunctionIsSeq
  <1>5. AreTexts(j)
        BY <1>2, <1>3, <1>4 DEF AreTexts
  <1>6. Texts(role, j) = Texts(role, parts)
        BY <1>1, <1>2, <1>3 DEF Texts
  <1>7. AreSeen(role, j) /\ SeenIn(role, j) = Texts(role, parts)
        BY <1>5, <1>6, TextsTold
  <1> QED  BY <1>7 DEF j

LEMMA NamedAreCalls ==
    ASSUME NEW calls, AreCalls(calls)
    PROVE  AreCalls(Named(calls)) /\ Named(<<>>) = <<>>
  <1> DEFINE n == Len(calls)
             C == {c \in Range(calls) : IsCall(c)}
             s == [i \in DOMAIN calls |-> IF calls[i].name # "" THEN <<calls[i]>> ELSE <<>>]
  <1>1. n \in Nat /\ DOMAIN calls = 1..n /\ \A i \in 1..n : calls[i] \in C
        BY SeqHas DEF AreCalls, Range
  <1>2. \A c \in C : IsCall(c)
        OBVIOUS
  <1> HIDE DEF C
  <1> HIDE DEF n
  <1>3. /\ DOMAIN s = 1..n /\ s = [i \in 1..n |-> s[i]]
        /\ \A i \in 1..n : s[i] = <<calls[i]>> \/ s[i] = <<>>
        BY <1>1
  <1>4. DOMAIN s = 1..n /\ s = [i \in 1..n |-> s[i]] /\ \A i \in 1..n : s[i] \in Seq(C)
    <2>1. ASSUME NEW i \in 1..n PROVE <<calls[i]>> \in Seq(C) /\ <<>> \in Seq(C)
      <3> DEFINE call == calls[i]
      <3>1. call \in C
            BY <1>1
      <3> HIDE DEF call
      <3>2. <<call>> \in Seq(C)
            BY <3>1
      <3> QED  BY <3>2 DEF call
    <2> HIDE DEF s
    <2> QED  BY <1>3, <2>1
  <1>5. Named(calls) = FlattenSeq(s)
        BY DEF Named
  <1> HIDE DEF s
  <1>6. s \in Seq(Seq(C))
    <2> DEFINE S == Seq(C)
    <2> HIDE DEF S
    <2>1. \A i \in 1..n : s[i] \in S
          BY <1>4 DEF S
    <2>2. s \in Seq(S)
          BY <1>1, <1>4, <2>1
    <2> QED  BY <2>2 DEF S
  <1>7. Named(calls) \in Seq(C)
        BY <1>5, <1>6, Lists!FlattenIs, Lists!JoinType, SameFlatten
  <1> DEFINE named == Named(calls)
  <1>8. AreCalls(named)
    <2> HIDE DEF named
    <2>1. named \in Seq(C)
          BY <1>7 DEF named
    <2>2. IsSeq(named)
          BY <2>1, SeqIs
    <2>3. \A i \in DOMAIN named : named[i] \in C
          BY <2>1
    <2> QED  BY <1>2, <2>2, <2>3 DEF AreCalls
  <1>9. Named(<<>>) = <<>>
    <2>1. [i \in DOMAIN <<>> |-> IF <<>>[i].name # "" THEN <<<<>>[i]>> ELSE <<>>] = <<>>
          OBVIOUS
    <2> QED  BY <2>1, FlatOfNone DEF Named
  <1> QED  BY <1>8, <1>9

(* A message of a chat request that Regular admits. *)
IsRegular(m) ==
    /\ m = ChatMessage(m.role, m.parts, m.calls, m.id)
    /\ AreTexts(m.parts) /\ AreCalls(m.calls)
    /\ m.calls # <<>> => m.role = "assistant"
    /\ m.role \in {"system", "tool"} => \A k \in DOMAIN m.parts : m.parts[k].type # "array"

LEMMA FormattedKeeps ==
    ASSUME NEW m, IsRegular(m), m.role \in {"system", "tool"}
    PROVE  Formatted(m.parts) = m.parts
  <1>1. m.parts = [i \in DOMAIN m.parts |-> m.parts[i]]
        BY SeqHas DEF IsRegular, AreTexts
  <1>2. \A i \in DOMAIN m.parts : m.parts[i].type # "array"
        BY DEF IsRegular
  <1> QED  BY <1>1, <1>2 DEF Formatted

LEMMA QuietTold ==
    ASSUME NEW m, IsRegular(m), m.role # "tool", m.calls = <<>>
    PROVE  SaidInChat(m) = Texts(m.role, m.parts) /\ IsSeq(SaidInChat(m))
  <1> DEFINE named == Named(m.calls)
             told == [i \in DOMAIN named |-> <<m.role, named[i]>>]
  <1>1. AreCalls(m.calls) /\ AreTexts(m.parts)
        BY DEF IsRegular
  <1>2. named = <<>>
        BY <1>1, NamedAreCalls
  <1>3. told = <<>>
        BY <1>2
  <1>4. SaidInChat(m) = Texts(m.role, m.parts) \o told
        BY DEF SaidInChat, Texts
  <1>5. IsSeq(Texts(m.role, m.parts))
        BY <1>1, TextsTold
  <1> HIDE DEF told
  <1> QED  BY <1>3, <1>4, <1>5, ConcatNothing

(* What becomes of a message tells what the client said in it. *)
Tells(m, said) == IsSeq(said) /\ SeenInMessage(NormalizeMessage(m), FALSE) = said

LEMMA ClientTold == ASSUME NEW m, IsRegular(m) PROVE Tells(m, SaidInChat(m))
  <1> DEFINE said == SaidInChat(m)
             out == NormalizeMessage(m)
             named == Named(m.calls)
             result == ResultPart(m.id, TotalSize(m.parts))
             joined == Joined(m.parts)
             calls == IF named = <<>> THEN <<>> ELSE <<CallsPart(named)>>
             texts == Texts(m.role, m.parts)
             told == Told(m.role, named)
  <1>1. AreTexts(m.parts) /\ AreCalls(m.calls) /\ (m.calls # <<>> => m.role = "assistant")
        BY DEF IsRegular
  <1>2. CASE m.role = "tool"
    <2>1. Formatted(m.parts) = m.parts
          BY <1>2, FormattedKeeps
    <2>2. out.role = "user" /\ out.parts = <<result>>
          BY <1>2, <2>1 DEF NormalizeMessage, ChatMessage
    <2>3. said = <<<<"user", result>>>>
          BY <1>2 DEF SaidInChat
    <2>4. result.type = "result"
          BY DEF ResultPart
    <2> HIDE DEF result, out, said
    <2>5. SeenOf("user", result) = said
          BY <2>3, <2>4, SeenOfPart
    <2>6. IsSeq(said)
          BY <2>3, OneIsSeq
    <2>7. SeenIn("user", <<result>>) = said
          BY <2>5, <2>6, SeenOne
    <2>8. SeenInMessage(out, FALSE) = said
          BY <2>2, <2>7, SeenMessage
    <2> QED  BY <2>6, <2>8 DEF Tells, out, said
  <1>3. CASE m.role = "assistant" /\ m.calls # <<>>
    <2>1. out.role = m.role /\ out.parts = joined \o calls
          BY <1>3 DEF NormalizeMessage, ChatMessage
    <2>2. said = texts \o told
          BY <1>3 DEF SaidInChat, Texts, Told
    <2>3. AreSeen(m.role, joined) /\ SeenIn(m.role, joined) = texts /\ IsSeq(texts)
          BY <1>1, JoinedTold, TextsTold
    <2>4. AreCalls(named)
          BY <1>1, NamedAreCalls
    <2>5. IsSeq(told)
          BY <2>4, ToldIsSeq DEF AreCalls
    <2>6. AreSeen(m.role, calls) /\ SeenIn(m.role, calls) = told
      <3>1. CASE named = <<>>
        <4>1. calls = <<>> /\ told = <<>>
              BY <3>1 DEF Told
        <4> HIDE DEF calls, told
        <4> QED  BY <4>1, SeenNone
      <3>2. CASE named # <<>>
        <4> DEFINE part == CallsPart(named)
        <4>1. calls = <<part>>
              BY <3>2
        <4>2. SeenOf(m.role, part) = told
              BY <2>4, SeenOfCalls
        <4> HIDE DEF calls, told, part
        <4> QED  BY <2>5, <4>1, <4>2, SeenOne
      <3> QED  BY <3>1, <3>2
    <2> HIDE DEF out, said, joined, calls, texts, told
    <2>7. SeenIn(m.role, joined \o calls) = said
          BY <2>2, <2>3, <2>6, SeenConcat
    <2>8. IsSeq(said)
          BY <2>2, <2>3, <2>5, ConcatIsSeq
    <2>9. SeenInMessage(out, FALSE) = said
          BY <2>1, <2>7, SeenMessage
    <2> QED  BY <2>8, <2>9, Zenon DEF Tells, out, said
  <1>4. CASE ~(m.role = "tool") /\ ~(m.role = "assistant" /\ m.calls # <<>>)
    <2>1. out = m
          BY <1>4 DEF NormalizeMessage
    <2>2. m.calls = <<>>
          BY <1>1, <1>4
    <2>3. said = texts /\ IsSeq(said)
          BY <1>4, <2>2, QuietTold
    <2>4. SeenIn(m.role, m.parts) = texts
          BY <1>1, TextsTold
    <2> HIDE DEF out, said, texts
    <2>5. SeenInMessage(out, FALSE) = said
          BY <2>1, <2>3, <2>4, SeenMessage
    <2> QED  BY <2>3, <2>5 DEF Tells, out, said
  <1> QED  BY <1>2, <1>3, <1>4

(* The client's system message with the prompt behind its text. *)
LEMMA PromptedTold ==
    ASSUME NEW m, IsRegular(m), m.role = "system", NEW tools, NEW choice,
           NEW parts, parts = Formatted(m.parts) \o ToolsPrompt(tools, choice),
           NEW x, x.parts = parts, x.role = m.role, x.calls = m.calls
    PROVE  Tells(x, SaidInChat(m))
  <1> DEFINE prompt == ToolsPrompt(tools, choice)
             said == SaidInChat(m)
             both == m.parts \o prompt
             texts == Texts(m.role, m.parts)
  <1>1. Formatted(m.parts) = m.parts /\ m.calls = <<>> /\ AreTexts(m.parts)
        BY FormattedKeeps DEF IsRegular
  <1>2. x.parts = both
        BY <1>1
  <1>3. NormalizeMessage(x) = x
        BY DEF NormalizeMessage
  <1>4. said = texts /\ IsSeq(said)
        BY <1>1, QuietTold
  <1>5. AreSeen(m.role, m.parts) /\ SeenIn(m.role, m.parts) = texts /\ IsSeq(texts)
        BY <1>1, TextsTold
  <1>6. AreSeen(m.role, prompt) /\ SeenIn(m.role, prompt) = <<>>
        BY PromptUnseen
  <1> HIDE DEF prompt, said, texts
  <1>7. SeenIn(m.role, both) = said
    <2>1. SeenIn(m.role, m.parts \o prompt) = SeenIn(m.role, m.parts) \o SeenIn(m.role, prompt)
          BY <1>5, <1>6, SeenConcat
    <2> QED  BY <1>4, <1>5, <1>6, <2>1, ConcatNothing
  <1> HIDE DEF both
  <1>8. SeenInMessage(NormalizeMessage(x), FALSE) = said
        BY <1>2, <1>3, <1>7, SeenMessage
  <1> QED  BY <1>2, <1>4, <1>8 DEF Tells, said

(* Nothing is to be normalised. *)
Quiet(messages) == \A i \in DOMAIN messages :
    messages[i].role \in {"tool", "assistant"} => messages[i].calls = <<>>
Calm(messages) == \A i \in DOMAIN messages :
    messages[i].role # "tool" /\ messages[i].calls = <<>>

LEMMA NormalizedTold ==
    ASSUME NEW messages, IsSeq(messages), Quiet(messages) => Calm(messages),
           NEW said, said = [i \in DOMAIN messages |-> said[i]],
           \A i \in DOMAIN messages : Tells(messages[i], said[i])
    PROVE  SeenAll(NormalizeOaiMessages(messages)) = FlattenSeq(said)
  <1> DEFINE out == [i \in DOMAIN messages |-> NormalizeMessage(messages[i])]
  <1>1. messages = [i \in DOMAIN messages |-> messages[i]]
        BY SeqHas
  <1>2. NormalizeOaiMessages(messages) = out
    <2>1. CASE Quiet(messages)
      <3>1. \A i \in DOMAIN messages : NormalizeMessage(messages[i]) = messages[i]
            BY <2>1 DEF Calm, NormalizeMessage
      <3>2. NormalizeOaiMessages(messages) = messages
            BY <2>1 DEF NormalizeOaiMessages, Quiet
      <3> QED  BY <1>1, <3>1, <3>2
    <2>2. CASE ~Quiet(messages)
          BY <2>2 DEF NormalizeOaiMessages, Quiet
    <2> QED  BY <2>1, <2>2
  <1>3. DOMAIN out = DOMAIN messages
        OBVIOUS
  <1>4. \A i \in DOMAIN messages : SeenInMessage(out[i], FALSE) = said[i]
        BY DEF Tells
  <1> HIDE DEF out
  <1>5. [i \in DOMAIN out |-> SeenInMessage(out[i], FALSE)] = said
        BY <1>3, <1>4
  <1> QED  BY <1>2, <1>5 DEF SeenAll

(* The messages of a regular chat request. *)
LEMMA ChatIsRegular ==
    ASSUME NEW requests \in Families, NEW r \in requests, r.route = "chat", Regular(r)
    PROVE  /\ IsSeq(r.messages) /\ \A i \in DOMAIN r.messages : IsRegular(r.messages[i])
           /\ Quiet(r.messages) => Calm(r.messages)
  <1>1. IsSeq(r.messages)
        BY RequestsAssumption DEF IsSeq
  <1>2. ASSUME NEW i \in DOMAIN r.messages
        PROVE  /\ r.messages[i].calls # <<>> => r.messages[i].role = "assistant"
               /\ r.messages[i].role = "tool" =>
                     \E k \in 1..(i - 1) : r.messages[k].calls # <<>>
               /\ r.messages[i].role \in {"system", "tool"} =>
                     \A k \in DOMAIN r.messages[i].parts : r.messages[i].parts[k].type # "array"
        BY Zenon DEF Regular
  <1>3. ASSUME NEW i \in DOMAIN r.messages PROVE IsRegular(r.messages[i])
    <2> DEFINE m == r.messages[i]
               T == {part \in Range(m.parts) : IsText(part)}
               C == {call \in Range(m.calls) : IsCall(call)}
               parts == m.parts
               calls == m.calls
    <2>1. m \in Range(r.messages)
          BY DEF Range
    <2>2. m = ChatMessage(m.role, m.parts, m.calls, m.id) /\ parts \in Seq(T) /\ calls \in Seq(C)
          BY <2>1, RequestsAssumption
    <2>3. (\A part \in T : IsText(part)) /\ (\A call \in C : IsCall(call))
          OBVIOUS
    <2>4. AreTexts(parts) /\ AreCalls(calls)
      <3> HIDE DEF T, C, parts, calls
      <3>1. /\ \A k \in DOMAIN parts : parts[k] \in T
            /\ \A k \in DOMAIN calls : calls[k] \in C
            BY <2>2
      <3>2. IsSeq(parts) /\ IsSeq(calls)
            BY <2>2, SeqIs
      <3> QED  BY <2>3, <3>1, <3>2 DEF AreTexts, AreCalls
    <2> QED  BY <1>2, <2>2, <2>4 DEF IsRegular
  <1>4. ASSUME Quiet(r.messages), NEW i \in DOMAIN r.messages
        PROVE  r.messages[i].calls = <<>>
        BY <1>2, <1>4 DEF Quiet
  <1>5. ASSUME Quiet(r.messages), NEW i \in DOMAIN r.messages
        PROVE  r.messages[i].role # "tool"
    <2> DEFINE n == Len(r.messages)
               M == r.messages
    <2>1. n \in Nat /\ DOMAIN M = 1..n
          BY <1>1, SeqHas
    <2> HIDE DEF n
    <2>2. 1..(i - 1) \subseteq DOMAIN M
          BY <2>1
    <2>3. \A k \in 1..(i - 1) : ~(M[k].calls # <<>>)
          BY <1>4, <1>5, <2>2
    <2> QED  BY <1>2, <2>3
  <1> QED  BY <1>1, <1>3, <1>4, <1>5 DEF Calm

(* A regular chat request is told whole. *)
LEMMA ChatTold ==
    ASSUME NEW requests \in Families, NEW r \in requests, r.route = "chat", Regular(r)
    PROVE  SeenAll(NormalizeOaiMessages(InjectToolsPrompt(r.messages, r.tools))) = Said(r)
  <1> DEFINE messages == r.messages
             tools == r.tools
             prompt == ToolsPrompt(tools, "none")
             I == {i \in 1..Len(messages) : messages[i].role = "system"}
             first == SelectInSeq(messages, LAMBDA m : m.role = "system")
             new == ChatMessage("system", prompt, <<>>, "none")
             out == InjectToolsPrompt(messages, tools)
             said == [i \in DOMAIN messages |-> SaidInChat(messages[i])]
             n == Len(messages)
  <1>1. /\ IsSeq(messages) /\ \A i \in DOMAIN messages : IsRegular(messages[i])
        /\ Quiet(messages) => Calm(messages)
        BY ChatIsRegular
  <1>2. n \in Nat /\ DOMAIN messages = 1..n
        BY <1>1, SeqHas
  <1>3. first = IF I # {} THEN Min(I) ELSE 0
        BY Zenon DEF SelectInSeq
  <1>4. out = CASE prompt = <<>> -> messages
                [] prompt # <<>> /\ first = 0 -> <<new>> \o messages
                [] prompt # <<>> /\ first > 0 ->
                      [messages EXCEPT ![first].parts = Formatted(@) \o prompt]
        BY Zenon DEF InjectToolsPrompt
  <1>5. /\ DOMAIN said = 1..n /\ said = [i \in DOMAIN messages |-> said[i]]
        /\ \A i \in DOMAIN messages : Tells(messages[i], said[i])
        BY <1>1, <1>2, ClientTold
  <1>6. Said(r) = FlattenSeq(said)
        BY Zenon DEF Said
  <1> HIDE DEF said
  <1>7. CASE prompt = <<>>
    <2>1. out = messages
          BY <1>4, <1>7, Zenon
    <2> HIDE DEF out, messages
    <2>2. SeenAll(NormalizeOaiMessages(messages)) = FlattenSeq(said)
          BY <1>1, <1>5, NormalizedTold
    <2> QED  BY <1>6, <2>1, <2>2 DEF out, messages
  <1>8. CASE prompt # <<>> /\ I = {}
    <2> DEFINE one == <<new>>
               none == <<<<>>>>
               told == none \o said
    <2>1. first = 0
          BY <1>3, <1>8
    <2>2. out = one \o messages
      <3>1. prompt # <<>>
            BY <1>8
      <3> HIDE DEF first, prompt, out, new, messages, I
      <3> QED  BY <1>4, <2>1, <3>1
    <2> HIDE DEF first
    <2>3. Tells(new, <<>>) /\ new.role = "system" /\ new.calls = <<>>
      <3>1. new.role = "system" /\ new.calls = <<>> /\ new.parts = prompt
            BY DEF ChatMessage
      <3>2. SeenIn("system", prompt) = <<>>
            BY PromptUnseen
      <3> HIDE DEF new, prompt
      <3>3. NormalizeMessage(new) = new
            BY <3>1 DEF NormalizeMessage
      <3>4. SeenInMessage(new, FALSE) = <<>>
            BY <3>1, <3>2, SeenMessage
      <3> QED  BY <3>1, <3>3, <3>4, NoneIsSeq DEF Tells
    <2> HIDE DEF out, new, messages, n, prompt, I
    <2>4. AreSeqs(none) /\ FlattenSeq(none) = <<>>
          BY NoneIsSeq, FlatOfOne
    <2>5. IsSeq(said) /\ Len(said) = n
          BY <1>2, <1>5, FunctionIsSeq
    <2>6. AreSeqs(said)
          BY <1>2, <1>5, <2>5 DEF AreSeqs, Tells
    <2> DEFINE all == one \o messages
    <2>7. /\ IsSeq(all) /\ Len(all) = 1 + n /\ all[1] = new
          /\ \A i \in 1..n : all[1 + i] = messages[i]
          BY <1>1, FirstIs DEF n
    <2>8. /\ IsSeq(told) /\ Len(told) = 1 + n /\ told[1] = <<>>
          /\ \A i \in 1..n : told[1 + i] = said[i]
          BY <2>5, FirstIs
    <2> HIDE DEF one, none
    <2>9. FlattenSeq(told) = FlattenSeq(said)
      <3>1. FlattenSeq(told) = FlattenSeq(none) \o FlattenSeq(said)
            BY <2>4, <2>6, SeqsConcat
      <3>2. IsSeq(FlattenSeq(said))
            BY <2>6, FlatIsSeq
      <3> HIDE DEF told
      <3> QED  BY <2>4, <3>1, <3>2, ConcatNothing
    <2> HIDE DEF all, told
    <2>10. DOMAIN all = 1..(1 + n) /\ told = [i \in DOMAIN all |-> told[i]]
          BY <2>7, <2>8, SeqHas
    <2>11. ASSUME NEW i \in 1..(1 + n), i # 1
           PROVE  i - 1 \in 1..n /\ all[i] = messages[i - 1] /\ told[i] = said[i - 1]
      <3> DEFINE j == i - 1
      <3>1. j \in 1..n /\ i = 1 + j
            BY <1>2, <2>11
      <3> HIDE DEF j
      <3>2. all[i] = messages[j] /\ told[i] = said[j]
            BY <2>7, <2>8, <3>1
      <3> QED  BY <3>1, <3>2 DEF j
    <2>12. \A i \in DOMAIN all : Tells(all[i], told[i])
          BY <1>2, <1>5, <2>3, <2>7, <2>8, <2>10, <2>11
    <2>13. Quiet(all) => Calm(all)
      <3> SUFFICES ASSUME Quiet(all) PROVE Calm(all)
          OBVIOUS
      <3>1. ASSUME NEW i \in 1..n PROVE 1 + i \in DOMAIN all
            BY <1>2, <2>10
      <3>2. Quiet(messages)
            BY <1>2, <2>7, <3>1 DEF Quiet
      <3>3. Calm(messages)
            BY <1>1, <3>2
      <3> QED  BY <1>2, <2>3, <2>7, <2>10, <2>11, <3>3 DEF Calm
    <2>14. SeenAll(NormalizeOaiMessages(all)) = FlattenSeq(told)
          BY <2>7, <2>10, <2>12, <2>13, NormalizedTold
    <2> QED  BY <1>6, <2>2, <2>9, <2>14 DEF all, out, messages
  <1>9. CASE prompt # <<>> /\ I # {}
    <2>1. first \in I
      <3>1. I \in SUBSET Nat
            BY <1>2
      <3>2. \E k \in I : \A m \in I : k <= m
        <4> HIDE DEF I
        <4> QED  BY <1>9, <3>1, Flattening!LeastElement
      <3>3. Min(I) \in I
            BY <3>2, Zenon DEF Min
      <3> QED  BY <1>3, <1>9, <3>3
    <2>2. /\ first \in DOMAIN messages /\ first > 0 /\ first # 0
          /\ messages[first].role = "system"
          BY <1>2, <2>1
    <2> HIDE DEF I, first, n
    <2> DEFINE m == messages[first]
               both == Formatted(m.parts) \o prompt
               x == [m EXCEPT !.parts = both]
    <2>3. out = [messages EXCEPT ![first] = x]
      <3>1. out = [messages EXCEPT ![first].parts = Formatted(@) \o prompt]
            BY <1>9, <2>2 DEF InjectToolsPrompt, first
      <3> QED  BY <3>1
    <2>4. IsRegular(m)
          BY <1>1, <2>2
    <2>5. Tells(x, SaidInChat(m)) /\ x.role = m.role /\ x.calls = m.calls
      <3>1. m.role = "system"
            BY <2>2
      <3>2. both = Formatted(m.parts) \o ToolsPrompt(tools, "none")
            OBVIOUS
      <3>3. m = [role |-> m.role, parts |-> m.parts, calls |-> m.calls, id |-> m.id]
            BY <2>4 DEF IsRegular, ChatMessage
      <3> HIDE DEF m, tools, both
      <3>4. x.parts = both /\ x.role = m.role /\ x.calls = m.calls
            BY <3>3
      <3> HIDE DEF x
      <3> QED  BY <2>4, <3>1, <3>2, <3>4, PromptedTold
    <2>6. said[first] = SaidInChat(m)
          BY <2>2 DEF said
    <2> HIDE DEF out, x, both, prompt
    <2>7. /\ DOMAIN out = DOMAIN messages /\ out[first] = x
          /\ \A j \in DOMAIN messages : j # first => out[j] = messages[j]
          BY <2>2, <2>3
    <2>8. IsSeq(out)
      <3>1. DOMAIN out = 1..n /\ out = [i \in 1..n |-> out[i]]
        <4> HIDE DEF messages, m
        <4> QED  BY <1>2, <2>3, <2>7
      <3> QED  BY <1>2, <3>1, FunctionIsSeq
    <2>9. \A i \in DOMAIN out : Tells(out[i], said[i])
          BY <1>5, <2>5, <2>6, <2>7
    <2>10. said = [i \in DOMAIN out |-> said[i]]
          BY <1>5, <2>7
    <2>11. \A i \in DOMAIN messages : out[i].role = messages[i].role /\ out[i].calls = messages[i].calls
          BY <2>5, <2>7
    <2>12. Quiet(out) => Calm(out)
      <3> HIDE DEF messages
      <3>1. Quiet(out) => Quiet(messages)
            BY <2>7, <2>11 DEF Quiet
      <3>2. Calm(messages) => Calm(out)
            BY <2>7, <2>11 DEF Calm
      <3> QED  BY <1>1, <3>1, <3>2
    <2>13. SeenAll(NormalizeOaiMessages(out)) = FlattenSeq(said)
          BY <2>8, <2>9, <2>10, <2>12, NormalizedTold
    <2> QED  BY <1>6, <2>13 DEF out
  <1> QED  BY <1>7, <1>8, <1>9

(* Each text, call and result of every history is replayed once, in order  *)
(* and in its role, and a call so that it reads back as the client sent it *)
(* (request.py:8-10, prompt_builder.py:101-106, chat.py:294-299).          *)
THEOREM HistoryKept == Spec => []HistoryIsKept
  <1>1. Sends => HistoryIsKept
    <2> SUFFICES ASSUME Sends, sent # <<>>, Regular(request)
                 PROVE  Seen(sent[1], FALSE) = Said(request)
        BY DEF HistoryIsKept
    <2>1. PICK requests \in Families : request \in requests
          BY DEF Sends
    <2>2. request.route \in {"messages", "chat"}
          BY <2>1, RequestsAssumption
    <2>3. Seen(sent[1], FALSE) = SeenAll(sent[1].messages)
          BY DEF Seen, SeenAll
    <2>4. CASE request.route = "messages"
      <3>1. sent[1].messages = ConvertedMessages(request)
            BY <2>4 DEF Sends
      <3> QED  BY <2>1, <2>3, <2>4, <3>1, MessagesTold
    <2>5. CASE request.route = "chat"
      <3>1. sent[1].messages = NormalizeOaiMessages(InjectToolsPrompt(request.messages,
                                                                      request.tools))
            BY <2>5 DEF Sends
      <3> QED  BY <2>1, <2>3, <2>5, <3>1, ChatTold
    <2> QED  BY <2>2, <2>4, <2>5
  <1> QED  BY <1>1, SendsIsInvariant, PTL

-----------------------------------------------------------------------------
(* UpstreamCall *)

(* Every response and every failure has a class.                           *)
Errors == {"auth", "permission", "rateLimit", "badRequest", "server", "other"}
Classes == Errors \union {"answer", "empty", "invalid", "network", "unexpected"}

LEMMA ErrorsAreTyped ==
    ASSUME NEW r \in Responses
    PROVE  /\ LooksLikeError(r) => ErrorFromBody(r) \in Errors
           /\ ErrorFromStatus(r) \in Errors
  <1>1. \A s : TypedError(s) \in Errors
        BY DEF TypedError, Errors
  <1>2. LooksLikeError(r) => \E s : ErrorFromBody(r) = TypedError(s)
        BY DEF ErrorFromBody
  <1> QED  BY <1>1, <1>2 DEF ErrorFromStatus

(* What each path makes of a response, by cases that exclude each other.   *)
LEMMA Judged ==
    ASSUME NEW r \in Responses, NEW class \in {PeekFirst(r), ChatOnce(r)}
    PROVE  /\ class \in Classes
           /\ class = "answer" => r.status < 400 /\ ~LooksLikeError(r)
  <1>1. r.status \in Nat /\ r.framed \in BOOLEAN /\ r.shape \in Shapes
        BY ResponsesAssumption
  <1>2. r.shape \in {"chat", "object", "text"} <=> ~LooksLikeError(r)
        BY <1>1 DEF Shapes, ErrorShapes, LooksLikeError
  <1>3. /\ LooksLikeError(r) => ErrorFromBody(r) \in Errors
        /\ ErrorFromStatus(r) \in Errors
        BY ErrorsAreTyped
  <1>4. CASE class = PeekFirst(r)
    <2>1. CASE r.status >= 400
          BY <1>1, <1>3, <1>4, <2>1 DEF PeekFirst, Errors, Classes
    <2>2. CASE r.status < 400 /\ (~r.framed \/ r.shape = "text")
      <3>1. class = "empty"
        <4>1. CASE ~r.framed
              BY <1>1, <1>4, <2>2, <4>1 DEF PeekFirst
        <4>2. CASE r.shape = "text"
              BY <1>1, <1>2, <1>4, <2>2, <4>2 DEF PeekFirst
        <4> QED  BY <2>2, <4>1, <4>2
      <3> QED  BY <3>1 DEF Classes
    <2>3. CASE r.status < 400 /\ r.framed /\ LooksLikeError(r)
      <3>1. class = ErrorFromBody(r)
            BY <1>1, <1>2, <1>4, <2>3 DEF PeekFirst
      <3> QED  BY <1>3, <2>3, <3>1 DEF Classes, Errors
    <2>4. CASE r.status < 400 /\ r.framed /\ r.shape \in {"chat", "object"}
      <3>1. class = "answer"
            BY <1>1, <1>2, <1>4, <2>4 DEF PeekFirst
      <3> QED  BY <1>2, <2>4, <3>1 DEF Classes
    <2> QED  BY <1>1, <1>2, <2>1, <2>2, <2>3, <2>4
  <1>5. CASE class = ChatOnce(r)
    <2>1. CASE LooksLikeError(r)
      <3>1. class = ErrorFromBody(r)
            BY <1>1, <1>2, <1>5, <2>1 DEF ChatOnce
      <3> QED  BY <1>3, <2>1, <3>1 DEF Classes, Errors
    <2>2. CASE ~LooksLikeError(r) /\ r.status >= 400
      <3>1. class = ErrorFromStatus(r)
            BY <1>1, <1>5, <2>2 DEF ChatOnce
      <3> QED  BY <1>3, <3>1 DEF Classes, Errors
    <2>3. CASE ~LooksLikeError(r) /\ r.status < 400
      <3>1. class \in {"other", "invalid", "answer"}
            BY <1>1, <1>2, <1>5, <2>3 DEF ChatOnce
      <3> QED  BY <2>3, <3>1 DEF Classes, Errors
    <2> QED  BY <1>1, <2>1, <2>2, <2>3
  <1> QED  BY <1>4, <1>5

-----------------------------------------------------------------------------
(* An attempt is left while the call goes on, and a call that is over      *)
(* either used them all or ended with something that is not retried.       *)
AttemptsAreSpent ==
    /\ attempts \in 1..MaxAttempts
    /\ phase \in {"calling", "backoff", "done"}
    /\ phase = "backoff" => attempts < MaxAttempts
    /\ phase = "done" => /\ outcome \in Classes
                         /\ outcome \notin Retryable \/ attempts = MaxAttempts

(* The class on record is the class of the response on record.             *)
OutcomeIsJudged ==
    /\ received = <<>> \/ \E r \in Responses : received = <<r>>
    /\ \A r \in Responses : received = <<r>> =>
           outcome = IF stream THEN PeekFirst(r) ELSE ChatOnce(r)

CallInv == AttemptsAreSpent /\ OutcomeIsJudged

LEMMA CallEstablished == CallInit => CallInv
  BY AttemptsAssumption DEF CallInit, CallInv, AttemptsAreSpent, OutcomeIsJudged, Retryable

(* Settling keeps the account of attempts, whatever the outcome.           *)
LEMMA SettleSpends ==
    ASSUME AttemptsAreSpent, NEW result \in Classes, Settle(result)
    PROVE  AttemptsAreSpent'
  BY AttemptsAssumption DEF AttemptsAreSpent, Settle

LEMMA CallPreserved == CallInv /\ [CallNext]_callVars => CallInv'
  <1> SUFFICES ASSUME CallInv, [CallNext]_callVars PROVE CallInv'
      OBVIOUS
  <1>1. CASE Retry
        BY <1>1, AttemptsAssumption
           DEF CallInv, AttemptsAreSpent, OutcomeIsJudged, Retry
  <1>2. ASSUME NEW r \in Responses, Respond(r) PROVE CallInv'
    <2>1. AttemptsAreSpent'
      <3>1. PeekFirst(r) \in Classes /\ ChatOnce(r) \in Classes
            BY Judged
      <3> QED  BY <1>2, <3>1, SettleSpends DEF CallInv, Respond
    <2>2. /\ received' = <<r>> /\ stream' = stream
          /\ outcome' = IF stream THEN PeekFirst(r) ELSE ChatOnce(r)
          BY <1>2 DEF Respond, Settle
    <2>3. OutcomeIsJudged'
          BY <2>2 DEF OutcomeIsJudged
    <2> QED  BY <2>1, <2>3 DEF CallInv
  <1>3. ASSUME NEW f \in Failures, Fail(f) PROVE CallInv'
    <2>1. AttemptsAreSpent'
      <3>1. ErrorFromFailure(f) \in Classes
            BY DEF ErrorFromFailure, Classes
      <3> QED  BY <1>3, <3>1, SettleSpends DEF CallInv, Fail
    <2>2. received' = <<>>
          BY <1>3 DEF Fail
    <2>3. OutcomeIsJudged'
          BY <2>2 DEF OutcomeIsJudged
    <2> QED  BY <2>1, <2>3 DEF CallInv
  <1>4. CASE UNCHANGED callVars
        BY <1>4 DEF callVars, CallInv, AttemptsAreSpent, OutcomeIsJudged
  <1> QED  BY <1>1, <1>2, <1>3, <1>4 DEF CallNext

LEMMA CallInvariance == CallSpec => []CallInv
  BY CallEstablished, CallPreserved, PTL DEF CallSpec

(* No error of the upstream, in whichever of its formats and on whichever  *)
(* path, is passed off as an answer (client.py:84-102, 130-153).           *)
THEOREM ErrorsAreErrors == CallSpec => []NoErrorIsAnAnswer
  <1>1. CallInv => NoErrorIsAnAnswer
    <2> SUFFICES ASSUME CallInv, GotResponse, outcome = "answer"
                 PROVE  received[1].status < 400 /\ ~LooksLikeError(received[1])
        BY DEF NoErrorIsAnAnswer
    <2>1. PICK r \in Responses : received = <<r>>
          BY DEF CallInv, OutcomeIsJudged, GotResponse
    <2>2. outcome \in {PeekFirst(r), ChatOnce(r)}
          BY <2>1 DEF CallInv, OutcomeIsJudged
    <2> QED  BY <2>1, <2>2, Judged
  <1> QED  BY <1>1, CallInvariance, PTL

(* An error that comes with HTTP 200 gets the same class on both paths,    *)
(* unless its streaming body is not framed (client.py:84-109, 126-153).    *)
THEOREM PathsJudgeAlike == CallSpec => []PathsAgree
  <1>1. CallInv => PathsAgree
    <2> SUFFICES ASSUME CallInv, GotResponse PROVE PathsAgree
        BY DEF PathsAgree
    <2>1. PICK r \in Responses : received = <<r>>
          BY DEF CallInv, OutcomeIsJudged, GotResponse
    <2>2. r.status \in Nat /\ r.framed \in BOOLEAN /\ received[1] = r
          BY <2>1, ResponsesAssumption
    <2>3. ASSUME r.status < 400, r.framed, LooksLikeError(r)
          PROVE  PeekFirst(r) = ErrorFromBody(r) /\ ChatOnce(r) = ErrorFromBody(r)
      <3>1. r.shape \notin {"text", "chat", "object"}
            BY <2>3 DEF LooksLikeError, ErrorShapes
      <3> QED  BY <2>2, <2>3, <3>1 DEF PeekFirst, ChatOnce
    <2> QED  BY <2>2, <2>3 DEF PathsAgree
  <1> QED  BY <1>1, CallInvariance, PTL

(* 429 and 503 are given to a client only after the last attempt           *)
(* (retry.py:7-10, 31-48).                                                 *)
THEOREM GivingUpIsLate == CallSpec => []GivesUpLate
  <1>1. CallInv => GivesUpLate
    <2> SUFFICES ASSUME CallInv, phase = "done", ReplyStatus(outcome) \in {429, 503}
                 PROVE  attempts = MaxAttempts
        BY DEF GivesUpLate
    <2>1. outcome \in {"rateLimit", "network"}
      <3>1. outcome \in Classes
            BY DEF CallInv, AttemptsAreSpent
      <3> QED  BY <3>1 DEF Classes, Errors, ReplyStatus
    <2> QED  BY <2>1 DEF CallInv, AttemptsAreSpent, Retryable
  <1> QED  BY <1>1, CallInvariance, PTL

=============================================================================
