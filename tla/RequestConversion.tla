--------------------------- MODULE RequestConversion ---------------------------
(***************************************************************************)
(* What a request becomes on its way upstream, in both routes: a Messages  *)
(* request by convert_request() of converters/request.py, max_tokens       *)
(* included (TokenBudget), a chat request by the two steps of ChatHistory. *)
(* temperature, top_p and stop pass through and are left out.              *)
(***************************************************************************)
EXTENDS TokenBudget, ChatHistory

CONSTANT Families     \* sets of requests

(* The content of a chat message is text, in one piece or in blocks; the   *)
(* arguments of calls are text.                                            *)
IsBlock(block) ==
    /\ block.type = "text" => block.size \in Nat
    /\ block.type = "tool_use" => block.argument \in Seq(Symbols)
IsCall(call) == call = Call(call.name, call.argument) /\ call.argument \in Seq(Symbols)
IsText(part) ==
    /\ part = [type |-> part.type, size |-> part.size]
    /\ part.type \in {"text", "array"}

ASSUME RequestsAssumption == \A requests \in Families : \A r \in requests :
    /\ r.profile \in Profiles /\ r.maxTokens \in Nat
    /\ r.route \in {"messages", "chat"}
    /\ r.system \in Seq(Nat) /\ r.messages \in Seq(Range(r.messages))
    /\ \A m \in Range(r.messages) :
          /\ r.route = "messages" => m.blocks \in Seq({b \in Range(m.blocks) : IsBlock(b)})
          /\ r.route = "chat" =>
                /\ m = ChatMessage(m.role, m.parts, m.calls, m.id)
                /\ m.parts \in Seq({part \in Range(m.parts) : IsText(part)})
                /\ m.calls \in Seq({call \in Range(m.calls) : IsCall(call)})

(* A Messages request: the texts of its system prompt; messages of role,   *)
(* shape ("array", "other" for neither a string, an array nor nothing) and *)
(* blocks.  A string is an array of one text block.                        *)
TextBlock(size) == [type |-> "text", size |-> size]
ToolUse(name, argument) == [type |-> "tool_use", name |-> name, argument |-> argument]
ToolResult(id, size) == [type |-> "tool_result", id |-> id, size |-> size]
Image == [type |-> "image"]

VARIABLES
    request,
    status,         \* "received", "refused" or "sent"
    sent            \* the upstream request, in a sequence once there is one

vars == <<request, status, sent, budget>>
-----------------------------------------------------------------------------
(* _flatten_content() *)

FlushPending(c) ==
    IF c.pending = <<>> THEN c
    ELSE [parts |-> Append(c.parts, CallsPart(c.pending)), pending |-> <<>>]

(* Mistake: a call is held back across the text that follows it. *)
FlattenBlockLazily(c, block) ==
    CASE block.type = "text" ->
            IF block.size = 0 THEN c ELSE [c EXCEPT !.parts = Append(@, TextPart(block.size))]
      [] block.type = "tool_use" /\ block.name # "" ->
            [FlushPending(c) EXCEPT !.pending = <<Call(block.name, block.argument)>>]
      [] block.type = "tool_result" ->
            [FlushPending(c) EXCEPT !.parts = Append(@, ResultPart(block.id, block.size))]
      [] OTHER -> c

(* A call is flushed by the next one already, so that every block of calls *)
(* holds one.                                                              *)
FlattenBlock(c, block) ==
    CASE block.type = "text" ->
            LET f == FlushPending(c)
            IN  IF block.size = 0 THEN f
                ELSE [f EXCEPT !.parts = Append(@, TextPart(block.size))]
      [] block.type = "tool_use" /\ block.name # "" ->
            [FlushPending(c) EXCEPT !.pending = Append(@, Call(block.name, block.argument))]
      [] block.type = "tool_result" ->
            [FlushPending(c) EXCEPT !.parts = Append(@, ResultPart(block.id, block.size))]
      [] OTHER -> c

FlattenContent(blocks) ==
    FlushPending(FoldLeft(FlattenBlock, [parts |-> <<>>, pending |-> <<>>], blocks)).parts

AddText(parts, size) == IF size = 0 THEN parts ELSE Append(parts, TextPart(size))

FlattenSystem(texts) == FoldLeft(AddText, <<>>, texts)
-----------------------------------------------------------------------------
(* convert_request() *)

ConvertedMessages(r) ==
    LET system == FlattenSystem(r.system) \o ToolsPrompt(r.tools, r.choice)
        turns  == [i \in DOMAIN r.messages |->
                      Message(r.messages[i].role, FlattenContent(r.messages[i].blocks))]
    IN  IF system = <<>> THEN turns ELSE <<Message("system", system)>> \o turns

(* Mistake: the tools of the list that have no name are kept. *)
AllTools(tools) == tools

ToolsToOpenai(tools) == Named(tools)

(* Here a tool needs a name that is not empty. *)
ToolChoiceToOpenai(choice) ==
    CASE choice = "auto" -> "auto"
      [] choice = "any" -> "required"
      [] choice = "tool" -> "function"
      [] OTHER -> "none"

MessagesSize(messages) == SumOf(LAMBDA m : Length(m.parts), messages)
NativeSize(tools) == SumOf(LAMBDA tool : tool.schema, tools)

(* Mistake: the tools are sent twice and counted once. *)
PromptChars(messages, tools) == MessagesSize(messages)

InputChars(messages, tools) == MessagesSize(messages) + NativeSize(ToolsToOpenai(tools))

Refused(r) == \E i \in DOMAIN r.messages :
    r.messages[i].role \notin {"user", "assistant"} \/ r.messages[i].shape = "other"

Init ==
    /\ \E requests \in Families : request \in requests
    /\ status = "received" /\ sent = <<>>
    /\ profile = request.profile /\ asked = request.maxTokens
    /\ BudgetInit

(* ConversionError. *)
Refuse ==
    /\ status = "received" /\ request.route = "messages"
    /\ Refused(request)
    /\ status' = "refused"
    /\ UNCHANGED <<request, sent, budget>>

ConvertRequest ==
    LET messages == ConvertedMessages(request)
    IN  /\ status = "received" /\ request.route = "messages"
        /\ ~Refused(request)
        /\ chars' = InputChars(messages, request.tools)
        /\ Compute
        /\ status' = "sent"
        /\ sent' = <<[messages |-> messages, maxTokens |-> granted',
                      tools |-> ToolsToOpenai(request.tools),
                      choice |-> ToolChoiceToOpenai(request.choice)]>>
        /\ UNCHANGED request

(* chat_completions(): everything but the messages goes on as it came. *)
PassOn ==
    /\ status = "received" /\ request.route = "chat"
    /\ status' = "sent"
    /\ sent' = <<[messages |-> NormalizeOaiMessages(InjectToolsPrompt(request.messages,
                                                                      request.tools)),
                  maxTokens |-> request.maxTokens, tools |-> request.tools,
                  choice |-> request.choice]>>
    /\ UNCHANGED <<request, budget>>

Next == Refuse \/ ConvertRequest \/ PassOn

Spec == Init /\ [][Next]_vars
-----------------------------------------------------------------------------
(* Properties *)

(* What goes upstream fits the context together with the max_tokens that   *)
(* goes with it, whenever the model's floor fits: the estimate forgets     *)
(* nothing that is sent (request.py:159-160, 172-177).                     *)
PayloadFits == granted # Pending =>
    LET payload == sent[1]
        size    == MessagesSize(payload.messages) + NativeSize(payload.tools)
        Leaves(n) == InputTokens(size) + n + profile.margin <= profile.context
    IN  Leaves(profile.floor) => Leaves(payload.maxTokens)

(* Where the tools are put in words: which part of which message. *)
PromptsAt(messages) == UNION {
    {i} \X {k \in DOMAIN messages[i].parts : messages[i].parts[k].type = "tools"} :
        i \in DOMAIN messages}

(* The tools and the constraint on their use that the prompt spells out    *)
(* are those of the native fields, though each is filtered and translated  *)
(* by itself (request.py:134-136), but for a tool whose name is empty: the *)
(* prompt demands it (prompt_builder.py:91), the native field is left out  *)
(* (request.py:303).  A chat request is put in words but for the           *)
(* constraint.                                                             *)
OffersAgree == sent # <<>> /\ request.tools # <<>> =>
    LET messages == sent[1].messages
    IN  \E at \in PromptsAt(messages) :
          LET prompt == messages[at[1]].parts[at[2]]
          IN  /\ PromptsAt(messages) = {at}
              /\ request.route = "messages" =>
                    /\ prompt.tools = sent[1].tools
                    /\ prompt.hint = "any" <=> sent[1].choice = "required"
                    /\ prompt.hint = "tool"
                          <=> sent[1].choice = "function" \/ request.choice = "empty"
              /\ request.route = "chat" => prompt.tools = Named(sent[1].tools)

(* What the client said: texts, calls and results, each with its role. *)
SaidInBlock(role, block) ==
    CASE block.type = "text" /\ block.size > 0 -> <<<<role, TextPart(block.size)>>>>
      [] block.type = "tool_use" /\ block.name # "" ->
            <<<<role, Call(block.name, block.argument)>>>>
      [] block.type = "tool_result" -> <<<<role, ResultPart(block.id, block.size)>>>>
      [] OTHER -> <<>>
SaidInMessage(m) ==
    FlattenSeq([i \in DOMAIN m.blocks |-> SaidInBlock(m.role, m.blocks[i])])
SaidInChat(m) ==
    IF m.role = "tool" THEN <<<<"user", ResultPart(m.id, TotalSize(m.parts))>>>>
    ELSE [i \in DOMAIN m.parts |-> <<m.role, TextPart(m.parts[i].size)>>]
           \o [i \in DOMAIN Named(m.calls) |-> <<m.role, Named(m.calls)[i]>>]
Said(r) ==
    IF r.route = "chat"
    THEN FlattenSeq([i \in DOMAIN r.messages |-> SaidInChat(r.messages[i])])
    ELSE FlattenSeq([i \in DOMAIN r.system |-> SaidInBlock("system", TextBlock(r.system[i]))])
           \o FlattenSeq([i \in DOMAIN r.messages |-> SaidInMessage(r.messages[i])])

(* What the model sees, its calls as a parser of its answers reads them.   *)
SeenInPart(role, part, complete) ==
    CASE part.type = "calls" ->
            LET read == ParseBlock(part.calls, complete)
            IN  [i \in DOMAIN read |-> <<role, read[i]>>]
      [] part.type = "tools" -> <<>>
      [] part.type = "array" -> <<<<role, TextPart(part.size)>>>>
      [] OTHER -> <<<<role, part>>>>
SeenInMessage(m, complete) ==
    FlattenSeq([k \in DOMAIN m.parts |-> SeenInPart(m.role, m.parts[k], complete)])
Seen(payload, complete) ==
    FlattenSeq([i \in DOMAIN payload.messages |-> SeenInMessage(payload.messages[i], complete)])

(* A history in which results answer calls and calls are an assistant's.   *)
(* The content arrays of system and tool messages of a chat request, which *)
(* become reprs, are left out.                                             *)
Regular(r) == r.route = "chat" => \A i \in DOMAIN r.messages :
    LET m == r.messages[i]
    IN  /\ m.calls # <<>> => m.role = "assistant"
        /\ m.role = "tool" => \E k \in 1..(i - 1) : r.messages[k].calls # <<>>
        /\ m.role \in {"system", "tool"} =>
              \A k \in DOMAIN m.parts : m.parts[k].type # "array"

(* The history is replayed whole: each text, call and result once, in      *)
(* order and in its role, and a call so that it reads back as the client   *)
(* sent it (request.py:8-10, prompt_builder.py:101-106, chat.py:294-299).  *)
HistoryIsKept == sent # <<>> /\ Regular(request) => Seen(sent[1], FALSE) = Said(request)

(* "last to avoid double-decoding" (xml_parser.py:160): a call of the      *)
(* history that the model repeats comes out of the one-shot parser as it   *)
(* went in.                                                                *)
DecodedOnce == sent # <<>> /\ Regular(request) => Seen(sent[1], TRUE) = Said(request)

=============================================================================
