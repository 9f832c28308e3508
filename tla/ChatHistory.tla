------------------------------ MODULE ChatHistory ------------------------------
(***************************************************************************)
(* routes/chat.py, what happens to a chat request before it goes upstream: *)
(* the tools are put into the system prompt (_inject_tools_prompt), then   *)
(* calls and results become text (_normalize_oai_messages).  Arguments     *)
(* that are no JSON object are left out.                                   *)
(***************************************************************************)
EXTENDS PromptText

(* A message of the client: its content is a string, an array of text      *)
(* blocks or missing; calls are an assistant's, id that of a tool's result. *)
ChatMessage(role, parts, calls, id) ==
    [role |-> role, parts |-> parts, calls |-> calls, id |-> id]
ArrayPart(size) == [type |-> "array", size |-> size]

(* Formatting content into a string gives an array its repr. *)
Formatted(parts) ==
    [i \in DOMAIN parts |->
        IF parts[i].type = "array" THEN ReprPart(parts[i].size) ELSE parts[i]]

(* Joining the text of the blocks does not. *)
Joined(parts) == [i \in DOMAIN parts |-> TextPart(parts[i].size)]

(* Mistake: the client's system prompt is replaced. *)
InjectOverSystem(messages, tools) ==
    LET prompt == ToolsPrompt(tools, "none")
        first  == SelectInSeq(messages, LAMBDA m : m.role = "system")
    IN  CASE prompt = <<>> -> messages
          [] prompt # <<>> /\ first = 0 ->
                <<ChatMessage("system", prompt, <<>>, "none")>> \o messages
          [] prompt # <<>> /\ first > 0 -> [messages EXCEPT ![first].parts = prompt]

(* _inject_tools_prompt(): after the first system message's own text, or   *)
(* in a new first message; tool_choice is not put into words.              *)
InjectToolsPrompt(messages, tools) ==
    LET prompt == ToolsPrompt(tools, "none")
        first  == SelectInSeq(messages, LAMBDA m : m.role = "system")
    IN  CASE prompt = <<>> -> messages
          [] prompt # <<>> /\ first = 0 ->
                <<ChatMessage("system", prompt, <<>>, "none")>> \o messages
          [] prompt # <<>> /\ first > 0 ->
                [messages EXCEPT ![first].parts = Formatted(@) \o prompt]

(* One message of a history with calls. *)
NormalizeMessage(m) ==
    LET result == <<ResultPart(m.id, TotalSize(Formatted(m.parts)))>>
        calls  == IF Named(m.calls) = <<>> THEN <<>> ELSE <<CallsPart(Named(m.calls))>>
    IN  CASE m.role = "tool" -> ChatMessage("user", result, <<>>, "none")
          [] m.role = "assistant" /\ m.calls # <<>> ->
                ChatMessage("assistant", Joined(m.parts) \o calls, <<>>, "none")
          [] OTHER -> m

(* _normalize_oai_messages(): only when some message carries calls. *)
NormalizeOaiMessages(messages) ==
    IF \A i \in DOMAIN messages :
          messages[i].role \in {"tool", "assistant"} => messages[i].calls = <<>>
    THEN messages
    ELSE [i \in DOMAIN messages |-> NormalizeMessage(messages[i])]

=============================================================================
