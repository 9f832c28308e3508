----------------------------- MODULE OneShotAnswers -----------------------------
(***************************************************************************)
(* An answer that arrives in one piece, as the two routes return it:       *)
(* convert_response() of converters/response.py for a Messages request,    *)
(* _postprocess_tool_calls() of routes/chat.py for a chat request.  An     *)
(* answer is its reasoning, its content, its native tool calls (segments,  *)
(* empty for a call without a name) and its finish reason, "none" when the *)
(* upstream gives none.                                                    *)
(***************************************************************************)
EXTENDS ThinkSplitter, XmlScanner

Answer(reasoning, content, calls, finish) ==
    [reasoning |-> reasoning, content |-> content, calls |-> calls, finish |-> finish]

(* str.strip() *)
Strip(text) ==
    LET ink == {i \in DOMAIN text : text[i] # Blank}
    IN  IF ink = {} THEN <<>> ELSE SubSeq(text, Min(ink), Max(ink))

IsTool(segment) == segment.kind = "tool_use"
-----------------------------------------------------------------------------
(* convert_response() *)

(* A call without a name is dropped. *)
ExtractToolCalls(answer) == SelectSeq(answer.calls, LAMBDA call : call.text # <<>>)

AnswerStopReason(finish, hasToolUse) ==
    CASE finish = "length" -> "max_tokens"
      [] finish \in {"tool_calls", "function_call"} -> "tool_use"
      [] OTHER -> IF hasToolUse THEN "tool_use" ELSE "end_turn"

(* Both kinds of thinking come first, each in one block, text that is all  *)
(* white space is dropped, and a message without blocks gets an empty one. *)
ConvertResponse(answer, returnThinking) ==
    LET split    == StripThink(answer.content)
        thinking == Segment("thinking", answer.reasoning) \o Segment("thinking", split.thinking)
        visible  == SelectSeq(ParseComplete(split.text),
                              LAMBDA segment : IsTool(segment) \/ ~IsBlank(segment.text))
                      \o ExtractToolCalls(answer)
        blocks   == (IF returnThinking THEN thinking ELSE <<>>) \o visible
    IN  [blocks |-> IF blocks = <<>> THEN <<[kind |-> "text", text |-> <<>>]>> ELSE blocks,
         stop   |-> AnswerStopReason(answer.finish, SelectSeq(visible, IsTool) # <<>>)]
-----------------------------------------------------------------------------
(* _postprocess_tool_calls(): an answer without tool calls in its text     *)
(* stays as it is, tags included; otherwise they take the place of the     *)
(* native ones.                                                            *)
PostprocessToolCalls(answer) ==
    LET segments == ParseComplete(answer.content)
        tools    == OfKind("tool_use", segments)
    IN  IF tools = <<>> THEN answer
        ELSE [answer EXCEPT !.content = Strip(TextOf("text", segments)),
                            !.calls = tools, !.finish = "tool_calls"]

=============================================================================
