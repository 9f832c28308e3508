------------------------------ MODULE PromptText ------------------------------
(***************************************************************************)
(* The text of the prompts that go upstream, as tools/prompt_builder.py    *)
(* makes it: a sequence of parts.  A plain text is its length, and texts   *)
(* that differ have different lengths.  A tag, a separator or a line of    *)
(* instructions counts as one character: sizes matter only in how they     *)
(* compare, and the properties hold whatever the weights.                  *)
(***************************************************************************)
EXTENDS InvokeXml

TextPart(size) == [type |-> "text", size |-> size]
CallsPart(calls) == [type |-> "calls", calls |-> RenderInvokes(calls)]
ResultPart(id, size) == [type |-> "result", id |-> id, size |-> size]
ToolsPart(tools, hint) == [type |-> "tools", tools |-> tools, hint |-> hint]

(* Python's repr of a list that was expected to be text. *)
ReprPart(size) == [type |-> "repr", size |-> size]

(* A tool: its name, what its line in the prompt and its native definition *)
(* are long.  One without a name is passed over.                           *)
Tool(name, line, schema) == [name |-> name, line |-> line, schema |-> schema]
Named(tools) ==
    FlattenSeq([i \in DOMAIN tools |-> IF tools[i].name # "" THEN <<tools[i]>> ELSE <<>>])

(* What tool_choice adds in words: "any" and "required" are one; "tool"    *)
(* comes with a name, "empty" is a tool whose name is the empty string,    *)
(* which is named in words too, and "unnamed" one without a name.          *)
Hint(choice) ==
    CASE choice = "any" -> "any"
      [] choice \in {"tool", "empty"} -> "tool"
      [] OTHER -> "none"

(* build_tools_prompt(): nothing without tools; the instructions remain    *)
(* when no tool of the list has a name.                                    *)
ToolsPrompt(tools, choice) ==
    IF tools = <<>> THEN <<>> ELSE <<ToolsPart(Named(tools), Hint(choice))>>

SumOf(Size(_), things) == FoldLeft(LAMBDA n, thing : n + Size(thing), 0, things)

PartSize(part) ==
    CASE part.type = "text" -> part.size
      [] part.type = "result" -> part.size + 2
      [] part.type = "calls" -> 2 + SumOf(LAMBDA call : 4 + Len(call.argument), part.calls)
      [] part.type = "tools" -> 1 + SumOf(LAMBDA tool : tool.line, part.tools)
      [] part.type = "repr" -> part.size + 2

TotalSize(parts) == SumOf(PartSize, parts)

(* len() of the parts joined by newlines. *)
Length(parts) ==
    IF parts = <<>> THEN 0 ELSE TotalSize(parts) + Len(parts) - 1

Message(role, parts) == [role |-> role, parts |-> parts]

=============================================================================
