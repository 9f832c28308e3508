------------------------------- MODULE MCRequests -------------------------------
(* The profiles of request.py:68-90 and two small ones; requests that each *)
(* vary one thing: sizes, the blocks of a turn, the argument of a call,    *)
(* the tools, the messages of a chat.                                      *)
EXTENDS RequestConversion

Pro == [context |-> 65535, buffer |-> 8192, floor |-> 16384, margin |-> 2048, cap |-> 65535]
Flash == [context |-> 65535, buffer |-> 16384, floor |-> 32768, margin |-> 2048, cap |-> NoCap]
Small == [context |-> 12, buffer |-> 2, floor |-> 4, margin |-> 1, cap |-> 6]
Tight == [Small EXCEPT !.cap = 3]

MCProfiles == {Pro, Flash, Small, Tight}

(* Inputs at which the floor or the cap takes over, in tokens. *)
Around(n) == {n - 1, n, n + 1}
Turns == {1, 4, 5, 6, 7, 100} \union UNION {Around(n) : n \in
            {30719, 33000, 47103, 65535, 65535 - 2048 - 32768, 65535 - 2048 - 16384}}
Sizes == {0} \union {3 * n + k : n \in Turns, k \in {0, 2}}
Limits == (0..8) \union {8192, 16384, 32000, 65535, 65536, 500000}

Plain == [route |-> "messages", profile |-> Pro, maxTokens |-> 4096, system |-> <<7>>,
          tools |-> <<>>, choice |-> "none", messages |-> <<>>]
Turn(role, blocks) == [role |-> role, shape |-> "array", blocks |-> blocks]

Search == Tool("search", 20, 60)
Schema == Tool("schema", 20, 98304)
Nameless == Tool("", 20, 60)
ToolLists == {<<>>, <<Search>>, <<Nameless>>, <<Nameless, Search>>}

Sized == [Plain EXCEPT !.system = <<>>]
SizedRequests ==
    {[Sized EXCEPT !.profile = p, !.maxTokens = m, !.tools = t,
                   !.messages = <<Turn("user", <<TextBlock(n)>>)>>] :
        p \in MCProfiles, m \in Limits, n \in Sizes, t \in {<<>>, <<Schema>>}}

Blocks == {TextBlock(5), TextBlock(0), ToolUse("f", <<"<", "x">>), ToolUse("", <<"x">>),
           ToolResult("1", 9), Image}
BlockRequests ==
    {[Plain EXCEPT !.tools = t, !.messages = <<Turn("user", <<TextBlock(3)>>), Turn(role, blocks)>>] :
        t \in {<<>>, <<Search>>}, role \in {"user", "assistant", "system"},
        blocks \in BoundedSeq(Blocks, 3)}
    \union {[Plain EXCEPT !.messages = <<[Turn("user", <<>>) EXCEPT !.shape = "other"]>>]}

Arguments == BoundedSeq(Symbols, 3)
CallRequests ==
    {[Plain EXCEPT !.messages = <<Turn("assistant", <<ToolUse("f", a), ToolUse("g", <<"x">>)>>)>>] :
        a \in Arguments}

ChoiceRequests ==
    {[Plain EXCEPT !.tools = t, !.choice = c, !.system = s, !.route = r,
                   !.messages = <<>>] :
        t \in ToolLists, c \in {"none", "auto", "any", "tool", "empty", "unnamed"},
        s \in {<<>>, <<0>>, <<7, 0, 8>>}, r \in {"messages", "chat"}}

ChatMessages ==
    {ChatMessage(role, parts, <<>>, "none") :
        role \in {"system", "user", "assistant"}, parts \in {<<TextPart(5)>>, <<ArrayPart(6)>>}}
    \union {ChatMessage("tool", parts, <<>>, "1") : parts \in {<<>>, <<TextPart(9)>>, <<ArrayPart(8)>>}}
    \union {ChatMessage("assistant", parts, calls, "none") :
        parts \in {<<>>, <<TextPart(4)>>, <<ArrayPart(3)>>},
        calls \in {<<Call("", <<"x">>)>>, <<Call("f", <<"&">>), Call("g", <<"x", "<">>)>>}}
ChatRequests ==
    {[Plain EXCEPT !.route = "chat", !.system = <<>>, !.tools = t, !.messages = messages] :
        t \in {<<>>, <<Nameless, Search>>}, messages \in BoundedSeq(ChatMessages, 3)}

MCFamilies == {SizedRequests, BlockRequests, CallRequests, ChoiceRequests, ChatRequests}

=============================================================================
