---------------------------- MODULE StreamConverter ----------------------------
(***************************************************************************)
(* converters/stream.py, StreamConverter: OpenAI stream chunks in, events  *)
(* of the Messages stream out; and the loop of routes/messages.py that     *)
(* drives it (event_gen).  Each operator of the first half is a generator  *)
(* method: it takes the converter and returns it with the events it yields *)
(* appended to out.  Nothing else touches a converter, so a call of feed() *)
(* or flush() is one step.                                                 *)
(***************************************************************************)
EXTENDS OneShotAnswers, AnthropicStream

CONSTANTS
    Chunks,         \* the chunks the upstream may send
    MaxChunks       \* bound on the length of the upstream's stream

(* What the warning of flush() says stands for itself: no content has it. *)
Sentinel == <<"sentinel">>

(* All but the usage comes in a chunk's first choice. *)
ASSUME ChunksAssumption == \A chunk \in Chunks :
    /\ chunk.reasoning \in Seq(Range(chunk.reasoning))
    /\ ~chunk.choices => chunk.content = <<>> /\ chunk.reasoning = <<>> /\ chunk.finish = "none"
    /\ chunk.content \in Seq(Range(chunk.content) \ Range(Sentinel))
    /\ chunk.choices \in BOOLEAN /\ chunk.usage \in BOOLEAN

(* Nothing looks into reasoning, so its symbols may say where they came    *)
(* from: they are in no content and in no tag.                             *)
Reasons == UNION {Range(chunk.reasoning) : chunk \in Chunks}
Markup == Elements \union {"<th", "ink>", "</th", "/ink>", "<fun", "calls>", "</fun", "/calls>"}
ASSUME ReasonsAssumption ==
    Reasons \intersect (Markup \union UNION {Range(chunk.content) : chunk \in Chunks}) = {}

VARIABLES
    returnThinking, \* _return_thinking, fixed for a request
    converter,
    client,         \* the client's view of the events sent so far
    upstream,       \* the chunks received (history)
    phase           \* "feeding", "ended", "aborted"

vars == <<returnThinking, converter, client, upstream, phase>>

NewConverter == [
    started |-> FALSE, nextIndex |-> 0, currentBlock |-> "none", finish |-> "none",
    hasToolUse |-> FALSE, hasVisible |-> FALSE, usage |-> FALSE, native |-> <<>>,
    splitter |-> NewSplitter, scanner |-> NewScanner, out |-> <<>>]

(* The parts of a chunk.  A chunk without choices carries usage only;      *)
(* tools is "none" when delta.tool_calls is not a list, otherwise "empty"  *)
(* or "call", a call with its name.                                        *)
Chunk(reasoning, content, tools, finish) == [
    choices |-> TRUE, reasoning |-> reasoning, content |-> content,
    tools |-> tools, finish |-> finish, usage |-> FALSE]
UsageChunk == [Chunk(<<>>, <<>>, "none", "none") EXCEPT !.choices = FALSE, !.usage = TRUE]

NativeCall == <<"call">>
-----------------------------------------------------------------------------
(* Blocks *)

Yield(c, events) == [c EXCEPT !.out = @ \o events]

CloseCurrentBlock(c) ==
    IF c.currentBlock = "none" THEN c
    ELSE [Yield(c, <<BlockStop(c.nextIndex - 1)>>) EXCEPT !.currentBlock = "none"]

EnsureBlock(c, block) ==
    LET closed == CloseCurrentBlock(c)
    IN  IF c.currentBlock = block THEN c
        ELSE [Yield(closed, <<BlockStart(c.nextIndex, block)>>)
                EXCEPT !.nextIndex = @ + 1, !.currentBlock = block]

EmitDelta(c, block, text) ==
    LET d == EnsureBlock(c, block)
    IN  Yield(d, <<BlockDelta(d.nextIndex - 1, block, text)>>)

(* Mistake: the open block is not closed. *)
EmitToolUseInside(c, input) ==
    LET i == c.nextIndex
    IN  [Yield(c, <<BlockStart(i, "tool_use"), BlockDelta(i, "tool_use", input), BlockStop(i)>>)
           EXCEPT !.nextIndex = @ + 1, !.hasToolUse = TRUE, !.hasVisible = TRUE]

EmitToolUseBlock(c, input) ==
    LET i == c.nextIndex
    IN  [Yield(CloseCurrentBlock(c), <<BlockStart(i, "tool_use"),
                                       BlockDelta(i, "tool_use", input), BlockStop(i)>>)
           EXCEPT !.nextIndex = @ + 1, !.hasToolUse = TRUE, !.hasVisible = TRUE]
-----------------------------------------------------------------------------
(* Segments *)

EmitXmlSegment(c, segment) ==
    IF segment.kind = "tool_use" THEN EmitToolUseBlock(c, segment.text)
    ELSE EmitDelta([c EXCEPT !.hasVisible = TRUE], "text", segment.text)

EmitThinkSegment(c, segment) ==
    LET fed == ScanFeed(c.scanner, segment.text)
    IN  CASE segment.kind = "text" ->
                FoldLeft(EmitXmlSegment, [c EXCEPT !.scanner = fed.scanner], fed.segments)
          [] segment.kind = "thinking" /\ returnThinking ->
                EmitDelta(c, "thinking", segment.text)
          [] OTHER -> c

ProcessContent(c, content) ==
    LET fed == SplitFeed(c.splitter, content)
    IN  FoldLeft(EmitThinkSegment, [c EXCEPT !.splitter = fed.splitter], fed.segments)
-----------------------------------------------------------------------------
(* feed() *)

Start(c) == IF c.started THEN c ELSE [Yield(c, <<MessageStart>>) EXCEPT !.started = TRUE]

(* Mistakes: reasoning goes to every client; reasoning counts as visible. *)
FeedReasoningAlways(c, reasoning) ==
    IF reasoning # <<>> THEN EmitDelta(c, "thinking", reasoning) ELSE c
FeedReasoningVisibly(c, reasoning) ==
    IF reasoning # <<>> /\ returnThinking
    THEN EmitDelta([c EXCEPT !.hasVisible = TRUE], "thinking", reasoning) ELSE c

FeedReasoning(c, reasoning) ==
    IF reasoning # <<>> /\ returnThinking THEN EmitDelta(c, "thinking", reasoning) ELSE c

(* The calls are accumulated, and then "yield from" finds None: the        *)
(* method contains no yield, hence is no generator.                        *)
AccumulateNative(c, tools) ==
    IF tools = "call" THEN [c EXCEPT !.native = Append(@, NativeCall)] ELSE c
Raises(chunk) == chunk.choices /\ chunk.tools # "none"

Finish(c, finish) == IF finish = "none" THEN c ELSE [c EXCEPT !.finish = finish]

(* The converter after feed(chunk), whether it returned or raised. *)
Fed(c, chunk) ==
    LET captured == [c EXCEPT !.usage = @ \/ chunk.usage]
        content  == ProcessContent(FeedReasoning(Start(captured), chunk.reasoning),
                                   chunk.content)
        native   == AccumulateNative(content, chunk.tools)
    IN  CASE ~chunk.choices -> captured
          [] Raises(chunk)  -> native
          [] OTHER          -> Finish(native, chunk.finish)
-----------------------------------------------------------------------------
(* flush() *)

StopReasonMap == [
    stop |-> "end_turn", length |-> "max_tokens", tool_calls |-> "tool_use",
    function_call |-> "tool_use", content_filter |-> "end_turn"]

(* Mistake: tools found in the text do not count. *)
StopReasonMapped(c) ==
    IF c.finish \in DOMAIN StopReasonMap THEN StopReasonMap[c.finish] ELSE "end_turn"

StopReason(c) ==
    LET mapped == IF c.finish \in DOMAIN StopReasonMap THEN StopReasonMap[c.finish]
                  ELSE "end_turn"
    IN  IF c.hasToolUse /\ mapped = "end_turn" THEN "tool_use" ELSE mapped

EmitAccumulated(c) == FoldLeft(EmitToolUseBlock, c, c.native)

(* Mistake: the scanner is flushed before the splitter that feeds it. *)
DrainBackwards(c) ==
    LET x == ScanFlush(c.scanner)
        d == FoldLeft(EmitXmlSegment, [c EXCEPT !.scanner = x.scanner], x.segments)
        s == SplitFlush(d.splitter)
    IN  FoldLeft(EmitThinkSegment, [d EXCEPT !.splitter = s.splitter], s.segments)

Drain(c) ==
    LET s == SplitFlush(c.splitter)
        d == FoldLeft(EmitThinkSegment, [c EXCEPT !.splitter = s.splitter], s.segments)
        x == ScanFlush(d.scanner)
    IN  FoldLeft(EmitXmlSegment, [d EXCEPT !.scanner = x.scanner], x.segments)

(* The upstream spent its whole budget on reasoning: say so. *)
Warn(c) ==
    IF c.finish = "length" /\ ~c.hasVisible THEN EmitDelta(c, "text", Sentinel) ELSE c

Flushed(c) ==
    LET drained == CloseCurrentBlock(LET d == Warn(Drain(EmitAccumulated(c)))
                                     IN  IF d.started THEN d ELSE Yield(d, <<MessageStart>>))
    IN  Yield(drained, <<MessageDelta(StopReason(drained), drained.usage), MessageStop>>)
-----------------------------------------------------------------------------
(* event_gen() of routes/messages.py *)

Init ==
    /\ returnThinking \in BOOLEAN
    /\ converter = NewConverter
    /\ client = NewClient
    /\ upstream = <<>>
    /\ phase = "feeding"

(* The client receives what the call yielded. *)
Send(c, events) ==
    /\ converter' = [c EXCEPT !.out = <<>>]
    /\ client' = Receive(client, events)
    /\ UNCHANGED returnThinking

Feed(chunk) ==
    LET fed == Fed(converter, chunk)
    IN  /\ phase = "feeding"
        /\ Len(upstream) < MaxChunks
        /\ upstream' = Append(upstream, chunk)
        /\ IF Raises(chunk)
           THEN Send(fed, fed.out \o <<ErrorEvent>>) /\ phase' = "aborted"
           ELSE Send(fed, fed.out) /\ UNCHANGED phase

(* The upstream stream ends. *)
Flush ==
    LET flushed == Flushed(converter)
    IN  /\ phase = "feeding"
        /\ Send(flushed, flushed.out)
        /\ phase' = "ended"
        /\ UNCHANGED upstream

(* The upstream stream breaks off: an error event, and no flush(). *)
BreakOff ==
    /\ phase = "feeding"
    /\ Len(upstream) > 0
    /\ Send(converter, <<ErrorEvent>>)
    /\ phase' = "aborted"
    /\ UNCHANGED upstream

Next == Flush \/ BreakOff \/ \E chunk \in Chunks : Feed(chunk)

Spec == Init /\ [][Next]_vars
-----------------------------------------------------------------------------
(* Properties *)

(* The events match the contract of the Messages stream (stream.py:3-5):   *)
(* every prefix is legal, and a stream that ends is complete, with every   *)
(* block closed and numbered in order, even when nothing arrived.          *)
WellFormed ==
    /\ client.phase # "illegal"
    /\ phase = "ended" => client.phase = "stopped"
    /\ phase = "aborted" => client.phase = "failed"

Content == FlattenSeq([i \in DOMAIN upstream |-> upstream[i].content])
Reasoning == FlattenSeq([i \in DOMAIN upstream |-> upstream[i].reasoning])
Shown == ItemsIn({"text", "tool_use"}, client.blocks)
Warning == <<"text", Sentinel[1]>>

(* However the content is cut into chunks and whatever reasoning comes in  *)
(* between, the client gets the text and the tools that the one-shot       *)
(* functions find in the whole content, in the same order, each once       *)
(* (stream.py:153-187); the warning at most if they find nothing.  Left    *)
(* out are streams that end in an open block and those with invokes that   *)
(* the two parsers do not read alike (Plain).                              *)
ContentIsExact ==
    LET visible == StripThink(Content).text
        found   == Items(ParseComplete(visible))
    IN  phase = "ended" /\ ~converter.scanner.inXml /\ Plain(visible) =>
            Shown = found \/ (found = <<>> /\ Shown = <<Warning>>)

(* The part of a client's thinking that is reasoning, or that is not. *)
Part(reasoned, thinking) ==
    FlattenSeq([i \in DOMAIN thinking |->
        IF thinking[i] \in Reasons <=> reasoned THEN <<thinking[i]>> ELSE <<>>])

(* All thinking reaches a client that asked for it, from both sources, and *)
(* none reaches any other (stream.py:106-112, 160-169).                    *)
ThinkingIsExact == phase = "ended" =>
    LET thinking == TextOf("thinking", client.blocks)
    IN  IF returnThinking
        THEN /\ Part(TRUE, thinking) = Reasoning
             /\ Part(FALSE, thinking) = StripThink(Content).thinking
        ELSE thinking = <<>>

(* The whole answer, had it come in one piece. *)
Whole == Answer(Reasoning, Content,
    FlattenSeq([i \in DOMAIN upstream |->
        IF upstream[i].tools = "call" THEN <<[kind |-> "tool_use", text |-> NativeCall]>>
        ELSE <<>>]),
    LET finishes == SelectSeq(upstream, LAMBDA chunk : chunk.finish # "none")
    IN  IF finishes = <<>> THEN "none" ELSE Last(finishes).finish)

(* The client has seen the answer, or the beginning of it if the stream    *)
(* breaks off, but for white space and the warning.                        *)
Ink(items) == SelectSeq(items, LAMBDA item : item[2] # Blank /\ item # Warning)
AgreesWith(whole) ==
    LET ink == Ink(Items(SelectSeq(whole.blocks, LAMBDA block : block.kind # "thinking")))
    IN  /\ phase = "ended" /\ ~converter.scanner.inXml => Ink(Shown) = ink /\ client.stop = whole.stop
        /\ phase = "aborted" => IsPrefix(Ink(Shown), ink)

(* Where streaming makes no difference: but for white space and the        *)
(* warning, the client sees what convert_response() makes of the whole     *)
(* answer, with the same stop reason, and of a stream that breaks off the  *)
(* beginning of it (response.py:51-78, stream.py:244-247).  It does make a *)
(* difference, and they are left out, for streams that end in an open      *)
(* block and for invokes that are not plain: those the regular expression  *)
(* passes over, and those ElementTree does; arguments with the text of an  *)
(* entity, which only the one-shot answer decodes twice (DecodedOnce).     *)
OneShotAgrees == phase # "feeding" /\ Plain(StripThink(Content).text) =>
    AgreesWith(ConvertResponse(Whole, returnThinking))

(* "The client never sees an empty assistant message" when the upstream    *)
(* ran out of tokens (test_stream_convert.py:421-422), and the warning is  *)
(* never added to a message that has something to show.                    *)
NeverSilent == phase = "ended" =>
    /\ converter.finish = "length" => Shown # <<>>
    /\ Warning \in Range(Shown) => Shown = <<Warning>> /\ converter.finish = "length"

(* "Accumulate streaming tool_call deltas. Emit tool_use blocks when a new *)
(* tool call starts (we get its name)" (stream.py:263-264).                *)
NativeCallsAreEmitted ==
    phase # "feeding" /\ (\E i \in DOMAIN upstream : upstream[i].tools = "call") =>
        <<"tool_use", NativeCall[1]>> \in Range(Shown)

=============================================================================
