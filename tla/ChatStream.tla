------------------------------ MODULE ChatStream ------------------------------
(***************************************************************************)
(* routes/chat.py, the streaming path after the first chunk: the frames    *)
(* that event_gen() sends for the chunks of the upstream, whose visible    *)
(* text is searched for tool calls (_process_stream_chunk).  The handler   *)
(* keeps the index of the next tool call across chunks and passes it by    *)
(* value; it learns the new value from the frames it sends.                *)
(***************************************************************************)
EXTENDS OneShotAnswers

CONSTANTS
    Chunks,         \* the chunks the upstream may send
    MaxChunks       \* bound on the length of the upstream's stream

(* A chunk without choices has no content, which is a text. *)
ASSUME ChunksAssumption == \A chunk \in Chunks :
    /\ chunk.content \in Seq(Range(chunk.content))
    /\ chunk.choices \in BOOLEAN
    /\ ~chunk.choices => chunk.content = <<>>

(* A chunk: content is <<>> when there is none; native says whether it     *)
(* carries native tool calls; a chunk without choices carries usage only.  *)
Chunk(content, native, finish) ==
    [choices |-> TRUE, content |-> content, native |-> native, finish |-> finish]
UsageChunk == [Chunk(<<>>, FALSE, "none") EXCEPT !.choices = FALSE]

(* The frames of the client's stream. *)
TextFrame(text) == [kind |-> "text", text |-> text]
ToolFrame(index, text) == [kind |-> "tool_use", index |-> index, text |-> text]
PassedOn(chunk) == [kind |-> "chunk", native |-> chunk.native]
FinishFrame(reason) == [kind |-> "finish", reason |-> reason]
ErrorFrame == [kind |-> "error"]
Done == [kind |-> "done"]

VARIABLES
    scanner,
    toolCallIndex,
    hasToolCalls,
    sent,           \* the frames sent so far
    upstream,       \* the chunks received (history)
    phase           \* "streaming", "ended", "aborted"

vars == <<scanner, toolCallIndex, hasToolCalls, sent, upstream, phase>>
-----------------------------------------------------------------------------
(* The frames of the scanner's segments; a tool call takes the next index. *)
AddFrame(made, segment) ==
    IF segment.kind = "text"
    THEN [made EXCEPT !.frames = Append(@, TextFrame(segment.text))]
    ELSE [index  |-> made.index + 1,
          frames |-> Append(made.frames, ToolFrame(made.index, segment.text))]

Frames(segments, index) ==
    FoldLeft(AddFrame, [index |-> index, frames |-> <<>>], segments).frames

(* Mistake: the last chunk's content is overlooked. *)
ProcessUnfinishedChunk(chunk, fed, index) ==
    IF ~chunk.choices THEN <<PassedOn(chunk)>>
    ELSE IF chunk.finish # "none" THEN <<>>
    ELSE IF chunk.content # <<>> THEN Frames(fed.segments, index)
    ELSE <<PassedOn(chunk)>>

ProcessStreamChunk(chunk, fed, index) ==
    IF ~chunk.choices THEN <<PassedOn(chunk)>>
    ELSE IF chunk.content # <<>> THEN Frames(fed.segments, index)
    ELSE IF chunk.finish = "none" THEN <<PassedOn(chunk)>>
    ELSE <<>>

Tools(frames) == OfKind("tool_use", frames)

(* Mistakes: the new index, or that there was a tool, is not taken over. *)
SendKeepsIndex(frames, more) ==
    /\ sent' = sent \o frames \o more
    /\ UNCHANGED toolCallIndex
    /\ hasToolCalls' = (hasToolCalls \/ Tools(frames) # <<>>)
SendForgetsTools(frames, more) ==
    /\ sent' = sent \o frames \o more
    /\ toolCallIndex' = IF Tools(frames) = <<>> THEN toolCallIndex
                        ELSE Last(Tools(frames)).index + 1
    /\ UNCHANGED hasToolCalls

(* event_gen() sends the frames and takes over what the tool frames say. *)
Send(frames, more) ==
    /\ sent' = sent \o frames \o more
    /\ toolCallIndex' = IF Tools(frames) = <<>> THEN toolCallIndex
                        ELSE Last(Tools(frames)).index + 1
    /\ hasToolCalls' = (hasToolCalls \/ Tools(frames) # <<>>)

Init ==
    /\ scanner = NewScanner
    /\ toolCallIndex = 0
    /\ hasToolCalls = FALSE
    /\ sent = <<>>
    /\ upstream = <<>>
    /\ phase = "streaming"

Feed(chunk) ==
    LET fed == ScanFeed(scanner, chunk.content)
    IN  /\ phase = "streaming"
        /\ Len(upstream) < MaxChunks
        /\ upstream' = Append(upstream, chunk)
        /\ scanner' = fed.scanner
        /\ Send(ProcessStreamChunk(chunk, fed, toolCallIndex), <<>>)
        /\ UNCHANGED phase

(* The upstream stream ends: the scanner is flushed and a finish reason of *)
(* the gateway's own is sent.                                              *)
End ==
    LET flushed == ScanFlush(scanner)
        frames  == Frames(flushed.segments, toolCallIndex)
        finish  == IF hasToolCalls \/ Tools(frames) # <<>> THEN "tool_calls" ELSE "stop"
    IN  /\ phase = "streaming"
        /\ phase' = "ended"
        /\ scanner' = flushed.scanner
        /\ Send(frames, <<FinishFrame(finish), Done>>)
        /\ UNCHANGED upstream

(* Mistake: a broken stream is not terminated. *)
BreakOffOpen ==
    /\ phase = "streaming"
    /\ upstream # <<>>
    /\ phase' = "aborted"
    /\ sent' = Append(sent, ErrorFrame)
    /\ UNCHANGED <<scanner, toolCallIndex, hasToolCalls, upstream>>

(* The upstream stream breaks off. *)
BreakOff ==
    /\ phase = "streaming"
    /\ upstream # <<>>
    /\ phase' = "aborted"
    /\ sent' = sent \o <<ErrorFrame, Done>>
    /\ UNCHANGED <<scanner, toolCallIndex, hasToolCalls, upstream>>

Next == End \/ BreakOff \/ \E chunk \in Chunks : Feed(chunk)

Spec == Init /\ [][Next]_vars
-----------------------------------------------------------------------------
(* Properties *)

Kinds(frames) == [i \in DOMAIN frames |-> frames[i].kind]

(* Every stream is terminated once: a finish reason or an error, then      *)
(* [DONE], and nothing else in its place (chat.py:208-219).                *)
Terminated == phase # "streaming" =>
    \E body \in {Take(Kinds(sent), Len(sent) - 2)} :
       /\ Range(body) \subseteq {"text", "tool_use", "chunk"}
       /\ Kinds(sent) = body \o <<IF phase = "ended" THEN "finish" ELSE "error", "done">>

(* The tool calls of a stream are numbered 0, 1, 2, ... across chunks and  *)
(* the final flush (chat.py:168-206), as OpenAI clients merge by index;    *)
(* what the handler remembers of the frames is what it sent.               *)
ToolsAreNumbered ==
    /\ \A i \in DOMAIN Tools(sent) : Tools(sent)[i].index = i - 1
    /\ phase = "streaming" => toolCallIndex = Len(Tools(sent))

(* The client gets the text and tools of the whole content, in order,      *)
(* however it was cut (chat.py:444-467).  Left out are streams that end in *)
(* an open block and those with invokes that the two parsers do not read   *)
(* alike (Plain).                                                          *)
Content == FlattenSeq([i \in DOMAIN upstream |-> upstream[i].content])
Visible == ItemsIn({"text", "tool_use"}, sent)
ContentIsExact == phase = "ended" /\ ~scanner.inXml /\ Plain(Content) =>
    Visible = Items(ParseComplete(Content))

(* Where streaming makes no difference: a client that puts the frames      *)
(* together has the answer that _postprocess_tool_calls() makes of the     *)
(* whole one, but for white space at its ends (chat.py:365-405), and       *)
(* "tool_calls" is its finish reason exactly when it has any.  It does     *)
(* make a difference, and they are left out, for: the other finish reasons *)
(* of the upstream, such as "length", for which the stream says "stop"     *)
(* (chat.py:209); native calls; streams that end in an open block; blocks  *)
(* in which nothing parses, which only the one-shot answer keeps; invokes  *)
(* that are not plain, which ElementTree and the regular expression accept *)
(* differently, and arguments with the text of an entity, which only the   *)
(* one-shot answer decodes twice (DecodedOnce).                            *)
Assembled == Answer(<<>>, Strip(TextOf("text", sent)),
    [i \in DOMAIN Tools(sent) |-> [kind |-> "tool_use", text |-> Tools(sent)[i].text]],
    IF sent[Len(sent) - 1].reason = "tool_calls" THEN "tool_calls" ELSE "none")
Whole == Answer(<<>>, Content, <<>>, "none")
OneShotAgrees ==
    LET whole == PostprocessToolCalls(Whole)
        kept  == whole.calls = <<>> /\ Find(CallsOpen, Content) > 0
    IN  phase = "ended" /\ ~scanner.inXml /\ ~kept /\ Plain(Content) =>
            Assembled = [whole EXCEPT !.content = Strip(@)]

=============================================================================
