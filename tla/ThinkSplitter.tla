----------------------------- MODULE ThinkSplitter -----------------------------
(***************************************************************************)
(* tools/think_splitter.py: separating <think>...</think> from the visible *)
(* text, in one go (strip_think_complete) and incrementally                *)
(* (IncrementalThinkSplitter).  A splitter is a record of its two fields.  *)
(***************************************************************************)
EXTENDS TagText

NewSplitter == [buffer |-> <<>>, inThink |-> FALSE]

KindOf(splitter) == IF splitter.inThink THEN "thinking" ELSE "text"
NextTag(splitter) == IF splitter.inThink THEN ThinkClose ELSE ThinkOpen

(* A pass of the loop of feed(): up to the tag it looks for, if it is there. *)
CutTag(fed, pass) ==
    LET s  == fed.splitter
        at == Find(NextTag(s), s.buffer)
    IN  IF at = 0 THEN fed
        ELSE [splitter |-> [buffer |-> Drop(s.buffer, at + TagLen - 1), inThink |-> ~s.inThink],
              segments |-> fed.segments \o Segment(KindOf(s), Take(s.buffer, at - 1))]

(* The last pass: all but the longest end that could be the start of a tag. *)
EmitSafe(fed) ==
    LET s    == fed.splitter
        safe == SafeLength(s.buffer)
    IN  IF safe <= 0 THEN fed
        ELSE [splitter |-> [s EXCEPT !.buffer = Drop(@, safe)],
              segments |-> fed.segments \o Segment(KindOf(s), Take(s.buffer, safe))]

SplitLoop(splitter) ==
    EmitSafe(FoldLeft(CutTag, [splitter |-> splitter, segments |-> <<>>],
                      Passes(splitter.buffer)))

SplitFeed(splitter, content) ==
    IF content = <<>> THEN [splitter |-> splitter, segments |-> <<>>]
    ELSE SplitLoop([splitter EXCEPT !.buffer = @ \o content])

(* flush(): what is left, and the emptied splitter. *)
SplitFlush(splitter) ==
    [splitter |-> [splitter EXCEPT !.buffer = <<>>],
     segments |-> Segment(KindOf(splitter), splitter.buffer)]

(* A pass of strip_think_complete(): up to the end of a block, if there is *)
(* a whole one.                                                            *)
CutBlock(seen, pass) ==
    LET open  == Find(ThinkOpen, seen.rest)
        after == Drop(seen.rest, open + TagLen - 1)
        close == Find(ThinkClose, after)
    IN  IF open = 0 \/ close = 0 THEN seen
        ELSE [rest     |-> Drop(after, close + TagLen - 1),
              text     |-> seen.text \o Take(seen.rest, open - 1),
              thinking |-> seen.thinking \o Take(after, close - 1)]

(* The last pass: an unclosed block is thinking to the end. *)
StripThink(text) ==
    LET seen == FoldLeft(CutBlock, [rest |-> text, text |-> <<>>, thinking |-> <<>>],
                         Passes(text))
        open == Find(ThinkOpen, seen.rest)
        end  == IF open = 0 THEN Len(seen.rest) ELSE open - 1
    IN  [text     |-> seen.text \o Take(seen.rest, end),
         thinking |-> seen.thinking \o Drop(seen.rest, end + TagLen)]

=============================================================================
