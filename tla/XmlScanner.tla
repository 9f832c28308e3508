------------------------------- MODULE XmlScanner -------------------------------
(***************************************************************************)
(* tools/xml_parser.py: finding <function_calls> blocks in visible text,   *)
(* in one go (parse_complete) and incrementally (IncrementalXmlScanner).   *)
(* An invoke element is one symbol: what matters is which of the two       *)
(* parsers reads it, and how often they decode its argument.               *)
(***************************************************************************)
EXTENDS TagText

NewScanner == [buffer |-> <<>>, inXml |-> FALSE]

ToolUse(invoke) == <<[kind |-> "tool_use", text |-> <<invoke>>]>>

(* What ElementTree accepts: one function_calls element, after white space *)
(* at most, in which other elements are closed in turn and no tag is cut.  *)
Enclosed(xml) == SubSeq(xml, Find(CallsOpen, xml) + TagLen, Len(xml) - TagLen)
OpenedTo(inner, i) == {j \in Occurs(ThinkOpen, inner) : j <= i}
ClosedTo(inner, i) == {j \in Occurs(ThinkClose, inner) : j <= i}
Depth(inner, i) == Cardinality(OpenedTo(inner, i)) - Cardinality(ClosedTo(inner, i))
Balanced(inner) ==
    /\ \A i \in DOMAIN inner :
          /\ inner[i] \in {"<th", "</th"} => i \in OpenedTo(inner, i) \union ClosedTo(inner, i)
          /\ inner[i] \notin {"<fun", "</fun"}
          /\ Depth(inner, i) >= 0
    /\ Depth(inner, Len(inner)) = 0
IsXml(xml) ==
    /\ Find(CallsOpen, xml) > 0 /\ Find(CallsClose, xml) = Len(xml) - TagLen + 1
    /\ IsBlank(Take(xml, Find(CallsOpen, xml) - 1))
    /\ Balanced(Enclosed(xml))

(* The invokes that are children of the root; ElementTree has decoded an   *)
(* argument when it is decoded again.                                      *)
ParseInvokesStrictly(inner) ==
    FlattenSeq([i \in DOMAIN inner |->
        IF inner[i] \in Elements \ {Nested} /\ Depth(inner, i) = 0 THEN ToolUse(Invoke) ELSE <<>>])

(* The regular expression takes no notice of anything around an invoke.    *)
ParseInvokesRegex(xml) ==
    FlattenSeq([i \in DOMAIN xml |->
        CASE xml[i] = Escaped -> ToolUse(Escaped)
          [] xml[i] \in {Invoke, Nested} -> ToolUse(Invoke)
          [] OTHER -> <<>>])

ParseInvokesFromXml(xml) ==
    IF IsXml(xml) THEN ParseInvokesStrictly(Enclosed(xml)) ELSE ParseInvokesRegex(xml)

(* A pass of the loop of feed(): up to the tag it looks for, if it is      *)
(* there.  A block has lost its opening tag when it is parsed, which       *)
(* ElementTree rejects, unless it begins with another one.                 *)
CutCalls(fed, pass) ==
    LET x      == fed.scanner
        at     == Find(IF x.inXml THEN CallsClose ELSE CallsOpen, x.buffer)
        before == Take(x.buffer, at - 1)
    IN  IF at = 0 THEN fed
        ELSE [scanner  |-> [buffer |-> Drop(x.buffer, at + TagLen - 1), inXml |-> ~x.inXml],
              segments |-> fed.segments \o (IF x.inXml THEN ParseInvokesFromXml(before \o CallsClose)
                                            ELSE Segment("text", before))]

(* The last pass: inside a block everything is held until it closes. *)
ScanSafe(fed) ==
    LET x    == fed.scanner
        safe == SafeLength(x.buffer)
    IN  IF x.inXml \/ safe <= 0 THEN fed
        ELSE [scanner  |-> [x EXCEPT !.buffer = Drop(@, safe)],
              segments |-> fed.segments \o Segment("text", Take(x.buffer, safe))]

ScanLoop(scanner) ==
    ScanSafe(FoldLeft(CutCalls, [scanner |-> scanner, segments |-> <<>>],
                      Passes(scanner.buffer)))

ScanFeed(scanner, content) ==
    IF content = <<>> THEN [scanner |-> scanner, segments |-> <<>>]
    ELSE ScanLoop([scanner EXCEPT !.buffer = @ \o content])

(* flush(): an unclosed block is parsed as far as it goes, or kept as text *)
(* when nothing in it parses.  An empty buffer returns early, inXml or not. *)
ScanFlush(scanner) ==
    LET partial == CallsOpen \o scanner.buffer
    IN  [scanner |-> [scanner EXCEPT !.buffer = <<>>],
         segments |->
            IF scanner.buffer = <<>> THEN <<>>
            ELSE IF ~scanner.inXml THEN Segment("text", scanner.buffer)
            ELSE IF ParseInvokesFromXml(partial) # <<>> THEN ParseInvokesFromXml(partial)
            ELSE Segment("text", partial)]

(* A pass of parse_complete(): up to the end of a block, if there is a     *)
(* whole one, which keeps its tags.                                        *)
CutCallsBlock(seen, pass) ==
    LET open  == Find(CallsOpen, seen.rest)
        after == Drop(seen.rest, open + TagLen - 1)
        close == Find(CallsClose, after)
    IN  IF open = 0 \/ close = 0 THEN seen
        ELSE [rest     |-> Drop(after, close + TagLen - 1),
              segments |-> seen.segments \o Segment("text", Take(seen.rest, open - 1))
                             \o ParseInvokesFromXml(CallsOpen \o Take(after, close - 1 + TagLen))]

(* The last pass: an unclosed block is text, its opening tag included. *)
ParseComplete(text) ==
    LET seen == FoldLeft(CutCallsBlock, [rest |-> text, segments |-> <<>>], Passes(text))
        open == Find(CallsOpen, seen.rest)
    IN  seen.segments \o
        IF open = 0 THEN Segment("text", seen.rest)
        ELSE Segment("text", Take(seen.rest, open - 1)) \o Segment("text", Drop(seen.rest, open - 1))

(* A text that both parsers read alike: its invokes are written as the     *)
(* prompt asks, and any thinking comes before the calls.                   *)
Plain(whole) == \A i \in DOMAIN whole :
    /\ whole[i] \in Elements => whole[i] = Invoke
    /\ whole[i] = "<th" => Find(CallsOpen, Take(whole, i)) = 0

=============================================================================
