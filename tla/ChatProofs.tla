------------------------------- MODULE ChatProofs -------------------------------
(***************************************************************************)
(* Theorems about ChatStream, for any chunks and any number of them.  What *)
(* the scanner does is taken from ScannerProofs; what is new is that each  *)
(* finding becomes one frame, and that a client which puts the frames      *)
(* together has the text and the tool calls of the items it was sent.      *)
(***************************************************************************)
EXTENDS ChatStream, TLAPS

(* The symbols of the content, and the theory of the scanner over them. *)
ContentSymbols == UNION {Range(chunk.content) : chunk \in Chunks}
Streams == INSTANCE ScannerProofs WITH
    Alphabets <- {ContentSymbols}, MaxText <- 0, MaxChunk <- 1,
    text <- <<>>, splitter <- NewSplitter, scanner <- NewScanner,
    split <- <<>>, scanned <- <<>>, ended <- FALSE

Framing == INSTANCE FoldTheorems WITH Op <- AddFrame
Cuts == INSTANCE FoldTheorems WITH Op <- CutCalls
Blocks == INSTANCE FoldTheorems WITH Op <- CutCallsBlock
-----------------------------------------------------------------------------
(* The scanner of the stream is that of ScannerProofs *)

LEMMA SameHelpers ==
    /\ \A tag, s : Streams!Find(tag, s) = Find(tag, s)
    /\ \A s, n : Streams!Take(s, n) = Take(s, n) /\ Streams!Drop(s, n) = Drop(s, n)
    /\ \A kind, s : Streams!Segment(kind, s) = Segment(kind, s)
    /\ \A s : Streams!FlattenSeq(s) = FlattenSeq(s)
    /\ \A s : Streams!Passes(s) = Passes(s)
    /\ Streams!CallsOpen = CallsOpen /\ Streams!CallsClose = CallsClose
    /\ Streams!TagLen = TagLen /\ Streams!Invoke = Invoke
<1>1. \A tag, s : Streams!Find(tag, s) = Find(tag, s)
  BY Zenon DEF Streams!Find, Find, Streams!Occurs, Occurs, Streams!TagLen, TagLen
<1>2. \A s, n : Streams!Take(s, n) = Take(s, n) /\ Streams!Drop(s, n) = Drop(s, n)
  BY Zenon DEF Streams!Take, Take, Streams!Drop, Drop
<1>3. \A kind, s : Streams!Segment(kind, s) = Segment(kind, s)
  BY Zenon DEF Streams!Segment, Segment
<1>4. \A s : Streams!FlattenSeq(s) = FlattenSeq(s)
  BY Zenon DEF Streams!FlattenSeq, FlattenSeq, Streams!FoldLeft, FoldLeft,
               Streams!MapThenFoldSet, MapThenFoldSet, Streams!Max, Max
<1>5. \A s : Streams!Passes(s) = Passes(s)
  BY Zenon DEF Streams!Passes, Passes, Streams!TagLen, TagLen
<1>6. /\ Streams!CallsOpen = CallsOpen /\ Streams!CallsClose = CallsClose
      /\ Streams!TagLen = TagLen /\ Streams!Invoke = Invoke
  BY Zenon DEF Streams!CallsOpen, CallsOpen, Streams!CallsClose, CallsClose,
               Streams!TagLen, TagLen, Streams!Invoke, Invoke
<1> QED BY <1>1, <1>2, <1>3, <1>4, <1>5, <1>6

LEMMA SameReading == \A xml : Streams!ParseInvokesFromXml(xml) = ParseInvokesFromXml(xml)
<1>1. \A inner, i : Streams!Depth(inner, i) = Depth(inner, i)
  BY Zenon DEF Streams!Depth, Depth, Streams!OpenedTo, OpenedTo, Streams!ClosedTo, ClosedTo,
               Streams!Cardinality, Cardinality, Streams!Occurs, Occurs, Streams!TagLen, TagLen,
               Streams!ThinkOpen, ThinkOpen, Streams!ThinkClose, ThinkClose
<1>2. \A inner, i : /\ Streams!OpenedTo(inner, i) = OpenedTo(inner, i)
                    /\ Streams!ClosedTo(inner, i) = ClosedTo(inner, i)
  BY Zenon DEF Streams!OpenedTo, OpenedTo, Streams!ClosedTo, ClosedTo,
               Streams!Occurs, Occurs, Streams!TagLen, TagLen,
               Streams!ThinkOpen, ThinkOpen, Streams!ThinkClose, ThinkClose
<1>3. \A s : Streams!IsBlank(s) = IsBlank(s)
  BY Zenon DEF Streams!IsBlank, IsBlank, Streams!Range, Range, Streams!Blank, Blank
<1>4. \A xml : Streams!Enclosed(xml) = Enclosed(xml)
  BY SameHelpers, Zenon DEF Streams!Enclosed, Enclosed
<1>5. /\ Streams!Elements = Elements /\ Streams!Nested = Nested
      /\ Streams!Escaped = Escaped /\ \A t : Streams!ToolUse(t) = ToolUse(t)
  BY Zenon DEF Streams!Elements, Elements, Streams!Nested, Nested, Streams!Escaped, Escaped,
               Streams!Quoted, Quoted, Streams!Invoke, Invoke, Streams!ToolUse, ToolUse
<1>6. ASSUME NEW xml PROVE Streams!IsXml(xml) = IsXml(xml)
  <2> DEFINE inner == Enclosed(xml)
  <2>1. Streams!Enclosed(xml) = inner
    BY <1>4
  <2> HIDE DEF inner
  <2>2. Streams!IsXml(xml)
          = /\ Find(CallsOpen, xml) > 0 /\ Find(CallsClose, xml) = Len(xml) - TagLen + 1
            /\ IsBlank(Take(xml, Find(CallsOpen, xml) - 1))
            /\ \A i \in DOMAIN inner :
                  /\ inner[i] \in {"<th", "</th"}
                       => i \in OpenedTo(inner, i) \union ClosedTo(inner, i)
                  /\ inner[i] \notin {"<fun", "</fun"}
                  /\ Depth(inner, i) >= 0
            /\ Depth(inner, Len(inner)) = 0
    BY <1>1, <1>2, <1>3, <2>1, SameHelpers DEF Streams!IsXml, Streams!Balanced
  <2> QED BY <2>2 DEF IsXml, Balanced, inner
<1>7. ASSUME NEW inner PROVE Streams!ParseInvokesStrictly(inner) = ParseInvokesStrictly(inner)
  <2> DEFINE read == [i \in DOMAIN inner |->
                IF inner[i] \in Elements \ {Nested} /\ Depth(inner, i) = 0 THEN ToolUse(Invoke) ELSE <<>>]
  <2>1. Streams!ParseInvokesStrictly(inner) = Streams!FlattenSeq(read)
    BY <1>1, <1>5, SameHelpers DEF Streams!ParseInvokesStrictly
  <2>2. ParseInvokesStrictly(inner) = FlattenSeq(read)
    BY Zenon DEF ParseInvokesStrictly
  <2> QED BY <2>1, <2>2, SameHelpers
<1>8. ASSUME NEW xml PROVE Streams!ParseInvokesRegex(xml) = ParseInvokesRegex(xml)
  <2> DEFINE read == [i \in DOMAIN xml |->
                CASE xml[i] = Escaped -> ToolUse(Escaped)
                  [] xml[i] \in {Invoke, Nested} -> ToolUse(Invoke)
                  [] OTHER -> <<>>]
  <2>1. Streams!ParseInvokesRegex(xml) = Streams!FlattenSeq(read)
    BY <1>5, SameHelpers DEF Streams!ParseInvokesRegex
  <2>2. ParseInvokesRegex(xml) = FlattenSeq(read)
    BY Zenon DEF ParseInvokesRegex
  <2> QED BY <2>1, <2>2, SameHelpers
<1> QED BY <1>4, <1>6, <1>7, <1>8, Zenon DEF Streams!ParseInvokesFromXml, ParseInvokesFromXml

(* Passes of the same kind add up to the same. *)
LEMMA SameCuts ==
    ASSUME NEW base, NEW s \in Seq(Nat)
    PROVE  Streams!FoldLeft(Streams!CutCalls, base, s) = FoldLeft(CutCalls, base, s)
<1>1. ASSUME NEW fed, NEW pass PROVE Streams!CutCalls(fed, pass) = CutCalls(fed, pass)
  BY SameHelpers, SameReading, Zenon DEF Streams!CutCalls, CutCalls
<1>2. Streams!FoldLeft(Streams!CutCalls, base, s) = Streams!CallCuts!Fold(base, s)
  BY Zenon DEF Streams!CallCuts!Fold, Streams!FoldLeft, Streams!CallCuts!MapThenFoldSet,
               Streams!MapThenFoldSet, Streams!CallCuts!Highest, Streams!Max
<1>3. FoldLeft(CutCalls, base, s) = Cuts!Fold(base, s)
  BY Zenon DEF Cuts!Fold, FoldLeft, Cuts!MapThenFoldSet, MapThenFoldSet, Cuts!Highest, Max
<1>4. PICK r : Streams!CallCuts!Runs(r, base, s)
  BY Streams!CallCuts!FoldRuns
<1>5. /\ r[0] = base /\ Streams!CallCuts!Fold(base, s) = r[Len(s)]
      /\ \A k \in 1..Len(s) : r[k] = CutCalls(r[k - 1], s[k])
  BY <1>1, <1>4, Zenon DEF Streams!CallCuts!Runs
<1>6. Cuts!Fold(base, s) = r[Len(s)]
  BY <1>5, Cuts!FoldIs
<1> QED BY <1>2, <1>3, <1>5, <1>6

LEMMA SameBlocks ==
    ASSUME NEW base, NEW s \in Seq(Nat)
    PROVE  Streams!FoldLeft(Streams!CutCallsBlock, base, s) = FoldLeft(CutCallsBlock, base, s)
<1>1. ASSUME NEW seen, NEW pass PROVE Streams!CutCallsBlock(seen, pass) = CutCallsBlock(seen, pass)
  BY SameHelpers, SameReading, Zenon DEF Streams!CutCallsBlock, CutCallsBlock
<1>2. Streams!FoldLeft(Streams!CutCallsBlock, base, s) = Streams!Blocks!Fold(base, s)
  BY Zenon DEF Streams!Blocks!Fold, Streams!FoldLeft, Streams!Blocks!MapThenFoldSet,
               Streams!MapThenFoldSet, Streams!Blocks!Highest, Streams!Max
<1>3. FoldLeft(CutCallsBlock, base, s) = Blocks!Fold(base, s)
  BY Zenon DEF Blocks!Fold, FoldLeft, Blocks!MapThenFoldSet, MapThenFoldSet, Blocks!Highest, Max
<1>4. PICK r : Streams!Blocks!Runs(r, base, s)
  BY Streams!Blocks!FoldRuns
<1>5. /\ r[0] = base /\ Streams!Blocks!Fold(base, s) = r[Len(s)]
      /\ \A k \in 1..Len(s) : r[k] = CutCallsBlock(r[k - 1], s[k])
  BY <1>1, <1>4, Zenon DEF Streams!Blocks!Runs
<1>6. Blocks!Fold(base, s) = r[Len(s)]
  BY <1>5, Blocks!FoldIs
<1> QED BY <1>2, <1>3, <1>5, <1>6

LEMMA SameFrames == \A base, s : Framing!Fold(base, s) = FoldLeft(AddFrame, base, s)
BY Zenon DEF Framing!Fold, FoldLeft, Framing!MapThenFoldSet, MapThenFoldSet, Framing!Highest, Max

LEMMA SameScanner ==
    ASSUME NEW x \in Streams!Scanners
    PROVE  /\ \A content \in Streams!Text : Streams!ScanFeed(x, content) = ScanFeed(x, content)
           /\ Streams!ScanFlush(x) = ScanFlush(x)
<1>1. \A fed : Streams!ScanSafe(fed) = ScanSafe(fed)
  BY Zenon DEF Streams!ScanSafe, ScanSafe, Streams!SafeLength, SafeLength,
               Streams!TagLen, TagLen,
               Streams!Take, Take, Streams!Drop, Drop, Streams!Segment, Segment
<1>2. ASSUME NEW y \in Streams!Scanners PROVE Streams!ScanLoop(y) = ScanLoop(y)
  <2> DEFINE start == [scanner |-> y, segments |-> <<>>]
             s == Passes(y.buffer)
  <2>1. s \in Seq(Nat) /\ Streams!Passes(y.buffer) = s
    BY Streams!PassesType, SameHelpers DEF Streams!Scanners
  <2> HIDE DEF s
  <2>2. Streams!FoldLeft(Streams!CutCalls, start, s) = FoldLeft(CutCalls, start, s)
    BY <2>1, SameCuts
  <2> QED BY <1>1, <2>1, <2>2, Zenon DEF Streams!ScanLoop, ScanLoop, s
<1>3. ASSUME NEW content \in Streams!Text PROVE Streams!ScanFeed(x, content) = ScanFeed(x, content)
  <2>1. [x EXCEPT !.buffer = @ \o content] \in Streams!Scanners
    BY Streams!ConcatType DEF Streams!Scanners
  <2> QED BY <1>2, <2>1, Zenon DEF Streams!ScanFeed, ScanFeed
<1>4. Streams!ScanFlush(x) = ScanFlush(x)
  BY SameReading, SameHelpers, Zenon DEF Streams!ScanFlush, ScanFlush
<1> QED BY <1>3, <1>4

LEMMA SameItems == \A s : Streams!Items(s) = Items(s)
BY SameHelpers, Zenon DEF Streams!Items, Items, Streams!ItemsOf, ItemsOf

LEMMA SameParse == \A w \in Streams!Text : Streams!ParseComplete(w) = ParseComplete(w)
<1> SUFFICES ASSUME NEW w \in Streams!Text PROVE Streams!ParseComplete(w) = ParseComplete(w)
  OBVIOUS
<1> DEFINE start == [rest |-> w, segments |-> <<>>]
           f == FoldLeft(CutCallsBlock, start, Passes(w))
           g == Streams!FoldLeft(Streams!CutCallsBlock, start, Streams!Passes(w))
           open == Find(CallsOpen, f.rest)
<1>1. g = f
  <2>1. Passes(w) \in Seq(Nat) /\ Streams!Passes(w) = Passes(w)
    BY Streams!PassesType, SameHelpers
  <2> QED BY <2>1, SameBlocks
<1>2. ParseComplete(w) = f.segments \o
          IF open = 0 THEN Segment("text", f.rest)
          ELSE Segment("text", Take(f.rest, open - 1)) \o Segment("text", Drop(f.rest, open - 1))
  BY Zenon DEF ParseComplete
<1>3. Streams!ParseComplete(w)
        = LET o == Streams!Find(Streams!CallsOpen, g.rest)
          IN  g.segments \o
              IF o = 0 THEN Streams!Segment("text", g.rest)
              ELSE Streams!Segment("text", Streams!Take(g.rest, o - 1))
                     \o Streams!Segment("text", Streams!Drop(g.rest, o - 1))
  BY Zenon DEF Streams!ParseComplete
<1> HIDE DEF f, g
<1> QED BY <1>1, <1>2, <1>3, SameHelpers

(* Ready for more: what is held back cannot hide a whole tag. *)
Settled(x) == Streams!HoldsLittle(x) /\ Streams!Cleared(x)

LEMMA ScanPart ==
    ASSUME NEW x \in Streams!Scanners, Settled(x), NEW t \in Streams!Text,
           NEW fed, fed = ScanFeed(x, t)
    PROVE  /\ fed.scanner \in Streams!Scanners /\ Settled(fed.scanner)
           /\ fed.segments \in Streams!Findings
           /\ \A u \in Streams!Text :
                Streams!Items(fed.segments) \o Streams!Xml(fed.scanner.inXml, fed.scanner.buffer \o u)
                  = Streams!Xml(x.inXml, x.buffer \o (t \o u))
<1>1. fed = Streams!ScanFeed(x, t)
  BY SameScanner
<1>2. /\ fed \in Streams!ScanFeds /\ Settled(fed.scanner)
      /\ \A u \in Streams!Text :
           Streams!XmlTotal(fed, u) = Streams!Xml(x.inXml, x.buffer \o (t \o u))
  BY <1>1, Streams!ScanFeedMoves DEF Settled
<1>3. fed.scanner \in Streams!Scanners /\ fed.segments \in Streams!Findings
  BY <1>2, Streams!ScanFedParts
<1> QED BY <1>2, <1>3 DEF Streams!XmlTotal

LEMMA ScanEnd ==
    ASSUME NEW x \in Streams!Scanners, NEW fed, fed = ScanFlush(x)
    PROVE  /\ fed.scanner \in Streams!Scanners /\ fed.segments \in Streams!Findings
           /\ fed.scanner.inXml = x.inXml
           /\ Streams!Cleared(x) /\ ~x.inXml =>
                Streams!Items(fed.segments) = Streams!Xml(x.inXml, x.buffer)
<1>1. fed = Streams!ScanFlush(x)
  BY SameScanner
<1>2. fed \in Streams!ScanFeds
  BY <1>1, Streams!ScanFlushKeeps
<1>3. fed.scanner \in Streams!Scanners /\ fed.segments \in Streams!Findings
  BY <1>2, Streams!ScanFedParts
<1>4. fed.scanner.inXml = x.inXml
  <2>1. fed.scanner = [x EXCEPT !.buffer = <<>>]
    BY DEF ScanFlush
  <2> QED BY <2>1 DEF Streams!Scanners
<1>5. ASSUME Streams!Cleared(x), ~x.inXml
      PROVE  Streams!Items(fed.segments) = Streams!Xml(x.inXml, x.buffer)
  <2> DEFINE block == Streams!LeftOpen(x.inXml, x.buffer)
             m == Streams!Xml(x.inXml, x.buffer)
             tools == Streams!Salvaged(block)
  <2>1. x.inXml \in BOOLEAN /\ x.buffer \in Streams!Text
        /\ Streams!Find(Streams!CallTag(x.inXml), x.buffer) = 0
    BY <1>5 DEF Streams!Scanners, Streams!Cleared
  <2>2. block = <<>>
    BY <1>5, <2>1, Streams!OpenPlain
  <2>3. tools = <<>>
    <3>1. \A i \in 1..Len(<<>>) : <<>>[i] \notin Streams!Elements
      OBVIOUS
    <3>2. Streams!ParseInvokesFromXml(<<>>) = <<>>
      BY <3>1, Streams!EmptyText, Streams!NoInvokes
    <3> QED BY <2>2, <3>2, Streams!ItemsEmpty DEF Streams!Salvaged
  <2>4. block # Streams!CallsOpen
    BY <2>2 DEF Streams!CallsOpen
  <2> HIDE DEF block, m
  <2>5. ~(tools # <<>> \/ block = Streams!CallsOpen) => Streams!Items(fed.segments) = m
    <3>1. block = Streams!LeftOpen(x.inXml, x.buffer) /\ m = Streams!Xml(x.inXml, x.buffer)
      BY DEF block, m
    <3> QED BY <1>1, <1>5, <3>1, Streams!ScanFlushMeans
  <2> QED BY <2>3, <2>4, <2>5 DEF m
<1> QED BY <1>3, <1>4, <1>5

LEMMA NewScannerIs ==
    /\ NewScanner \in Streams!Scanners /\ Settled(NewScanner)
    /\ NewScanner.buffer = <<>> /\ NewScanner.inXml = FALSE
<1>1. <<>> \in Streams!Text /\ Len(<<>>) = 0
  BY DEF Streams!Text
<1>2. Streams!Find(Streams!CallsOpen, <<>>) = 0
  <2> DEFINE n == Streams!Find(Streams!CallsOpen, <<>>)
  <2>1. n \in Nat /\ (n > 0 => n \in 1..(Len(<<>>) - 1))
    BY Streams!EmptyText, Streams!Tags, Streams!FindWhere, Streams!FindBounds
  <2> HIDE DEF n
  <2> QED BY <1>1, <2>1 DEF n
<1>3. Streams!Cleared(NewScanner)
  BY <1>2 DEF Streams!Cleared, Streams!CallTag, NewScanner
<1> QED BY <1>1, <1>3 DEF NewScanner, Streams!Scanners, Streams!HoldsLittle, Settled
-----------------------------------------------------------------------------
(* Frames *)

TextFrames == [kind : {"text"}, text : Streams!Text \ {<<>>}]
ToolFrames == [kind : {"tool_use"}, index : Nat, text : Streams!Tools]
Body == TextFrames \union ToolFrames \union {PassedOn(chunk) : chunk \in Chunks}
Closings == {FinishFrame("tool_calls"), FinishFrame("stop"), ErrorFrame, Done}
Frame == Body \union Closings

(* What a frame shows, and whether it is a tool call. *)
Shown == {"text", "tool_use"}
SeenMap == [f \in Frame |-> IF f.kind \in Shown THEN ItemsOf(f) ELSE <<>>]
ToolMap == [f \in Frame |-> IF f.kind = "tool_use" THEN <<f>> ELSE <<>>]
ItemSet == Streams!Kinds \X Streams!Symbols
Seen(frames) == ItemsIn(Shown, frames)

LEMMA FrameIs ==
    ASSUME NEW f \in Frame
    PROVE  /\ f.kind \in {"text", "tool_use", "chunk", "finish", "error", "done"}
           /\ f.kind = "text" => f \in TextFrames
           /\ f.kind = "tool_use" => f \in ToolFrames
           /\ f.kind \in Shown => f.text \in Streams!Text \ {<<>>}
           /\ f \in Body => f.kind \in {"text", "tool_use", "chunk"}
<1>1. Streams!Tools \subseteq Streams!Text \ {<<>>}
  BY Streams!InvokeText
<1>2. CASE f \in TextFrames
  BY <1>2 DEF TextFrames, Shown
<1>3. CASE f \in ToolFrames
  BY <1>1, <1>3 DEF ToolFrames, Shown
<1>4. CASE \E chunk \in Chunks : f = PassedOn(chunk)
  BY <1>4 DEF PassedOn, Shown
<1>5. CASE f \in Closings
  <2>1. f.kind \in {"finish", "error", "done"}
    BY <1>5 DEF Closings, FinishFrame, ErrorFrame, Done
  <2>2. f \notin Body
    <3>1. f \in TextFrames => f.kind = "text"
      BY DEF TextFrames
    <3>2. f \in ToolFrames => f.kind = "tool_use"
      BY DEF ToolFrames
    <3>3. \A chunk \in Chunks : f = PassedOn(chunk) => f.kind = "chunk"
      BY DEF PassedOn
    <3> QED BY <2>1, <3>1, <3>2, <3>3 DEF Body
  <2> QED BY <2>1, <2>2 DEF Shown
<1> QED BY <1>2, <1>3, <1>4, <1>5 DEF Frame, Body

LEMMA ItemsOfShown ==
    ASSUME NEW f, f.kind \in Shown, f.text \in Streams!Text \ {<<>>}
    PROVE  /\ ItemsOf(f) = [j \in 1..Len(f.text) |-> <<f.kind, f.text[j]>>]
           /\ ItemsOf(f) \in Seq(ItemSet)
<1> DEFINE k == f.kind
           u == f.text
<1>1. /\ DOMAIN u = 1..Len(u) /\ Len(u) \in Nat /\ \A j \in 1..Len(u) : u[j] \in Streams!Symbols
      /\ k \in Streams!Kinds
  BY DEF Streams!Text, Shown, Streams!Kinds
<1>2. ItemsOf(f) = [j \in 1..Len(u) |-> <<k, u[j]>>]
  BY <1>1 DEF ItemsOf
<1> HIDE DEF k, u
<1>3. [j \in 1..Len(u) |-> <<k, u[j]>>] \in Seq(ItemSet)
  BY <1>1 DEF ItemSet
<1> QED BY <1>2, <1>3 DEF k, u

LEMMA MapsAre ==
    /\ Streams!Maps(SeenMap, Frame, ItemSet)
    /\ Streams!Maps(ToolMap, Frame, ToolFrames)
<1>1. \A f \in Frame : SeenMap[f] \in Seq(ItemSet)
  BY FrameIs, ItemsOfShown DEF SeenMap
<1>2. \A f \in Frame : ToolMap[f] \in Seq(ToolFrames)
  <2>1. \A f \in ToolFrames : <<f>> \in Seq(ToolFrames)
    OBVIOUS
  <2> QED BY <2>1, FrameIs DEF ToolMap
<1> QED BY <1>1, <1>2 DEF Streams!Maps, SeenMap, ToolMap

LEMMA FramesAre ==
    ASSUME NEW s \in Seq(Frame)
    PROVE  /\ Streams!Over(s, Frame)
           /\ Seen(s) = Streams!FlattenSeq(Streams!Each(SeenMap, s))
           /\ Tools(s) = Streams!FlattenSeq(Streams!Each(ToolMap, s))
           /\ Seen(s) \in Seq(ItemSet) /\ Tools(s) \in Seq(ToolFrames)
<1>1. \A i \in DOMAIN s : s[i] \in Frame
  OBVIOUS
<1>2. Streams!Each(SeenMap, s)
        = [i \in DOMAIN s |-> IF s[i].kind \in Shown THEN ItemsOf(s[i]) ELSE <<>>]
  BY <1>1 DEF Streams!Each, SeenMap
<1>3. Streams!Each(ToolMap, s)
        = [i \in DOMAIN s |-> IF s[i].kind = "tool_use" THEN <<s[i]>> ELSE <<>>]
  BY <1>1 DEF Streams!Each, ToolMap
<1>4. Seen(s) = Streams!FlattenSeq(Streams!Each(SeenMap, s))
  BY <1>2, SameHelpers, Zenon DEF Seen, ItemsIn
<1>5. Tools(s) = Streams!FlattenSeq(Streams!Each(ToolMap, s))
  BY <1>3, SameHelpers, Zenon DEF Tools, OfKind
<1>6. Streams!Over(s, Frame)
  BY DEF Streams!Over
<1>7. Streams!FlattenSeq(Streams!Each(SeenMap, s)) \in Seq(ItemSet)
  BY <1>6, MapsAre, Streams!FlatType
<1>8. Streams!FlattenSeq(Streams!Each(ToolMap, s)) \in Seq(ToolFrames)
  BY <1>6, MapsAre, Streams!FlatType
<1> QED BY <1>4, <1>5, <1>6, <1>7, <1>8

LEMMA FramesJoin ==
    ASSUME NEW s \in Seq(Frame), NEW t \in Seq(Frame)
    PROVE  /\ s \o t \in Seq(Frame)
           /\ Seen(s \o t) = Seen(s) \o Seen(t) /\ Tools(s \o t) = Tools(s) \o Tools(t)
<1> DEFINE both == s \o t
<1>1. both \in Seq(Frame)
  OBVIOUS
<1>2. Streams!FlattenSeq(Streams!Each(SeenMap, s \o t))
        = Streams!FlattenSeq(Streams!Each(SeenMap, s)) \o Streams!FlattenSeq(Streams!Each(SeenMap, t))
  BY FramesAre, MapsAre, Streams!FlatConcat
<1>3. Streams!FlattenSeq(Streams!Each(ToolMap, s \o t))
        = Streams!FlattenSeq(Streams!Each(ToolMap, s)) \o Streams!FlattenSeq(Streams!Each(ToolMap, t))
  BY FramesAre, MapsAre, Streams!FlatConcat
<1>4. /\ Seen(both) = Streams!FlattenSeq(Streams!Each(SeenMap, both))
      /\ Tools(both) = Streams!FlattenSeq(Streams!Each(ToolMap, both))
  <2> HIDE DEF both
  <2> QED BY <1>1, FramesAre
<1> QED BY <1>1, <1>2, <1>3, <1>4, FramesAre

LEMMA FramesNone == <<>> \in Seq(Frame) /\ <<>> \in Seq(Body) /\ Seen(<<>>) = <<>> /\ Tools(<<>>) = <<>>
<1>1. <<>> \in Seq(Frame) /\ <<>> \in Seq(Body)
  OBVIOUS
<1>2. /\ Streams!FlattenSeq(Streams!Each(SeenMap, <<>>)) = <<>>
      /\ Streams!FlattenSeq(Streams!Each(ToolMap, <<>>)) = <<>>
  BY Streams!FlatEmpty
<1> QED BY <1>1, <1>2, FramesAre

LEMMA FramesOne ==
    ASSUME NEW f \in Frame
    PROVE  <<f>> \in Seq(Frame) /\ Seen(<<f>>) = SeenMap[f] /\ Tools(<<f>>) = ToolMap[f]
<1> DEFINE one == <<f>>
<1>1. one \in Seq(Frame)
  OBVIOUS
<1>2. Streams!FlattenSeq(Streams!Each(SeenMap, <<f>>)) = SeenMap[f]
  BY MapsAre, Streams!FlatOne
<1>3. Streams!FlattenSeq(Streams!Each(ToolMap, <<f>>)) = ToolMap[f]
  BY MapsAre, Streams!FlatOne
<1>4. /\ Seen(one) = Streams!FlattenSeq(Streams!Each(SeenMap, one))
      /\ Tools(one) = Streams!FlattenSeq(Streams!Each(ToolMap, one))
  <2> HIDE DEF one
  <2> QED BY <1>1, FramesAre
<1> QED BY <1>1, <1>2, <1>3, <1>4

LEMMA BodyIsFrames == ASSUME NEW s \in Seq(Body) PROVE s \in Seq(Frame)
<1> DEFINE A == Body
           B == Frame
<1>1. A \subseteq B
  BY DEF Frame
<1>2. Len(s) \in Nat /\ s = [i \in 1..Len(s) |-> s[i]] /\ \A i \in 1..Len(s) : s[i] \in A
  OBVIOUS
<1> HIDE DEF A, B
<1>3. s \in Seq(B)
  BY <1>1, <1>2
<1> QED BY <1>3 DEF B

(* Tool calls that are numbered from n on. *)
Numbered(tools, n) == \A i \in 1..Len(tools) : tools[i].index = n + i - 1

LEMMA NumberedJoin ==
    ASSUME NEW s \in Seq(ToolFrames), NEW t \in Seq(ToolFrames), NEW n \in Nat,
           Numbered(s, n), Numbered(t, n + Len(s))
    PROVE  Numbered(s \o t, n) /\ s \o t \in Seq(ToolFrames) /\ Len(s \o t) = Len(s) + Len(t)
<1> DEFINE F == ToolFrames
           both == s \o t
<1>1. /\ s \in Seq(F) /\ t \in Seq(F) /\ Len(s) \in Nat /\ Len(t) \in Nat
      /\ Len(both) = Len(s) + Len(t) /\ both \in Seq(F)
  OBVIOUS
<1> HIDE DEF F
<1>2. ASSUME NEW i \in 1..(Len(s) + Len(t)) PROVE both[i].index = n + i - 1
  <2>1. CASE i <= Len(s)
    <3>1. i \in 1..Len(s) /\ both[i] = s[i]
      BY <1>1, <2>1
    <3> QED BY <3>1 DEF Numbered
  <2>2. CASE i > Len(s)
    <3> DEFINE j == i - Len(s)
    <3>1. j \in 1..Len(t) /\ both[i] = t[j] /\ (n + Len(s)) + j - 1 = n + i - 1
      BY <1>1, <2>2
    <3> HIDE DEF j
    <3> QED BY <3>1 DEF Numbered
  <2> QED BY <1>1, <2>1, <2>2
<1> HIDE DEF both
<1> QED BY <1>1, <1>2 DEF Numbered, both, F

(* Frames that show the items and number their tools from n on. *)
Proper(frames, items, n) ==
    frames \in Seq(Body) /\ Seen(frames) = items /\ Numbered(Tools(frames), n)

Making == [index : Nat, frames : Seq(Body)]

(* What the findings p have become, and one more of them. *)
Made(p, made, n) ==
    /\ p \in Streams!Findings /\ made \in Making
    /\ Proper(made.frames, Streams!Items(p), n)
    /\ made.index = n + Len(Tools(made.frames))
OneMore(q, d, p, made, seg) == q = p \o <<seg>> /\ d = AddFrame(made, seg)

LEMMA Adding ==
    ASSUME NEW n \in Nat, NEW p, NEW made, Made(p, made, n), NEW seg \in Streams!Finding,
           NEW q, NEW d, OneMore(q, d, p, made, seg)
    PROVE  Made(q, d, n)
<1> DEFINE k == seg.kind
           u == seg.text
           m == made.index
           frames == made.frames
           f == IF k = "text" THEN TextFrame(u) ELSE ToolFrame(m, u)
           one == <<f>>
           found == <<seg>>
<1> USE DEF OneMore
<1>1. /\ k \in {"text", "tool_use"} /\ u \in Streams!Text /\ u # <<>>
      /\ seg = [kind |-> k, text |-> u] /\ (k = "tool_use" => u \in Streams!Tools)
      /\ m \in Nat /\ frames \in Seq(Body) /\ frames \in Seq(Frame)
      /\ p \in Streams!Findings /\ made \in Making
  BY Streams!FindingParts, SameHelpers, BodyIsFrames DEF Making, Made
<1>2. /\ d.frames = frames \o one
      /\ d.index = IF k = "text" THEN m ELSE m + 1
  <2>1. Append(frames, f) = frames \o one
    <3> DEFINE B == Body
    <3>1. \A x : Append(frames, x) = frames \o <<x>>
      <4> HIDE DEF frames
      <4>1. frames \in Seq(B)
        BY <1>1
      <4> HIDE DEF B
      <4> QED BY <4>1
    <3> HIDE DEF frames, f
    <3> QED BY <3>1
  <2>2. CASE k = "text"
    <3>1. d = [made EXCEPT !.frames = Append(@, TextFrame(u))]
      BY <2>2 DEF AddFrame
    <3>2. d.frames = Append(frames, TextFrame(u)) /\ d.index = m
      BY <1>1, <3>1 DEF Making
    <3> QED BY <2>1, <2>2, <3>2
  <2>3. CASE k # "text"
    <3>1. d = [index |-> m + 1, frames |-> Append(frames, ToolFrame(m, u))]
      BY <2>3 DEF AddFrame
    <3> HIDE DEF m, frames, u
    <3>2. d.frames = Append(frames, ToolFrame(m, u)) /\ d.index = m + 1
      BY <3>1
    <3> QED BY <2>1, <2>3, <3>2
  <2> QED BY <2>2, <2>3
<1>3. d \in [index : {d.index}, frames : {d.frames}]
  <2>1. CASE k = "text"
    BY <1>1, <2>1 DEF AddFrame, Making
  <2>2. CASE k # "text"
    BY <2>2 DEF AddFrame
  <2> QED BY <2>1, <2>2
<1>4. f \in Body /\ f \in Frame /\ f.kind = k /\ f.text = u /\ (k = "tool_use" => f.index = m)
  <2> HIDE DEF k, u, m
  <2>1. CASE k = "text"
    <3>1. f = TextFrame(u) /\ f \in TextFrames
      BY <1>1, <2>1 DEF TextFrame, TextFrames
    <3> QED BY <2>1, <3>1 DEF Body, Frame, TextFrame
  <2>2. CASE k = "tool_use"
    <3>1. f = ToolFrame(m, u) /\ f \in ToolFrames
      BY <1>1, <2>2 DEF ToolFrame, ToolFrames
    <3> QED BY <2>2, <3>1 DEF Body, Frame, ToolFrame
  <2> QED BY <1>1, <2>1, <2>2
<1> HIDE DEF f
<1>5. one \in Seq(Body) /\ one \in Seq(Frame) /\ Seen(one) = SeenMap[f] /\ Tools(one) = ToolMap[f]
  <2>1. \A B : \A x \in B : <<x>> \in Seq(B)
    OBVIOUS
  <2> QED BY <1>4, <2>1, FramesOne
<1>6. SeenMap[f] = [j \in 1..Len(u) |-> <<k, u[j]>>]
  <2>1. f.kind \in Shown /\ f.text \in Streams!Text \ {<<>>}
    BY <1>1, <1>4 DEF Shown
  <2>2. ItemsOf(f) = [j \in 1..Len(f.text) |-> <<f.kind, f.text[j]>>]
    BY <2>1, ItemsOfShown
  <2> HIDE DEF k, u
  <2> QED BY <1>4, <2>1, <2>2 DEF SeenMap
<1>7. found \in Streams!Findings /\ Streams!Items(found) = [j \in 1..Len(u) |-> <<k, u[j]>>]
  <2>1. \A S : \A x \in S : <<x>> \in Seq(S)
    OBVIOUS
  <2>2. found \in Streams!Findings
    BY <2>1 DEF Streams!Findings
  <2>3. found = Streams!Segment(k, u)
    BY <1>1 DEF Streams!Segment
  <2> HIDE DEF found, k, u
  <2>4. k \in Streams!Kinds
    BY <1>1 DEF Streams!Kinds
  <2> QED BY <1>1, <2>2, <2>3, <2>4, Streams!ItemsSegment
<1> HIDE DEF one, found
<1>8. /\ p \o found \in Streams!Findings
      /\ Streams!Items(p \o found) = Streams!Items(p) \o Streams!Items(found)
  BY <1>1, <1>7, Streams!FindingItemsConcat
<1>9. /\ frames \o one \in Seq(Body)
      /\ Seen(frames \o one) = Seen(frames) \o Seen(one)
      /\ Tools(frames \o one) = Tools(frames) \o Tools(one)
  <2>1. \A B : \A x, y \in Seq(B) : x \o y \in Seq(B)
    OBVIOUS
  <2> QED BY <1>1, <1>5, <2>1, FramesJoin
<1>10. Seen(d.frames) = Streams!Items(p \o found)
  <2>1. Seen(frames) = Streams!Items(p) /\ Seen(one) = Streams!Items(found)
    BY <1>5, <1>6, <1>7 DEF Proper, Made
  <2> HIDE DEF frames
  <2> QED BY <1>2, <1>8, <1>9, <2>1
<1>11. Numbered(Tools(d.frames), n) /\ d.index = n + Len(Tools(d.frames)) /\ d.index \in Nat
  <2> DEFINE a == Tools(frames)
             b == Tools(one)
  <2>1. a \in Seq(ToolFrames) /\ b \in Seq(ToolFrames) /\ Numbered(a, n) /\ m = n + Len(a)
    BY <1>1, <1>5, FramesAre DEF Proper, Made
  <2>2. b = IF k = "tool_use" THEN <<f>> ELSE <<>>
    BY <1>4, <1>5 DEF ToolMap
  <2>3. Numbered(b, n + Len(a)) /\ Len(b) = IF k = "tool_use" THEN 1 ELSE 0
    <3> HIDE DEF a, b, m, k
    <3>1. CASE k = "tool_use"
      <4>1. Len(b) = 1 /\ b[1] = f /\ f.index = m
        BY <1>4, <2>2, <3>1
      <4>2. \A i \in 1..Len(b) : i = 1 /\ m + i - 1 = m
        BY <1>1, <4>1
      <4> QED BY <2>1, <3>1, <4>1, <4>2 DEF Numbered
    <3>2. CASE k # "tool_use"
      <4>1. Len(b) = 0
        BY <2>2, <3>2
      <4> QED BY <3>2, <4>1 DEF Numbered
    <3> QED BY <3>1, <3>2
  <2> HIDE DEF a, b
  <2>4. Numbered(a \o b, n) /\ Len(a \o b) = Len(a) + Len(b) /\ Len(a) \in Nat
    <3>1. Len(a) \in Nat
      BY <2>1
    <3> QED BY <2>1, <2>3, <3>1, NumberedJoin
  <2>5. Tools(d.frames) = a \o b
    BY <1>2, <1>9 DEF a, b
  <2> HIDE DEF m, k
  <2>6. d.index = n + Len(Tools(d.frames)) /\ d.index \in Nat
    BY <1>1, <1>2, <2>1, <2>3, <2>4, <2>5
  <2> QED BY <2>4, <2>5, <2>6
<1>12. d \in Making
  BY <1>2, <1>3, <1>9, <1>11 DEF Making
<1> QED BY <1>2, <1>8, <1>9, <1>10, <1>11, <1>12 DEF Proper, Made, found

(* The frames that findings become. *)
MadeFrom(n) == {k \in Streams!Findings \X Making : Made(k[1], k[2], n)}

LEMMA FramesProper ==
    ASSUME NEW segs \in Streams!Findings, NEW n \in Nat
    PROVE  Proper(Frames(segs, n), Streams!Items(segs), n)
<1> DEFINE K == MadeFrom(n)
           S == Streams!Finding
           base == [index |-> n, frames |-> <<>>]
           start == << <<>>, base >>
           end == <<segs, FoldLeft(AddFrame, base, segs)>>
<1>1. start \in K
  <2>1. base \in Making /\ base.frames = <<>> /\ base.index = n
    BY FramesNone DEF Making
  <2>2. <<>> \in Streams!Findings /\ Streams!Items(<<>>) = <<>> /\ Len(<<>>) = 0
    BY Streams!NoFindings, Streams!ItemsEmpty
  <2>3. Proper(<<>>, <<>>, n)
    BY <2>2, FramesNone DEF Proper, Numbered
  <2> HIDE DEF base
  <2>4. start \in Streams!Findings \X Making /\ start[1] = <<>> /\ start[2] = base
    BY <2>1, <2>2
  <2> HIDE DEF start
  <2>5. n = n + Len(Tools(<<>>))
    BY <2>2, FramesNone
  <2> QED BY <2>1, <2>2, <2>3, <2>4, <2>5 DEF MadeFrom, Made
<1>2. Framing!Tracks(K, S)
  <2>1. ASSUME NEW k \in K, NEW y \in S PROVE <<k[1] \o <<y>>, AddFrame(k[2], y)>> \in K
    <3> DEFINE p == k[1]
               made == k[2]
               q == p \o <<y>>
               d == AddFrame(made, y)
               next == <<q, d>>
    <3>1. Made(p, made, n) /\ OneMore(q, d, p, made, y)
      BY DEF MadeFrom, OneMore
    <3> HIDE DEF p, made, q, d
    <3>2. Made(q, d, n)
      BY <3>1, Adding
    <3>3. next \in Streams!Findings \X Making /\ next[1] = q /\ next[2] = d
      BY <3>2 DEF Made
    <3> HIDE DEF next
    <3>4. next \in K
      BY <3>2, <3>3 DEF MadeFrom
    <3> QED BY <3>4 DEF next, q, d, p, made
  <2> HIDE DEF K, S
  <2> QED BY <2>1 DEF Framing!Tracks
<1>3. segs \in Seq(S)
  BY DEF Streams!Findings
<1> HIDE DEF K, S, base
<1>4. end \in K
  <2>1. <<segs, Framing!Fold(base, segs)>> \in K
    BY <1>1, <1>2, <1>3, Framing!FoldTracks
  <2> QED BY <2>1, SameFrames
<1> DEFINE made == FoldLeft(AddFrame, base, segs)
<1>5. end[1] = segs /\ end[2] = made
  OBVIOUS
<1> HIDE DEF end, made
<1>6. Proper(made.frames, Streams!Items(segs), n)
  BY <1>4, <1>5 DEF K, MadeFrom, Made
<1>7. Frames(segs, n) = made.frames
  BY Zenon DEF Frames, made, base
<1> QED BY <1>6, <1>7

LEMMA ContentChars ==
    ASSUME NEW chunk \in Chunks
    PROVE  chunk.content \in Streams!Text /\ chunk.choices \in BOOLEAN
           /\ (~chunk.choices => chunk.content = <<>>)
<1> DEFINE s == chunk.content
           R == Range(s)
           S == Streams!Symbols
<1>1. s \in Seq(R)
  BY ChunksAssumption
<1>2. R \subseteq S
  BY DEF ContentSymbols, Streams!Symbols
<1> HIDE DEF s, R, S
<1>3. s \in Seq(S)
  <2>1. Len(s) \in Nat /\ s = [i \in 1..Len(s) |-> s[i]] /\ \A i \in 1..Len(s) : s[i] \in R
    BY <1>1
  <2>2. \A i \in 1..Len(s) : s[i] \in S
    BY <1>2, <2>1
  <2> QED BY <2>1, <2>2
<1> QED BY <1>3, ChunksAssumption DEF Streams!Text, S, s

(* The frames of a chunk show what the scanner found in it. *)
LEMMA ChunkProper ==
    ASSUME NEW chunk \in Chunks, NEW x \in Streams!Scanners, Settled(x), NEW n \in Nat,
           NEW fed, fed = ScanFeed(x, chunk.content)
    PROVE  Proper(ProcessStreamChunk(chunk, fed, n), Streams!Items(fed.segments), n)
<1> DEFINE frames == ProcessStreamChunk(chunk, fed, n)
<1>1. fed.segments \in Streams!Findings
  BY ContentChars, ScanPart
<1>2. CASE chunk.content # <<>>
  <2>1. frames = Frames(fed.segments, n)
    BY <1>2, ContentChars DEF ProcessStreamChunk
  <2> QED BY <1>1, <2>1, FramesProper
<1>3. CASE chunk.content = <<>>
  <2> DEFINE f == PassedOn(chunk)
             one == <<f>>
  <2>1. fed.segments = <<>>
    BY <1>3 DEF ScanFeed
  <2>2. frames = one \/ frames = <<>>
    BY <1>3 DEF ProcessStreamChunk
  <2>3. f \in Body /\ f \in Frame /\ f.kind = "chunk"
    <3>1. f.kind = "chunk"
      BY DEF PassedOn
    <3> QED BY <3>1 DEF Body, Frame
  <2> HIDE DEF f
  <2>4. one \in Seq(Body) /\ Seen(one) = <<>> /\ Tools(one) = <<>>
    <3>1. \A B : \A y \in B : <<y>> \in Seq(B)
      OBVIOUS
    <3> QED BY <2>3, <3>1, FramesOne DEF SeenMap, ToolMap, Shown
  <2> HIDE DEF one, frames
  <2>5. frames \in Seq(Body) /\ Seen(frames) = <<>> /\ Tools(frames) = <<>>
    BY <2>2, <2>4, FramesNone
  <2>6. Numbered(<<>>, n)
    BY DEF Numbered
  <2>7. Streams!Items(fed.segments) = <<>>
    BY <2>1, Streams!ItemsEmpty
  <2> QED BY <2>5, <2>6, <2>7 DEF Proper, frames
<1> QED BY <1>2, <1>3

-----------------------------------------------------------------------------
(* The invariant *)

(* The content so far, chunk by chunk. *)
ContentMap == [chunk \in Chunks |-> chunk.content]
ContentOf(chunks) == FlattenSeq([i \in DOMAIN chunks |-> chunks[i].content])

LEMMA ContentIs ==
    ASSUME NEW chunks \in Seq(Chunks)
    PROVE  /\ ContentOf(chunks) = Streams!FlattenSeq(Streams!Each(ContentMap, chunks))
           /\ Streams!Maps(ContentMap, Chunks, Streams!Symbols) /\ Streams!Over(chunks, Chunks)
           /\ ContentOf(chunks) \in Streams!Text
<1>1. [i \in DOMAIN chunks |-> chunks[i].content] = Streams!Each(ContentMap, chunks)
  <2>1. \A i \in DOMAIN chunks : chunks[i] \in Chunks
    OBVIOUS
  <2> QED BY <2>1 DEF Streams!Each, ContentMap
<1>2. ContentOf(chunks) = Streams!FlattenSeq(Streams!Each(ContentMap, chunks))
  BY <1>1, SameHelpers, Zenon DEF ContentOf
<1>3. Streams!Maps(ContentMap, Chunks, Streams!Symbols)
  BY ContentChars DEF Streams!Maps, ContentMap, Streams!Text
<1>4. Streams!Over(chunks, Chunks)
  BY DEF Streams!Over
<1>5. Streams!FlattenSeq(Streams!Each(ContentMap, chunks)) \in Seq(Streams!Symbols)
  BY <1>3, <1>4, Streams!FlatType
<1> QED BY <1>2, <1>3, <1>4, <1>5 DEF Streams!Text

LEMMA ContentGrows ==
    ASSUME NEW chunks \in Seq(Chunks), NEW chunk \in Chunks
    PROVE  /\ Append(chunks, chunk) \in Seq(Chunks)
           /\ ContentOf(Append(chunks, chunk)) = ContentOf(chunks) \o chunk.content
<1> DEFINE one == <<chunk>>
           more == chunks \o one
<1>1. one \in Seq(Chunks) /\ more \in Seq(Chunks) /\ Append(chunks, chunk) = more
  <2>1. \A S : \A s \in Seq(S), x \in S :
          <<x>> \in Seq(S) /\ s \o <<x>> \in Seq(S) /\ Append(s, x) = s \o <<x>>
    OBVIOUS
  <2> QED BY <2>1
<1>2. Streams!FlattenSeq(Streams!Each(ContentMap, one)) = chunk.content
  <2>1. Streams!Maps(ContentMap, Chunks, Streams!Symbols)
    BY <1>1, ContentIs
  <2>2. Streams!FlattenSeq(Streams!Each(ContentMap, <<chunk>>)) = ContentMap[chunk]
    BY <2>1, Streams!FlatOne
  <2> QED BY <2>2 DEF ContentMap
<1> HIDE DEF one
<1>3. Streams!FlattenSeq(Streams!Each(ContentMap, chunks \o one))
        = Streams!FlattenSeq(Streams!Each(ContentMap, chunks))
            \o Streams!FlattenSeq(Streams!Each(ContentMap, one))
  <2>1. Streams!Maps(ContentMap, Chunks, Streams!Symbols)
        /\ Streams!Over(chunks, Chunks) /\ Streams!Over(one, Chunks)
    BY <1>1, ContentIs
  <2> QED BY <2>1, Streams!FlatConcat
<1>4. ContentOf(more) = Streams!FlattenSeq(Streams!Each(ContentMap, more))
  <2> HIDE DEF more
  <2> QED BY <1>1, ContentIs
<1>5. ContentOf(chunks) = Streams!FlattenSeq(Streams!Each(ContentMap, chunks))
  BY ContentIs
<1> QED BY <1>1, <1>2, <1>3, <1>4, <1>5

(* What has been sent of a stream, and what the handler remembers of it. *)
Sending(s, n, has) ==
    /\ s \in Seq(Body) /\ Numbered(Tools(s), 0)
    /\ n = Len(Tools(s)) /\ has = (Tools(s) # <<>>)

(* What the handler takes over of the frames that it sends. *)
Learns(n2, has2, n, has, frames) ==
    /\ n2 = IF Tools(frames) = <<>> THEN n ELSE Last(Tools(frames)).index + 1
    /\ has2 = (has \/ Tools(frames) # <<>>)

(* A stream that was closed. *)
Closed(body, s, closing) ==
    body \in Seq(Body) /\ Numbered(Tools(body), 0) /\ s = body \o <<closing, Done>>
Reason(body) == FinishFrame(IF Tools(body) # <<>> THEN "tool_calls" ELSE "stop")

(* What the client will have seen when u has come as well. *)
Promised == \A u \in Streams!Text :
    Seen(sent) \o Streams!Xml(scanner.inXml, scanner.buffer \o u)
      = Streams!Found(ContentOf(upstream) \o u)

ChatInv ==
    /\ scanner \in Streams!Scanners /\ upstream \in Seq(Chunks)
    /\ phase \in {"streaming", "ended", "aborted"}
    /\ phase = "streaming" =>
         Settled(scanner) /\ Sending(sent, toolCallIndex, hasToolCalls) /\ Promised
    /\ phase = "ended" => \E body :
         /\ Closed(body, sent, Reason(body))
         /\ ~scanner.inXml => Seen(body) = Streams!Found(ContentOf(upstream))
    /\ phase = "aborted" => \E body : Closed(body, sent, ErrorFrame)

LEMMA SendingMore ==
    ASSUME NEW s, NEW n, NEW has, Sending(s, n, has),
           NEW frames, NEW items, Proper(frames, items, n),
           NEW n2, NEW has2, Learns(n2, has2, n, has, frames)
    PROVE  /\ Sending(s \o frames, n2, has2)
           /\ Seen(s \o frames) = Seen(s) \o items
<1> DEFINE a == Tools(s)
           b == Tools(frames)
           both == s \o frames
<1>1. /\ s \in Seq(Body) /\ frames \in Seq(Body) /\ s \in Seq(Frame) /\ frames \in Seq(Frame)
      /\ Numbered(a, 0) /\ Numbered(b, n) /\ n = Len(a) /\ has = (a # <<>>)
      /\ Seen(frames) = items
  BY BodyIsFrames DEF Sending, Proper
<1>2. a \in Seq(ToolFrames) /\ b \in Seq(ToolFrames)
  BY <1>1, FramesAre
<1>3. /\ both \in Seq(Body) /\ Seen(both) = Seen(s) \o items /\ Tools(both) = a \o b
  <2>1. \A B : \A x, y \in Seq(B) : x \o y \in Seq(B)
    OBVIOUS
  <2> QED BY <1>1, <2>1, FramesJoin
<1> HIDE DEF a, b, both
<1>4. Len(a) \in Nat /\ Len(b) \in Nat /\ 0 \in Nat /\ 0 + Len(a) = Len(a)
  BY <1>2
<1>5. Numbered(a \o b, 0) /\ Len(a \o b) = Len(a) + Len(b)
  BY <1>1, <1>2, <1>4, NumberedJoin
<1>6. n2 = Len(a) + Len(b)
  <2>1. CASE b = <<>>
    BY <1>1, <1>4, <2>1 DEF b, Learns
  <2>2. CASE b # <<>>
    <3>1. Len(b) \in 1..Len(b)
      BY <1>2, <2>2
    <3>2. Last(b) = b[Len(b)] /\ b[Len(b)].index = n + Len(b) - 1
      BY <1>1, <3>1 DEF Numbered, Last
    <3>3. n2 = Last(b).index + 1
      BY <2>2 DEF b, Learns
    <3> QED BY <1>1, <1>4, <3>2, <3>3
  <2> QED BY <2>1, <2>2
<1>7. has2 = (a \o b # <<>>)
  <2>1. a \o b = <<>> <=> (a = <<>> /\ b = <<>>)
    BY <1>2
  <2>2. has2 = (has \/ b # <<>>)
    BY DEF Learns, b
  <2> QED BY <1>1, <2>1, <2>2
<1>8. Sending(both, n2, has2)
  BY <1>3, <1>5, <1>6, <1>7 DEF Sending
<1> QED BY <1>3, <1>8 DEF both, b

LEMMA SentType ==
    ASSUME NEW s, NEW n, NEW has, Sending(s, n, has)
    PROVE  s \in Seq(Frame) /\ Seen(s) \in Streams!AllItems /\ n \in Nat
<1>1. s \in Seq(Frame)
  BY BodyIsFrames DEF Sending
<1>2. Seen(s) \in Seq(ItemSet) /\ Tools(s) \in Seq(ToolFrames)
  BY <1>1, FramesAre
<1> QED BY <1>1, <1>2 DEF Sending, ItemSet, Streams!AllItems

LEMMA ChatInit == Init => ChatInv
<1> SUFFICES ASSUME Init PROVE ChatInv
  OBVIOUS
<1>1. /\ scanner = NewScanner /\ sent = <<>> /\ upstream = <<>> /\ phase = "streaming"
      /\ toolCallIndex = 0 /\ hasToolCalls = FALSE
  BY DEF Init
<1>2. upstream \in Seq(Chunks)
  BY <1>1
<1>3. Sending(sent, toolCallIndex, hasToolCalls)
  <2>1. Tools(<<>>) = <<>> /\ <<>> \in Seq(Body) /\ Len(<<>>) = 0
    BY FramesNone
  <2>2. Numbered(<<>>, 0)
    BY <2>1 DEF Numbered
  <2>3. FALSE = (Tools(<<>>) # <<>>)
    BY <2>1, Zenon
  <2>4. Sending(<<>>, 0, FALSE)
    BY <2>1, <2>2, <2>3, Zenon DEF Sending
  <2> QED BY <1>1, <2>4
<1>4. Promised
  <2> SUFFICES ASSUME NEW u \in Streams!Text
               PROVE  Seen(sent) \o Streams!Xml(scanner.inXml, scanner.buffer \o u)
                        = Streams!Found(ContentOf(upstream) \o u)
    BY DEF Promised
  <2>1. Seen(sent) = <<>> /\ scanner.inXml = FALSE /\ scanner.buffer \o u = u
    BY <1>1, NewScannerIs, FramesNone, Streams!EmptyText
  <2>2. ContentOf(upstream) = <<>>
    <3>1. Streams!FlattenSeq(Streams!Each(ContentMap, <<>>)) = <<>>
      BY Streams!FlatEmpty
    <3> QED BY <1>1, <1>2, <3>1, ContentIs
  <2>3. Streams!Xml(FALSE, u) = Streams!Found(u)
    BY DEF Streams!Xml, Streams!Whole
  <2>4. Streams!Found(u) \in Streams!AllItems
    BY Streams!FoundType
  <2> DEFINE m == Streams!Found(u)
  <2> HIDE DEF m
  <2>5. <<>> \o m = m
    BY <2>4 DEF Streams!AllItems, m
  <2> QED BY <2>1, <2>2, <2>3, <2>5, Streams!EmptyText DEF m
<1> QED BY <1>1, <1>2, <1>3, <1>4, NewScannerIs DEF ChatInv

LEMMA FeedKeeps ==
    ASSUME ChatInv, NEW chunk \in Chunks, Feed(chunk) PROVE ChatInv'
<1> DEFINE c == chunk.content
           fed == ScanFeed(scanner, c)
           frames == ProcessStreamChunk(chunk, fed, toolCallIndex)
           items == Streams!Items(fed.segments)
           n2 == IF Tools(frames) = <<>> THEN toolCallIndex ELSE Last(Tools(frames)).index + 1
           has2 == hasToolCalls \/ Tools(frames) # <<>>
           before == Seen(sent)
<1>1. /\ phase = "streaming" /\ phase' = phase /\ upstream' = Append(upstream, chunk)
      /\ scanner' = fed.scanner /\ sent' = sent \o frames \o <<>>
      /\ toolCallIndex' = n2 /\ hasToolCalls' = has2
  BY DEF Feed, Send
<1>2. /\ scanner \in Streams!Scanners /\ upstream \in Seq(Chunks) /\ Settled(scanner)
      /\ Sending(sent, toolCallIndex, hasToolCalls) /\ Promised
      /\ scanner.buffer \in Streams!Text /\ scanner.inXml \in BOOLEAN
  BY <1>1 DEF ChatInv, Streams!Scanners
<1>3. c \in Streams!Text
  BY ContentChars
<1>4. toolCallIndex \in Nat /\ before \in Streams!AllItems
  BY <1>2, SentType
<1>5. Proper(frames, items, toolCallIndex)
  BY <1>2, <1>4, ChunkProper
<1>6. /\ fed.scanner \in Streams!Scanners /\ Settled(fed.scanner)
      /\ fed.segments \in Streams!Findings
      /\ \A u \in Streams!Text :
           items \o Streams!Xml(fed.scanner.inXml, fed.scanner.buffer \o u)
             = Streams!Xml(scanner.inXml, scanner.buffer \o (c \o u))
  BY <1>2, <1>3, ScanPart
<1>7. /\ Append(upstream, chunk) \in Seq(Chunks)
      /\ ContentOf(Append(upstream, chunk)) = ContentOf(upstream) \o c
      /\ ContentOf(upstream) \in Streams!Text
  BY <1>2, ContentGrows, ContentIs
<1>8. items \in Streams!AllItems
  BY <1>6, Streams!FindingItems
<1> HIDE DEF c, fed, frames, items, n2, before
<1>9. sent' = sent \o frames /\ Sending(sent', toolCallIndex', hasToolCalls')
      /\ Seen(sent') = before \o items
  <2> DEFINE both == sent \o frames
  <2>1. Sending(both, n2, has2) /\ Seen(both) = before \o items
    <3>1. Learns(n2, has2, toolCallIndex, hasToolCalls, frames)
      BY DEF n2, Learns
    <3> HIDE DEF has2
    <3> QED BY <1>2, <1>5, <3>1, SendingMore DEF before
  <2> HIDE DEF both
  <2>2. both \o <<>> = both
    <3>1. both \in Seq(Body)
      BY <2>1 DEF Sending
    <3> QED BY <3>1
  <2> QED BY <1>1, <2>1, <2>2 DEF both
<1>10. Promised'
  <2> SUFFICES ASSUME NEW u \in Streams!Text
               PROVE  Seen(sent') \o Streams!Xml(scanner'.inXml, scanner'.buffer \o u)
                        = Streams!Found(ContentOf(upstream') \o u)
    BY DEF Promised
  <2> DEFINE rest == Streams!Xml(fed.scanner.inXml, fed.scanner.buffer \o u)
             due == Streams!Xml(scanner.inXml, scanner.buffer \o (c \o u))
  <2>1. c \o u \in Streams!Text /\ fed.scanner.buffer \in Streams!Text
        /\ fed.scanner.inXml \in BOOLEAN
    BY <1>3, <1>6, Streams!ConcatType DEF Streams!Scanners
  <2>2. rest \in Streams!AllItems
    BY <2>1, Streams!ConcatType, Streams!WholeType
  <2>3. items \o rest = due
    BY <1>6
  <2>4. before \o due = Streams!Found(ContentOf(upstream) \o (c \o u))
    BY <1>2, <2>1 DEF Promised, before
  <2>5. (ContentOf(upstream) \o c) \o u = ContentOf(upstream) \o (c \o u)
    BY <1>3, <1>7, Streams!Associative
  <2>6. Seen(sent') \o Streams!Xml(scanner'.inXml, scanner'.buffer \o u) = (before \o items) \o rest
    BY <1>1, <1>9
  <2> HIDE DEF rest, due
  <2>7. (before \o items) \o rest = before \o (items \o rest)
    BY <1>4, <1>8, <2>2, Streams!ItemsAssociative
  <2> QED BY <1>1, <1>7, <2>3, <2>4, <2>5, <2>6, <2>7
<1> QED BY <1>1, <1>6, <1>7, <1>9, <1>10 DEF ChatInv

LEMMA EndKeeps == ASSUME ChatInv, End PROVE ChatInv'
<1> DEFINE fed == ScanFlush(scanner)
           frames == Frames(fed.segments, toolCallIndex)
           items == Streams!Items(fed.segments)
           n2 == IF Tools(frames) = <<>> THEN toolCallIndex ELSE Last(Tools(frames)).index + 1
           has2 == hasToolCalls \/ Tools(frames) # <<>>
           finish == IF has2 THEN "tool_calls" ELSE "stop"
           body == sent \o frames
           before == Seen(sent)
<1>1. /\ phase = "streaming" /\ phase' = "ended" /\ upstream' = upstream
      /\ scanner' = fed.scanner /\ sent' = body \o <<FinishFrame(finish), Done>>
  BY DEF End, Send
<1>2. /\ scanner \in Streams!Scanners /\ upstream \in Seq(Chunks) /\ Settled(scanner)
      /\ Sending(sent, toolCallIndex, hasToolCalls) /\ Promised
      /\ scanner.buffer \in Streams!Text /\ scanner.inXml \in BOOLEAN
  BY <1>1 DEF ChatInv, Streams!Scanners
<1>3. toolCallIndex \in Nat /\ before \in Streams!AllItems
  BY <1>2, SentType
<1>4. /\ fed.scanner \in Streams!Scanners /\ fed.segments \in Streams!Findings
      /\ fed.scanner.inXml = scanner.inXml
      /\ ~scanner.inXml => items = Streams!Xml(scanner.inXml, scanner.buffer)
  BY <1>2, ScanEnd DEF Settled
<1>5. Proper(frames, items, toolCallIndex)
  BY <1>3, <1>4, FramesProper
<1> HIDE DEF fed, frames, items, n2, before
<1>6. Sending(body, n2, has2) /\ Seen(body) = before \o items
  <2>1. Learns(n2, has2, toolCallIndex, hasToolCalls, frames)
    BY DEF n2, Learns
  <2> HIDE DEF has2
  <2> QED BY <1>2, <1>5, <2>1, SendingMore DEF before
<1> HIDE DEF body
<1>7. Closed(body, sent', Reason(body))
  <2>1. FinishFrame(finish) = Reason(body)
    BY <1>6 DEF Sending, Reason
  <2> QED BY <1>1, <1>6, <2>1 DEF Closed, Sending
<1>8. ASSUME ~scanner.inXml PROVE Seen(body) = Streams!Found(ContentOf(upstream))
  <2>1. <<>> \in Streams!Text /\ scanner.buffer \o <<>> = scanner.buffer
    BY <1>2, Streams!EmptyText
  <2>2. before \o Streams!Xml(scanner.inXml, scanner.buffer \o <<>>)
          = Streams!Found(ContentOf(upstream) \o <<>>)
    BY <1>2, <2>1 DEF Promised, before
  <2>3. ContentOf(upstream) \o <<>> = ContentOf(upstream)
    BY <1>2, ContentIs, Streams!EmptyText
  <2> QED BY <1>4, <1>6, <1>8, <2>1, <2>2, <2>3
<1> QED BY <1>1, <1>2, <1>4, <1>7, <1>8 DEF ChatInv

LEMMA BreakOffKeeps == ASSUME ChatInv, BreakOff PROVE ChatInv'
<1>1. /\ phase = "streaming" /\ phase' = "aborted" /\ sent' = sent \o <<ErrorFrame, Done>>
      /\ scanner' = scanner /\ upstream' = upstream
  BY DEF BreakOff
<1>2. Sending(sent, toolCallIndex, hasToolCalls)
  BY <1>1 DEF ChatInv
<1>3. Closed(sent, sent', ErrorFrame)
  BY <1>1, <1>2 DEF Closed, Sending
<1> QED BY <1>1, <1>3 DEF ChatInv

(* The inductive invariant of a chat stream, for any chunks and any number *)
(* of them: the frames sent are what the scanner has yielded for the       *)
(* content so far, numbered, and terminated as the phase says              *)
(* (chat.py:168-219).                                                      *)
THEOREM ChatInvariant == Spec => []ChatInv
<1>1. Init => ChatInv
  BY ChatInit
<1>2. ChatInv /\ [Next]_vars => ChatInv'
  <2> SUFFICES ASSUME ChatInv, [Next]_vars PROVE ChatInv'
    OBVIOUS
  <2>1. CASE End
    BY <2>1, EndKeeps
  <2>2. CASE BreakOff
    BY <2>2, BreakOffKeeps
  <2>3. CASE \E chunk \in Chunks : Feed(chunk)
    BY <2>3, FeedKeeps
  <2>4. CASE UNCHANGED vars
    BY <2>4 DEF vars, ChatInv, Promised
  <2> QED BY <2>1, <2>2, <2>3, <2>4 DEF Next
<1> QED BY <1>1, <1>2, PTL DEF Spec

-----------------------------------------------------------------------------
(* What the properties say of it *)

LEMMA ClosedIs ==
    ASSUME NEW body, NEW s, NEW closing \in Closings, Closed(body, s, closing)
    PROVE  /\ s \in Seq(Frame) /\ Len(s) = Len(body) + 2 /\ Len(body) \in Nat
           /\ Seen(s) = Seen(body) /\ Tools(s) = Tools(body)
           /\ \A i \in 1..Len(body) : s[i] = body[i] /\ body[i] \in Body
           /\ s[Len(body) + 1] = closing /\ s[Len(body) + 2] = Done
<1> DEFINE one == <<closing>>
           two == <<Done>>
           rest == one \o two
<1>1. body \in Seq(Body) /\ body \in Seq(Frame)
  BY BodyIsFrames DEF Closed
<1>2. closing \in Frame /\ Done \in Frame /\ closing.kind \notin Shown /\ Done.kind \notin Shown
  BY DEF Closings, Frame, FinishFrame, ErrorFrame, Done, Shown
<1>3. /\ SeenMap[closing] = <<>> /\ SeenMap[Done] = <<>>
      /\ ToolMap[closing] = <<>> /\ ToolMap[Done] = <<>>
  BY <1>2 DEF SeenMap, ToolMap, Shown
<1>4. rest = <<closing, Done>>
  <2> DEFINE c == <<closing, Done>>
             S == {closing, Done}
  <2>1. one \in Seq(S) /\ Len(one) = 1 /\ one[1] = closing
    OBVIOUS
  <2>2. two \in Seq(S) /\ Len(two) = 1 /\ two[1] = Done
    OBVIOUS
  <2>3. c \in Seq(S) /\ Len(c) = 2 /\ c[1] = closing /\ c[2] = Done
    OBVIOUS
  <2> HIDE DEF c, S, one, two
  <2>4. Streams!Joined(c, one, two)
    <3>1. (\A i \in 1..Len(one) : i = 1) /\ \A i \in 1..Len(two) : i = 1
      BY <2>1, <2>2
    <3> QED BY <2>1, <2>2, <2>3, <3>1 DEF Streams!Joined
  <2>5. Streams!Over(one, S) /\ Streams!Over(two, S) /\ Streams!Over(c, S)
    BY <2>1, <2>2, <2>3 DEF Streams!Over
  <2> QED BY <2>4, <2>5, Streams!JoinedIs DEF c
<1>5. /\ one \in Seq(Frame) /\ Seen(one) = <<>> /\ Tools(one) = <<>>
      /\ two \in Seq(Frame) /\ Seen(two) = <<>> /\ Tools(two) = <<>>
  BY <1>2, <1>3, FramesOne
<1>6. Len(rest) = 2 /\ rest[1] = closing /\ rest[2] = Done
  BY <1>4
<1> HIDE DEF one, two
<1>7. rest \in Seq(Frame) /\ Seen(rest) = <<>> /\ Tools(rest) = <<>>
  <2>1. <<>> \o <<>> = <<>>
    OBVIOUS
  <2> QED BY <1>5, <2>1, FramesJoin
<1> HIDE DEF rest
<1>8. s = body \o rest
  BY <1>4 DEF Closed
<1>9. s \in Seq(Frame) /\ Seen(s) = Seen(body) \o <<>> /\ Tools(s) = Tools(body) \o <<>>
  <2>1. /\ body \o rest \in Seq(Frame)
        /\ Seen(body \o rest) = Seen(body) \o Seen(rest)
        /\ Tools(body \o rest) = Tools(body) \o Tools(rest)
    BY <1>1, <1>7, FramesJoin
  <2> QED BY <1>7, <1>8, <2>1
<1>10. Seen(body) \o <<>> = Seen(body) /\ Tools(body) \o <<>> = Tools(body)
  <2>1. Seen(body) \in Seq(ItemSet) /\ Tools(body) \in Seq(ToolFrames)
    BY <1>1, FramesAre
  <2>2. \A S : \A t \in Seq(S) : t \o <<>> = t
    OBVIOUS
  <2> QED BY <2>1, <2>2
<1>11. Len(body) \in Nat /\ \A i \in 1..Len(body) : body[i] \in Body
  BY <1>1
<1>12. /\ Len(s) = Len(body) + 2
       /\ \A i \in 1..Len(body) : s[i] = body[i]
       /\ s[Len(body) + 1] = closing /\ s[Len(body) + 2] = Done
  <2> DEFINE F == Frame
             n == Len(body)
  <2>1. body \in Seq(F) /\ rest \in Seq(F) /\ n \in Nat
    BY <1>1, <1>7, <1>11
  <2> HIDE DEF F
  <2>2. Len(s) = n + 2 /\ \A i \in 1..n : s[i] = body[i]
    <3>1. Len(body \o rest) = Len(body) + Len(rest)
          /\ \A i \in 1..Len(body) : (body \o rest)[i] = body[i]
      BY <2>1
    <3> HIDE DEF n
    <3> QED BY <1>6, <1>8, <3>1 DEF n
  <2>3. s[n + 1] = rest[1] /\ s[n + 2] = rest[2]
    <3>1. \A j \in 1..Len(rest) : (body \o rest)[Len(body) + j] = rest[j]
      BY <2>1
    <3>2. 1 \in 1..Len(rest) /\ 2 \in 1..Len(rest)
      BY <1>6
    <3> QED BY <1>8, <3>1, <3>2
  <2> QED BY <1>6, <2>2, <2>3
<1> QED BY <1>9, <1>10, <1>11, <1>12

LEMMA ReasonIs == ASSUME NEW body PROVE Reason(body) \in Closings
BY DEF Reason, Closings

LEMMA KindsOfClosed ==
    ASSUME NEW body, NEW s, NEW closing \in Closings, Closed(body, s, closing),
           NEW kind, closing.kind = kind
    PROVE  /\ Range(Take(Kinds(s), Len(s) - 2)) \subseteq {"text", "tool_use", "chunk"}
           /\ Kinds(s) = Take(Kinds(s), Len(s) - 2) \o <<kind, "done">>
<1> DEFINE K == {"text", "tool_use", "chunk", "finish", "error", "done"}
           n == Len(body)
           all == Kinds(s)
           first == Take(all, Len(s) - 2)
           last == <<kind, "done">>
<1>1. /\ s \in Seq(Frame) /\ Len(s) = n + 2 /\ n \in Nat
      /\ \A i \in 1..n : s[i] = body[i] /\ body[i] \in Body
      /\ s[n + 1] = closing /\ s[n + 2] = Done
  BY ClosedIs
<1> HIDE DEF n
<1>2. all = [i \in 1..(n + 2) |-> s[i].kind] /\ \A i \in 1..(n + 2) : s[i].kind \in K
  <2>1. DOMAIN s = 1..(n + 2) /\ \A i \in 1..(n + 2) : s[i] \in Frame
    BY <1>1
  <2> QED BY <2>1, FrameIs DEF Kinds
<1>3. all \in Seq(K) /\ Len(all) = n + 2
  <2> HIDE DEF K
  <2> QED BY <1>1, <1>2
<1>4. all[n + 1] = kind /\ all[n + 2] = "done"
  <2>1. n + 1 \in 1..(n + 2) /\ n + 2 \in 1..(n + 2)
    BY <1>1
  <2> QED BY <1>1, <1>2, <2>1 DEF Done
<1>5. \A i \in 1..n : all[i] \in {"text", "tool_use", "chunk"}
  <2>1. ASSUME NEW i \in 1..n PROVE all[i] \in {"text", "tool_use", "chunk"}
    <3>1. i \in 1..(n + 2) /\ s[i] \in Body /\ s[i] \in Frame
      BY <1>1 DEF Frame
    <3> QED BY <1>2, <3>1, FrameIs
  <2> QED BY <2>1
<1> HIDE DEF all
<1>6. /\ first \in Seq(K) /\ Len(first) = n /\ \A i \in 1..n : first[i] = all[i]
  <2>1. first = SubSeq(all, 1, n)
    BY <1>1 DEF Take
  <2> HIDE DEF first, K
  <2> QED BY <1>1, <1>3, <2>1
<1> HIDE DEF first
<1>7. Range(first) \subseteq {"text", "tool_use", "chunk"}
  <2>1. DOMAIN first = 1..n
    BY <1>6
  <2> QED BY <1>5, <1>6, <2>1 DEF Range
<1>8. last \in Seq(K) /\ Len(last) = 2 /\ last[1] = kind /\ last[2] = "done"
  <2>1. kind \in K
    BY <1>1, <1>2, <1>4
  <2> HIDE DEF K
  <2>2. "done" \in K
    BY DEF K
  <2> QED BY <2>1, <2>2
<1> HIDE DEF last, K
<1>9. Streams!Joined(all, first, last)
  <2>1. \A j \in 1..2 : j = 1 \/ j = 2
    OBVIOUS
  <2> QED BY <1>1, <1>3, <1>4, <1>6, <1>8, <2>1 DEF Streams!Joined
<1>10. all = first \o last
  <2>1. Streams!Over(first, K) /\ Streams!Over(last, K) /\ Streams!Over(all, K)
    BY <1>3, <1>6, <1>8 DEF Streams!Over
  <2> QED BY <1>9, <2>1, Streams!JoinedIs
<1> QED BY <1>7, <1>10 DEF all, first, last

(* For any chunks and any number of them: every stream is terminated once, *)
(* by a finish reason or an error and then [DONE], and nothing that the    *)
(* client takes for one of these comes before (chat.py:208-219).           *)
THEOREM StreamsAreTerminated == Spec => []Terminated
<1>1. ChatInv => Terminated
  <2> SUFFICES ASSUME ChatInv, phase # "streaming" PROVE Terminated
    BY DEF Terminated
  <2> DEFINE kind == IF phase = "ended" THEN "finish" ELSE "error"
  <2>1. \E body : \E closing \in Closings : Closed(body, sent, closing) /\ closing.kind = kind
    <3>1. CASE phase = "ended"
      <4>1. PICK body : Closed(body, sent, Reason(body))
        BY <3>1 DEF ChatInv
      <4>2. Reason(body) \in Closings /\ Reason(body).kind = "finish"
        BY ReasonIs DEF Reason, FinishFrame
      <4> QED BY <3>1, <4>1, <4>2
    <3>2. CASE phase = "aborted"
      <4>1. ErrorFrame \in Closings /\ ErrorFrame.kind = "error"
        BY DEF Closings, ErrorFrame
      <4> QED BY <3>2, <4>1 DEF ChatInv
    <3> QED BY <3>1, <3>2 DEF ChatInv
  <2> HIDE DEF kind
  <2>2. PICK body : \E closing \in Closings : Closed(body, sent, closing) /\ closing.kind = kind
    BY <2>1
  <2>3. PICK closing \in Closings : Closed(body, sent, closing) /\ closing.kind = kind
    BY <2>2
  <2>4. /\ Range(Take(Kinds(sent), Len(sent) - 2)) \subseteq {"text", "tool_use", "chunk"}
        /\ Kinds(sent) = Take(Kinds(sent), Len(sent) - 2) \o <<kind, "done">>
    BY <2>3, KindsOfClosed
  <2> QED BY <2>4 DEF Terminated, kind
<1> QED BY <1>1, ChatInvariant, PTL

(* For any chunks and any number of them: the tool calls of a stream are   *)
(* numbered 0, 1, 2, ... across its chunks and the final flush, and the    *)
(* handler's next index is always that of the next one (chat.py:168-206).  *)
THEOREM CallsAreNumbered == Spec => []ToolsAreNumbered
<1>1. ASSUME NEW s \in Seq(Body), Numbered(Tools(s), 0)
      PROVE  \A i \in DOMAIN Tools(s) : Tools(s)[i].index = i - 1
  <2> DEFINE tools == Tools(s)
  <2>1. tools \in Seq(ToolFrames)
    BY BodyIsFrames, FramesAre
  <2> HIDE DEF tools
  <2>2. DOMAIN tools = 1..Len(tools) /\ \A i \in 1..Len(tools) : 0 + i - 1 = i - 1
    BY <2>1
  <2> QED BY <1>1, <2>2 DEF Numbered, tools
<1>2. ChatInv => ToolsAreNumbered
  <2> SUFFICES ASSUME ChatInv PROVE ToolsAreNumbered
    OBVIOUS
  <2>1. CASE phase = "streaming"
    BY <1>1, <2>1 DEF ChatInv, Sending, ToolsAreNumbered
  <2>2. CASE phase # "streaming"
    <3>1. \E body : \E closing \in Closings : Closed(body, sent, closing)
      BY <2>2, ReasonIs DEF ChatInv, Closings
    <3>2. PICK body : \E closing \in Closings : Closed(body, sent, closing)
      BY <3>1
    <3>3. Tools(sent) = Tools(body) /\ body \in Seq(Body) /\ Numbered(Tools(body), 0)
      BY <3>2, ClosedIs DEF Closed
    <3> QED BY <1>1, <2>2, <3>3 DEF ToolsAreNumbered
  <2> QED BY <2>1, <2>2
<1> QED BY <1>2, ChatInvariant, PTL

LEMMA EndedShows ==
    ASSUME ChatInv, phase = "ended", ~scanner.inXml
    PROVE  \E body : /\ Closed(body, sent, Reason(body))
                     /\ Seen(sent) = Streams!Found(Content) /\ Content \in Streams!Text
                     /\ sent \in Seq(Frame) /\ Tools(sent) = Tools(body)
                     /\ sent[Len(sent) - 1] = Reason(body)
<1>1. PICK body : Closed(body, sent, Reason(body)) /\ Seen(body) = Streams!Found(ContentOf(upstream))
  BY DEF ChatInv
<1>2. /\ sent \in Seq(Frame) /\ Len(sent) = Len(body) + 2 /\ Len(body) \in Nat
      /\ Seen(sent) = Seen(body) /\ Tools(sent) = Tools(body)
      /\ sent[Len(body) + 1] = Reason(body)
  BY <1>1, ReasonIs, ClosedIs
<1>3. Len(sent) - 1 = Len(body) + 1
  BY <1>2
<1>4. Content = ContentOf(upstream) /\ ContentOf(upstream) \in Streams!Text
  <2>1. upstream \in Seq(Chunks)
    BY DEF ChatInv
  <2> QED BY <2>1, ContentIs DEF Content, ContentOf
<1> QED BY <1>1, <1>2, <1>3, <1>4

(* The one-shot function finds the same in a plain content. *)
LEMMA FoundPlainly ==
    ASSUME NEW w \in Streams!Text, Plain(w)
    PROVE  /\ Streams!Found(w) = Streams!Items(ParseComplete(w))
           /\ Streams!Found(w) = Items(ParseComplete(w))
           /\ ParseComplete(w) = Streams!ReadAsScanner(w)
<1>1. Streams!Plain(w)
  <2>1. Streams!Elements = Elements /\ Streams!Invoke = Invoke
    BY Zenon DEF Streams!Elements, Elements, Streams!Nested, Nested, Streams!Escaped, Escaped,
                 Streams!Quoted, Quoted, Streams!Invoke, Invoke
  <2> QED BY <2>1, SameHelpers, Zenon DEF Streams!Plain, Plain
<1>2. Streams!ReadAsScanner(w) = ParseComplete(w)
  BY <1>1, Streams!PlainAlike, SameParse
<1> QED BY <1>2, SameItems DEF Streams!Found

(* For any chunks and any number of them: a stream whose content is plain  *)
(* and does not end in an open block has shown the text and the tool calls *)
(* of the whole content, in order, however it was cut into chunks          *)
(* (chat.py:444-467).                                                      *)
THEOREM StreamsAreExact == Spec => []ContentIsExact
<1>1. ChatInv => ContentIsExact
  <2> SUFFICES ASSUME ChatInv, phase = "ended", ~scanner.inXml, Plain(Content)
               PROVE  Visible = Items(ParseComplete(Content))
    BY DEF ContentIsExact
  <2>1. Seen(sent) = Streams!Found(Content) /\ Content \in Streams!Text
    BY EndedShows
  <2>2. Visible = Seen(sent)
    BY DEF Visible, Seen, Shown
  <2> QED BY <2>1, <2>2, FoundPlainly
<1> QED BY <1>1, ChatInvariant, PTL

-----------------------------------------------------------------------------
(* Putting the frames together *)

(* The text and the tool calls of items. *)
SayMap == [x \in ItemSet |-> IF x[1] = "text" THEN <<x[2]>> ELSE <<>>]
CallMap == [x \in ItemSet |->
              IF x[1] = "tool_use" THEN <<[kind |-> "tool_use", text |-> <<x[2]>>]>> ELSE <<>>]
CallSet == [kind : {"tool_use"}, text : Seq(Streams!Symbols)]
Spoken(items) == FlattenSeq(Streams!Each(SayMap, items))
Called(items) == FlattenSeq(Streams!Each(CallMap, items))

LEMMA ItemMaps ==
    /\ Streams!Maps(SayMap, ItemSet, Streams!Symbols)
    /\ Streams!Maps(CallMap, ItemSet, CallSet)
<1>1. ASSUME NEW x \in ItemSet PROVE SayMap[x] \in Seq(Streams!Symbols) /\ CallMap[x] \in Seq(CallSet)
  <2> DEFINE y == x[2]
             S == Streams!Symbols
             call == [kind |-> "tool_use", text |-> <<y>>]
  <2>1. y \in S
    BY DEF ItemSet
  <2> HIDE DEF y, S
  <2>2. <<y>> \in Seq(S) /\ <<>> \in Seq(S)
    BY <2>1
  <2>3. call \in CallSet
    BY <2>2 DEF CallSet, S
  <2> HIDE DEF call
  <2>4. <<call>> \in Seq(CallSet) /\ <<>> \in Seq(CallSet)
    BY <2>3
  <2>5. SayMap[x] = IF x[1] = "text" THEN <<y>> ELSE <<>>
    BY DEF SayMap, y
  <2>6. CallMap[x] = IF x[1] = "tool_use" THEN <<call>> ELSE <<>>
    BY DEF CallMap, y, call
  <2> QED BY <2>2, <2>4, <2>5, <2>6 DEF S
<1> QED BY <1>1 DEF Streams!Maps, SayMap, CallMap

(* Of a text they are the text itself and no call. *)
LEMMA TextSpoken ==
    ASSUME NEW u \in Streams!Text, NEW items, items = [j \in 1..Len(u) |-> <<"text", u[j]>>]
    PROVE  Spoken(items) = u /\ Called(items) = <<>>
<1> DEFINE S == Streams!Symbols
           A == {"text"} \X S
           second == [x \in A |-> x[2]]
           g == [x \in A |-> <<x[2]>>]
           none == [x \in A |-> <<>>]
<1>1. u \in Seq(S) /\ Len(u) \in Nat /\ \A j \in 1..Len(u) : u[j] \in S
  BY DEF Streams!Text
<1>2. items \in Seq(A) /\ Len(items) = Len(u) /\ \A j \in 1..Len(u) : items[j] = <<"text", u[j]>>
  <2> HIDE DEF S
  <2>1. \A j \in 1..Len(u) : <<"text", u[j]>> \in A
    BY <1>1
  <2> HIDE DEF A
  <2> QED BY <1>1, <2>1
<1>3. \A x \in A : x \in ItemSet /\ x[1] = "text" /\ x[2] \in S /\ x[1] # "tool_use"
  BY DEF ItemSet, Streams!Kinds
<1>4. DOMAIN items = 1..Len(u) /\ \A i \in DOMAIN items : items[i] \in A
  BY <1>1, <1>2
<1>5. Streams!Each(SayMap, items) = Streams!Each(g, items)
  <2>1. \A x \in A : SayMap[x] = g[x]
    BY <1>3 DEF SayMap
  <2> HIDE DEF g, A
  <2> QED BY <1>4, <2>1 DEF Streams!Each
<1>6. Streams!Each(CallMap, items) = Streams!Each(none, items)
  <2>1. \A x \in A : CallMap[x] = none[x]
    BY <1>3 DEF CallMap
  <2> HIDE DEF none, A
  <2> QED BY <1>4, <2>1 DEF Streams!Each
<1>7. Streams!Picks(g, second, A, S)
  <2> HIDE DEF S, A
  <2>1. \A x \in A : x[2] \in S /\ <<x[2]>> \in Seq(S)
    BY <1>3
  <2> QED BY <2>1 DEF Streams!Picks
<1>8. Streams!Maps(none, A, S) /\ Streams!Drops(none, A)
  <2> HIDE DEF S, A
  <2>1. <<>> \in Seq(S)
    OBVIOUS
  <2> QED BY <2>1 DEF Streams!Maps, Streams!Drops
<1>9. Streams!Mapped(second, items) = u
  <2>1. \A j \in 1..Len(u) : second[items[j]] = u[j]
    <3>1. ASSUME NEW j \in 1..Len(u) PROVE second[items[j]] = u[j]
      <4>1. items[j] \in A /\ items[j] = <<"text", u[j]>>
        BY <1>2, <1>4
      <4> HIDE DEF A
      <4> QED BY <4>1
    <3> QED BY <3>1
  <2> HIDE DEF second
  <2>2. Streams!Mapped(second, items) = [j \in 1..Len(u) |-> u[j]]
    BY <1>2, <2>1 DEF Streams!Mapped
  <2> HIDE DEF S
  <2>3. u = [j \in 1..Len(u) |-> u[j]]
    BY <1>1
  <2> QED BY <2>2, <2>3
<1> HIDE DEF A, S, g, second, none
<1>10. Streams!FlattenSeq(Streams!Each(g, items)) = Streams!Mapped(second, items)
  BY <1>2, <1>7, Streams!FlatSingle
<1>11. Streams!FlattenSeq(Streams!Each(none, items)) = <<>>
  BY <1>2, <1>8, Streams!FlatNone
<1> QED BY <1>5, <1>6, <1>9, <1>10, <1>11, SameHelpers DEF Spoken, Called

(* A tool call is one symbol. *)
LEMMA OneSymbol == \A u \in Streams!Tools : u = <<u[1]>> /\ Len(u) = 1 /\ u[1] \in Streams!Symbols
<1>1. Streams!Invoke \in Streams!Symbols /\ Streams!Escaped \in Streams!Symbols
  BY DEF Streams!Symbols, Streams!Elements
<1>2. \A x \in Streams!Symbols : <<x>> = <<<<x>>[1]>> /\ Len(<<x>>) = 1 /\ <<x>>[1] \in Streams!Symbols
  OBVIOUS
<1> QED BY <1>1, <1>2 DEF Streams!Tools

LEMMA CallSpoken ==
    ASSUME NEW y \in Streams!Symbols, NEW items, items = <<<<"tool_use", y>>>>
    PROVE  Spoken(items) = <<>> /\ Called(items) = <<[kind |-> "tool_use", text |-> <<y>>]>>
<1> DEFINE x == <<"tool_use", y>>
<1>1. x \in ItemSet /\ x[1] = "tool_use" /\ x[2] = y
  BY DEF ItemSet, Streams!Kinds
<1>2. SayMap[x] = <<>> /\ CallMap[x] = <<[kind |-> "tool_use", text |-> <<y>>]>>
  BY <1>1 DEF SayMap, CallMap
<1> HIDE DEF x
<1>3. /\ Streams!FlattenSeq(Streams!Each(SayMap, <<x>>)) = SayMap[x]
      /\ Streams!FlattenSeq(Streams!Each(CallMap, <<x>>)) = CallMap[x]
  BY <1>1, ItemMaps, Streams!FlatOne
<1> QED BY <1>2, <1>3, SameHelpers DEF Spoken, Called, x

(* Frames and findings alike: what is shown of them, says and calls. *)
Parts(A) == \A f \in A : f.kind \in Shown =>
    /\ f.text \in Streams!Text \ {<<>>}
    /\ f.kind = "tool_use" => f.text \in Streams!Tools
SeenIn(A) == [f \in A |-> IF f.kind \in Shown THEN ItemsOf(f) ELSE <<>>]
SaysIn(A) == [f \in A |-> IF f.kind = "text" THEN f.text ELSE <<>>]
CallsIn(A) == [f \in A |->
    IF f.kind = "tool_use" THEN <<[kind |-> "tool_use", text |-> f.text]>> ELSE <<>>]
CallsOf(A, s) == FlattenSeq(Streams!Each(CallsIn(A), s))

LEMMA PartMaps ==
    ASSUME NEW A, Parts(A)
    PROVE  /\ Streams!Maps(SeenIn(A), A, ItemSet)
           /\ Streams!Maps(SaysIn(A), A, Streams!Symbols)
           /\ Streams!Maps(CallsIn(A), A, CallSet)
           /\ Streams!Composes(SeenIn(A), SayMap, SaysIn(A), A)
           /\ Streams!Composes(SeenIn(A), CallMap, CallsIn(A), A)
<1> DEFINE M == SeenIn(A)
           T == SaysIn(A)
           C == CallsIn(A)
<1>1. ASSUME NEW f \in A
      PROVE  /\ M[f] \in Seq(ItemSet) /\ T[f] \in Seq(Streams!Symbols) /\ C[f] \in Seq(CallSet)
             /\ Streams!FlattenSeq(Streams!Each(SayMap, M[f])) = T[f]
             /\ Streams!FlattenSeq(Streams!Each(CallMap, M[f])) = C[f]
  <2> DEFINE call == [kind |-> "tool_use", text |-> f.text]
  <2>1. CASE f.kind \in Shown
    <3>1. f.text \in Streams!Text /\ f.text # <<>> /\ (f.kind = "tool_use" => f.text \in Streams!Tools)
          /\ f.kind \in {"text", "tool_use"}
      BY <2>1 DEF Parts, Shown
    <3>2. ItemsOf(f) = [j \in 1..Len(f.text) |-> <<f.kind, f.text[j]>>] /\ ItemsOf(f) \in Seq(ItemSet)
      BY <2>1, <3>1, ItemsOfShown
    <3>3. M[f] = ItemsOf(f)
      BY <2>1 DEF SeenIn
    <3>4. CASE f.kind = "text"
      <4>1. T[f] = f.text /\ C[f] = <<>>
        BY <3>4 DEF SaysIn, CallsIn
      <4>2. Spoken(ItemsOf(f)) = f.text /\ Called(ItemsOf(f)) = <<>>
        <5> DEFINE u == f.text
                   items == ItemsOf(f)
        <5>1. items = [j \in 1..Len(u) |-> <<"text", u[j]>>] /\ u \in Streams!Text
          BY <3>1, <3>2, <3>4
        <5> HIDE DEF u, items
        <5>2. Spoken(items) = u /\ Called(items) = <<>>
          BY <5>1, TextSpoken
        <5> QED BY <5>2 DEF u, items
      <4>3. <<>> \in Seq(CallSet)
        OBVIOUS
      <4> HIDE DEF M, T, C
      <4> QED BY <3>1, <3>2, <3>3, <4>1, <4>2, <4>3, SameHelpers DEF Spoken, Called, Streams!Text
    <3>5. CASE f.kind = "tool_use"
      <4> DEFINE y == f.text[1]
      <4>0. f.text = <<y>> /\ Len(f.text) = 1 /\ y \in Streams!Symbols
        BY <3>1, <3>5, OneSymbol
      <4>1. T[f] = <<>> /\ C[f] = <<call>> /\ call = [kind |-> "tool_use", text |-> <<y>>]
        BY <3>5, <4>0 DEF SaysIn, CallsIn
      <4>2. ItemsOf(f) = <<<<"tool_use", y>>>>
        <5>1. ItemsOf(f) = [j \in 1..1 |-> <<"tool_use", f.text[j]>>]
          BY <3>2, <3>5, <4>0
        <5> QED BY <5>1
      <4> DEFINE items == ItemsOf(f)
      <4>3. items = <<<<"tool_use", y>>>>
        BY <4>2
      <4> HIDE DEF items, y
      <4>4. Spoken(items) = <<>> /\ Called(items) = <<[kind |-> "tool_use", text |-> <<y>>]>>
        BY <4>0, <4>3, CallSpoken
      <4>5. <<call>> \in Seq(CallSet) /\ <<>> \in Seq(Streams!Symbols)
        <5>1. call \in CallSet
          BY <3>1 DEF CallSet, Streams!Text
        <5> HIDE DEF call
        <5> QED BY <5>1
      <4> HIDE DEF M, T, C, call
      <4> QED BY <3>2, <3>3, <4>1, <4>4, <4>5, SameHelpers DEF Spoken, Called, items
    <3> QED BY <3>1, <3>4, <3>5
  <2>2. CASE f.kind \notin Shown
    <3>1. M[f] = <<>> /\ T[f] = <<>> /\ C[f] = <<>>
      BY <2>2 DEF SeenIn, SaysIn, CallsIn, Shown
    <3>2. /\ Streams!FlattenSeq(Streams!Each(SayMap, <<>>)) = <<>>
          /\ Streams!FlattenSeq(Streams!Each(CallMap, <<>>)) = <<>>
      BY Streams!FlatEmpty
    <3> HIDE DEF M, T, C
    <3> QED BY <3>1, <3>2
  <2> QED BY <2>1, <2>2
<1>2. M = [f \in A |-> M[f]] /\ T = [f \in A |-> T[f]] /\ C = [f \in A |-> C[f]]
  BY DEF SeenIn, SaysIn, CallsIn
<1> HIDE DEF M, T, C
<1>3. M \in [A -> Seq(ItemSet)] /\ T \in [A -> Seq(Streams!Symbols)] /\ C \in [A -> Seq(CallSet)]
  BY <1>1, <1>2
<1> QED BY <1>1, <1>3 DEF Streams!Maps, Streams!Composes, M, T, C

(* Their text and calls are those of their items. *)
LEMMA PartsSay ==
    ASSUME NEW A, Parts(A), NEW s \in Seq(A)
    PROVE  /\ TextOf("text", s) = Spoken(ItemsIn(Shown, s))
           /\ CallsOf(A, s) = Called(ItemsIn(Shown, s))
           /\ TextOf("text", s) \in Streams!Text
<1>1. \A i \in DOMAIN s : s[i] \in A
  OBVIOUS
<1>2. Streams!Each(SeenIn(A), s)
        = [i \in DOMAIN s |-> IF s[i].kind \in Shown THEN ItemsOf(s[i]) ELSE <<>>]
  BY <1>1 DEF Streams!Each, SeenIn
<1>3. Streams!Each(SaysIn(A), s)
        = [i \in DOMAIN s |-> IF s[i].kind = "text" THEN s[i].text ELSE <<>>]
  BY <1>1 DEF Streams!Each, SaysIn
<1>4. ItemsIn(Shown, s) = Streams!FlattenSeq(Streams!Each(SeenIn(A), s))
  BY <1>2, SameHelpers, Zenon DEF ItemsIn
<1>5. TextOf("text", s) = Streams!FlattenSeq(Streams!Each(SaysIn(A), s))
  BY <1>3, SameHelpers, Zenon DEF TextOf
<1> DEFINE M == SeenIn(A)
           T == SaysIn(A)
           C == CallsIn(A)
<1>6. /\ Streams!Maps(M, A, ItemSet) /\ Streams!Maps(T, A, Streams!Symbols)
      /\ Streams!Maps(C, A, CallSet)
      /\ Streams!Composes(M, SayMap, T, A) /\ Streams!Composes(M, CallMap, C, A)
  BY PartMaps
<1> HIDE DEF M, T, C
<1>7. Streams!FlattenSeq(Streams!Each(SayMap, Streams!FlattenSeq(Streams!Each(M, s))))
        = Streams!FlattenSeq(Streams!Each(T, s))
  BY <1>6, ItemMaps, Streams!FlatFlat
<1>8. Streams!FlattenSeq(Streams!Each(CallMap, Streams!FlattenSeq(Streams!Each(M, s))))
        = Streams!FlattenSeq(Streams!Each(C, s))
  BY <1>6, ItemMaps, Streams!FlatFlat
<1>9. Streams!FlattenSeq(Streams!Each(T, s)) \in Seq(Streams!Symbols)
  <2>1. Streams!Over(s, A)
    BY DEF Streams!Over
  <2> QED BY <1>6, <2>1, Streams!FlatType
<1> QED BY <1>4, <1>5, <1>7, <1>8, <1>9, SameHelpers DEF Spoken, Called, CallsOf, M, T, C, Streams!Text

LEMMA BothAreParts == Parts(Frame) /\ Parts(Streams!Finding)
<1>1. Parts(Frame)
  BY FrameIs DEF Parts, ToolFrames
<1>2. Parts(Streams!Finding)
  BY Streams!FindingParts, SameHelpers DEF Parts
<1> QED BY <1>1, <1>2

(* The calls of a client are the tool frames without their index. *)
AsCalls(tools) == [i \in DOMAIN tools |-> [kind |-> "tool_use", text |-> tools[i].text]]

LEMMA FrameCalls ==
    ASSUME NEW s \in Seq(Frame)
    PROVE  AsCalls(Tools(s)) = CallsOf(Frame, s) /\ (Tools(s) = <<>> <=> CallsOf(Frame, s) = <<>>)
<1> DEFINE call == [f \in ToolFrames |-> [kind |-> "tool_use", text |-> f.text]]
           one == [f \in ToolFrames |-> <<call[f]>>]
           tools == Tools(s)
           C == CallsIn(Frame)
<1>1. tools \in Seq(ToolFrames) /\ tools = Streams!FlattenSeq(Streams!Each(ToolMap, s))
  BY FramesAre
<1>2. Streams!Tools \subseteq Seq(Streams!Symbols)
  BY Streams!InvokeText DEF Streams!Text
<1>3. \A f \in ToolFrames : call[f] = [kind |-> "tool_use", text |-> f.text] /\ call[f] \in CallSet
  BY <1>2 DEF ToolFrames, CallSet
<1>4. call \in [ToolFrames -> CallSet]
  <2>1. call = [f \in ToolFrames |-> call[f]]
    OBVIOUS
  <2> QED BY <1>3, <2>1
<1> HIDE DEF call
<1>5. Streams!Picks(one, call, ToolFrames, CallSet) /\ Streams!Maps(one, ToolFrames, CallSet)
  <2>1. \A f \in ToolFrames : <<call[f]>> \in Seq(CallSet)
    BY <1>4
  <2> QED BY <1>4, <2>1 DEF Streams!Picks, Streams!Maps
<1>6. Streams!Composes(ToolMap, one, C, Frame)
  <2>1. ASSUME NEW f \in Frame PROVE Streams!FlattenSeq(Streams!Each(one, ToolMap[f])) = C[f]
    <3>1. CASE f.kind = "tool_use"
      <4>1. f \in ToolFrames /\ ToolMap[f] = <<f>> /\ C[f] = <<call[f]>>
        BY <1>3, <3>1, FrameIs DEF ToolMap, CallsIn
      <4>2. one[f] = <<call[f]>>
        BY <4>1
      <4> HIDE DEF one, C
      <4>3. Streams!FlattenSeq(Streams!Each(one, <<f>>)) = one[f]
        BY <1>5, <4>1, Streams!FlatOne
      <4> QED BY <4>1, <4>2, <4>3
    <3>2. CASE f.kind # "tool_use"
      <4>1. ToolMap[f] = <<>> /\ C[f] = <<>>
        BY <3>2 DEF ToolMap, CallsIn
      <4> HIDE DEF one, C
      <4> QED BY <4>1, Streams!FlatEmpty
    <3> QED BY <3>1, <3>2
  <2> QED BY <2>1 DEF Streams!Composes
<1>7. Streams!Maps(C, Frame, CallSet)
  BY BothAreParts, PartMaps
<1> HIDE DEF one, C, tools
<1>8. Streams!FlattenSeq(Streams!Each(one, Streams!FlattenSeq(Streams!Each(ToolMap, s))))
        = Streams!FlattenSeq(Streams!Each(C, s))
  BY <1>5, <1>6, <1>7, MapsAre, Streams!FlatFlat
<1>9. Streams!FlattenSeq(Streams!Each(one, tools)) = Streams!Mapped(call, tools)
  BY <1>1, <1>5, Streams!FlatSingle
<1>10. Streams!Mapped(call, tools) = CallsOf(Frame, s)
  BY <1>1, <1>8, <1>9, SameHelpers DEF CallsOf, C
<1>11. AsCalls(tools) = Streams!Mapped(call, tools)
  <2>1. DOMAIN tools = 1..Len(tools) /\ \A i \in 1..Len(tools) : tools[i] \in ToolFrames
    BY <1>1
  <2>2. \A i \in 1..Len(tools) : call[tools[i]] = [kind |-> "tool_use", text |-> tools[i].text]
    BY <1>3, <2>1
  <2> QED BY <2>1, <2>2 DEF AsCalls, Streams!Mapped
<1>12. tools = <<>> <=> Streams!Mapped(call, tools) = <<>>
  <2>1. Streams!Mapped(call, tools) \in Seq(CallSet) /\ Len(Streams!Mapped(call, tools)) = Len(tools)
    <3>1. Streams!Into(call, ToolFrames, CallSet) /\ Streams!Over(tools, ToolFrames)
      BY <1>1, <1>4 DEF Streams!Into, Streams!Over
    <3>2. Streams!Over(Streams!Mapped(call, tools), CallSet)
          /\ Len(Streams!Mapped(call, tools)) = Len(tools)
      BY <3>1, Streams!MappedType
    <3> QED BY <3>2 DEF Streams!Over
  <2> DEFINE m == Streams!Mapped(call, tools)
  <2>2. tools = <<>> <=> Len(tools) = 0
    BY <1>1
  <2>3. m = <<>> <=> Len(m) = 0
    <3>1. m \in Seq(CallSet)
      BY <2>1
    <3> HIDE DEF m
    <3> QED BY <3>1
  <2> QED BY <2>1, <2>2, <2>3
<1> QED BY <1>10, <1>11, <1>12 DEF tools

LEMMA FindingCalls ==
    ASSUME NEW segs \in Streams!Findings
    PROVE  /\ OfKind("tool_use", segs) = Called(Streams!Items(segs))
           /\ TextOf("text", segs) = Spoken(Streams!Items(segs))
           /\ TextOf("text", segs) \in Streams!Text
<1> DEFINE A == Streams!Finding
<1>1. segs \in Seq(A) /\ Parts(A)
  BY BothAreParts DEF Streams!Findings
<1>2. \A i \in DOMAIN segs : segs[i] \in A
  BY <1>1
<1>3. \A x \in A : x.kind \in Shown /\ x = [kind |-> x.kind, text |-> x.text]
  BY Streams!FindingParts DEF Shown
<1> HIDE DEF A
<1>4. Streams!Items(segs) = ItemsIn(Shown, segs)
  <2>1. [i \in DOMAIN segs |-> ItemsOf(segs[i])]
          = [i \in DOMAIN segs |-> IF segs[i].kind \in Shown THEN ItemsOf(segs[i]) ELSE <<>>]
    BY <1>2, <1>3
  <2> QED BY <2>1, SameItems, Zenon DEF Items, ItemsIn
<1>5. CallsOf(A, segs) = OfKind("tool_use", segs)
  <2>1. Streams!Each(CallsIn(A), segs)
          = [i \in DOMAIN segs |-> IF segs[i].kind = "tool_use" THEN <<segs[i]>> ELSE <<>>]
    <3>1. \A x \in A : CallsIn(A)[x] = IF x.kind = "tool_use" THEN <<x>> ELSE <<>>
      <4>1. ASSUME NEW x \in A, x.kind = "tool_use" PROVE x = [kind |-> "tool_use", text |-> x.text]
        BY <1>3, <4>1
      <4> QED BY <4>1 DEF CallsIn
    <3> QED BY <1>2, <3>1 DEF Streams!Each
  <2> QED BY <2>1, Zenon DEF CallsOf, OfKind
<1> QED BY <1>1, <1>4, <1>5, PartsSay

LEMMA LeastOf == ASSUME NEW T \in SUBSET Nat, T # {} PROVE Min(T) \in T /\ \A m \in T : Min(T) <= m
<1>1. \E n \in T : \A m \in T : n <= m
  BY Framing!LeastElement
<1> QED BY <1>1 DEF Min

LEMMA GreatestOf ==
    ASSUME NEW k \in Nat, NEW T \in SUBSET (1..k), T # {}
    PROVE  Max(T) \in T /\ \A m \in T : m <= Max(T)
<1>1. Framing!Highest(T) = Max(T)
  BY Zenon DEF Framing!Highest, Max
<1>2. Framing!Highest(T) \in T /\ \A m \in T : m <= Framing!Highest(T)
  BY Framing!GreatestElement
<1> QED BY <1>1, <1>2

(* Stripping once is enough. *)
LEMMA StripTwice == ASSUME NEW u \in Streams!Text PROVE Strip(Strip(u)) = Strip(u)
<1> DEFINE S == Streams!Symbols
           Ink(t) == {i \in DOMAIN t : t[i] # Blank}
           a == Min(Ink(u))
           b == Max(Ink(u))
           v == SubSeq(u, a, b)
<1>1. \A t : Strip(t) = IF Ink(t) = {} THEN <<>> ELSE SubSeq(t, Min(Ink(t)), Max(Ink(t)))
  BY Zenon DEF Strip
<1>2. u \in Seq(S) /\ Len(u) \in Nat /\ DOMAIN u = 1..Len(u)
  BY DEF Streams!Text
<1>3. CASE Ink(u) = {}
  <2>1. Ink(<<>>) = {}
    OBVIOUS
  <2> QED BY <1>1, <1>3, <2>1
<1>4. CASE Ink(u) # {}
  <2>1. Ink(u) \in SUBSET (1..Len(u)) /\ Ink(u) \in SUBSET Nat
    BY <1>2
  <2> DEFINE T == Ink(u)
  <2>2. Min(T) \in T /\ (\A m \in T : Min(T) <= m) /\ Max(T) \in T /\ \A m \in T : m <= Max(T)
    <3> HIDE DEF T
    <3> QED BY <1>2, <1>4, <2>1, LeastOf, GreatestOf DEF T
  <2>3. a \in 1..Len(u) /\ b \in 1..Len(u) /\ a <= b /\ u[a] # Blank /\ u[b] # Blank
    BY <1>2, <2>2
  <2> HIDE DEF a, b, S
  <2> DEFINE n == b - a + 1
  <2>4. /\ v \in Seq(S) /\ Len(v) = n /\ n \in Nat /\ n >= 1
        /\ \A i \in 1..n : v[i] = u[a + i - 1]
    BY <1>2, <2>3
  <2> HIDE DEF v
  <2>5. Ink(v) \in SUBSET (1..n) /\ Ink(v) \in SUBSET Nat /\ 1 \in Ink(v) /\ n \in Ink(v)
    <3>1. DOMAIN v = 1..n /\ 1 \in 1..n /\ n \in 1..n
      BY <2>4
    <3>2. v[1] = u[a] /\ v[n] = u[b]
      <4>1. a + 1 - 1 = a /\ a + n - 1 = b
        BY <2>3
      <4> HIDE DEF n
      <4> QED BY <2>4, <3>1, <4>1
    <3> QED BY <2>3, <2>4, <3>1, <3>2
  <2> DEFINE W == Ink(v)
  <2>6. Min(W) \in W /\ (\A m \in W : Min(W) <= m) /\ Max(W) \in W /\ \A m \in W : m <= Max(W)
    <3> HIDE DEF W, n
    <3> QED BY <2>4, <2>5, LeastOf, GreatestOf DEF W
  <2>7. Min(W) = 1 /\ Max(W) = n
    <3> HIDE DEF n
    <3>1. Min(W) \in 1..n /\ Max(W) \in 1..n /\ Min(W) <= 1 /\ n <= Max(W)
      BY <2>5, <2>6
    <3> QED BY <2>4, <3>1
  <2>8. SubSeq(v, 1, n) = v
    <3> HIDE DEF n
    <3> QED BY <2>4
  <2>9. Strip(u) = v
    BY <1>1, <1>4 DEF v, a, b
  <2>10. Strip(v) = SubSeq(v, Min(W), Max(W))
    <3>1. W # {}
      BY <2>5
    <3> QED BY <1>1, <3>1
  <2> QED BY <2>7, <2>8, <2>9, <2>10
<1> QED BY <1>3, <1>4

LEMMA PlainSpoken ==
    ASSUME NEW w \in Streams!Text, Find(CallsOpen, w) = 0
    PROVE  Spoken(Streams!Found(w)) = w
<1>1. ~Streams!HasCalls(w)
  BY SameHelpers DEF Streams!HasCalls, Streams!CallsAt
<1>2. Streams!Found(w) = [j \in 1..Len(w) |-> <<"text", w[j]>>]
  BY <1>1, Streams!FoundPlain DEF Streams!TextItems
<1> DEFINE items == Streams!Found(w)
<1>3. items = [j \in 1..Len(w) |-> <<"text", w[j]>>]
  BY <1>2
<1> HIDE DEF items
<1> QED BY <1>3, TextSpoken DEF items

(* What a client has put together at the end of a stream. *)
LEMMA AssembledIs ==
    ASSUME ChatInv, phase = "ended", ~scanner.inXml, Plain(Content),
           NEW segs, segs = ParseComplete(Content)
    PROVE  /\ segs \in Streams!Findings /\ Content \in Streams!Text
           /\ TextOf("text", segs) \in Streams!Text
           /\ Find(CallsOpen, Content) = 0 => TextOf("text", segs) = Content
           /\ Assembled = Answer(<<>>, Strip(TextOf("text", segs)), OfKind("tool_use", segs),
                                 IF OfKind("tool_use", segs) = <<>> THEN "none" ELSE "tool_calls")
<1>1. PICK body :
        /\ Seen(sent) = Streams!Found(Content) /\ Content \in Streams!Text
        /\ sent \in Seq(Frame) /\ Tools(sent) = Tools(body)
        /\ sent[Len(sent) - 1] = Reason(body)
  BY EndedShows
<1>2. segs = Streams!ReadAsScanner(Content) /\ Streams!Items(segs) = Streams!Found(Content)
  BY <1>1, FoundPlainly
<1>3. segs \in Streams!Findings
  BY <1>1, <1>2, Streams!ParseType
<1> DEFINE items == Streams!Items(segs)
<1>4. /\ OfKind("tool_use", segs) = Called(items)
      /\ TextOf("text", segs) = Spoken(items) /\ TextOf("text", segs) \in Streams!Text
  BY <1>3, FindingCalls
<1>5. TextOf("text", sent) = Spoken(items) /\ CallsOf(Frame, sent) = Called(items)
  <2>1. ItemsIn(Shown, sent) = items
    BY <1>1, <1>2 DEF Seen
  <2>2. TextOf("text", sent) = Spoken(ItemsIn(Shown, sent))
        /\ CallsOf(Frame, sent) = Called(ItemsIn(Shown, sent))
    BY <1>1, BothAreParts, PartsSay
  <2> HIDE DEF items
  <2> QED BY <2>1, <2>2
<1>6. AsCalls(Tools(sent)) = Called(items) /\ (Tools(sent) = <<>> <=> Called(items) = <<>>)
  <2>1. AsCalls(Tools(sent)) = CallsOf(Frame, sent)
        /\ (Tools(sent) = <<>> <=> CallsOf(Frame, sent) = <<>>)
    BY <1>1, FrameCalls
  <2> HIDE DEF items
  <2> QED BY <1>5, <2>1
<1>7. Find(CallsOpen, Content) = 0 => Spoken(items) = Content
  BY <1>1, <1>2, PlainSpoken
<1> HIDE DEF items
<1> DEFINE reason == sent[Len(sent) - 1].reason
           finish == IF reason = "tool_calls" THEN "tool_calls" ELSE "none"
<1>8. finish = IF Called(items) = <<>> THEN "none" ELSE "tool_calls"
  <2>1. reason = IF Tools(sent) # <<>> THEN "tool_calls" ELSE "stop"
    BY <1>1 DEF Reason, FinishFrame
  <2> HIDE DEF reason
  <2>2. "stop" # "tool_calls"
    OBVIOUS
  <2> QED BY <1>6, <2>1, <2>2
<1>9. Assembled = Answer(<<>>, Strip(TextOf("text", sent)), AsCalls(Tools(sent)), finish)
  BY Zenon DEF Assembled, AsCalls
<1> HIDE DEF finish
<1> QED BY <1>1, <1>3, <1>4, <1>5, <1>6, <1>7, <1>8, <1>9

(* For any chunks and any number of them: a client that puts the frames of *)
(* a stream together has the answer that the same content gives in one     *)
(* piece, its text but for white space at the ends, its tool calls and its *)
(* finish reason; left out are contents that are not plain, streams that   *)
(* end in an open block and blocks in which nothing parses                 *)
(* (chat.py:365-405, 444-467).                                             *)
THEOREM ChatAnswersAgree == Spec => []OneShotAgrees
<1>1. ChatInv => OneShotAgrees
  <2> DEFINE whole == PostprocessToolCalls(Whole)
             kept == whole.calls = <<>> /\ Find(CallsOpen, Content) > 0
  <2> SUFFICES ASSUME ChatInv, phase = "ended", ~scanner.inXml, ~kept, Plain(Content)
               PROVE  Assembled = [whole EXCEPT !.content = Strip(@)]
    BY Zenon DEF OneShotAgrees
  <2> DEFINE segs == ParseComplete(Content)
             tools == OfKind("tool_use", segs)
             t == TextOf("text", segs)
  <2>1. /\ Content \in Streams!Text /\ t \in Streams!Text
        /\ Find(CallsOpen, Content) = 0 => t = Content
        /\ Assembled = Answer(<<>>, Strip(t), tools, IF tools = <<>> THEN "none" ELSE "tool_calls")
    BY AssembledIs
  <2>2. Whole = Answer(<<>>, Content, <<>>, "none")
    BY DEF Whole
  <2>3. Find(CallsOpen, Content) \in Nat
    <3>1. Streams!Find(Streams!CallsOpen, Content) \in Nat
      BY <2>1, Streams!Tags, Streams!FindWhere, Streams!FindBounds
    <3> QED BY <3>1, SameHelpers
  <2>4. whole = IF tools = <<>> THEN Whole
                ELSE [Whole EXCEPT !.content = Strip(t), !.calls = tools, !.finish = "tool_calls"]
    <3>1. Whole.content = Content
      BY <2>2 DEF Answer
    <3>2. PostprocessToolCalls(Whole)
            = LET s == ParseComplete(Whole.content)
                  c == OfKind("tool_use", s)
              IN  IF c = <<>> THEN Whole
                  ELSE [Whole EXCEPT !.content = Strip(TextOf("text", s)),
                                     !.calls = c, !.finish = "tool_calls"]
      BY Zenon DEF PostprocessToolCalls
    <3> QED BY <3>1, <3>2, Zenon
  <2> HIDE DEF segs, tools, t, whole
  <2>5. CASE tools = <<>>
    <3>1. whole = Answer(<<>>, Content, <<>>, "none")
      BY <2>2, <2>4, <2>5
    <3>2. whole.calls = <<>> /\ [whole EXCEPT !.content = Strip(@)] = Answer(<<>>, Strip(Content), <<>>, "none")
      BY <3>1 DEF Answer
    <3>3. t = Content
      BY <2>1, <2>3, <3>2
    <3> QED BY <2>1, <2>5, <3>2, <3>3
  <2>6. CASE tools # <<>>
    <3> DEFINE x == Strip(t)
    <3>1. Strip(x) = x
      BY <2>1, StripTwice
    <3>2. whole = [Whole EXCEPT !.content = x, !.calls = tools, !.finish = "tool_calls"]
      BY <2>4, <2>6
    <3> HIDE DEF x
    <3>3. whole = Answer(<<>>, x, tools, "tool_calls")
      BY <2>2, <3>2 DEF Answer
    <3>4. [whole EXCEPT !.content = Strip(@)] = Answer(<<>>, Strip(x), tools, "tool_calls")
      BY <3>3 DEF Answer
    <3> QED BY <2>1, <2>6, <3>1, <3>4 DEF x
  <2> QED BY <2>5, <2>6
<1> QED BY <1>1, ChatInvariant, PTL

=============================================================================
