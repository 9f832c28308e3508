------------------------------ MODULE StreamProofs ------------------------------
(***************************************************************************)
(* Theorems about StreamConverter, for any chunks and any number of them.  *)
(***************************************************************************)
EXTENDS StreamConverter, TLAPS

(* The symbols of the content, and the theory of the scanners over them. *)
ContentSymbols == UNION {Range(chunk.content) : chunk \in Chunks}
Streams == INSTANCE ScannerProofs WITH
    Alphabets <- {ContentSymbols}, MaxText <- 0, MaxChunk <- 1,
    text <- <<>>, splitter <- NewSplitter, scanner <- NewScanner,
    split <- <<>>, scanned <- <<>>, ended <- FALSE

Cuts == INSTANCE FoldTheorems WITH Op <- CutCalls
Blocks == INSTANCE FoldTheorems WITH Op <- CutCallsBlock
-----------------------------------------------------------------------------
(* The scanners of the converter are those of ScannerProofs *)

LEMMA SameHelpers ==
    /\ \A tag, s : Streams!Find(tag, s) = Find(tag, s)
    /\ \A s, n : Streams!Take(s, n) = Take(s, n) /\ Streams!Drop(s, n) = Drop(s, n)
    /\ \A kind, s : Streams!Segment(kind, s) = Segment(kind, s)
    /\ \A s : Streams!FlattenSeq(s) = FlattenSeq(s)
    /\ \A s : Streams!Passes(s) = Passes(s)
    /\ Streams!CallsOpen = CallsOpen /\ Streams!CallsClose = CallsClose
    /\ Streams!TagLen = TagLen /\ Streams!Invoke = Invoke
    /\ Streams!ThinkOpen = ThinkOpen
<1>1. \A tag, s : Streams!Find(tag, s) = Find(tag, s)
  BY Zenon DEF Streams!Find, Find, Streams!Occurs, Occurs, Streams!TagLen, TagLen
<1>2. \A s, n : Streams!Take(s, n) = Take(s, n) /\ Streams!Drop(s, n) = Drop(s, n)
  BY Zenon DEF Streams!Take, Take, Streams!Drop, Drop
<1>3. \A kind, s : Streams!Segment(kind, s) = Segment(kind, s)
  BY Zenon DEF Streams!Segment, Segment
<1>4. \A s : Streams!FlattenSeq(s) = FlattenSeq(s)
  BY Zenon DEF Streams!FlattenSeq, FlattenSeq, Streams!FoldLeft, FoldLeft,
               Streams!MapThenFoldSet, MapThenFoldSet, Streams!Max, Max
<1>5. \A s : Streams!Passes(s) = Passes(s)
  BY Zenon DEF Streams!Passes, Passes, Streams!TagLen, TagLen
<1>6. /\ Streams!CallsOpen = CallsOpen /\ Streams!CallsClose = CallsClose
      /\ Streams!TagLen = TagLen /\ Streams!Invoke = Invoke /\ Streams!ThinkOpen = ThinkOpen
    /\ Streams!ThinkOpen = ThinkOpen
  BY Zenon DEF Streams!CallsOpen, CallsOpen, Streams!CallsClose, CallsClose,
               Streams!TagLen, TagLen, Streams!Invoke, Invoke, Streams!ThinkOpen, ThinkOpen
<1> QED BY <1>1, <1>2, <1>3, <1>4, <1>5, <1>6

LEMMA SameFlatten == \A s : Streams!FlattenSeq(s) = FlattenSeq(s)
BY SameHelpers

LEMMA SameReading == \A xml : Streams!ParseInvokesFromXml(xml) = ParseInvokesFromXml(xml)
<1>1. \A inner, i : Streams!Depth(inner, i) = Depth(inner, i)
  BY Zenon DEF Streams!Depth, Depth, Streams!OpenedTo, OpenedTo, Streams!ClosedTo, ClosedTo,
               Streams!Cardinality, Cardinality, Streams!Occurs, Occurs, Streams!TagLen, TagLen,
               Streams!ThinkOpen, ThinkOpen, Streams!ThinkClose, ThinkClose
<1>2. \A inner, i : /\ Streams!OpenedTo(inner, i) = OpenedTo(inner, i)
                    /\ Streams!ClosedTo(inner, i) = ClosedTo(inner, i)
  BY Zenon DEF Streams!OpenedTo, OpenedTo, Streams!ClosedTo, ClosedTo,
               Streams!Occurs, Occurs, Streams!TagLen, TagLen,
               Streams!ThinkOpen, ThinkOpen, Streams!ThinkClose, ThinkClose
<1>3. \A s : Streams!IsBlank(s) = IsBlank(s)
  BY Zenon DEF Streams!IsBlank, IsBlank, Streams!Range, Range, Streams!Blank, Blank
<1>4. \A xml : Streams!Enclosed(xml) = Enclosed(xml)
  BY SameHelpers, Zenon DEF Streams!Enclosed, Enclosed
<1>5. /\ Streams!Elements = Elements /\ Streams!Nested = Nested
      /\ Streams!Escaped = Escaped /\ \A t : Streams!ToolUse(t) = ToolUse(t)
  BY Zenon DEF Streams!Elements, Elements, Streams!Nested, Nested, Streams!Escaped, Escaped,
               Streams!Quoted, Quoted, Streams!Invoke, Invoke, Streams!ToolUse, ToolUse
<1>6. ASSUME NEW xml PROVE Streams!IsXml(xml) = IsXml(xml)
  <2> DEFINE inner == Enclosed(xml)
  <2>1. Streams!Enclosed(xml) = inner
    BY <1>4
  <2> HIDE DEF inner
  <2>2. Streams!IsXml(xml)
          = /\ Find(CallsOpen, xml) > 0 /\ Find(CallsClose, xml) = Len(xml) - TagLen + 1
            /\ IsBlank(Take(xml, Find(CallsOpen, xml) - 1))
            /\ \A i \in DOMAIN inner :
                  /\ inner[i] \in {"<th", "</th"}
                       => i \in OpenedTo(inner, i) \union ClosedTo(inner, i)
                  /\ inner[i] \notin {"<fun", "</fun"}
                  /\ Depth(inner, i) >= 0
            /\ Depth(inner, Len(inner)) = 0
    BY <1>1, <1>2, <1>3, <2>1, SameHelpers DEF Streams!IsXml, Streams!Balanced
  <2> QED BY <2>2 DEF IsXml, Balanced, inner
<1>7. ASSUME NEW inner PROVE Streams!ParseInvokesStrictly(inner) = ParseInvokesStrictly(inner)
  <2> DEFINE read == [i \in DOMAIN inner |->
                IF inner[i] \in Elements \ {Nested} /\ Depth(inner, i) = 0 THEN ToolUse(Invoke) ELSE <<>>]
  <2>1. Streams!ParseInvokesStrictly(inner) = Streams!FlattenSeq(read)
    BY <1>1, <1>5, SameHelpers DEF Streams!ParseInvokesStrictly
  <2>2. ParseInvokesStrictly(inner) = FlattenSeq(read)
    BY Zenon DEF ParseInvokesStrictly
  <2> QED BY <2>1, <2>2, SameHelpers
<1>8. ASSUME NEW xml PROVE Streams!ParseInvokesRegex(xml) = ParseInvokesRegex(xml)
  <2> DEFINE read == [i \in DOMAIN xml |->
                CASE xml[i] = Escaped -> ToolUse(Escaped)
                  [] xml[i] \in {Invoke, Nested} -> ToolUse(Invoke)
                  [] OTHER -> <<>>]
  <2>1. Streams!ParseInvokesRegex(xml) = Streams!FlattenSeq(read)
    BY <1>5, SameHelpers DEF Streams!ParseInvokesRegex
  <2>2. ParseInvokesRegex(xml) = FlattenSeq(read)
    BY Zenon DEF ParseInvokesRegex
  <2> QED BY <2>1, <2>2, SameHelpers
<1> QED BY <1>4, <1>6, <1>7, <1>8, Zenon DEF Streams!ParseInvokesFromXml, ParseInvokesFromXml

(* Passes of the same kind add up to the same. *)
LEMMA SameCuts ==
    ASSUME NEW base, NEW s \in Seq(Nat)
    PROVE  Streams!FoldLeft(Streams!CutCalls, base, s) = FoldLeft(CutCalls, base, s)
<1>1. ASSUME NEW fed, NEW pass PROVE Streams!CutCalls(fed, pass) = CutCalls(fed, pass)
  BY SameHelpers, SameReading, Zenon DEF Streams!CutCalls, CutCalls
<1>2. Streams!FoldLeft(Streams!CutCalls, base, s) = Streams!CallCuts!Fold(base, s)
  BY Zenon DEF Streams!CallCuts!Fold, Streams!FoldLeft, Streams!CallCuts!MapThenFoldSet,
               Streams!MapThenFoldSet, Streams!CallCuts!Highest, Streams!Max
<1>3. FoldLeft(CutCalls, base, s) = Cuts!Fold(base, s)
  BY Zenon DEF Cuts!Fold, FoldLeft, Cuts!MapThenFoldSet, MapThenFoldSet, Cuts!Highest, Max
<1>4. PICK r : Streams!CallCuts!Runs(r, base, s)
  BY Streams!CallCuts!FoldRuns
<1>5. /\ r[0] = base /\ Streams!CallCuts!Fold(base, s) = r[Len(s)]
      /\ \A k \in 1..Len(s) : r[k] = CutCalls(r[k - 1], s[k])
  BY <1>1, <1>4, Zenon DEF Streams!CallCuts!Runs
<1>6. Cuts!Fold(base, s) = r[Len(s)]
  BY <1>5, Cuts!FoldIs
<1> QED BY <1>2, <1>3, <1>5, <1>6

LEMMA SameBlocks ==
    ASSUME NEW base, NEW s \in Seq(Nat)
    PROVE  Streams!FoldLeft(Streams!CutCallsBlock, base, s) = FoldLeft(CutCallsBlock, base, s)
<1>1. ASSUME NEW seen, NEW pass PROVE Streams!CutCallsBlock(seen, pass) = CutCallsBlock(seen, pass)
  BY SameHelpers, SameReading, Zenon DEF Streams!CutCallsBlock, CutCallsBlock
<1>2. Streams!FoldLeft(Streams!CutCallsBlock, base, s) = Streams!Blocks!Fold(base, s)
  BY Zenon DEF Streams!Blocks!Fold, Streams!FoldLeft, Streams!Blocks!MapThenFoldSet,
               Streams!MapThenFoldSet, Streams!Blocks!Highest, Streams!Max
<1>3. FoldLeft(CutCallsBlock, base, s) = Blocks!Fold(base, s)
  BY Zenon DEF Blocks!Fold, FoldLeft, Blocks!MapThenFoldSet, MapThenFoldSet, Blocks!Highest, Max
<1>4. PICK r : Streams!Blocks!Runs(r, base, s)
  BY Streams!Blocks!FoldRuns
<1>5. /\ r[0] = base /\ Streams!Blocks!Fold(base, s) = r[Len(s)]
      /\ \A k \in 1..Len(s) : r[k] = CutCallsBlock(r[k - 1], s[k])
  BY <1>1, <1>4, Zenon DEF Streams!Blocks!Runs
<1>6. Blocks!Fold(base, s) = r[Len(s)]
  BY <1>5, Blocks!FoldIs
<1> QED BY <1>2, <1>3, <1>5, <1>6

LEMMA SameFold ==
    \A base, s : Streams!FoldLeft(Streams!CutTag, base, s) = FoldLeft(CutTag, base, s)
BY Zenon DEF FoldLeft, MapThenFoldSet, Max,
             Streams!FoldLeft, Streams!MapThenFoldSet, Streams!Max,
             Streams!CutTag, CutTag, Streams!KindOf, KindOf,
             Streams!NextTag, NextTag, Streams!Find, Find, Streams!Occurs, Occurs,
             Streams!TagLen, TagLen,
             Streams!Take, Take, Streams!Drop, Drop, Streams!Segment, Segment,
             Streams!ThinkOpen, ThinkOpen, Streams!ThinkClose, ThinkClose

LEMMA SameSafe ==
    /\ \A fed : Streams!EmitSafe(fed) = EmitSafe(fed)
    /\ \A fed : Streams!ScanSafe(fed) = ScanSafe(fed)
    /\ \A s : Streams!Passes(s) = Passes(s)
<1>1. \A fed : Streams!EmitSafe(fed) = EmitSafe(fed)
  BY Zenon DEF Streams!EmitSafe, EmitSafe, Streams!KindOf, KindOf, Streams!SafeLength, SafeLength,
               Streams!TagLen, TagLen,
               Streams!Take, Take, Streams!Drop, Drop, Streams!Segment, Segment
<1>2. \A fed : Streams!ScanSafe(fed) = ScanSafe(fed)
  BY Zenon DEF Streams!ScanSafe, ScanSafe, Streams!SafeLength, SafeLength,
               Streams!TagLen, TagLen,
               Streams!Take, Take, Streams!Drop, Drop, Streams!Segment, Segment
<1>3. \A s : Streams!Passes(s) = Passes(s)
  BY Zenon DEF Streams!Passes, Passes, Streams!TagLen, TagLen
<1> QED BY <1>1, <1>2, <1>3

LEMMA SameSplitter ==
    /\ \A s, content : Streams!SplitFeed(s, content) = SplitFeed(s, content)
    /\ \A s : Streams!SplitFlush(s) = SplitFlush(s)
<1>1. \A s : Streams!SplitLoop(s) = SplitLoop(s)
  BY SameFold, SameSafe, Zenon DEF Streams!SplitLoop, SplitLoop
<1>2. \A s, content : Streams!SplitFeed(s, content) = SplitFeed(s, content)
  BY <1>1, Zenon DEF Streams!SplitFeed, SplitFeed
<1>3. \A s : Streams!SplitFlush(s) = SplitFlush(s)
  BY Zenon DEF Streams!SplitFlush, SplitFlush, Streams!KindOf, KindOf, Streams!Segment, Segment
<1> QED BY <1>2, <1>3

LEMMA SameScanner ==
    ASSUME NEW x \in Streams!Scanners
    PROVE  /\ \A content \in Streams!Text : Streams!ScanFeed(x, content) = ScanFeed(x, content)
           /\ Streams!ScanFlush(x) = ScanFlush(x)
<1>1. ASSUME NEW y \in Streams!Scanners PROVE Streams!ScanLoop(y) = ScanLoop(y)
  <2> DEFINE start == [scanner |-> y, segments |-> <<>>]
             s == Passes(y.buffer)
  <2>1. s \in Seq(Nat) /\ Streams!Passes(y.buffer) = s
    BY Streams!PassesType, SameHelpers DEF Streams!Scanners
  <2> HIDE DEF s
  <2>2. Streams!FoldLeft(Streams!CutCalls, start, s) = FoldLeft(CutCalls, start, s)
    BY <2>1, SameCuts
  <2> QED BY SameSafe, <2>1, <2>2, Zenon DEF Streams!ScanLoop, ScanLoop, s
<1>2. ASSUME NEW content \in Streams!Text PROVE Streams!ScanFeed(x, content) = ScanFeed(x, content)
  <2>1. [x EXCEPT !.buffer = @ \o content] \in Streams!Scanners
    BY Streams!ConcatType DEF Streams!Scanners
  <2> QED BY <1>1, <2>1, Zenon DEF Streams!ScanFeed, ScanFeed
<1>3. Streams!ScanFlush(x) = ScanFlush(x)
  BY SameReading, SameHelpers, Zenon DEF Streams!ScanFlush, ScanFlush
<1> QED BY <1>2, <1>3

-----------------------------------------------------------------------------
(* The client: what an event does to what it sees *)

AllSymbols == Streams!Symbols \union Range(Sentinel) \union Range(NativeCall)
                \union UNION {Range(chunk.reasoning) : chunk \in Chunks}
AnyText == Seq(AllSymbols)
Kinds == {"text", "thinking", "tool_use"}
Block == [kind : Kinds, text : AnyText]
Stops == {"none", "end_turn", "max_tokens", "tool_use"}
Clients == [phase : {"before", "open", "closing", "stopped", "failed", "illegal"},
            block : Kinds \union {"none"}, blocks : Seq(Block), stop : Stops]

(* What a block adds to what is shown. *)
Mark(block) == IF block.kind \in {"text", "tool_use"} THEN ItemsOf(block) ELSE <<>>
MarkMap == [x \in Block |-> Mark(x)]
ItemSet == Kinds \X AllSymbols
Marks(blocks) == ItemsIn({"text", "tool_use"}, blocks)

(* What the one-shot functions find in a content. *)
Found(w) == Streams!Found(Streams!StripThink(w).text)

LEMMA SameStrip == \A w : Streams!StripThink(w) = StripThink(w)
<1>1. \A base, s : Streams!FoldLeft(Streams!CutBlock, base, s) = FoldLeft(CutBlock, base, s)
  BY Zenon DEF FoldLeft, MapThenFoldSet, Max,
               Streams!FoldLeft, Streams!MapThenFoldSet, Streams!Max,
               Streams!CutBlock, CutBlock, Streams!Find, Find, Streams!Occurs, Occurs,
               Streams!TagLen, TagLen,
               Streams!Take, Take, Streams!Drop, Drop,
               Streams!ThinkOpen, ThinkOpen, Streams!ThinkClose, ThinkClose
<1>2. ASSUME NEW w PROVE Streams!StripThink(w) = StripThink(w)
  <2> DEFINE start == [rest |-> w, text |-> <<>>, thinking |-> <<>>]
             f == FoldLeft(CutBlock, start, Passes(w))
             g == Streams!FoldLeft(Streams!CutBlock, start, Streams!Passes(w))
             open == Find(ThinkOpen, f.rest)
             end == IF open = 0 THEN Len(f.rest) ELSE open - 1
  <2>1. g = f
    BY <1>1, SameSafe, Zenon
  <2>2. StripThink(w) = [text |-> f.text \o Take(f.rest, end),
                         thinking |-> f.thinking \o Drop(f.rest, end + TagLen)]
    BY Zenon DEF StripThink
  <2>3. Streams!StripThink(w)
          = LET o == Streams!Find(Streams!ThinkOpen, g.rest)
                e == IF o = 0 THEN Len(g.rest) ELSE o - 1
            IN  [text |-> g.text \o Streams!Take(g.rest, e),
                 thinking |-> g.thinking \o Streams!Drop(g.rest, e + Streams!TagLen)]
    BY Zenon DEF Streams!StripThink
  <2> HIDE DEF f, g
  <2> QED BY <2>1, <2>2, <2>3, SameHelpers
<1> QED BY <1>2

LEMMA SameItems == \A s : Streams!Items(s) = Items(s)
BY SameHelpers, Zenon DEF Streams!Items, Items, Streams!ItemsOf, ItemsOf

LEMMA SameParse == \A w \in Streams!Text : Streams!ParseComplete(w) = ParseComplete(w)
<1> SUFFICES ASSUME NEW w \in Streams!Text PROVE Streams!ParseComplete(w) = ParseComplete(w)
  OBVIOUS
<1> DEFINE start == [rest |-> w, segments |-> <<>>]
           f == FoldLeft(CutCallsBlock, start, Passes(w))
           g == Streams!FoldLeft(Streams!CutCallsBlock, start, Streams!Passes(w))
           open == Find(CallsOpen, f.rest)
<1>1. g = f
  <2>1. Passes(w) \in Seq(Nat) /\ Streams!Passes(w) = Passes(w)
    BY Streams!PassesType, SameHelpers
  <2> QED BY <2>1, SameBlocks
<1>2. ParseComplete(w) = f.segments \o
          IF open = 0 THEN Segment("text", f.rest)
          ELSE Segment("text", Take(f.rest, open - 1)) \o Segment("text", Drop(f.rest, open - 1))
  BY Zenon DEF ParseComplete
<1>3. Streams!ParseComplete(w)
        = LET o == Streams!Find(Streams!CallsOpen, g.rest)
          IN  g.segments \o
              IF o = 0 THEN Streams!Segment("text", g.rest)
              ELSE Streams!Segment("text", Streams!Take(g.rest, o - 1))
                     \o Streams!Segment("text", Streams!Drop(g.rest, o - 1))
  BY Zenon DEF Streams!ParseComplete
<1> HIDE DEF f, g
<1> QED BY <1>1, <1>2, <1>3, SameHelpers

(* The one-shot functions find the same in a content with a plain text. *)
LEMMA FoundAtOnce ==
    ASSUME NEW w \in Streams!Text, Plain(StripThink(w).text)
    PROVE  Found(w) = Items(ParseComplete(StripThink(w).text))
<1> DEFINE t == StripThink(w).text
<1>1. t \in Streams!Text /\ Streams!StripThink(w).text = t
  <2>1. Streams!StripThink(w) \in [text : Streams!Text, thinking : Streams!Text]
    BY Streams!StripType
  <2> QED BY <2>1, SameStrip
<1>2. Streams!Plain(t)
  <2>1. Streams!Elements = Elements /\ Streams!Invoke = Invoke
    BY Zenon DEF Streams!Elements, Elements, Streams!Nested, Nested, Streams!Escaped, Escaped,
                 Streams!Quoted, Quoted, Streams!Invoke, Invoke
  <2> QED BY <2>1, SameHelpers, Zenon DEF Streams!Plain, Plain
<1> HIDE DEF t
<1>3. Streams!ReadAsScanner(t) = ParseComplete(t)
  BY <1>1, <1>2, Streams!PlainAlike, SameParse
<1> QED BY <1>1, <1>3, SameItems DEF Found, Streams!Found, t

LEMMA MarkType ==
    ASSUME NEW k \in Kinds, NEW t \in AnyText
    PROVE  /\ [kind |-> k, text |-> t] \in Block
           /\ Mark([kind |-> k, text |-> t]) \in Seq(ItemSet)
           /\ Mark([kind |-> k, text |-> t])
                = IF k = "thinking" THEN <<>> ELSE [j \in 1..Len(t) |-> <<k, t[j]>>]
<1>1. Len(t) \in Nat /\ DOMAIN t = 1..Len(t) /\ \A j \in 1..Len(t) : t[j] \in AllSymbols
  BY DEF AnyText
<1>2. ItemsOf([kind |-> k, text |-> t]) = [j \in 1..Len(t) |-> <<k, t[j]>>]
  BY <1>1 DEF ItemsOf
<1>3. \A j \in 1..Len(t) : <<k, t[j]>> \in ItemSet
  BY <1>1 DEF ItemSet
<1>4. [j \in 1..Len(t) |-> <<k, t[j]>>] \in Seq(ItemSet) /\ <<>> \in Seq(ItemSet)
  BY <1>1, <1>3
<1>5. Mark([kind |-> k, text |-> t])
        = IF k = "thinking" THEN <<>> ELSE [j \in 1..Len(t) |-> <<k, t[j]>>]
  BY <1>2 DEF Mark, Kinds
<1>6. [kind |-> k, text |-> t] \in Block
  BY DEF Block
<1> HIDE DEF ItemSet
<1> QED BY <1>4, <1>5, <1>6

LEMMA BlockIs ==
    ASSUME NEW x \in Block
    PROVE  x.kind \in Kinds /\ x.text \in AnyText /\ x = [kind |-> x.kind, text |-> x.text]
BY DEF Block

LEMMA MarkMapType == Streams!Maps(MarkMap, Block, ItemSet)
<1>1. \A x \in Block : Mark(x) \in Seq(ItemSet)
  BY BlockIs, MarkType
<1> QED BY <1>1 DEF MarkMap, Streams!Maps

LEMMA MarksAre ==
    ASSUME NEW blocks \in Seq(Block)
    PROVE  /\ Streams!Over(blocks, Block)
           /\ Marks(blocks) = Streams!FlattenSeq(Streams!Each(MarkMap, blocks))
           /\ Marks(blocks) \in Seq(ItemSet)
<1>1. Streams!Over(blocks, Block)
  BY DEF Streams!Over
<1>2. Streams!Each(MarkMap, blocks) = [i \in DOMAIN blocks |-> Mark(blocks[i])]
  <2>1. \A i \in DOMAIN blocks : blocks[i] \in Block
    OBVIOUS
  <2> QED BY <2>1 DEF Streams!Each, MarkMap
<1>3. Marks(blocks) = FlattenSeq([i \in DOMAIN blocks |-> Mark(blocks[i])])
  BY Zenon DEF Marks, ItemsIn, Mark
<1>4. Streams!FlattenSeq(Streams!Each(MarkMap, blocks)) \in Seq(ItemSet)
  BY <1>1, MarkMapType, Streams!FlatType
<1>5. FlattenSeq([i \in DOMAIN blocks |-> Mark(blocks[i])])
        = Streams!FlattenSeq([i \in DOMAIN blocks |-> Mark(blocks[i])])
  BY SameFlatten
<1> QED BY <1>1, <1>2, <1>3, <1>4, <1>5

LEMMA MarksEmpty == Marks(<<>>) = <<>>
<1>1. <<>> \in Seq(Block)
  OBVIOUS
<1> QED BY <1>1, MarksAre, Streams!FlatEmpty

LEMMA MarksOne == ASSUME NEW x \in Block PROVE Marks(<<x>>) = Mark(x)
<1>1. <<x>> \in Seq(Block)
  OBVIOUS
<1>2. Streams!FlattenSeq(Streams!Each(MarkMap, <<x>>)) = MarkMap[x]
  BY MarkMapType, Streams!FlatOne
<1>3. MarkMap[x] = Mark(x)
  BY DEF MarkMap
<1> QED BY <1>1, <1>2, <1>3, MarksAre

LEMMA MarksConcat ==
    ASSUME NEW s \in Seq(Block), NEW t \in Seq(Block)
    PROVE  s \o t \in Seq(Block) /\ Marks(s \o t) = Marks(s) \o Marks(t)
<1>1. s \o t \in Seq(Block)
  OBVIOUS
<1>2. Streams!Over(s, Block) /\ Streams!Over(t, Block)
  BY MarksAre
<1>3. Streams!FlattenSeq(Streams!Each(MarkMap, s \o t))
        = Streams!FlattenSeq(Streams!Each(MarkMap, s)) \o Streams!FlattenSeq(Streams!Each(MarkMap, t))
  BY <1>2, MarkMapType, Streams!FlatConcat
<1> QED BY <1>1, <1>3, MarksAre

LEMMA MarksAppend ==
    ASSUME NEW s \in Seq(Block), NEW x \in Block
    PROVE  s \o <<x>> \in Seq(Block) /\ Marks(s \o <<x>>) = Marks(s) \o Mark(x)
<1>1. <<x>> \in Seq(Block) /\ Marks(<<x>>) = Mark(x)
  BY MarksOne
<1> QED BY <1>1, MarksConcat

LEMMA MarkGrows ==
    ASSUME NEW k \in Kinds, NEW t \in AnyText, NEW u \in AnyText
    PROVE  /\ t \o u \in AnyText
           /\ Mark([kind |-> k, text |-> t \o u])
                = Mark([kind |-> k, text |-> t]) \o Mark([kind |-> k, text |-> u])
<1> DEFINE tu == t \o u
           f == [j \in 1..Len(t) |-> <<k, t[j]>>]
           g == [j \in 1..Len(u) |-> <<k, u[j]>>]
           h == [j \in 1..Len(tu) |-> <<k, tu[j]>>]
<1>1. /\ tu \in AnyText /\ Len(tu) = Len(t) + Len(u) /\ Len(t) \in Nat /\ Len(u) \in Nat
      /\ \A j \in 1..Len(t) : tu[j] = t[j]
      /\ \A j \in 1..Len(u) : tu[Len(t) + j] = u[j]
  BY DEF AnyText
<1> HIDE DEF tu
<1>2. f \in Seq(ItemSet) /\ g \in Seq(ItemSet) /\ h \in Seq(ItemSet)
  <2>1. \A x \in AnyText : [j \in 1..Len(x) |-> <<k, x[j]>>] \in Seq(ItemSet)
    <3>1. ASSUME NEW x \in AnyText PROVE [j \in 1..Len(x) |-> <<k, x[j]>>] \in Seq(ItemSet)
      <4>1. Len(x) \in Nat /\ \A j \in 1..Len(x) : <<k, x[j]>> \in ItemSet
        BY DEF AnyText, ItemSet
      <4> HIDE DEF ItemSet
      <4> QED BY <4>1
    <3> QED BY <3>1
  <2> QED BY <1>1, <2>1
<1>3. /\ Len(f) = Len(t) /\ Len(g) = Len(u) /\ Len(h) = Len(tu)
      /\ \A j \in 1..Len(t) : f[j] = <<k, t[j]>>
      /\ \A j \in 1..Len(u) : g[j] = <<k, u[j]>>
      /\ \A j \in 1..Len(tu) : h[j] = <<k, tu[j]>>
  BY <1>1
<1> HIDE DEF f, g, h
<1>4. h = f \o g
  <2>1. Len(h) = Len(f) + Len(g)
    BY <1>1, <1>3
  <2>2. ASSUME NEW j \in 1..Len(f) PROVE h[j] = f[j]
    <3>1. j \in 1..Len(t) /\ j \in 1..Len(tu)
      BY <1>1, <1>3
    <3>2. f[j] = <<k, t[j]>> /\ h[j] = <<k, tu[j]>> /\ tu[j] = t[j]
      BY <1>1, <1>3, <3>1
    <3> QED BY <3>2
  <2>3. \A j \in 1..Len(g) : h[Len(f) + j] = g[j]
    <3>1. \A j \in 1..Len(u) : Len(t) + j \in 1..Len(tu)
      BY <1>1
    <3> QED BY <1>1, <1>3, <3>1
  <2> QED BY <1>2, <2>1, <2>2, <2>3, Streams!SameSeq
<1>5. CASE k = "thinking"
  <2>1. \A x \in AnyText : Mark([kind |-> k, text |-> x]) = <<>>
    BY <1>5, MarkType
  <2>2. <<>> \o <<>> = <<>>
    OBVIOUS
  <2> QED BY <1>1, <2>1, <2>2 DEF tu
<1>6. CASE k # "thinking"
  BY <1>1, <1>4, <1>6, MarkType DEF tu, f, g, h
<1> QED BY <1>5, <1>6

(* What a block adds to the client's thinking. *)
Said(k, t) == IF k = "thinking" THEN t ELSE <<>>
Thought(block) == Said(block.kind, block.text)
ThoughtMap == [x \in Block |-> Thought(x)]
Thoughts(blocks) == TextOf("thinking", blocks)

LEMMA AnyConcat ==
    /\ <<>> \in AnyText
    /\ \A s, t \in AnyText : s \o t \in AnyText
    /\ \A s \in AnyText : s \o <<>> = s /\ <<>> \o s = s
    /\ \A s, t, u \in AnyText : (s \o t) \o u = s \o (t \o u)
<1> DEFINE S == AllSymbols
<1>1. /\ <<>> \in Seq(S)
      /\ \A s, t \in Seq(S) : s \o t \in Seq(S)
      /\ \A s \in Seq(S) : s \o <<>> = s /\ <<>> \o s = s
      /\ \A s, t, u \in Seq(S) : (s \o t) \o u = s \o (t \o u)
  <2> HIDE DEF S
  <2> QED BY Streams!EmptyIn, Streams!AssociativeIn
<1> QED BY <1>1 DEF AnyText

LEMMA ThoughtIs ==
    ASSUME NEW k \in Kinds, NEW t \in AnyText
    PROVE  /\ [kind |-> k, text |-> t] \in Block
           /\ Thought([kind |-> k, text |-> t]) = Said(k, t) /\ Said(k, t) \in AnyText
BY AnyConcat DEF Thought, Said, Block

LEMMA ThoughtsAre ==
    ASSUME NEW blocks \in Seq(Block)
    PROVE  /\ Streams!Maps(ThoughtMap, Block, AllSymbols)
           /\ Thoughts(blocks) = Streams!FlattenSeq(Streams!Each(ThoughtMap, blocks))
           /\ Thoughts(blocks) \in AnyText
<1>1. Streams!Maps(ThoughtMap, Block, AllSymbols)
  <2>1. ASSUME NEW x \in Block PROVE Thought(x) \in Seq(AllSymbols)
    <3>1. Said(x.kind, x.text) \in AnyText
      BY BlockIs, ThoughtIs
    <3> QED BY <3>1 DEF AnyText, Thought
  <2> QED BY <2>1 DEF ThoughtMap, Streams!Maps
<1>2. Streams!Each(ThoughtMap, blocks) = [i \in DOMAIN blocks |-> Thought(blocks[i])]
  <2>1. \A i \in DOMAIN blocks : blocks[i] \in Block
    OBVIOUS
  <2> QED BY <2>1 DEF Streams!Each, ThoughtMap
<1>3. Thoughts(blocks) = FlattenSeq([i \in DOMAIN blocks |-> Thought(blocks[i])])
  BY Zenon DEF Thoughts, TextOf, Thought, Said
<1>4. Streams!FlattenSeq(Streams!Each(ThoughtMap, blocks)) \in Seq(AllSymbols)
  BY <1>1, MarksAre, Streams!FlatType
<1>5. FlattenSeq([i \in DOMAIN blocks |-> Thought(blocks[i])])
        = Streams!FlattenSeq([i \in DOMAIN blocks |-> Thought(blocks[i])])
  BY SameFlatten
<1> QED BY <1>1, <1>2, <1>3, <1>4, <1>5 DEF AnyText

LEMMA ThoughtsEmpty == Thoughts(<<>>) = <<>>
<1>1. <<>> \in Seq(Block)
  OBVIOUS
<1> QED BY <1>1, ThoughtsAre, Streams!FlatEmpty

LEMMA ThoughtsAppend ==
    ASSUME NEW s \in Seq(Block), NEW x \in Block
    PROVE  Thoughts(s \o <<x>>) = Thoughts(s) \o Thought(x)
<1> DEFINE one == <<x>>
           more == s \o one
<1>1. one \in Seq(Block) /\ more \in Seq(Block)
  BY MarksOne, MarksAppend
<1>2. Streams!FlattenSeq(Streams!Each(ThoughtMap, one)) = Thought(x)
  <2>1. Streams!FlattenSeq(Streams!Each(ThoughtMap, <<x>>)) = ThoughtMap[x]
    BY <1>1, ThoughtsAre, Streams!FlatOne
  <2>2. ThoughtMap[x] = Thought(x)
    BY DEF ThoughtMap
  <2> QED BY <2>1, <2>2
<1> HIDE DEF one
<1>3. Streams!FlattenSeq(Streams!Each(ThoughtMap, s \o one))
        = Streams!FlattenSeq(Streams!Each(ThoughtMap, s))
            \o Streams!FlattenSeq(Streams!Each(ThoughtMap, one))
  BY <1>1, MarksAre, ThoughtsAre, Streams!FlatConcat
<1>4. Thoughts(more) = Streams!FlattenSeq(Streams!Each(ThoughtMap, more))
  <2> HIDE DEF more
  <2> QED BY <1>1, ThoughtsAre
<1>5. Thoughts(s) = Streams!FlattenSeq(Streams!Each(ThoughtMap, s))
  BY ThoughtsAre
<1> QED BY <1>2, <1>3, <1>4, <1>5 DEF more, one

LEMMA ThoughtGrows ==
    ASSUME NEW k \in Kinds, NEW t \in AnyText, NEW u \in AnyText
    PROVE  Said(k, t \o u) = Said(k, t) \o Said(k, u)
BY AnyConcat DEF Said

(* The client is between two events, with block b open, or none, and n blocks. *)
Open(v, b, n) ==
    /\ v \in Clients /\ v.phase = "open" /\ v.block = b /\ Len(v.blocks) = n
    /\ b # "none" => n > 0 /\ v.blocks[n].kind = b

LEMMA ClientIs ==
    ASSUME NEW v \in Clients
    PROVE  /\ v.blocks \in Seq(Block) /\ Len(v.blocks) \in Nat
           /\ v.stop \in Stops /\ v.block \in Kinds \union {"none"}
           /\ v.phase \in {"before", "open", "closing", "stopped", "failed", "illegal"}
           /\ v = [phase |-> v.phase, block |-> v.block, blocks |-> v.blocks, stop |-> v.stop]
BY DEF Clients

LEMMA ClientMade ==
    ASSUME NEW p \in {"before", "open", "closing", "stopped", "failed", "illegal"},
           NEW b \in Kinds \union {"none"}, NEW blocks \in Seq(Block), NEW s \in Stops
    PROVE  [phase |-> p, block |-> b, blocks |-> blocks, stop |-> s] \in Clients
BY DEF Clients

LEMMA ClientSets ==
    ASSUME NEW v \in Clients, NEW x
    PROVE  /\ [v EXCEPT !.phase = x]
                = [phase |-> x, block |-> v.block, blocks |-> v.blocks, stop |-> v.stop]
           /\ [v EXCEPT !.block = x]
                = [phase |-> v.phase, block |-> x, blocks |-> v.blocks, stop |-> v.stop]
           /\ [v EXCEPT !.blocks = x]
                = [phase |-> v.phase, block |-> v.block, blocks |-> x, stop |-> v.stop]
           /\ [v EXCEPT !.stop = x]
                = [phase |-> v.phase, block |-> v.block, blocks |-> v.blocks, stop |-> x]
BY DEF Clients

LEMMA OnMessageStart ==
    ASSUME NEW v \in Clients, v = NewClient
    PROVE  /\ Open(Accept(v, MessageStart), "none", 0)
           /\ Accept(v, MessageStart).blocks = <<>>
<1> DEFINE w == [phase |-> "open", block |-> "none", blocks |-> <<>>, stop |-> "none"]
<1>1. Accept(v, MessageStart) = w
  <2>1. Acceptable(v, MessageStart)
    BY DEF Acceptable, NewClient, MessageStart
  <2>2. After(v, MessageStart) = w
    BY DEF After, NewClient, MessageStart
  <2> QED BY <2>1, <2>2 DEF Accept
<1>2. <<>> \in Seq(Block) /\ Len(<<>>) = 0
  OBVIOUS
<1>3. w \in Clients
  BY <1>2 DEF Clients, Stops
<1> QED BY <1>1, <1>2, <1>3 DEF Open

LEMMA OnBlockStart ==
    ASSUME NEW v, NEW n \in Nat, Open(v, "none", n), NEW b \in Kinds
    PROVE  /\ Open(Accept(v, BlockStart(n, b)), b, n + 1)
           /\ Marks(Accept(v, BlockStart(n, b)).blocks) = Marks(v.blocks)
           /\ Thoughts(Accept(v, BlockStart(n, b)).blocks) = Thoughts(v.blocks)
<1> DEFINE new == [kind |-> b, text |-> <<>>]
           blocks == Append(v.blocks, new)
           w == [phase |-> "open", block |-> b, blocks |-> blocks, stop |-> v.stop]
           e == BlockStart(n, b)
<1>1. v \in Clients /\ v.phase = "open" /\ v.block = "none" /\ Len(v.blocks) = n
  BY DEF Open
<1>2. Accept(v, e) = w
  <2>1. e.type = "content_block_start" /\ e.index = n /\ e.block = b
    BY DEF BlockStart
  <2>2. Acceptable(v, e)
    <3>1. LastIndex(v) + 1 = n
      BY <1>1 DEF LastIndex
    <3> HIDE DEF e
    <3> QED BY <1>1, <2>1, <3>1 DEF Acceptable
  <2>3. After(v, e) = [v EXCEPT !.block = b, !.blocks = Append(@, new)]
    <3> HIDE DEF e
    <3> QED BY <2>1 DEF After
  <2>4. [v EXCEPT !.block = b, !.blocks = Append(@, new)] = w
    <3> DEFINE v2 == [v EXCEPT !.block = b]
    <3>1. v2 = [phase |-> "open", block |-> b, blocks |-> v.blocks, stop |-> v.stop]
      BY <1>1, ClientSets
    <3>2. v2 \in Clients
      BY <1>1, <3>1, ClientIs, ClientMade
    <3>3. v2.phase = "open" /\ v2.block = b /\ v2.stop = v.stop
      BY <3>1
    <3> HIDE DEF v2
    <3>4. [v2 EXCEPT !.blocks = blocks]
            = [phase |-> v2.phase, block |-> v2.block, blocks |-> blocks, stop |-> v2.stop]
      <4> HIDE DEF blocks
      <4> QED BY <3>2, ClientSets
    <3> HIDE DEF blocks
    <3>5. [v2 EXCEPT !.blocks = blocks] = w
      BY <3>3, <3>4
    <3> QED BY <3>5 DEF v2, blocks
  <2> HIDE DEF e, w
  <2> QED BY <2>2, <2>3, <2>4 DEF Accept
<1>3. <<>> \in AnyText /\ Len(<<>>) = 0
  BY DEF AnyText
<1>4. new \in Block /\ Mark(new) = <<>> /\ Thought(new) = <<>>
  <2>1. new \in Block
    BY <1>3 DEF Block
  <2>2. Mark(new) = IF b = "thinking" THEN <<>> ELSE [j \in 1..0 |-> <<b, <<>>[j]>>]
    BY <1>3, MarkType
  <2>3. [j \in 1..0 |-> <<b, <<>>[j]>>] = <<>>
    OBVIOUS
  <2>4. Thought(new) = <<>>
    BY <1>3, ThoughtIs DEF Said
  <2> QED BY <2>1, <2>2, <2>3, <2>4
<1>5. new.kind = b
  OBVIOUS
<1> HIDE DEF new
<1>6. v.blocks \in Seq(Block) /\ v.stop \in Stops
  BY <1>1, ClientIs
<1>7. /\ blocks = v.blocks \o <<new>> /\ blocks \in Seq(Block) /\ Len(blocks) = n + 1
      /\ blocks[n + 1] = new /\ <<new>> \in Seq(Block)
  BY <1>1, <1>4, <1>6
<1>8. Marks(blocks) = Marks(v.blocks)
  <2>1. Marks(v.blocks \o <<new>>) = Marks(v.blocks) \o Marks(<<new>>)
    BY <1>6, <1>7, MarksConcat
  <2>2. Marks(<<new>>) = <<>>
    BY <1>4, MarksOne
  <2>3. Marks(v.blocks) \in Seq(ItemSet)
    BY <1>6, MarksAre
  <2>4. \A x \in Seq(ItemSet) : x \o <<>> = x
    <3> HIDE DEF ItemSet
    <3> QED OBVIOUS
  <2> QED BY <1>7, <2>1, <2>2, <2>3, <2>4
<1>11. Thoughts(blocks) = Thoughts(v.blocks)
  <2>1. Thoughts(v.blocks \o <<new>>) = Thoughts(v.blocks) \o Thought(new)
    BY <1>4, <1>6, ThoughtsAppend
  <2>2. Thoughts(v.blocks) \in AnyText
    BY <1>6, ThoughtsAre
  <2> QED BY <1>4, <1>7, <2>1, <2>2, AnyConcat
<1> HIDE DEF blocks
<1>9. w \in Clients
  BY <1>6, <1>7, ClientMade
<1>10. Open(w, b, n + 1)
  BY <1>5, <1>7, <1>9 DEF Open
<1> QED BY <1>2, <1>8, <1>10, <1>11

LEMMA OnBlockDelta ==
    ASSUME NEW v, NEW n \in Nat, NEW b \in Kinds, Open(v, b, n), NEW t \in AnyText
    PROVE  /\ Open(Accept(v, BlockDelta(n - 1, b, t)), b, n)
           /\ Marks(Accept(v, BlockDelta(n - 1, b, t)).blocks)
                = Marks(v.blocks) \o Mark([kind |-> b, text |-> t])
           /\ Thoughts(Accept(v, BlockDelta(n - 1, b, t)).blocks)
                = Thoughts(v.blocks) \o Said(b, t)
<1> DEFINE old == v.blocks[n]
           new == [kind |-> b, text |-> old.text \o t]
           blocks == [v.blocks EXCEPT ![n] = new]
           w == [phase |-> "open", block |-> b, blocks |-> blocks, stop |-> v.stop]
           e == BlockDelta(n - 1, b, t)
           front == SubSeq(v.blocks, 1, n - 1)
           more == Mark([kind |-> b, text |-> t])
<1>1. /\ v \in Clients /\ v.phase = "open" /\ v.block = b /\ Len(v.blocks) = n
      /\ n > 0 /\ old.kind = b
  BY DEF Open, Kinds
<1>2. v.blocks \in Seq(Block) /\ v.stop \in Stops
  BY <1>1, ClientIs
<1>3. old \in Block /\ old = [kind |-> b, text |-> old.text] /\ old.text \in AnyText
  <2>1. old \in Block
    BY <1>1, <1>2
  <2> QED BY <1>1, <2>1, BlockIs
<1>4. Accept(v, e) = w
  <2>1. e.type = "content_block_delta" /\ e.index = n - 1 /\ e.block = b /\ e.text = t
    BY DEF BlockDelta
  <2>2. Acceptable(v, e)
    <3>1. LastIndex(v) = n - 1
      BY <1>1 DEF LastIndex
    <3> HIDE DEF e
    <3> QED BY <1>1, <2>1, <3>1 DEF Acceptable
  <2>3. After(v, e) = [v EXCEPT !.blocks[Len(v.blocks)].text = @ \o t]
    <3> HIDE DEF e
    <3> QED BY <2>1 DEF After
  <2>4. [v EXCEPT !.blocks[Len(v.blocks)].text = @ \o t]
          = [v EXCEPT !.blocks = [v.blocks EXCEPT ![n] = [old EXCEPT !.text = @ \o t]]]
    BY <1>1
  <2>5. [old EXCEPT !.text = @ \o t] = new
    <3>1. \A x : [old EXCEPT !.text = x] = [kind |-> b, text |-> x]
      <4> HIDE DEF old
      <4> QED BY <1>1, <1>3 DEF Block
    <3> QED BY <3>1
  <2>6. \A x : [v EXCEPT !.blocks = x]
                 = [phase |-> "open", block |-> b, blocks |-> x, stop |-> v.stop]
    BY <1>1 DEF Clients
  <2> HIDE DEF e, old, new
  <2> QED BY <2>2, <2>3, <2>4, <2>5, <2>6 DEF Accept
<1>5. new \in Block /\ Mark(new) = Mark(old) \o more
  <2>1. old.text \o t \in AnyText
    BY <1>3, MarkGrows
  <2>2. Mark(new) = Mark([kind |-> b, text |-> old.text]) \o more
    BY <1>3, MarkGrows
  <2>3. Mark([kind |-> b, text |-> old.text]) = Mark(old)
    BY <1>3
  <2>4. new \in Block
    BY <2>1 DEF Block
  <2> QED BY <2>2, <2>3, <2>4
<1>6. new.kind = b
  OBVIOUS
<1>12. /\ Thought(new) = Thought(old) \o Said(b, t)
       /\ Thought(old) \in AnyText /\ Said(b, t) \in AnyText
  <2> DEFINE u == old.text
             tu == u \o t
  <2>1. u \in AnyText /\ tu \in AnyText /\ Said(b, tu) = Said(b, u) \o Said(b, t)
    BY <1>3, AnyConcat, ThoughtGrows
  <2>2. Thought([kind |-> b, text |-> tu]) = Said(b, tu)
    <3> HIDE DEF tu
    <3> QED BY <2>1, ThoughtIs
  <2>3. Thought([kind |-> b, text |-> u]) = Said(b, u)
    <3> HIDE DEF u
    <3> QED BY <2>1, ThoughtIs
  <2>4. Said(b, u) \in AnyText /\ Said(b, t) \in AnyText
    <3> HIDE DEF u
    <3> QED BY <2>1, ThoughtIs
  <2> QED BY <1>3, <2>1, <2>2, <2>3, <2>4
<1>7. more \in Seq(ItemSet) /\ Mark(old) \in Seq(ItemSet)
  <2>1. more \in Seq(ItemSet)
    BY MarkType
  <2>2. Mark([kind |-> b, text |-> old.text]) \in Seq(ItemSet)
    BY <1>3, MarkType
  <2> QED BY <1>3, <2>1, <2>2
<1> HIDE DEF old, new, more
<1>8. /\ front \in Seq(Block) /\ v.blocks = front \o <<old>> /\ blocks = front \o <<new>>
      /\ blocks \in Seq(Block) /\ Len(blocks) = n /\ blocks[n] = new
  <2>1. \A s \in Seq(Block) : Len(s) > 0 =>
            /\ SubSeq(s, 1, Len(s) - 1) \in Seq(Block)
            /\ s = SubSeq(s, 1, Len(s) - 1) \o <<s[Len(s)]>>
            /\ \A x \in Block : /\ [s EXCEPT ![Len(s)] = x] = SubSeq(s, 1, Len(s) - 1) \o <<x>>
                                /\ [s EXCEPT ![Len(s)] = x] \in Seq(Block)
                                /\ Len([s EXCEPT ![Len(s)] = x]) = Len(s)
                                /\ [s EXCEPT ![Len(s)] = x][Len(s)] = x
    OBVIOUS
  <2> QED BY <1>1, <1>2, <1>5, <2>1 DEF old
<1>9. Marks(blocks) = Marks(v.blocks) \o more
  <2>1. Marks(front \o <<old>>) = Marks(front) \o Mark(old)
    <3> HIDE DEF front
    <3> QED BY <1>3, <1>8, MarksAppend
  <2>2. Marks(front \o <<new>>) = Marks(front) \o Mark(new)
    <3> HIDE DEF front
    <3> QED BY <1>5, <1>8, MarksAppend
  <2>3. Marks(front) \in Seq(ItemSet)
    BY <1>8, MarksAre
  <2>4. (Marks(front) \o Mark(old)) \o more = Marks(front) \o (Mark(old) \o more)
    BY <1>7, <2>3, Streams!AssociativeIn
  <2> QED BY <1>5, <1>8, <2>1, <2>2, <2>4
<1>13. Thoughts(blocks) = Thoughts(v.blocks) \o Said(b, t)
  <2> HIDE DEF front, blocks
  <2>1. /\ Thoughts(front \o <<old>>) = Thoughts(front) \o Thought(old)
        /\ Thoughts(front \o <<new>>) = Thoughts(front) \o Thought(new)
    BY <1>3, <1>5, <1>8, ThoughtsAppend
  <2>2. Thoughts(front) \in AnyText
    BY <1>8, ThoughtsAre
  <2>3. (Thoughts(front) \o Thought(old)) \o Said(b, t)
          = Thoughts(front) \o (Thought(old) \o Said(b, t))
    BY <1>12, <2>2, AnyConcat
  <2> QED BY <1>8, <1>12, <2>1, <2>3
<1> HIDE DEF blocks
<1>10. Open(w, b, n)
  <2>1. w \in Clients
    BY <1>2, <1>8, ClientMade
  <2> QED BY <1>1, <1>6, <1>8, <2>1 DEF Open
<1>11. w.blocks = blocks
  OBVIOUS
<1> HIDE DEF w
<1> QED BY <1>4, <1>9, <1>10, <1>11, <1>13 DEF more

LEMMA OnBlockStop ==
    ASSUME NEW v, NEW n \in Nat, NEW b \in Kinds, Open(v, b, n)
    PROVE  /\ Open(Accept(v, BlockStop(n - 1)), "none", n)
           /\ Accept(v, BlockStop(n - 1)).blocks = v.blocks
<1> DEFINE w == [phase |-> "open", block |-> "none", blocks |-> v.blocks, stop |-> v.stop]
           e == BlockStop(n - 1)
<1>1. v \in Clients /\ v.phase = "open" /\ v.block = b /\ Len(v.blocks) = n
  BY DEF Open
<1>2. Accept(v, e) = w
  <2>1. e.type = "content_block_stop" /\ e.index = n - 1
    BY DEF BlockStop
  <2>2. Acceptable(v, e)
    <3>1. LastIndex(v) = n - 1 /\ b # "none"
      BY <1>1 DEF LastIndex, Kinds
    <3> HIDE DEF e
    <3> QED BY <1>1, <2>1, <3>1 DEF Acceptable
  <2>3. After(v, e) = [v EXCEPT !.block = "none"]
    <3> HIDE DEF e
    <3> QED BY <2>1 DEF After
  <2>4. [v EXCEPT !.block = "none"] = w
    BY <1>1 DEF Clients
  <2> HIDE DEF e, w
  <2> QED BY <2>2, <2>3, <2>4 DEF Accept
<1>3. w \in Clients
  BY <1>1, ClientIs, ClientMade
<1> QED BY <1>1, <1>2, <1>3 DEF Open

(* The end of the message. *)
LEMMA OnMessageEnd ==
    ASSUME NEW v, NEW n \in Nat, Open(v, "none", n), NEW s \in Stops, NEW u
    PROVE  LET w == Accept(Accept(v, MessageDelta(s, u)), MessageStop)
           IN  w \in Clients /\ w.phase = "stopped" /\ w.blocks = v.blocks /\ w.stop = s
<1> DEFINE x == [phase |-> "closing", block |-> "none", blocks |-> v.blocks, stop |-> s]
           w == [phase |-> "stopped", block |-> "none", blocks |-> v.blocks, stop |-> s]
           d == MessageDelta(s, u)
<1>1. v \in Clients /\ v.phase = "open" /\ v.block = "none" /\ v.blocks \in Seq(Block)
  BY ClientIs DEF Open
<1>2. Accept(v, d) = x
  <2>1. d.type = "message_delta" /\ d.stop = s
    BY DEF MessageDelta
  <2>2. Acceptable(v, d) /\ After(v, d) = [v EXCEPT !.phase = "closing", !.stop = s]
    <3> HIDE DEF d
    <3> QED BY <1>1, <2>1 DEF Acceptable, After
  <2>3. [v EXCEPT !.phase = "closing", !.stop = s] = x
    <3> DEFINE v2 == [v EXCEPT !.phase = "closing"]
    <3>1. v2 = [phase |-> "closing", block |-> "none", blocks |-> v.blocks, stop |-> v.stop]
      BY <1>1, ClientSets
    <3>2. v2 \in Clients
      BY <1>1, <3>1, ClientIs, ClientMade
    <3>3. v2.phase = "closing" /\ v2.block = "none" /\ v2.blocks = v.blocks
      BY <3>1
    <3> HIDE DEF v2
    <3>4. [v2 EXCEPT !.stop = s]
            = [phase |-> v2.phase, block |-> v2.block, blocks |-> v2.blocks, stop |-> s]
      BY <3>2, ClientSets
    <3>5. [v2 EXCEPT !.stop = s] = x
      BY <3>3, <3>4
    <3> QED BY <3>5 DEF v2
  <2> HIDE DEF d, x
  <2> QED BY <2>2, <2>3 DEF Accept
<1>3. Accept(x, MessageStop) = w
  BY DEF Accept, Acceptable, After, MessageStop
<1>4. w \in Clients
  BY <1>1, ClientMade
<1> QED BY <1>2, <1>3, <1>4

LEMMA OnError ==
    ASSUME NEW v \in Clients, v.phase \in {"before", "open"}
    PROVE  /\ Accept(v, ErrorEvent) \in Clients /\ Accept(v, ErrorEvent).phase = "failed"
           /\ Accept(v, ErrorEvent).blocks = v.blocks
<1>1. Accept(v, ErrorEvent) = [v EXCEPT !.phase = "failed"]
  BY DEF Accept, Acceptable, After, ErrorEvent
<1>2. [v EXCEPT !.phase = "failed"]
        = [phase |-> "failed", block |-> v.block, blocks |-> v.blocks, stop |-> v.stop]
  BY DEF Clients
<1>3. [v EXCEPT !.phase = "failed"] \in Clients
  BY <1>2, ClientIs, ClientMade
<1> QED BY <1>1, <1>2, <1>3
-----------------------------------------------------------------------------
(* The converter: its fields *)

Events ==
    {MessageStart, MessageStop, ErrorEvent}
      \union {BlockStart(i, b) : i \in Int, b \in Kinds}
      \union {BlockDelta(i, b, t) : i \in Int, b \in Kinds, t \in AnyText}
      \union {BlockStop(i) : i \in Int}
      \union {MessageDelta(s, u) : s \in Stops, u \in BOOLEAN}
Finishes == {"none"} \union {chunk.finish : chunk \in Chunks}
Currents == {"none", "text", "thinking"}
Converters == [
    started : BOOLEAN, nextIndex : Nat, currentBlock : Currents, finish : Finishes,
    hasToolUse : BOOLEAN, hasVisible : BOOLEAN, usage : BOOLEAN, native : Seq({NativeCall}),
    splitter : Streams!Splitters, scanner : Streams!Scanners, out : Seq(Events)]

(* What emitting leaves alone, and what everything else does. *)
Same(c, d) ==
    /\ d.started = c.started /\ d.finish = c.finish /\ d.usage = c.usage
    /\ d.native = c.native /\ d.splitter = c.splitter /\ d.scanner = c.scanner
Quiet(c, d) ==
    /\ d.out = c.out /\ d.nextIndex = c.nextIndex /\ d.currentBlock = c.currentBlock
    /\ d.hasToolUse = c.hasToolUse /\ d.hasVisible = c.hasVisible

LEMMA ConverterIs ==
    ASSUME NEW c \in Converters
    PROVE  /\ c.started \in BOOLEAN /\ c.nextIndex \in Nat /\ c.currentBlock \in Currents
           /\ c.finish \in Finishes /\ c.hasToolUse \in BOOLEAN /\ c.hasVisible \in BOOLEAN
           /\ c.usage \in BOOLEAN /\ c.native \in Seq({NativeCall})
           /\ c.splitter \in Streams!Splitters /\ c.scanner \in Streams!Scanners
           /\ c.out \in Seq(Events)
BY DEF Converters

LEMMA PutOut ==
    ASSUME NEW c \in Converters, NEW x \in Seq(Events)
    PROVE  LET d == [c EXCEPT !.out = x]
           IN  /\ d \in Converters /\ Same(c, d) /\ d.out = x /\ d.nextIndex = c.nextIndex
               /\ d.currentBlock = c.currentBlock /\ d.hasToolUse = c.hasToolUse
               /\ d.hasVisible = c.hasVisible
BY DEF Converters, Same

LEMMA PutBlock ==
    ASSUME NEW c \in Converters, NEW x \in Currents
    PROVE  LET d == [c EXCEPT !.currentBlock = x]
           IN  /\ d \in Converters /\ Same(c, d) /\ d.out = c.out /\ d.nextIndex = c.nextIndex
               /\ d.currentBlock = x /\ d.hasToolUse = c.hasToolUse
               /\ d.hasVisible = c.hasVisible
BY DEF Converters, Same

LEMMA PutIndex ==
    ASSUME NEW c \in Converters
    PROVE  LET d == [c EXCEPT !.nextIndex = @ + 1]
           IN  /\ d \in Converters /\ Same(c, d) /\ d.out = c.out
               /\ d.nextIndex = c.nextIndex + 1
               /\ d.currentBlock = c.currentBlock /\ d.hasToolUse = c.hasToolUse
               /\ d.hasVisible = c.hasVisible
BY DEF Converters, Same

LEMMA PutFlags ==
    ASSUME NEW c \in Converters
    PROVE  /\ LET d == [c EXCEPT !.hasToolUse = TRUE]
              IN  /\ d \in Converters /\ Same(c, d) /\ d.out = c.out
                  /\ d.nextIndex = c.nextIndex /\ d.currentBlock = c.currentBlock
                  /\ d.hasToolUse /\ d.hasVisible = c.hasVisible
           /\ LET d == [c EXCEPT !.hasVisible = TRUE]
              IN  /\ d \in Converters /\ Same(c, d) /\ d.out = c.out
                  /\ d.nextIndex = c.nextIndex /\ d.currentBlock = c.currentBlock
                  /\ d.hasToolUse = c.hasToolUse /\ d.hasVisible
BY DEF Converters, Same

LEMMA PutScanner ==
    ASSUME NEW c \in Converters, NEW x \in Streams!Scanners
    PROVE  LET d == [c EXCEPT !.scanner = x]
           IN  /\ d \in Converters /\ Quiet(c, d) /\ d.scanner = x /\ d.splitter = c.splitter
               /\ d.started = c.started /\ d.finish = c.finish /\ d.usage = c.usage
               /\ d.native = c.native
BY DEF Converters, Quiet

LEMMA PutSplitter ==
    ASSUME NEW c \in Converters, NEW x \in Streams!Splitters
    PROVE  LET d == [c EXCEPT !.splitter = x]
           IN  /\ d \in Converters /\ Quiet(c, d) /\ d.splitter = x /\ d.scanner = c.scanner
               /\ d.started = c.started /\ d.finish = c.finish /\ d.usage = c.usage
               /\ d.native = c.native
BY DEF Converters, Quiet

LEMMA PutStarted ==
    ASSUME NEW c \in Converters
    PROVE  LET d == [c EXCEPT !.started = TRUE]
           IN  /\ d \in Converters /\ Quiet(c, d) /\ d.started /\ d.scanner = c.scanner
               /\ d.splitter = c.splitter /\ d.finish = c.finish /\ d.usage = c.usage
               /\ d.native = c.native
BY DEF Converters, Quiet

LEMMA PutFinish ==
    ASSUME NEW c \in Converters, NEW x \in Finishes
    PROVE  LET d == [c EXCEPT !.finish = x]
           IN  /\ d \in Converters /\ Quiet(c, d) /\ d.finish = x /\ d.scanner = c.scanner
               /\ d.splitter = c.splitter /\ d.started = c.started /\ d.usage = c.usage
               /\ d.native = c.native
BY DEF Converters, Quiet

LEMMA PutUsage ==
    ASSUME NEW c \in Converters, NEW x \in BOOLEAN
    PROVE  LET d == [c EXCEPT !.usage = @ \/ x]
           IN  /\ d \in Converters /\ Quiet(c, d) /\ d.finish = c.finish
               /\ d.scanner = c.scanner /\ d.splitter = c.splitter /\ d.started = c.started
               /\ d.native = c.native
BY DEF Converters, Quiet

LEMMA PutNative ==
    ASSUME NEW c \in Converters
    PROVE  LET d == [c EXCEPT !.native = Append(@, NativeCall)]
           IN  /\ d \in Converters /\ Quiet(c, d) /\ d.finish = c.finish
               /\ d.scanner = c.scanner /\ d.splitter = c.splitter /\ d.started = c.started
               /\ d.usage = c.usage
<1>1. Append(c.native, NativeCall) \in Seq({NativeCall})
  BY DEF Converters
<1> QED BY <1>1 DEF Converters, Quiet
-----------------------------------------------------------------------------
(* What the client sees once it has received what the converter yielded *)

View(base, c) == Receive(base, c.out)
Marked(base, c) == Marks(View(base, c).blocks)
Thinks(base, c) == Thoughts(View(base, c).blocks)

(* The client has the block open that the converter thinks it has. *)
Ready(base, c) == c \in Converters /\ Open(View(base, c), c.currentBlock, c.nextIndex)

Accepts == INSTANCE FoldTheorems WITH Op <- Accept

LEMMA AcceptsFold == \A base, s : Accepts!Fold(base, s) = FoldLeft(Accept, base, s)
BY Zenon DEF Accepts!Fold, FoldLeft, Accepts!MapThenFoldSet, MapThenFoldSet, Accepts!Highest, Max

LEMMA ReceiveParts ==
    ASSUME NEW base, NEW s \in Seq(Events), NEW t \in Seq(Events)
    PROVE  Receive(base, s \o t) = Receive(Receive(base, s), t)
<1>1. Accepts!Fold(base, s \o t) = Accepts!Fold(Accepts!Fold(base, s), t)
  BY Accepts!FoldConcat
<1> QED BY <1>1, AcceptsFold DEF Receive

LEMMA ReceiveOne ==
    /\ \A base : Receive(base, <<>>) = base
    /\ \A base, e : Receive(base, <<e>>) = Accept(base, e)
<1>1. \A base : Accepts!Fold(base, <<>>) = base
  BY Accepts!FoldEmpty
<1>2. \A base, e : Accepts!Fold(base, <<e>>) = Accept(base, e)
  BY Accepts!FoldOne
<1> QED BY <1>1, <1>2, AcceptsFold DEF Receive

LEMMA EventsAre ==
    /\ MessageStart \in Events /\ MessageStop \in Events /\ ErrorEvent \in Events
    /\ \A i \in Int, b \in Kinds : BlockStart(i, b) \in Events
    /\ \A i \in Int, b \in Kinds, t \in AnyText : BlockDelta(i, b, t) \in Events
    /\ \A i \in Int : BlockStop(i) \in Events
    /\ \A s \in Stops, u \in BOOLEAN : MessageDelta(s, u) \in Events
<1>1. MessageStart \in Events /\ MessageStop \in Events /\ ErrorEvent \in Events
  BY DEF Events
<1>2. \A i \in Int, b \in Kinds : BlockStart(i, b) \in Events
  BY DEF Events
<1>3. \A i \in Int, b \in Kinds, t \in AnyText : BlockDelta(i, b, t) \in Events
  BY DEF Events
<1>4. \A i \in Int : BlockStop(i) \in Events
  BY DEF Events
<1>5. \A s \in Stops, u \in BOOLEAN : MessageDelta(s, u) \in Events
  BY DEF Events
<1> QED BY <1>1, <1>2, <1>3, <1>4, <1>5

LEMMA ReceiveMore ==
    /\ \A base : \A a, b \in Events : Receive(base, <<a, b>>) = Accept(Accept(base, a), b)
    /\ \A base : \A a, b, c \in Events :
           Receive(base, <<a, b, c>>) = Accept(Accept(Accept(base, a), b), c)
<1>1. ASSUME NEW base, NEW a \in Events, NEW b \in Events
      PROVE  Receive(base, <<a, b>>) = Accept(Accept(base, a), b) /\ <<a, b>> \in Seq(Events)
  <2>1. \A E : \A x, y \in E : <<x>> \in Seq(E) /\ <<y>> \in Seq(E) /\ <<x, y>> \in Seq(E)
    OBVIOUS
  <2> DEFINE s == <<a>>
             t == <<b>>
  <2>2. s \in Seq(Events) /\ t \in Seq(Events) /\ <<a, b>> = s \o t /\ <<a, b>> \in Seq(Events)
    <3> DEFINE u == <<a, b>>
    <3>1. s \in Seq(Events) /\ t \in Seq(Events) /\ u \in Seq(Events)
      BY <2>1
    <3>2. /\ Len(s) = 1 /\ Len(t) = 1 /\ Len(u) = 2
          /\ s[1] = a /\ t[1] = b /\ u[1] = a /\ u[2] = b
      OBVIOUS
    <3> HIDE DEF s, t, u
    <3>3. /\ Len(u) = Len(s) + Len(t)
          /\ \A i \in 1..Len(s) : u[i] = s[i]
          /\ \A i \in 1..Len(t) : u[Len(s) + i] = t[i]
      BY <3>2
    <3>4. u = s \o t
      BY <3>1, <3>3, Streams!SameSeq
    <3> QED BY <3>1, <3>4 DEF u
  <2>3. \A v : Receive(v, s) = Accept(v, a) /\ Receive(v, t) = Accept(v, b)
    BY ReceiveOne
  <2> HIDE DEF s, t
  <2>4. Receive(base, s \o t) = Receive(Receive(base, s), t)
    BY <2>2, ReceiveParts
  <2> QED BY <2>2, <2>3, <2>4
<1>2. ASSUME NEW base, NEW a \in Events, NEW b \in Events, NEW c \in Events
      PROVE  Receive(base, <<a, b, c>>) = Accept(Accept(Accept(base, a), b), c)
  <2>1. \A E : \A x, y, z \in E : <<x, y>> \in Seq(E) /\ <<z>> \in Seq(E)
                                   /\ <<x, y, z>> = <<x, y>> \o <<z>>
    OBVIOUS
  <2> DEFINE s == <<a, b>>
             t == <<c>>
  <2>2. s \in Seq(Events) /\ t \in Seq(Events) /\ <<a, b, c>> = s \o t
    BY <2>1
  <2>3. \A v : Receive(v, t) = Accept(v, c)
    BY ReceiveOne
  <2>4. Receive(base, s) = Accept(Accept(base, a), b)
    BY <1>1
  <2> HIDE DEF s, t
  <2>5. Receive(base, s \o t) = Receive(Receive(base, s), t)
    BY <2>2, ReceiveParts
  <2> QED BY <2>2, <2>3, <2>4, <2>5
<1> QED BY <1>1, <1>2

LEMMA YieldMany ==
    ASSUME NEW base, NEW c \in Converters, NEW es \in Seq(Events)
    PROVE  LET d == Yield(c, es)
           IN  /\ d \in Converters /\ Same(c, d) /\ d.nextIndex = c.nextIndex
               /\ d.currentBlock = c.currentBlock /\ d.hasToolUse = c.hasToolUse
               /\ d.hasVisible = c.hasVisible
               /\ View(base, d) = Receive(View(base, c), es)
<1> DEFINE x == c.out \o es
           d == Yield(c, es)
<1>1. c.out \in Seq(Events)
  BY ConverterIs
<1>2. d = [c EXCEPT !.out = x]
  BY DEF Yield
<1>3. x \in Seq(Events) /\ Receive(base, x) = Receive(Receive(base, c.out), es)
  BY <1>1, ReceiveParts
<1> HIDE DEF x, d
<1>4. /\ d \in Converters /\ Same(c, d) /\ d.out = x /\ d.nextIndex = c.nextIndex
      /\ d.currentBlock = c.currentBlock /\ d.hasToolUse = c.hasToolUse
      /\ d.hasVisible = c.hasVisible
  BY <1>2, <1>3, PutOut
<1>5. View(base, d) = Receive(View(base, c), es)
  BY <1>3, <1>4 DEF View
<1> QED BY <1>4, <1>5 DEF d

LEMMA YieldOne ==
    ASSUME NEW base, NEW c \in Converters, NEW e \in Events
    PROVE  LET d == Yield(c, <<e>>)
           IN  /\ d \in Converters /\ Same(c, d) /\ d.nextIndex = c.nextIndex
               /\ d.currentBlock = c.currentBlock /\ d.hasToolUse = c.hasToolUse
               /\ d.hasVisible = c.hasVisible
               /\ View(base, d) = Accept(View(base, c), e)
<1> DEFINE one == <<e>>
<1>1. one \in Seq(Events)
  OBVIOUS
<1>2. \A v : Receive(v, one) = Accept(v, e)
  BY ReceiveOne
<1> HIDE DEF one
<1> QED BY <1>1, <1>2, YieldMany DEF one
-----------------------------------------------------------------------------
(* The generators: whoever is ready stays ready, and what is shown grows   *)

Flags(c, d) == d.hasToolUse = c.hasToolUse /\ d.hasVisible = c.hasVisible

LEMMA SameTrans ==
    ASSUME NEW c, NEW d, NEW e
    PROVE  /\ Same(c, d) /\ Same(d, e) => Same(c, e)
           /\ Flags(c, d) /\ Flags(d, e) => Flags(c, e)
           /\ Same(c, c) /\ Flags(c, c)
BY DEF Same, Flags

LEMMA Closing ==
    ASSUME NEW base, NEW c, Ready(base, c)
    PROVE  LET d == CloseCurrentBlock(c)
           IN  /\ Ready(base, d) /\ Same(c, d) /\ Flags(c, d)
               /\ d.currentBlock = "none" /\ d.nextIndex = c.nextIndex
               /\ Marked(base, d) = Marked(base, c) /\ Thinks(base, d) = Thinks(base, c)
<1> DEFINE b == c.currentBlock
           n == c.nextIndex
           v == View(base, c)
<1>1. c \in Converters /\ Open(v, b, n) /\ b \in Currents /\ n \in Nat /\ n - 1 \in Int
  BY ConverterIs DEF Ready
<1>2. CASE b = "none"
  <2>1. CloseCurrentBlock(c) = c
    BY <1>2 DEF CloseCurrentBlock
  <2> QED BY <1>2, <2>1, SameTrans
<1>3. CASE b # "none"
  <2> DEFINE e == BlockStop(n - 1)
             y == Yield(c, <<e>>)
             d == [y EXCEPT !.currentBlock = "none"]
             w == Accept(v, e)
  <2>1. CloseCurrentBlock(c) = d
    BY <1>3 DEF CloseCurrentBlock
  <2>2. e \in Events
    BY <1>1, EventsAre
  <2>3. Open(w, "none", n) /\ w.blocks = v.blocks
    <3>1. b \in Kinds
      BY <1>1, <1>3 DEF Currents, Kinds
    <3> HIDE DEF b, n, v
    <3> QED BY <1>1, <3>1, OnBlockStop
  <2> HIDE DEF e
  <2>4. /\ y \in Converters /\ Same(c, y) /\ Flags(c, y) /\ y.nextIndex = n
        /\ View(base, y) = w
    BY <1>1, <2>2, YieldOne DEF Flags
  <2> HIDE DEF y, w
  <2>5. "none" \in Currents
    BY DEF Currents
  <2>6. /\ d \in Converters /\ Same(y, d) /\ Flags(y, d) /\ d.nextIndex = n
        /\ d.currentBlock = "none" /\ d.out = y.out
    BY <2>4, <2>5, PutBlock DEF Flags
  <2> HIDE DEF d, b, n
  <2>7. View(base, d) = w
    BY <2>4, <2>6 DEF View
  <2>8. Ready(base, d) /\ Marked(base, d) = Marked(base, c) /\ Thinks(base, d) = Thinks(base, c)
    BY <2>3, <2>6, <2>7 DEF Ready, Marked, Thinks
  <2> QED BY <2>1, <2>4, <2>6, <2>8, SameTrans DEF n
<1> QED BY <1>2, <1>3

LEMMA Ensuring ==
    ASSUME NEW base, NEW c, Ready(base, c), NEW block \in {"text", "thinking"}
    PROVE  LET d == EnsureBlock(c, block)
           IN  /\ Ready(base, d) /\ Same(c, d) /\ Flags(c, d) /\ d.currentBlock = block
               /\ Marked(base, d) = Marked(base, c) /\ Thinks(base, d) = Thinks(base, c)
<1>1. CASE c.currentBlock = block
  <2>1. EnsureBlock(c, block) = c
    BY <1>1 DEF EnsureBlock
  <2> QED BY <1>1, <2>1, SameTrans
<1>2. CASE c.currentBlock # block
  <2> DEFINE n == c.nextIndex
             x == CloseCurrentBlock(c)
             e == BlockStart(n, block)
             y == Yield(x, <<e>>)
             z == [y EXCEPT !.nextIndex = @ + 1]
             d == [z EXCEPT !.currentBlock = block]
             v == View(base, x)
             w == Accept(v, e)
  <2>1. EnsureBlock(c, block) = d
    BY <1>2 DEF EnsureBlock
  <2>2. c \in Converters /\ n \in Nat /\ n \in Int /\ block \in Kinds /\ block \in Currents
    BY ConverterIs DEF Ready, Kinds, Currents
  <2>3. /\ Ready(base, x) /\ Same(c, x) /\ Flags(c, x) /\ x.currentBlock = "none"
        /\ x.nextIndex = n /\ Marked(base, x) = Marked(base, c)
        /\ Thinks(base, x) = Thinks(base, c)
    BY Closing
  <2>4. e \in Events
    BY <2>2, EventsAre
  <2> HIDE DEF x
  <2>5. x \in Converters /\ Open(v, "none", n)
    BY <2>3 DEF Ready
  <2> HIDE DEF v, n
  <2>6. /\ Open(w, block, n + 1) /\ Marks(w.blocks) = Marks(v.blocks)
        /\ Thoughts(w.blocks) = Thoughts(v.blocks)
    BY <2>2, <2>5, OnBlockStart
  <2> HIDE DEF e, w
  <2>7. /\ y \in Converters /\ Same(x, y) /\ Flags(x, y) /\ y.nextIndex = n
        /\ View(base, y) = w
    BY <2>3, <2>4, <2>5, YieldOne DEF Flags, v, w
  <2> HIDE DEF y
  <2>8. /\ z \in Converters /\ Same(y, z) /\ Flags(y, z) /\ z.nextIndex = n + 1
        /\ z.out = y.out
    BY <2>7, PutIndex DEF Flags
  <2> HIDE DEF z
  <2>9. /\ d \in Converters /\ Same(z, d) /\ Flags(z, d) /\ d.nextIndex = n + 1
        /\ d.currentBlock = block /\ d.out = z.out
    BY <2>2, <2>8, PutBlock DEF Flags
  <2> HIDE DEF d
  <2>10. View(base, d) = w
    BY <2>7, <2>8, <2>9 DEF View
  <2>11. Ready(base, d)
    BY <2>6, <2>9, <2>10 DEF Ready
  <2>12. Marked(base, d) = Marked(base, c) /\ Thinks(base, d) = Thinks(base, c)
    BY <2>3, <2>6, <2>10 DEF Marked, Thinks, v
  <2>13. Same(c, d) /\ Flags(c, d)
    BY <2>3, <2>7, <2>8, <2>9, SameTrans
  <2> QED BY <2>1, <2>9, <2>11, <2>12, <2>13
<1> QED BY <1>1, <1>2

LEMMA EmittingDelta ==
    ASSUME NEW base, NEW c, Ready(base, c), NEW block \in {"text", "thinking"},
           NEW t \in AnyText
    PROVE  LET d == EmitDelta(c, block, t)
           IN  /\ Ready(base, d) /\ Same(c, d) /\ Flags(c, d)
               /\ Marked(base, d) = Marked(base, c) \o Mark([kind |-> block, text |-> t])
               /\ Thinks(base, d) = Thinks(base, c) \o Said(block, t)
<1> DEFINE x == EnsureBlock(c, block)
           n == x.nextIndex
           e == BlockDelta(n - 1, block, t)
           d == Yield(x, <<e>>)
           v == View(base, x)
           w == Accept(v, e)
<1>1. EmitDelta(c, block, t) = d
  BY DEF EmitDelta
<1>2. /\ Ready(base, x) /\ Same(c, x) /\ Flags(c, x) /\ x.currentBlock = block
      /\ Marked(base, x) = Marked(base, c) /\ Thinks(base, x) = Thinks(base, c)
  BY Ensuring
<1> HIDE DEF x
<1>3. x \in Converters /\ Open(v, block, n) /\ n \in Nat /\ block \in Kinds /\ n - 1 \in Int
  BY <1>2, ConverterIs DEF Ready, Kinds
<1>4. e \in Events
  BY <1>3, EventsAre
<1> HIDE DEF v
<1>5. /\ Open(w, block, n)
      /\ Marks(w.blocks) = Marks(v.blocks) \o Mark([kind |-> block, text |-> t])
      /\ Thoughts(w.blocks) = Thoughts(v.blocks) \o Said(block, t)
  <2> HIDE DEF n
  <2> QED BY <1>3, OnBlockDelta
<1> HIDE DEF e, w
<1>6. /\ d \in Converters /\ Same(x, d) /\ Flags(x, d) /\ d.nextIndex = n
      /\ d.currentBlock = block /\ View(base, d) = w
  BY <1>2, <1>3, <1>4, YieldOne DEF Flags, v, w
<1> HIDE DEF d, n
<1>7. Ready(base, d)
  BY <1>5, <1>6 DEF Ready
<1>8. /\ Marked(base, d) = Marked(base, c) \o Mark([kind |-> block, text |-> t])
      /\ Thinks(base, d) = Thinks(base, c) \o Said(block, t)
  BY <1>2, <1>5, <1>6 DEF Marked, Thinks, v
<1> QED BY <1>1, <1>2, <1>6, <1>7, <1>8, SameTrans

LEMMA EmittingTool ==
    ASSUME NEW base, NEW c, Ready(base, c), NEW t \in AnyText
    PROVE  LET d == EmitToolUseBlock(c, t)
           IN  /\ Ready(base, d) /\ Same(c, d) /\ d.hasToolUse /\ d.hasVisible
               /\ Marked(base, d) = Marked(base, c) \o Mark([kind |-> "tool_use", text |-> t])
               /\ Thinks(base, d) = Thinks(base, c)
<1> DEFINE n == c.nextIndex
           x == CloseCurrentBlock(c)
           e1 == BlockStart(n, "tool_use")
           e2 == BlockDelta(n, "tool_use", t)
           e3 == BlockStop(n)
           es == <<e1, e2, e3>>
           y == Yield(x, es)
           z == [y EXCEPT !.nextIndex = @ + 1]
           u == [z EXCEPT !.hasToolUse = TRUE]
           d == [u EXCEPT !.hasVisible = TRUE]
           v == View(base, x)
           v1 == Accept(v, e1)
           v2 == Accept(v1, e2)
           w == Accept(v2, e3)
           more == Mark([kind |-> "tool_use", text |-> t])
<1>1. EmitToolUseBlock(c, t) = d
  BY DEF EmitToolUseBlock
<1>2. /\ Ready(base, x) /\ Same(c, x) /\ x.currentBlock = "none"
      /\ x.nextIndex = n /\ Marked(base, x) = Marked(base, c)
      /\ Thinks(base, x) = Thinks(base, c)
  BY Closing
<1>3. n \in Nat /\ "tool_use" \in Kinds /\ n \in Int /\ n + 1 \in Nat /\ (n + 1) - 1 = n
  BY ConverterIs DEF Ready, Kinds
<1> HIDE DEF x
<1>4. x \in Converters /\ Open(v, "none", n)
  BY <1>2 DEF Ready
<1>5. e1 \in Events /\ e2 \in Events /\ e3 \in Events
  BY <1>3, EventsAre
<1> HIDE DEF n, v
<1>6. /\ Open(v1, "tool_use", n + 1) /\ Marks(v1.blocks) = Marks(v.blocks)
      /\ Thoughts(v1.blocks) = Thoughts(v.blocks)
  BY <1>3, <1>4, OnBlockStart
<1> HIDE DEF v1
<1>7. /\ Open(v2, "tool_use", n + 1) /\ Marks(v2.blocks) = Marks(v1.blocks) \o more
      /\ Thoughts(v2.blocks) = Thoughts(v1.blocks)
  <2> DEFINE m == n + 1
             f == BlockDelta(m - 1, "tool_use", t)
  <2>1. m \in Nat /\ e2 = f
    BY <1>3
  <2> HIDE DEF m, e2
  <2>2. /\ Open(Accept(v1, f), "tool_use", m)
        /\ Marks(Accept(v1, f).blocks) = Marks(v1.blocks) \o more
        /\ Thoughts(Accept(v1, f).blocks) = Thoughts(v1.blocks) \o Said("tool_use", t)
    <3>1. Open(v1, "tool_use", m)
      BY <1>6 DEF m
    <3> QED BY <1>3, <2>1, <3>1, OnBlockDelta
  <2>3. Thoughts(v1.blocks) \o Said("tool_use", t) = Thoughts(v1.blocks)
    <3>1. v1.blocks \in Seq(Block)
      BY <1>6, ClientIs DEF Open
    <3>2. Thoughts(v1.blocks) \in AnyText /\ Said("tool_use", t) = <<>>
      BY <3>1, ThoughtsAre DEF Said
    <3> QED BY <3>2, AnyConcat
  <2> HIDE DEF f, more
  <2> QED BY <2>1, <2>2, <2>3 DEF m
<1> HIDE DEF v2, more
<1>8. Open(w, "none", n + 1) /\ w.blocks = v2.blocks
  <2> DEFINE m == n + 1
             f == BlockStop(m - 1)
  <2>1. m \in Nat /\ e3 = f
    BY <1>3
  <2> HIDE DEF m, e3
  <2>2. Open(Accept(v2, f), "none", m) /\ Accept(v2, f).blocks = v2.blocks
    <3>1. Open(v2, "tool_use", m)
      BY <1>7 DEF m
    <3> QED BY <1>3, <2>1, <3>1, OnBlockStop
  <2> HIDE DEF f
  <2> QED BY <2>1, <2>2 DEF m
<1>9. es \in Seq(Events) /\ Receive(v, es) = w
  <2> HIDE DEF e1, e2, e3
  <2>1. \A E : \A a, b, f \in E : <<a, b, f>> \in Seq(E)
    OBVIOUS
  <2>2. es \in Seq(Events)
    BY <1>5, <2>1
  <2> HIDE DEF w
  <2>3. Receive(v, es) = Accept(Accept(Accept(v, e1), e2), e3)
    BY <1>5, ReceiveMore
  <2> QED BY <2>2, <2>3 DEF v1, v2, w
<1> HIDE DEF es, w
<1>10. /\ y \in Converters /\ Same(x, y) /\ y.nextIndex = n
       /\ y.currentBlock = "none" /\ View(base, y) = w
  <2>1. View(base, y) = Receive(v, es)
    BY <1>4, <1>9, YieldMany DEF v
  <2> QED BY <1>2, <1>4, <1>9, <2>1, YieldMany
<1> HIDE DEF y
<1>11. /\ z \in Converters /\ Same(y, z) /\ z.nextIndex = n + 1 /\ z.out = y.out
       /\ z.currentBlock = "none"
  BY <1>10, PutIndex
<1> HIDE DEF z
<1>12. /\ u \in Converters /\ Same(z, u) /\ u.nextIndex = n + 1 /\ u.out = z.out
       /\ u.currentBlock = "none" /\ u.hasToolUse
  BY <1>11, PutFlags
<1> HIDE DEF u
<1>13. /\ d \in Converters /\ Same(u, d) /\ d.nextIndex = n + 1 /\ d.out = u.out
       /\ d.currentBlock = "none" /\ d.hasToolUse /\ d.hasVisible
  BY <1>12, PutFlags
<1> HIDE DEF d
<1>14. View(base, d) = w
  BY <1>10, <1>11, <1>12, <1>13 DEF View
<1>15. Ready(base, d)
  BY <1>8, <1>13, <1>14 DEF Ready
<1>16. Marked(base, d) = Marked(base, c) \o more /\ Thinks(base, d) = Thinks(base, c)
  BY <1>2, <1>6, <1>7, <1>8, <1>14 DEF Marked, Thinks, v
<1>17. Same(c, d)
  BY <1>2, <1>10, <1>11, <1>12, <1>13, SameTrans
<1> QED BY <1>1, <1>13, <1>15, <1>16, <1>17 DEF more
-----------------------------------------------------------------------------
(* What is shown is content; the warning is not *)

VisibleItems == {"text", "tool_use"} \X Streams!Symbols

(* hasVisible says whether anything is shown. *)
Visible(base, c) ==
    /\ Marked(base, c) \in Seq(VisibleItems)
    /\ c.hasVisible <=> Marked(base, c) # <<>>

LEMMA Wider == ASSUME NEW S, NEW R, R \subseteq S, NEW s \in Seq(R) PROVE s \in Seq(S)
<1>1. Len(s) \in Nat /\ s = [i \in 1..Len(s) |-> s[i]] /\ \A i \in 1..Len(s) : s[i] \in R
  OBVIOUS
<1>2. \A i \in 1..Len(s) : s[i] \in S
  BY <1>1
<1> QED BY <1>1, <1>2

LEMMA ContentChars ==
    ASSUME NEW chunk \in Chunks
    PROVE  /\ chunk.content \in Streams!Text
           /\ chunk.reasoning \in Seq(Reasons) /\ chunk.reasoning \in AnyText
           /\ chunk.finish \in Finishes /\ chunk.choices \in BOOLEAN /\ chunk.usage \in BOOLEAN
           /\ ~chunk.choices => chunk.content = <<>> /\ chunk.reasoning = <<>>
<1>1. chunk.content \in Streams!Text
  <2> DEFINE s == chunk.content
  <2>1. s \in Seq(Range(s) \ Range(Sentinel))
    BY ChunksAssumption
  <2>2. Range(s) \subseteq Streams!Symbols
    BY DEF ContentSymbols, Streams!Symbols
  <2> DEFINE R == Range(s)
             Q == Range(Sentinel)
             S == Streams!Symbols
  <2>3. s \in Seq(R \ Q) /\ R \ Q \subseteq S
    BY <2>1, <2>2
  <2> HIDE DEF s, R, Q, S
  <2>4. s \in Seq(S)
    BY <2>3, Wider
  <2> QED BY <2>4 DEF Streams!Text, S, s
<1>2. chunk.reasoning \in Seq(Reasons) /\ chunk.reasoning \in AnyText
  <2> DEFINE s == chunk.reasoning
             R == Range(s)
             S == AllSymbols
             T == Reasons
  <2>1. s \in Seq(R)
    BY ChunksAssumption
  <2>2. R \subseteq S /\ R \subseteq T
    BY DEF AllSymbols, Reasons
  <2> HIDE DEF s, R, S, T
  <2>3. s \in Seq(S) /\ s \in Seq(T)
    BY <2>1, <2>2, Wider
  <2> QED BY <2>3 DEF AnyText, S, T, s
<1> QED BY <1>1, <1>2, ChunksAssumption DEF Finishes

LEMMA NoSentinel == Sentinel[1] \notin Streams!Symbols
<1>1. Sentinel[1] \in Range(Sentinel)
  BY DEF Sentinel, Range
<1>2. ASSUME NEW chunk \in Chunks, Sentinel[1] \in Range(chunk.content) PROVE FALSE
  <2> DEFINE s == chunk.content
             S == Range(s) \ Range(Sentinel)
  <2>1. s \in Seq(S)
    BY ChunksAssumption
  <2>2. PICK i \in DOMAIN s : s[i] = Sentinel[1]
    BY <1>2 DEF Range
  <2>3. s[i] \in S
    <3> HIDE DEF s, S
    <3> QED BY <2>1, <2>2
  <2> QED BY <1>1, <2>2, <2>3
<1>3. Sentinel[1] \notin ContentSymbols
  BY <1>2 DEF ContentSymbols
<1>4. Sentinel[1] \notin Streams!Elements \union {"<th", "ink>", "</th", "/ink>",
                                                 "<fun", "calls>", "</fun", "/calls>"}
  BY DEF Sentinel, Streams!Elements, Streams!Invoke, Streams!Escaped, Streams!Quoted, Streams!Nested
<1> QED BY <1>3, <1>4 DEF Streams!Symbols

LEMMA TextIsAny == Streams!Text \subseteq AnyText
<1> DEFINE R == Streams!Symbols
           S == AllSymbols
<1>1. R \subseteq S
  BY DEF AllSymbols
<1>2. ASSUME NEW s \in Seq(R) PROVE s \in Seq(S)
  <2> HIDE DEF R, S
  <2> QED BY <1>1, Wider
<1> QED BY <1>2 DEF Streams!Text, AnyText

(* What a piece of content adds is content, and is something. *)
LEMMA MarkVisible ==
    ASSUME NEW k \in {"text", "tool_use"}, NEW t \in Streams!Text \ {<<>>}
    PROVE  /\ t \in AnyText
           /\ Mark([kind |-> k, text |-> t]) \in Seq(VisibleItems)
           /\ Mark([kind |-> k, text |-> t]) # <<>>
<1>1. t \in AnyText /\ k \in Kinds /\ k # "thinking"
  BY TextIsAny DEF Kinds
<1>2. /\ Len(t) \in Nat /\ Len(t) > 0 /\ \A j \in 1..Len(t) : t[j] \in Streams!Symbols
  BY DEF Streams!Text
<1> DEFINE f == [j \in 1..Len(t) |-> <<k, t[j]>>]
<1>3. Mark([kind |-> k, text |-> t]) = f
  BY <1>1, MarkType
<1>4. \A j \in 1..Len(t) : <<k, t[j]>> \in VisibleItems
  BY <1>2 DEF VisibleItems
<1>5. f \in Seq(VisibleItems) /\ Len(f) = Len(t)
  <2> HIDE DEF VisibleItems
  <2> QED BY <1>2, <1>4
<1>6. f # <<>>
  <2>1. Len(<<>>) = 0
    OBVIOUS
  <2> HIDE DEF f
  <2> QED BY <1>2, <1>5, <2>1
<1> HIDE DEF f
<1> QED BY <1>1, <1>3, <1>5, <1>6

LEMMA GrowsVisible ==
    ASSUME NEW s \in Seq(VisibleItems), NEW t \in Seq(VisibleItems)
    PROVE  s \o t \in Seq(VisibleItems) /\ (t # <<>> => s \o t # <<>>) /\ s \o <<>> = s
<1> DEFINE S == VisibleItems
<1>1. s \in Seq(S) /\ t \in Seq(S)
  OBVIOUS
<1> HIDE DEF S
<1>2. s \o t \in Seq(S) /\ (t # <<>> => s \o t # <<>>) /\ s \o <<>> = s
  BY <1>1
<1> QED BY <1>2 DEF S

LEMMA VisibleIsFound ==
    ASSUME NEW s \in Seq(VisibleItems) PROVE s \in Streams!AllItems
<1> DEFINE A == VisibleItems
           B == Streams!Kinds \X Streams!Symbols
<1>1. A \subseteq B
  BY DEF VisibleItems, Streams!Kinds
<1>2. s \in Seq(A)
  OBVIOUS
<1> HIDE DEF A, B
<1>3. s \in Seq(B)
  BY <1>1, <1>2, Wider
<1> QED BY <1>3 DEF Streams!AllItems, B
-----------------------------------------------------------------------------
(* What is shown and what is due: the scanner's part of it, if t follows *)

Due(base, c, t) ==
    Marked(base, c) \o Streams!Xml(c.scanner.inXml, c.scanner.buffer \o t)

(* d has shown what was due for u. *)
Pays(base, c, d, u) == \A t \in Streams!Text : Due(base, d, t) = Due(base, c, u \o t)

LEMMA NoTextAtAll == <<>> \in Streams!Text /\ \A t \in Streams!Text : <<>> \o t = t /\ t \o <<>> = t
BY Streams!EmptyText

LEMMA PaysNothing ==
    ASSUME NEW base, NEW c, NEW d, Marked(base, d) = Marked(base, c), d.scanner = c.scanner
    PROVE  Pays(base, c, d, <<>>)
BY NoTextAtAll DEF Pays, Due

LEMMA PaysOn ==
    ASSUME NEW base, NEW c, NEW d, NEW e, NEW u \in Streams!Text, NEW v \in Streams!Text,
           Pays(base, c, d, u), Pays(base, d, e, v)
    PROVE  u \o v \in Streams!Text /\ Pays(base, c, e, u \o v)
<1>1. u \o v \in Streams!Text
  BY Streams!ConcatType
<1>2. ASSUME NEW t \in Streams!Text PROVE Due(base, e, t) = Due(base, c, (u \o v) \o t)
  <2>1. v \o t \in Streams!Text
    BY Streams!ConcatType
  <2>2. (u \o v) \o t = u \o (v \o t)
    BY Streams!Associative
  <2> QED BY <2>1, <2>2 DEF Pays
<1> QED BY <1>1, <1>2 DEF Pays
-----------------------------------------------------------------------------
(* Segments *)

LEMMA FindingIs ==
    ASSUME NEW seg \in Streams!Finding
    PROVE  /\ seg.kind \in {"text", "tool_use"} /\ seg.text \in Streams!Text \ {<<>>}
           /\ seg = [kind |-> seg.kind, text |-> seg.text]
BY Streams!FindingParts

(* A finding more, and the items it shows. *)
LEMMA FindMore ==
    ASSUME NEW p \in Streams!Findings, NEW seg \in Streams!Finding
    PROVE  /\ p \o <<seg>> \in Streams!Findings
           /\ Streams!Items(p \o <<seg>>) = Streams!Items(p) \o Mark(seg)
           /\ Streams!Items(p) \in Streams!AllItems /\ Mark(seg) \in Streams!AllItems
<1> DEFINE k == seg.kind
           u == seg.text
           one == <<seg>>
<1>1. /\ k \in {"text", "tool_use"} /\ u \in Streams!Text /\ u # <<>> /\ u \in AnyText
      /\ seg = [kind |-> k, text |-> u] /\ k \in Kinds /\ k \in Streams!Kinds
  BY FindingIs, MarkVisible DEF Kinds, Streams!Kinds
<1>2. one = Streams!Segment(k, u)
  BY <1>1 DEF Streams!Segment
<1>3. one \in Streams!Findings
  <2>1. \A S : \A x \in S : <<x>> \in Seq(S)
    OBVIOUS
  <2> QED BY <2>1 DEF Streams!Findings
<1>4. Mark(seg) = [j \in 1..Len(u) |-> <<k, u[j]>>]
  <2> HIDE DEF k, u
  <2> QED BY <1>1, MarkType
<1> HIDE DEF one
<1>5. Streams!Items(one) = Mark(seg)
  <2> HIDE DEF k, u
  <2> QED BY <1>1, <1>2, <1>4, Streams!ItemsSegment
<1> HIDE DEF k, u
<1>6. /\ p \o one \in Streams!Findings
      /\ Streams!Items(p \o one) = Streams!Items(p) \o Streams!Items(one)
  BY <1>3, Streams!FindingItemsConcat
<1>7. Streams!Items(p) \in Streams!AllItems /\ Streams!Items(one) \in Streams!AllItems
  BY <1>3, Streams!FindingItems
<1> QED BY <1>5, <1>6, <1>7 DEF one

(* The thinking that a client is told of. *)
Told(t) == IF returnThinking THEN t ELSE <<>>

LEMMA ToldMore ==
    ASSUME NEW m \in AnyText, NEW a \in AnyText, NEW b \in AnyText
    PROVE  /\ Told(a) \in AnyText /\ m \o Told(<<>>) = m /\ m \o Said("text", a) = m
           /\ m \o Told(a \o b) = (m \o Told(a)) \o Told(b)
BY AnyConcat DEF Told, Said

(* Reasoning and what the splitter finds are told apart by their symbols. *)
PartMap(reasoned) == [x \in AllSymbols |-> IF x \in Reasons <=> reasoned THEN <<x>> ELSE <<>>]

LEMMA PartIs ==
    ASSUME NEW r \in BOOLEAN, NEW s \in AnyText
    PROVE  /\ Streams!Maps(PartMap(r), AllSymbols, AllSymbols)
           /\ Part(r, s) = Streams!FlattenSeq(Streams!Each(PartMap(r), s))
           /\ Part(r, s) \in AnyText
<1> DEFINE S == AllSymbols
           g == PartMap(r)
<1>1. \A i \in DOMAIN s : s[i] \in S
  <2>1. s \in Seq(S)
    BY DEF AnyText
  <2> HIDE DEF S
  <2> QED BY <2>1
<1>2. Streams!Maps(g, S, S)
  <2>1. ASSUME NEW x \in S PROVE <<x>> \in Seq(S) /\ <<>> \in Seq(S)
    <3> HIDE DEF S
    <3> QED OBVIOUS
  <2> QED BY <2>1 DEF Streams!Maps, PartMap
<1>3. Streams!Each(g, s)
        = [i \in DOMAIN s |-> IF s[i] \in Reasons <=> r THEN <<s[i]>> ELSE <<>>]
  BY <1>1, Zenon DEF Streams!Each, PartMap
<1>4. Part(r, s) = Streams!FlattenSeq(Streams!Each(g, s))
  BY <1>3, SameFlatten, Zenon DEF Part
<1> HIDE DEF g, S
<1>5. Streams!FlattenSeq(Streams!Each(g, s)) \in Seq(S)
  <2>1. Streams!Over(s, S)
    BY DEF Streams!Over, AnyText, S
  <2> QED BY <1>2, <2>1, Streams!FlatType
<1> QED BY <1>2, <1>4, <1>5 DEF AnyText, g, S

LEMMA PartConcat ==
    ASSUME NEW r \in BOOLEAN, NEW s \in AnyText, NEW t \in AnyText
    PROVE  Part(r, s \o t) = Part(r, s) \o Part(r, t)
<1> DEFINE S == AllSymbols
           g == PartMap(r)
           st == s \o t
<1>1. Streams!Maps(g, S, S) /\ Streams!Over(s, S) /\ Streams!Over(t, S)
  BY PartIs DEF AnyText, Streams!Over
<1>2. /\ Part(r, s) = Streams!FlattenSeq(Streams!Each(g, s))
      /\ Part(r, t) = Streams!FlattenSeq(Streams!Each(g, t))
  BY PartIs
<1>3. Part(r, st) = Streams!FlattenSeq(Streams!Each(g, st))
  <2>1. st \in AnyText
    BY AnyConcat
  <2> HIDE DEF st
  <2> QED BY <2>1, PartIs
<1> HIDE DEF g, S
<1>4. Streams!FlattenSeq(Streams!Each(g, s \o t))
        = Streams!FlattenSeq(Streams!Each(g, s)) \o Streams!FlattenSeq(Streams!Each(g, t))
  BY <1>1, Streams!FlatConcat
<1> QED BY <1>2, <1>3, <1>4

(* A text of symbols of one sort is all in one part. *)
LEMMA PartOf ==
    ASSUME NEW A, A \subseteq AllSymbols, NEW r \in BOOLEAN, NEW q \in BOOLEAN,
           \A x \in A : x \in Reasons <=> q, NEW s \in Seq(A)
    PROVE  s \in AnyText /\ Part(r, s) = IF q = r THEN s ELSE <<>>
<1> DEFINE S == AllSymbols
           f == [x \in A |-> x]
           g == [x \in A |-> IF q = r THEN <<x>> ELSE <<>>]
<1>1. s \in AnyText
  <2>1. A \subseteq S
    OBVIOUS
  <2> HIDE DEF S
  <2>2. s \in Seq(S)
    BY <2>1, Wider
  <2> QED BY <2>2 DEF AnyText, S
<1>2. DOMAIN s = 1..Len(s) /\ s = [i \in 1..Len(s) |-> s[i]] /\ \A i \in DOMAIN s : s[i] \in A
  OBVIOUS
<1>3. Streams!Each(PartMap(r), s) = Streams!Each(g, s)
  <2>1. ASSUME NEW i \in DOMAIN s PROVE PartMap(r)[s[i]] = g[s[i]]
    <3> DEFINE x == s[i]
    <3>1. x \in A /\ x \in S /\ (x \in Reasons <=> q)
      BY <1>2
    <3> HIDE DEF x
    <3>2. PartMap(r)[x] = IF x \in Reasons <=> r THEN <<x>> ELSE <<>>
      BY <3>1, Zenon DEF PartMap
    <3>3. (x \in Reasons <=> r) <=> q = r
      BY <3>1
    <3>4. g[x] = IF q = r THEN <<x>> ELSE <<>>
      BY <3>1, Zenon
    <3> QED BY <3>2, <3>3, <3>4 DEF x
  <2> HIDE DEF g
  <2> QED BY <2>1, Zenon DEF Streams!Each
<1>4. Part(r, s) = Streams!FlattenSeq(Streams!Each(g, s))
  BY <1>1, <1>3, PartIs
<1>5. CASE q = r
  <2>1. Streams!Picks(g, f, A, A)
    <3>1. \A x \in A : g[x] = <<f[x]>> /\ <<x>> \in Seq(A)
      BY <1>5
    <3>2. g = [x \in A |-> <<x>>]
      BY <1>5
    <3> QED BY <3>1, <3>2 DEF Streams!Picks
  <2> HIDE DEF g
  <2>2. Streams!FlattenSeq(Streams!Each(g, s)) = Streams!Mapped(f, s)
    BY <2>1, Streams!FlatSingle
  <2>3. Streams!Mapped(f, s) = s
    <3>1. [i \in 1..Len(s) |-> f[s[i]]] = [i \in 1..Len(s) |-> s[i]]
      BY <1>2
    <3> QED BY <1>2, <3>1, Zenon DEF Streams!Mapped
  <2> QED BY <1>1, <1>4, <1>5, <2>2, <2>3
<1>6. CASE q # r
  <2>1. Streams!Maps(g, A, S) /\ Streams!Drops(g, A)
    <3>1. <<>> \in Seq(S) /\ g = [x \in A |-> <<>>]
      <4> HIDE DEF S
      <4> QED BY <1>6
    <3> HIDE DEF g, S
    <3> QED BY <3>1 DEF Streams!Maps, Streams!Drops
  <2> HIDE DEF g, S
  <2>2. Streams!FlattenSeq(Streams!Each(g, s)) = <<>>
    BY <2>1, Streams!FlatNone
  <2> QED BY <1>1, <1>4, <1>6, <2>2
<1> QED BY <1>5, <1>6

LEMMA PartsAre ==
    /\ \A s \in Seq(Reasons) : s \in AnyText /\ Part(TRUE, s) = s /\ Part(FALSE, s) = <<>>
    /\ \A s \in Streams!Text : s \in AnyText /\ Part(TRUE, s) = <<>> /\ Part(FALSE, s) = s
<1> DEFINE R == Reasons
           C == Streams!Symbols
<1>1. R \subseteq AllSymbols /\ C \subseteq AllSymbols
  BY DEF AllSymbols, Reasons
<1>2. \A x \in C : x \notin Reasons
  <2>1. C = Markup \union UNION {Range(chunk.content) : chunk \in Chunks}
    BY DEF Streams!Symbols, ContentSymbols, Markup, Streams!Elements, Elements,
           Streams!Invoke, Invoke, Streams!Escaped, Escaped,
           Streams!Quoted, Quoted, Streams!Nested, Nested
  <2> QED BY <2>1, ReasonsAssumption
<1>3. \A x \in R : x \in Reasons <=> TRUE
  OBVIOUS
<1>4. \A x \in C : x \in Reasons <=> FALSE
  BY <1>2
<1> HIDE DEF R, C
<1>5. ASSUME NEW s \in Seq(R)
      PROVE  s \in AnyText /\ Part(TRUE, s) = s /\ Part(FALSE, s) = <<>>
  <2>1. s \in AnyText /\ Part(TRUE, s) = IF TRUE = TRUE THEN s ELSE <<>>
    BY <1>1, <1>3, PartOf
  <2>2. Part(FALSE, s) = IF TRUE = FALSE THEN s ELSE <<>>
    BY <1>1, <1>3, PartOf
  <2> QED BY <2>1, <2>2
<1>6. ASSUME NEW s \in Seq(C)
      PROVE  s \in AnyText /\ Part(TRUE, s) = <<>> /\ Part(FALSE, s) = s
  <2>1. s \in AnyText /\ Part(TRUE, s) = IF FALSE = TRUE THEN s ELSE <<>>
    BY <1>1, <1>4, PartOf
  <2>2. Part(FALSE, s) = IF FALSE = FALSE THEN s ELSE <<>>
    BY <1>1, <1>4, PartOf
  <2> QED BY <2>1, <2>2
<1> QED BY <1>5, <1>6 DEF R, C, Streams!Text

LEMMA PartsGrow ==
    ASSUME NEW m \in AnyText
    PROVE  /\ Part(TRUE, m) \in AnyText /\ Part(FALSE, m) \in AnyText
           /\ \A s \in Seq(Reasons) : /\ Part(TRUE, m \o Told(s)) = Part(TRUE, m) \o Told(s)
                                      /\ Part(FALSE, m \o Told(s)) = Part(FALSE, m)
           /\ \A s \in Streams!Text : /\ Part(TRUE, m \o Told(s)) = Part(TRUE, m)
                                      /\ Part(FALSE, m \o Told(s)) = Part(FALSE, m) \o Told(s)
<1>1. Part(TRUE, m) \in AnyText /\ Part(FALSE, m) \in AnyText
  BY PartIs
<1>2. ASSUME NEW s \in AnyText
      PROVE  /\ Part(TRUE, m \o s) = Part(TRUE, m) \o Part(TRUE, s)
             /\ Part(FALSE, m \o s) = Part(FALSE, m) \o Part(FALSE, s)
  BY PartConcat
<1>3. \A x \in AnyText : x \o <<>> = x
  BY AnyConcat
<1>4. CASE returnThinking
  <2>1. \A s : Told(s) = s
    BY <1>4 DEF Told
  <2>2. ASSUME NEW s \in Seq(Reasons)
        PROVE  /\ Part(TRUE, m \o s) = Part(TRUE, m) \o s
               /\ Part(FALSE, m \o s) = Part(FALSE, m)
    <3>1. s \in AnyText /\ Part(TRUE, s) = s /\ Part(FALSE, s) = <<>>
      BY PartsAre
    <3> QED BY <1>1, <1>2, <1>3, <3>1
  <2>3. ASSUME NEW s \in Streams!Text
        PROVE  /\ Part(TRUE, m \o s) = Part(TRUE, m)
               /\ Part(FALSE, m \o s) = Part(FALSE, m) \o s
    <3>1. s \in AnyText /\ Part(TRUE, s) = <<>> /\ Part(FALSE, s) = s
      BY PartsAre
    <3> QED BY <1>1, <1>2, <1>3, <3>1
  <2> QED BY <1>1, <2>1, <2>2, <2>3, Zenon
<1>5. CASE ~returnThinking
  <2>1. \A s : Told(s) = <<>>
    BY <1>5 DEF Told
  <2> QED BY <1>1, <1>3, <2>1
<1> QED BY <1>4, <1>5

LEMMA ThinksType == ASSUME NEW base, NEW c, Ready(base, c) PROVE Thinks(base, c) \in AnyText
<1>1. View(base, c).blocks \in Seq(Block)
  BY ClientIs DEF Ready, Open
<1> QED BY <1>1, ThoughtsAre DEF Thinks

LEMMA XmlSegment ==
    ASSUME NEW base, NEW c, Ready(base, c), Marked(base, c) \in Seq(VisibleItems),
           NEW seg \in Streams!Finding
    PROVE  LET d == EmitXmlSegment(c, seg)
           IN  /\ Ready(base, d) /\ Same(c, d) /\ Visible(base, d)
               /\ Marked(base, d) = Marked(base, c) \o Mark(seg)
               /\ Thinks(base, d) = Thinks(base, c)
<1> DEFINE d == EmitXmlSegment(c, seg)
           t == seg.text
           k == seg.kind
           more == Mark([kind |-> k, text |-> t])
<1>1. /\ k \in {"text", "tool_use"} /\ t \in Streams!Text \ {<<>>} /\ t \in AnyText
      /\ more \in Seq(VisibleItems) /\ more # <<>> /\ Mark(seg) = more
  BY FindingIs, MarkVisible
<1>2. /\ Ready(base, d) /\ Same(c, d) /\ d.hasVisible
      /\ Marked(base, d) = Marked(base, c) \o more /\ Thinks(base, d) = Thinks(base, c)
  <2>1. CASE k = "tool_use"
    <3>1. d = EmitToolUseBlock(c, t)
      BY <2>1 DEF EmitXmlSegment
    <3> HIDE DEF d, t, k
    <3> QED BY <1>1, <2>1, <3>1, EmittingTool
  <2>2. CASE k = "text"
    <3> DEFINE x == [c EXCEPT !.hasVisible = TRUE]
    <3>1. d = EmitDelta(x, "text", t)
      BY <2>2 DEF EmitXmlSegment
    <3>2. x \in Converters /\ Same(c, x) /\ x.out = c.out /\ x.nextIndex = c.nextIndex
          /\ x.currentBlock = c.currentBlock /\ x.hasVisible
      BY PutFlags DEF Ready
    <3> HIDE DEF x, d, t, k
    <3>3. View(base, x) = View(base, c)
      BY <3>2 DEF View
    <3>4. /\ Ready(base, x) /\ Marked(base, x) = Marked(base, c)
          /\ Thinks(base, x) = Thinks(base, c)
      BY <3>2, <3>3 DEF Ready, Marked, Thinks
    <3>5. /\ Ready(base, d) /\ Same(x, d) /\ Flags(x, d)
          /\ Marked(base, d) = Marked(base, x) \o Mark([kind |-> "text", text |-> t])
          /\ Thinks(base, d) = Thinks(base, x) \o Said("text", t)
      <4>1. Ready(base, x) /\ "text" \in {"text", "thinking"} /\ t \in AnyText
        BY <1>1, <3>4
      <4> QED BY <3>1, <4>1, EmittingDelta, Zenon
    <3>6. Same(c, d) /\ d.hasVisible
      BY <3>2, <3>5, SameTrans DEF Flags
    <3>7. Thinks(base, d) = Thinks(base, c)
      BY <1>1, <3>4, <3>5, ThinksType, ToldMore
    <3> QED BY <2>2, <3>4, <3>5, <3>6, <3>7
  <2> QED BY <1>1, <2>1, <2>2
<1> HIDE DEF d, more, t, k
<1>3. Marked(base, d) \in Seq(VisibleItems) /\ Marked(base, d) # <<>>
  BY <1>1, <1>2, GrowsVisible
<1> QED BY <1>1, <1>2, <1>3 DEF Visible, d

(* The converters that findings may lead to. *)
XmlReach(base, c) == {k \in Streams!Findings \X Converters :
    /\ Ready(base, k[2]) /\ Visible(base, k[2]) /\ Same(c, k[2])
    /\ Marked(base, k[2]) = Marked(base, c) \o Streams!Items(k[1])
    /\ Thinks(base, k[2]) = Thinks(base, c)}

XmlEmits == INSTANCE FoldTheorems WITH Op <- EmitXmlSegment

LEMMA XmlEmitsFold == \A base, s : XmlEmits!Fold(base, s) = FoldLeft(EmitXmlSegment, base, s)
BY Zenon DEF XmlEmits!Fold, FoldLeft, XmlEmits!MapThenFoldSet, MapThenFoldSet, XmlEmits!Highest, Max

LEMMA XmlSegments ==
    ASSUME NEW base, NEW c, Ready(base, c), Visible(base, c), NEW segs \in Streams!Findings
    PROVE  LET d == FoldLeft(EmitXmlSegment, c, segs)
           IN  /\ Ready(base, d) /\ Visible(base, d) /\ Same(c, d)
               /\ Marked(base, d) = Marked(base, c) \o Streams!Items(segs)
               /\ Thinks(base, d) = Thinks(base, c)
<1> DEFINE K == XmlReach(base, c)
           S == Streams!Finding
           m == Marked(base, c)
           start == << <<>>, c >>
<1>1. start \in K
  <2>1. m \o Streams!Items(<<>>) = m
    <3> HIDE DEF m
    <3>1. m \in Seq(VisibleItems)
      BY DEF Visible, m
    <3> QED BY <3>1, Streams!ItemsEmpty, GrowsVisible
  <2>2. start \in Streams!Findings \X Converters /\ start[1] = <<>> /\ start[2] = c
    BY Streams!NoFindings DEF Ready
  <2> HIDE DEF start
  <2> QED BY <2>1, <2>2, SameTrans DEF XmlReach
<1>2. XmlEmits!Tracks(K, S)
  <2>1. ASSUME NEW k \in K, NEW y \in S
        PROVE  <<k[1] \o <<y>>, EmitXmlSegment(k[2], y)>> \in K
    <3> DEFINE p == k[1]
               x == k[2]
               d == EmitXmlSegment(x, y)
               q == p \o <<y>>
               next == <<q, d>>
    <3>1. /\ p \in Streams!Findings /\ Ready(base, x) /\ Visible(base, x) /\ Same(c, x)
          /\ Marked(base, x) = m \o Streams!Items(p) /\ Thinks(base, x) = Thinks(base, c)
      BY DEF XmlReach
    <3> HIDE DEF p, x
    <3>2. Marked(base, x) \in Seq(VisibleItems)
      BY <3>1 DEF Visible
    <3>3. /\ Ready(base, d) /\ Same(x, d) /\ Visible(base, d)
          /\ Marked(base, d) = Marked(base, x) \o Mark(y) /\ Thinks(base, d) = Thinks(base, x)
      BY <3>1, <3>2, XmlSegment
    <3>4. /\ q \in Streams!Findings /\ Streams!Items(q) = Streams!Items(p) \o Mark(y)
          /\ Streams!Items(p) \in Streams!AllItems /\ Mark(y) \in Streams!AllItems
      BY <3>1, FindMore
    <3>5. m \in Streams!AllItems
      BY VisibleIsFound DEF Visible
    <3> HIDE DEF d, q, m
    <3>6. (m \o Streams!Items(p)) \o Mark(y) = m \o (Streams!Items(p) \o Mark(y))
      BY <3>4, <3>5, Streams!ItemsAssociative
    <3>7. Marked(base, d) = m \o Streams!Items(q)
      BY <3>1, <3>3, <3>4, <3>6
    <3>8. Same(c, d)
      BY <3>1, <3>3, SameTrans
    <3>9. next \in Streams!Findings \X Converters /\ next[1] = q /\ next[2] = d
      BY <3>3, <3>4 DEF Ready
    <3> HIDE DEF next
    <3>10. next \in K
      BY <3>1, <3>3, <3>7, <3>8, <3>9 DEF XmlReach, m
    <3> QED BY <3>10 DEF next, q, d, p, x
  <2> HIDE DEF K, S
  <2> QED BY <2>1 DEF XmlEmits!Tracks
<1>3. segs \in Seq(S)
  BY DEF Streams!Findings
<1> DEFINE d == FoldLeft(EmitXmlSegment, c, segs)
           end == <<segs, d>>
<1> HIDE DEF K, S
<1>4. end \in K
  <2>1. <<segs, XmlEmits!Fold(c, segs)>> \in K
    BY <1>1, <1>2, <1>3, XmlEmits!FoldTracks
  <2> QED BY <2>1, XmlEmitsFold
<1>5. end[1] = segs /\ end[2] = d
  OBVIOUS
<1> HIDE DEF end, d
<1> QED BY <1>4, <1>5 DEF K, XmlReach, d

(* What thinking and its segments leave alone. *)
Stays(c, d) ==
    /\ d.started = c.started /\ d.finish = c.finish /\ d.usage = c.usage
    /\ d.native = c.native /\ d.splitter = c.splitter
Settled(x) == Streams!HoldsLittle(x) /\ Streams!Cleared(x)
ThinkReach(base, c) == {k \in Streams!Segments \X Converters :
    /\ Ready(base, k[2]) /\ Visible(base, k[2]) /\ Stays(c, k[2]) /\ Settled(k[2].scanner)
    /\ Pays(base, c, k[2], Streams!TextOf("text", k[1]))
    /\ Thinks(base, k[2]) = Thinks(base, c) \o Told(Streams!TextOf("thinking", k[1]))}

LEMMA StaysTrans ==
    ASSUME NEW c, NEW d, NEW e
    PROVE  /\ Stays(c, d) /\ Stays(d, e) => Stays(c, e)
           /\ Same(c, d) => Stays(c, d)
           /\ Stays(c, c)
BY DEF Stays, Same

(* The part of a segment that goes to the scanner. *)
TextIn(seg) == IF seg.kind = "text" THEN seg.text ELSE <<>>

LEMMA TextMore ==
    ASSUME NEW p \in Streams!Segments, NEW seg \in Streams!SegmentSet
    PROVE  /\ p \o <<seg>> \in Streams!Segments
           /\ Streams!TextOf("text", p \o <<seg>>) = Streams!TextOf("text", p) \o TextIn(seg)
           /\ Streams!TextOf("text", p) \in Streams!Text /\ TextIn(seg) \in Streams!Text
           /\ Streams!TextOf("thinking", p \o <<seg>>)
                = Streams!TextOf("thinking", p) \o Thought(seg)
           /\ Streams!TextOf("thinking", p) \in AnyText /\ Thought(seg) \in AnyText
<1> DEFINE k == seg.kind
           u == seg.text
           one == <<seg>>
<1>1. k \in Streams!Kinds /\ u \in Streams!Text /\ u # <<>> /\ seg = [kind |-> k, text |-> u]
  BY DEF Streams!SegmentSet
<1>2. one = Streams!Segment(k, u)
  BY <1>1 DEF Streams!Segment
<1>3. /\ TextIn(seg) = IF k = "text" THEN u ELSE <<>>
      /\ Thought(seg) = IF k = "thinking" THEN u ELSE <<>>
  BY DEF TextIn, Thought, Said
<1> HIDE DEF k, u, one
<1>4. /\ one \in Streams!Segments /\ Streams!TextOf("text", one) = IF "text" = k THEN u ELSE <<>>
      /\ Streams!TextOf("thinking", one) = IF "thinking" = k THEN u ELSE <<>>
  BY <1>1, <1>2, Streams!TextOfSegment
<1>5. Streams!TextOf("text", one) = TextIn(seg) /\ Streams!TextOf("thinking", one) = Thought(seg)
  BY <1>3, <1>4
<1>6. /\ p \o one \in Streams!Segments
      /\ Streams!TextOf("text", p \o one) = Streams!TextOf("text", p) \o Streams!TextOf("text", one)
      /\ Streams!TextOf("thinking", p \o one)
           = Streams!TextOf("thinking", p) \o Streams!TextOf("thinking", one)
  BY <1>4, Streams!TextOfConcat
<1>7. /\ Streams!TextOf("text", p) \in Streams!Text /\ Streams!TextOf("text", one) \in Streams!Text
      /\ Streams!TextOf("thinking", p) \in AnyText /\ Streams!TextOf("thinking", one) \in AnyText
  BY <1>4, Streams!TextOfIs, TextIsAny
<1> QED BY <1>5, <1>6, <1>7 DEF one

LEMMA ThinkingSegment ==
    ASSUME NEW base, NEW c, Ready(base, c), Visible(base, c), NEW t \in AnyText
    PROVE  LET d == EmitDelta(c, "thinking", t)
           IN  /\ Ready(base, d) /\ Visible(base, d) /\ Same(c, d)
               /\ Marked(base, d) = Marked(base, c) /\ Thinks(base, d) = Thinks(base, c) \o t
<1> DEFINE d == EmitDelta(c, "thinking", t)
<1>4. Thinks(base, d) = Thinks(base, c) \o t
  <2>1. Thinks(base, d) = Thinks(base, c) \o Said("thinking", t)
    BY EmittingDelta
  <2> QED BY <2>1 DEF Said
<1>1. /\ Ready(base, d) /\ Same(c, d) /\ Flags(c, d)
      /\ Marked(base, d) = Marked(base, c) \o Mark([kind |-> "thinking", text |-> t])
  BY EmittingDelta
<1>2. Mark([kind |-> "thinking", text |-> t]) = <<>>
  BY MarkType DEF Kinds
<1> HIDE DEF d
<1>3. Marked(base, d) = Marked(base, c)
  BY <1>1, <1>2, GrowsVisible DEF Visible
<1> QED BY <1>1, <1>3, <1>4 DEF Visible, Flags, d

LEMMA ScanPart ==
    ASSUME NEW x \in Streams!Scanners, Settled(x), NEW t \in Streams!Text,
           NEW fed, fed = ScanFeed(x, t)
    PROVE  /\ fed.scanner \in Streams!Scanners /\ Settled(fed.scanner)
           /\ fed.segments \in Streams!Findings
           /\ \A u \in Streams!Text :
                Streams!Items(fed.segments) \o Streams!Xml(fed.scanner.inXml, fed.scanner.buffer \o u)
                  = Streams!Xml(x.inXml, x.buffer \o (t \o u))
<1>1. fed = Streams!ScanFeed(x, t)
  BY SameScanner
<1>2. /\ fed \in Streams!ScanFeds /\ Settled(fed.scanner)
      /\ \A u \in Streams!Text :
           Streams!XmlTotal(fed, u) = Streams!Xml(x.inXml, x.buffer \o (t \o u))
  BY <1>1, Streams!ScanFeedMoves DEF Settled
<1>3. fed.scanner \in Streams!Scanners /\ fed.segments \in Streams!Findings
  BY <1>2, Streams!ScanFedParts
<1> QED BY <1>2, <1>3 DEF Streams!XmlTotal

LEMMA ThinkSegment ==
    ASSUME NEW base, NEW c, Ready(base, c), Visible(base, c), Settled(c.scanner),
           NEW seg \in Streams!SegmentSet
    PROVE  LET d == EmitThinkSegment(c, seg)
           IN  /\ Ready(base, d) /\ Visible(base, d) /\ Stays(c, d)
               /\ Settled(d.scanner) /\ Pays(base, c, d, TextIn(seg))
               /\ Thinks(base, d) = Thinks(base, c) \o Told(Thought(seg))
<1> DEFINE t == seg.text
           fed == ScanFeed(c.scanner, t)
           x == [c EXCEPT !.scanner = fed.scanner]
           d == EmitThinkSegment(c, seg)
<1>1. t \in Streams!Text /\ t \in AnyText
  BY TextIsAny DEF Streams!SegmentSet
<1>2. c \in Converters /\ c.scanner \in Streams!Scanners
  BY ConverterIs DEF Ready
<1>6. Thinks(base, c) \o Told(<<>>) = Thinks(base, c)
  BY ThinksType, ToldMore, AnyConcat
<1>3. CASE seg.kind = "text"
  <2>1. /\ d = FoldLeft(EmitXmlSegment, x, fed.segments) /\ TextIn(seg) = t
        /\ Thought(seg) = <<>>
    BY <1>3 DEF EmitThinkSegment, TextIn, Thought, Said
  <2>2. /\ fed.scanner \in Streams!Scanners /\ Settled(fed.scanner)
        /\ fed.segments \in Streams!Findings
        /\ \A u \in Streams!Text :
             Streams!Items(fed.segments) \o Streams!Xml(fed.scanner.inXml, fed.scanner.buffer \o u)
               = Streams!Xml(c.scanner.inXml, c.scanner.buffer \o (t \o u))
    <3> HIDE DEF t
    <3> QED BY <1>1, <1>2, ScanPart
  <2> HIDE DEF fed
  <2>3. x \in Converters /\ Quiet(c, x) /\ x.scanner = fed.scanner /\ Stays(c, x)
    BY <1>2, <2>2, PutScanner DEF Stays
  <2> HIDE DEF x, d, t
  <2>4. View(base, x) = View(base, c)
    BY <2>3 DEF View, Quiet
  <2>5. /\ Ready(base, x) /\ Visible(base, x) /\ Marked(base, x) = Marked(base, c)
        /\ Thinks(base, x) = Thinks(base, c)
    BY <2>3, <2>4 DEF Ready, Visible, Marked, Thinks, Quiet
  <2>6. /\ Ready(base, d) /\ Visible(base, d) /\ Same(x, d)
        /\ Marked(base, d) = Marked(base, x) \o Streams!Items(fed.segments)
        /\ Thinks(base, d) = Thinks(base, x)
    BY <2>1, <2>2, <2>5, XmlSegments
  <2>7. d.scanner = fed.scanner /\ Stays(c, d)
    BY <2>3, <2>6, StaysTrans DEF Same
  <2>8. ASSUME NEW u \in Streams!Text PROVE Due(base, d, u) = Due(base, c, t \o u)
    <3> DEFINE m == Marked(base, c)
               found == Streams!Items(fed.segments)
               rest == Streams!Xml(fed.scanner.inXml, fed.scanner.buffer \o u)
    <3>1. m \in Streams!AllItems
      BY VisibleIsFound DEF Visible
    <3>2. found \in Streams!AllItems
      BY <2>2, Streams!FindingItems
    <3>3. rest \in Streams!AllItems
      <4>1. fed.scanner.buffer \in Streams!Text /\ fed.scanner.inXml \in BOOLEAN
        BY <2>2 DEF Streams!Scanners
      <4>2. fed.scanner.buffer \o u \in Streams!Text
        BY <4>1, Streams!ConcatType
      <4> QED BY <4>1, <4>2, Streams!WholeType
    <3>4. Due(base, d, u) = (m \o found) \o rest
      BY <2>5, <2>6, <2>7 DEF Due
    <3>5. Due(base, c, t \o u) = m \o (found \o rest)
      BY <2>2 DEF Due
    <3> HIDE DEF m, found, rest
    <3> QED BY <3>1, <3>2, <3>3, <3>4, <3>5, Streams!ItemsAssociative
  <2>9. Thinks(base, d) = Thinks(base, c) \o Told(Thought(seg))
    BY <1>6, <2>1, <2>5, <2>6
  <2>10. Pays(base, c, d, TextIn(seg))
    BY <2>1, <2>8 DEF Pays
  <2> QED BY <2>2, <2>6, <2>7, <2>9, <2>10 DEF d
<1>4. CASE seg.kind = "thinking" /\ returnThinking
  <2>1. d = EmitDelta(c, "thinking", t) /\ TextIn(seg) = <<>> /\ Thought(seg) = t
    BY <1>4 DEF EmitThinkSegment, TextIn, Thought, Said
  <2> HIDE DEF d, t
  <2>2. /\ Ready(base, d) /\ Visible(base, d) /\ Same(c, d) /\ Marked(base, d) = Marked(base, c)
        /\ Thinks(base, d) = Thinks(base, c) \o t
    BY <1>1, <2>1, ThinkingSegment
  <2>3. Stays(c, d) /\ d.scanner = c.scanner
    BY <2>2, StaysTrans DEF Same
  <2>4. Thinks(base, d) = Thinks(base, c) \o Told(Thought(seg))
    BY <1>4, <2>1, <2>2 DEF Told
  <2> QED BY <2>1, <2>2, <2>3, <2>4, PaysNothing DEF d
<1>5. CASE seg.kind # "text" /\ ~(seg.kind = "thinking" /\ returnThinking)
  <2>1. d = c /\ TextIn(seg) = <<>>
    BY <1>5, Zenon DEF EmitThinkSegment, TextIn
  <2>2. Told(Thought(seg)) = Told(<<>>)
    BY <1>5 DEF Told, Thought, Said
  <2>3. Thinks(base, d) = Thinks(base, c) \o Told(Thought(seg))
    BY <1>6, <2>1, <2>2
  <2> HIDE DEF d
  <2> QED BY <2>1, <2>3, StaysTrans, PaysNothing DEF d
<1> QED BY <1>3, <1>4, <1>5

ThinkEmits == INSTANCE FoldTheorems WITH Op <- EmitThinkSegment

LEMMA ThinkEmitsFold == \A base, s : ThinkEmits!Fold(base, s) = FoldLeft(EmitThinkSegment, base, s)
BY Zenon DEF ThinkEmits!Fold, FoldLeft, ThinkEmits!MapThenFoldSet, MapThenFoldSet, ThinkEmits!Highest, Max

LEMMA ThinkSegments ==
    ASSUME NEW base, NEW c, Ready(base, c), Visible(base, c), Settled(c.scanner),
           NEW segs \in Streams!Segments
    PROVE  LET d == FoldLeft(EmitThinkSegment, c, segs)
           IN  /\ Ready(base, d) /\ Visible(base, d) /\ Stays(c, d)
               /\ Settled(d.scanner) /\ Pays(base, c, d, Streams!TextOf("text", segs))
               /\ Thinks(base, d) = Thinks(base, c) \o Told(Streams!TextOf("thinking", segs))
<1> DEFINE K == ThinkReach(base, c)
           S == Streams!SegmentSet
           start == << <<>>, c >>
<1>1. start \in K
  <2>1. /\ start \in Streams!Segments \X Converters /\ start[1] = <<>> /\ start[2] = c
        /\ Streams!TextOf("text", <<>>) = <<>> /\ Streams!TextOf("thinking", <<>>) = <<>>
    BY Streams!TextOfEmpty DEF Ready
  <2>2. Pays(base, c, c, <<>>)
    BY PaysNothing
  <2>3. Thinks(base, c) \o Told(<<>>) = Thinks(base, c)
    BY ThinksType, AnyConcat, ToldMore
  <2> HIDE DEF start
  <2> QED BY <2>1, <2>2, <2>3, StaysTrans DEF ThinkReach
<1>2. ThinkEmits!Tracks(K, S)
  <2>1. ASSUME NEW k \in K, NEW y \in S
        PROVE  <<k[1] \o <<y>>, EmitThinkSegment(k[2], y)>> \in K
    <3> DEFINE p == k[1]
               x == k[2]
               d == EmitThinkSegment(x, y)
               q == p \o <<y>>
               next == <<q, d>>
    <3>1. /\ p \in Streams!Segments /\ Ready(base, x) /\ Visible(base, x) /\ Stays(c, x)
          /\ Settled(x.scanner) /\ Pays(base, c, x, Streams!TextOf("text", p))
          /\ Thinks(base, x) = Thinks(base, c) \o Told(Streams!TextOf("thinking", p))
      BY DEF ThinkReach
    <3> HIDE DEF p, x
    <3>2. /\ Ready(base, d) /\ Visible(base, d) /\ Stays(x, d) /\ Settled(d.scanner)
          /\ Pays(base, x, d, TextIn(y))
          /\ Thinks(base, d) = Thinks(base, x) \o Told(Thought(y))
      BY <3>1, ThinkSegment
    <3>3. /\ q \in Streams!Segments
          /\ Streams!TextOf("text", q) = Streams!TextOf("text", p) \o TextIn(y)
          /\ Streams!TextOf("text", p) \in Streams!Text /\ TextIn(y) \in Streams!Text
          /\ Streams!TextOf("thinking", q) = Streams!TextOf("thinking", p) \o Thought(y)
          /\ Streams!TextOf("thinking", p) \in AnyText /\ Thought(y) \in AnyText
      BY <3>1, TextMore
    <3> HIDE DEF d, q
    <3>8. Thinks(base, d) = Thinks(base, c) \o Told(Streams!TextOf("thinking", q))
      <4> DEFINE u == Streams!TextOf("thinking", p)
                 v == Thought(y)
                 m == Thinks(base, c)
      <4>1. u \in AnyText /\ v \in AnyText /\ m \in AnyText
        BY <3>3, ThinksType
      <4> HIDE DEF u, v, m
      <4>2. m \o Told(u \o v) = (m \o Told(u)) \o Told(v)
        BY <4>1, AnyConcat DEF Told
      <4> QED BY <3>1, <3>2, <3>3, <4>2 DEF u, v, m
    <3>4. Pays(base, c, d, Streams!TextOf("text", q))
      <4> DEFINE u == Streams!TextOf("text", p)
                 v == TextIn(y)
      <4>1. u \in Streams!Text /\ v \in Streams!Text /\ Pays(base, c, x, u) /\ Pays(base, x, d, v)
        BY <3>1, <3>2, <3>3
      <4> HIDE DEF u, v
      <4>2. Pays(base, c, d, u \o v)
        BY <4>1, PaysOn
      <4> QED BY <3>3, <4>2 DEF u, v
    <3>5. next \in Streams!Segments \X Converters /\ next[1] = q /\ next[2] = d
      BY <3>2, <3>3 DEF Ready
    <3>6. Stays(c, d)
      BY <3>1, <3>2, StaysTrans
    <3> HIDE DEF next
    <3>7. next \in K
      BY <3>2, <3>4, <3>5, <3>6, <3>8 DEF ThinkReach
    <3> QED BY <3>7 DEF next, q, d, p, x
  <2> HIDE DEF K, S
  <2> QED BY <2>1 DEF ThinkEmits!Tracks
<1>3. segs \in Seq(S)
  BY DEF Streams!Segments, Streams!SegmentSet, Streams!Kinds
<1> DEFINE d == FoldLeft(EmitThinkSegment, c, segs)
           end == <<segs, d>>
<1> HIDE DEF K, S
<1>4. end \in K
  <2>1. <<segs, ThinkEmits!Fold(c, segs)>> \in K
    BY <1>1, <1>2, <1>3, ThinkEmits!FoldTracks
  <2> QED BY <2>1, ThinkEmitsFold
<1>5. end[1] = segs /\ end[2] = d
  OBVIOUS
<1> HIDE DEF end, d
<1> QED BY <1>4, <1>5 DEF K, ThinkReach, d
-----------------------------------------------------------------------------
(* feed() *)

(* A converter that streams, and one that has not begun. *)
Small(c) == Len(c.splitter.buffer) < 2 /\ Settled(c.scanner)
Streaming(base, c) ==
    Ready(base, c) /\ Visible(base, c) /\ Small(c) /\ c.started /\ c.native = <<>>
Fresh(base, c) ==
    /\ c \in Converters /\ base = NewClient /\ c.out = <<>> /\ c.nextIndex = 0
    /\ c.currentBlock = "none" /\ c.finish = "none" /\ ~c.hasVisible /\ ~c.started
    /\ c.native = <<>> /\ c.splitter = NewSplitter /\ c.scanner = NewScanner

(* What the client will have been shown when u has come as well: that is   *)
(* what is due, if the splitter makes of u what strip_think_complete does. *)
Promise(base, c, u) ==
    Due(base, c, Streams!Meaning(c.splitter.inThink, c.splitter.buffer \o u).text)

(* The same of what the client will have been told of the thinking in the  *)
(* content, and what it has been told of the reasoning.                    *)
Hidden(c, u) == Streams!Meaning(c.splitter.inThink, c.splitter.buffer \o u).thinking
Insight(base, c, u) == Part(FALSE, Thinks(base, c)) \o Told(Hidden(c, u))
Reasoned(base, c) == Part(TRUE, Thinks(base, c))

Discreet(base, c, d) == ~returnThinking => Thinks(base, d) = Thinks(base, c)
AsBefore(base, c, d) ==
    /\ Discreet(base, c, d)
    /\ \A u \in Streams!Text : /\ Promise(base, d, u) = Promise(base, c, u)
                              /\ Insight(base, d, u) = Insight(base, c, u)
KeepsPromise(base, c, d, t) ==
    /\ Discreet(base, c, d)
    /\ \A u \in Streams!Text : /\ Promise(base, d, u) = Promise(base, c, t \o u)
                              /\ Insight(base, d, u) = Insight(base, c, t \o u)

LEMMA NothingChanges ==
    ASSUME NEW base, NEW c, NEW d, Marked(base, d) = Marked(base, c),
           Thinks(base, d) = Thinks(base, c), d.scanner = c.scanner, d.splitter = c.splitter
    PROVE  AsBefore(base, c, d) /\ Reasoned(base, d) = Reasoned(base, c)
BY DEF AsBefore, Promise, Due, Discreet, Insight, Hidden, Reasoned

LEMMA PromisesLast ==
    ASSUME NEW base, NEW c, NEW d, NEW e, NEW f, NEW t \in Streams!Text
    PROVE  /\ AsBefore(base, c, d) /\ AsBefore(base, d, e) => AsBefore(base, c, e)
           /\ AsBefore(base, c, d) => KeepsPromise(base, c, d, <<>>)
           /\ AsBefore(base, c, d) /\ KeepsPromise(base, d, e, t) /\ AsBefore(base, e, f) =>
                KeepsPromise(base, c, f, t)
<1>1. \A u \in Streams!Text : t \o u \in Streams!Text
  BY Streams!ConcatType
<1> QED BY <1>1, NoTextAtAll DEF AsBefore, KeepsPromise, Discreet

LEMMA NewScanners ==
    /\ NewSplitter \in Streams!Splitters /\ NewScanner \in Streams!Scanners
    /\ Len(NewSplitter.buffer) < 2 /\ Settled(NewScanner)
    /\ NewSplitter.buffer = <<>> /\ NewScanner.buffer = <<>>
<1>1. <<>> \in Streams!Text /\ Len(<<>>) = 0
  BY DEF Streams!Text
<1>2. Streams!Find(Streams!CallsOpen, <<>>) = 0
  <2> DEFINE n == Streams!Find(Streams!CallsOpen, <<>>)
  <2>1. n \in Nat /\ (n > 0 => n \in 1..(Len(<<>>) - 1))
    BY Streams!EmptyText, Streams!Tags, Streams!FindWhere, Streams!FindBounds
  <2> HIDE DEF n
  <2> QED BY <1>1, <2>1 DEF n
<1>3. Streams!Cleared(NewScanner)
  BY <1>2 DEF Streams!Cleared, Streams!CallTag, NewScanner
<1> QED BY <1>1, <1>3 DEF NewSplitter, NewScanner, Streams!Splitters, Streams!Scanners,
                          Streams!HoldsLittle, Settled

LEMMA NewClientIs == NewClient \in Clients /\ Marks(NewClient.blocks) = <<>>
<1>1. <<>> \in Seq(Block)
  OBVIOUS
<1> QED BY <1>1, MarksEmpty DEF NewClient, Clients, Stops

LEMMA Shows ==
    ASSUME NEW base, NEW c, NEW d, Ready(base, c), Visible(base, c),
           d \in Converters, Quiet(c, d)
    PROVE  /\ Ready(base, d) /\ Visible(base, d) /\ Marked(base, d) = Marked(base, c)
           /\ Thinks(base, d) = Thinks(base, c)
<1>1. View(base, d) = View(base, c)
  BY DEF View, Quiet
<1> QED BY <1>1 DEF Ready, Visible, Marked, Thinks, Quiet

(* Nothing is shown yet, and whatever comes will be. *)
LEMMA FreshPromise ==
    ASSUME NEW base, NEW c, Fresh(base, c)
    PROVE  /\ Marked(base, c) = <<>> /\ Thinks(base, c) = <<>>
           /\ \A u \in Streams!Text : /\ Promise(base, c, u) = Found(u)
                                     /\ Insight(base, c, u) = Told(Streams!StripThink(u).thinking)
<1>1. Marked(base, c) = <<>> /\ Thinks(base, c) = <<>>
  <2>1. View(base, c) = NewClient
    BY ReceiveOne DEF Fresh, View
  <2>2. NewClient.blocks = <<>>
    BY DEF NewClient
  <2> QED BY <2>1, <2>2, MarksEmpty, ThoughtsEmpty DEF Marked, Thinks
<1>2. ASSUME NEW u \in Streams!Text PROVE Promise(base, c, u) = Found(u)
  <2> DEFINE m == Streams!Meaning(FALSE, u)
             t == m.text
             found == Streams!Found(t)
  <2>1. /\ c.splitter.inThink = FALSE /\ c.splitter.buffer = <<>>
        /\ c.scanner.inXml = FALSE /\ c.scanner.buffer = <<>> /\ <<>> \o u = u
    BY NoTextAtAll DEF Fresh, NewSplitter, NewScanner
  <2>2. m = Streams!StripThink(u) /\ m \in Streams!Meanings
    BY Streams!MeaningType DEF Streams!Meaning
  <2>3. t \in Streams!Text
    BY <2>2, Streams!MeaningParts
  <2>4. Promise(base, c, u) = Due(base, c, t)
    BY <2>1 DEF Promise
  <2>5. t = Streams!StripThink(u).text
    BY <2>2
  <2> HIDE DEF m, t
  <2>6. Promise(base, c, u) = <<>> \o found
    BY <1>1, <2>1, <2>3, <2>4, NoTextAtAll DEF Due, Streams!Xml, Streams!Whole
  <2>7. <<>> \o found = found
    <3>1. found \in Streams!AllItems
      BY <2>3, Streams!FoundType
    <3> HIDE DEF found
    <3> QED BY <3>1, Streams!EmptyIn DEF Streams!AllItems
  <2> QED BY <2>5, <2>6, <2>7 DEF Found
<1>3. ASSUME NEW u \in Streams!Text
      PROVE  Insight(base, c, u) = Told(Streams!StripThink(u).thinking)
  <2> DEFINE m == Streams!Meaning(FALSE, u)
             h == m.thinking
  <2>1. c.splitter.inThink = FALSE /\ c.splitter.buffer = <<>> /\ <<>> \o u = u
    BY NoTextAtAll DEF Fresh, NewSplitter
  <2>2. m = Streams!StripThink(u) /\ m \in Streams!Meanings
    BY Streams!MeaningType DEF Streams!Meaning
  <2>3. Hidden(c, u) = h
    BY <2>1 DEF Hidden
  <2>4. h = Streams!StripThink(u).thinking
    BY <2>2
  <2> HIDE DEF m
  <2>5. h \in AnyText
    BY <2>2, Streams!MeaningParts, TextIsAny
  <2> HIDE DEF h
  <2>6. Part(FALSE, <<>>) = <<>> /\ <<>> \o Told(h) = Told(h)
    BY <2>5, NoTextAtAll, PartsAre, AnyConcat DEF Told
  <2> QED BY <1>1, <2>3, <2>4, <2>6 DEF Insight
<1> QED BY <1>1, <1>2, <1>3

LEMMA Starting ==
    ASSUME NEW base, NEW c, NEW d, Fresh(base, c), d = Yield(c, <<MessageStart>>)
    PROVE  /\ Ready(base, d) /\ Visible(base, d) /\ Same(c, d) /\ Marked(base, d) = <<>>
           /\ Thinks(base, d) = <<>>
<1> DEFINE v == View(base, c)
           w == Accept(v, MessageStart)
<1>1. v = NewClient
  BY ReceiveOne DEF Fresh, View
<1>2. Open(w, "none", 0) /\ w.blocks = <<>>
  BY <1>1, NewClientIs, OnMessageStart
<1> HIDE DEF v, w
<1>3. /\ d \in Converters /\ Same(c, d) /\ d.nextIndex = 0 /\ d.currentBlock = "none"
      /\ ~d.hasVisible /\ View(base, d) = w
  <2>1. MessageStart \in Events
    BY EventsAre
  <2> QED BY <2>1, YieldOne DEF Fresh, v, w
<1>4. Ready(base, d)
  BY <1>2, <1>3 DEF Ready
<1>5. Marked(base, d) = <<>> /\ <<>> \in Seq(VisibleItems) /\ Thinks(base, d) = <<>>
  <2>1. <<>> \in Seq(VisibleItems)
    OBVIOUS
  <2> QED BY <1>2, <1>3, <2>1, MarksEmpty, ThoughtsEmpty DEF Marked, Thinks
<1> QED BY <1>3, <1>4, <1>5 DEF Visible

LEMMA Started ==
    ASSUME NEW base, NEW c, Streaming(base, c) \/ Fresh(base, c)
    PROVE  LET d == Start(c)
           IN  /\ Streaming(base, d) /\ AsBefore(base, c, d) /\ d.finish = c.finish
               /\ Reasoned(base, d) = Reasoned(base, c)
<1>1. CASE c.started
  <2>1. Start(c) = c
    BY <1>1 DEF Start
  <2> QED BY <1>1, <2>1, NothingChanges DEF Fresh
<1>2. CASE ~c.started
  <2> DEFINE y == Yield(c, <<MessageStart>>)
             d == [y EXCEPT !.started = TRUE]
  <2>1. Start(c) = d
    BY <1>2 DEF Start
  <2>2. Fresh(base, c)
    BY <1>2 DEF Streaming
  <2>3. /\ Ready(base, y) /\ Visible(base, y) /\ Same(c, y) /\ Marked(base, y) = <<>>
        /\ Thinks(base, y) = <<>>
    BY <2>2, Starting
  <2> HIDE DEF y
  <2>4. /\ d \in Converters /\ Quiet(y, d) /\ d.started /\ d.scanner = y.scanner
        /\ d.splitter = y.splitter /\ d.finish = y.finish /\ d.native = y.native
    BY <2>3, PutStarted DEF Ready
  <2> HIDE DEF d
  <2>5. Ready(base, d) /\ Visible(base, d) /\ Marked(base, d) = <<>> /\ Thinks(base, d) = <<>>
    BY <2>3, <2>4, Shows
  <2>6. /\ d.scanner = NewScanner /\ d.splitter = NewSplitter /\ d.finish = c.finish
        /\ d.native = <<>>
    BY <2>2, <2>3, <2>4 DEF Same, Fresh
  <2>7. AsBefore(base, c, d) /\ Reasoned(base, d) = Reasoned(base, c)
    <3>1. Marked(base, c) = <<>> /\ Thinks(base, c) = <<>> /\ c.scanner = NewScanner /\ c.splitter = NewSplitter
      BY <2>2, FreshPromise DEF Fresh
    <3> QED BY <2>5, <2>6, <3>1, NothingChanges
  <2> QED BY <2>1, <2>4, <2>5, <2>6, <2>7, NewScanners DEF Streaming, Small
<1> QED BY <1>1, <1>2

LEMMA FeedingReasoning ==
    ASSUME NEW base, NEW c, Streaming(base, c), NEW r \in Seq(Reasons)
    PROVE  LET d == FeedReasoning(c, r)
           IN  /\ Streaming(base, d) /\ AsBefore(base, c, d)
               /\ Reasoned(base, d) = Reasoned(base, c) \o Told(r)
<1> DEFINE d == FeedReasoning(c, r)
           m == Thinks(base, c)
<1>1. m \in AnyText /\ r \in AnyText
  BY ThinksType, PartsAre DEF Streaming
<1>2. /\ Part(TRUE, m \o Told(r)) = Part(TRUE, m) \o Told(r)
      /\ Part(FALSE, m \o Told(r)) = Part(FALSE, m)
  <2> HIDE DEF m
  <2> QED BY <1>1, PartsGrow
<1>3. CASE r # <<>> /\ returnThinking
  <2>1. d = EmitDelta(c, "thinking", r)
    BY <1>3 DEF FeedReasoning
  <2> HIDE DEF d
  <2>2. /\ Ready(base, d) /\ Visible(base, d) /\ Same(c, d) /\ Marked(base, d) = Marked(base, c)
        /\ Thinks(base, d) = m \o Told(r)
    <3>1. Told(r) = r
      BY <1>3 DEF Told
    <3>2. /\ Ready(base, d) /\ Visible(base, d) /\ Same(c, d) /\ Marked(base, d) = Marked(base, c)
          /\ Thinks(base, d) = Thinks(base, c) \o r
      BY <1>1, <2>1, ThinkingSegment DEF Streaming
    <3> QED BY <3>1, <3>2
  <2> HIDE DEF m
  <2>3. Part(TRUE, Thinks(base, d)) = Part(TRUE, m) \o Told(r)
        /\ Part(FALSE, Thinks(base, d)) = Part(FALSE, m)
    BY <1>2, <2>2
  <2>4. AsBefore(base, c, d)
    BY <1>3, <2>2, <2>3 DEF AsBefore, Discreet, Promise, Due, Insight, Hidden, Same, m
  <2> QED BY <2>2, <2>3, <2>4 DEF Streaming, Small, Same, Reasoned, d, m
<1>4. CASE ~(r # <<>> /\ returnThinking)
  <2>1. d = c
    BY <1>4, Zenon DEF FeedReasoning
  <2>2. Told(r) = <<>> /\ Part(TRUE, m) \o <<>> = Part(TRUE, m)
    <3> HIDE DEF m
    <3>1. Told(r) = <<>>
      BY <1>4 DEF Told
    <3> QED BY <1>1, <3>1, PartsGrow, AnyConcat
  <2> HIDE DEF d, m
  <2> QED BY <2>1, <2>2, NothingChanges DEF Reasoned, d, m
<1> QED BY <1>3, <1>4

(* What has been found and what comes are what was to come. *)
Conserves(s, t, fed) ==
    \A u \in Streams!Text :
        LET rest  == Streams!Meaning(fed.splitter.inThink, fed.splitter.buffer \o u)
            whole == Streams!Meaning(s.inThink, s.buffer \o (t \o u))
        IN  /\ rest.text \in Streams!Text /\ rest.thinking \in Streams!Text
            /\ Streams!TextOf("text", fed.segments) \o rest.text = whole.text
            /\ Streams!TextOf("thinking", fed.segments) \o rest.thinking = whole.thinking

LEMMA SplitPart ==
    ASSUME NEW s \in Streams!Splitters, Len(s.buffer) < 2, NEW t \in Streams!Text,
           NEW fed, fed = SplitFeed(s, t)
    PROVE  /\ fed.splitter \in Streams!Splitters /\ Len(fed.splitter.buffer) < 2
           /\ fed.segments \in Streams!Segments /\ Conserves(s, t, fed)
<1>1. fed = Streams!SplitFeed(s, t)
  BY SameSplitter
<1>2. /\ fed \in Streams!Feds /\ Len(fed.splitter.buffer) < 2
      /\ \A u \in Streams!Text : Streams!Total(fed, u) = Streams!Meaning(s.inThink, s.buffer \o (t \o u))
  BY <1>1, Streams!SplitFeedKeeps
<1>3. /\ fed.splitter \in Streams!Splitters /\ fed.segments \in Streams!Segments
      /\ fed.splitter.buffer \in Streams!Text /\ fed.splitter.inThink \in BOOLEAN
  BY <1>2, Streams!FedParts
<1>4. ASSUME NEW u \in Streams!Text
      PROVE  LET rest  == Streams!Meaning(fed.splitter.inThink, fed.splitter.buffer \o u)
                 whole == Streams!Meaning(s.inThink, s.buffer \o (t \o u))
             IN  /\ rest.text \in Streams!Text /\ rest.thinking \in Streams!Text
                 /\ Streams!TextOf("text", fed.segments) \o rest.text = whole.text
                 /\ Streams!TextOf("thinking", fed.segments) \o rest.thinking = whole.thinking
  <2> DEFINE m == Streams!Meaning(fed.splitter.inThink, fed.splitter.buffer \o u)
             y == Streams!Yielded(fed.segments)
             a == y.text \o m.text
             b == y.thinking \o m.thinking
             both == Streams!Total(fed, u)
             w == Streams!Meaning(s.inThink, s.buffer \o (t \o u))
  <2>1. m \in Streams!Meanings
    BY <1>3, Streams!ConcatType, Streams!MeaningType
  <2>2. both = Streams!Add(y, m)
    BY DEF Streams!Total
  <2>3. /\ y.text = Streams!TextOf("text", fed.segments)
        /\ y.thinking = Streams!TextOf("thinking", fed.segments)
    BY DEF Streams!Yielded
  <2> HIDE DEF m, y
  <2>4. m.text \in Streams!Text /\ m.thinking \in Streams!Text
    BY <2>1, Streams!MeaningParts
  <2>5. both = [text |-> a, thinking |-> b]
    BY <2>2, Zenon DEF Streams!Add
  <2>6. both = w
    BY <1>2
  <2> HIDE DEF a, b, both, w
  <2>7. w.text = a /\ w.thinking = b
    BY <2>5, <2>6
  <2>8. /\ m.text \in Streams!Text /\ m.thinking \in Streams!Text
        /\ Streams!TextOf("text", fed.segments) \o m.text = w.text
        /\ Streams!TextOf("thinking", fed.segments) \o m.thinking = w.thinking
    BY <2>3, <2>4, <2>7 DEF a, b
  <2> QED BY <2>8 DEF m, w
<1>5. Conserves(s, t, fed)
  BY <1>4, Zenon DEF Conserves
<1> QED BY <1>2, <1>3, <1>5

LEMMA ProcessingContent ==
    ASSUME NEW base, NEW c, Streaming(base, c), NEW t \in Streams!Text
    PROVE  LET d == ProcessContent(c, t)
           IN  /\ Streaming(base, d) /\ KeepsPromise(base, c, d, t)
               /\ Reasoned(base, d) = Reasoned(base, c)
<1> DEFINE s == c.splitter
           fed == SplitFeed(s, t)
           x == [c EXCEPT !.splitter = fed.splitter]
           d == ProcessContent(c, t)
           found == Streams!TextOf("text", fed.segments)
           h == Streams!TextOf("thinking", fed.segments)
           m == Thinks(base, c)
<1>1. d = FoldLeft(EmitThinkSegment, x, fed.segments)
  BY DEF ProcessContent
<1>2. c \in Converters /\ s \in Streams!Splitters /\ Len(s.buffer) < 2 /\ m \in AnyText
  BY ConverterIs, ThinksType DEF Streaming, Ready, Small
<1> HIDE DEF s
<1>3. /\ fed.splitter \in Streams!Splitters /\ Len(fed.splitter.buffer) < 2
      /\ fed.segments \in Streams!Segments /\ Conserves(s, t, fed)
  <2>1. fed = SplitFeed(s, t)
    OBVIOUS
  <2> HIDE DEF fed
  <2> QED BY <1>2, <2>1, SplitPart
<1> HIDE DEF fed
<1>4. /\ x \in Converters /\ Quiet(c, x) /\ x.splitter = fed.splitter
      /\ x.scanner = c.scanner /\ x.started = c.started /\ x.native = c.native
  BY <1>2, <1>3, PutSplitter
<1> HIDE DEF x, d
<1>5. /\ Ready(base, x) /\ Visible(base, x) /\ Marked(base, x) = Marked(base, c)
      /\ Settled(x.scanner) /\ Thinks(base, x) = m
  BY <1>4, Shows DEF Streaming, Small
<1>6. /\ Ready(base, d) /\ Visible(base, d) /\ Stays(x, d) /\ Settled(d.scanner)
      /\ Pays(base, x, d, found) /\ Thinks(base, d) = m \o Told(h)
  <2> DEFINE segs == fed.segments
  <2>1. d = FoldLeft(EmitThinkSegment, x, segs) /\ segs \in Streams!Segments
    BY <1>1, <1>3
  <2> HIDE DEF m, segs
  <2>2. /\ Ready(base, d) /\ Visible(base, d) /\ Stays(x, d) /\ Settled(d.scanner)
        /\ Pays(base, x, d, Streams!TextOf("text", segs))
        /\ Thinks(base, d) = Thinks(base, x) \o Told(Streams!TextOf("thinking", segs))
    BY <1>5, <2>1, ThinkSegments
  <2> QED BY <1>5, <2>2 DEF segs
<1>7. Streaming(base, d)
  BY <1>3, <1>4, <1>6 DEF Streaming, Small, Stays
<1>8. h \in Streams!Text /\ h \in AnyText
  BY <1>3, Streams!TextOfIs, TextIsAny
<1> HIDE DEF h, m
<1>9. /\ Part(TRUE, Thinks(base, d)) = Part(TRUE, m) /\ Part(TRUE, m) \in AnyText
      /\ Part(FALSE, Thinks(base, d)) = Part(FALSE, m) \o Told(h) /\ Part(FALSE, m) \in AnyText
  <2> DEFINE v == Thinks(base, d)
  <2>1. v = m \o Told(h)
    BY <1>6
  <2> HIDE DEF v
  <2>2. /\ Part(TRUE, m \o Told(h)) = Part(TRUE, m) /\ Part(TRUE, m) \in AnyText
        /\ Part(FALSE, m \o Told(h)) = Part(FALSE, m) \o Told(h) /\ Part(FALSE, m) \in AnyText
    BY <1>2, <1>8, PartsGrow
  <2>3. /\ Part(TRUE, v) = Part(TRUE, m) /\ Part(TRUE, m) \in AnyText
        /\ Part(FALSE, v) = Part(FALSE, m) \o Told(h) /\ Part(FALSE, m) \in AnyText
    BY <2>1, <2>2
  <2> QED BY <2>3 DEF v
<1>10. ASSUME NEW u \in Streams!Text
       PROVE  /\ Promise(base, d, u) = Promise(base, c, t \o u)
              /\ Insight(base, d, u) = Insight(base, c, t \o u)
  <2> DEFINE rest == Streams!Meaning(fed.splitter.inThink, fed.splitter.buffer \o u)
             a == rest.text
             b == rest.thinking
  <2>1. /\ a \in Streams!Text /\ b \in Streams!Text
        /\ found \o a = Streams!Meaning(s.inThink, s.buffer \o (t \o u)).text
        /\ h \o b = Hidden(c, t \o u)
    BY <1>3 DEF Conserves, Hidden, s, h
  <2>2. Promise(base, d, u) = Due(base, d, a) /\ Hidden(d, u) = b
    BY <1>4, <1>6 DEF Promise, Stays, Hidden
  <2> HIDE DEF a, b, found
  <2>3. Due(base, d, a) = Due(base, x, found \o a)
    BY <1>6, <2>1 DEF Pays
  <2>4. Due(base, x, found \o a) = Due(base, c, found \o a)
    BY <1>4, <1>5 DEF Due
  <2>5. Promise(base, d, u) = Promise(base, c, t \o u)
    BY <2>1, <2>2, <2>3, <2>4 DEF Promise, s
  <2>6. (Part(FALSE, m) \o Told(h)) \o Told(b) = Part(FALSE, m) \o Told(h \o b)
    <3> DEFINE p == Part(FALSE, m)
    <3>1. p \in AnyText /\ h \in AnyText /\ b \in AnyText
      BY <1>8, <1>9, <2>1, TextIsAny
    <3> HIDE DEF p
    <3>2. (p \o Told(h)) \o Told(b) = p \o Told(h \o b)
      BY <3>1, AnyConcat DEF Told
    <3> QED BY <3>2 DEF p
  <2>7. Insight(base, d, u) = Insight(base, c, t \o u)
    BY <1>9, <2>1, <2>2, <2>6 DEF Insight, m
  <2> QED BY <2>5, <2>7
<1>11. Discreet(base, c, d)
  <2>1. ~returnThinking => Told(h) = <<>>
    BY DEF Told
  <2> QED BY <1>2, <1>6, <2>1, AnyConcat DEF Discreet, m
<1> QED BY <1>7, <1>9, <1>10, <1>11 DEF KeepsPromise, Reasoned, d, m

(* Whatever the chunk, the converter streams on and has shown what was     *)
(* promised for its content, or feed() raises.                             *)
LEMMA Feeding ==
    ASSUME NEW base, NEW c, Streaming(base, c) \/ Fresh(base, c), NEW chunk \in Chunks
    PROVE  LET d == Fed(c, chunk)
           IN  IF Raises(chunk) THEN Ready(base, d)
               ELSE /\ Streaming(base, d) \/ Fresh(base, d)
                    /\ KeepsPromise(base, c, d, chunk.content)
                    /\ Reasoned(base, d) = Reasoned(base, c) \o Told(chunk.reasoning)
<1> DEFINE captured == [c EXCEPT !.usage = @ \/ chunk.usage]
           content == ProcessContent(FeedReasoning(Start(captured), chunk.reasoning),
                                     chunk.content)
           native == AccumulateNative(content, chunk.tools)
           d == Fed(c, chunk)
           t == chunk.content
           r == chunk.reasoning
<1>1. /\ t \in Streams!Text /\ r \in Seq(Reasons)
      /\ chunk.finish \in Finishes /\ chunk.choices \in BOOLEAN /\ chunk.usage \in BOOLEAN
      /\ ~chunk.choices => t = <<>> /\ r = <<>>
  BY ContentChars
<1>2. /\ captured \in Converters /\ Quiet(c, captured) /\ captured.finish = c.finish
      /\ captured.scanner = c.scanner /\ captured.splitter = c.splitter
      /\ captured.started = c.started /\ captured.native = c.native
  BY <1>1, PutUsage DEF Streaming, Ready, Fresh
<1>3. d = CASE ~chunk.choices -> captured
            [] Raises(chunk)  -> native
            [] OTHER          -> Finish(native, chunk.finish)
  BY DEF Fed
<1> HIDE DEF captured, d
<1>4. Streaming(base, captured) \/ Fresh(base, captured)
  <2>1. CASE Streaming(base, c)
    <3>1. Ready(base, captured) /\ Visible(base, captured)
      BY <1>2, <2>1, Shows DEF Streaming
    <3> QED BY <1>2, <2>1, <3>1 DEF Streaming, Small
  <2>2. CASE Fresh(base, c)
    BY <1>2, <2>2 DEF Fresh, Quiet
  <2> QED BY <2>1, <2>2
<1>5. /\ Marked(base, captured) = Marked(base, c)
      /\ Thinks(base, captured) = Thinks(base, c)
  BY <1>2 DEF Marked, Thinks, View, Quiet
<1>6. AsBefore(base, c, captured) /\ Reasoned(base, captured) = Reasoned(base, c)
  BY <1>2, <1>5, NothingChanges
<1>7. \A x : AsBefore(base, x, x)
  BY DEF AsBefore, Discreet
<1>8. /\ Streaming(base, content) /\ KeepsPromise(base, captured, content, t)
      /\ Reasoned(base, content) = Reasoned(base, c) \o Told(r)
  <2> DEFINE a == Start(captured)
             b == FeedReasoning(a, r)
  <2>1. /\ Streaming(base, a) /\ AsBefore(base, captured, a)
        /\ Reasoned(base, a) = Reasoned(base, captured)
    BY <1>4, Started
  <2> HIDE DEF a
  <2>2. /\ Streaming(base, b) /\ AsBefore(base, a, b)
        /\ Reasoned(base, b) = Reasoned(base, a) \o Told(r)
    <3> HIDE DEF r
    <3> QED BY <1>1, <2>1, FeedingReasoning
  <2> DEFINE e == ProcessContent(b, t)
  <2>4. e = content
    BY DEF a, b, r
  <2> HIDE DEF b
  <2>3. /\ Streaming(base, e) /\ KeepsPromise(base, b, e, t)
        /\ Reasoned(base, e) = Reasoned(base, b)
    <3> HIDE DEF t
    <3> QED BY <1>1, <2>2, ProcessingContent
  <2> HIDE DEF e, t, r, content
  <2>5. AsBefore(base, captured, b)
    BY <1>1, <2>1, <2>2, PromisesLast
  <2>6. KeepsPromise(base, captured, e, t)
    BY <1>1, <1>7, <2>3, <2>5, PromisesLast
  <2>7. Reasoned(base, e) = Reasoned(base, c) \o Told(r)
    BY <1>6, <2>1, <2>2, <2>3
  <2> QED BY <2>3, <2>4, <2>6, <2>7
<1> HIDE DEF content
<1>9. ASSUME NEW x, AsBefore(base, content, x) PROVE KeepsPromise(base, c, x, t)
  <2> HIDE DEF t
  <2>1. KeepsPromise(base, c, content, t)
    BY <1>1, <1>8, <1>6, <1>7, PromisesLast
  <2> QED BY <1>1, <1>7, <1>9, <2>1, PromisesLast
<1>10. content \in Converters
  BY <1>8 DEF Streaming, Ready
<1>11. CASE ~chunk.choices
  <2>1. d = captured /\ ~Raises(chunk)
    BY <1>3, <1>11 DEF Raises
  <2>2. KeepsPromise(base, c, captured, t)
    <3> HIDE DEF t
    <3>1. t = <<>>
      BY <1>1, <1>11
    <3> QED BY <1>1, <1>6, <3>1, PromisesLast
  <2>3. Reasoned(base, captured) = Reasoned(base, c) \o Told(r)
    <3> DEFINE p == Reasoned(base, c)
    <3>1. p \in AnyText
      <4>1. CASE Streaming(base, c)
        BY <4>1, ThinksType, PartsGrow DEF Streaming, Reasoned
      <4>2. CASE Fresh(base, c)
        <5>1. Thinks(base, c) = <<>> /\ <<>> \in AnyText
          BY <4>2, FreshPromise, AnyConcat
        <5> QED BY <5>1, PartIs DEF Reasoned
      <4> QED BY <4>1, <4>2
    <3>2. Told(r) = <<>>
      BY <1>1, <1>11 DEF Told
    <3> HIDE DEF p
    <3>3. p \o <<>> = p
      BY <3>1, AnyConcat
    <3> QED BY <1>6, <3>2, <3>3 DEF p
  <2> QED BY <1>4, <2>1, <2>2, <2>3 DEF d, r
<1>12. CASE chunk.choices /\ Raises(chunk)
  <2>1. d = native
    BY <1>3, <1>12, Zenon
  <2>2. Ready(base, native)
    <3>1. CASE chunk.tools = "call"
      <4>1. native \in Converters /\ Quiet(content, native)
        BY <1>10, <3>1, PutNative DEF AccumulateNative
      <4> HIDE DEF native
      <4> QED BY <1>8, <4>1, Shows DEF Streaming
    <3>2. CASE chunk.tools # "call"
      <4>1. native = content
        BY <3>2 DEF AccumulateNative
      <4> QED BY <1>8, <4>1 DEF Streaming
    <3> QED BY <3>1, <3>2
  <2> QED BY <1>12, <2>1, <2>2 DEF d
<1>13. CASE chunk.choices /\ ~Raises(chunk)
  <2>1. native = content
    BY <1>13 DEF Raises, AccumulateNative
  <2>2. d = Finish(content, chunk.finish)
    BY <1>3, <1>13, <2>1, Zenon
  <2> DEFINE x == [content EXCEPT !.finish = chunk.finish]
  <2>3. CASE chunk.finish = "none"
    <3>1. d = content
      BY <2>2, <2>3 DEF Finish
    <3>2. KeepsPromise(base, c, content, t)
      BY <1>7, <1>9
    <3> QED BY <1>8, <1>13, <3>1, <3>2 DEF d, r
  <2>4. CASE chunk.finish # "none"
    <3>1. d = x
      BY <2>2, <2>4 DEF Finish
    <3>2. /\ x \in Converters /\ Quiet(content, x) /\ x.scanner = content.scanner
          /\ x.splitter = content.splitter /\ x.started = content.started
          /\ x.native = content.native
      BY <1>1, <1>10, PutFinish
    <3> HIDE DEF x
    <3>3. Ready(base, x) /\ Visible(base, x)
      BY <1>8, <3>2, Shows DEF Streaming
    <3>4. Streaming(base, x)
      BY <1>8, <3>2, <3>3 DEF Streaming, Small
    <3>5. AsBefore(base, content, x) /\ Reasoned(base, x) = Reasoned(base, content)
      <4>1. Marked(base, x) = Marked(base, content) /\ Thinks(base, x) = Thinks(base, content)
        BY <1>8, <3>2, Shows DEF Streaming
      <4> QED BY <3>2, <4>1, NothingChanges
    <3>6. KeepsPromise(base, c, x, t)
      BY <1>9, <3>5
    <3>7. Reasoned(base, x) = Reasoned(base, c) \o Told(r)
      BY <1>8, <3>5
    <3> QED BY <1>13, <3>1, <3>4, <3>6, <3>7 DEF d, r
  <2> QED BY <2>3, <2>4
<1> QED BY <1>1, <1>11, <1>12, <1>13
-----------------------------------------------------------------------------
(* flush() *)

LEMMA SplitEnd ==
    ASSUME NEW s \in Streams!Splitters, Len(s.buffer) < 2, NEW fed, fed = SplitFlush(s)
    PROVE  /\ fed.splitter \in Streams!Splitters /\ fed.segments \in Streams!Segments
           /\ Streams!TextOf("text", fed.segments) = Streams!Meaning(s.inThink, s.buffer).text
           /\ Streams!TextOf("thinking", fed.segments)
                = Streams!Meaning(s.inThink, s.buffer).thinking
<1>1. fed = Streams!SplitFlush(s)
  BY SameSplitter
<1> DEFINE y == Streams!Yielded(fed.segments)
<1>2. fed \in Streams!Feds /\ y = Streams!Meaning(s.inThink, s.buffer)
  BY <1>1, Streams!SplitFlushKeeps
<1>3. /\ y.text = Streams!TextOf("text", fed.segments)
      /\ y.thinking = Streams!TextOf("thinking", fed.segments)
  BY DEF Streams!Yielded
<1> HIDE DEF y
<1>4. fed.splitter \in Streams!Splitters /\ fed.segments \in Streams!Segments
  BY <1>2, Streams!FedParts
<1> QED BY <1>2, <1>3, <1>4

LEMMA ScanEnd ==
    ASSUME NEW x \in Streams!Scanners, NEW fed, fed = ScanFlush(x)
    PROVE  /\ fed.scanner \in Streams!Scanners /\ fed.segments \in Streams!Findings
           /\ fed.scanner.inXml = x.inXml
           /\ Streams!Cleared(x) /\ ~x.inXml =>
                Streams!Items(fed.segments) = Streams!Xml(x.inXml, x.buffer)
<1>1. fed = Streams!ScanFlush(x)
  BY SameScanner
<1>2. fed \in Streams!ScanFeds
  BY <1>1, Streams!ScanFlushKeeps
<1>3. fed.scanner \in Streams!Scanners /\ fed.segments \in Streams!Findings
  BY <1>2, Streams!ScanFedParts
<1>4. fed.scanner.inXml = x.inXml
  <2>1. fed.scanner = [x EXCEPT !.buffer = <<>>]
    BY DEF ScanFlush
  <2> QED BY <2>1 DEF Streams!Scanners
<1>5. ASSUME Streams!Cleared(x), ~x.inXml
      PROVE  Streams!Items(fed.segments) = Streams!Xml(x.inXml, x.buffer)
  <2> DEFINE block == Streams!LeftOpen(x.inXml, x.buffer)
             m == Streams!Xml(x.inXml, x.buffer)
             tools == Streams!Salvaged(block)
  <2>1. x.inXml \in BOOLEAN /\ x.buffer \in Streams!Text
        /\ Streams!Find(Streams!CallTag(x.inXml), x.buffer) = 0
    BY <1>5 DEF Streams!Scanners, Streams!Cleared
  <2>2. block = <<>>
    BY <1>5, <2>1, Streams!OpenPlain
  <2>3. tools = <<>>
    <3>1. \A i \in 1..Len(<<>>) : <<>>[i] \notin Streams!Elements
      OBVIOUS
    <3>2. Streams!ParseInvokesFromXml(<<>>) = <<>>
      BY <3>1, Streams!EmptyText, Streams!NoInvokes
    <3> QED BY <2>2, <3>2, Streams!ItemsEmpty DEF Streams!Salvaged
  <2>4. block # Streams!CallsOpen
    BY <2>2 DEF Streams!CallsOpen
  <2> HIDE DEF block, m
  <2>5. ~(tools # <<>> \/ block = Streams!CallsOpen) => Streams!Items(fed.segments) = m
    <3>1. block = Streams!LeftOpen(x.inXml, x.buffer) /\ m = Streams!Xml(x.inXml, x.buffer)
      BY DEF block, m
    <3> QED BY <1>1, <1>5, <3>1, Streams!ScanFlushMeans
  <2> QED BY <2>3, <2>4, <2>5 DEF m
<1> QED BY <1>3, <1>4, <1>5

LEMMA Draining ==
    ASSUME NEW base, NEW c, Streaming(base, c)
    PROVE  LET d == Drain(c)
           IN  /\ Ready(base, d) /\ Visible(base, d) /\ d.started /\ d.finish = c.finish
               /\ ~d.scanner.inXml => Marked(base, d) = Promise(base, c, <<>>)
               /\ Thinks(base, d) = Thinks(base, c) \o Told(Hidden(c, <<>>))
               /\ Hidden(c, <<>>) \in Streams!Text
<1> DEFINE s == SplitFlush(c.splitter)
           x == [c EXCEPT !.splitter = s.splitter]
           y == FoldLeft(EmitThinkSegment, x, s.segments)
           fed == ScanFlush(y.scanner)
           z == [y EXCEPT !.scanner = fed.scanner]
           d == FoldLeft(EmitXmlSegment, z, fed.segments)
           t == Streams!TextOf("text", s.segments)
           h == Streams!TextOf("thinking", s.segments)
<1>1. Drain(c) = d
  BY DEF Drain
<1>2. c \in Converters /\ c.splitter \in Streams!Splitters /\ Len(c.splitter.buffer) < 2
  BY ConverterIs DEF Streaming, Ready, Small
<1>3. /\ s.splitter \in Streams!Splitters /\ s.segments \in Streams!Segments
      /\ t = Streams!Meaning(c.splitter.inThink, c.splitter.buffer).text
      /\ h = Streams!Meaning(c.splitter.inThink, c.splitter.buffer).thinking
  <2>1. s = SplitFlush(c.splitter)
    OBVIOUS
  <2> HIDE DEF s
  <2> QED BY <1>2, <2>1, SplitEnd
<1>4. t \in Streams!Text /\ h \in Streams!Text
  <2> HIDE DEF s
  <2> QED BY <1>3, Streams!TextOfIs
<1> HIDE DEF s
<1>5. /\ x \in Converters /\ Quiet(c, x) /\ x.scanner = c.scanner
      /\ x.started = c.started /\ x.finish = c.finish
  BY <1>2, <1>3, PutSplitter
<1> HIDE DEF x
<1>6. /\ Ready(base, x) /\ Visible(base, x) /\ Marked(base, x) = Marked(base, c)
      /\ Settled(x.scanner) /\ Thinks(base, x) = Thinks(base, c)
  BY <1>5, Shows DEF Streaming, Small
<1>7. /\ Ready(base, y) /\ Visible(base, y) /\ Stays(x, y) /\ Settled(y.scanner)
      /\ Pays(base, x, y, t) /\ Thinks(base, y) = Thinks(base, x) \o Told(h)
  <2> DEFINE segs == s.segments
  <2>1. y = FoldLeft(EmitThinkSegment, x, segs) /\ segs \in Streams!Segments
    BY <1>3
  <2> HIDE DEF y, segs
  <2>2. /\ Ready(base, y) /\ Visible(base, y) /\ Stays(x, y) /\ Settled(y.scanner)
        /\ Pays(base, x, y, Streams!TextOf("text", segs))
        /\ Thinks(base, y) = Thinks(base, x) \o Told(Streams!TextOf("thinking", segs))
    BY <1>6, <2>1, ThinkSegments
  <2> QED BY <2>2 DEF segs
<1> HIDE DEF y, t, h
<1>8. y \in Converters /\ y.scanner \in Streams!Scanners
  BY <1>7, ConverterIs DEF Ready
<1>9. /\ fed.scanner \in Streams!Scanners /\ fed.segments \in Streams!Findings
      /\ fed.scanner.inXml = y.scanner.inXml
      /\ ~y.scanner.inXml =>
           Streams!Items(fed.segments) = Streams!Xml(y.scanner.inXml, y.scanner.buffer)
  <2>1. fed = ScanFlush(y.scanner)
    OBVIOUS
  <2> HIDE DEF fed
  <2> QED BY <1>7, <1>8, <2>1, ScanEnd DEF Settled
<1> HIDE DEF fed
<1>10. /\ z \in Converters /\ Quiet(y, z) /\ z.started = y.started /\ z.finish = y.finish
      /\ z.scanner = fed.scanner
  BY <1>8, <1>9, PutScanner
<1> HIDE DEF z
<1>11. /\ Ready(base, z) /\ Visible(base, z) /\ Marked(base, z) = Marked(base, y)
       /\ Thinks(base, z) = Thinks(base, y)
  BY <1>7, <1>10, Shows
<1>12. /\ Ready(base, d) /\ Visible(base, d) /\ Same(z, d)
       /\ Marked(base, d) = Marked(base, z) \o Streams!Items(fed.segments)
       /\ Thinks(base, d) = Thinks(base, z)
  BY <1>9, <1>11, XmlSegments
<1> HIDE DEF d
<1>13. Promise(base, c, <<>>) = Due(base, c, t) /\ Hidden(c, <<>>) = h
  <2>1. c.splitter.buffer \o <<>> = c.splitter.buffer
    BY <1>2, NoTextAtAll DEF Streams!Splitters
  <2> QED BY <1>3, <2>1 DEF Promise, Hidden
<1>14. Due(base, c, t) = Due(base, y, <<>>)
  <2>1. Due(base, y, <<>>) = Due(base, x, t \o <<>>) /\ t \o <<>> = t
    BY <1>7, <1>4, NoTextAtAll DEF Pays
  <2> QED BY <1>5, <1>6, <2>1 DEF Due
<1>15. Due(base, y, <<>>) = Marked(base, y) \o Streams!Xml(y.scanner.inXml, y.scanner.buffer)
  <2>1. y.scanner.buffer \o <<>> = y.scanner.buffer
    BY <1>8, NoTextAtAll DEF Streams!Scanners
  <2> QED BY <2>1 DEF Due
<1>16. d.scanner.inXml = y.scanner.inXml
  BY <1>9, <1>10, <1>12 DEF Same
<1>17. ~d.scanner.inXml => Marked(base, d) = Promise(base, c, <<>>)
  BY <1>9, <1>11, <1>12, <1>13, <1>14, <1>15, <1>16
<1>18. Thinks(base, d) = Thinks(base, c) \o Told(Hidden(c, <<>>))
  BY <1>6, <1>7, <1>11, <1>12, <1>13
<1>19. d.started /\ d.finish = c.finish
  BY <1>5, <1>7, <1>10, <1>12 DEF Same, Stays, Streaming
<1> QED BY <1>1, <1>4, <1>12, <1>13, <1>17, <1>18, <1>19

(* What flush() owes a client whose message ends with that finish reason. *)
Answered(finish, marks) ==
    /\ finish = "length" => marks # <<>>
    /\ Warning \in Range(marks) => marks = <<Warning>> /\ finish = "length"

(* All that was found is shown, or, if nothing was, the warning. *)
Complete(found, marks) == marks = found \/ (found = <<>> /\ marks = <<Warning>>)

LEMMA NoWarningYet ==
    ASSUME NEW marks \in Seq(VisibleItems) PROVE Warning \notin Range(marks)
<1>1. Warning \notin VisibleItems
  BY NoSentinel DEF Warning, VisibleItems
<1> DEFINE S == VisibleItems
<1>2. \A i \in DOMAIN marks : marks[i] \in S
  <2>1. marks \in Seq(S)
    OBVIOUS
  <2> HIDE DEF S
  <2> QED BY <2>1
<1> HIDE DEF S
<1> QED BY <1>1, <1>2 DEF Range, S

LEMMA TheWarning ==
    /\ Sentinel \in AnyText
    /\ Mark([kind |-> "text", text |-> Sentinel]) = <<Warning>>
<1> DEFINE x == Sentinel[1]
<1>1. Sentinel = <<x>> /\ Len(Sentinel) = 1
  BY DEF Sentinel
<1>2. x \in AllSymbols
  <2>1. x \in Range(Sentinel)
    BY DEF Sentinel, Range
  <2> QED BY <2>1 DEF AllSymbols
<1>3. Sentinel \in AnyText
  <2> HIDE DEF x
  <2> QED BY <1>1, <1>2 DEF AnyText
<1>4. Mark([kind |-> "text", text |-> Sentinel]) = [j \in 1..1 |-> <<"text", Sentinel[j]>>]
  BY <1>1, <1>3, MarkType DEF Kinds
<1>5. [j \in 1..1 |-> <<"text", Sentinel[j]>>] = <<Warning>>
  BY DEF Warning, Sentinel
<1> QED BY <1>3, <1>4, <1>5

LEMMA Warnings ==
    ASSUME NEW base, NEW c, Ready(base, c), Visible(base, c)
    PROVE  LET d == Warn(c)
           IN  /\ Ready(base, d) /\ Same(c, d) /\ Answered(c.finish, Marked(base, d))
               /\ Complete(Marked(base, c), Marked(base, d))
               /\ Thinks(base, d) = Thinks(base, c)
<1> DEFINE d == Warn(c)
<1>1. CASE c.finish = "length" /\ ~c.hasVisible
  <2>1. d = EmitDelta(c, "text", Sentinel)
    BY <1>1 DEF Warn
  <2> DEFINE more == Mark([kind |-> "text", text |-> Sentinel])
  <2> HIDE DEF d
  <2>2. /\ Ready(base, d) /\ Same(c, d) /\ Marked(base, d) = Marked(base, c) \o more
        /\ Thinks(base, d) = Thinks(base, c) \o Said("text", Sentinel)
    BY <2>1, TheWarning, EmittingDelta
  <2>3. more = <<Warning>> /\ Marked(base, c) = <<>>
    BY <1>1, TheWarning DEF Visible
  <2> HIDE DEF more
  <2>4. <<>> \o <<Warning>> = <<Warning>> /\ <<Warning>> # <<>>
    OBVIOUS
  <2>5. Marked(base, d) = <<Warning>>
    BY <2>2, <2>3, <2>4
  <2>6. Thinks(base, d) = Thinks(base, c)
    BY <2>2, ThinksType, TheWarning, ToldMore
  <2> QED BY <1>1, <2>2, <2>3, <2>4, <2>5, <2>6 DEF Answered, Complete, d
<1>2. CASE ~(c.finish = "length" /\ ~c.hasVisible)
  <2>1. d = c
    BY <1>2, Zenon DEF Warn
  <2>2. Warning \notin Range(Marked(base, c))
    BY NoWarningYet DEF Visible
  <2>3. c.finish = "length" => Marked(base, c) # <<>>
    BY <1>2 DEF Visible
  <2> HIDE DEF d
  <2> QED BY <2>1, <2>2, <2>3, SameTrans DEF Answered, Complete, d
<1> QED BY <1>1, <1>2

Tools == INSTANCE FoldTheorems WITH Op <- EmitToolUseBlock

LEMMA NothingAccumulated ==
    ASSUME NEW c, c.native = <<>> PROVE EmitAccumulated(c) = c
<1>1. \A base, s : FoldLeft(EmitToolUseBlock, base, s) = Tools!Fold(base, s)
  BY Zenon DEF Tools!Fold, FoldLeft, Tools!MapThenFoldSet,
               MapThenFoldSet, Tools!Highest, Max
<1>2. Tools!Fold(c, <<>>) = c
  BY Tools!FoldEmpty
<1> QED BY <1>1, <1>2 DEF EmitAccumulated

LEMMA NothingSegments ==
    /\ \A c : FoldLeft(EmitXmlSegment, c, <<>>) = c
    /\ \A c : FoldLeft(EmitThinkSegment, c, <<>>) = c
<1>1. \A c : XmlEmits!Fold(c, <<>>) = c
  BY XmlEmits!FoldEmpty
<1>2. \A c : ThinkEmits!Fold(c, <<>>) = c
  BY ThinkEmits!FoldEmpty
<1> QED BY <1>1, <1>2, XmlEmitsFold, ThinkEmitsFold

(* A stream in which nothing has begun has nothing to drain. *)
LEMMA DrainingNothing ==
    ASSUME NEW base, NEW c, Fresh(base, c)
    PROVE  Fresh(base, Drain(c))
<1> DEFINE s == SplitFlush(c.splitter)
           x == [c EXCEPT !.splitter = s.splitter]
           fed == ScanFlush(x.scanner)
           z == [x EXCEPT !.scanner = fed.scanner]
<1>1. s.segments = <<>> /\ s.splitter = NewSplitter
  <2>1. c.splitter = [buffer |-> <<>>, inThink |-> FALSE]
    BY DEF Fresh, NewSplitter
  <2>2. [c.splitter EXCEPT !.buffer = <<>>] = [buffer |-> <<>>, inThink |-> FALSE]
    BY <2>1
  <2> QED BY <2>1, <2>2 DEF SplitFlush, Segment, NewSplitter
<1>2. c \in Converters /\ NewSplitter \in Streams!Splitters /\ NewScanner \in Streams!Scanners
  BY NewScanners DEF Fresh
<1> HIDE DEF s
<1>3. Fresh(base, x)
  <2>1. x \in Converters /\ Quiet(c, x) /\ x.splitter = NewSplitter /\ x.scanner = c.scanner
        /\ x.started = c.started /\ x.finish = c.finish /\ x.native = c.native
    BY <1>1, <1>2, PutSplitter
  <2> HIDE DEF x
  <2> QED BY <2>1 DEF Fresh, Quiet
<1>4. FoldLeft(EmitThinkSegment, x, s.segments) = x
  BY <1>1, NothingSegments
<1> HIDE DEF x
<1>5. fed.segments = <<>> /\ fed.scanner = NewScanner
  <2>1. x.scanner = [buffer |-> <<>>, inXml |-> FALSE]
    BY <1>3 DEF Fresh, NewScanner
  <2>2. [x.scanner EXCEPT !.buffer = <<>>] = [buffer |-> <<>>, inXml |-> FALSE]
    BY <2>1
  <2> QED BY <2>1, <2>2 DEF ScanFlush, NewScanner
<1> HIDE DEF fed
<1>6. Fresh(base, z)
  <2>1. z \in Converters /\ Quiet(x, z) /\ z.splitter = x.splitter /\ z.scanner = NewScanner
        /\ z.started = x.started /\ z.finish = x.finish /\ z.native = x.native
    <3>1. x \in Converters
      BY <1>3 DEF Fresh
    <3> QED BY <1>2, <1>5, <3>1, PutScanner
  <2> HIDE DEF z
  <2> QED BY <1>3, <2>1 DEF Fresh, Quiet
<1>7. Drain(c) = z
  <2>1. Drain(c) = FoldLeft(EmitXmlSegment, z, fed.segments)
    <3>1. Drain(c) = LET d == FoldLeft(EmitThinkSegment, x, s.segments)
                         w == ScanFlush(d.scanner)
                     IN  FoldLeft(EmitXmlSegment, [d EXCEPT !.scanner = w.scanner], w.segments)
      BY DEF Drain, s, x
    <3> QED BY <1>4, <3>1 DEF z, fed
  <2> QED BY <1>5, <2>1, NothingSegments
<1> QED BY <1>6, <1>7

LEMMA StopReasonType == ASSUME NEW c PROVE StopReason(c) \in Stops
<1> DEFINE mapped == IF c.finish \in DOMAIN StopReasonMap THEN StopReasonMap[c.finish]
                     ELSE "end_turn"
<1>1. mapped \in Stops
  BY DEF StopReasonMap, Stops
<1> HIDE DEF mapped
<1>2. StopReason(c) = IF c.hasToolUse /\ mapped = "end_turn" THEN "tool_use" ELSE mapped
  BY DEF StopReason, mapped
<1> QED BY <1>1, <1>2 DEF Stops

LEMMA NoTagInNothing ==
    ASSUME NEW tag, Streams!IsTag(tag) PROVE Streams!Find(tag, <<>>) = 0
<1> DEFINE e == <<>>
<1>1. e \in Streams!Text /\ Len(e) = 0
  BY Streams!EmptyText
<1> HIDE DEF e
<1>2. /\ Streams!Find(tag, e) \in Nat
      /\ Streams!Find(tag, e) > 0 => Streams!Find(tag, e) \in 1..(Len(e) - 1)
  BY <1>1, Streams!FindWhere, Streams!FindBounds
<1>3. Streams!Find(tag, e) = 0
  BY <1>1, <1>2
<1> QED BY <1>3 DEF e

LEMMA StripNothing ==
    /\ Streams!StripThink(<<>>).text = <<>> /\ Streams!StripThink(<<>>).thinking = <<>>
<1> DEFINE e == <<>>
           m == Streams!StripThink(e)
<1>1. e \in Streams!Text /\ Streams!Find(Streams!ThinkOpen, e) = 0
  BY NoTagInNothing, NoTextAtAll, Streams!Tags
<1>2. m = Streams!Piece(FALSE, e)
  <2> HIDE DEF e
  <2>1. Streams!Meaning(FALSE, e) = Streams!Piece(FALSE, e)
    BY <1>1, Streams!MeaningOfPlain DEF Streams!TagOf
  <2> QED BY <2>1 DEF Streams!Meaning
<1> QED BY <1>2 DEF Streams!Piece

LEMMA FoundNothing == Found(<<>>) = <<>>
<1> DEFINE e == <<>>
           m == Streams!StripThink(e)
<1>1. e \in Streams!Text /\ Streams!Find(Streams!CallsOpen, e) = 0
  BY NoTagInNothing, NoTextAtAll, Streams!Tags
<1>3. m.text = e
  BY StripNothing
<1> HIDE DEF m
<1>4. Streams!Found(e) = <<>>
  <2>1. ~Streams!HasCalls(e)
    <3> HIDE DEF e
    <3> QED BY <1>1 DEF Streams!HasCalls, Streams!CallsAt
  <2> QED BY <1>1, <2>1, Streams!FoundPlain, Streams!NoText
<1> QED BY <1>3, <1>4 DEF Found, m

(* What flush() owes a client in thinking. *)
Enlightened(base, c, thinking) ==
    /\ ~returnThinking => thinking = Thinks(base, c)
    /\ Part(TRUE, thinking) = Reasoned(base, c)
    /\ Part(FALSE, thinking) = Insight(base, c, <<>>)

LEMMA Enlightening ==
    ASSUME NEW base, NEW c, Streaming(base, c), Hidden(c, <<>>) \in Streams!Text
    PROVE  Enlightened(base, c, Thinks(base, c) \o Told(Hidden(c, <<>>)))
<1> DEFINE m == Thinks(base, c)
           h == Hidden(c, <<>>)
<1>1. m \in AnyText /\ h \in Streams!Text
  BY ThinksType DEF Streaming
<1> HIDE DEF m, h
<1>2. ~returnThinking => m \o Told(h) = m
  BY <1>1, AnyConcat DEF Told
<1>3. /\ Part(TRUE, m \o Told(h)) = Part(TRUE, m)
      /\ Part(FALSE, m \o Told(h)) = Part(FALSE, m) \o Told(h)
  BY <1>1, PartsGrow
<1> QED BY <1>2, <1>3 DEF Enlightened, Reasoned, Insight, m, h

LEMMA StillDark ==
    ASSUME NEW base, NEW c, Fresh(base, c)
    PROVE  Enlightened(base, c, <<>>)
<1>1. Thinks(base, c) = <<>> /\ Insight(base, c, <<>>) = Told(Streams!StripThink(<<>>).thinking)
  BY FreshPromise, NoTextAtAll
<1>2. Told(Streams!StripThink(<<>>).thinking) = <<>>
  BY StripNothing DEF Told
<1>3. Part(FALSE, <<>>) = <<>>
  BY NoTextAtAll, PartsAre
<1> QED BY <1>1, <1>2, <1>3 DEF Enlightened, Reasoned

LEMMA Flushing ==
    ASSUME NEW base, NEW c, Streaming(base, c) \/ Fresh(base, c)
    PROVE  LET d == Flushed(c)
           IN  /\ d \in Converters /\ d.finish = c.finish
               /\ View(base, d) \in Clients /\ View(base, d).phase = "stopped"
               /\ Answered(c.finish, Marked(base, d))
               /\ ~d.scanner.inXml => Complete(Promise(base, c, <<>>), Marked(base, d))
               /\ Enlightened(base, c, Thinks(base, d))
<1> DEFINE a == EmitAccumulated(c)
           b == Warn(Drain(a))
           e == IF b.started THEN b ELSE Yield(b, <<MessageStart>>)
           f == CloseCurrentBlock(e)
           delta == MessageDelta(StopReason(f), f.usage)
           es == <<delta, MessageStop>>
           d == Yield(f, es)
<1>1. Flushed(c) = d
  BY DEF Flushed
<1>2. a = c
  BY NothingAccumulated DEF Streaming, Fresh
<1>3. /\ Ready(base, e) /\ e.finish = c.finish /\ Answered(c.finish, Marked(base, e))
      /\ ~e.scanner.inXml => Complete(Promise(base, c, <<>>), Marked(base, e))
      /\ Enlightened(base, c, Thinks(base, e))
  <2>1. CASE Streaming(base, c)
    <3> DEFINE x == Drain(c)
    <3>1. /\ Ready(base, x) /\ Visible(base, x) /\ x.started /\ x.finish = c.finish
          /\ ~x.scanner.inXml => Marked(base, x) = Promise(base, c, <<>>)
          /\ Thinks(base, x) = Thinks(base, c) \o Told(Hidden(c, <<>>))
          /\ Hidden(c, <<>>) \in Streams!Text
      BY <2>1, Draining
    <3>2. b = Warn(x)
      BY <1>2
    <3> HIDE DEF x, b
    <3>3. /\ Ready(base, b) /\ Same(x, b) /\ Answered(x.finish, Marked(base, b))
          /\ Complete(Marked(base, x), Marked(base, b)) /\ Thinks(base, b) = Thinks(base, x)
      BY <3>1, <3>2, Warnings
    <3>4. e = b
      BY <3>1, <3>3 DEF Same
    <3> HIDE DEF e
    <3>5. Enlightened(base, c, Thinks(base, b))
      BY <2>1, <3>1, <3>3, Enlightening
    <3> QED BY <3>1, <3>3, <3>4, <3>5 DEF Same
  <2>2. CASE Fresh(base, c)
    <3> DEFINE x == Drain(c)
               y == Yield(x, <<MessageStart>>)
    <3>1. Fresh(base, x)
      BY <2>2, DrainingNothing
    <3>2. b = x
      <4>1. b = Warn(x)
        BY <1>2
      <4> HIDE DEF x, b
      <4>2. Warn(x) = x
        <5>1. x.finish # "length"
          BY <3>1 DEF Fresh
        <5> QED BY <5>1, Zenon DEF Warn
      <4> QED BY <4>1, <4>2
    <3> HIDE DEF x, b
    <3>3. e = y
      BY <3>1, <3>2 DEF Fresh
    <3>4. /\ Ready(base, y) /\ Visible(base, y) /\ Same(x, y) /\ Marked(base, y) = <<>>
          /\ Thinks(base, y) = <<>>
      BY <3>1, Starting
    <3> HIDE DEF e, y
    <3>5. Marked(base, y) \in Seq(VisibleItems)
      BY <3>4 DEF Visible
    <3>6. Answered("none", Marked(base, y))
      BY <3>5, NoWarningYet DEF Answered
    <3>7. y.finish = "none" /\ c.finish = "none"
      BY <2>2, <3>1, <3>4 DEF Fresh, Same
    <3>8. Promise(base, c, <<>>) = <<>>
      BY <2>2, FreshPromise, FoundNothing, NoTextAtAll
    <3>9. Enlightened(base, c, Thinks(base, y))
      BY <2>2, <3>4, StillDark
    <3> QED BY <3>3, <3>4, <3>6, <3>7, <3>8, <3>9 DEF Complete
  <2> QED BY <2>1, <2>2
<1> HIDE DEF e
<1>4. /\ Ready(base, f) /\ Same(e, f) /\ f.currentBlock = "none"
      /\ Marked(base, f) = Marked(base, e) /\ Thinks(base, f) = Thinks(base, e)
  BY <1>3, Closing
<1> HIDE DEF f
<1>5. f \in Converters /\ f.usage \in BOOLEAN /\ f.nextIndex \in Nat
  BY <1>4, ConverterIs DEF Ready
<1>6. /\ StopReason(f) \in Stops /\ delta \in Events /\ MessageStop \in Events
  BY <1>5, StopReasonType, EventsAre
<1> DEFINE v == View(base, f)
           w == Accept(Accept(v, delta), MessageStop)
<1>7. w \in Clients /\ w.phase = "stopped" /\ w.blocks = v.blocks
  <2> DEFINE n == f.nextIndex
  <2>1. Open(v, "none", n) /\ n \in Nat
    BY <1>4, <1>5 DEF Ready
  <2> HIDE DEF v, n
  <2> QED BY <1>6, <2>1, OnMessageEnd
<1> HIDE DEF delta
<1>8. es \in Seq(Events) /\ Receive(v, es) = w
  <2>1. \A E : \A x, y \in E : <<x, y>> \in Seq(E)
    OBVIOUS
  <2> HIDE DEF v
  <2> QED BY <1>6, <2>1, ReceiveMore
<1> HIDE DEF es, w
<1>9. d \in Converters /\ Same(f, d) /\ View(base, d) = Receive(v, es)
  BY <1>5, <1>8, YieldMany
<1> HIDE DEF d
<1>10. Marked(base, d) = Marked(base, f) /\ Thinks(base, d) = Thinks(base, f)
  BY <1>7, <1>8, <1>9 DEF Marked, Thinks
<1> QED BY <1>1, <1>3, <1>4, <1>7, <1>8, <1>9, <1>10 DEF Same
-----------------------------------------------------------------------------
(* The invariant *)

(* The content so far, chunk by chunk. *)
ContentMap == [chunk \in Chunks |-> chunk.content]
ContentOf(chunks) == FlattenSeq([i \in DOMAIN chunks |-> chunks[i].content])

LEMMA ContentIs ==
    ASSUME NEW chunks \in Seq(Chunks)
    PROVE  /\ ContentOf(chunks) = Streams!FlattenSeq(Streams!Each(ContentMap, chunks))
           /\ Streams!Maps(ContentMap, Chunks, Streams!Symbols) /\ Streams!Over(chunks, Chunks)
           /\ ContentOf(chunks) \in Streams!Text
<1>1. [i \in DOMAIN chunks |-> chunks[i].content] = Streams!Each(ContentMap, chunks)
  <2>1. \A i \in DOMAIN chunks : chunks[i] \in Chunks
    OBVIOUS
  <2> QED BY <2>1 DEF Streams!Each, ContentMap
<1>2. ContentOf(chunks) = Streams!FlattenSeq(Streams!Each(ContentMap, chunks))
  BY <1>1, SameFlatten, Zenon DEF ContentOf
<1>3. Streams!Maps(ContentMap, Chunks, Streams!Symbols)
  BY ContentChars DEF Streams!Maps, ContentMap, Streams!Text
<1>4. Streams!Over(chunks, Chunks)
  BY DEF Streams!Over
<1>5. Streams!FlattenSeq(Streams!Each(ContentMap, chunks)) \in Seq(Streams!Symbols)
  BY <1>3, <1>4, Streams!FlatType
<1> QED BY <1>2, <1>3, <1>4, <1>5 DEF Streams!Text

LEMMA ChunksGrow ==
    ASSUME NEW S, NEW g, Streams!Maps(g, Chunks, S),
           NEW chunks \in Seq(Chunks), NEW chunk \in Chunks
    PROVE  /\ Append(chunks, chunk) \in Seq(Chunks)
           /\ Streams!FlattenSeq(Streams!Each(g, Append(chunks, chunk)))
                = Streams!FlattenSeq(Streams!Each(g, chunks)) \o g[chunk]
<1> DEFINE one == <<chunk>>
           more == chunks \o one
<1>1. one \in Seq(Chunks) /\ more \in Seq(Chunks) /\ Append(chunks, chunk) = more
  <2>1. \A T : \A s \in Seq(T), x \in T :
          <<x>> \in Seq(T) /\ s \o <<x>> \in Seq(T) /\ Append(s, x) = s \o <<x>>
    OBVIOUS
  <2> QED BY <2>1
<1>2. Streams!FlattenSeq(Streams!Each(g, one)) = g[chunk]
  BY Streams!FlatOne
<1> HIDE DEF one
<1>3. Streams!FlattenSeq(Streams!Each(g, chunks \o one))
        = Streams!FlattenSeq(Streams!Each(g, chunks)) \o Streams!FlattenSeq(Streams!Each(g, one))
  <2>1. Streams!Over(chunks, Chunks) /\ Streams!Over(one, Chunks)
    BY <1>1 DEF Streams!Over
  <2> QED BY <2>1, Streams!FlatConcat
<1> QED BY <1>1, <1>2, <1>3

LEMMA ContentGrows ==
    ASSUME NEW chunks \in Seq(Chunks), NEW chunk \in Chunks
    PROVE  /\ Append(chunks, chunk) \in Seq(Chunks)
           /\ ContentOf(Append(chunks, chunk)) = ContentOf(chunks) \o chunk.content
<1> DEFINE more == Append(chunks, chunk)
<1>1. /\ more \in Seq(Chunks)
      /\ Streams!FlattenSeq(Streams!Each(ContentMap, more))
           = Streams!FlattenSeq(Streams!Each(ContentMap, chunks)) \o ContentMap[chunk]
  <2>1. Streams!Maps(ContentMap, Chunks, Streams!Symbols)
    BY ContentIs
  <2> QED BY <2>1, ChunksGrow
<1> HIDE DEF more
<1>2. /\ ContentOf(more) = Streams!FlattenSeq(Streams!Each(ContentMap, more))
      /\ ContentOf(chunks) = Streams!FlattenSeq(Streams!Each(ContentMap, chunks))
  BY <1>1, ContentIs
<1>3. ContentMap[chunk] = chunk.content
  BY DEF ContentMap
<1> QED BY <1>1, <1>2, <1>3 DEF more

(* The reasoning so far. *)
ReasoningMap == [chunk \in Chunks |-> chunk.reasoning]
ReasoningOf(chunks) == FlattenSeq([i \in DOMAIN chunks |-> chunks[i].reasoning])

LEMMA ReasoningIs ==
    ASSUME NEW chunks \in Seq(Chunks)
    PROVE  /\ ReasoningOf(chunks) = Streams!FlattenSeq(Streams!Each(ReasoningMap, chunks))
           /\ Streams!Maps(ReasoningMap, Chunks, AllSymbols) /\ ReasoningOf(chunks) \in AnyText
<1>1. [i \in DOMAIN chunks |-> chunks[i].reasoning] = Streams!Each(ReasoningMap, chunks)
  <2>1. \A i \in DOMAIN chunks : chunks[i] \in Chunks
    OBVIOUS
  <2> QED BY <2>1 DEF Streams!Each, ReasoningMap
<1>2. ReasoningOf(chunks) = Streams!FlattenSeq(Streams!Each(ReasoningMap, chunks))
  BY <1>1, SameFlatten, Zenon DEF ReasoningOf
<1> DEFINE S == AllSymbols
<1>3. Streams!Maps(ReasoningMap, Chunks, S)
  BY ContentChars DEF Streams!Maps, ReasoningMap, AnyText
<1>4. Streams!Over(chunks, Chunks)
  BY DEF Streams!Over
<1> HIDE DEF S
<1>5. Streams!FlattenSeq(Streams!Each(ReasoningMap, chunks)) \in Seq(S)
  BY <1>3, <1>4, Streams!FlatType
<1> QED BY <1>2, <1>3, <1>5 DEF AnyText, S

LEMMA ReasoningGrows ==
    ASSUME NEW chunks \in Seq(Chunks), NEW chunk \in Chunks
    PROVE  ReasoningOf(Append(chunks, chunk)) = ReasoningOf(chunks) \o chunk.reasoning
<1> DEFINE more == Append(chunks, chunk)
<1>1. /\ more \in Seq(Chunks)
      /\ Streams!FlattenSeq(Streams!Each(ReasoningMap, more))
           = Streams!FlattenSeq(Streams!Each(ReasoningMap, chunks)) \o ReasoningMap[chunk]
  <2>1. Streams!Maps(ReasoningMap, Chunks, AllSymbols)
    BY ReasoningIs
  <2> QED BY <2>1, ChunksGrow
<1> HIDE DEF more
<1>2. /\ ReasoningOf(more) = Streams!FlattenSeq(Streams!Each(ReasoningMap, more))
      /\ ReasoningOf(chunks) = Streams!FlattenSeq(Streams!Each(ReasoningMap, chunks))
  BY <1>1, ReasoningIs
<1>3. ReasoningMap[chunk] = chunk.reasoning
  BY DEF ReasoningMap
<1> QED BY <1>1, <1>2, <1>3 DEF more

(* What the client has been promised when u has come as well. *)
Promised == \A u \in Streams!Text :
    Promise(client, converter, u) = Found(ContentOf(upstream) \o u)

(* The same of the thinking in the content; and what has come of reasoning. *)
ThoughtOut(w) == Told(Streams!StripThink(w).thinking)
Foretold == \A u \in Streams!Text :
    Insight(client, converter, u) = ThoughtOut(ContentOf(upstream) \o u)
TellsReasons ==
    /\ ~returnThinking => Thoughts(client.blocks) = <<>>
    /\ Part(TRUE, Thoughts(client.blocks)) = Told(ReasoningOf(upstream))

StreamInv ==
    /\ converter \in Converters /\ client \in Clients /\ upstream \in Seq(Chunks)
    /\ phase = "feeding" => /\ Streaming(client, converter) \/ Fresh(client, converter)
                            /\ converter.out = <<>> /\ Promised /\ Foretold /\ TellsReasons
    /\ phase = "ended" =>
         /\ client.phase = "stopped" /\ Answered(converter.finish, Shown)
         /\ ~converter.scanner.inXml => Complete(Found(ContentOf(upstream)), Shown)
         /\ TellsReasons
         /\ Part(FALSE, Thoughts(client.blocks)) = ThoughtOut(ContentOf(upstream))
    /\ phase = "aborted" => client.phase = "failed"
    /\ phase \in {"feeding", "ended", "aborted"}

LEMMA StreamInit == Init => StreamInv
<1> SUFFICES ASSUME Init PROVE StreamInv
  OBVIOUS
<1>1. /\ converter = NewConverter /\ client = NewClient /\ phase = "feeding"
      /\ upstream = <<>>
  BY DEF Init
<1>2. NewConverter \in Converters
  <2>1. <<>> \in Seq({NativeCall}) /\ <<>> \in Seq(Events)
    OBVIOUS
  <2>2. "none" \in Finishes /\ "none" \in Currents /\ 0 \in Nat
    BY DEF Finishes, Currents
  <2> QED BY <2>1, <2>2, NewScanners DEF NewConverter, Converters
<1>3. Fresh(client, converter)
  BY <1>1, <1>2 DEF Fresh, NewConverter
<1>4. upstream \in Seq(Chunks) /\ ContentOf(upstream) = <<>>
  <2>1. upstream \in Seq(Chunks)
    BY <1>1
  <2>2. Streams!FlattenSeq(Streams!Each(ContentMap, <<>>)) = <<>>
    BY Streams!FlatEmpty
  <2> QED BY <1>1, <2>1, <2>2, ContentIs
<1>5. Promised /\ Foretold
  BY <1>3, <1>4, FreshPromise, NoTextAtAll DEF Promised, Foretold, ThoughtOut
<1>6. TellsReasons
  <2>1. ReasoningOf(upstream) = <<>>
    <3>1. Streams!FlattenSeq(Streams!Each(ReasoningMap, <<>>)) = <<>>
      BY Streams!FlatEmpty
    <3> QED BY <1>1, <1>4, <3>1, ReasoningIs
  <2>2. Thoughts(client.blocks) = <<>>
    BY <1>1, ThoughtsEmpty DEF NewClient
  <2>3. Part(TRUE, <<>>) = <<>>
    BY NoTextAtAll, PartsAre
  <2> QED BY <2>1, <2>2, <2>3 DEF TellsReasons, Told
<1> QED BY <1>1, <1>2, <1>3, <1>4, <1>5, <1>6, NewClientIs DEF StreamInv, Fresh

(* What a call has yielded has been received. *)
LEMMA Sent ==
    ASSUME NEW base, NEW c, NEW d, c \in Converters, d = [c EXCEPT !.out = <<>>]
    PROVE  /\ d \in Converters /\ d.out = <<>> /\ Same(c, d)
           /\ Streaming(base, c) => Streaming(View(base, c), d)
           /\ Fresh(base, c) => Fresh(View(base, c), d)
           /\ \A u : Promise(View(base, c), d, u) = Promise(base, c, u)
<1>1. <<>> \in Seq(Events)
  OBVIOUS
<1>2. /\ d \in Converters /\ Same(c, d) /\ d.out = <<>> /\ d.nextIndex = c.nextIndex
      /\ d.currentBlock = c.currentBlock /\ d.hasToolUse = c.hasToolUse
      /\ d.hasVisible = c.hasVisible
  BY <1>1, PutOut
<1>3. \A v : View(v, d) = v
  BY <1>2, ReceiveOne DEF View
<1> DEFINE v == View(base, c)
<1>4. ASSUME Streaming(base, c) PROVE Streaming(v, d)
  <2>1. View(v, d) = v
    BY <1>3
  <2>2. Ready(v, d)
    BY <1>2, <1>4, <2>1 DEF Streaming, Ready
  <2>3. Marked(v, d) = Marked(base, c)
    BY <2>1 DEF Marked
  <2> HIDE DEF v
  <2>4. Visible(v, d)
    BY <1>2, <1>4, <2>3 DEF Streaming, Visible
  <2> QED BY <1>2, <1>4, <2>2, <2>4 DEF Streaming, Same, Small
<1>5. ASSUME Fresh(base, c) PROVE Fresh(v, d)
  <2>1. v = base
    BY <1>5, ReceiveOne DEF Fresh, View
  <2> HIDE DEF v
  <2> QED BY <1>2, <1>5, <2>1 DEF Fresh, Same
<1>6. ASSUME NEW u PROVE Promise(v, d, u) = Promise(base, c, u)
  <2>1. View(v, d) = v
    BY <1>3
  <2>2. Marked(v, d) = Marked(base, c)
    BY <2>1 DEF Marked
  <2> HIDE DEF v
  <2> QED BY <1>2, <2>2 DEF Promise, Due, Same
<1> QED BY <1>2, <1>4, <1>5, <1>6

LEMMA SentThinking ==
    ASSUME NEW base, NEW c, NEW d, c \in Converters, d = [c EXCEPT !.out = <<>>]
    PROVE  /\ \A u : Hidden(d, u) = Hidden(c, u)
           /\ Thinks(View(base, c), d) = Thinks(base, c)
<1>1. Same(c, d) /\ d.out = <<>>
  BY Sent
<1>2. View(View(base, c), d) = View(base, c)
  BY <1>1, ReceiveOne DEF View
<1> QED BY <1>1, <1>2 DEF Hidden, Same, Thinks

LEMMA StreamNext == StreamInv /\ [Next]_vars => StreamInv'
<1> SUFFICES ASSUME StreamInv, [Next]_vars PROVE StreamInv'
  OBVIOUS
<1>1. ASSUME NEW chunk \in Chunks, Feed(chunk) PROVE StreamInv'
  <2> DEFINE fed == Fed(converter, chunk)
  <2>1. /\ converter \in Converters /\ phase = "feeding" /\ converter.out = <<>>
        /\ Streaming(client, converter) \/ Fresh(client, converter)
        /\ upstream \in Seq(Chunks) /\ Promised /\ Foretold /\ TellsReasons
    BY <1>1 DEF StreamInv, Feed
  <2>2. /\ upstream' \in Seq(Chunks)
        /\ ContentOf(upstream') = ContentOf(upstream) \o chunk.content
        /\ ReasoningOf(upstream') = ReasoningOf(upstream) \o chunk.reasoning
    BY <1>1, <2>1, ContentGrows, ReasoningGrows DEF Feed
  <2>3. IF Raises(chunk) THEN Ready(client, fed)
        ELSE /\ Streaming(client, fed) \/ Fresh(client, fed)
             /\ KeepsPromise(client, converter, fed, chunk.content)
             /\ Reasoned(client, fed) = Reasoned(client, converter) \o Told(chunk.reasoning)
    BY <2>1, Feeding
  <2>4. converter' = [fed EXCEPT !.out = <<>>]
    BY <1>1 DEF Feed, Send
  <2>5. CASE Raises(chunk)
    <3>1. client' = Receive(client, fed.out \o <<ErrorEvent>>) /\ phase' = "aborted"
      BY <1>1, <2>5 DEF Feed, Send
    <3> HIDE DEF fed
    <3>2. fed \in Converters /\ fed.out \in Seq(Events) /\ ErrorEvent \in Events
      BY <2>3, <2>5, ConverterIs, EventsAre DEF Ready
    <3> DEFINE one == <<ErrorEvent>>
               v == View(client, fed)
    <3>3. one \in Seq(Events) /\ \A x : Receive(x, one) = Accept(x, ErrorEvent)
      BY <3>2, ReceiveOne
    <3> HIDE DEF one
    <3>4. client' = Accept(v, ErrorEvent)
      <4>1. Receive(client, fed.out \o one) = Receive(Receive(client, fed.out), one)
        BY <3>2, <3>3, ReceiveParts
      <4> QED BY <3>1, <3>3, <4>1 DEF View, one
    <3>5. v \in Clients /\ v.phase = "open"
      BY <2>3, <2>5 DEF Ready, Open
    <3> HIDE DEF v
    <3>6. client' \in Clients /\ client'.phase = "failed"
      BY <3>4, <3>5, OnError
    <3>7. converter' \in Converters
      BY <2>4, <3>2, Sent
    <3> QED BY <2>2, <3>1, <3>6, <3>7 DEF StreamInv
  <2>6. CASE ~Raises(chunk)
    <3>1. client' = View(client, fed) /\ phase' = "feeding" /\ returnThinking' = returnThinking
      BY <1>1, <2>1, <2>6 DEF Feed, Send, View
    <3> HIDE DEF fed
    <3>2. fed \in Converters
      BY <2>3, <2>6 DEF Streaming, Ready, Fresh
    <3>3. /\ converter' \in Converters /\ converter'.out = <<>>
          /\ Streaming(client', converter') \/ Fresh(client', converter')
      BY <2>3, <2>4, <2>6, <3>1, <3>2, Sent
    <3>4. client' \in Clients
      <4>1. CASE Streaming(client', converter')
        <5>1. View(client', converter') \in Clients
          BY <4>1 DEF Streaming, Ready, Open
        <5>2. View(client', converter') = client'
          BY <3>3, ReceiveOne DEF View
        <5> QED BY <5>1, <5>2
      <4>2. CASE Fresh(client', converter')
        BY <4>2, NewClientIs DEF Fresh
      <4> QED BY <3>3, <4>1, <4>2
    <3>5. ASSUME NEW u \in Streams!Text
          PROVE  Promise(client', converter', u) = Found(ContentOf(upstream') \o u)
      <4> DEFINE w == ContentOf(upstream)
                 t == chunk.content
      <4>1. t \in Streams!Text /\ w \in Streams!Text
        BY <2>1, ContentChars, ContentIs
      <4>2. ContentOf(upstream') = w \o t
        BY <2>2
      <4> HIDE DEF w, t
      <4>3. t \o u \in Streams!Text /\ (w \o t) \o u = w \o (t \o u)
        <5>1. t \o u \in Streams!Text
          BY <4>1, Streams!ConcatType
        <5>2. (w \o t) \o u = w \o (t \o u)
          BY <4>1, Streams!Associative
        <5> QED BY <5>1, <5>2
      <4>4. Promise(client', converter', u) = Promise(client, fed, u)
        <5>1. \A x : Promise(View(client, fed), converter', x) = Promise(client, fed, x)
          BY <2>4, <3>2, Sent
        <5>2. client' = View(client, fed)
          BY <3>1
        <5> QED BY <5>1, <5>2
      <4>5. Promise(client, fed, u) = Promise(client, converter, t \o u)
        BY <2>3, <2>6 DEF KeepsPromise, t
      <4>6. Promise(client, converter, t \o u) = Found(w \o (t \o u))
        BY <2>1, <4>3 DEF Promised, w
      <4> QED BY <4>2, <4>3, <4>4, <4>5, <4>6
    <3>6. Promised'
      BY <3>5 DEF Promised
    <3>7. Thinks(client, converter) = Thoughts(client.blocks)
      BY <2>1, ReceiveOne DEF Thinks, View
    <3>8. Thoughts(client'.blocks) = Thinks(client, fed)
      BY <3>1 DEF Thinks
    <3>9. TellsReasons'
      <4> DEFINE p == ReasoningOf(upstream)
                 r == chunk.reasoning
      <4>1. p \in AnyText /\ r \in AnyText
        BY <2>1, ReasoningIs, ContentChars
      <4>2. Part(TRUE, Thinks(client, fed)) = Told(p) \o Told(r)
        BY <2>1, <2>3, <2>6, <3>7 DEF TellsReasons, Reasoned
      <4>3. ReasoningOf(upstream') = p \o r
        BY <2>2
      <4> HIDE DEF p, r
      <4>4. Told(p) \o Told(r) = Told(p \o r)
        BY <4>1, AnyConcat DEF Told
      <4>5. Part(TRUE, Thoughts(client'.blocks)) = Told(ReasoningOf(upstream'))
        BY <3>8, <4>2, <4>3, <4>4
      <4>6. ~returnThinking => Thoughts(client'.blocks) = <<>>
        BY <2>1, <2>3, <2>6, <3>7, <3>8 DEF TellsReasons, KeepsPromise, Discreet
      <4> QED BY <3>1, <4>5, <4>6 DEF TellsReasons, Told
    <3>10. ASSUME NEW u \in Streams!Text
           PROVE  Part(FALSE, Thinks(client', converter')) \o Told(Hidden(converter', u))
                    = ThoughtOut(ContentOf(upstream') \o u)
      <4> DEFINE w == ContentOf(upstream)
                 t == chunk.content
      <4>1. t \in Streams!Text /\ w \in Streams!Text
        BY <2>1, ContentChars, ContentIs
      <4>2. ContentOf(upstream') = w \o t
        BY <2>2
      <4>3. /\ Hidden(converter', u) = Hidden(fed, u)
            /\ Thinks(client', converter') = Thinks(client, fed)
        <5>1. /\ \A x : Hidden(converter', x) = Hidden(fed, x)
              /\ Thinks(View(client, fed), converter') = Thinks(client, fed)
          BY <2>4, <3>2, SentThinking
        <5> QED BY <3>1, <5>1
      <4>4. Insight(client, fed, u) = Insight(client, converter, t \o u)
        BY <2>3, <2>6 DEF KeepsPromise
      <4> HIDE DEF w, t
      <4>5. t \o u \in Streams!Text /\ (w \o t) \o u = w \o (t \o u)
        <5>1. t \o u \in Streams!Text
          BY <4>1, Streams!ConcatType
        <5>2. (w \o t) \o u = w \o (t \o u)
          BY <4>1, Streams!Associative
        <5> QED BY <5>1, <5>2
      <4>6. Insight(client, converter, t \o u) = ThoughtOut(w \o (t \o u))
        BY <2>1, <4>5 DEF Foretold, w
      <4> QED BY <4>2, <4>3, <4>4, <4>5, <4>6 DEF Insight
    <3>11. Foretold'
      BY <3>1, <3>10 DEF Foretold, Insight, ThoughtOut, Told
    <3> QED BY <2>2, <3>1, <3>3, <3>4, <3>6, <3>9, <3>11 DEF StreamInv
  <2> QED BY <2>5, <2>6
<1>2. ASSUME Flush PROVE StreamInv'
  <2> DEFINE d == Flushed(converter)
  <2>1. /\ Streaming(client, converter) \/ Fresh(client, converter)
        /\ upstream \in Seq(Chunks) /\ Promised /\ Foretold /\ TellsReasons
        /\ converter.out = <<>>
    BY <1>2 DEF StreamInv, Flush
  <2>2. /\ converter' = [d EXCEPT !.out = <<>>] /\ client' = View(client, d)
        /\ phase' = "ended" /\ upstream' = upstream /\ returnThinking' = returnThinking
    BY <1>2 DEF Flush, Send, View
  <2>3. /\ d \in Converters /\ d.finish = converter.finish
        /\ View(client, d) \in Clients /\ View(client, d).phase = "stopped"
        /\ Answered(converter.finish, Marked(client, d))
        /\ ~d.scanner.inXml => Complete(Promise(client, converter, <<>>), Marked(client, d))
        /\ Enlightened(client, converter, Thinks(client, d))
    BY <2>1, Flushing
  <2> HIDE DEF d
  <2>4. /\ converter' \in Converters /\ converter'.finish = d.finish
        /\ converter'.scanner = d.scanner
    BY <2>2, <2>3, Sent DEF Same
  <2>5. Shown' = Marked(client, d)
    BY <2>2 DEF Shown, Marked, Marks
  <2>6. Answered(converter'.finish, Shown')
    BY <2>3, <2>4, <2>5
  <2>7. (Answered(converter.finish, Shown))'
    BY <2>6 DEF Answered
  <2>8. Promise(client, converter, <<>>) = Found(ContentOf(upstream))
    <3> DEFINE w == ContentOf(upstream)
    <3>1. w \in Streams!Text
      BY <2>1, ContentIs
    <3>2. Promise(client, converter, <<>>) = Found(w \o <<>>)
      BY <2>1, NoTextAtAll DEF Promised
    <3> HIDE DEF w
    <3> QED BY <3>1, <3>2, NoTextAtAll DEF w
  <2>9. ~converter'.scanner.inXml => Complete(Found(ContentOf(upstream')), Shown')
    BY <2>2, <2>3, <2>4, <2>5, <2>8
  <2>10. (~converter.scanner.inXml => Complete(Found(ContentOf(upstream)), Shown))'
    BY <2>9
  <2>11. /\ Thinks(client, converter) = Thoughts(client.blocks)
         /\ Thoughts(client'.blocks) = Thinks(client, d)
    BY <2>1, <2>2, ReceiveOne DEF Thinks, View
  <2>12. TellsReasons'
    BY <2>1, <2>2, <2>3, <2>11 DEF TellsReasons, Enlightened, Reasoned, Told
  <2>13. Insight(client, converter, <<>>) = ThoughtOut(ContentOf(upstream))
    <3> DEFINE w == ContentOf(upstream)
    <3>1. w \in Streams!Text
      BY <2>1, ContentIs
    <3>2. Insight(client, converter, <<>>) = ThoughtOut(w \o <<>>)
      BY <2>1, NoTextAtAll DEF Foretold
    <3> HIDE DEF w
    <3> QED BY <3>1, <3>2, NoTextAtAll DEF w
  <2>14. Part(FALSE, Thoughts(client'.blocks)) = ThoughtOut(ContentOf(upstream'))
    BY <2>2, <2>3, <2>11, <2>13 DEF Enlightened
  <2>15. (Part(FALSE, Thoughts(client.blocks)) = ThoughtOut(ContentOf(upstream)))'
    BY <2>2, <2>14 DEF ThoughtOut, Told
  <2> QED BY <2>1, <2>2, <2>3, <2>4, <2>7, <2>10, <2>12, <2>15 DEF StreamInv
<1>3. ASSUME BreakOff PROVE StreamInv'
  <2> DEFINE one == <<ErrorEvent>>
  <2>1. /\ converter \in Converters /\ client \in Clients /\ converter.out = <<>>
        /\ Streaming(client, converter) \/ Fresh(client, converter)
        /\ upstream \in Seq(Chunks) /\ upstream' = upstream
    BY <1>3 DEF StreamInv, BreakOff
  <2>2. /\ converter' = [converter EXCEPT !.out = <<>>]
        /\ client' = Receive(client, one) /\ phase' = "aborted"
    BY <1>3 DEF BreakOff, Send
  <2>3. client' = Accept(client, ErrorEvent)
    BY <2>2, ReceiveOne
  <2>4. client.phase \in {"before", "open"}
    <3>1. CASE Streaming(client, converter)
      <4>1. View(client, converter) = client
        BY <2>1, ReceiveOne DEF View
      <4> QED BY <3>1, <4>1 DEF Streaming, Ready, Open
    <3>2. CASE Fresh(client, converter)
      BY <3>2 DEF Fresh, NewClient
    <3> QED BY <2>1, <3>1, <3>2
  <2>5. client' \in Clients /\ client'.phase = "failed"
    BY <2>1, <2>3, <2>4, OnError
  <2>6. converter' \in Converters
    BY <2>1, <2>2, Sent
  <2> QED BY <2>1, <2>2, <2>5, <2>6 DEF StreamInv
<1>4. ASSUME UNCHANGED vars PROVE StreamInv'
  <2>1. /\ converter' = converter /\ client' = client /\ phase' = phase
        /\ upstream' = upstream /\ returnThinking' = returnThinking
    BY <1>4 DEF vars
  <2>2. Shown' = Shown
    BY <2>1 DEF Shown
  <2>3. Promised' <=> Promised
    BY <2>1 DEF Promised
  <2>4. /\ Foretold' <=> Foretold
        /\ TellsReasons' <=> TellsReasons
        /\ (Part(FALSE, Thoughts(client.blocks)) = ThoughtOut(ContentOf(upstream)))'
             <=> Part(FALSE, Thoughts(client.blocks)) = ThoughtOut(ContentOf(upstream))
    BY <2>1 DEF Foretold, TellsReasons, Insight, ThoughtOut, Told
  <2> QED BY <2>1, <2>2, <2>3, <2>4 DEF StreamInv, Streaming, Fresh, Answered, Ready, Visible, Marked, Small
<1> QED BY <1>1, <1>2, <1>3, <1>4 DEF Next

LEMMA StreamInvariant == Spec => []StreamInv
<1> QED BY StreamInit, StreamNext, PTL DEF Spec

(* The events match the contract of the Messages stream, whatever the      *)
(* upstream sends: no event is ever out of place, and a stream that ends   *)
(* is complete, with every block closed (stream.py:3-5).                   *)
THEOREM EventsMatchTheContract == Spec => []WellFormed
<1>1. StreamInv => WellFormed
  <2> SUFFICES ASSUME StreamInv PROVE WellFormed
    OBVIOUS
  <2>1. CASE phase = "feeding"
    <3>1. View(client, converter) = client
      BY <2>1, ReceiveOne DEF StreamInv, View
    <3>2. client.phase \in {"before", "open"}
      BY <2>1, <3>1 DEF StreamInv, Streaming, Ready, Open, Fresh, NewClient
    <3> QED BY <2>1, <3>2 DEF WellFormed
  <2>2. CASE phase # "feeding"
    BY <2>2 DEF StreamInv, WellFormed
  <2> QED BY <2>1, <2>2
<1> QED BY <1>1, StreamInvariant, PTL

(* A message whose upstream ran out of tokens is never empty, and the      *)
(* warning is added to no message that has something to show               *)
(* (stream.py:135-145).                                                    *)
THEOREM TheClientIsTold == Spec => []NeverSilent
<1>1. StreamInv => NeverSilent
  BY DEF StreamInv, NeverSilent, Answered
<1> QED BY <1>1, StreamInvariant, PTL

(* Nothing is lost, added, doubled or out of place: the client of a stream *)
(* that ends outside of a block, and whose text is plain, has the text and *)
(* the tools that the one-shot functions find in the content, or the       *)
(* warning if they find nothing, however the content was cut and whatever  *)
(* reasoning came in between (stream.py:153-187).                          *)
THEOREM ContentIsTold == Spec => []ContentIsExact
<1>1. Content = ContentOf(upstream)
  BY Zenon DEF Content, ContentOf
<1>2. StreamInv => ContentIsExact
  <2> SUFFICES ASSUME StreamInv, phase = "ended", ~converter.scanner.inXml,
                      Plain(StripThink(Content).text)
               PROVE  LET found == Items(ParseComplete(StripThink(Content).text))
                      IN  Shown = found \/ (found = <<>> /\ Shown = <<Warning>>)
    BY Zenon DEF ContentIsExact
  <2>1. Complete(Found(Content), Shown)
    BY <1>1 DEF StreamInv
  <2>2. Found(Content) = Items(ParseComplete(StripThink(Content).text))
    <3>1. Content \in Streams!Text
      BY <1>1, ContentIs DEF StreamInv
    <3> QED BY <3>1, FoundAtOnce
  <2> QED BY <2>1, <2>2 DEF Complete
<1> QED BY <1>2, StreamInvariant, PTL

(* All the thinking of the upstream, its reasoning and what stood between  *)
(* tags in the content, reaches a client that asked for it, each in order  *)
(* and once, however the stream was cut; no other client gets any          *)
(* (stream.py:106-112, 160-169).                                           *)
THEOREM ThinkingIsTold == Spec => []ThinkingIsExact
<1>1. Content = ContentOf(upstream) /\ Reasoning = ReasoningOf(upstream)
  BY Zenon DEF Content, ContentOf, Reasoning, ReasoningOf
<1>2. StreamInv => ThinkingIsExact
  <2> SUFFICES ASSUME StreamInv, phase = "ended" PROVE ThinkingIsExact
    BY DEF ThinkingIsExact
  <2>1. /\ ~returnThinking => TextOf("thinking", client.blocks) = <<>>
        /\ Part(TRUE, TextOf("thinking", client.blocks)) = Told(Reasoning)
        /\ Part(FALSE, TextOf("thinking", client.blocks)) = ThoughtOut(Content)
    BY <1>1 DEF StreamInv, TellsReasons, Thoughts
  <2>2. Streams!StripThink(Content) = StripThink(Content)
    BY SameStrip
  <2> QED BY <2>1, <2>2 DEF ThinkingIsExact, Told, ThoughtOut
<1> QED BY <1>2, StreamInvariant, PTL
=============================================================================
