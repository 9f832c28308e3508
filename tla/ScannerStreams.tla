----------------------------- MODULE ScannerStreams -----------------------------
(***************************************************************************)
(* The two incremental scanners driven by a stream: any text, cut into     *)
(* chunks anywhere, then end of stream.  What they make of it is compared  *)
(* with what their one-shot counterparts make of the whole text.           *)
(***************************************************************************)
EXTENDS ThinkSplitter, XmlScanner

CONSTANTS
    Alphabets,      \* the sets of symbols a stream may be made of
    MaxText,        \* bound on the length of a stream
    MaxChunk        \* bound on the length of a chunk

ASSUME StreamsAssumption == MaxChunk \in Nat

VARIABLES
    text,           \* everything fed so far (history)
    splitter, scanner,
    split, scanned, \* the segments each has yielded (history)
    ended

vars == <<text, splitter, scanner, split, scanned, ended>>

Init ==
    /\ text = <<>>
    /\ splitter = NewSplitter /\ scanner = NewScanner
    /\ split = <<>> /\ scanned = <<>>
    /\ ended = FALSE

Feed(chunk) ==
    LET s == SplitFeed(splitter, chunk)
        x == ScanFeed(scanner, chunk)
    IN  /\ ~ended
        /\ text' = text \o chunk
        /\ splitter' = s.splitter /\ split' = split \o s.segments
        /\ scanner' = x.scanner /\ scanned' = scanned \o x.segments
        /\ UNCHANGED ended

Flush ==
    LET s == SplitFlush(splitter)
        x == ScanFlush(scanner)
    IN  /\ ~ended
        /\ ended' = TRUE
        /\ splitter' = s.splitter /\ split' = split \o s.segments
        /\ scanner' = x.scanner /\ scanned' = scanned \o x.segments
        /\ UNCHANGED text

(* The next chunk keeps the stream within the bounds. *)
Next == Flush \/ \E symbols \in Alphabets, n \in 1..MaxChunk :
    /\ ~ended /\ Len(text) + n <= MaxText /\ Range(text) \subseteq symbols
    /\ \E chunk \in [1..n -> symbols] : Feed(chunk)

Spec == Init /\ [][Next]_vars

-----------------------------------------------------------------------------
(* Properties *)

(* However the stream is cut, the splitter classifies every symbol as the  *)
(* one-shot function does (think_splitter.py:28-52, 72-120).               *)
SplitIsExact == ended =>
    /\ TextOf("text", split) = StripThink(text).text
    /\ TextOf("thinking", split) = StripThink(text).thinking

(* It never yields more than that on the way, so nothing that was sent has *)
(* to be taken back, and holds back less than a tag; so does the scanner   *)
(* outside of a block (think_splitter.py:64-67, xml_parser.py:169-178).    *)
SplitIsTimely ==
    /\ IsPrefix(TextOf("text", split), StripThink(text).text)
    /\ IsPrefix(TextOf("thinking", split), StripThink(text).thinking)
    /\ Len(splitter.buffer) < TagLen
    /\ scanner.inXml \/ Len(scanner.buffer) < TagLen

(* A block that the stream leaves open. *)
OpenBlock(whole) ==
    LET starts == {i \in Occurs(CallsOpen, whole) : Find(CallsClose, Drop(whole, i)) = 0}
    IN  IF starts = {} THEN <<>> ELSE Drop(whole, Min(starts) - 1)

(* What the scanner makes of a stream that comes in one chunk. *)
ScanAtOnce(whole) ==
    LET fed == ScanFeed(NewScanner, whole)
    IN  fed.segments \o ScanFlush(fed.scanner).segments

(* How the stream is cut into chunks makes no difference, and the text and *)
(* the tools of a plain stream are those of parse_complete, in the same    *)
(* order (xml_parser.py:169-178).  Of a block still open at the end the    *)
(* comparison covers what flush() keeps as text; what becomes of the       *)
(* others is the subject of NothingIsLost.                                 *)
ScanIsExact == ended =>
    LET block == OpenBlock(text)
        kept  == block # CallsOpen /\ ParseInvokesFromXml(block) = <<>>
    IN  /\ Items(scanned) = Items(ScanAtOnce(text))
        /\ Plain(text) /\ kept => Items(scanned) = Items(ParseComplete(text))

(* Of a block that is open when the stream ends flush() says "try to parse *)
(* what we have; if that fails, emit as text (don't lose the model's       *)
(* output)" (xml_parser.py:222-223), and a test "no data is silently lost" *)
(* (test_xml_parser.py:334-335): whatever else is done with its invokes,   *)
(* what follows the last of them is the end of the text.                   *)
NothingIsLost == ended =>
    LET block   == OpenBlock(text)
        invokes == {i \in DOMAIN block : block[i] \in Elements}
    IN  IsSuffix(Drop(block, Max({0} \union invokes)), TextOf("text", scanned))

=============================================================================
