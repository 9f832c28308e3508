-------------------------------- MODULE TagText --------------------------------
(***************************************************************************)
(* Text with embedded tags, as the scanners of tools/ see it.  A tag is a  *)
(* sequence of TagLen symbols, so that a chunk boundary can fall inside    *)
(* it; ordinary text is any other symbol.  Half a tag that is not followed *)
(* by the other half is ordinary text.                                     *)
(***************************************************************************)
EXTENDS Integers, SequencesExt

TagLen == 2

ThinkOpen == <<"<th", "ink>">>
ThinkClose == <<"</th", "/ink>">>
CallsOpen == <<"<fun", "calls>">>
CallsClose == <<"</fun", "/calls>">>

(* Complete <invoke> elements, one symbol each: as the prompt asks for it, *)
(* with an argument "&lt;"; with the argument "&amp;lt;"; with its name in *)
(* single quotes; and inside an element of its own.                        *)
Invoke == "<invoke/>"
Escaped == "<invoke>&amp;lt;</invoke>"
Quoted == "<invoke name=''/>"
Nested == "<x><invoke/></x>"
Elements == {Invoke, Escaped, Quoted, Nested}

(* White space is one symbol. *)
Blank == " "
IsBlank(text) == Range(text) \subseteq {Blank}

Take(s, n) == SubSeq(s, 1, n)
Drop(s, n) == SubSeq(s, n + 1, Len(s))

(* Where tag occurs in s. *)
Occurs(tag, s) == {i \in 1..(Len(s) - TagLen + 1) : SubSeq(s, i, i + TagLen - 1) = tag}

(* str.find: the first position of tag in s, 0 when there is none. *)
Find(tag, s) ==
    LET at == Occurs(tag, s)
    IN  IF at = {} THEN 0 ELSE CHOOSE i \in at : \A j \in at : i <= j

(* Mistake: nothing is held back. *)
NothingHeld(buf) == Len(buf)

(* How much of a buffer without a tag cannot be the start of one. *)
SafeLength(buf) == Len(buf) - (TagLen - 1)

(* The passes of a loop over a buffer, each of which cuts off a tag. *)
Passes(buf) == [i \in 1..(Len(buf) \div TagLen) |-> i]

(* A segment is a record; an empty text makes none. *)
Segment(kind, text) == IF text = <<>> THEN <<>> ELSE <<[kind |-> kind, text |-> text]>>

(* The symbols of the segments in order, each with its segment's kind. *)
ItemsOf(segment) == [j \in DOMAIN segment.text |-> <<segment.kind, segment.text[j]>>]
Items(segments) == FlattenSeq([i \in DOMAIN segments |-> ItemsOf(segments[i])])

(* The same of the segments of some kinds only. *)
ItemsIn(kinds, segments) ==
    FlattenSeq([i \in DOMAIN segments |->
        IF segments[i].kind \in kinds THEN ItemsOf(segments[i]) ELSE <<>>])

(* The concatenated text of the segments of one kind. *)
TextOf(kind, segments) ==
    FlattenSeq([i \in DOMAIN segments |->
        IF segments[i].kind = kind THEN segments[i].text ELSE <<>>])

(* The segments of one kind. *)
OfKind(kind, segments) ==
    FlattenSeq([i \in DOMAIN segments |->
        IF segments[i].kind = kind THEN <<segments[i]>> ELSE <<>>])

=============================================================================
