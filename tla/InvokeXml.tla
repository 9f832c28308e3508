------------------------------- MODULE InvokeXml -------------------------------
(***************************************************************************)
(* How tool calls are written as <invoke> elements, as prompt_builder.py   *)
(* does, and read back by xml_parser.py.  A call is a name and one string  *)
(* argument: text over Symbols, in which an entity is two symbols, and so  *)
(* is a tag, so that "&" and "<" occur on their own too.  "<" stands for   *)
(* all the characters other than "&" that are written as entities.         *)
(***************************************************************************)
EXTENDS Integers, SequencesExt

Symbols == {"x", "<", "&", "lt;", "amp;", "i>", "/i>"}
Lt == <<"&", "lt;">>
Amp == <<"&", "amp;">>

Call(name, argument) == [name |-> name, argument |-> argument]

(* Where sub occurs in text. *)
Places(sub, text) ==
    {i \in 1..(Len(text) - Len(sub) + 1) : SubSeq(text, i, i + Len(sub) - 1) = sub}

(* str.replace(): every occurrence of old, which never overlaps itself. *)
Replaced(text, old, new) ==
    LET at == Places(old, text)
    IN  FlattenSeq([i \in DOMAIN text |->
            CASE i \in at -> new
              [] \E k \in at : k < i /\ i < k + Len(old) -> <<>>
              [] OTHER -> <<text[i]>>])

(* Mistake: the ampersands of the entities are escaped again. *)
EscapeLate(text) == Replaced(Replaced(text, <<"<">>, Lt), <<"&">>, Amp)

(* _xml_escape(): "&" before the characters whose entities contain it. *)
Escape(text) == Replaced(Replaced(text, <<"&">>, Amp), <<"<">>, Lt)

(* Mistake: what "&amp;" turns into is taken for an entity. *)
DecodeEarly(raw) == Replaced(Replaced(raw, Amp, <<"&">>), Lt, <<"<">>)

(* _decode_param_value(): "&amp;" last. *)
Decode(raw) == Replaced(Replaced(raw, Lt, <<"<">>), Amp, <<"&">>)

(* _render_invokes(): the block the model is shown, one element per call. *)
RenderInvokes(calls) ==
    [i \in DOMAIN calls |-> [calls[i] EXCEPT !.argument = Escape(@)]]

(* What ElementTree accepts: an "&" begins an entity, a "<" begins a tag,  *)
(* and the tags inside an argument are closed in turn.                     *)
WellFormed(raw) ==
    LET opened == Places(<<"<", "i>">>, raw)
        closed == Places(<<"<", "/i>">>, raw)
        entities == Places(Lt, raw) \union Places(Amp, raw)
    IN  /\ \A i \in DOMAIN raw :
              raw[i] \in {"&", "<"} => i \in entities \union opened \union closed
        /\ Cardinality(opened) = Cardinality(closed)
        /\ \A i \in closed : Cardinality(closed \cap 1..i) <= Cardinality(opened \cap 1..i)

(* The text of an element up to its first child, entities decoded. *)
ElementText(raw) ==
    LET child == SelectInSeq(raw, LAMBDA s : s = "<")
        text  == IF child = 0 THEN raw ELSE SubSeq(raw, 1, child - 1)
    IN  Replaced(Replaced(text, Lt, <<"<">>), Amp, <<"&">>)

(* _parse_invokes_from_xml(): ElementTree decodes the text, and then it is *)
(* decoded again; one argument it rejects sends the whole block to the     *)
(* regular expression, which takes everything between the tags.  complete  *)
(* tells whether the block still has its opening tag: without it, as the   *)
(* incremental scanner passes it on, it is never well-formed.              *)
ParseBlock(block, complete) ==
    LET strict == complete /\ \A i \in DOMAIN block : WellFormed(block[i].argument)
    IN  [i \in DOMAIN block |-> [block[i] EXCEPT !.argument =
            Decode(IF strict THEN ElementText(@) ELSE @)]]

=============================================================================
