----------------------------- MODULE ScannerProofs -----------------------------
(***************************************************************************)
(* For any text, cut into chunks in any way: the think splitter agrees     *)
(* with strip_think_complete, the scanner of tool calls with itself on the *)
(* uncut text and, if that is plain, with parse_complete, and neither      *)
(* holds back a whole tag.  The argument is about what may still come:     *)
(* whatever follows, what a one-shot function makes of the whole is what   *)
(* was yielded, followed by what it would make of the buffer and the rest  *)
(* from the mode the scanner is in.  No induction over the text is needed  *)
(* for that, only over the passes of a loop.                               *)
(***************************************************************************)
EXTENDS ScannerStreams, FiniteSetTheorems, TLAPS

Symbols == (UNION Alphabets) \union Elements
             \union {"<th", "ink>", "</th", "/ink>", "<fun", "calls>", "</fun", "/calls>"}
Text == Seq(Symbols)

CutTags == INSTANCE FoldTheorems WITH Op <- CutTag
CutBlocks == INSTANCE FoldTheorems WITH Op <- CutBlock
-----------------------------------------------------------------------------
(* Text *)

(* The tag is in s at position i. *)
At(tag, s, i) == i \in 1..(Len(s) - 1) /\ s[i] = tag[1] /\ s[i + 1] = tag[2]

LEMMA TakeType ==
    ASSUME NEW s \in Text, NEW n \in 0..Len(s)
    PROVE  /\ Take(s, n) \in Text /\ Len(Take(s, n)) = n
           /\ \A i \in 1..n : Take(s, n)[i] = s[i]
BY DEF Text, Take

LEMMA DropType ==
    ASSUME NEW s \in Text, NEW n \in 0..Len(s)
    PROVE  /\ Drop(s, n) \in Text /\ Len(Drop(s, n)) = Len(s) - n
           /\ \A i \in 1..(Len(s) - n) : Drop(s, n)[i] = s[n + i]
BY DEF Text, Drop

LEMMA ConcatType ==
    ASSUME NEW s \in Text, NEW t \in Text
    PROVE  /\ s \o t \in Text /\ Len(s \o t) = Len(s) + Len(t)
           /\ \A i \in 1..Len(s) : (s \o t)[i] = s[i]
           /\ \A i \in 1..Len(t) : (s \o t)[Len(s) + i] = t[i]
BY DEF Text

LEMMA SameText ==
    ASSUME NEW s \in Text, NEW t \in Text, Len(s) = Len(t), \A i \in 1..Len(s) : s[i] = t[i]
    PROVE  s = t
BY DEF Text

LEMMA AssociativeIn ==
    ASSUME NEW S PROVE \A s, t, u \in Seq(S) : (s \o t) \o u = s \o (t \o u)
OBVIOUS

LEMMA EmptyIn ==
    ASSUME NEW S PROVE <<>> \in Seq(S) /\ \A s \in Seq(S) : s \o <<>> = s /\ <<>> \o s = s
OBVIOUS

LEMMA Associative == \A s, t, u \in Text : (s \o t) \o u = s \o (t \o u)
BY AssociativeIn DEF Text

LEMMA EmptyText == <<>> \in Text /\ \A s \in Text : s \o <<>> = s /\ <<>> \o s = s
BY EmptyIn DEF Text

LEMMA TakeDrop ==
    ASSUME NEW s \in Text, NEW n \in 0..Len(s)
    PROVE  Take(s, n) \o Drop(s, n) = s
<1> DEFINE a == Take(s, n)
           b == Drop(s, n)
<1>1. /\ a \in Text /\ Len(a) = n /\ \A i \in 1..n : a[i] = s[i]
      /\ b \in Text /\ Len(b) = Len(s) - n /\ \A i \in 1..(Len(s) - n) : b[i] = s[n + i]
  BY TakeType, DropType
<1> HIDE DEF a, b
<1>2. /\ a \o b \in Text /\ Len(a \o b) = Len(s) /\ Len(s) \in Nat
      /\ \A i \in 1..n : (a \o b)[i] = a[i]
      /\ \A i \in 1..(Len(s) - n) : (a \o b)[n + i] = b[i]
  BY <1>1, ConcatType DEF Text
<1>3. ASSUME NEW i \in 1..Len(s) PROVE (a \o b)[i] = s[i]
  <2>1. CASE i <= n
    BY <1>1, <1>2, <2>1
  <2>2. CASE i > n
    <3> DEFINE j == i - n
    <3>1. j \in 1..(Len(s) - n) /\ n + j = i
      BY <1>2, <2>2
    <3> HIDE DEF j
    <3>2. (a \o b)[n + j] = b[j] /\ b[j] = s[n + j]
      BY <1>1, <1>2, <3>1
    <3> QED BY <3>1, <3>2
  <2> QED BY <1>2, <2>1, <2>2
<1>4. a \o b = s
  BY <1>2, <1>3, SameText
<1> QED BY <1>4 DEF a, b

LEMMA TakeOfConcat ==
    ASSUME NEW s \in Text, NEW t \in Text, NEW n \in 0..Len(s)
    PROVE  Take(s \o t, n) = Take(s, n)
BY DEF Text, Take

LEMMA DropOfConcat ==
    ASSUME NEW s \in Text, NEW t \in Text, NEW n \in 0..Len(s)
    PROVE  Drop(s \o t, n) = Drop(s, n) \o t
<1> DEFINE st == s \o t
           a  == Drop(st, n)
           b  == Drop(s, n)
<1>1. /\ st \in Text /\ Len(st) = Len(s) + Len(t) /\ Len(s) \in Nat /\ Len(t) \in Nat
      /\ \A i \in 1..Len(s) : st[i] = s[i]
      /\ \A i \in 1..Len(t) : st[Len(s) + i] = t[i]
  BY ConcatType DEF Text
<1> HIDE DEF st
<1>2. /\ a \in Text /\ Len(a) = Len(st) - n /\ \A i \in 1..(Len(st) - n) : a[i] = st[n + i]
      /\ b \in Text /\ Len(b) = Len(s) - n /\ \A i \in 1..(Len(s) - n) : b[i] = s[n + i]
  <2>1. n \in 0..Len(st)
    BY <1>1
  <2>2. a \in Text /\ Len(a) = Len(st) - n /\ \A i \in 1..(Len(st) - n) : a[i] = st[n + i]
    BY <1>1, <2>1, DropType
  <2>3. b \in Text /\ Len(b) = Len(s) - n /\ \A i \in 1..(Len(s) - n) : b[i] = s[n + i]
    BY DropType
  <2> QED BY <2>2, <2>3
<1> HIDE DEF a, b
<1>3. /\ b \o t \in Text /\ Len(b \o t) = Len(b) + Len(t)
      /\ \A i \in 1..Len(b) : (b \o t)[i] = b[i]
      /\ \A i \in 1..Len(t) : (b \o t)[Len(b) + i] = t[i]
  BY <1>2, ConcatType
<1>4. Len(a) = Len(b \o t)
  BY <1>1, <1>2, <1>3
<1>5. ASSUME NEW i \in 1..Len(a) PROVE a[i] = (b \o t)[i]
  <2>1. CASE i <= Len(s) - n
    BY <1>1, <1>2, <1>3, <2>1
  <2>2. CASE i > Len(s) - n
    <3> DEFINE j == i - (Len(s) - n)
    <3>1. j \in 1..Len(t) /\ Len(b) + j = i /\ n + i = Len(s) + j /\ i \in 1..(Len(st) - n)
      BY <1>1, <1>2, <2>2
    <3> HIDE DEF j
    <3>2. a[i] = st[Len(s) + j] /\ (b \o t)[i] = t[j]
      BY <1>2, <1>3, <3>1
    <3> QED BY <1>1, <3>1, <3>2
  <2>3. i <= Len(s) - n \/ i > Len(s) - n
    BY <1>1, <1>2
  <2> QED BY <2>1, <2>2, <2>3
<1>6. a = b \o t
  BY <1>2, <1>3, <1>4, <1>5, SameText
<1> QED BY <1>6 DEF a, b, st

LEMMA DropDrop ==
    ASSUME NEW s \in Text, NEW m \in Nat, NEW n \in Nat, m + n <= Len(s)
    PROVE  Drop(Drop(s, m), n) = Drop(s, m + n)
BY DEF Text, Drop

LEMMA TakeTake ==
    ASSUME NEW s \in Text, NEW m \in Nat, NEW n \in Nat, m + n <= Len(s)
    PROVE  Take(s, m + n) = Take(s, m) \o Take(Drop(s, m), n)
BY DEF Text, Take, Drop
-----------------------------------------------------------------------------
(* Finding a tag *)

IsTag(tag) == tag \in Text /\ Len(tag) = 2

LEMMA Tags == IsTag(ThinkOpen) /\ IsTag(ThinkClose) /\ IsTag(CallsOpen) /\ IsTag(CallsClose)
<1>1. ASSUME NEW S, NEW a \in S, NEW b \in S PROVE <<a, b>> \in Seq(S) /\ Len(<<a, b>>) = 2
  OBVIOUS
<1>2. {"<th", "ink>", "</th", "/ink>", "<fun", "calls>", "</fun", "/calls>"} \subseteq Symbols
  BY DEF Symbols
<1> QED BY <1>1, <1>2 DEF IsTag, Text, ThinkOpen, ThinkClose, CallsOpen, CallsClose

LEMMA Slice ==
    ASSUME NEW tag, IsTag(tag), NEW s \in Text, NEW i \in 1..(Len(s) - 1)
    PROVE  SubSeq(s, i, i + 1) = tag <=> s[i] = tag[1] /\ s[i + 1] = tag[2]
<1>1. Len(s) \in Nat /\ i + 1 \in 1..Len(s) /\ i \in 1..Len(s) /\ (i + 1) - i + 1 = 2
  BY DEF Text
<1> DEFINE u == SubSeq(s, i, i + 1)
<1>2. u \in Text /\ Len(u) = 2 /\ u[1] = s[i] /\ u[2] = s[i + 1]
  BY <1>1 DEF Text
<1> HIDE DEF u
<1>3. u = tag <=> \A k \in 1..2 : u[k] = tag[k]
  BY <1>2, SameText DEF IsTag
<1> QED BY <1>2, <1>3 DEF u

(* What find() returns. *)
LEMMA FindWhere ==
    ASSUME NEW tag, IsTag(tag), NEW s \in Text
    PROVE  /\ Find(tag, s) \in Nat
           /\ Find(tag, s) = 0 => \A i \in Nat : ~At(tag, s, i)
           /\ Find(tag, s) > 0 => /\ At(tag, s, Find(tag, s))
                                  /\ \A i \in Nat : i < Find(tag, s) => ~At(tag, s, i)
<1> DEFINE at == {i \in 1..(Len(s) - TagLen + 1) : SubSeq(s, i, i + TagLen - 1) = tag}
<1>1. at = {i \in 1..(Len(s) - 1) : SubSeq(s, i, i + 1) = tag} /\ at \in SUBSET Nat
  BY DEF TagLen, Text
<1>2. \A i : i \in at <=> At(tag, s, i)
  BY <1>1, Slice DEF At
<1>3. Find(tag, s) = IF at = {} THEN 0 ELSE CHOOSE i \in at : \A j \in at : i <= j
  BY Zenon DEF Find, Occurs
<1> HIDE DEF at
<1>4. CASE at = {}
  BY <1>2, <1>3, <1>4
<1>5. CASE at # {}
  <2>1. \E i \in at : \A j \in at : i <= j
    BY <1>1, <1>5, CutTags!LeastElement
  <2>2. Find(tag, s) \in at /\ \A j \in at : Find(tag, s) <= j
    BY <1>3, <1>5, <2>1
  <2>3. Find(tag, s) \in Nat /\ Find(tag, s) > 0
    BY <1>1, <1>2, <2>2 DEF At, Text
  <2> QED BY <1>2, <2>2, <2>3
<1> QED BY <1>4, <1>5

LEMMA FindIs ==
    ASSUME NEW tag, IsTag(tag), NEW s \in Text, NEW n \in Nat,
           \A i \in Nat : i < n => ~At(tag, s, i)
    PROVE  /\ At(tag, s, n) => Find(tag, s) = n
           /\ (\A i \in Nat : ~At(tag, s, i)) => Find(tag, s) = 0
BY FindWhere

(* A tag that was found has its place, whatever follows. *)
LEMMA FindBounds ==
    ASSUME NEW tag, IsTag(tag), NEW s \in Text, Find(tag, s) > 0
    PROVE  /\ Find(tag, s) \in 1..(Len(s) - 1) /\ Len(s) \in Nat
           /\ Find(tag, s) - 1 \in 0..Len(s) /\ Find(tag, s) + 1 \in 0..Len(s)
BY FindWhere DEF At, Text

LEMMA FindExtends ==
    ASSUME NEW tag, IsTag(tag), NEW s \in Text, NEW t \in Text, Find(tag, s) > 0
    PROVE  Find(tag, s \o t) = Find(tag, s)
<1> DEFINE n == Find(tag, s)
<1>1. n \in Nat /\ At(tag, s, n) /\ \A i \in Nat : i < n => ~At(tag, s, i)
  BY FindWhere
<1> HIDE DEF n
<1>2. /\ s \o t \in Text /\ Len(s \o t) = Len(s) + Len(t) /\ Len(s) \in Nat /\ Len(t) \in Nat
      /\ \A i \in 1..Len(s) : (s \o t)[i] = s[i]
  BY ConcatType DEF Text
<1>3. \A i \in 1..(Len(s) - 1) : At(tag, s \o t, i) <=> At(tag, s, i)
  BY <1>2 DEF At
<1>4. At(tag, s \o t, n) /\ \A i \in Nat : i < n => ~At(tag, s \o t, i)
  BY <1>1, <1>2, <1>3 DEF At
<1>5. Find(tag, s \o t) = n
  BY <1>1, <1>2, <1>4, FindIs
<1> QED BY <1>5 DEF n

(* What is cut off before a tag makes no difference but for the position. *)
LEMMA FindShift ==
    ASSUME NEW tag, IsTag(tag), NEW s \in Text, NEW k \in 0..Len(s),
           \A i \in 1..k : ~At(tag, s, i)
    PROVE  Find(tag, s) = IF Find(tag, Drop(s, k)) = 0 THEN 0 ELSE k + Find(tag, Drop(s, k))
<1> DEFINE d == Drop(s, k)
           n == Find(tag, d)
<1>1. /\ d \in Text /\ Len(d) = Len(s) - k /\ Len(s) \in Nat
      /\ \A i \in 1..(Len(s) - k) : d[i] = s[k + i]
  BY DropType DEF Text
<1> HIDE DEF d
<1>2. \A i \in Nat : At(tag, s, k + i) /\ i > 0 => At(tag, d, i)
  BY <1>1 DEF At
<1>3. \A i \in Nat : At(tag, d, i) => At(tag, s, k + i)
  BY <1>1 DEF At
<1>4. n \in Nat
  BY <1>1, FindWhere
<1>5. CASE n = 0
  <2>1. \A i \in Nat : ~At(tag, d, i)
    BY <1>1, <1>5, FindWhere
  <2>2. ASSUME NEW i \in Nat, At(tag, s, i) PROVE FALSE
    <3>1. i > k
      BY <2>2 DEF At
    <3>2. i - k \in Nat /\ i - k > 0 /\ k + (i - k) = i
      BY <1>1, <3>1
    <3> QED BY <1>2, <2>1, <2>2, <3>2
  <2>3. Find(tag, s) = 0
    BY <2>2, FindIs
  <2> QED BY <1>5, <2>3 DEF d
<1>6. CASE n > 0
  <2>1. At(tag, d, n) /\ \A i \in Nat : i < n => ~At(tag, d, i)
    BY <1>1, <1>6, FindWhere
  <2> HIDE DEF n
  <2>2. At(tag, s, k + n) /\ k + n \in Nat
    BY <1>1, <1>3, <1>4, <2>1
  <2>3. ASSUME NEW i \in Nat, i < k + n, At(tag, s, i) PROVE FALSE
    <3>1. i > k
      BY <2>3 DEF At
    <3>2. i - k \in Nat /\ i - k > 0 /\ k + (i - k) = i /\ i - k < n
      BY <1>1, <1>4, <2>3, <3>1
    <3> QED BY <1>2, <2>1, <2>3, <3>2
  <2>4. Find(tag, s) = k + n
    BY <2>2, <2>3, FindIs
  <2> QED BY <1>4, <1>6, <2>4 DEF d, n
<1> QED BY <1>4, <1>5, <1>6

(* Text without a tag begins none but at its end. *)
LEMMA NoneBegins ==
    ASSUME NEW tag, IsTag(tag), NEW s \in Text, NEW t \in Text, Find(tag, s) = 0
    PROVE  \A i \in 1..(Len(s) - 1) : ~At(tag, s \o t, i)
<1>1. \A i \in Nat : ~At(tag, s, i)
  BY FindWhere
<1>2. /\ Len(s) \in Nat /\ \A i \in 1..Len(s) : (s \o t)[i] = s[i]
  BY ConcatType DEF Text
<1> QED BY <1>1, <1>2 DEF At
-----------------------------------------------------------------------------
(* strip_think_complete *)

Seen == [rest : Text, text : Text, thinking : Text]

Opened(w) == Find(ThinkOpen, w)
Inside(w) == Drop(w, Opened(w) + 1)
Closed(w) == Find(ThinkClose, Inside(w))
HasBlock(w) == Opened(w) # 0 /\ Closed(w) # 0

(* What follows the first block of w. *)
Remainder(w) == Drop(Inside(w), Closed(w) + 1)

Start(w) == [rest |-> w, text |-> <<>>, thinking |-> <<>>]

LEMMA PassesType ==
    ASSUME NEW w \in Text
    PROVE  Passes(w) \in Seq(Nat) /\ Len(Passes(w)) = Len(w) \div 2
BY DEF Passes, TagLen, Text

LEMMA OpenedType ==
    ASSUME NEW w \in Text
    PROVE  /\ Opened(w) \in Nat
           /\ Opened(w) # 0 => /\ Opened(w) - 1 \in 0..Len(w) /\ Opened(w) + 1 \in 0..Len(w)
                               /\ Inside(w) \in Text
                               /\ Len(Inside(w)) = Len(w) - Opened(w) - 1
                               /\ Closed(w) \in Nat
<1>1. Opened(w) \in Nat
  BY Tags, FindWhere DEF Opened
<1>2. ASSUME Opened(w) # 0
      PROVE  /\ Opened(w) - 1 \in 0..Len(w) /\ Opened(w) + 1 \in 0..Len(w)
             /\ Inside(w) \in Text /\ Len(Inside(w)) = Len(w) - Opened(w) - 1
             /\ Closed(w) \in Nat
  <2>1. Opened(w) - 1 \in 0..Len(w) /\ Opened(w) + 1 \in 0..Len(w) /\ Len(w) \in Nat
    BY <1>1, <1>2, Tags, FindBounds DEF Opened
  <2>2. Inside(w) \in Text /\ Len(Inside(w)) = Len(w) - (Opened(w) + 1)
    BY <2>1, DropType DEF Inside
  <2>3. Closed(w) \in Nat
    BY <2>2, Tags, FindWhere DEF Closed
  <2> QED BY <1>1, <2>1, <2>2, <2>3
<1> QED BY <1>1, <1>2

LEMMA BlockType ==
    ASSUME NEW w \in Text, HasBlock(w)
    PROVE  /\ Take(w, Opened(w) - 1) \in Text
           /\ Take(Inside(w), Closed(w) - 1) \in Text
           /\ Remainder(w) \in Text /\ Len(Remainder(w)) + 4 <= Len(w)
<1>1. /\ Opened(w) \in Nat /\ Opened(w) - 1 \in 0..Len(w)
      /\ Inside(w) \in Text /\ Len(Inside(w)) = Len(w) - Opened(w) - 1 /\ Closed(w) \in Nat
  BY OpenedType DEF HasBlock
<1>2. /\ Closed(w) - 1 \in 0..Len(Inside(w)) /\ Closed(w) + 1 \in 0..Len(Inside(w))
  BY <1>1, Tags, FindBounds DEF HasBlock, Closed
<1>3. Remainder(w) \in Text /\ Len(Remainder(w)) = Len(Inside(w)) - (Closed(w) + 1)
  BY <1>1, <1>2, DropType DEF Remainder
<1>4. Take(w, Opened(w) - 1) \in Text /\ Take(Inside(w), Closed(w) - 1) \in Text
  BY <1>1, <1>2, TakeType
<1>5. Opened(w) >= 1 /\ Closed(w) >= 1 /\ Len(w) \in Nat
  BY <1>1 DEF HasBlock, Text
<1> QED BY <1>1, <1>3, <1>4, <1>5

(* What a pass does. *)
LEMMA CutBlockIs ==
    ASSUME NEW seen \in Seen, NEW pass
    PROVE  CutBlock(seen, pass) =
             IF HasBlock(seen.rest)
             THEN [rest     |-> Remainder(seen.rest),
                   text     |-> seen.text \o Take(seen.rest, Opened(seen.rest) - 1),
                   thinking |-> seen.thinking \o Take(Inside(seen.rest), Closed(seen.rest) - 1)]
             ELSE seen
<1> DEFINE w == seen.rest
<1>1. w \in Text /\ Opened(w) \in Nat
  BY OpenedType DEF Seen
<1>2. Drop(w, Opened(w) + TagLen - 1) = Inside(w)
  <2>1. Opened(w) + TagLen - 1 = Opened(w) + 1
    BY <1>1 DEF TagLen
  <2> QED BY <2>1 DEF Inside
<1>3. CASE HasBlock(w)
  <2>1. Closed(w) + TagLen - 1 = Closed(w) + 1
    BY <1>1, <1>3, OpenedType DEF TagLen, HasBlock
  <2> QED BY <1>2, <1>3, <2>1 DEF CutBlock, HasBlock, Opened, Closed, Remainder
<1>4. CASE ~HasBlock(w)
  BY <1>2, <1>4 DEF CutBlock, HasBlock, Opened, Closed
<1> QED BY <1>3, <1>4

LEMMA CutBlockType ==
    ASSUME NEW seen \in Seen, NEW pass
    PROVE  /\ CutBlock(seen, pass) \in Seen
           /\ HasBlock(seen.rest) => Len(CutBlock(seen, pass).rest) + 2 <= Len(seen.rest)
           /\ ~HasBlock(seen.rest) => CutBlock(seen, pass) = seen
<1>1. seen.rest \in Text /\ seen.text \in Text /\ seen.thinking \in Text
  BY DEF Seen
<1>2. CASE HasBlock(seen.rest)
  <2>1. /\ Take(seen.rest, Opened(seen.rest) - 1) \in Text
        /\ Take(Inside(seen.rest), Closed(seen.rest) - 1) \in Text
        /\ Remainder(seen.rest) \in Text /\ Len(Remainder(seen.rest)) + 4 <= Len(seen.rest)
    BY <1>1, <1>2, BlockType
  <2>2. /\ seen.text \o Take(seen.rest, Opened(seen.rest) - 1) \in Text
        /\ seen.thinking \o Take(Inside(seen.rest), Closed(seen.rest) - 1) \in Text
    BY <1>1, <2>1, ConcatType
  <2>3. CutBlock(seen, pass) \in Seen /\ CutBlock(seen, pass).rest = Remainder(seen.rest)
    <3> DEFINE x == seen.text \o Take(seen.rest, Opened(seen.rest) - 1)
               y == seen.thinking \o Take(Inside(seen.rest), Closed(seen.rest) - 1)
    <3>1. CutBlock(seen, pass) = [rest |-> Remainder(seen.rest), text |-> x, thinking |-> y]
      BY <1>2, CutBlockIs
    <3>2. x \in Text /\ y \in Text
      BY <2>2
    <3> HIDE DEF x, y
    <3> QED BY <2>1, <3>1, <3>2 DEF Seen
  <2>4. Len(Remainder(seen.rest)) \in Nat /\ Len(seen.rest) \in Nat
    BY <1>1, <2>1 DEF Text
  <2> QED BY <1>2, <2>1, <2>3, <2>4
<1>3. CASE ~HasBlock(seen.rest)
  BY <1>3, CutBlockIs
<1> QED BY <1>2, <1>3

(* The loop goes on until there is no whole block left. *)
LEMMA BlocksEnd ==
    ASSUME NEW w \in Text
    PROVE  /\ CutBlocks!Fold(Start(w), Passes(w)) \in Seen
           /\ ~HasBlock(CutBlocks!Fold(Start(w), Passes(w)).rest)
<1> DEFINE D == {x \in Seen : ~HasBlock(x.rest)}
           size == [x \in Seen |-> Len(x.rest)]
<1>1. Start(w) \in Seen /\ size \in [Seen -> Nat] /\ size[Start(w)] = Len(w) /\ Len(w) \in Nat
  BY EmptyText DEF Start, Seen, Text
<1>2. Passes(w) \in Seq(Nat) /\ size[Start(w)] < 2 * (Len(Passes(w)) + 1)
  BY <1>1, PassesType
<1>3. CutBlocks!Keeps(Seen, Nat) /\ CutBlocks!Stops(D, Seen, Nat)
  BY CutBlockType DEF CutBlocks!Keeps, CutBlocks!Stops
<1>4. CutBlocks!Shrinks(size, D, Seen, Nat)
  <2>1. ASSUME NEW x \in Seen, size[x] < 2 PROVE x \in D
    <3>1. x.rest \in Text /\ Len(x.rest) < 2
      BY <2>1 DEF Seen
    <3>2. ~HasBlock(x.rest)
      <4>1. ASSUME HasBlock(x.rest) PROVE FALSE
        <5>1. Len(Remainder(x.rest)) + 4 <= Len(x.rest) /\ Len(Remainder(x.rest)) \in Nat
              /\ Len(x.rest) \in Nat
          BY <3>1, <4>1, BlockType DEF Text
        <5> QED BY <3>1, <5>1
      <4> QED BY <4>1
    <3> QED BY <3>2
  <2>2. ASSUME NEW x \in Seen, NEW y \in Nat, x \notin D
        PROVE  size[CutBlock(x, y)] + 2 <= size[x]
    BY <2>2, CutBlockType
  <2> QED BY <2>1, <2>2 DEF CutBlocks!Shrinks
<1>5. CutBlocks!Fold(Start(w), Passes(w)) \in Seen /\ CutBlocks!Fold(Start(w), Passes(w)) \in D
  <2> HIDE DEF D, size
  <2> QED BY <1>1, <1>2, <1>3, <1>4, CutBlocks!LoopEnds
<1> QED BY <1>5

(* The last pass. *)
EndOf(rest) == IF Opened(rest) = 0 THEN Len(rest) ELSE Opened(rest) - 1
LastPass(seen) ==
    [text     |-> seen.text \o Take(seen.rest, EndOf(seen.rest)),
     thinking |-> seen.thinking \o Drop(seen.rest, EndOf(seen.rest) + TagLen)]

LEMMA StripByFold ==
    ASSUME NEW w
    PROVE  StripThink(w) = LastPass(CutBlocks!Fold(Start(w), Passes(w)))
<1>1. \A base, seq : CutBlocks!Fold(base, seq) = FoldLeft(CutBlock, base, seq)
  BY Zenon DEF CutBlocks!Fold, FoldLeft, CutBlocks!MapThenFoldSet,
               MapThenFoldSet, CutBlocks!Highest, Max
<1> QED BY <1>1, Zenon DEF StripThink, Start, LastPass, EndOf, Opened

(* What the loop makes of text without a whole block. *)
LEMMA StripUnblocked ==
    ASSUME NEW w \in Text, ~HasBlock(w)
    PROVE  StripThink(w) = IF Opened(w) = 0 THEN [text |-> w, thinking |-> <<>>]
                           ELSE [text |-> Take(w, Opened(w) - 1), thinking |-> Inside(w)]
<1>1. Start(w) \in Seen /\ Start(w) \in {Start(w)} /\ Passes(w) \in Seq(Nat)
  BY EmptyText, PassesType DEF Start, Seen
<1>2. CutBlocks!Keeps({Start(w)}, Nat)
  BY <1>1, CutBlockType DEF CutBlocks!Keeps, Start
<1>3. CutBlocks!Fold(Start(w), Passes(w)) \in {Start(w)}
  BY <1>1, <1>2, CutBlocks!FoldInSet
<1> DEFINE end == EndOf(w)
<1>4. StripThink(w) = [text |-> <<>> \o Take(w, end), thinking |-> <<>> \o Drop(w, end + TagLen)]
  <2>1. StripThink(w) = LastPass(Start(w))
    BY <1>3, StripByFold
  <2> QED BY <2>1 DEF LastPass, Start
<1>5. CASE Opened(w) = 0
  <2>1. Take(w, Len(w)) = w /\ Drop(w, Len(w) + TagLen) = <<>>
    BY DEF Take, Drop, TagLen, Text
  <2> QED BY <1>4, <1>5, <2>1, EmptyText DEF EndOf
<1>6. CASE Opened(w) # 0
  <2>1. Opened(w) - 1 + TagLen = Opened(w) + 1
    BY OpenedType DEF TagLen
  <2>2. Take(w, Opened(w) - 1) \in Text /\ Inside(w) \in Text
    BY <1>6, OpenedType, TakeType
  <2>3. Drop(w, Opened(w) - 1 + TagLen) = Inside(w)
    BY <2>1 DEF Inside
  <2> QED BY <1>4, <1>6, <2>2, <2>3, EmptyText DEF EndOf
<1> QED BY <1>5, <1>6

LEMMA LastType ==
    ASSUME NEW rest \in Text
    PROVE  Take(rest, EndOf(rest)) \in Text /\ Drop(rest, EndOf(rest) + TagLen) \in Text
<1>1. Len(rest) \in Nat
  BY DEF Text
<1>2. CASE Opened(rest) = 0
  <2>1. EndOf(rest) = Len(rest) /\ Len(rest) \in 0..Len(rest)
    BY <1>1, <1>2 DEF EndOf
  <2>2. Drop(rest, Len(rest) + TagLen) = <<>>
    BY <1>1 DEF Drop, TagLen, Text
  <2> QED BY <2>1, <2>2, TakeType, EmptyText
<1>3. CASE Opened(rest) # 0
  <2>1. EndOf(rest) = Opened(rest) - 1 /\ EndOf(rest) + TagLen = Opened(rest) + 1
    BY <1>3, OpenedType DEF EndOf, TagLen
  <2>2. Opened(rest) - 1 \in 0..Len(rest) /\ Inside(rest) \in Text
    BY <1>3, OpenedType
  <2> QED BY <2>1, <2>2, TakeType DEF Inside
<1> QED BY <1>2, <1>3

LEMMA StripType ==
    ASSUME NEW w \in Text
    PROVE  StripThink(w) \in [text : Text, thinking : Text]
<1> DEFINE seen == CutBlocks!Fold(Start(w), Passes(w))
           more == Take(seen.rest, EndOf(seen.rest))
           last == Drop(seen.rest, EndOf(seen.rest) + TagLen)
<1>1. seen.rest \in Text /\ seen.text \in Text /\ seen.thinking \in Text
  BY BlocksEnd DEF Seen
<1>2. StripThink(w) = [text |-> seen.text \o more, thinking |-> seen.thinking \o last]
  BY StripByFold DEF LastPass
<1>3. seen.text \o more \in Text /\ seen.thinking \o last \in Text
  <2> HIDE DEF seen
  <2>1. more \in Text /\ last \in Text
    BY <1>1, LastType
  <2> HIDE DEF more, last
  <2> QED BY <1>1, <2>1, ConcatType
<1> HIDE DEF seen, more, last
<1> QED BY <1>2, <1>3

(* The first pass of several. *)
LEMMA StripBlock ==
    ASSUME NEW w \in Text, HasBlock(w)
    PROVE  StripThink(w) =
             [text |-> Take(w, Opened(w) - 1) \o StripThink(Remainder(w)).text,
              thinking |-> Take(Inside(w), Closed(w) - 1) \o StripThink(Remainder(w)).thinking]
<1> DEFINE a == Take(w, Opened(w) - 1)
           b == Take(Inside(w), Closed(w) - 1)
           rest == Remainder(w)
           D == {x \in Seen : ~HasBlock(x.rest)}
           image == [x \in Seen |-> [rest |-> x.rest, text |-> a \o x.text,
                                     thinking |-> b \o x.thinking]]
           seen == CutBlocks!Fold(Start(rest), Passes(rest))
<1>1. a \in Text /\ b \in Text /\ rest \in Text /\ Len(rest) + 4 <= Len(w)
  BY BlockType
<1>2. Start(w) \in Seen /\ Start(rest) \in Seen
  BY <1>1, EmptyText DEF Start, Seen
<1>3. seen \in Seen /\ seen \in D
  BY <1>1, BlocksEnd
<1>4. CutBlocks!Leads(Start(w), image[Start(rest)], Nat)
  <2> SUFFICES ASSUME NEW y \in Nat PROVE CutBlock(Start(w), y) = image[Start(rest)]
    BY DEF CutBlocks!Leads
  <2>1. CutBlock(Start(w), y) = [rest |-> rest, text |-> <<>> \o a, thinking |-> <<>> \o b]
    BY <1>2, CutBlockIs DEF Start
  <2>2. image[Start(rest)] = [rest |-> rest, text |-> a \o <<>>, thinking |-> b \o <<>>]
    BY <1>2 DEF Start
  <2>3. <<>> \o a = a \o <<>> /\ <<>> \o b = b \o <<>>
    BY <1>1, EmptyText
  <2> QED BY <2>1, <2>2, <2>3
<1>5. /\ Passes(w) \in Seq(Nat) /\ Passes(rest) \in Seq(Nat)
      /\ Len(Passes(w)) > Len(Passes(rest))
  <2>1. Len(w) \in Nat /\ Len(rest) \in Nat /\ Len(rest) + 4 <= Len(w)
    BY <1>1 DEF Text
  <2>2. Len(w) \div 2 > Len(rest) \div 2
    BY <2>1
  <2> QED BY <1>1, <2>2, PassesType
<1>6. CutBlocks!Keeps(Seen, Nat) /\ CutBlocks!Stops(D, Seen, Nat)
  BY CutBlockType DEF CutBlocks!Keeps, CutBlocks!Stops
<1>7. CutBlocks!Commutes(image, Seen, Nat)
  <2>1. ASSUME NEW x \in Seen, NEW y \in Nat, NEW z \in Nat
        PROVE  CutBlock(image[x], z) = image[CutBlock(x, y)]
    <3> DEFINE t == x.text
               u == x.thinking
               c == Take(x.rest, Opened(x.rest) - 1)
               d == Take(Inside(x.rest), Closed(x.rest) - 1)
               z1 == CutBlock(x, y)
    <3>1. x.rest \in Text /\ t \in Text /\ u \in Text
      BY DEF Seen
    <3>2. \A v \in Seen : image[v] = [rest |-> v.rest, text |-> a \o v.text,
                                      thinking |-> b \o v.thinking]
      OBVIOUS
    <3> HIDE DEF image, a, b
    <3>3. image[x] = [rest |-> x.rest, text |-> a \o t, thinking |-> b \o u]
      BY <3>2
    <3>4. image[x] \in Seen /\ image[x].rest = x.rest
      <4>1. a \o t \in Text /\ b \o u \in Text
        <5> HIDE DEF t, u
        <5> QED BY <1>1, <3>1, ConcatType
      <4> DEFINE p == a \o t
                 q == b \o u
      <4> HIDE DEF p, q
      <4>2. image[x] = [rest |-> x.rest, text |-> p, thinking |-> q] /\ p \in Text /\ q \in Text
        BY <3>3, <4>1 DEF p, q
      <4> QED BY <3>1, <4>2 DEF Seen
    <3>5. CASE ~HasBlock(x.rest)
      <4>1. CutBlock(image[x], z) = image[x]
        BY <3>4, <3>5, CutBlockType
      <4>2. CutBlock(x, y) = x
        BY <3>5, CutBlockType
      <4> QED BY <4>1, <4>2
    <3>6. CASE HasBlock(x.rest)
      <4>1. c \in Text /\ d \in Text
        BY <3>1, <3>6, BlockType
      <4>2. CutBlock(image[x], z) = [rest |-> Remainder(x.rest), text |-> (a \o t) \o c,
                                     thinking |-> (b \o u) \o d]
        BY <3>3, <3>4, <3>6, CutBlockIs
      <4>3. z1 = [rest |-> Remainder(x.rest), text |-> t \o c, thinking |-> u \o d] /\ z1 \in Seen
        BY <3>6, CutBlockIs, CutBlockType
      <4> HIDE DEF t, u, c, d, z1
      <4>4. image[z1] = [rest |-> Remainder(x.rest), text |-> a \o (t \o c),
                         thinking |-> b \o (u \o d)]
        BY <3>2, <4>3
      <4>5. (a \o t) \o c = a \o (t \o c)
        <5>1. a \in Text /\ t \in Text /\ c \in Text
          BY <1>1, <3>1, <4>1
        <5> QED BY <5>1, Associative
      <4>6. (b \o u) \o d = b \o (u \o d)
        <5>1. b \in Text /\ u \in Text /\ d \in Text
          BY <1>1, <3>1, <4>1
        <5> QED BY <5>1, Associative
      <4>7. CutBlock(image[x], z) = image[z1]
        BY <4>2, <4>4, <4>5, <4>6
      <4> QED BY <4>7 DEF z1
    <3> QED BY <3>5, <3>6
  <2> QED BY <2>1 DEF CutBlocks!Commutes
<1>8. CutBlocks!Fold(Start(w), Passes(w)) = image[seen]
  <2> DEFINE ps == Passes(w)
             qs == Passes(rest)
             base == Start(w)
             base2 == Start(rest)
  <2> HIDE DEF image, D, rest
  <2>1. base2 \in Seen /\ CutBlocks!Fold(base2, qs) \in D /\ ps \in Seq(Nat) /\ qs \in Seq(Nat)
        /\ Len(ps) > Len(qs) /\ CutBlocks!Leads(base, image[base2], Nat)
    BY <1>2, <1>3, <1>4, <1>5
  <2> HIDE DEF ps, qs, base, base2
  <2>2. CutBlocks!Fold(base, ps) = image[CutBlocks!Fold(base2, qs)]
    <3>1. CutBlocks!Unrolls(base, base2, image, D, Seen, Nat) /\ CutBlocks!Longer(ps, qs, Nat)
      BY <1>6, <1>7, <2>1 DEF CutBlocks!Unrolls, CutBlocks!Longer
    <3> QED BY <2>1, <3>1, CutBlocks!LoopUnrolls
  <2> QED BY <2>2 DEF ps, qs, base, base2
<1>9. StripThink(rest) = LastPass(seen) /\ StripThink(w) = LastPass(image[seen])
  BY <1>8, StripByFold
<1>10. image[seen] = [rest |-> seen.rest, text |-> a \o seen.text, thinking |-> b \o seen.thinking]
  BY <1>3
<1> DEFINE more == Take(seen.rest, EndOf(seen.rest))
           last == Drop(seen.rest, EndOf(seen.rest) + TagLen)
<1>11. StripThink(rest) = [text |-> seen.text \o more, thinking |-> seen.thinking \o last]
  BY <1>9 DEF LastPass
<1>12. StripThink(w) = [text |-> (a \o seen.text) \o more, thinking |-> (b \o seen.thinking) \o last]
  <2> HIDE DEF image
  <2> QED BY <1>9, <1>10 DEF LastPass
<1>13. more \in Text /\ last \in Text
  BY <1>3, LastType DEF Seen
<1>14. seen.text \in Text /\ seen.thinking \in Text
  BY <1>3 DEF Seen
<1> HIDE DEF a, b, more, last, seen, rest
<1>15. /\ (a \o seen.text) \o more = a \o (seen.text \o more)
       /\ (b \o seen.thinking) \o last = b \o (seen.thinking \o last)
  <2> DEFINE t == seen.text
             u == seen.thinking
  <2>1. t \in Text /\ u \in Text
    BY <1>14
  <2> HIDE DEF t, u
  <2>2. (a \o t) \o more = a \o (t \o more)
    <3>1. a \in Text /\ t \in Text /\ more \in Text
      BY <1>1, <1>13, <2>1
    <3> QED BY <3>1, Associative
  <2>3. (b \o u) \o last = b \o (u \o last)
    <3>1. b \in Text /\ u \in Text /\ last \in Text
      BY <1>1, <1>13, <2>1
    <3> QED BY <3>1, Associative
  <2> QED BY <2>2, <2>3 DEF t, u
<1>16. StripThink(w) = [text |-> a \o StripThink(rest).text,
                        thinking |-> b \o StripThink(rest).thinking]
  BY <1>11, <1>12, <1>15
<1> QED BY <1>16 DEF a, b, rest
-----------------------------------------------------------------------------
(* What segments say: the text and the thinking of each, joined.           *)

Kinds == {"text", "thinking", "tool_use"}
Segments == Seq([kind : Kinds, text : Text \ {<<>>}])

Join(s, t) == s \o t
Joins == INSTANCE FoldTheorems WITH Op <- Join

LEMMA SegmentsAre ==
    ASSUME NEW s \in Segments
    PROVE  /\ Len(s) \in Nat /\ DOMAIN s = 1..Len(s)
           /\ \A i \in 1..Len(s) : s[i].kind \in Kinds /\ s[i].text \in Text
<1> DEFINE S == [kind : Kinds, text : Text \ {<<>>}]
<1>1. s \in Seq(S)
  BY DEF Segments
<1>2. \A x \in S : x.kind \in Kinds /\ x.text \in Text
  OBVIOUS
<1> HIDE DEF S
<1>3. Len(s) \in Nat /\ DOMAIN s = 1..Len(s) /\ \A i \in 1..Len(s) : s[i] \in S
  BY <1>1
<1> QED BY <1>2, <1>3

LEMMA SameSeq ==
    ASSUME NEW S, NEW s \in Seq(S), NEW t \in Seq(S), NEW u \in Seq(S),
           Len(u) = Len(s) + Len(t),
           \A i \in 1..Len(s) : u[i] = s[i], \A i \in 1..Len(t) : u[Len(s) + i] = t[i]
    PROVE  u = s \o t
<1>1. Len(s) \in Nat /\ Len(t) \in Nat
  OBVIOUS
<1> DEFINE v == s \o t
<1>2. /\ v \in Seq(S) /\ Len(v) = Len(u)
      /\ \A i \in 1..Len(s) : v[i] = s[i]
      /\ \A i \in 1..Len(t) : v[Len(s) + i] = t[i]
  OBVIOUS
<1> HIDE DEF v
<1>3. ASSUME NEW i \in 1..Len(u) PROVE v[i] = u[i]
  <2>1. CASE i <= Len(s)
    BY <1>1, <1>2, <2>1
  <2>2. CASE i > Len(s)
    <3> DEFINE j == i - Len(s)
    <3>1. j \in 1..Len(t) /\ Len(s) + j = i
      BY <1>1, <2>2
    <3> HIDE DEF j
    <3>2. v[Len(s) + j] = u[Len(s) + j]
      BY <1>2, <3>1
    <3> QED BY <3>1, <3>2
  <2> QED BY <1>1, <2>1, <2>2
<1>4. u = v
  BY <1>2, <1>3
<1> QED BY <1>4 DEF v

LEMMA FlattenIs ==
    ASSUME NEW S, NEW seqs \in Seq(Seq(S))
    PROVE  FlattenSeq(seqs) = Joins!Fold(<<>>, seqs)
<1> DEFINE n == Len(seqs)
<1>1. PICK r : Joins!Runs(r, <<>>, seqs)
  BY Joins!FoldRuns
<1>2. n \in Nat /\ \A k \in 1..n : seqs[k] \in Seq(S)
  BY Joins!Positions
<1>3. /\ r[0] = <<>> /\ \A k \in 1..n : r[k] = Join(r[k - 1], seqs[k])
      /\ Joins!Fold(<<>>, seqs) = r[n]
  BY <1>1 DEF Joins!Runs
<1>4. CASE n = 0
  BY <1>3, <1>4 DEF FlattenSeq
<1>5. CASE n # 0
  <2> DEFINE Next1(f) == [i \in 1..n |-> IF i = 1 THEN seqs[i] ELSE Join(f[i - 1], seqs[i])]
             flat == CHOOSE f : f = Next1(f)
             g == [i \in 1..n |-> r[i]]
  <2>1. FlattenSeq(seqs) = flat[n]
    BY <1>5 DEF FlattenSeq, Join
  <2>2. g = Next1(g)
    <3>1. ASSUME NEW i \in 1..n PROVE r[i] = IF i = 1 THEN seqs[i] ELSE Join(g[i - 1], seqs[i])
      <4>1. CASE i = 1
        <5>1. r[1] = Join(r[0], seqs[1]) /\ seqs[1] \in Seq(S)
          <6>1. 1 \in 1..n /\ 1 - 1 = 0
            BY <1>2, <1>5
          <6> QED BY <1>2, <1>3, <6>1
        <5> QED BY <1>3, <4>1, <5>1, EmptyIn DEF Join
      <4>2. CASE i # 1
        <5>1. i - 1 \in 1..n
          BY <1>2, <4>2
        <5> QED BY <1>3, <4>2, <5>1
      <4> QED BY <4>1, <4>2
    <3> QED BY <3>1
  <2>3. flat = Next1(flat)
    BY <2>2
  <2>4. \A i \in 1..n : flat[i] = IF i = 1 THEN seqs[i] ELSE Join(flat[i - 1], seqs[i])
    <3> HIDE DEF flat
    <3> QED BY <2>3
  <2> HIDE DEF flat, g
  <2> DEFINE T == {k \in 0..n : k > 0 => flat[k] = r[k]}
  <2>5. 0 \in T
    BY <1>2
  <2>6. ASSUME NEW k \in 1..n, k - 1 \in T PROVE k \in T
    <3>1. k \in 0..n /\ r[k] = Join(r[k - 1], seqs[k]) /\ seqs[k] \in Seq(S)
      BY <1>2, <1>3
    <3>2. CASE k = 1
      <4>1. r[1] = Join(<<>>, seqs[1]) /\ flat[1] = seqs[1]
        BY <1>3, <2>4, <3>2
      <4> QED BY <3>1, <3>2, <4>1, EmptyIn DEF Join
    <3>3. CASE k # 1
      <4>1. k - 1 > 0 /\ flat[k] = Join(flat[k - 1], seqs[k])
        BY <1>2, <2>4, <3>3
      <4>2. flat[k - 1] = r[k - 1]
        BY <2>6, <4>1
      <4> QED BY <3>1, <4>1, <4>2
    <3> QED BY <3>2, <3>3
  <2>7. \A k \in 0..n : k \in T
    <3> HIDE DEF T, n
    <3> QED BY <1>2, <2>5, <2>6, Joins!BoundedInduction
  <2>8. flat[n] = r[n]
    BY <1>2, <1>5, <2>7
  <2> QED BY <1>3, <2>1, <2>8
<1> QED BY <1>4, <1>5

LEMMA JoinType ==
    ASSUME NEW S, NEW s \in Seq(Seq(S))
    PROVE  Joins!Fold(<<>>, s) \in Seq(S)
<1>1. Joins!Keeps(Seq(S), Seq(S))
  BY DEF Joins!Keeps, Join
<1>2. <<>> \in Seq(S)
  OBVIOUS
<1> QED BY <1>1, <1>2, Joins!FoldInSet

LEMMA JoinConcat ==
    ASSUME NEW S, NEW s \in Seq(Seq(S)), NEW t \in Seq(Seq(S))
    PROVE  Joins!Fold(<<>>, s \o t) = Joins!Fold(<<>>, s) \o Joins!Fold(<<>>, t)
<1> DEFINE mid == Joins!Fold(<<>>, s)
           image == [x \in Seq(S) |-> mid \o x]
<1>1. Joins!Keeps(Seq(S), Seq(S))
  BY DEF Joins!Keeps, Join
<1>2. mid \in Seq(S) /\ Joins!Fold(<<>>, t) \in Seq(S)
  BY <1>1, JoinType
<1>3. Joins!Fold(<<>>, s \o t) = Joins!Fold(mid, t)
  BY Joins!FoldConcat
<1> HIDE DEF mid
<1>4. Joins!Moves(image, Seq(S), Seq(S))
  <2>1. ASSUME NEW x \in Seq(S), NEW y \in Seq(S) PROVE Join(image[x], y) = image[Join(x, y)]
    <3>1. x \o y \in Seq(S)
      OBVIOUS
    <3>2. image[x] = mid \o x /\ image[x \o y] = mid \o (x \o y)
      BY <3>1
    <3>3. (mid \o x) \o y = mid \o (x \o y)
      <4>1. mid \in Seq(S) /\ x \in Seq(S) /\ y \in Seq(S)
        BY <1>2
      <4>2. \A a, b, c \in Seq(S) : (a \o b) \o c = a \o (b \o c)
        OBVIOUS
      <4> QED BY <4>1, <4>2
    <3> QED BY <3>2, <3>3 DEF Join
  <2> QED BY <2>1 DEF Joins!Moves
<1>5. image[<<>>] = mid
  BY <1>2, EmptyIn
<1>6. Joins!Fold(image[<<>>], t) = image[Joins!Fold(<<>>, t)]
  <2> DEFINE T == Seq(S)
  <2>1. t \in Seq(T) /\ <<>> \in T /\ Joins!Keeps(T, T) /\ Joins!Moves(image, T, T)
    BY <1>1, <1>4, EmptyIn
  <2> HIDE DEF image, T
  <2> QED BY <2>1, Joins!FoldMoves
<1>7. image[Joins!Fold(<<>>, t)] = mid \o Joins!Fold(<<>>, t)
  BY <1>2
<1> QED BY <1>3, <1>5, <1>6, <1>7 DEF mid

(* A sequence of sequences, each of which is g of an element of s. *)
Each(g, s) == [i \in DOMAIN s |-> g[s[i]]]
Maps(g, A, S) == g \in [A -> Seq(S)]
Over(s, A) == s \in Seq(A)

LEMMA EachType ==
    ASSUME NEW A, NEW S, NEW g, Maps(g, A, S), NEW s, Over(s, A)
    PROVE  /\ Each(g, s) \in Seq(Seq(S)) /\ Len(Each(g, s)) = Len(s)
           /\ \A i \in 1..Len(s) : Each(g, s)[i] = g[s[i]]
<1>1. Len(s) \in Nat /\ DOMAIN s = 1..Len(s) /\ \A i \in 1..Len(s) : s[i] \in A
  BY DEF Over
<1>2. \A i \in 1..Len(s) : g[s[i]] \in Seq(S)
  BY <1>1 DEF Maps
<1>3. Each(g, s) = [i \in 1..Len(s) |-> g[s[i]]]
  BY <1>1 DEF Each
<1> DEFINE T == Seq(S)
<1>4. ASSUME NEW n \in Nat, NEW h \in [1..n -> T] PROVE h \in Seq(T) /\ Len(h) = n
  <2> HIDE DEF T
  <2> QED OBVIOUS
<1>5. Each(g, s) \in [1..Len(s) -> T]
  BY <1>2, <1>3
<1>6. Each(g, s) \in Seq(T) /\ Len(Each(g, s)) = Len(s)
  <2> HIDE DEF T
  <2> QED BY <1>1, <1>4, <1>5
<1> QED BY <1>3, <1>6

LEMMA FlatType ==
    ASSUME NEW A, NEW S, NEW g, Maps(g, A, S), NEW s, Over(s, A)
    PROVE  FlattenSeq(Each(g, s)) \in Seq(S)
<1>1. Each(g, s) \in Seq(Seq(S))
  BY EachType
<1> QED BY <1>1, FlattenIs, JoinType

LEMMA FlatConcat ==
    ASSUME NEW A, NEW S, NEW g, Maps(g, A, S), NEW s, Over(s, A), NEW t, Over(t, A)
    PROVE  FlattenSeq(Each(g, s \o t)) = FlattenSeq(Each(g, s)) \o FlattenSeq(Each(g, t))
<1> DEFINE a == Each(g, s)
           b == Each(g, t)
           st == s \o t
           c == Each(g, st)
<1>1. /\ Over(st, A) /\ Len(st) = Len(s) + Len(t)
      /\ \A i \in 1..Len(s) : st[i] = s[i]
      /\ \A i \in 1..Len(t) : st[Len(s) + i] = t[i]
  BY DEF Over
<1>2. Len(s) \in Nat /\ Len(t) \in Nat
  BY DEF Over
<1> HIDE DEF st
<1>3. /\ a \in Seq(Seq(S)) /\ Len(a) = Len(s) /\ \A i \in 1..Len(s) : a[i] = g[s[i]]
  BY EachType
<1>4. /\ b \in Seq(Seq(S)) /\ Len(b) = Len(t) /\ \A i \in 1..Len(t) : b[i] = g[t[i]]
  BY EachType
<1>5. /\ c \in Seq(Seq(S)) /\ Len(c) = Len(st) /\ \A i \in 1..Len(st) : c[i] = g[st[i]]
  <2>1. Over(st, A)
    BY <1>1
  <2> QED BY <2>1, EachType
<1> HIDE DEF a, b, c
<1>6. c = a \o b
  <2>1. Len(c) = Len(a) + Len(b)
    BY <1>1, <1>3, <1>4, <1>5
  <2>2. ASSUME NEW i \in 1..Len(a) PROVE c[i] = a[i]
    <3>1. i \in 1..Len(s) /\ i \in 1..Len(st)
      BY <1>1, <1>2, <1>3
    <3>2. c[i] = g[st[i]] /\ st[i] = s[i] /\ a[i] = g[s[i]]
      BY <3>1, <1>1, <1>3, <1>5
    <3> QED BY <3>2
  <2>3. ASSUME NEW i \in 1..Len(b) PROVE c[Len(a) + i] = b[i]
    <3>1. i \in 1..Len(t) /\ Len(s) + i \in 1..Len(st) /\ Len(a) = Len(s)
      BY <1>1, <1>2, <1>3, <1>4
    <3>2. c[Len(s) + i] = g[st[Len(s) + i]] /\ st[Len(s) + i] = t[i] /\ b[i] = g[t[i]]
      BY <3>1, <1>1, <1>4, <1>5
    <3> QED BY <3>1, <3>2
  <2> DEFINE T == Seq(S)
  <2>4. a \in Seq(T) /\ b \in Seq(T) /\ c \in Seq(T)
    BY <1>3, <1>4, <1>5
  <2> HIDE DEF T
  <2>5. a \o b \in Seq(T) /\ Len(a \o b) = Len(a) + Len(b)
        /\ Len(a) \in Nat /\ Len(b) \in Nat
    BY <2>4
  <2>6. \A i \in 1..(Len(a) + Len(b)) : c[i] = (a \o b)[i]
    <3>1. ASSUME NEW i \in 1..(Len(a) + Len(b)) PROVE c[i] = (a \o b)[i]
      <4>1. CASE i \in 1..Len(a)
        BY <4>1, <2>2, <2>4, <2>5
      <4>2. CASE i \notin 1..Len(a)
        <5>1. i - Len(a) \in 1..Len(b) /\ i = Len(a) + (i - Len(a))
          BY <4>2, <2>5
        <5>2. (a \o b)[i] = b[i - Len(a)]
          BY <4>2, <5>1, <2>4, <2>5
        <5>3. c[Len(a) + (i - Len(a))] = b[i - Len(a)]
          BY <5>1, <2>3
        <5> QED BY <5>1, <5>2, <5>3
      <4> QED BY <4>1, <4>2
    <3> QED BY <3>1
  <2>7. \A x, y \in Seq(T) : (Len(x) = Len(y) /\ \A i \in 1..Len(x) : x[i] = y[i]) => x = y
    OBVIOUS
  <2>8. Len(c) = Len(a \o b) /\ \A i \in 1..Len(c) : c[i] = (a \o b)[i]
    BY <2>1, <2>5, <2>6
  <2> QED BY <2>4, <2>5, <2>7, <2>8
<1>7. a \in Seq(Seq(S)) /\ b \in Seq(Seq(S)) /\ a \o b \in Seq(Seq(S))
  BY <1>3, <1>4, <1>5, <1>6
<1>8. /\ FlattenSeq(a) = Joins!Fold(<<>>, a) /\ FlattenSeq(b) = Joins!Fold(<<>>, b)
      /\ FlattenSeq(a \o b) = Joins!Fold(<<>>, a \o b)
  BY <1>7, FlattenIs
<1>9. Joins!Fold(<<>>, a \o b) = Joins!Fold(<<>>, a) \o Joins!Fold(<<>>, b)
  BY <1>7, JoinConcat
<1>10. FlattenSeq(c) = FlattenSeq(a) \o FlattenSeq(b)
  BY <1>6, <1>8, <1>9
<1> QED BY <1>10 DEF a, b, c, st

LEMMA FlatEmpty == ASSUME NEW g PROVE FlattenSeq(Each(g, <<>>)) = <<>>
<1>1. Each(g, <<>>) = <<>> /\ Len(<<>>) = 0
  BY DEF Each
<1> QED BY <1>1 DEF FlattenSeq

LEMMA FlatOne ==
    ASSUME NEW A, NEW S, NEW g, Maps(g, A, S), NEW x \in A
    PROVE  FlattenSeq(Each(g, <<x>>)) = g[x]
<1> DEFINE y == g[x]
<1>1. Each(g, <<x>>) = <<y>>
  BY DEF Each
<1>2. y \in Seq(S)
  BY DEF Maps
<1> HIDE DEF y
<1>3. <<y>> \in Seq(Seq(S))
  <2> DEFINE T == Seq(S)
  <2>1. y \in T
    BY <1>2
  <2>2. <<y>> \in Seq(T)
    <3> HIDE DEF T
    <3> QED BY <2>1
  <2> QED BY <2>2
<1>4. FlattenSeq(<<y>>) = Joins!Fold(<<>>, <<y>>)
  BY <1>3, FlattenIs
<1>5. Joins!Fold(<<>>, <<y>>) = <<>> \o y
  BY Joins!FoldOne DEF Join
<1>6. <<>> \o y = y
  BY <1>2
<1> QED BY <1>1, <1>4, <1>5, <1>6 DEF y

(* A set that has the empty sequence, and with a sequence every longer one *)
(* by an element, has them all.                                            *)
Grows(P, A) == \A s \in Seq(A) : \A x \in A : s \in P => s \o <<x>> \in P

LEMMA SeqsBuilt ==
    ASSUME NEW A, NEW P, <<>> \in P, Grows(P, A)
    PROVE  \A s \in Seq(A) : s \in P
<1> DEFINE T == {n \in Nat : \A s \in Seq(A) : Len(s) = n => s \in P}
<1>1. 0 \in T
  <2>1. \A s \in Seq(A) : Len(s) = 0 => s = <<>>
    OBVIOUS
  <2> QED BY <2>1
<1>2. \A n \in Nat : n \in T => n + 1 \in T
  <2> SUFFICES ASSUME NEW n \in Nat, n \in T, NEW s \in Seq(A), Len(s) = n + 1 PROVE s \in P
    OBVIOUS
  <2> DEFINE r == SubSeq(s, 1, n)
             x == s[n + 1]
  <2>1. r \in Seq(A) /\ Len(r) = n /\ x \in A
    OBVIOUS
  <2>2. s = r \o <<x>>
    OBVIOUS
  <2>3. r \in P
    BY <2>1
  <2> HIDE DEF r, x, T
  <2> QED BY <2>1, <2>2, <2>3 DEF Grows
<1> HIDE DEF T
<1>3. \A n \in Nat : n \in T
  BY <1>1, <1>2, Joins!Induction
<1> QED BY <1>3 DEF T

(* Two sequences of a kind, made of a sequence, that grow with it alike.   *)
Composes(g, h, k, A) == \A x \in A : FlattenSeq(Each(h, g[x])) = k[x]

LEMMA FlatFlat ==
    ASSUME NEW A, NEW B, NEW S, NEW g, Maps(g, A, B), NEW h, Maps(h, B, S), NEW k, Maps(k, A, S),
           Composes(g, h, k, A)
    PROVE  \A s \in Seq(A) : FlattenSeq(Each(h, FlattenSeq(Each(g, s)))) = FlattenSeq(Each(k, s))
<1> DEFINE P == {s \in Seq(A) : FlattenSeq(Each(h, FlattenSeq(Each(g, s)))) = FlattenSeq(Each(k, s))}
<1>1. <<>> \in P
  <2>1. <<>> \in Seq(A)
    OBVIOUS
  <2> QED BY <2>1, FlatEmpty
<1>2. ASSUME NEW s \in Seq(A), NEW x \in A, s \in P PROVE s \o <<x>> \in P
  <2> DEFINE one == <<x>>
             gs == FlattenSeq(Each(g, s))
             gx == FlattenSeq(Each(g, one))
             both == s \o one
  <2>1. one \in Seq(A) /\ both \in Seq(A) /\ Over(s, A) /\ Over(one, A)
    BY DEF Over
  <2>2. gx = g[x] /\ FlattenSeq(Each(k, one)) = k[x]
    BY FlatOne
  <2> HIDE DEF one
  <2>3. Over(gs, B) /\ Over(gx, B)
    BY <2>1, FlatType DEF Over
  <2>4. FlattenSeq(Each(g, both)) = gs \o gx
    BY <2>1, FlatConcat
  <2>5. FlattenSeq(Each(k, both)) = FlattenSeq(Each(k, s)) \o FlattenSeq(Each(k, one))
    BY <2>1, FlatConcat
  <2> HIDE DEF gs, gx, both
  <2>6. FlattenSeq(Each(h, gs \o gx)) = FlattenSeq(Each(h, gs)) \o FlattenSeq(Each(h, gx))
    BY <2>3, FlatConcat
  <2>7. FlattenSeq(Each(h, gx)) = FlattenSeq(Each(k, one))
    BY <2>2 DEF Composes
  <2>8. FlattenSeq(Each(h, gs)) = FlattenSeq(Each(k, s))
    BY <1>2 DEF gs
  <2>9. both \in P
    BY <2>1, <2>4, <2>5, <2>6, <2>7, <2>8
  <2> QED BY <2>9 DEF both, one
<1> HIDE DEF P
<1>3. Grows(P, A)
  BY <1>2 DEF Grows
<1>4. \A s \in Seq(A) : s \in P
  BY <1>1, <1>3, SeqsBuilt
<1> QED BY <1>4 DEF P

(* A map that makes one element of each. *)
Picks(g, f, A, S) == f \in [A -> S] /\ g \in [A -> Seq(S)] /\ \A x \in A : g[x] = <<f[x]>>
Into(f, A, S) == f \in [A -> S]
Joined(u, s, t) ==
    /\ Len(u) = Len(s) + Len(t)
    /\ \A i \in 1..Len(s) : u[i] = s[i]
    /\ \A i \in 1..Len(t) : u[Len(s) + i] = t[i]
Mapped(f, s) == [i \in 1..Len(s) |-> f[s[i]]]

LEMMA JoinedIs ==
    ASSUME NEW S, NEW s, NEW t, NEW u, Over(s, S), Over(t, S), Over(u, S), Joined(u, s, t)
    PROVE  u = s \o t
BY SameSeq DEF Over, Joined

LEMMA MappedType ==
    ASSUME NEW A, NEW S, NEW f, Into(f, A, S), NEW s, Over(s, A)
    PROVE  /\ Over(Mapped(f, s), S) /\ Len(Mapped(f, s)) = Len(s)
           /\ \A i \in 1..Len(s) : Mapped(f, s)[i] = f[s[i]]
<1>1. Len(s) \in Nat /\ \A i \in 1..Len(s) : f[s[i]] \in S
  BY DEF Into, Over
<1> QED BY <1>1 DEF Mapped, Over

AddsOne(both, b, s, x, f) == both = s \o <<x>> /\ b = <<f[x]>>

LEMMA MappedAppend ==
    ASSUME NEW A, NEW S, NEW f, Into(f, A, S), NEW s, Over(s, A), NEW x, x \in A,
           NEW both, NEW b, AddsOne(both, b, s, x, f)
    PROVE  Mapped(f, both) = Mapped(f, s) \o b
<1> DEFINE a == Mapped(f, s)
           c == Mapped(f, both)
<1>1. /\ Over(both, A) /\ Len(both) = Len(s) + 1 /\ Len(s) \in Nat /\ both[Len(s) + 1] = x
      /\ \A i \in 1..Len(s) : both[i] = s[i]
  BY DEF Over, AddsOne
<1>2. Over(b, S) /\ Len(b) = 1 /\ b[1] = f[x]
  BY DEF Over, Into, AddsOne
<1>3. Over(a, S) /\ Len(a) = Len(s) /\ \A i \in 1..Len(s) : a[i] = f[s[i]]
  BY MappedType
<1>4. Over(c, S) /\ Len(c) = Len(both) /\ \A i \in 1..Len(both) : c[i] = f[both[i]]
  BY <1>1, MappedType
<1> HIDE DEF a, c
<1>5. Len(c) = Len(a) + Len(b)
  BY <1>1, <1>2, <1>3, <1>4
<1>6. \A i \in 1..Len(a) : c[i] = a[i]
  BY <1>1, <1>3, <1>4
<1>7. \A i \in 1..Len(b) : c[Len(a) + i] = b[i]
  BY <1>1, <1>2, <1>3, <1>4
<1>8. c = a \o b
  <2>1. Joined(c, a, b)
    BY <1>5, <1>6, <1>7 DEF Joined
  <2> QED BY <1>2, <1>3, <1>4, <2>1, JoinedIs
<1> QED BY <1>8 DEF a, c

LEMMA FlatSingle ==
    ASSUME NEW A, NEW S, NEW f, NEW g, Picks(g, f, A, S)
    PROVE  \A s \in Seq(A) : FlattenSeq(Each(g, s)) = Mapped(f, s)
<1> DEFINE P == {s \in Seq(A) : FlattenSeq(Each(g, s)) = Mapped(f, s)}
<1>1. Maps(g, A, S) /\ Into(f, A, S)
  BY DEF Picks, Maps, Into
<1>2. <<>> \in P
  <2>1. <<>> \in Seq(A) /\ Mapped(f, <<>>) = <<>>
    BY DEF Mapped
  <2> QED BY <2>1, FlatEmpty
<1>3. ASSUME NEW s \in Seq(A), NEW x \in A, s \in P PROVE s \o <<x>> \in P
  <2> DEFINE one == <<x>>
             both == s \o one
  <2>1. one \in Seq(A) /\ both \in Seq(A) /\ Over(s, A) /\ Over(one, A)
    BY DEF Over
  <2>2. FlattenSeq(Each(g, one)) = <<f[x]>>
    <3>1. FlattenSeq(Each(g, one)) = g[x]
      BY <1>1, FlatOne
    <3> QED BY <3>1 DEF Picks
  <2>3. Mapped(f, both) = Mapped(f, s) \o <<f[x]>>
    <3> DEFINE y == <<f[x]>>
    <3>1. Into(f, A, S) /\ Over(s, A) /\ x \in A /\ AddsOne(both, y, s, x, f)
      BY <1>1, <2>1 DEF AddsOne
    <3> HIDE DEF one, both, y
    <3>2. Mapped(f, both) = Mapped(f, s) \o y
      BY <3>1, MappedAppend
    <3> QED BY <3>2 DEF y
  <2> HIDE DEF one
  <2>4. FlattenSeq(Each(g, both)) = FlattenSeq(Each(g, s)) \o FlattenSeq(Each(g, one))
    BY <1>1, <2>1, FlatConcat
  <2>5. FlattenSeq(Each(g, s)) = Mapped(f, s)
    BY <1>3
  <2> HIDE DEF both
  <2>6. both \in P
    BY <2>1, <2>2, <2>3, <2>4, <2>5
  <2> QED BY <2>6 DEF both, one
<1> HIDE DEF P
<1>4. Grows(P, A)
  BY <1>3 DEF Grows
<1>5. \A s \in Seq(A) : s \in P
  BY <1>2, <1>4, SeqsBuilt
<1> QED BY <1>5 DEF P

(* A map that makes nothing of any. *)
Drops(g, A) == \A x \in A : g[x] = <<>>

LEMMA FlatNone ==
    ASSUME NEW A, NEW S, NEW g, Maps(g, A, S), Drops(g, A)
    PROVE  \A s \in Seq(A) : FlattenSeq(Each(g, s)) = <<>>
<1> DEFINE P == {s \in Seq(A) : FlattenSeq(Each(g, s)) = <<>>}
<1>1. <<>> \in P
  <2>1. <<>> \in Seq(A)
    OBVIOUS
  <2> QED BY <2>1, FlatEmpty
<1>2. ASSUME NEW s \in Seq(A), NEW x \in A, s \in P PROVE s \o <<x>> \in P
  <2> DEFINE one == <<x>>
             both == s \o one
  <2>1. both \in Seq(A) /\ Over(s, A) /\ Over(one, A)
    BY DEF Over
  <2>2. FlattenSeq(Each(g, one)) = <<>>
    BY FlatOne DEF Drops
  <2> HIDE DEF one
  <2>3. FlattenSeq(Each(g, both)) = FlattenSeq(Each(g, s)) \o FlattenSeq(Each(g, one))
    BY <2>1, FlatConcat
  <2> HIDE DEF both
  <2>4. FlattenSeq(Each(g, s)) = <<>> /\ <<>> \o <<>> = <<>>
    BY <1>2
  <2>5. both \in P
    BY <2>1, <2>2, <2>3, <2>4
  <2> QED BY <2>5 DEF both, one
<1> HIDE DEF P
<1>3. Grows(P, A)
  BY <1>2 DEF Grows
<1>4. \A s \in Seq(A) : s \in P
  BY <1>1, <1>3, SeqsBuilt
<1> QED BY <1>4 DEF P

SegmentSet == [kind : Kinds, text : Text \ {<<>>}]
Says(kind) == [x \in SegmentSet |-> IF x.kind = kind THEN x.text ELSE <<>>]

LEMMA SaysType == ASSUME NEW kind PROVE Maps(Says(kind), SegmentSet, Symbols)
<1>1. \A x \in SegmentSet : x.text \in Text
  BY DEF SegmentSet
<1>2. <<>> \in Text
  BY EmptyText
<1> QED BY <1>1, <1>2 DEF Says, Text, Maps

LEMMA TextOfIs ==
    ASSUME NEW kind, NEW segments \in Segments
    PROVE  /\ TextOf(kind, segments) = FlattenSeq(Each(Says(kind), segments))
           /\ TextOf(kind, segments) \in Text
<1>1. segments \in Seq(SegmentSet)
  BY DEF Segments, SegmentSet
<1>2. Each(Says(kind), segments)
        = [i \in DOMAIN segments |-> IF segments[i].kind = kind THEN segments[i].text ELSE <<>>]
  <2>1. \A i \in DOMAIN segments : segments[i] \in SegmentSet
    BY <1>1
  <2> QED BY <2>1 DEF Each, Says
<1>3. TextOf(kind, segments) = FlattenSeq(Each(Says(kind), segments))
  BY <1>2, Zenon DEF TextOf
<1>4. FlattenSeq(Each(Says(kind), segments)) \in Seq(Symbols)
  <2>1. Over(segments, SegmentSet)
    BY <1>1 DEF Over
  <2> QED BY <2>1, SaysType, FlatType
<1> QED BY <1>3, <1>4 DEF Text

LEMMA TextOfConcat ==
    ASSUME NEW kind, NEW s \in Segments, NEW t \in Segments
    PROVE  s \o t \in Segments /\ TextOf(kind, s \o t) = TextOf(kind, s) \o TextOf(kind, t)
<1>1. s \o t \in Segments
  BY DEF Segments
<1>2. Over(s, SegmentSet) /\ Over(t, SegmentSet)
  BY DEF Segments, SegmentSet, Over
<1>3. FlattenSeq(Each(Says(kind), s \o t))
        = FlattenSeq(Each(Says(kind), s)) \o FlattenSeq(Each(Says(kind), t))
  BY <1>2, SaysType, FlatConcat
<1> QED BY <1>1, <1>3, TextOfIs

LEMMA TextOfEmpty == ASSUME NEW kind PROVE <<>> \in Segments /\ TextOf(kind, <<>>) = <<>>
<1>1. <<>> \in Segments
  BY DEF Segments
<1> QED BY <1>1, TextOfIs, FlatEmpty

LEMMA TextOfSegment ==
    ASSUME NEW kind, NEW k \in Kinds, NEW u \in Text
    PROVE  /\ Segment(k, u) \in Segments
           /\ TextOf(kind, Segment(k, u)) = IF kind = k THEN u ELSE <<>>
<1>1. CASE u = <<>>
  BY <1>1, TextOfEmpty DEF Segment
<1>2. CASE u # <<>>
  <2> DEFINE seg == [kind |-> k, text |-> u]
  <2>1. seg \in SegmentSet /\ Segment(k, u) = <<seg>>
    BY <1>2 DEF Segment, SegmentSet
  <2>2. Says(kind)[seg] = IF kind = k THEN u ELSE <<>>
    BY <2>1 DEF Says
  <2> HIDE DEF seg
  <2>3. <<seg>> \in Segments
    BY <2>1 DEF Segments, SegmentSet
  <2>4. FlattenSeq(Each(Says(kind), <<seg>>)) = Says(kind)[seg]
    BY <2>1, SaysType, FlatOne
  <2> QED BY <2>1, <2>2, <2>3, <2>4, TextOfIs
<1> QED BY <1>1, <1>2

(* The items of segments: their symbols, each with its segment's kind. *)
AllItems == Seq(Kinds \X Symbols)
ItemsMap == [x \in SegmentSet |-> ItemsOf(x)]

LEMMA ItemsOfType ==
    ASSUME NEW k \in Kinds, NEW u \in Text
    PROVE  /\ ItemsOf([kind |-> k, text |-> u]) = [j \in 1..Len(u) |-> <<k, u[j]>>]
           /\ ItemsOf([kind |-> k, text |-> u]) \in AllItems
           /\ Len(ItemsOf([kind |-> k, text |-> u])) = Len(u)
<1>1. Len(u) \in Nat /\ DOMAIN u = 1..Len(u) /\ \A j \in 1..Len(u) : u[j] \in Symbols
  BY DEF Text
<1>2. ItemsOf([kind |-> k, text |-> u]) = [j \in 1..Len(u) |-> <<k, u[j]>>]
  BY <1>1 DEF ItemsOf
<1>3. \A j \in 1..Len(u) : <<k, u[j]>> \in Kinds \X Symbols
  BY <1>1
<1> QED BY <1>1, <1>2, <1>3 DEF AllItems

LEMMA ItemsMapType == Maps(ItemsMap, SegmentSet, Kinds \X Symbols)
<1>1. ASSUME NEW x \in SegmentSet PROVE ItemsOf(x) \in Seq(Kinds \X Symbols)
  <2>1. x.kind \in Kinds /\ x.text \in Text /\ x = [kind |-> x.kind, text |-> x.text]
    BY DEF SegmentSet
  <2> QED BY <2>1, ItemsOfType DEF AllItems
<1> QED BY <1>1 DEF ItemsMap, Maps

LEMMA ItemsAre ==
    ASSUME NEW segments \in Segments
    PROVE  /\ Items(segments) = FlattenSeq(Each(ItemsMap, segments))
           /\ Items(segments) \in AllItems
<1>1. segments \in Seq(SegmentSet)
  BY DEF Segments, SegmentSet
<1>2. Each(ItemsMap, segments) = [i \in DOMAIN segments |-> ItemsOf(segments[i])]
  <2>1. \A i \in DOMAIN segments : segments[i] \in SegmentSet
    BY <1>1
  <2> QED BY <2>1 DEF Each, ItemsMap
<1>3. Items(segments) = FlattenSeq(Each(ItemsMap, segments))
  BY <1>2, Zenon DEF Items
<1>4. FlattenSeq(Each(ItemsMap, segments)) \in Seq(Kinds \X Symbols)
  <2>1. Over(segments, SegmentSet)
    BY <1>1 DEF Over
  <2> QED BY <2>1, ItemsMapType, FlatType
<1> QED BY <1>3, <1>4 DEF AllItems

LEMMA ItemsConcat ==
    ASSUME NEW s \in Segments, NEW t \in Segments
    PROVE  s \o t \in Segments /\ Items(s \o t) = Items(s) \o Items(t)
<1>1. s \o t \in Segments
  BY TextOfConcat
<1>2. Over(s, SegmentSet) /\ Over(t, SegmentSet)
  BY DEF Segments, SegmentSet, Over
<1>3. FlattenSeq(Each(ItemsMap, s \o t))
        = FlattenSeq(Each(ItemsMap, s)) \o FlattenSeq(Each(ItemsMap, t))
  BY <1>2, ItemsMapType, FlatConcat
<1> QED BY <1>1, <1>3, ItemsAre

LEMMA ItemsEmpty == Items(<<>>) = <<>>
BY TextOfEmpty, ItemsAre, FlatEmpty

LEMMA ItemsSegment ==
    ASSUME NEW k \in Kinds, NEW u \in Text
    PROVE  /\ Segment(k, u) \in Segments
           /\ Items(Segment(k, u)) = [j \in 1..Len(u) |-> <<k, u[j]>>]
<1>1. Segment(k, u) \in Segments
  BY TextOfSegment
<1>2. CASE u = <<>>
  <2>1. Items(Segment(k, u)) = <<>>
    BY <1>2, ItemsEmpty DEF Segment
  <2>2. [j \in 1..Len(u) |-> <<k, u[j]>>] = <<>>
    BY <1>2
  <2> QED BY <1>1, <2>1, <2>2
<1>3. CASE u # <<>>
  <2> DEFINE seg == [kind |-> k, text |-> u]
  <2>1. seg \in SegmentSet /\ Segment(k, u) = <<seg>>
    BY <1>3 DEF Segment, SegmentSet
  <2>2. ItemsMap[seg] = [j \in 1..Len(u) |-> <<k, u[j]>>]
    BY <2>1, ItemsOfType DEF ItemsMap
  <2> HIDE DEF seg
  <2>3. FlattenSeq(Each(ItemsMap, <<seg>>)) = ItemsMap[seg]
    BY <2>1, ItemsMapType, FlatOne
  <2> QED BY <1>1, <2>1, <2>2, <2>3, ItemsAre
<1> QED BY <1>2, <1>3
-----------------------------------------------------------------------------
(* What a text means, from the mode the splitter is in *)

Meanings == [text : Text, thinking : Text]

Nothing == [text |-> <<>>, thinking |-> <<>>]
Add(m, p) == [text |-> m.text \o p.text, thinking |-> m.thinking \o p.thinking]
Piece(inThink, u) == IF inThink THEN [text |-> <<>>, thinking |-> u]
                                ELSE [text |-> u, thinking |-> <<>>]
TagOf(inThink) == IF inThink THEN ThinkClose ELSE ThinkOpen

Meaning(inThink, w) ==
    IF ~inThink THEN StripThink(w)
    ELSE LET n == Find(ThinkClose, w)
         IN  IF n = 0 THEN Piece(TRUE, w)
             ELSE Add(Piece(TRUE, Take(w, n - 1)), StripThink(Drop(w, n + 1)))

Yielded(segments) == [text |-> TextOf("text", segments), thinking |-> TextOf("thinking", segments)]

LEMMA MeaningParts ==
    ASSUME NEW m \in Meanings
    PROVE  /\ m.text \in Text /\ m.thinking \in Text
           /\ m = [text |-> m.text, thinking |-> m.thinking]
BY DEF Meanings

LEMMA MadeOf ==
    ASSUME NEW t \in Text, NEW u \in Text
    PROVE  [text |-> t, thinking |-> u] \in Meanings
BY DEF Meanings

LEMMA AddType == ASSUME NEW m \in Meanings, NEW p \in Meanings PROVE Add(m, p) \in Meanings
<1>1. m.text \o p.text \in Text /\ m.thinking \o p.thinking \in Text
  BY MeaningParts, ConcatType
<1> QED BY <1>1, MadeOf DEF Add

LEMMA AddNothing == \A m \in Meanings : Add(m, Nothing) = m /\ Add(Nothing, m) = m
<1> SUFFICES ASSUME NEW m \in Meanings PROVE Add(m, Nothing) = m /\ Add(Nothing, m) = m
  OBVIOUS
<1> DEFINE t == m.text
           u == m.thinking
<1>1. t \in Text /\ u \in Text /\ m = [text |-> t, thinking |-> u]
  BY MeaningParts
<1>2. /\ Add(m, Nothing) = [text |-> t \o <<>>, thinking |-> u \o <<>>]
      /\ Add(Nothing, m) = [text |-> <<>> \o t, thinking |-> <<>> \o u]
  BY DEF Add, Nothing
<1> HIDE DEF t, u
<1>3. t \o <<>> = t /\ u \o <<>> = u /\ <<>> \o t = t /\ <<>> \o u = u
  BY <1>1, EmptyText
<1> QED BY <1>1, <1>2, <1>3

LEMMA AddAssociative == \A m, p, q \in Meanings : Add(Add(m, p), q) = Add(m, Add(p, q))
<1> SUFFICES ASSUME NEW m \in Meanings, NEW p \in Meanings, NEW q \in Meanings
             PROVE  Add(Add(m, p), q) = Add(m, Add(p, q))
  OBVIOUS
<1>1. /\ m.text \in Text /\ p.text \in Text /\ q.text \in Text
  BY MeaningParts
<1>2. /\ m.thinking \in Text /\ p.thinking \in Text /\ q.thinking \in Text
  BY MeaningParts
<1>3. (m.text \o p.text) \o q.text = m.text \o (p.text \o q.text)
  BY <1>1, Associative
<1>4. (m.thinking \o p.thinking) \o q.thinking = m.thinking \o (p.thinking \o q.thinking)
  BY <1>2, Associative
<1> QED BY <1>3, <1>4 DEF Add

LEMMA PieceType ==
    ASSUME NEW inThink \in BOOLEAN, NEW u \in Text
    PROVE  Piece(inThink, u) \in Meanings /\ Piece(inThink, <<>>) = Nothing
BY EmptyText, MadeOf DEF Piece, Nothing

LEMMA PieceConcat ==
    ASSUME NEW inThink \in BOOLEAN, NEW u \in Text, NEW v \in Text
    PROVE  Piece(inThink, u \o v) = Add(Piece(inThink, u), Piece(inThink, v))
<1>1. <<>> \o <<>> = <<>>
  BY EmptyText
<1> QED BY <1>1 DEF Piece, Add

LEMMA YieldedConcat ==
    ASSUME NEW s \in Segments, NEW t \in Segments
    PROVE  /\ s \o t \in Segments /\ Yielded(s) \in Meanings
           /\ Yielded(s \o t) = Add(Yielded(s), Yielded(t))
<1>1. Yielded(s) \in Meanings
  BY TextOfIs, MadeOf DEF Yielded
<1> QED BY <1>1, TextOfConcat DEF Yielded, Add

LEMMA YieldedSegment ==
    ASSUME NEW inThink \in BOOLEAN, NEW u \in Text
    PROVE  LET k == IF inThink THEN "thinking" ELSE "text"
           IN  Segment(k, u) \in Segments /\ Yielded(Segment(k, u)) = Piece(inThink, u)
<1> DEFINE k == IF inThink THEN "thinking" ELSE "text"
<1>1. k \in Kinds
  BY DEF Kinds
<1>2. /\ Segment(k, u) \in Segments
      /\ TextOf("text", Segment(k, u)) = IF "text" = k THEN u ELSE <<>>
      /\ TextOf("thinking", Segment(k, u)) = IF "thinking" = k THEN u ELSE <<>>
  <2> HIDE DEF k
  <2> QED BY <1>1, TextOfSegment
<1> QED BY <1>2 DEF Yielded, Piece

LEMMA MeaningIs ==
    ASSUME NEW inThink \in BOOLEAN, NEW w, NEW n, n = Find(ThinkClose, w)
    PROVE  /\ ~inThink => Meaning(inThink, w) = StripThink(w)
           /\ inThink /\ n = 0 => Meaning(inThink, w) = Piece(TRUE, w)
           /\ inThink /\ n # 0 =>
                Meaning(inThink, w) = Add(Piece(TRUE, Take(w, n - 1)), StripThink(Drop(w, n + 1)))
BY Zenon DEF Meaning

LEMMA MeaningType ==
    ASSUME NEW inThink \in BOOLEAN, NEW w \in Text
    PROVE  Meaning(inThink, w) \in Meanings
<1>1. CASE ~inThink
  BY <1>1, StripType DEF Meaning, Meanings
<1>2. CASE inThink
  <2> DEFINE n == Find(ThinkClose, w)
  <2>1. n \in Nat
    BY Tags, FindWhere
  <2>2. CASE n = 0
    BY <1>2, <2>2, PieceType DEF Meaning
  <2>3. CASE n > 0
    <3>1. n - 1 \in 0..Len(w) /\ n + 1 \in 0..Len(w)
      BY <2>3, Tags, FindBounds
    <3>2. Take(w, n - 1) \in Text /\ Drop(w, n + 1) \in Text
      BY <3>1, TakeType, DropType
    <3>3. Piece(TRUE, Take(w, n - 1)) \in Meanings
      BY <3>2, PieceType
    <3>4. StripThink(Drop(w, n + 1)) \in Meanings
      BY <3>2, StripType DEF Meanings
    <3>5. Meaning(inThink, w) = Add(Piece(TRUE, Take(w, n - 1)), StripThink(Drop(w, n + 1)))
      <4> HIDE DEF n
      <4>1. n # 0 /\ n = Find(ThinkClose, w)
        BY <2>1, <2>3 DEF n
      <4> QED BY <1>2, <4>1, MeaningIs
    <3> QED BY <3>3, <3>4, <3>5, AddType
  <2> QED BY <2>1, <2>2, <2>3
<1> QED BY <1>1, <1>2

(* At a tag the mode changes. *)
LEMMA MeaningAtTag ==
    ASSUME NEW inThink \in BOOLEAN, NEW w \in Text, NEW n, n = Find(TagOf(inThink), w), n > 0
    PROVE  /\ Take(w, n - 1) \in Text /\ Drop(w, n + 1) \in Text
           /\ Meaning(inThink, w) =
                Add(Piece(inThink, Take(w, n - 1)), Meaning(~inThink, Drop(w, n + 1)))
<1>1. n - 1 \in 0..Len(w) /\ n + 1 \in 0..Len(w)
  BY Tags, FindBounds DEF TagOf
<1>2. Take(w, n - 1) \in Text /\ Drop(w, n + 1) \in Text
  BY <1>1, TakeType, DropType
<1>3. CASE inThink
  <2>1. n # 0 /\ n = Find(ThinkClose, w) /\ (~inThink) \in BOOLEAN
    BY <1>3, <1>1 DEF TagOf
  <2>2. Meaning(inThink, w) = Add(Piece(TRUE, Take(w, n - 1)), StripThink(Drop(w, n + 1)))
    BY <1>3, <2>1, MeaningIs
  <2>3. Meaning(~inThink, Drop(w, n + 1)) = StripThink(Drop(w, n + 1))
    BY <1>3, Zenon DEF Meaning
  <2>4. Piece(inThink, Take(w, n - 1)) = Piece(TRUE, Take(w, n - 1))
    BY <1>3, Zenon DEF Piece
  <2> QED BY <1>2, <2>2, <2>3, <2>4
<1>4. CASE ~inThink
  <2> DEFINE a == Take(w, n - 1)
             v == Drop(w, n + 1)
  <2>1. n = Opened(w) /\ v = Inside(w) /\ Opened(w) # 0
    BY <1>4 DEF TagOf, Opened, Inside
  <2>2. Meaning(inThink, w) = StripThink(w) /\ Piece(inThink, a) = [text |-> a, thinking |-> <<>>]
    BY <1>4 DEF Meaning, Piece
  <2>3. CASE HasBlock(w)
    <3> DEFINE b == Take(v, Closed(w) - 1)
               m == StripThink(Remainder(w))
    <3>1. b \in Text /\ Remainder(w) \in Text
      BY <2>1, <2>3, BlockType
    <3>2. StripThink(w) = [text |-> a \o m.text, thinking |-> b \o m.thinking]
      BY <2>1, <2>3, StripBlock
    <3>3. Meaning(~inThink, v) = Add(Piece(TRUE, b), m)
      BY <1>4, <2>1, <2>3 DEF Meaning, HasBlock, Closed, Remainder
    <3>4. m.text \in Text /\ m.thinking \in Text /\ a \in Text
      BY <1>2, <3>1, StripType, MeaningParts DEF Meanings
    <3> DEFINE t == m.text
               u == m.thinking
               bu == b \o u
    <3>5. Meaning(~inThink, v) = [text |-> <<>> \o t, thinking |-> bu]
      BY <3>3 DEF Add, Piece
    <3>6. t \in Text /\ u \in Text /\ b \in Text /\ bu \in Text
      <4>1. t \in Text /\ u \in Text /\ b \in Text
        BY <3>1, <3>4
      <4> HIDE DEF t, u, b
      <4> QED BY <4>1, ConcatType
    <3>7. StripThink(w) = [text |-> a \o t, thinking |-> bu]
      BY <3>2
    <3> HIDE DEF t, bu, a, v, m, b
    <3>8. <<>> \o t = t /\ <<>> \o bu = bu
      BY <3>6, EmptyText
    <3> DEFINE x == Piece(inThink, a)
               y == Meaning(~inThink, v)
    <3>9. x = [text |-> a, thinking |-> <<>>] /\ y = [text |-> t, thinking |-> bu]
      BY <2>2, <3>5, <3>8
    <3> HIDE DEF x, y
    <3>10. Add(x, y) = [text |-> a \o t, thinking |-> bu]
      BY <3>8, <3>9 DEF Add
    <3>11. Meaning(inThink, w) = Add(x, y)
      BY <2>2, <3>7, <3>10
    <3> QED BY <1>2, <3>11 DEF a, v, x, y
  <2>4. CASE ~HasBlock(w)
    <3>1. StripThink(w) = [text |-> a, thinking |-> v]
      BY <2>1, <2>4, StripUnblocked
    <3>2. Meaning(~inThink, v) = [text |-> <<>>, thinking |-> v]
      BY <1>4, <2>1, <2>4 DEF Meaning, HasBlock, Closed, Piece
    <3>3. a \in Text /\ v \in Text
      BY <1>2
    <3> HIDE DEF a, v
    <3>4. a \o <<>> = a /\ <<>> \o v = v
      BY <3>3, EmptyText
    <3> DEFINE x == Piece(inThink, a)
               y == Meaning(~inThink, v)
    <3>5. x = [text |-> a, thinking |-> <<>>] /\ y = [text |-> <<>>, thinking |-> v]
      BY <2>2, <3>2
    <3> HIDE DEF x, y
    <3>6. Add(x, y) = [text |-> a, thinking |-> v]
      BY <3>4, <3>5 DEF Add
    <3>7. Meaning(inThink, w) = Add(x, y)
      BY <2>2, <3>1, <3>6
    <3> QED BY <1>2, <3>7 DEF a, v, x, y
  <2> QED BY <2>3, <2>4
<1> QED BY <1>3, <1>4

(* Without one it does not. *)
LEMMA MeaningOfPlain ==
    ASSUME NEW inThink \in BOOLEAN, NEW w \in Text, Find(TagOf(inThink), w) = 0
    PROVE  Meaning(inThink, w) = Piece(inThink, w)
<1>1. CASE inThink
  BY <1>1 DEF Meaning, TagOf
<1>2. CASE ~inThink
  <2>1. Opened(w) = 0 /\ ~HasBlock(w)
    BY <1>2 DEF TagOf, Opened, HasBlock
  <2> QED BY <1>2, <2>1, StripUnblocked DEF Meaning, Piece
<1> QED BY <1>1, <1>2

(* What begins no tag can be cut off. *)
LEMMA MeaningShift ==
    ASSUME NEW inThink \in BOOLEAN, NEW w \in Text, NEW k \in 0..Len(w),
           \A i \in 1..k : ~At(TagOf(inThink), w, i)
    PROVE  /\ Take(w, k) \in Text /\ Drop(w, k) \in Text
           /\ Meaning(inThink, w) = Add(Piece(inThink, Take(w, k)), Meaning(inThink, Drop(w, k)))
<1> DEFINE a == Take(w, k)
           d == Drop(w, k)
           n == Find(TagOf(inThink), d)
<1>1. a \in Text /\ d \in Text /\ IsTag(TagOf(inThink)) /\ k \in Nat
  BY TakeType, DropType, Tags DEF TagOf, Text
<1>2. n \in Nat
  BY <1>1, FindWhere
<1>3. Find(TagOf(inThink), w) = IF n = 0 THEN 0 ELSE k + n
  BY <1>1, FindShift
<1>4. CASE n = 0
  <2>1. Meaning(inThink, w) = Piece(inThink, w) /\ Meaning(inThink, d) = Piece(inThink, d)
    BY <1>1, <1>3, <1>4, MeaningOfPlain
  <2>2. a \o d = w
    BY TakeDrop
  <2> HIDE DEF a, d
  <2>3. Piece(inThink, a \o d) = Add(Piece(inThink, a), Piece(inThink, d))
    BY <1>1, PieceConcat
  <2> QED BY <1>1, <2>1, <2>2, <2>3 DEF a, d
<1>5. CASE n > 0
  <2> DEFINE b == Take(d, n - 1)
             e == Drop(d, n + 1)
             m == Meaning(~inThink, e)
  <2>1. b \in Text /\ e \in Text /\ Meaning(inThink, d) = Add(Piece(inThink, b), m)
    BY <1>1, <1>5, MeaningAtTag
  <2> DEFINE j == k + n
  <2>2. Meaning(inThink, w) = Add(Piece(inThink, Take(w, j - 1)), Meaning(~inThink, Drop(w, j + 1)))
    <3>1. j = Find(TagOf(inThink), w) /\ j > 0
      BY <1>1, <1>2, <1>3, <1>5
    <3> HIDE DEF j
    <3> QED BY <3>1, MeaningAtTag
  <2>3. Take(w, j - 1) = a \o b /\ Drop(w, j + 1) = e
    <3> DEFINE p == n - 1
               q == n + 1
    <3>1. Len(d) = Len(w) - k /\ Len(w) \in Nat
      BY DropType DEF Text
    <3>2. q \in 0..Len(d) /\ p \in 0..Len(d)
      <4> HIDE DEF d
      <4> QED BY <1>1, <1>5, FindBounds
    <3> HIDE DEF d, n
    <3>3. /\ p \in Nat /\ q \in Nat /\ k + p = j - 1 /\ k + q = j + 1
          /\ k + p <= Len(w) /\ k + q <= Len(w)
      BY <1>1, <1>2, <1>5, <3>1, <3>2
    <3> HIDE DEF p, q, j
    <3>4. Take(w, k + p) = Take(w, k) \o Take(Drop(w, k), p)
      BY <1>1, <3>3, TakeTake
    <3>5. Drop(Drop(w, k), q) = Drop(w, k + q)
      BY <1>1, <3>3, DropDrop
    <3> QED BY <3>3, <3>4, <3>5 DEF d, p, q
  <2>4. m \in Meanings
    BY <2>1, MeaningType
  <2> HIDE DEF a, b, d, e, m
  <2>5. Piece(inThink, a \o b) = Add(Piece(inThink, a), Piece(inThink, b))
    BY <1>1, <2>1, PieceConcat
  <2>6. Add(Add(Piece(inThink, a), Piece(inThink, b)), m) =
          Add(Piece(inThink, a), Add(Piece(inThink, b), m))
    <3>1. Piece(inThink, a) \in Meanings /\ Piece(inThink, b) \in Meanings
      BY <1>1, <2>1, PieceType
    <3> QED BY <2>4, <3>1, AddAssociative
  <2>7. Meaning(inThink, w) = Add(Piece(inThink, a \o b), m)
    BY <2>2, <2>3 DEF m
  <2> QED BY <1>1, <2>1, <2>5, <2>6, <2>7 DEF a, d
<1> QED BY <1>2, <1>4, <1>5
-----------------------------------------------------------------------------
(* The splitter: what was yielded and what may still come                  *)

Splitters == [buffer : Text, inThink : BOOLEAN]
Feds == [splitter : Splitters, segments : Segments]

(* What a feed has led to, if t follows. *)
Total(fed, t) ==
    Add(Yielded(fed.segments), Meaning(fed.splitter.inThink, fed.splitter.buffer \o t))

HasTag(fed) == Find(TagOf(fed.splitter.inThink), fed.splitter.buffer) # 0

LEMMA FedParts ==
    ASSUME NEW fed \in Feds
    PROVE  /\ fed.splitter \in Splitters /\ fed.segments \in Segments
           /\ fed.splitter.buffer \in Text /\ fed.splitter.inThink \in BOOLEAN
BY DEF Feds, Splitters

LEMMA FedMade ==
    ASSUME NEW b \in Text, NEW i \in BOOLEAN, NEW segments \in Segments
    PROVE  [splitter |-> [buffer |-> b, inThink |-> i], segments |-> segments] \in Feds
BY DEF Feds, Splitters

(* To yield a segment is to move it from what comes to what has come. *)
LEMMA YieldMoves ==
    ASSUME NEW i \in BOOLEAN, NEW segments \in Segments, NEW u \in Text, NEW m \in Meanings,
           NEW more, more = Segment(IF i THEN "thinking" ELSE "text", u)
    PROVE  /\ segments \o more \in Segments
           /\ Add(Yielded(segments \o more), m) = Add(Yielded(segments), Add(Piece(i, u), m))
<1>1. more \in Segments /\ Yielded(more) = Piece(i, u)
  BY YieldedSegment
<1>2. /\ segments \o more \in Segments /\ Yielded(segments) \in Meanings
      /\ Yielded(segments \o more) = Add(Yielded(segments), Piece(i, u))
  BY <1>1, YieldedConcat
<1>3. Piece(i, u) \in Meanings
  BY PieceType
<1>4. Add(Add(Yielded(segments), Piece(i, u)), m) = Add(Yielded(segments), Add(Piece(i, u), m))
  BY <1>2, <1>3, AddAssociative
<1> QED BY <1>2, <1>4

LEMMA CutTagKeeps ==
    ASSUME NEW fed \in Feds, NEW pass
    PROVE  /\ CutTag(fed, pass) \in Feds
           /\ \A t \in Text : Total(CutTag(fed, pass), t) = Total(fed, t)
           /\ HasTag(fed) => Len(CutTag(fed, pass).splitter.buffer) + 2 <= Len(fed.splitter.buffer)
           /\ ~HasTag(fed) => CutTag(fed, pass) = fed
<1> DEFINE b == fed.splitter.buffer
           i == fed.splitter.inThink
           segs == fed.segments
           n == Find(TagOf(i), b)
<1>1. b \in Text /\ i \in BOOLEAN /\ segs \in Segments /\ IsTag(TagOf(i))
  BY FedParts, Tags DEF TagOf
<1>2. NextTag(fed.splitter) = TagOf(i) /\ KindOf(fed.splitter) = IF i THEN "thinking" ELSE "text"
  BY DEF NextTag, TagOf, KindOf
<1>3. n \in Nat
  BY <1>1, FindWhere
<1>4. CASE n = 0
  <2>1. CutTag(fed, pass) = fed
    BY <1>2, <1>4, Zenon DEF CutTag
  <2> QED BY <1>4, <2>1 DEF HasTag
<1>5. CASE n # 0
  <2> DEFINE kind == IF i THEN "thinking" ELSE "text"
             u == Take(b, n - 1)
             v == Drop(b, n + 1)
             more == segs \o Segment(kind, u)
             cut == CutTag(fed, pass)
  <2>1. cut = [splitter |-> [buffer |-> v, inThink |-> ~i], segments |-> more]
    <3>1. n + TagLen - 1 = n + 1
      BY <1>3 DEF TagLen
    <3> QED BY <1>2, <1>5, <3>1 DEF CutTag
  <2>2. n - 1 \in 0..Len(b) /\ n + 1 \in 0..Len(b) /\ Len(b) \in Nat
    BY <1>1, <1>3, <1>5, FindBounds
  <2>3. u \in Text /\ v \in Text /\ Len(v) = Len(b) - (n + 1)
    BY <1>1, <2>2, TakeType, DropType
  <2>4. more \in Segments
    BY <1>1, <2>3, YieldedSegment, YieldedConcat
  <2>5. cut \in Feds /\ cut.splitter.buffer = v
    <3> HIDE DEF v, i, more, cut
    <3> QED BY <1>1, <2>1, <2>3, <2>4, FedMade
  <2>6. Len(v) + 2 <= Len(b)
    BY <1>3, <1>5, <2>2, <2>3
  <2>7. ASSUME NEW t \in Text PROVE Total(cut, t) = Total(fed, t)
    <3> DEFINE m == Meaning(~i, v \o t)
               w == b \o t
    <3>1. v \o t \in Text /\ w \in Text
      BY <1>1, <2>3, ConcatType
    <3>2. m \in Meanings
      BY <1>1, <3>1, MeaningType
    <3>3. n = Find(TagOf(i), w) /\ Take(w, n - 1) = u /\ Drop(w, n + 1) = v \o t
      <4>1. Find(TagOf(i), w) = n
        BY <1>1, <1>3, <1>5, FindExtends
      <4> HIDE DEF n
      <4> QED BY <1>1, <2>2, <4>1, TakeOfConcat, DropOfConcat
    <3>4. Meaning(i, w) = Add(Piece(i, u), m)
      <4> HIDE DEF n, w
      <4>1. n > 0
        BY <1>3, <1>5
      <4>2. Meaning(i, w) = Add(Piece(i, Take(w, n - 1)), Meaning(~i, Drop(w, n + 1)))
        BY <1>1, <3>1, <3>3, <4>1, MeaningAtTag
      <4> QED BY <3>3, <4>2
    <3>5. Total(cut, t) = Add(Yielded(more), m)
      <4> HIDE DEF v, i, more, cut
      <4> QED BY <2>1 DEF Total
    <3>6. Add(Yielded(more), m) = Add(Yielded(segs), Add(Piece(i, u), m))
      <4> HIDE DEF u, m, segs, i
      <4> QED BY <1>1, <2>3, <3>2, YieldMoves
    <3> QED BY <3>4, <3>5, <3>6 DEF Total
  <2> QED BY <1>5, <2>5, <2>6, <2>7 DEF HasTag
<1> QED BY <1>4, <1>5

LEMMA EmitSafeKeeps ==
    ASSUME NEW fed \in Feds, ~HasTag(fed)
    PROVE  /\ EmitSafe(fed) \in Feds /\ Len(EmitSafe(fed).splitter.buffer) < 2
           /\ \A t \in Text : Total(EmitSafe(fed), t) = Total(fed, t)
<1> DEFINE b == fed.splitter.buffer
           i == fed.splitter.inThink
           segs == fed.segments
           k == Len(b) - 1
<1>1. b \in Text /\ i \in BOOLEAN /\ segs \in Segments /\ IsTag(TagOf(i)) /\ Len(b) \in Nat
  BY FedParts, Tags DEF TagOf, Text
<1>2. SafeLength(b) = k /\ KindOf(fed.splitter) = IF i THEN "thinking" ELSE "text"
  BY <1>1 DEF SafeLength, TagLen, KindOf
<1>3. CASE k <= 0
  <2>1. EmitSafe(fed) = fed
    BY <1>2, <1>3 DEF EmitSafe
  <2> QED BY <1>1, <1>3, <2>1
<1>4. CASE k > 0
  <2> DEFINE kind == IF i THEN "thinking" ELSE "text"
             u == Take(b, k)
             v == Drop(b, k)
             more == segs \o Segment(kind, u)
             safe == EmitSafe(fed)
  <2>1. safe = [splitter |-> [buffer |-> v, inThink |-> i], segments |-> more]
    <3>1. [fed.splitter EXCEPT !.buffer = Drop(@, k)] = [buffer |-> v, inThink |-> i]
      BY FedParts DEF Splitters
    <3>2. ~(SafeLength(b) <= 0)
      BY <1>1, <1>2, <1>4
    <3> HIDE DEF k
    <3>3. safe = [splitter |-> [fed.splitter EXCEPT !.buffer = Drop(@, k)],
                  segments |-> segs \o Segment(KindOf(fed.splitter), Take(b, k))]
      BY <1>2, <3>2, Zenon DEF EmitSafe
    <3> QED BY <1>2, <3>1, <3>3
  <2>2. k \in 0..Len(b) /\ k \in Nat
    BY <1>1, <1>4
  <2>3. u \in Text /\ v \in Text /\ Len(v) < 2
    <3>1. u \in Text /\ v \in Text /\ Len(v) = Len(b) - k
      BY <1>1, <2>2, TakeType, DropType
    <3>2. Len(b) - k = 1
      BY <1>1
    <3> HIDE DEF k, u, v
    <3> QED BY <3>1, <3>2
  <2>4. more \in Segments
    BY <1>1, <2>3, YieldedSegment, YieldedConcat
  <2>5. safe \in Feds /\ safe.splitter.buffer = v
    <3> HIDE DEF v, i, more, safe
    <3> QED BY <1>1, <2>1, <2>3, <2>4, FedMade
  <2>6. ASSUME NEW t \in Text PROVE Total(safe, t) = Total(fed, t)
    <3> DEFINE m == Meaning(i, v \o t)
               w == b \o t
    <3>1. v \o t \in Text /\ w \in Text /\ k \in 0..Len(w)
      <4>1. w \in Text /\ Len(w) = Len(b) + Len(t) /\ Len(t) \in Nat
        BY <1>1, ConcatType DEF Text
      <4> QED BY <1>1, <2>2, <2>3, <4>1, ConcatType
    <3>2. m \in Meanings
      BY <1>1, <3>1, MeaningType
    <3>3. Take(w, k) = u /\ Drop(w, k) = v \o t
      <4> HIDE DEF k
      <4> QED BY <1>1, <2>2, TakeOfConcat, DropOfConcat
    <3>4. \A j \in 1..k : ~At(TagOf(i), w, j)
      BY <1>1, NoneBegins DEF HasTag
    <3>5. Meaning(i, w) = Add(Piece(i, u), m)
      <4> HIDE DEF w, k
      <4>1. Meaning(i, w) = Add(Piece(i, Take(w, k)), Meaning(i, Drop(w, k)))
        BY <1>1, <3>1, <3>4, MeaningShift
      <4> QED BY <3>3, <4>1
    <3>6. Total(safe, t) = Add(Yielded(more), m)
      <4> HIDE DEF v, i, more, safe
      <4> QED BY <2>1 DEF Total
    <3>7. Add(Yielded(more), m) = Add(Yielded(segs), Add(Piece(i, u), m))
      <4> HIDE DEF u, m, segs, i
      <4> QED BY <1>1, <2>3, <3>2, YieldMoves
    <3> QED BY <3>5, <3>6, <3>7 DEF Total
  <2> QED BY <2>3, <2>5, <2>6
<1> QED BY <1>1, <1>3, <1>4

Begun(s) == [splitter |-> s, segments |-> <<>>]

LEMMA SplitLoopKeeps ==
    ASSUME NEW s \in Splitters
    PROVE  /\ SplitLoop(s) \in Feds /\ Len(SplitLoop(s).splitter.buffer) < 2
           /\ \A t \in Text : Total(SplitLoop(s), t) = Meaning(s.inThink, s.buffer \o t)
<1> DEFINE b == s.buffer
           start == Begun(s)
           seq == Passes(b)
           cut == CutTags!Fold(start, seq)
           D == {fed \in Feds : ~HasTag(fed)}
           size == [fed \in Feds |-> Len(fed.splitter.buffer)]
           H == {fed \in Feds : \A t \in Text : Total(fed, t) = Total(start, t)}
<1>1. b \in Text /\ Len(b) \in Nat /\ s.inThink \in BOOLEAN /\ <<>> \in Segments
  BY TextOfEmpty DEF Splitters, Text
<1>2. start \in Feds /\ start.splitter = s /\ start.segments = <<>>
  BY <1>1 DEF Begun, Feds
<1>3. seq \in Seq(Nat) /\ Len(seq) = Len(b) \div 2
  BY <1>1, PassesType
<1>4. cut \in Feds /\ cut \in D
  <2>1. size[start] < 2 * (Len(seq) + 1) /\ size \in [Feds -> Nat]
    <3>1. size[start] = Len(b)
      BY <1>2
    <3>2. \A fed \in Feds : Len(fed.splitter.buffer) \in Nat
      BY FedParts DEF Text
    <3>3. Len(b) < 2 * (Len(b) \div 2 + 1)
      <4>1. \A n \in Nat : n < 2 * (n \div 2 + 1)
        OBVIOUS
      <4> HIDE DEF b
      <4> QED BY <1>1, <4>1
    <3> HIDE DEF start, b, seq
    <3> QED BY <1>3, <3>1, <3>2, <3>3
  <2>2. CutTags!Keeps(Feds, Nat) /\ CutTags!Stops(D, Feds, Nat)
    BY CutTagKeeps DEF CutTags!Keeps, CutTags!Stops
  <2>3. CutTags!Shrinks(size, D, Feds, Nat)
    <3>1. ASSUME NEW x \in Feds, size[x] < 2 PROVE x \in D
      <4>1. ~HasTag(x)
        <5>1. ASSUME HasTag(x) PROVE FALSE
          <6>1. /\ Len(CutTag(x, 1).splitter.buffer) + 2 <= Len(x.splitter.buffer)
                /\ CutTag(x, 1).splitter.buffer \in Text
            BY <5>1, CutTagKeeps, FedParts
          <6>2. Len(CutTag(x, 1).splitter.buffer) \in Nat /\ Len(x.splitter.buffer) \in Nat
            BY <6>1, FedParts DEF Text
          <6> QED BY <3>1, <6>1, <6>2
        <5> QED BY <5>1
      <4> QED BY <4>1
    <3>2. ASSUME NEW x \in Feds, NEW y \in Nat, x \notin D
          PROVE  size[CutTag(x, y)] + 2 <= size[x]
      BY <3>2, CutTagKeeps
    <3> QED BY <3>1, <3>2 DEF CutTags!Shrinks
  <2> HIDE DEF D, size, start, seq
  <2> QED BY <1>2, <1>3, <2>1, <2>2, <2>3, CutTags!LoopEnds
<1>5. cut \in H
  <2>1. CutTags!Keeps(H, Nat)
    BY CutTagKeeps DEF CutTags!Keeps
  <2>2. start \in H
    BY <1>2
  <2> HIDE DEF H, start, seq
  <2> QED BY <1>3, <2>1, <2>2, CutTags!FoldInSet
<1>6. SplitLoop(s) = EmitSafe(cut)
  <2>1. \A base, sq : CutTags!Fold(base, sq) = FoldLeft(CutTag, base, sq)
    BY Zenon DEF CutTags!Fold, FoldLeft, CutTags!MapThenFoldSet,
                 MapThenFoldSet, CutTags!Highest, Max
  <2> QED BY <2>1, Zenon DEF SplitLoop, Begun
<1>7. \A t \in Text : Total(cut, t) = Total(start, t)
  BY <1>5
<1>8. ASSUME NEW t \in Text PROVE Total(start, t) = Meaning(s.inThink, b \o t)
  <2> DEFINE m == Meaning(s.inThink, b \o t)
  <2>1. m \in Meanings
    BY <1>1, ConcatType, MeaningType
  <2>2. Yielded(<<>>) = Nothing
    BY TextOfEmpty DEF Yielded, Nothing
  <2>3. Total(start, t) = Add(Nothing, m)
    BY <1>2, <2>2 DEF Total
  <2> HIDE DEF m
  <2> QED BY <2>1, <2>3, AddNothing DEF m
<1>9. ~HasTag(cut)
  BY <1>4
<1> HIDE DEF cut, start
<1> QED BY <1>4, <1>6, <1>7, <1>8, <1>9, EmitSafeKeeps

LEMMA SplitFeedKeeps ==
    ASSUME NEW s \in Splitters, Len(s.buffer) < 2, NEW content \in Text
    PROVE  /\ SplitFeed(s, content) \in Feds /\ Len(SplitFeed(s, content).splitter.buffer) < 2
           /\ \A t \in Text : Total(SplitFeed(s, content), t)
                                = Meaning(s.inThink, s.buffer \o (content \o t))
<1> DEFINE b == s.buffer
           i == s.inThink
<1>1. b \in Text /\ i \in BOOLEAN /\ s = [buffer |-> b, inThink |-> i]
  BY DEF Splitters
<1>2. CASE content = <<>>
  <2>1. SplitFeed(s, content) = Begun(s)
    BY <1>2 DEF SplitFeed, Begun
  <2>2. Begun(s) \in Feds /\ Begun(s).splitter = s /\ Begun(s).segments = <<>>
    BY TextOfEmpty DEF Begun, Feds
  <2>3. ASSUME NEW t \in Text PROVE Total(Begun(s), t) = Meaning(i, b \o (content \o t))
    <3> DEFINE m == Meaning(i, b \o t)
    <3>1. content \o t = t
      BY <1>2, EmptyText
    <3>2. m \in Meanings
      BY <1>1, ConcatType, MeaningType
    <3>3. Yielded(<<>>) = Nothing
      BY TextOfEmpty DEF Yielded, Nothing
    <3>4. Total(Begun(s), t) = Add(Nothing, m)
      BY <2>2, <3>3 DEF Total
    <3>5. Add(Nothing, m) = m
      <4> HIDE DEF m
      <4> QED BY <3>2, AddNothing
    <3> QED BY <3>1, <3>4, <3>5
  <2> HIDE DEF b, i
  <2> QED BY <2>1, <2>2, <2>3 DEF b, i
<1>3. CASE content # <<>>
  <2> DEFINE c == b \o content
             s2 == [buffer |-> c, inThink |-> i]
  <2>1. c \in Text
    BY <1>1, ConcatType
  <2>2. SplitFeed(s, content) = SplitLoop(s2)
    <3>1. [s EXCEPT !.buffer = @ \o content] = s2
      <4>1. \A x : [s EXCEPT !.buffer = x] = [buffer |-> x, inThink |-> i]
        BY DEF Splitters
      <4> QED BY <4>1
    <3> QED BY <1>3, <3>1 DEF SplitFeed
  <2>3. s2 \in Splitters /\ s2.buffer = c /\ s2.inThink = i
    <3> HIDE DEF c, i
    <3> QED BY <1>1, <2>1 DEF Splitters
  <2> HIDE DEF s2
  <2>4. /\ SplitLoop(s2) \in Feds /\ Len(SplitLoop(s2).splitter.buffer) < 2
        /\ \A t \in Text : Total(SplitLoop(s2), t) = Meaning(i, c \o t)
    BY <2>3, SplitLoopKeeps
  <2>5. ASSUME NEW t \in Text PROVE c \o t = b \o (content \o t)
    <3>1. b \in Text /\ content \in Text /\ t \in Text
      BY <1>1
    <3> QED BY <3>1, Associative
  <2> HIDE DEF b, i
  <2> QED BY <2>2, <2>4, <2>5 DEF b, i
<1> QED BY <1>2, <1>3

LEMMA SplitFlushKeeps ==
    ASSUME NEW s \in Splitters, Len(s.buffer) < 2
    PROVE  /\ SplitFlush(s) \in Feds /\ SplitFlush(s).splitter.buffer = <<>>
           /\ Yielded(SplitFlush(s).segments) = Meaning(s.inThink, s.buffer)
<1> DEFINE b == s.buffer
           i == s.inThink
           kind == IF i THEN "thinking" ELSE "text"
<1>1. b \in Text /\ i \in BOOLEAN /\ s = [buffer |-> b, inThink |-> i]
  BY DEF Splitters
<1>2. SplitFlush(s) = [splitter |-> [buffer |-> <<>>, inThink |-> i], segments |-> Segment(kind, b)]
  <2>1. [s EXCEPT !.buffer = <<>>] = [buffer |-> <<>>, inThink |-> i]
    BY <1>1
  <2> QED BY <2>1 DEF SplitFlush, KindOf
<1>3. Segment(kind, b) \in Segments /\ Yielded(Segment(kind, b)) = Piece(i, b)
  BY <1>1, YieldedSegment
<1>4. Meaning(i, b) = Piece(i, b)
  <2>1. Find(TagOf(i), b) = 0
    <3>1. IsTag(TagOf(i))
      BY Tags DEF TagOf
    <3>2. Find(TagOf(i), b) \in Nat
      BY <1>1, <3>1, FindWhere
    <3>3. Find(TagOf(i), b) > 0 => Find(TagOf(i), b) \in 1..(Len(b) - 1) /\ Len(b) \in Nat
      BY <1>1, <3>1, FindBounds
    <3> QED BY <3>2, <3>3
  <2> QED BY <1>1, <2>1, MeaningOfPlain
<1> DEFINE more == Segment(kind, b)
<1> HIDE DEF more, kind, i
<1>5. <<>> \in Text
  BY EmptyText
<1>6. SplitFlush(s) = [splitter |-> [buffer |-> <<>>, inThink |-> i], segments |-> more]
  BY <1>2 DEF more
<1>7. more \in Segments
  BY <1>3 DEF more
<1>8. SplitFlush(s) \in Feds
  BY <1>1, <1>5, <1>6, <1>7, FedMade
<1>9. SplitFlush(s).splitter.buffer = <<>> /\ SplitFlush(s).segments = more
  BY <1>6
<1> QED BY <1>3, <1>4, <1>8, <1>9 DEF more, i
-----------------------------------------------------------------------------
(* The scanner: what it holds back                                         *)

Scanners == [buffer : Text, inXml : BOOLEAN]
Tools == {<<Invoke>>, <<Escaped>>}
Finding == [kind : {"text"}, text : Text \ {<<>>}] \union [kind : {"tool_use"}, text : Tools]
Findings == Seq(Finding)
ScanFeds == [scanner : Scanners, segments : Findings]

(* Outside of a block, less than a tag. *)
HoldsLittle(x) == x.inXml \/ Len(x.buffer) < 2

LEMMA ScanFedParts ==
    ASSUME NEW fed \in ScanFeds
    PROVE  /\ fed.scanner \in Scanners /\ fed.segments \in Findings
           /\ fed.scanner.buffer \in Text /\ fed.scanner.inXml \in BOOLEAN
BY DEF ScanFeds, Scanners

LEMMA ScanFedMade ==
    ASSUME NEW b \in Text, NEW i \in BOOLEAN, NEW segments \in Findings
    PROVE  [scanner |-> [buffer |-> b, inXml |-> i], segments |-> segments] \in ScanFeds
BY DEF ScanFeds, Scanners

LEMMA InvokeText == Tools \subseteq Text \ {<<>>}
<1>1. Invoke \in Symbols /\ Escaped \in Symbols
  BY DEF Symbols, Elements
<1>2. <<Invoke>> \in Text /\ <<Escaped>> \in Text
  BY <1>1 DEF Text
<1> QED BY <1>2 DEF Tools

LEMMA FindingParts ==
    ASSUME NEW x \in Finding
    PROVE  /\ x.kind \in {"text", "tool_use"} /\ x.text \in Text \ {<<>>}
           /\ x = [kind |-> x.kind, text |-> x.text]
           /\ x.kind = "tool_use" => x.text \in Tools
BY InvokeText DEF Finding

(* What the two parsers make of a symbol. *)
Tried == [y \in Symbols |-> CASE y = Escaped -> ToolUse(Escaped)
                            [] y \in {Invoke, Nested} -> ToolUse(Invoke)
                            [] OTHER -> <<>>]
OfTools(seqs) == seqs \in Seq(Seq(Finding))

LEMMA ToolUses ==
    /\ ToolUse(Invoke) \in Seq(Finding) /\ ToolUse(Escaped) \in Seq(Finding)
    /\ <<>> \in Seq(Finding)
<1>1. /\ [kind |-> "tool_use", text |-> <<Invoke>>] \in Finding
      /\ [kind |-> "tool_use", text |-> <<Escaped>>] \in Finding
  BY DEF Finding, Tools
<1>2. ASSUME NEW S, NEW x \in S PROVE <<x>> \in Seq(S) /\ <<>> \in Seq(S)
  OBVIOUS
<1> QED BY <1>1, <1>2 DEF ToolUse

LEMMA TriedType == Maps(Tried, Symbols, Finding)
BY ToolUses DEF Maps, Tried

LEMMA RegexIs ==
    ASSUME NEW xml \in Text
    PROVE  ParseInvokesRegex(xml) = FlattenSeq(Each(Tried, xml))
<1>1. \A i \in DOMAIN xml : xml[i] \in Symbols
  BY DEF Text
<1>2. Each(Tried, xml) = [i \in DOMAIN xml |->
        CASE xml[i] = Escaped -> ToolUse(Escaped)
          [] xml[i] \in {Invoke, Nested} -> ToolUse(Invoke)
          [] OTHER -> <<>>]
  BY <1>1 DEF Each, Tried
<1> QED BY <1>2, Zenon DEF ParseInvokesRegex

LEMMA TagSymbols ==
    /\ CallsClose[1] # CallsOpen[1] /\ CallsClose[2] # CallsOpen[1]
    /\ CallsOpen[2] # CallsClose[1]
    /\ \A i \in 1..2 : CallsOpen[i] \notin Elements /\ CallsClose[i] \notin Elements
BY DEF CallsClose, CallsOpen, Elements, Invoke, Escaped, Quoted, Nested

(* Every symbol of what is enclosed comes after the opening tag. *)
LEMMA EnclosedParts ==
    ASSUME NEW xml \in Text, IsXml(xml)
    PROVE  LET n == Find(CallsOpen, xml)
               inner == Enclosed(xml)
           IN  /\ n \in 1..(Len(xml) - 1) /\ Len(xml) \in Nat /\ inner \in Text
               /\ Len(inner) = Len(xml) - n - 3
               /\ \A i \in 1..Len(inner) : inner[i] = xml[n + 1 + i]
<1> DEFINE n == Find(CallsOpen, xml)
           c == Find(CallsClose, xml)
           l == Len(xml)
<1>1. /\ n \in 1..(l - 1) /\ l \in Nat /\ c \in 1..(l - 1) /\ c = l - 1
      /\ At(CallsOpen, xml, n) /\ At(CallsClose, xml, c)
  <2>1. l \in Nat /\ n > 0 /\ c = l - 1
    BY DEF IsXml, TagLen, Text
  <2>2. n \in 1..(l - 1) /\ At(CallsOpen, xml, n)
    BY <2>1, Tags, FindBounds, FindWhere
  <2>3. c > 0
    BY <2>1, <2>2
  <2> QED BY <2>1, <2>2, <2>3, Tags, FindBounds, FindWhere
<1>2. n + 1 # c /\ n # c
  BY <1>1, TagSymbols DEF At
<1>3. ASSUME NEW i \in Nat, NEW j \in Nat, 1 <= i, i <= j + 1, j <= l
      PROVE  LET u == SubSeq(xml, i, j)
             IN  u \in Text /\ Len(u) = (j - i) + 1 /\ \A k \in 1..Len(u) : u[k] = xml[(i - 1) + k]
  BY <1>1, <1>3 DEF Text
<1> DEFINE u == SubSeq(xml, n + 2, l - 2)
<1>4. n + 2 \in Nat /\ l - 2 \in Nat /\ 1 <= n + 2 /\ n + 2 <= (l - 2) + 1 /\ l - 2 <= l
  BY <1>1, <1>2
<1>5. /\ u \in Text /\ Len(u) = ((l - 2) - (n + 2)) + 1
      /\ \A k \in 1..Len(u) : u[k] = xml[((n + 2) - 1) + k]
  <2> HIDE DEF n, l
  <2> QED BY <1>3, <1>4
<1>6. Enclosed(xml) = u
  BY DEF Enclosed, TagLen
<1> HIDE DEF n, c, l, u
<1>7. ((l - 2) - (n + 2)) + 1 = l - n - 3 /\ (n + 2) - 1 = n + 1
  BY <1>1
<1> QED BY <1>1, <1>5, <1>6, <1>7 DEF n, l

LEMMA FlatEmpties == ASSUME NEW u \in Text PROVE FlattenSeq([i \in DOMAIN u |-> <<>>]) = <<>>
<1> DEFINE g == [x \in Symbols |-> <<>>]
<1>1. Maps(g, Symbols, Finding) /\ Drops(g, Symbols)
  BY ToolUses DEF Maps, Drops
<1>2. Each(g, u) = [i \in DOMAIN u |-> <<>>]
  BY DEF Each, Text
<1> HIDE DEF g
<1>3. FlattenSeq(Each(g, u)) = <<>>
  BY <1>1, FlatNone DEF Text
<1> QED BY <1>2, <1>3

LEMMA InvokesType == ASSUME NEW xml \in Text PROVE ParseInvokesFromXml(xml) \in Findings
<1>1. ParseInvokesRegex(xml) \in Findings
  BY RegexIs, TriedType, FlatType DEF Over, Text, Findings
<1>2. ASSUME NEW inner \in Text PROVE ParseInvokesStrictly(inner) \in Findings
  <2> DEFINE seqs == [i \in DOMAIN inner |->
        IF inner[i] \in Elements \ {Nested} /\ Depth(inner, i) = 0 THEN ToolUse(Invoke) ELSE <<>>]
  <2>1. DOMAIN inner = 1..Len(inner) /\ Len(inner) \in Nat
    BY DEF Text
  <2>2. seqs \in Seq(Seq(Finding))
    BY <2>1, ToolUses
  <2>3. ParseInvokesStrictly(inner) = FlattenSeq(seqs)
    BY Zenon DEF ParseInvokesStrictly
  <2> HIDE DEF seqs
  <2> QED BY <2>2, <2>3, FlattenIs, JoinType DEF Findings
<1> QED BY <1>1, <1>2, EnclosedParts DEF ParseInvokesFromXml

LEMMA TextSegmentType == ASSUME NEW u \in Text PROVE Segment("text", u) \in Findings
<1> DEFINE seg == [kind |-> "text", text |-> u]
<1>1. u # <<>> => seg \in Finding
  BY DEF Finding
<1> HIDE DEF seg
<1>2. u # <<>> => <<seg>> \in Findings
  BY <1>1 DEF Findings
<1>3. <<>> \in Findings
  BY DEF Findings
<1> QED BY <1>2, <1>3 DEF Segment, seg

LEMMA FindingsConcat ==
    ASSUME NEW s \in Findings, NEW t \in Findings PROVE s \o t \in Findings
BY DEF Findings

LEMMA NoFindings == <<>> \in Findings
BY DEF Findings

LEMMA FindingsAreSegments == Findings \subseteq Segments
<1> DEFINE A == Finding
           B == [kind : Kinds, text : Text \ {<<>>}]
<1>1. A \subseteq B
  BY FindingParts DEF Kinds
<1>2. ASSUME NEW s \in Seq(A) PROVE s \in Seq(B)
  <2>1. Len(s) \in Nat /\ s = [i \in 1..Len(s) |-> s[i]] /\ \A i \in 1..Len(s) : s[i] \in A
    OBVIOUS
  <2>2. \A i \in 1..Len(s) : s[i] \in B
    BY <1>1, <2>1
  <2> HIDE DEF A, B
  <2> QED BY <2>1, <2>2
<1> QED BY <1>2 DEF Findings, Segments

CallCuts == INSTANCE FoldTheorems WITH Op <- CutCalls
-----------------------------------------------------------------------------
(* How the scanner goes through a text, in terms of parse_complete *)

Parsed == [rest : Text, segments : Findings]

CallsAt(w) == Find(CallsOpen, w)
InCalls(w) == Drop(w, CallsAt(w) + 1)
CallsEnd(w) == Find(CallsClose, InCalls(w))
HasCalls(w) == CallsAt(w) # 0 /\ CallsEnd(w) # 0

(* What follows the first block of w, and the segments up to there: the    *)
(* scanner reads a block without its opening tag.                          *)
ReadInside(u) == ParseInvokesFromXml(u \o CallsClose)
AfterCalls(w) == Drop(InCalls(w), CallsEnd(w) + 1)
Before(w) == Segment("text", Take(w, CallsAt(w) - 1))
Within(w) == ReadInside(Take(InCalls(w), CallsEnd(w) - 1))

ParseStart(w) == [rest |-> w, segments |-> <<>>]

(* As CutCallsBlock and ParseComplete, but for that. *)
CutAsScanner(seen, pass) ==
    IF ~HasCalls(seen.rest) THEN seen
    ELSE [rest     |-> AfterCalls(seen.rest),
          segments |-> seen.segments \o Before(seen.rest) \o Within(seen.rest)]

CallBlocks == INSTANCE FoldTheorems WITH Op <- CutAsScanner

(* A tag that was found, and what is around it. *)
LEMMA Around ==
    ASSUME NEW tag, IsTag(tag), NEW w \in Text, NEW n, n = Find(tag, w), n # 0
    PROVE  /\ n \in 1..(Len(w) - 1) /\ Len(w) \in Nat
           /\ n - 1 \in 0..Len(w) /\ n + 1 \in 0..Len(w)
           /\ Take(w, n - 1) \in Text /\ Drop(w, n + 1) \in Text
           /\ Len(Drop(w, n + 1)) = Len(w) - n - 1
           /\ n + TagLen - 1 = n + 1
<1>1. n \in Nat
  BY FindWhere
<1>2. /\ n \in 1..(Len(w) - 1) /\ Len(w) \in Nat
      /\ n - 1 \in 0..Len(w) /\ n + 1 \in 0..Len(w)
  BY <1>1, FindBounds
<1>3. /\ Take(w, n - 1) \in Text /\ Drop(w, n + 1) \in Text
      /\ Len(Drop(w, n + 1)) = Len(w) - (n + 1)
  BY <1>2, TakeType, DropType
<1> QED BY <1>1, <1>2, <1>3 DEF TagLen

LEMMA ReadType == ASSUME NEW u \in Text PROVE ReadInside(u) \in Findings
<1>1. u \o CallsClose \in Text
  BY Tags, ConcatType DEF IsTag
<1> QED BY <1>1, InvokesType DEF ReadInside

LEMMA CallsType ==
    ASSUME NEW w \in Text, CallsAt(w) # 0
    PROVE  /\ CallsAt(w) \in Nat /\ Take(w, CallsAt(w) - 1) \in Text
           /\ InCalls(w) \in Text /\ Len(InCalls(w)) + 2 <= Len(w)
           /\ Drop(w, CallsAt(w) + TagLen - 1) = InCalls(w)
<1> DEFINE n == CallsAt(w)
<1>1. IsTag(CallsOpen) /\ n = Find(CallsOpen, w) /\ n # 0
  BY Tags DEF CallsAt
<1>2. /\ n \in 1..(Len(w) - 1) /\ Len(w) \in Nat /\ Take(w, n - 1) \in Text
      /\ Drop(w, n + 1) \in Text
      /\ Len(Drop(w, n + 1)) = Len(w) - n - 1 /\ n + TagLen - 1 = n + 1
  <2> HIDE DEF n
  <2> QED BY <1>1, Around
<1>3. Drop(w, n + 1) = InCalls(w)
  BY DEF InCalls
<1> HIDE DEF n
<1>4. Len(InCalls(w)) + 2 <= Len(w) /\ n \in Nat
  BY <1>2, <1>3
<1> QED BY <1>2, <1>3, <1>4 DEF n

LEMMA CallBlockType ==
    ASSUME NEW w \in Text, HasCalls(w)
    PROVE  /\ Take(InCalls(w), CallsEnd(w) - 1) \in Text
           /\ AfterCalls(w) \in Text /\ Len(AfterCalls(w)) + 4 <= Len(w)
           /\ Drop(InCalls(w), CallsEnd(w) + TagLen - 1) = AfterCalls(w)
           /\ Before(w) \in Findings /\ Within(w) \in Findings
<1> DEFINE v == InCalls(w)
           n == CallsEnd(w)
<1>1. v \in Text /\ Len(v) + 2 <= Len(w) /\ Take(w, CallsAt(w) - 1) \in Text /\ Len(w) \in Nat
  BY CallsType DEF HasCalls, Text
<1>2. IsTag(CallsClose) /\ n = Find(CallsClose, v) /\ n # 0
  BY Tags DEF CallsEnd, HasCalls
<1> HIDE DEF v, n
<1>3. /\ n \in 1..(Len(v) - 1) /\ Len(v) \in Nat /\ Take(v, n - 1) \in Text
      /\ Drop(v, n + 1) \in Text
      /\ Len(Drop(v, n + 1)) = Len(v) - n - 1 /\ n + TagLen - 1 = n + 1
  BY <1>1, <1>2, Around
<1>4. Drop(v, n + 1) = AfterCalls(w)
  BY DEF AfterCalls, v, n
<1>5. Len(AfterCalls(w)) + 4 <= Len(w)
  BY <1>1, <1>3, <1>4
<1>6. Before(w) \in Findings /\ Within(w) \in Findings
  BY <1>1, <1>3, TextSegmentType, ReadType DEF Before, Within, v, n
<1> QED BY <1>3, <1>4, <1>5, <1>6 DEF v, n

LEMMA CutAsScannerType ==
    ASSUME NEW seen \in Parsed, NEW pass
    PROVE  /\ CutAsScanner(seen, pass) \in Parsed
           /\ HasCalls(seen.rest) => Len(CutAsScanner(seen, pass).rest) + 2 <= Len(seen.rest)
           /\ ~HasCalls(seen.rest) => CutAsScanner(seen, pass) = seen
<1> DEFINE w == seen.rest
           s == seen.segments
<1>1. w \in Text /\ s \in Findings
  BY DEF Parsed
<1>2. CASE HasCalls(w)
  <2> DEFINE m == s \o Before(w) \o Within(w)
  <2>1. /\ AfterCalls(w) \in Text /\ Len(AfterCalls(w)) + 4 <= Len(w)
        /\ Before(w) \in Findings /\ Within(w) \in Findings
    BY <1>1, <1>2, CallBlockType
  <2>2. m \in Findings
    BY <1>1, <2>1, FindingsConcat
  <2>3. CutAsScanner(seen, pass) = [rest |-> AfterCalls(w), segments |-> m]
    BY <1>2 DEF CutAsScanner
  <2>4. Len(AfterCalls(w)) \in Nat /\ Len(w) \in Nat
    BY <1>1, <2>1 DEF Text
  <2> HIDE DEF m, w
  <2> QED BY <1>2, <2>1, <2>2, <2>3, <2>4 DEF Parsed, w
<1>3. CASE ~HasCalls(w)
  BY <1>3 DEF CutAsScanner
<1> QED BY <1>2, <1>3

(* The loop goes on until there is no whole block left. *)
LEMMA CallBlocksEnd ==
    ASSUME NEW w \in Text
    PROVE  /\ CallBlocks!Fold(ParseStart(w), Passes(w)) \in Parsed
           /\ ~HasCalls(CallBlocks!Fold(ParseStart(w), Passes(w)).rest)
<1> DEFINE D == {x \in Parsed : ~HasCalls(x.rest)}
           size == [x \in Parsed |-> Len(x.rest)]
<1>1. /\ ParseStart(w) \in Parsed /\ size \in [Parsed -> Nat]
      /\ size[ParseStart(w)] = Len(w) /\ Len(w) \in Nat
  BY NoFindings DEF ParseStart, Parsed, Text
<1>2. Passes(w) \in Seq(Nat) /\ size[ParseStart(w)] < 2 * (Len(Passes(w)) + 1)
  BY <1>1, PassesType
<1>3. CallBlocks!Keeps(Parsed, Nat) /\ CallBlocks!Stops(D, Parsed, Nat)
  BY CutAsScannerType DEF CallBlocks!Keeps, CallBlocks!Stops
<1>4. CallBlocks!Shrinks(size, D, Parsed, Nat)
  <2>1. ASSUME NEW x \in Parsed, size[x] < 2 PROVE x \in D
    <3>1. x.rest \in Text /\ Len(x.rest) < 2
      BY <2>1 DEF Parsed
    <3>2. ASSUME HasCalls(x.rest) PROVE FALSE
      <4>1. Len(AfterCalls(x.rest)) + 4 <= Len(x.rest) /\ Len(AfterCalls(x.rest)) \in Nat
            /\ Len(x.rest) \in Nat
        BY <3>1, <3>2, CallBlockType DEF Text
      <4> QED BY <3>1, <4>1
    <3> QED BY <3>2
  <2>2. ASSUME NEW x \in Parsed, NEW y \in Nat, x \notin D
        PROVE  size[CutAsScanner(x, y)] + 2 <= size[x]
    BY <2>2, CutAsScannerType
  <2> QED BY <2>1, <2>2 DEF CallBlocks!Shrinks
<1>5. /\ CallBlocks!Fold(ParseStart(w), Passes(w)) \in Parsed
      /\ CallBlocks!Fold(ParseStart(w), Passes(w)) \in D
  <2> HIDE DEF D, size
  <2> QED BY <1>1, <1>2, <1>3, <1>4, CallBlocks!LoopEnds
<1> QED BY <1>5
-----------------------------------------------------------------------------
(* What it finds, symbol by symbol *)

TextItems(u) == [j \in 1..Len(u) |-> <<"text", u[j]>>]
ToolItems(u) == Items(ReadInside(u))

(* The last pass. *)
Rest(rest) == IF CallsAt(rest) = 0 THEN Segment("text", rest)
              ELSE Segment("text", Take(rest, CallsAt(rest) - 1))
                     \o Segment("text", Drop(rest, CallsAt(rest) - 1))

ReadAsScanner(w) ==
    LET seen == CallBlocks!Fold(ParseStart(w), Passes(w)) IN seen.segments \o Rest(seen.rest)
Found(w) == Items(ReadAsScanner(w))

LEMMA FindingItems ==
    ASSUME NEW s \in Findings
    PROVE  s \in Segments /\ Items(s) \in AllItems
BY FindingsAreSegments, ItemsAre

LEMMA FindingItemsConcat ==
    ASSUME NEW s \in Findings, NEW t \in Findings
    PROVE  s \o t \in Findings /\ Items(s \o t) = Items(s) \o Items(t)
BY FindingItems, FindingsConcat, ItemsConcat

LEMMA TextItemsAre ==
    ASSUME NEW u \in Text
    PROVE  /\ TextItems(u) \in AllItems /\ Len(TextItems(u)) = Len(u)
           /\ Segment("text", u) \in Findings /\ Items(Segment("text", u)) = TextItems(u)
<1>1. Segment("text", u) \in Findings
  BY TextSegmentType
<1>2. Items(Segment("text", u)) = TextItems(u)
  BY ItemsSegment DEF TextItems, Kinds
<1>3. Len(TextItems(u)) = Len(u)
  BY DEF TextItems, Text
<1> QED BY <1>1, <1>2, <1>3, FindingItems

LEMMA ToolItemsAre ==
    ASSUME NEW u \in Text
    PROVE  ToolItems(u) \in AllItems /\ ReadInside(u) \in Findings
BY ReadType, FindingItems DEF ToolItems

LEMMA TextItemsConcat ==
    ASSUME NEW u \in Text, NEW v \in Text
    PROVE  TextItems(u \o v) = TextItems(u) \o TextItems(v)
<1> DEFINE w == u \o v
           a == TextItems(u)
           b == TextItems(v)
           c == TextItems(w)
<1>1. /\ w \in Text /\ Len(w) = Len(u) + Len(v) /\ Len(u) \in Nat /\ Len(v) \in Nat
      /\ \A i \in 1..Len(u) : w[i] = u[i]
      /\ \A i \in 1..Len(v) : w[Len(u) + i] = v[i]
  BY ConcatType DEF Text
<1> HIDE DEF w
<1>2. /\ a \in AllItems /\ Len(a) = Len(u) /\ b \in AllItems /\ Len(b) = Len(v)
      /\ c \in AllItems /\ Len(c) = Len(w)
  BY <1>1, TextItemsAre
<1>3. \A i \in 1..Len(a) : c[i] = a[i]
  BY <1>1, <1>2 DEF TextItems
<1>4. \A i \in 1..Len(b) : c[Len(a) + i] = b[i]
  BY <1>1, <1>2 DEF TextItems
<1> HIDE DEF a, b, c
<1> DEFINE S == Kinds \X Symbols
<1>5. a \in Seq(S) /\ b \in Seq(S) /\ c \in Seq(S) /\ Len(c) = Len(a) + Len(b)
  BY <1>1, <1>2 DEF AllItems
<1> HIDE DEF S
<1>6. c = a \o b
  BY <1>3, <1>4, <1>5, SameSeq
<1> QED BY <1>6 DEF a, b, c, w

LEMMA RestIs ==
    ASSUME NEW w \in Text
    PROVE  Rest(w) \in Findings /\ Items(Rest(w)) = TextItems(w)
<1>1. CASE CallsAt(w) = 0
  BY <1>1, TextItemsAre DEF Rest
<1>2. CASE CallsAt(w) # 0
  <2> DEFINE n == CallsAt(w) - 1
             a == Take(w, n)
             d == Drop(w, n)
  <2>1. n \in 0..Len(w)
    <3>1. CallsAt(w) = Find(CallsOpen, w) /\ IsTag(CallsOpen)
      BY Tags DEF CallsAt
    <3> QED BY <1>2, <3>1, Around
  <2>2. a \in Text /\ d \in Text /\ a \o d = w
    <3> HIDE DEF n
    <3> QED BY <2>1, TakeType, DropType, TakeDrop
  <2>3. Rest(w) = Segment("text", a) \o Segment("text", d)
    BY <1>2 DEF Rest
  <2> HIDE DEF a, d, n
  <2> DEFINE s == Segment("text", a)
             t == Segment("text", d)
  <2>4. s \in Findings /\ t \in Findings /\ Items(s) = TextItems(a) /\ Items(t) = TextItems(d)
    BY <2>2, TextItemsAre
  <2> HIDE DEF s, t
  <2>5. s \o t \in Findings /\ Items(s \o t) = Items(s) \o Items(t)
    BY <2>4, FindingItemsConcat
  <2>6. TextItems(w) = TextItems(a) \o TextItems(d)
    BY <2>2, TextItemsConcat
  <2> QED BY <2>3, <2>4, <2>5, <2>6 DEF s, t
<1> QED BY <1>1, <1>2

LEMMA ParseType == ASSUME NEW w \in Text PROVE ReadAsScanner(w) \in Findings
<1> DEFINE seen == CallBlocks!Fold(ParseStart(w), Passes(w))
<1>1. seen.segments \in Findings /\ seen.rest \in Text
  BY CallBlocksEnd DEF Parsed
<1>2. ReadAsScanner(w) = seen.segments \o Rest(seen.rest)
  BY DEF ReadAsScanner
<1> HIDE DEF seen
<1> QED BY <1>1, <1>2, RestIs, FindingsConcat

LEMMA FoundType == ASSUME NEW w \in Text PROVE Found(w) \in AllItems
BY ParseType, FindingItems DEF Found

(* Text without a whole block is text. *)
LEMMA FoundPlain ==
    ASSUME NEW w \in Text, ~HasCalls(w)
    PROVE  Found(w) = TextItems(w)
<1> DEFINE start == ParseStart(w)
<1>1. start \in Parsed /\ start \in {start} /\ Passes(w) \in Seq(Nat) /\ start.rest = w
  BY NoFindings, PassesType DEF ParseStart, Parsed
<1>2. CallBlocks!Keeps({start}, Nat)
  BY <1>1, CutAsScannerType DEF CallBlocks!Keeps
<1>3. CallBlocks!Fold(start, Passes(w)) \in {start}
  <2> HIDE DEF start
  <2> QED BY <1>1, <1>2, CallBlocks!FoldInSet
<1>4. ReadAsScanner(w) = <<>> \o Rest(w)
  <2>1. CallBlocks!Fold(start, Passes(w)) = start
    BY <1>3
  <2>2. start.segments = <<>>
    BY DEF ParseStart
  <2> QED BY <1>1, <2>1, <2>2 DEF ReadAsScanner
<1>5. Rest(w) \in Findings /\ <<>> \o Rest(w) = Rest(w)
  <2>1. Rest(w) \in Seq(Finding)
    BY RestIs DEF Findings
  <2> QED BY <2>1, EmptyIn DEF Findings
<1> QED BY <1>4, <1>5, RestIs DEF Found

(* The first pass of several. *)
LEMMA FoundBlock ==
    ASSUME NEW w \in Text, HasCalls(w)
    PROVE  Found(w) = TextItems(Take(w, CallsAt(w) - 1))
                        \o (ToolItems(Take(InCalls(w), CallsEnd(w) - 1)) \o Found(AfterCalls(w)))
<1> DEFINE a == Before(w)
           b == Within(w)
           ab == a \o b
           rest == AfterCalls(w)
           D == {x \in Parsed : ~HasCalls(x.rest)}
           image == [x \in Parsed |-> [rest |-> x.rest, segments |-> ab \o x.segments]]
           seen == CallBlocks!Fold(ParseStart(rest), Passes(rest))
<1>1. a \in Findings /\ b \in Findings /\ rest \in Text /\ Len(rest) + 4 <= Len(w)
  BY CallBlockType
<1>2. ab \in Findings
  BY <1>1, FindingsConcat
<1>3. ParseStart(w) \in Parsed /\ ParseStart(rest) \in Parsed
  BY <1>1, NoFindings DEF ParseStart, Parsed
<1>4. seen \in Parsed /\ seen \in D
  BY <1>1, CallBlocksEnd
<1>5. CallBlocks!Leads(ParseStart(w), image[ParseStart(rest)], Nat)
  <2> SUFFICES ASSUME NEW y \in Nat PROVE CutAsScanner(ParseStart(w), y) = image[ParseStart(rest)]
    BY DEF CallBlocks!Leads
  <2>1. CutAsScanner(ParseStart(w), y) = [rest |-> rest, segments |-> (<<>> \o a) \o b]
    BY <1>3 DEF ParseStart, CutAsScanner
  <2>2. image[ParseStart(rest)] = [rest |-> rest, segments |-> ab \o <<>>]
    BY <1>3 DEF ParseStart
  <2>3. <<>> \o a = a /\ ab \o <<>> = ab
    <3> HIDE DEF ab, a
    <3>1. a \in Seq(Finding) /\ ab \in Seq(Finding)
      BY <1>1, <1>2 DEF Findings
    <3> QED BY <3>1, EmptyIn
  <2> QED BY <2>1, <2>2, <2>3
<1>6. /\ Passes(w) \in Seq(Nat) /\ Passes(rest) \in Seq(Nat)
      /\ Len(Passes(w)) > Len(Passes(rest))
  <2>1. Len(w) \in Nat /\ Len(rest) \in Nat /\ Len(rest) + 4 <= Len(w)
    BY <1>1 DEF Text
  <2>2. Len(w) \div 2 > Len(rest) \div 2
    BY <2>1
  <2> QED BY <1>1, <2>2, PassesType
<1>7. CallBlocks!Keeps(Parsed, Nat) /\ CallBlocks!Stops(D, Parsed, Nat)
  BY CutAsScannerType DEF CallBlocks!Keeps, CallBlocks!Stops
<1>8. CallBlocks!Commutes(image, Parsed, Nat)
  <2>1. ASSUME NEW x \in Parsed, NEW y \in Nat, NEW z \in Nat
        PROVE  CutAsScanner(image[x], z) = image[CutAsScanner(x, y)]
    <3> DEFINE s == x.segments
               c == Before(x.rest)
               d == Within(x.rest)
               z1 == CutAsScanner(x, y)
    <3>1. x.rest \in Text /\ s \in Findings
      BY DEF Parsed
    <3>2. \A v \in Parsed : image[v] = [rest |-> v.rest, segments |-> ab \o v.segments]
      OBVIOUS
    <3> HIDE DEF image, ab
    <3>3. image[x] = [rest |-> x.rest, segments |-> ab \o s]
      BY <3>2
    <3>4. image[x] \in Parsed /\ image[x].rest = x.rest
      <4>1. ab \o s \in Findings
        BY <1>2, <3>1, FindingsConcat
      <4> DEFINE p == ab \o s
      <4> HIDE DEF p
      <4>2. image[x] = [rest |-> x.rest, segments |-> p] /\ p \in Findings
        BY <3>3, <4>1 DEF p
      <4> QED BY <3>1, <4>2 DEF Parsed
    <3>5. CASE ~HasCalls(x.rest)
      <4>1. CutAsScanner(image[x], z) = image[x] /\ CutAsScanner(x, y) = x
        BY <3>4, <3>5, CutAsScannerType
      <4> QED BY <4>1
    <3>6. CASE HasCalls(x.rest)
      <4>1. c \in Findings /\ d \in Findings
        BY <3>1, <3>6, CallBlockType
      <4>2. CutAsScanner(image[x], z) = [rest |-> AfterCalls(x.rest),
                                          segments |-> ((ab \o s) \o c) \o d]
        BY <3>3, <3>4, <3>6 DEF CutAsScanner
      <4>3. z1 = [rest |-> AfterCalls(x.rest), segments |-> (s \o c) \o d] /\ z1 \in Parsed
        BY <3>6, CutAsScannerType DEF CutAsScanner
      <4> HIDE DEF s, c, d, z1
      <4>4. image[z1] = [rest |-> AfterCalls(x.rest), segments |-> ab \o ((s \o c) \o d)]
        BY <3>2, <4>3
      <4>5. ((ab \o s) \o c) \o d = ab \o ((s \o c) \o d)
        <5>1. ab \in Seq(Finding) /\ s \in Seq(Finding) /\ c \in Seq(Finding) /\ d \in Seq(Finding)
          BY <1>2, <3>1, <4>1 DEF Findings
        <5> DEFINE sc == s \o c
        <5>2. (ab \o s) \o c = ab \o sc /\ sc \in Seq(Finding)
          BY <5>1, AssociativeIn
        <5> HIDE DEF sc
        <5>3. (ab \o sc) \o d = ab \o (sc \o d)
          BY <5>1, <5>2, AssociativeIn
        <5> QED BY <5>2, <5>3 DEF sc
      <4>6. CutAsScanner(image[x], z) = image[z1]
        BY <4>2, <4>4, <4>5
      <4> QED BY <4>6 DEF z1
    <3> QED BY <3>5, <3>6
  <2> QED BY <2>1 DEF CallBlocks!Commutes
<1>9. CallBlocks!Fold(ParseStart(w), Passes(w)) = image[seen]
  <2> DEFINE ps == Passes(w)
             qs == Passes(rest)
             base == ParseStart(w)
             base2 == ParseStart(rest)
  <2> HIDE DEF image, D, rest
  <2>1. /\ base2 \in Parsed /\ CallBlocks!Fold(base2, qs) \in D
        /\ ps \in Seq(Nat) /\ qs \in Seq(Nat)
        /\ Len(ps) > Len(qs) /\ CallBlocks!Leads(base, image[base2], Nat)
    BY <1>3, <1>4, <1>5, <1>6
  <2> HIDE DEF ps, qs, base, base2
  <2>2. CallBlocks!Fold(base, ps) = image[CallBlocks!Fold(base2, qs)]
    <3>1. /\ CallBlocks!Unrolls(base, base2, image, D, Parsed, Nat)
          /\ CallBlocks!Longer(ps, qs, Nat)
      BY <1>7, <1>8, <2>1 DEF CallBlocks!Unrolls, CallBlocks!Longer
    <3> QED BY <2>1, <3>1, CallBlocks!LoopUnrolls
  <2> QED BY <2>2 DEF ps, qs, base, base2
<1> DEFINE s == seen.segments
           l == Rest(seen.rest)
<1>10. ReadAsScanner(rest) = s \o l /\ ReadAsScanner(w) = (ab \o s) \o l
  <2>1. image[seen] = [rest |-> seen.rest, segments |-> ab \o s]
    BY <1>4
  <2> HIDE DEF image, ab, rest
  <2>2. ReadAsScanner(w) = image[seen].segments \o Rest(image[seen].rest)
    BY <1>9 DEF ReadAsScanner
  <2>3. ReadAsScanner(rest) = s \o l
    BY DEF ReadAsScanner
  <2> DEFINE x == image[seen]
             y == ab \o s
  <2>4. x = [rest |-> seen.rest, segments |-> y]
    BY <2>1
  <2> HIDE DEF x, y
  <2>5. x.rest = seen.rest /\ x.segments = y
    BY <2>4
  <2>6. ReadAsScanner(w) = y \o l
    BY <2>2, <2>5 DEF x
  <2> QED BY <2>3, <2>6 DEF y
<1>11. s \in Findings /\ l \in Findings
  BY <1>4, RestIs DEF Parsed
<1> HIDE DEF seen, s, l, ab, rest, image
<1>12. (ab \o s) \o l = ab \o (s \o l) /\ s \o l \in Findings
  <2>1. ab \in Seq(Finding) /\ s \in Seq(Finding) /\ l \in Seq(Finding)
    BY <1>2, <1>11 DEF Findings
  <2> QED BY <1>11, <2>1, AssociativeIn, FindingsConcat
<1> DEFINE p == ReadAsScanner(rest)
<1>13. p \in Findings /\ ReadAsScanner(w) = ab \o p
  BY <1>10, <1>12
<1> HIDE DEF p
<1>14. Items(ab \o p) = Items(ab) \o Items(p) /\ Items(ab) = Items(a) \o Items(b)
  <2>1. Items(ab \o p) = Items(ab) \o Items(p)
    BY <1>2, <1>13, FindingItemsConcat
  <2> HIDE DEF a, b
  <2>2. Items(a \o b) = Items(a) \o Items(b)
    BY <1>1, FindingItemsConcat
  <2> QED BY <2>1, <2>2 DEF ab
<1>15. (Items(a) \o Items(b)) \o Items(p) = Items(a) \o (Items(b) \o Items(p))
  <2> DEFINE x == Items(a)
             y == Items(b)
             z == Items(p)
  <2> HIDE DEF a, b
  <2>1. x \in AllItems /\ y \in AllItems /\ z \in AllItems
    BY <1>1, <1>13, FindingItems
  <2> HIDE DEF x, y, z
  <2>2. (x \o y) \o z = x \o (y \o z)
    BY <2>1, AssociativeIn DEF AllItems
  <2> QED BY <2>2 DEF x, y, z
<1>16. Items(a) = TextItems(Take(w, CallsAt(w) - 1))
  <2>1. Take(w, CallsAt(w) - 1) \in Text
    BY CallsType DEF HasCalls
  <2> QED BY <2>1, TextItemsAre DEF Before
<1>17. Items(b) = ToolItems(Take(InCalls(w), CallsEnd(w) - 1))
  BY DEF Within, ToolItems
<1>18. Found(w) = Items(ab \o p) /\ Found(rest) = Items(p)
  BY <1>13 DEF Found, p
<1> QED BY <1>14, <1>15, <1>16, <1>17, <1>18 DEF rest
-----------------------------------------------------------------------------
(* What a text means to the scanner, from the mode it is in *)

CallTag(inXml) == IF inXml THEN CallsClose ELSE CallsOpen
Makes(inXml, u) == IF inXml THEN ToolItems(u) ELSE TextItems(u)
Whole(inXml, w) == IF inXml THEN CallsOpen \o w ELSE w
Xml(inXml, w) == Found(Whole(inXml, w))

LEMMA TagBefore ==
    ASSUME NEW tag, IsTag(tag), NEW w \in Text
    PROVE  /\ tag \o w \in Text /\ Len(tag \o w) = Len(w) + 2
           /\ (tag \o w)[1] = tag[1] /\ (tag \o w)[2] = tag[2]
           /\ \A i \in 1..Len(w) : (tag \o w)[i + 2] = w[i]
           /\ Take(tag \o w, 0) = <<>> /\ Drop(tag \o w, 2) = w
           /\ Find(tag, tag \o w) = 1
<1> DEFINE t == tag \o w
<1>1. /\ t \in Text /\ Len(t) = Len(w) + 2 /\ Len(w) \in Nat
      /\ t[1] = tag[1] /\ t[2] = tag[2]
      /\ \A i \in 1..Len(w) : t[2 + i] = w[i]
  <2>1. tag \in Text /\ Len(tag) = 2 /\ 1 \in 1..2 /\ 2 \in 1..2 /\ Len(w) \in Nat
    BY DEF IsTag, Text
  <2>2. /\ t \in Text /\ Len(t) = Len(tag) + Len(w)
        /\ \A i \in 1..Len(tag) : t[i] = tag[i]
        /\ \A i \in 1..Len(w) : t[Len(tag) + i] = w[i]
    BY <2>1, ConcatType
  <2> HIDE DEF t
  <2> QED BY <2>1, <2>2
<1>2. \A i \in 1..Len(w) : i + 2 = 2 + i
  OBVIOUS
<1> HIDE DEF t
<1>3. At(tag, t, 1) /\ \A i \in Nat : i < 1 => ~At(tag, t, i)
  BY <1>1 DEF At
<1>4. Find(tag, t) = 1
  BY <1>1, <1>3, FindIs
<1>5. Take(t, 0) = <<>>
  BY <1>1 DEF Take, Text
<1>6. Drop(t, 2) = w
  <2>1. 2 \in 0..Len(t)
    BY <1>1
  <2>2. Drop(t, 2) \in Text /\ Len(Drop(t, 2)) = Len(t) - 2
        /\ \A i \in 1..(Len(t) - 2) : Drop(t, 2)[i] = t[2 + i]
    BY <1>1, <2>1, DropType
  <2> QED BY <1>1, <2>2, SameText
<1>7. \A i \in 1..Len(w) : t[i + 2] = w[i]
  BY <1>1, <1>2
<1> QED BY <1>1, <1>4, <1>5, <1>6, <1>7 DEF t

(* At a tag that was found. *)
LEMMA TagThere ==
    ASSUME NEW tag, IsTag(tag), NEW w \in Text, NEW n, n = Find(tag, w), n # 0
    PROVE  Drop(w, n - 1) = tag \o Drop(w, n + 1)
<1> DEFINE d == Drop(w, n - 1)
           e == Drop(w, n + 1)
           t == tag \o e
<1>1. /\ n \in 1..(Len(w) - 1) /\ Len(w) \in Nat /\ n - 1 \in 0..Len(w) /\ n + 1 \in 0..Len(w)
  BY Around
<1>2. w[n] = tag[1] /\ w[n + 1] = tag[2]
  BY <1>1, FindWhere DEF At
<1>3. /\ d \in Text /\ Len(d) = Len(w) - (n - 1)
      /\ \A i \in 1..(Len(w) - (n - 1)) : d[i] = w[(n - 1) + i]
  BY <1>1, DropType
<1>4. /\ e \in Text /\ Len(e) = Len(w) - (n + 1)
      /\ \A i \in 1..(Len(w) - (n + 1)) : e[i] = w[(n + 1) + i]
  BY <1>1, DropType
<1> HIDE DEF d, e
<1>5. /\ t \in Text /\ Len(t) = Len(e) + 2 /\ t[1] = tag[1] /\ t[2] = tag[2]
      /\ \A i \in 1..Len(e) : t[i + 2] = e[i]
  BY <1>4, TagBefore
<1> HIDE DEF t
<1>6. Len(d) = Len(t) /\ Len(d) \in Nat
  BY <1>1, <1>3, <1>4, <1>5
<1>7. ASSUME NEW i \in 1..Len(d) PROVE d[i] = t[i]
  <2>1. d[i] = w[(n - 1) + i]
    BY <1>3
  <2>2. CASE i = 1
    <3>1. (n - 1) + i = n
      BY <1>1, <2>2
    <3> QED BY <1>2, <1>5, <2>1, <2>2, <3>1
  <2>3. CASE i = 2
    <3>1. (n - 1) + i = n + 1
      BY <1>1, <2>3
    <3> QED BY <1>2, <1>5, <2>1, <2>3, <3>1
  <2>4. CASE i > 2
    <3> DEFINE j == i - 2
    <3>1. j \in 1..Len(e) /\ j + 2 = i /\ (n - 1) + i = (n + 1) + j
      <4> DEFINE l == Len(w)
                 m == Len(e)
      <4>1. i \in Nat /\ i <= l - (n - 1) /\ n \in Nat /\ l \in Nat /\ m = l - (n + 1)
        BY <1>1, <1>3, <1>4
      <4> HIDE DEF l, m
      <4>2. i - 2 \in Nat /\ i - 2 >= 1 /\ m \in Int
        BY <2>4, <4>1
      <4>3. i - 2 <= m
        BY <4>1
      <4>4. (i - 2) + 2 = i
        BY <4>1
      <4>5. (n - 1) + i = (n + 1) + (i - 2)
        BY <4>1
      <4>6. i - 2 \in 1..m
        BY <4>2, <4>3
      <4> QED BY <4>4, <4>5, <4>6 DEF m
    <3> HIDE DEF j
    <3>2. t[j + 2] = e[j] /\ e[j] = w[(n + 1) + j]
      BY <1>4, <1>5, <3>1
    <3> QED BY <2>1, <3>1, <3>2
  <2> QED BY <2>2, <2>3, <2>4
<1>8. d = t
  BY <1>3, <1>5, <1>6, <1>7, SameText
<1> QED BY <1>8 DEF d, e, t

LEMMA WholeType ==
    ASSUME NEW inXml \in BOOLEAN, NEW w \in Text
    PROVE  Whole(inXml, w) \in Text /\ IsTag(CallTag(inXml)) /\ Xml(inXml, w) \in AllItems
<1>1. Whole(inXml, w) \in Text
  BY Tags, TagBefore DEF Whole
<1> QED BY <1>1, Tags, FoundType DEF CallTag, Xml

LEMMA MakesType ==
    ASSUME NEW inXml \in BOOLEAN, NEW u \in Text
    PROVE  Makes(inXml, u) \in AllItems
BY TextItemsAre, ToolItemsAre DEF Makes

LEMMA NoText == TextItems(<<>>) = <<>>
BY DEF TextItems

(* Inside a block, whose opening tag has been cut off. *)
LEMMA CallsInside ==
    ASSUME NEW w \in Text
    PROVE  /\ CallsAt(CallsOpen \o w) = 1 /\ InCalls(CallsOpen \o w) = w
           /\ CallsEnd(CallsOpen \o w) = Find(CallsClose, w)
           /\ HasCalls(CallsOpen \o w) <=> Find(CallsClose, w) # 0
           /\ Take(CallsOpen \o w, CallsAt(CallsOpen \o w) - 1) = <<>>
<1> DEFINE t == CallsOpen \o w
<1>1. Find(CallsOpen, t) = 1 /\ Take(t, 0) = <<>> /\ Drop(t, 2) = w
  BY Tags, TagBefore
<1> HIDE DEF t
<1>2. 1 + 1 = 2 /\ 1 - 1 = 0
  OBVIOUS
<1>3. CallsAt(t) = 1 /\ InCalls(t) = w
  BY <1>1, <1>2 DEF CallsAt, InCalls
<1>4. CallsEnd(t) = Find(CallsClose, w)
  BY <1>3 DEF CallsEnd
<1>5. HasCalls(t) <=> Find(CallsClose, w) # 0
  BY <1>3, <1>4 DEF HasCalls
<1> QED BY <1>1, <1>2, <1>3, <1>4, <1>5 DEF t

(* At a tag the mode changes. *)
LEMMA XmlAtTag ==
    ASSUME NEW inXml \in BOOLEAN, NEW w \in Text, NEW n, n = Find(CallTag(inXml), w), n # 0
    PROVE  Xml(inXml, w) = Makes(inXml, Take(w, n - 1)) \o Xml(~inXml, Drop(w, n + 1))
<1> DEFINE a == Take(w, n - 1)
           v == Drop(w, n + 1)
<1>1. a \in Text /\ v \in Text /\ n - 1 \in 0..Len(w)
  BY WholeType, Around
<1>2. ASSUME NEW y \in Text, NEW m, m = Find(CallsClose, y), m # 0
      PROVE  Found(CallsOpen \o y) = ToolItems(Take(y, m - 1)) \o Found(Drop(y, m + 1))
  <2> DEFINE t == CallsOpen \o y
             p == ToolItems(Take(y, m - 1))
             q == Found(Drop(y, m + 1))
  <2>1. /\ t \in Text /\ HasCalls(t) /\ InCalls(t) = y /\ CallsEnd(t) = m
        /\ Take(t, CallsAt(t) - 1) = <<>>
    BY <1>2, Tags, TagBefore, CallsInside
  <2>2. AfterCalls(t) = Drop(y, m + 1)
    BY <2>1 DEF AfterCalls
  <2>3. Found(t) = TextItems(<<>>) \o (p \o q)
    <3> HIDE DEF t
    <3> QED BY <2>1, <2>2, FoundBlock
  <2>4. p \in AllItems /\ q \in AllItems
    <3>1. Take(y, m - 1) \in Text /\ Drop(y, m + 1) \in Text
      BY <1>2, Tags, Around
    <3> QED BY <3>1, ToolItemsAre, FoundType
  <2> HIDE DEF p, q
  <2>5. <<>> \o (p \o q) = p \o q
    BY <2>4 DEF AllItems
  <2> QED BY <2>3, <2>5, NoText DEF p, q
<1>3. CASE inXml
  <2>1. n = Find(CallsClose, w)
    BY <1>3 DEF CallTag
  <2>2. Found(CallsOpen \o w) = ToolItems(a) \o Found(v)
    <3> QED BY <1>2, <2>1
  <2> QED BY <1>3, <2>2 DEF Xml, Whole, Makes
<1>4. CASE ~inXml
  <2> DEFINE z == CallsOpen \o v
  <2>1. n = CallsAt(w) /\ v = InCalls(w) /\ n # 0
    BY <1>4 DEF CallTag, CallsAt, InCalls
  <2>2. CASE HasCalls(w)
    <3> DEFINE m == Find(CallsClose, v)
    <3>1. m = CallsEnd(w) /\ m # 0 /\ AfterCalls(w) = Drop(v, m + 1)
      BY <2>1, <2>2 DEF HasCalls, CallsEnd, AfterCalls
    <3> HIDE DEF v
    <3>2. Found(z) = ToolItems(Take(v, m - 1)) \o Found(Drop(v, m + 1))
      BY <1>1, <1>2, <3>1
    <3> HIDE DEF m, z
    <3>3. Found(w) = TextItems(a) \o (ToolItems(Take(v, m - 1)) \o Found(Drop(v, m + 1)))
      BY <2>1, <2>2, <3>1, FoundBlock
    <3>4. Found(w) = TextItems(a) \o Found(z)
      BY <3>2, <3>3
    <3> QED BY <1>4, <3>4 DEF Xml, Whole, Makes, z, v
  <2>3. CASE ~HasCalls(w)
    <3>1. Find(CallsClose, v) = 0
      BY <2>1, <2>3 DEF HasCalls, CallsEnd
    <3>2. z \in Text /\ ~HasCalls(z)
      <4> HIDE DEF v
      <4> QED BY <1>1, <3>1, Tags, TagBefore, CallsInside
    <3>3. Found(w) = TextItems(w) /\ Found(z) = TextItems(z)
      <4> HIDE DEF z
      <4> QED BY <2>3, <3>2, FoundPlain
    <3>4. Drop(w, n - 1) = z
      <4>1. n = Find(CallsOpen, w)
        BY <1>4 DEF CallTag
      <4> QED BY <4>1, Tags, TagThere
    <3>5. a \o z = w
      <4> HIDE DEF z
      <4> QED BY <1>1, <3>4, TakeDrop
    <3> HIDE DEF a, z
    <3>6. TextItems(a \o z) = TextItems(a) \o TextItems(z)
      BY <1>1, <3>2, TextItemsConcat
    <3>7. Found(w) = TextItems(a) \o Found(z)
      BY <3>3, <3>5, <3>6
    <3> QED BY <1>4, <3>7 DEF Xml, Whole, Makes, z, a
  <2> QED BY <2>2, <2>3
<1> QED BY <1>3, <1>4

(* Without one, and at the end, everything is text. *)
LEMMA XmlPlain ==
    ASSUME NEW inXml \in BOOLEAN, NEW w \in Text, Find(CallTag(inXml), w) = 0
    PROVE  Xml(inXml, w) = TextItems(Whole(inXml, w))
<1>1. ~HasCalls(Whole(inXml, w))
  BY CallsInside DEF Whole, CallTag, HasCalls, CallsAt
<1> QED BY <1>1, WholeType, FoundPlain DEF Xml

(* Outside of a block, what begins no tag can be cut off. *)
LEMMA XmlShift ==
    ASSUME NEW w \in Text, NEW k \in 0..Len(w), \A i \in 1..k : ~At(CallsOpen, w, i)
    PROVE  /\ Take(w, k) \in Text /\ Drop(w, k) \in Text
           /\ Xml(FALSE, w) = TextItems(Take(w, k)) \o Xml(FALSE, Drop(w, k))
<1> DEFINE a == Take(w, k)
           d == Drop(w, k)
           n == Find(CallsOpen, d)
<1>1. a \in Text /\ d \in Text /\ IsTag(CallsOpen) /\ k \in Nat
  BY TakeType, DropType, Tags DEF Text
<1>2. n \in Nat
  BY <1>1, FindWhere
<1>3. Find(CallsOpen, w) = IF n = 0 THEN 0 ELSE k + n
  BY <1>1, FindShift
<1>4. CallTag(FALSE) = CallsOpen /\ \A u : Makes(FALSE, u) = TextItems(u) /\ Whole(FALSE, u) = u
  BY DEF CallTag, Makes, Whole
<1>5. CASE n = 0
  <2>1. Xml(FALSE, w) = TextItems(w) /\ Xml(FALSE, d) = TextItems(d)
    BY <1>1, <1>3, <1>4, <1>5, XmlPlain
  <2>2. a \o d = w
    BY TakeDrop
  <2> HIDE DEF a, d
  <2>3. TextItems(a \o d) = TextItems(a) \o TextItems(d)
    BY <1>1, TextItemsConcat
  <2> QED BY <1>1, <2>1, <2>2, <2>3 DEF a, d
<1>6. CASE n > 0
  <2> DEFINE b == Take(d, n - 1)
             e == Drop(d, n + 1)
             j == k + n
             x == Xml(TRUE, e)
  <2>1. b \in Text /\ e \in Text /\ n - 1 \in 0..Len(d) /\ n + 1 \in 0..Len(d)
    <3>1. n # 0
      BY <1>6
    <3> HIDE DEF d
    <3> QED BY <1>1, <3>1, Around
  <2>2. Xml(FALSE, d) = TextItems(b) \o x
    <3>1. n # 0 /\ (~FALSE) = TRUE
      BY <1>6
    <3> HIDE DEF d
    <3>2. Xml(FALSE, d) = Makes(FALSE, b) \o Xml(~FALSE, e)
      BY <1>1, <1>4, <3>1, XmlAtTag
    <3> QED BY <1>4, <3>1, <3>2
  <2>3. Xml(FALSE, w) = TextItems(Take(w, j - 1)) \o Xml(TRUE, Drop(w, j + 1))
    <3>1. j = Find(CallsOpen, w) /\ j # 0 /\ (~FALSE) = TRUE
      BY <1>1, <1>2, <1>3, <1>6
    <3> HIDE DEF j
    <3>2. Xml(FALSE, w) = Makes(FALSE, Take(w, j - 1)) \o Xml(~FALSE, Drop(w, j + 1))
      BY <1>4, <3>1, XmlAtTag
    <3> QED BY <1>4, <3>1, <3>2
  <2>4. Take(w, j - 1) = a \o b /\ Drop(w, j + 1) = e
    <3> DEFINE p == n - 1
               q == n + 1
    <3>1. Len(d) = Len(w) - k /\ Len(w) \in Nat
      BY DropType DEF Text
    <3>2. q \in 0..Len(d) /\ p \in 0..Len(d)
      BY <2>1
    <3> HIDE DEF d, n
    <3>3. /\ p \in Nat /\ q \in Nat /\ k + p = j - 1 /\ k + q = j + 1
          /\ k + p <= Len(w) /\ k + q <= Len(w)
      BY <1>1, <1>2, <1>6, <3>1, <3>2
    <3> HIDE DEF p, q, j
    <3>4. Take(w, k + p) = Take(w, k) \o Take(Drop(w, k), p)
      BY <1>1, <3>3, TakeTake
    <3>5. Drop(Drop(w, k), q) = Drop(w, k + q)
      BY <1>1, <3>3, DropDrop
    <3> QED BY <3>3, <3>4, <3>5 DEF d, p, q
  <2>5. x \in AllItems
    BY <2>1, WholeType
  <2> HIDE DEF a, b, d, e, x, j
  <2>6. TextItems(a \o b) = TextItems(a) \o TextItems(b)
    BY <1>1, <2>1, TextItemsConcat
  <2>7. TextItems(a) \in AllItems /\ TextItems(b) \in AllItems
    BY <1>1, <2>1, TextItemsAre
  <2>8. (TextItems(a) \o TextItems(b)) \o x = TextItems(a) \o (TextItems(b) \o x)
    <3> DEFINE s == TextItems(a)
               t == TextItems(b)
    <3>1. s \in AllItems /\ t \in AllItems
      BY <2>7
    <3> HIDE DEF s, t
    <3>2. (s \o t) \o x = s \o (t \o x)
      BY <2>5, <3>1, AssociativeIn DEF AllItems
    <3> QED BY <3>2 DEF s, t
  <2>9. Xml(FALSE, w) = TextItems(a) \o Xml(FALSE, d)
    BY <2>2, <2>3, <2>4, <2>6, <2>8 DEF x
  <2> QED BY <1>1, <2>9 DEF a, d
<1>7. n = 0 \/ n > 0
  BY <1>2
<1> QED BY <1>5, <1>6, <1>7
-----------------------------------------------------------------------------
(* A plain text is read by parse_complete as by the scanner                *)

(* Neither thinking nor an element that the parsers do not read alike. *)
Simple(w) == \A i \in 1..Len(w) : w[i] # "<th" /\ (w[i] \in Elements => w[i] = Invoke)

LEMMA SimpleParts ==
    ASSUME NEW w \in Text, NEW v \in Text, NEW k \in Nat, Len(v) + k <= Len(w),
           \A i \in 1..Len(v) : v[i] = w[k + i], Simple(w)
    PROVE  Simple(v)
<1>1. Len(w) \in Nat /\ Len(v) \in Nat
  BY DEF Text
<1>2. \A i \in 1..Len(v) : k + i \in 1..Len(w)
  BY <1>1
<1> QED BY <1>1, <1>2 DEF Simple

(* What an invoke is to both parsers, and everything else. *)
Accepted == [y \in Symbols |-> IF y = Invoke THEN ToolUse(Invoke) ELSE <<>>]

LEMMA AcceptedType == Maps(Accepted, Symbols, Finding)
BY ToolUses DEF Maps, Accepted

LEMMA SimpleRegex ==
    ASSUME NEW w \in Text, \A i \in 1..Len(w) : w[i] \in Elements => w[i] = Invoke
    PROVE  ParseInvokesRegex(w) = FlattenSeq(Each(Accepted, w))
<1>1. ASSUME NEW y \in Symbols, y \in Elements => y = Invoke PROVE Tried[y] = Accepted[y]
  <2>1. CASE y = Invoke
    <3>1. y # Escaped
      BY <2>1 DEF Invoke, Escaped
    <3> QED BY <2>1, <3>1 DEF Tried, Accepted
  <2>2. CASE y # Invoke
    <3>1. y # Escaped /\ y \notin {Invoke, Nested}
      BY <1>1, <2>2 DEF Elements
    <3> QED BY <2>2, <3>1 DEF Tried, Accepted
  <2> QED BY <2>1, <2>2
<1>2. Each(Tried, w) = Each(Accepted, w)
  <2>1. DOMAIN w = 1..Len(w) /\ \A i \in DOMAIN w : w[i] \in Symbols
    BY DEF Text
  <2>2. \A i \in DOMAIN w : Tried[w[i]] = Accepted[w[i]]
    BY <1>1, <2>1
  <2> QED BY <2>2 DEF Each
<1> QED BY <1>2, RegexIs

(* In XML without other elements, an invoke is a child of the root. *)
LEMMA SimpleStrict ==
    ASSUME NEW xml \in Text, IsXml(xml), Simple(Enclosed(xml))
    PROVE  /\ Enclosed(xml) \in Text
           /\ ParseInvokesStrictly(Enclosed(xml)) = FlattenSeq(Each(Accepted, Enclosed(xml)))
<1> DEFINE v == Enclosed(xml)
<1>1. v \in Text /\ DOMAIN v = 1..Len(v)
  BY EnclosedParts DEF Text
<1>2. \A i \in DOMAIN v : Depth(v, i) >= 0
  BY DEF IsXml, Balanced
<1> HIDE DEF v
<1>3. ASSUME NEW i \in DOMAIN v PROVE Depth(v, i) = 0
  <2>1. OpenedTo(v, i) = {}
    <3>1. ASSUME NEW j \in Occurs(ThinkOpen, v) PROVE FALSE
      <4>1. j \in 1..(Len(v) - 1) /\ SubSeq(v, j, j + 1) = ThinkOpen /\ Len(v) \in Nat
        BY <1>1, <3>1 DEF Occurs, TagLen, Text
      <4>2. v[j] = ThinkOpen[1]
        BY <1>1, <4>1, Tags, Slice
      <4>3. v[j] = "<th"
        BY <4>2 DEF ThinkOpen
      <4> QED BY <4>1, <4>3 DEF Simple, v
    <3> QED BY <3>1 DEF OpenedTo
  <2>2. IsFiniteSet(ClosedTo(v, i))
    <3>1. IsFiniteSet(1..Len(v))
      BY <1>1, FS_Interval DEF Text
    <3>2. ClosedTo(v, i) \subseteq 1..Len(v)
      BY <1>1 DEF ClosedTo, Occurs, TagLen, Text
    <3> QED BY <3>1, <3>2, FS_Subset
  <2>3. Cardinality(ClosedTo(v, i)) \in Nat /\ Cardinality(OpenedTo(v, i)) = 0
    BY <2>1, <2>2, FS_CardinalityType, FS_EmptySet
  <2>4. Depth(v, i) = 0 - Cardinality(ClosedTo(v, i)) /\ Depth(v, i) >= 0
    BY <1>2, <1>3, <2>3 DEF Depth
  <2> QED BY <2>3, <2>4
<1>4. \A i \in DOMAIN v : v[i] \in Elements \ {Nested} <=> v[i] = Invoke
  <2>1. \A i \in 1..Len(v) : v[i] \in Elements => v[i] = Invoke
    BY DEF Simple, v
  <2> QED BY <1>1, <2>1 DEF Elements, Invoke, Nested
<1>5. \A i \in DOMAIN v : v[i] \in Symbols
  BY <1>1 DEF Text
<1>6. Each(Accepted, v) = [i \in DOMAIN v |->
        IF v[i] \in Elements \ {Nested} /\ Depth(v, i) = 0 THEN ToolUse(Invoke) ELSE <<>>]
  BY <1>3, <1>4, <1>5 DEF Each, Accepted
<1> QED BY <1>1, <1>6, Zenon DEF ParseInvokesStrictly, v

LEMMA NoneAccepted ==
    ASSUME NEW w \in Text, \A i \in 1..Len(w) : w[i] # Invoke
    PROVE  FlattenSeq(Each(Accepted, w)) = <<>>
<1>1. Each(Accepted, w) = [i \in DOMAIN w |-> <<>>]
  BY DEF Each, Accepted, Text
<1> QED BY <1>1, FlatEmpties

LEMMA AcceptedConcat ==
    ASSUME NEW s \in Text, NEW t \in Text
    PROVE  FlattenSeq(Each(Accepted, s \o t))
             = FlattenSeq(Each(Accepted, s)) \o FlattenSeq(Each(Accepted, t))
<1>1. Over(s, Symbols) /\ Over(t, Symbols)
  BY DEF Over, Text
<1> QED BY <1>1, AcceptedType, FlatConcat

(* Whichever of them reads it. *)
LEMMA SimpleReading ==
    ASSUME NEW xml \in Text, Simple(xml)
    PROVE  ParseInvokesFromXml(xml) = FlattenSeq(Each(Accepted, xml))
<1>1. ParseInvokesRegex(xml) = FlattenSeq(Each(Accepted, xml))
  BY SimpleRegex DEF Simple
<1>2. ASSUME IsXml(xml)
      PROVE  ParseInvokesStrictly(Enclosed(xml)) = FlattenSeq(Each(Accepted, xml))
  <2> DEFINE n == Find(CallsOpen, xml)
             v == Enclosed(xml)
             l == Len(xml)
             a == Take(xml, n + 1)
             d == Drop(xml, n + 1)
             m == l - n - 3
             c == Drop(d, m)
  <2>1. /\ n \in 1..(l - 1) /\ l \in Nat /\ v \in Text /\ Len(v) = m
        /\ \A i \in 1..Len(v) : v[i] = xml[n + 1 + i]
    BY <1>2, EnclosedParts
  <2>2. m \in Nat
    BY <2>1 DEF Text
  <2>3. n + 1 \in 0..l /\ n + 1 \in Nat
    BY <2>1
  <2>4. /\ a \in Text /\ Len(a) = n + 1 /\ \A i \in 1..(n + 1) : a[i] = xml[i]
        /\ d \in Text /\ Len(d) = l - (n + 1) /\ \A i \in 1..(l - (n + 1)) : d[i] = xml[(n + 1) + i]
        /\ a \o d = xml
    <3> HIDE DEF n, v
    <3> QED BY <2>3, TakeType, DropType, TakeDrop
  <2> HIDE DEF v, a, d
  <2>5. m \in 0..Len(d)
    BY <2>1, <2>2, <2>4
  <2> HIDE DEF n, l
  <2>6. Take(d, m) = v
    <3>1. Take(d, m) \in Text /\ Len(Take(d, m)) = m /\ \A i \in 1..m : Take(d, m)[i] = d[i]
      BY <2>4, <2>5, TakeType
    <3>2. ASSUME NEW i \in 1..m PROVE d[i] = v[i]
      <4>1. i \in 1..(l - (n + 1)) /\ (n + 1) + i = n + 1 + i /\ i \in 1..Len(v)
        BY <2>1, <2>2
      <4> HIDE DEF m
      <4> QED BY <2>1, <2>4, <4>1
    <3> QED BY <2>1, <3>1, <3>2, SameText
  <2>7. /\ c \in Text /\ Len(c) = 2 /\ c[1] = xml[l - 1] /\ c[2] = xml[l] /\ v \o c = d
    <3>1. c \in Text /\ Len(c) = Len(d) - m /\ \A i \in 1..(Len(d) - m) : c[i] = d[m + i]
      BY <2>4, <2>5, DropType
    <3>2. Len(d) - m = 2
      BY <2>1, <2>4
    <3>3. c[1] = d[m + 1] /\ c[2] = d[m + 2]
      BY <3>1, <3>2
    <3>4. /\ m + 1 \in 1..(l - (n + 1)) /\ m + 2 \in 1..(l - (n + 1))
          /\ (n + 1) + (m + 1) = l - 1 /\ (n + 1) + (m + 2) = l
      BY <2>1, <2>2
    <3>5. Take(d, m) \o Drop(d, m) = d
      BY <2>4, <2>5, TakeDrop
    <3> QED BY <2>4, <2>6, <3>1, <3>2, <3>3, <3>4, <3>5
  <2>8. \A i \in 1..Len(a) : a[i] # Invoke
    <3>1. \A i \in 1..(n - 1) : xml[i] = Blank
      <4> DEFINE p == Take(xml, n - 1)
      <4>1. n - 1 \in 0..Len(xml)
        BY <2>1 DEF l
      <4>2. p \in Text /\ Len(p) = n - 1 /\ \A i \in 1..(n - 1) : p[i] = xml[i]
        <5> HIDE DEF n
        <5> QED BY <4>1, TakeType
      <4>3. IsBlank(p)
        BY <1>2 DEF IsXml, n
      <4> HIDE DEF p, n
      <4>4. DOMAIN p = 1..(n - 1)
        BY <4>2 DEF Text
      <4> QED BY <4>2, <4>3, <4>4 DEF IsBlank, Range
    <3>2. At(CallsOpen, xml, n)
      <4>1. n # 0
        BY <2>1
      <4> QED BY <4>1, Tags, FindWhere DEF n
    <3>3. xml[n] \notin Elements /\ xml[n + 1] \notin Elements
      BY <3>2, TagSymbols DEF At
    <3>4. Invoke \in Elements /\ Invoke # Blank
      BY DEF Elements, Invoke, Blank
    <3>5. ASSUME NEW i \in 1..(n + 1) PROVE i \in 1..(n - 1) \/ i = n \/ i = n + 1
      BY <2>1
    <3> HIDE DEF n
    <3> QED BY <2>4, <3>1, <3>3, <3>4, <3>5
  <2>9. \A i \in 1..Len(c) : c[i] # Invoke
    <3>1. Find(CallsClose, xml) = l - 1
      BY <1>2, <2>1 DEF IsXml, TagLen, l
    <3>2. At(CallsClose, xml, l - 1)
      <4> DEFINE k == l - 1
      <4>1. k # 0 /\ k \in Nat /\ Find(CallsClose, xml) = k
        BY <2>1, <3>1
      <4> HIDE DEF k
      <4>2. At(CallsClose, xml, k)
        BY <4>1, Tags, FindWhere
      <4> QED BY <4>2 DEF k
    <3>3. c[1] \notin Elements /\ c[2] \notin Elements
      BY <2>1, <2>7, <3>2, TagSymbols DEF At
    <3>4. Invoke \in Elements
      BY DEF Elements
    <3> QED BY <2>7, <3>3, <3>4
  <2> HIDE DEF c, m, n
  <2> DEFINE r(x) == FlattenSeq(Each(Accepted, x))
  <2>10. r(xml) = r(a) \o r(d) /\ r(d) = r(v) \o r(c)
    <3>1. r(a \o d) = r(a) \o r(d) /\ r(v \o c) = r(v) \o r(c)
      BY <2>1, <2>4, <2>7, AcceptedConcat
    <3> QED BY <2>4, <2>7, <3>1
  <2>11. r(a) = <<>> /\ r(c) = <<>>
    BY <2>4, <2>7, <2>8, <2>9, NoneAccepted
  <2>12. r(v) \in Seq(Finding)
    BY <2>1, AcceptedType, FlatType DEF Over, Text
  <2>13. r(xml) = r(v)
    <3> DEFINE y == r(v)
    <3> HIDE DEF y, r
    <3>1. <<>> \o (y \o <<>>) = y
      BY <2>12, EmptyIn DEF y
    <3> QED BY <2>10, <2>11, <3>1 DEF y
  <2>14. Simple(v)
    <3>1. n + 1 \in Nat /\ Len(v) + (n + 1) <= l
      BY <2>1, <2>2, <2>3 DEF m
    <3>2. \A i \in 1..Len(v) : v[i] = xml[(n + 1) + i]
      BY <2>1
    <3> QED BY <2>1, <3>1, <3>2, SimpleParts DEF l
  <2> QED BY <1>2, <2>13, <2>14, SimpleStrict DEF v
<1> QED BY <1>1, <1>2 DEF ParseInvokesFromXml

(* After the first opening tag of a plain text comes no thinking. *)
LEMMA PlainInside ==
    ASSUME NEW w \in Text, Plain(w), CallsAt(w) # 0
    PROVE  InCalls(w) \in Text /\ Simple(InCalls(w))
<1> DEFINE n == CallsAt(w)
           v == InCalls(w)
<1>1. n = Find(CallsOpen, w) /\ n \in 1..(Len(w) - 1) /\ Len(w) \in Nat /\ n + 1 \in 0..Len(w)
  BY Tags, Around DEF CallsAt
<1>2. v \in Text /\ Len(v) = Len(w) - (n + 1) /\ \A i \in 1..(Len(w) - (n + 1)) : v[i] = w[(n + 1) + i]
  BY <1>1, DropType DEF InCalls
<1>3. At(CallsOpen, w, n) /\ \A i \in Nat : i < n => ~At(CallsOpen, w, i)
  BY <1>1, Tags, FindWhere
<1> HIDE DEF n, v
<1>4. ASSUME NEW i \in 1..Len(v) PROVE v[i] # "<th" /\ (v[i] \in Elements => v[i] = Invoke)
  <2> DEFINE k == (n + 1) + i
             p == Take(w, k)
  <2>1. k \in 1..Len(w) /\ k \in 0..Len(w) /\ n + 1 < k /\ v[i] = w[k] /\ k \in DOMAIN w
    BY <1>1, <1>2 DEF Text
  <2> HIDE DEF k
  <2>2. p \in Text /\ Len(p) = k /\ \A j \in 1..k : p[j] = w[j]
    BY <2>1, TakeType
  <2>3. At(CallsOpen, p, n)
    <3>1. n \in 1..(k - 1) /\ n \in 1..k /\ n + 1 \in 1..k
      BY <1>1, <2>1
    <3> HIDE DEF p
    <3> QED BY <1>3, <2>2, <3>1 DEF At
  <2>4. Find(CallsOpen, p) # 0
    <3> HIDE DEF p
    <3> QED BY <1>1, <2>2, <2>3, Tags, FindWhere
  <2> QED BY <2>1, <2>4 DEF Plain
<1> QED BY <1>2, <1>4 DEF Simple, v

LEMMA SimpleIsPlain == ASSUME NEW w \in Text, Simple(w) PROVE Plain(w)
<1>1. DOMAIN w = 1..Len(w)
  BY DEF Text
<1> QED BY <1>1 DEF Simple, Plain

LEMMA PlainBlock ==
    ASSUME NEW w \in Text, Plain(w), HasCalls(w)
    PROVE  LET v == InCalls(w)
               n == CallsEnd(w)
           IN  /\ Within(w) = ParseInvokesFromXml(CallsOpen \o Take(v, n - 1 + TagLen))
               /\ Plain(AfterCalls(w))
<1> DEFINE v == InCalls(w)
           n == CallsEnd(w)
           u == Take(v, n - 1)
           d == Drop(v, n - 1)
           e == AfterCalls(w)
           y == u \o CallsClose
           z == CallsOpen \o y
<1>1. v \in Text /\ Simple(v) /\ n = Find(CallsClose, v) /\ n # 0
  BY PlainInside DEF HasCalls, CallsEnd
<1>2. /\ n \in 1..(Len(v) - 1) /\ Len(v) \in Nat /\ n - 1 \in 0..Len(v) /\ n + 1 \in 0..Len(v)
      /\ u \in Text /\ e = Drop(v, n + 1) /\ e \in Text /\ d = CallsClose \o e
  <2>1. e = Drop(v, n + 1)
    BY DEF AfterCalls
  <2> HIDE DEF v, n, e
  <2>2. IsTag(CallsClose)
    BY Tags
  <2>3. /\ n \in 1..(Len(v) - 1) /\ Len(v) \in Nat
        /\ n - 1 \in 0..Len(v) /\ n + 1 \in 0..Len(v)
        /\ u \in Text /\ Drop(v, n + 1) \in Text
    BY <1>1, <2>2, Around
  <2>4. Drop(v, n - 1) = CallsClose \o Drop(v, n + 1)
    BY <1>1, <2>2, TagThere
  <2> QED BY <2>1, <2>3, <2>4
<1>3. /\ Len(u) = n - 1 /\ \A i \in 1..(n - 1) : u[i] = v[i]
      /\ Len(e) = Len(v) - (n + 1) /\ \A i \in 1..(Len(v) - (n + 1)) : e[i] = v[(n + 1) + i]
  <2> HIDE DEF v, n, e
  <2> QED BY <1>1, <1>2, TakeType, DropType
<1> HIDE DEF v, n, u, d, e
<1>4. Simple(u) /\ Simple(e)
  <2>1. 0 \in Nat /\ Len(u) + 0 <= Len(v) /\ \A i \in 1..Len(u) : u[i] = v[0 + i]
    BY <1>2, <1>3
  <2>2. n + 1 \in Nat /\ Len(e) + (n + 1) <= Len(v) /\ \A i \in 1..Len(e) : e[i] = v[(n + 1) + i]
    BY <1>2, <1>3
  <2> QED BY <1>1, <1>2, <2>1, <2>2, SimpleParts
<1>5. Plain(e)
  BY <1>2, <1>4, SimpleIsPlain
<1>6. Take(v, n - 1 + TagLen) = y
  <2>1. n - 1 \in Nat /\ 2 \in Nat /\ n - 1 + 2 <= Len(v) /\ TagLen = 2
    BY <1>2 DEF TagLen
  <2>2. Take(v, n - 1 + 2) = u \o Take(d, 2)
    BY <1>1, <2>1, TakeTake DEF u, d
  <2>3. CallsClose \in Text /\ Len(CallsClose) = 2 /\ 2 \in 0..Len(CallsClose)
    BY Tags DEF IsTag
  <2>4. Take(d, 2) = Take(CallsClose, 2)
    BY <1>2, <2>3, TakeOfConcat
  <2>5. Take(CallsClose, 2) = CallsClose
    <3>1. /\ Take(CallsClose, 2) \in Text /\ Len(Take(CallsClose, 2)) = 2
          /\ \A i \in 1..2 : Take(CallsClose, 2)[i] = CallsClose[i]
      BY <2>3, TakeType
    <3> QED BY <2>3, <3>1, SameText
  <2> QED BY <2>1, <2>2, <2>4, <2>5
<1>7. /\ CallsClose \in Text /\ Len(CallsClose) = 2 /\ CallsOpen \in Text /\ Len(CallsOpen) = 2
      /\ y \in Text /\ z \in Text
  BY <1>2, Tags, ConcatType DEF IsTag
<1>8. Simple(CallsOpen) /\ Simple(CallsClose)
  BY <1>7, TagSymbols DEF Simple, CallsOpen, CallsClose
<1>9. ASSUME NEW s \in Text, NEW t \in Text, Simple(s), Simple(t) PROVE Simple(s \o t)
  <2> DEFINE st == s \o t
  <2>1. /\ st \in Text /\ Len(st) = Len(s) + Len(t) /\ Len(s) \in Nat /\ Len(t) \in Nat
        /\ \A i \in 1..Len(s) : st[i] = s[i]
        /\ \A i \in 1..Len(t) : st[Len(s) + i] = t[i]
    BY ConcatType DEF Text
  <2> HIDE DEF st
  <2>2. ASSUME NEW i \in 1..Len(st)
        PROVE  i \in 1..Len(s) \/ (i - Len(s) \in 1..Len(t) /\ i = Len(s) + (i - Len(s)))
    BY <2>1
  <2>3. ASSUME NEW i \in 1..Len(st) PROVE st[i] # "<th" /\ (st[i] \in Elements => st[i] = Invoke)
    <3>1. CASE i \in 1..Len(s)
      BY <1>9, <2>1, <3>1 DEF Simple
    <3>2. ASSUME NEW j \in 1..Len(t), i = Len(s) + j
          PROVE  st[i] # "<th" /\ (st[i] \in Elements => st[i] = Invoke)
      BY <1>9, <2>1, <3>2 DEF Simple
    <3> QED BY <2>2, <3>1, <3>2
  <2> QED BY <2>3 DEF Simple, st
<1>10. Simple(y) /\ Simple(z)
  <2>1. Simple(y)
    BY <1>2, <1>4, <1>7, <1>8, <1>9
  <2> HIDE DEF y
  <2> QED BY <1>7, <1>8, <1>9, <2>1
<1>11. ParseInvokesFromXml(z) = ParseInvokesFromXml(y)
  <2> DEFINE r(x) == FlattenSeq(Each(Accepted, x))
  <2>1. r(z) = r(CallsOpen) \o r(y)
    <3> HIDE DEF y
    <3> QED BY <1>7, AcceptedConcat
  <2>2. r(CallsOpen) = <<>>
    <3>1. Invoke \in Elements /\ \A i \in 1..Len(CallsOpen) : CallsOpen[i] \notin Elements
      BY <1>7, TagSymbols DEF Elements
    <3>2. \A i \in 1..Len(CallsOpen) : CallsOpen[i] # Invoke
      BY <3>1
    <3> QED BY <1>7, <3>2, NoneAccepted
  <2>3. r(y) \in Seq(Finding)
    <3> HIDE DEF y
    <3> QED BY <1>7, AcceptedType, FlatType DEF Over, Text
  <2>4. ParseInvokesFromXml(z) = r(z) /\ ParseInvokesFromXml(y) = r(y)
    <3> HIDE DEF y, z
    <3> QED BY <1>7, <1>10, SimpleReading
  <2> DEFINE ry == r(y)
  <2> HIDE DEF z, y, r, ry
  <2>5. <<>> \o ry = ry
    BY <2>3, EmptyIn DEF ry
  <2> QED BY <2>1, <2>2, <2>4, <2>5 DEF ry
<1>12. Within(w) = ParseInvokesFromXml(y)
  BY DEF Within, ReadInside, u, v, n
<1> QED BY <1>5, <1>6, <1>11, <1>12 DEF v, n, e

LEMMA CutsAlike ==
    ASSUME NEW seen \in Parsed, Plain(seen.rest), NEW pass
    PROVE  /\ CutCallsBlock(seen, pass) = CutAsScanner(seen, pass)
           /\ Plain(CutAsScanner(seen, pass).rest)
<1> DEFINE w == seen.rest
<1>1. w \in Text
  BY DEF Parsed
<1>2. CallsAt(w) # 0 => Drop(w, CallsAt(w) + TagLen - 1) = InCalls(w)
  BY <1>1, CallsType
<1>3. CASE HasCalls(w)
  <2>1. /\ Drop(InCalls(w), CallsEnd(w) + TagLen - 1) = AfterCalls(w)
        /\ Within(w) = ParseInvokesFromXml(CallsOpen \o Take(InCalls(w), CallsEnd(w) - 1 + TagLen))
        /\ Plain(AfterCalls(w))
    BY <1>1, <1>3, CallBlockType, PlainBlock
  <2> QED BY <1>2, <1>3, <2>1
          DEF CutCallsBlock, CutAsScanner, HasCalls, CallsAt, CallsEnd, Before
<1>4. CASE ~HasCalls(w)
  <2>1. CutAsScanner(seen, pass) = seen
    BY <1>4 DEF CutAsScanner
  <2>2. CutCallsBlock(seen, pass) = seen
    BY <1>2, <1>4, Zenon DEF CutCallsBlock, HasCalls, CallsAt, CallsEnd
  <2> QED BY <2>1, <2>2
<1> QED BY <1>3, <1>4

Blocks == INSTANCE FoldTheorems WITH Op <- CutCallsBlock

(* So the loops over a plain text go hand in hand. *)
LEMMA PlainAlike == ASSUME NEW w \in Text, Plain(w) PROVE ReadAsScanner(w) = ParseComplete(w)
<1> DEFINE base == ParseStart(w)
           seq == Passes(w)
           H == {x \in Parsed : Plain(x.rest)}
           K == {k \in Seq(Nat) \X H : CallBlocks!Fold(base, k[1]) = k[2]}
<1>1. base \in H /\ seq \in Seq(Nat)
  BY NoFindings, PassesType DEF ParseStart, Parsed
<1>2. ASSUME NEW x \in H, NEW y \in Nat
      PROVE  CutCallsBlock(x, y) = CutAsScanner(x, y) /\ CutAsScanner(x, y) \in H
  BY CutsAlike, CutAsScannerType
<1> HIDE DEF H, base, seq
<1>3. << <<>>, base >> \in K
  <2>1. CallBlocks!Fold(base, <<>>) = base /\ <<>> \in Seq(Nat)
    BY CallBlocks!FoldEmpty
  <2> QED BY <1>1, <2>1
<1>4. Blocks!Tracks(K, Nat)
  <2> SUFFICES ASSUME NEW k \in K, NEW y \in Nat
               PROVE  <<k[1] \o <<y>>, CutCallsBlock(k[2], y)>> \in K
    BY DEF Blocks!Tracks
  <2> DEFINE p == k[1]
             x == k[2]
             one == <<y>>
             q == p \o one
  <2>1. p \in Seq(Nat) /\ x \in H /\ CallBlocks!Fold(base, p) = x
    OBVIOUS
  <2> HIDE DEF K, p, x
  <2>2. q \in Seq(Nat) /\ one \in Seq(Nat)
    BY <2>1
  <2> HIDE DEF one
  <2>3. CallBlocks!Fold(base, q) = CallBlocks!Fold(x, one)
    <3> DEFINE f == CallBlocks!Fold(base, p)
    <3>1. CallBlocks!Fold(base, p \o one) = CallBlocks!Fold(f, one)
      BY <2>1, <2>2, CallBlocks!FoldConcat
    <3> QED BY <2>1, <3>1
  <2>4. CallBlocks!Fold(x, one) = CutAsScanner(x, y)
    BY CallBlocks!FoldOne DEF one
  <2>5. CutCallsBlock(x, y) = CutAsScanner(x, y) /\ CutAsScanner(x, y) \in H
    BY <1>2, <2>1
  <2> HIDE DEF q
  <2> DEFINE z == CutCallsBlock(x, y)
  <2> HIDE DEF z
  <2>6. q \in Seq(Nat) /\ z \in H /\ CallBlocks!Fold(base, q) = z
    BY <2>2, <2>3, <2>4, <2>5 DEF z
  <2>7. <<q, z>> \in K
    BY <2>6 DEF K
  <2> QED BY <2>7 DEF q, z, p, x, one
<1>5. <<seq, Blocks!Fold(base, seq)>> \in K
  <2> HIDE DEF K
  <2> QED BY <1>1, <1>3, <1>4, Blocks!FoldTracks
<1>6. Blocks!Fold(base, seq) = CallBlocks!Fold(base, seq)
  BY <1>5
<1>7. \A b, s : Blocks!Fold(b, s) = FoldLeft(CutCallsBlock, b, s)
  BY Zenon DEF Blocks!Fold, FoldLeft, Blocks!MapThenFoldSet, MapThenFoldSet, Blocks!Highest, Max
<1> DEFINE seen == FoldLeft(CutCallsBlock, base, seq)
<1>8. ParseComplete(w) = seen.segments \o Rest(seen.rest)
  BY Zenon DEF ParseComplete, ParseStart, Rest, CallsAt, base, seq
<1>9. seen = CallBlocks!Fold(base, seq)
  BY <1>6, <1>7
<1> QED BY <1>8, <1>9 DEF ReadAsScanner, base, seq
-----------------------------------------------------------------------------
(* The block that a text leaves open *)

(* A block begins at i and does not end. *)
Stays(w, i) == At(CallsOpen, w, i) /\ Find(CallsClose, Drop(w, i)) = 0
LeftOpen(inXml, w) == OpenBlock(Whole(inXml, w))

(* The tools that flush() makes of it. *)
Salvaged(block) == Items(ParseInvokesFromXml(block))

LEMMA OpenBlockIs ==
    ASSUME NEW w \in Text
    PROVE  /\ (\A i \in Nat : ~Stays(w, i)) => OpenBlock(w) = <<>>
           /\ \A n \in Nat : Stays(w, n) /\ (\A i \in Nat : i < n => ~Stays(w, i))
                => OpenBlock(w) = Drop(w, n - 1)
           /\ \A m \in Nat : Stays(w, m) =>
                \E n \in Nat : Stays(w, n) /\ \A i \in Nat : i < n => ~Stays(w, i)
<1> DEFINE starts == {i \in Occurs(CallsOpen, w) : Find(CallsClose, Drop(w, i)) = 0}
<1>1. /\ starts = {i \in 1..(Len(w) - 1) : /\ SubSeq(w, i, i + 1) = CallsOpen
                                           /\ Find(CallsClose, Drop(w, i)) = 0}
      /\ starts \in SUBSET Nat
  BY DEF TagLen, Text, Occurs
<1>2. \A i \in 1..(Len(w) - 1) : SubSeq(w, i, i + 1) = CallsOpen <=> At(CallsOpen, w, i)
  BY Tags, Slice DEF At
<1>3. \A i : At(CallsOpen, w, i) => i \in 1..(Len(w) - 1)
  BY DEF At
<1>4. \A i : i \in starts <=> Stays(w, i)
  BY <1>1, <1>2, <1>3 DEF Stays
<1>5. OpenBlock(w) = IF starts = {} THEN <<>> ELSE Drop(w, Min(starts) - 1)
  BY DEF OpenBlock
<1>6. Min(starts) = CHOOSE x \in starts : \A y \in starts : x <= y
  BY DEF Min
<1> HIDE DEF starts
<1>7. (\A i \in Nat : ~Stays(w, i)) => starts = {}
  BY <1>1, <1>4
<1>8. ASSUME NEW n \in Nat, Stays(w, n), \A i \in Nat : i < n => ~Stays(w, i)
      PROVE  OpenBlock(w) = Drop(w, n - 1)
  <2>1. n \in starts /\ \A y \in starts : n <= y
    <3>1. \A y \in starts : y \in Nat /\ Stays(w, y)
      BY <1>1, <1>4
    <3> QED BY <1>4, <1>8, <3>1
  <2>2. \A x \in starts : (\A y \in starts : x <= y) => x = n
    BY <1>1, <2>1
  <2>3. Min(starts) = n
    BY <1>6, <2>1, <2>2
  <2> QED BY <1>5, <2>1, <2>3
<1>9. ASSUME NEW m \in Nat, Stays(w, m)
      PROVE  \E n \in Nat : Stays(w, n) /\ \A i \in Nat : i < n => ~Stays(w, i)
  <2>1. PICK n \in starts : \A i \in starts : n <= i
    BY <1>1, <1>4, <1>9, CutTags!LeastElement
  <2>2. n \in Nat /\ \A i \in Nat : i < n => i \notin starts
    BY <1>1, <2>1
  <2> QED BY <1>4, <2>1, <2>2
<1> QED BY <1>5, <1>7, <1>8, <1>9

LEMMA OpenBlockShift ==
    ASSUME NEW w \in Text, NEW k \in 0..Len(w), \A i \in 1..k : ~Stays(w, i)
    PROVE  OpenBlock(w) = OpenBlock(Drop(w, k))
<1> DEFINE d == Drop(w, k)
<1>1. /\ d \in Text /\ Len(d) = Len(w) - k /\ Len(w) \in Nat /\ k \in Nat /\ k <= Len(w)
      /\ \A i \in 1..(Len(w) - k) : d[i] = w[k + i]
  BY DropType DEF Text
<1>2. ASSUME NEW i \in Nat, i + k <= Len(w) PROVE Drop(d, i) = Drop(w, k + i)
  BY <1>1, <1>2, DropDrop
<1> HIDE DEF d
<1>3. ASSUME NEW i \in Nat, i > 0 PROVE At(CallsOpen, w, k + i) <=> At(CallsOpen, d, i)
  <2>1. k + i \in 1..(Len(w) - 1) <=> i \in 1..(Len(d) - 1)
    BY <1>1, <1>3
  <2>2. i \in 1..(Len(d) - 1) => /\ d[i] = w[k + i] /\ d[i + 1] = w[k + (i + 1)]
                                 /\ k + (i + 1) = (k + i) + 1
    BY <1>1
  <2> QED BY <2>1, <2>2 DEF At
<1>4. ASSUME NEW i \in Nat, i > 0 PROVE Stays(w, k + i) <=> Stays(d, i)
  <2>1. At(CallsOpen, d, i) => i + k <= Len(w)
    BY <1>1 DEF At
  <2> QED BY <1>2, <1>3, <1>4, <2>1 DEF Stays
<1>5. \A x : (\A i \in Nat : ~Stays(x, i)) \/ (\E m \in Nat : Stays(x, m))
  OBVIOUS
<1>6. \A x, i : Stays(x, i) => i > 0
  BY DEF Stays, At
<1>7. CASE \A i \in Nat : ~Stays(d, i)
  <2>1. ASSUME NEW i \in Nat, Stays(w, i) PROVE FALSE
    <3>1. i > k
      BY <1>6, <2>1
    <3>2. i - k \in Nat /\ i - k > 0 /\ k + (i - k) = i
      BY <1>1, <3>1
    <3> QED BY <1>4, <1>7, <2>1, <3>2
  <2> QED BY <1>1, <1>7, <2>1, OpenBlockIs DEF d
<1>8. ASSUME NEW m \in Nat, Stays(d, m) PROVE OpenBlock(w) = OpenBlock(d)
  <2>1. PICK n \in Nat : Stays(d, n) /\ \A i \in Nat : i < n => ~Stays(d, i)
    BY <1>1, <1>8, OpenBlockIs
  <2>2. OpenBlock(d) = Drop(d, n - 1)
    BY <1>1, <2>1, OpenBlockIs
  <2>3. n > 0 /\ n <= Len(d) /\ Len(d) \in Nat
    BY <1>1, <2>1 DEF Stays, At
  <2>4. Stays(w, k + n) /\ k + n \in Nat
    BY <1>1, <1>4, <2>1, <2>3
  <2>5. ASSUME NEW i \in Nat, i < k + n, Stays(w, i) PROVE FALSE
    <3>1. i > k
      BY <1>6, <2>5
    <3>2. i - k \in Nat /\ i - k > 0 /\ k + (i - k) = i /\ i - k < n
      BY <1>1, <2>5, <3>1
    <3> QED BY <1>4, <2>1, <2>5, <3>2
  <2>6. OpenBlock(w) = Drop(w, (k + n) - 1)
    BY <2>4, <2>5, OpenBlockIs
  <2> DEFINE p == n - 1
  <2>7. p \in Nat /\ p + k <= Len(w) /\ (k + n) - 1 = k + p
    BY <1>1, <2>3
  <2> HIDE DEF p
  <2>8. Drop(d, p) = Drop(w, k + p)
    BY <1>2, <2>7
  <2> QED BY <2>2, <2>6, <2>7, <2>8 DEF p
<1> QED BY <1>5, <1>7, <1>8 DEF d

(* At a tag the mode changes, and what is left open remains. *)
LEMMA OpenAtTag ==
    ASSUME NEW inXml \in BOOLEAN, NEW w \in Text, NEW n, n = Find(CallTag(inXml), w), n # 0
    PROVE  LeftOpen(inXml, w) = LeftOpen(~inXml, Drop(w, n + 1))
<1> DEFINE v == Drop(w, n + 1)
<1>1. /\ v \in Text /\ n \in 1..(Len(w) - 1) /\ Len(w) \in Nat /\ n \in Nat
      /\ n - 1 \in 0..Len(w) /\ n + 1 \in 0..Len(w)
  BY WholeType, Around
<1>2. At(CallTag(inXml), w, n) /\ \A i \in Nat : i < n => ~At(CallTag(inXml), w, i)
  BY <1>1, WholeType, FindWhere
<1>3. CASE ~inXml
  <2>1. n = Find(CallsOpen, w) /\ IsTag(CallsOpen)
    BY <1>3, Tags DEF CallTag
  <2>2. Drop(w, n - 1) = CallsOpen \o v
    BY <1>1, <2>1, TagThere
  <2>3. \A i \in 1..(n - 1) : ~Stays(w, i)
    BY <1>1, <1>2, <1>3 DEF CallTag, Stays
  <2> DEFINE k == n - 1
  <2>4. OpenBlock(w) = OpenBlock(Drop(w, k))
    <3>1. k \in 0..Len(w) /\ \A i \in 1..k : ~Stays(w, i)
      BY <1>1, <2>3
    <3> HIDE DEF k
    <3> QED BY <3>1, OpenBlockShift
  <2> QED BY <1>3, <2>2, <2>4 DEF LeftOpen, Whole
<1>4. CASE inXml
  <2> DEFINE z == CallsOpen \o w
             k == n + 3
  <2>1. /\ z \in Text /\ Len(z) = Len(w) + 2 /\ z[1] = CallsOpen[1] /\ z[2] = CallsOpen[2]
        /\ (\A i \in 1..Len(w) : z[i + 2] = w[i]) /\ Drop(z, 2) = w
    BY Tags, TagBefore
  <2> HIDE DEF z, v
  <2>2. k \in 0..Len(z) /\ 2 \in Nat /\ n + 1 \in Nat /\ 2 + (n + 1) = k /\ k <= Len(z)
    BY <1>1, <2>1
  <2>3. z[n + 2] = CallsClose[1] /\ z[n + 3] = CallsClose[2]
    <3>1. w[n] = CallsClose[1] /\ w[n + 1] = CallsClose[2]
      BY <1>2, <1>4 DEF At, CallTag
    <3>2. n \in 1..Len(w) /\ n + 1 \in 1..Len(w) /\ (n + 1) + 2 = n + 3
      BY <1>1
    <3> QED BY <2>1, <3>1, <3>2
  <2>4. ASSUME NEW i \in 1..k, Stays(z, i) PROVE FALSE
    <3>1. i \in 1..(Len(z) - 1) /\ z[i] = CallsOpen[1]
      BY <2>4 DEF Stays, At
    <3>2. i # n + 2 /\ i # n + 3
      BY <2>3, <3>1, TagSymbols
    <3> DEFINE d == Drop(z, i)
               j == (n + 2) - i
    <3>3. i <= n + 1 /\ i \in 0..Len(z) /\ i \in Nat /\ Len(z) \in Nat
      BY <1>1, <2>1, <2>4, <3>1, <3>2
    <3>4. d \in Text /\ Len(d) = Len(z) - i /\ \A m \in 1..(Len(z) - i) : d[m] = z[i + m]
      BY <2>1, <3>3, DropType
    <3>5. j \in Nat /\ j \in 1..(Len(d) - 1) /\ i + j = n + 2 /\ i + (j + 1) = n + 3
          /\ j \in 1..(Len(z) - i) /\ j + 1 \in 1..(Len(z) - i)
      <4> DEFINE l == Len(z)
                 m == Len(d)
      <4>1. /\ i <= n + 1 /\ i \in Nat /\ i >= 1 /\ n \in Nat /\ l \in Nat /\ n + 3 <= l
            /\ m = l - i
        BY <1>1, <2>1, <3>1, <3>3, <3>4
      <4> HIDE DEF l, m
      <4>2. j \in Nat /\ j >= 1 /\ j <= m - 1 /\ m \in Nat
        BY <4>1
      <4>3. i + j = n + 2 /\ i + (j + 1) = n + 3 /\ j + 1 <= l - i
        BY <4>1
      <4> HIDE DEF j
      <4> QED BY <4>1, <4>2, <4>3 DEF l, m
    <3> HIDE DEF d, j
    <3>6. At(CallsClose, d, j)
      BY <2>3, <3>4, <3>5 DEF At
    <3>7. Find(CallsClose, d) # 0
      BY <3>4, <3>5, <3>6, Tags, FindWhere
    <3> QED BY <2>4, <3>7 DEF Stays, d
  <2>5. OpenBlock(z) = OpenBlock(Drop(z, k))
    <3> HIDE DEF k
    <3> QED BY <2>1, <2>2, <2>4, OpenBlockShift
  <2>6. Drop(z, k) = v
    <3>1. Drop(Drop(z, 2), n + 1) = Drop(z, 2 + (n + 1))
      BY <2>1, <2>2, DropDrop
    <3> QED BY <2>1, <2>2, <3>1 DEF v
  <2> QED BY <1>4, <2>5, <2>6 DEF LeftOpen, Whole, z, v
<1> QED BY <1>3, <1>4

(* Without one. *)
LEMMA OpenPlain ==
    ASSUME NEW inXml \in BOOLEAN, NEW w \in Text, Find(CallTag(inXml), w) = 0
    PROVE  LeftOpen(inXml, w) = IF inXml THEN CallsOpen \o w ELSE <<>>
<1>1. \A i \in Nat : ~At(CallTag(inXml), w, i)
  BY WholeType, FindWhere
<1>2. CASE ~inXml
  <2>1. \A i \in Nat : ~Stays(w, i)
    BY <1>1, <1>2 DEF CallTag, Stays
  <2> QED BY <1>2, <2>1, OpenBlockIs DEF LeftOpen, Whole
<1>3. CASE inXml
  <2> DEFINE z == CallsOpen \o w
             d == Drop(z, 1)
  <2>1. /\ z \in Text /\ Len(z) = Len(w) + 2 /\ z[1] = CallsOpen[1] /\ z[2] = CallsOpen[2]
        /\ Drop(z, 2) = w /\ Len(w) \in Nat
    <3>1. Len(w) \in Nat
      BY DEF Text
    <3> QED BY <3>1, Tags, TagBefore
  <2> HIDE DEF z
  <2>2. 1 \in 0..Len(z) /\ 1 \in 1..(Len(z) - 1) /\ 1 \in 1..(Len(z) - 1) /\ 1 + 1 <= Len(z)
        /\ 1 + 1 = 2 /\ 1 \in Nat
    BY <2>1
  <2>3. d \in Text /\ Len(d) = Len(z) - 1 /\ d[1] = z[2]
    BY <2>1, <2>2, DropType
  <2>4. Drop(d, 1) = w
    <3>1. Drop(Drop(z, 1), 1) = Drop(z, 1 + 1)
      BY <2>1, <2>2, DropDrop
    <3> QED BY <2>1, <2>2, <3>1
  <2> HIDE DEF d
  <2>5. Find(CallsClose, d) = 0
    <3>1. \A i \in 1..1 : ~At(CallsClose, d, i)
      BY <2>1, <2>3, TagSymbols DEF At
    <3>2. 1 \in 0..Len(d)
      BY <2>1, <2>3
    <3>3. Find(CallsClose, d) = IF Find(CallsClose, Drop(d, 1)) = 0 THEN 0
                                ELSE 1 + Find(CallsClose, Drop(d, 1))
      BY <2>3, <3>1, <3>2, Tags, FindShift
    <3>4. Find(CallsClose, w) = 0
      BY <1>3 DEF CallTag
    <3> QED BY <2>4, <3>3, <3>4
  <2>6. Stays(z, 1)
    BY <2>1, <2>2, <2>5 DEF Stays, At, d
  <2>7. \A i \in Nat : i < 1 => ~Stays(z, i)
    BY DEF Stays, At
  <2>8. OpenBlock(z) = Drop(z, 1 - 1)
    BY <2>1, <2>6, <2>7, OpenBlockIs
  <2>9. Drop(z, 1 - 1) = z
    <3>1. 1 - 1 = 0 /\ 0 \in 0..Len(z)
      BY <2>1
    <3>2. Drop(z, 0) \in Text /\ Len(Drop(z, 0)) = Len(z) - 0
          /\ \A i \in 1..(Len(z) - 0) : Drop(z, 0)[i] = z[0 + i]
      BY <2>1, <3>1, DropType
    <3>3. Len(z) - 0 = Len(z) /\ \A i \in 1..Len(z) : 0 + i = i
      BY <2>1
    <3>4. Drop(z, 0) = z
      BY <2>1, <3>2, <3>3, SameText
    <3> QED BY <3>1, <3>4
  <2> QED BY <1>3, <2>8, <2>9 DEF LeftOpen, Whole, z
<1> QED BY <1>2, <1>3

(* Outside of a block, what begins no tag makes no difference. *)
LEMMA OpenShift ==
    ASSUME NEW w \in Text, NEW k \in 0..Len(w), \A i \in 1..k : ~At(CallsOpen, w, i)
    PROVE  LeftOpen(FALSE, w) = LeftOpen(FALSE, Drop(w, k))
<1>1. \A i \in 1..k : ~Stays(w, i)
  BY DEF Stays
<1> QED BY <1>1, OpenBlockShift DEF LeftOpen, Whole
-----------------------------------------------------------------------------
(* The loops of the scanner *)

(* The buffer holds no tag that the scanner looks for. *)
Cleared(x) == Find(CallTag(x.inXml), x.buffer) = 0

(* What was found, and what will be made of the buffer and of t. *)
XmlTotal(fed, t) == Items(fed.segments) \o Xml(fed.scanner.inXml, fed.scanner.buffer \o t)
XmlOpen(fed, t) == LeftOpen(fed.scanner.inXml, fed.scanner.buffer \o t)

SameMeaning(fed, fed2) == \A t \in Text :
    XmlTotal(fed, t) = XmlTotal(fed2, t) /\ XmlOpen(fed, t) = XmlOpen(fed2, t)

LEMMA ItemsAssociative ==
    ASSUME NEW s \in AllItems, NEW t \in AllItems, NEW u \in AllItems
    PROVE  (s \o t) \o u = s \o (t \o u) /\ s \o t \in AllItems
<1> DEFINE S == Kinds \X Symbols
<1>1. s \in Seq(S) /\ t \in Seq(S) /\ u \in Seq(S)
  BY DEF AllItems
<1>2. s \o t \in Seq(S)
  <2> HIDE DEF S
  <2> QED BY <1>1
<1> QED BY <1>1, <1>2, AssociativeIn DEF AllItems

(* To find segments is to move them from what comes to what has come. *)
LEMMA FindMoves ==
    ASSUME NEW segments \in Findings, NEW more \in Findings, NEW m \in AllItems
    PROVE  /\ segments \o more \in Findings
           /\ Items(segments \o more) \o m = Items(segments) \o (Items(more) \o m)
<1>1. /\ segments \o more \in Findings
      /\ Items(segments \o more) = Items(segments) \o Items(more)
  BY FindingItemsConcat
<1>2. Items(segments) \in AllItems /\ Items(more) \in AllItems
  BY FindingItems
<1>3. (Items(segments) \o Items(more)) \o m = Items(segments) \o (Items(more) \o m)
  BY <1>2, ItemsAssociative
<1> QED BY <1>1, <1>3

LEMMA CutCallsMoves ==
    ASSUME NEW fed \in ScanFeds, NEW pass
    PROVE  /\ CutCalls(fed, pass) \in ScanFeds /\ SameMeaning(CutCalls(fed, pass), fed)
           /\ ~Cleared(fed.scanner) =>
                Len(CutCalls(fed, pass).scanner.buffer) + 2 <= Len(fed.scanner.buffer)
           /\ Cleared(fed.scanner) => CutCalls(fed, pass) = fed
<1> DEFINE b == fed.scanner.buffer
           i == fed.scanner.inXml
           segs == fed.segments
           n == Find(CallTag(i), b)
           cut == CutCalls(fed, pass)
<1>1. b \in Text /\ i \in BOOLEAN /\ segs \in Findings /\ IsTag(CallTag(i))
  BY ScanFedParts, WholeType, EmptyText
<1>2. n \in Nat
  BY <1>1, FindWhere
<1>3. CASE n = 0
  <2>1. cut = fed
    BY <1>3, Zenon DEF CutCalls, CallTag
  <2> QED BY <1>3, <2>1 DEF Cleared, SameMeaning
<1>4. CASE n # 0
  <2> DEFINE u == Take(b, n - 1)
             v == Drop(b, n + 1)
             more == IF i THEN ReadInside(u) ELSE Segment("text", u)
             all == segs \o more
  <2>1. cut = [scanner |-> [buffer |-> v, inXml |-> ~i], segments |-> all]
    <3>1. n + TagLen - 1 = n + 1
      BY <1>2 DEF TagLen
    <3> QED BY <1>4, <3>1 DEF CutCalls, CallTag, ReadInside
  <2>2. /\ n - 1 \in 0..Len(b) /\ n + 1 \in 0..Len(b) /\ Len(b) \in Nat
        /\ u \in Text /\ v \in Text /\ Len(v) = Len(b) - n - 1
    <3> HIDE DEF b, i
    <3> QED BY <1>1, <1>4, Around
  <2>3. more \in Findings /\ Items(more) = Makes(i, u)
    BY <2>2, ReadType, TextItemsAre DEF Makes, ToolItems
  <2> HIDE DEF more
  <2>4. all \in Findings
    BY <1>1, <2>3, FindingsConcat
  <2>5. cut \in ScanFeds /\ cut.scanner.buffer = v
    <3> HIDE DEF v, i, all, cut
    <3> QED BY <1>1, <2>1, <2>2, <2>4, ScanFedMade
  <2>6. Len(v) + 2 <= Len(b)
    BY <1>2, <1>4, <2>2
  <2>7. ASSUME NEW t \in Text PROVE XmlTotal(cut, t) = XmlTotal(fed, t) /\ XmlOpen(cut, t) = XmlOpen(fed, t)
    <3> DEFINE m == Xml(~i, v \o t)
               w == b \o t
    <3>1. v \o t \in Text /\ w \in Text
      BY <1>1, <2>2, ConcatType
    <3>2. m \in AllItems
      BY <1>1, <3>1, WholeType
    <3>3. n = Find(CallTag(i), w) /\ Take(w, n - 1) = u /\ Drop(w, n + 1) = v \o t
      <4>1. Find(CallTag(i), w) = n
        BY <1>1, <1>2, <1>4, FindExtends
      <4> HIDE DEF n
      <4> QED BY <1>1, <2>2, <4>1, TakeOfConcat, DropOfConcat
    <3>4. Xml(i, w) = Makes(i, u) \o m /\ LeftOpen(i, w) = LeftOpen(~i, v \o t)
      <4> HIDE DEF n, w
      <4>1. /\ Xml(i, w) = Makes(i, Take(w, n - 1)) \o Xml(~i, Drop(w, n + 1))
            /\ LeftOpen(i, w) = LeftOpen(~i, Drop(w, n + 1))
        <5>1. n = Find(CallTag(i), w) /\ n # 0 /\ w \in Text /\ i \in BOOLEAN
          BY <1>1, <1>4, <3>1, <3>3 DEF n
        <5> HIDE DEF i
        <5> QED BY <5>1, XmlAtTag, OpenAtTag
      <4> QED BY <3>3, <4>1
    <3>5. XmlTotal(cut, t) = Items(all) \o m /\ XmlOpen(cut, t) = LeftOpen(~i, v \o t)
      <4> HIDE DEF v, i, all, cut
      <4> QED BY <2>1 DEF XmlTotal, XmlOpen
    <3>6. Items(all) \o m = Items(segs) \o (Items(more) \o m)
      <4> HIDE DEF m, segs
      <4> QED BY <1>1, <2>3, <3>2, FindMoves
    <3> QED BY <2>3, <3>4, <3>5, <3>6 DEF XmlTotal, XmlOpen
  <2> QED BY <1>4, <2>5, <2>6, <2>7 DEF Cleared, SameMeaning
<1> QED BY <1>3, <1>4

LEMMA ScanSafeMoves ==
    ASSUME NEW fed \in ScanFeds, Cleared(fed.scanner)
    PROVE  /\ ScanSafe(fed) \in ScanFeds /\ SameMeaning(ScanSafe(fed), fed)
           /\ Cleared(ScanSafe(fed).scanner) /\ HoldsLittle(ScanSafe(fed).scanner)
<1> DEFINE b == fed.scanner.buffer
           i == fed.scanner.inXml
           segs == fed.segments
           k == Len(b) - 1
           safe == ScanSafe(fed)
<1>1. b \in Text /\ i \in BOOLEAN /\ segs \in Findings /\ Len(b) \in Nat
  BY ScanFedParts DEF Text
<1>2. SafeLength(b) = k
  BY <1>1 DEF SafeLength, TagLen
<1>3. CASE i \/ k <= 0
  <2>1. safe = fed
    BY <1>2, <1>3 DEF ScanSafe
  <2>2. HoldsLittle(fed.scanner)
    BY <1>1, <1>3 DEF HoldsLittle
  <2> QED BY <2>1, <2>2 DEF SameMeaning
<1>4. CASE ~i /\ k > 0
  <2> DEFINE u == Take(b, k)
             v == Drop(b, k)
             more == Segment("text", u)
             all == segs \o more
  <2>1. safe = [scanner |-> [buffer |-> v, inXml |-> FALSE], segments |-> all]
    <3>1. [fed.scanner EXCEPT !.buffer = Drop(@, k)] = [buffer |-> v, inXml |-> i]
      BY ScanFedParts DEF Scanners
    <3>2. ~(SafeLength(b) <= 0)
      BY <1>1, <1>2, <1>4
    <3> HIDE DEF k
    <3>3. safe = [scanner |-> [fed.scanner EXCEPT !.buffer = Drop(@, k)], segments |-> all]
      BY <1>2, <1>4, <3>2, Zenon DEF ScanSafe
    <3>4. i = FALSE
      BY <1>1, <1>4
    <3> HIDE DEF u, i, more, safe, all
    <3>5. safe = [scanner |-> [buffer |-> v, inXml |-> i], segments |-> all]
      BY <3>1, <3>3
    <3> QED BY <3>4, <3>5
  <2>2. k \in 0..Len(b)
    BY <1>1, <1>4
  <2>3. u \in Text /\ v \in Text /\ Len(v) < 2 /\ Len(v) \in Nat
    <3>1. u \in Text /\ v \in Text /\ Len(v) = Len(b) - k
      BY <1>1, <2>2, TakeType, DropType
    <3>2. Len(b) - k = 1
      BY <1>1
    <3> HIDE DEF k, u, v
    <3> QED BY <3>1, <3>2
  <2>4. more \in Findings /\ Items(more) = TextItems(u)
    BY <2>3, TextItemsAre
  <2> HIDE DEF more
  <2>5. all \in Findings
    BY <1>1, <2>4, FindingsConcat
  <2>6. safe \in ScanFeds /\ safe.scanner.buffer = v /\ safe.scanner.inXml = FALSE
    <3> HIDE DEF v, all, safe
    <3> QED BY <2>1, <2>3, <2>5, ScanFedMade
  <2>7. Cleared(safe.scanner)
    <3> DEFINE n == Find(CallsOpen, v)
    <3>1. n # 0 => n \in 1..(Len(v) - 1)
      <4> HIDE DEF v
      <4> QED BY <2>3, Tags, Around
    <3>2. n = 0
      BY <2>3, <3>1
    <3> QED BY <2>6, <3>2 DEF Cleared, CallTag
  <2>8. ASSUME NEW t \in Text PROVE XmlTotal(safe, t) = XmlTotal(fed, t) /\ XmlOpen(safe, t) = XmlOpen(fed, t)
    <3> DEFINE m == Xml(FALSE, v \o t)
               w == b \o t
    <3>1. v \o t \in Text /\ w \in Text /\ k \in 0..Len(w)
      <4>1. w \in Text /\ Len(w) = Len(b) + Len(t) /\ Len(t) \in Nat
        BY <1>1, ConcatType DEF Text
      <4> QED BY <1>1, <2>2, <2>3, <4>1, ConcatType
    <3>2. m \in AllItems
      BY <3>1, WholeType
    <3>3. Take(w, k) = u /\ Drop(w, k) = v \o t
      <4> HIDE DEF k
      <4> QED BY <1>1, <2>2, TakeOfConcat, DropOfConcat
    <3>4. \A j \in 1..k : ~At(CallsOpen, w, j)
      <4>1. Find(CallsOpen, b) = 0
        BY <1>4 DEF Cleared, CallTag
      <4> QED BY <1>1, <4>1, Tags, NoneBegins
    <3>5. Xml(FALSE, w) = TextItems(u) \o m /\ LeftOpen(FALSE, w) = LeftOpen(FALSE, v \o t)
      <4> HIDE DEF w, k
      <4>1. /\ Xml(FALSE, w) = TextItems(Take(w, k)) \o Xml(FALSE, Drop(w, k))
            /\ LeftOpen(FALSE, w) = LeftOpen(FALSE, Drop(w, k))
        BY <3>1, <3>4, XmlShift, OpenShift
      <4> QED BY <3>3, <4>1
    <3>6. XmlTotal(safe, t) = Items(all) \o m /\ XmlOpen(safe, t) = LeftOpen(FALSE, v \o t)
      <4> HIDE DEF v, all, safe
      <4> QED BY <2>1 DEF XmlTotal, XmlOpen
    <3>7. Items(all) \o m = Items(segs) \o (Items(more) \o m)
      <4> HIDE DEF m, segs
      <4> QED BY <1>1, <2>4, <3>2, FindMoves
    <3>8. XmlTotal(fed, t) = Items(segs) \o Xml(FALSE, w) /\ XmlOpen(fed, t) = LeftOpen(FALSE, w)
      BY <1>1, <1>4 DEF XmlTotal, XmlOpen
    <3> QED BY <2>4, <3>5, <3>6, <3>7, <3>8
  <2> QED BY <2>3, <2>6, <2>7, <2>8 DEF SameMeaning, HoldsLittle
<1>5. ~(k <= 0) => k > 0
  BY <1>1
<1> QED BY <1>3, <1>4, <1>5

Scanning(x) == [scanner |-> x, segments |-> <<>>]

LEMMA ScanLoopKeeps ==
    ASSUME NEW x \in Scanners
    PROVE  /\ ScanLoop(x) \in ScanFeds /\ SameMeaning(ScanLoop(x), Scanning(x))
           /\ Cleared(ScanLoop(x).scanner) /\ HoldsLittle(ScanLoop(x).scanner)
<1> DEFINE b == x.buffer
           start == Scanning(x)
           seq == Passes(b)
           cut == CallCuts!Fold(start, seq)
           D == {fed \in ScanFeds : Cleared(fed.scanner)}
           size == [fed \in ScanFeds |-> Len(fed.scanner.buffer)]
           H == {fed \in ScanFeds : SameMeaning(fed, start)}
<1>1. b \in Text /\ Len(b) \in Nat /\ x.inXml \in BOOLEAN /\ <<>> \in Findings
  BY NoFindings DEF Scanners, Text
<1>2. start \in ScanFeds /\ start.scanner = x /\ start.segments = <<>>
  BY <1>1 DEF Scanning, ScanFeds
<1>3. seq \in Seq(Nat) /\ Len(b) < 2 * (Len(seq) + 1)
  BY <1>1, PassesType
<1>4. cut \in ScanFeds /\ cut \in D
  <2>1. size[start] < 2 * (Len(seq) + 1) /\ size \in [ScanFeds -> Nat]
    <3>1. size[start] = Len(b)
      BY <1>2
    <3>2. \A fed \in ScanFeds : Len(fed.scanner.buffer) \in Nat
      BY ScanFedParts DEF Text
    <3> HIDE DEF start, b, seq
    <3> QED BY <1>3, <3>1, <3>2
  <2>2. CallCuts!Keeps(ScanFeds, Nat) /\ CallCuts!Stops(D, ScanFeds, Nat)
    BY CutCallsMoves DEF CallCuts!Keeps, CallCuts!Stops
  <2>3. CallCuts!Shrinks(size, D, ScanFeds, Nat)
    <3>1. ASSUME NEW y \in ScanFeds, size[y] < 2 PROVE y \in D
      <4>1. ASSUME ~Cleared(y.scanner) PROVE FALSE
        <5>1. Len(CutCalls(y, 1).scanner.buffer) + 2 <= Len(y.scanner.buffer)
              /\ CutCalls(y, 1).scanner.buffer \in Text
          BY <4>1, CutCallsMoves, ScanFedParts
        <5>2. Len(CutCalls(y, 1).scanner.buffer) \in Nat /\ Len(y.scanner.buffer) \in Nat
          BY <5>1, ScanFedParts DEF Text
        <5> QED BY <3>1, <5>1, <5>2
      <4> QED BY <4>1
    <3>2. ASSUME NEW y \in ScanFeds, NEW z \in Nat, y \notin D
          PROVE  size[CutCalls(y, z)] + 2 <= size[y]
      BY <3>2, CutCallsMoves
    <3> QED BY <3>1, <3>2 DEF CallCuts!Shrinks
  <2> HIDE DEF D, size, start, seq
  <2> QED BY <1>2, <1>3, <2>1, <2>2, <2>3, CallCuts!LoopEnds
<1>5. cut \in H
  <2>1. CallCuts!Keeps(H, Nat)
    <3>1. ASSUME NEW y \in H, NEW z \in Nat PROVE CutCalls(y, z) \in H
      BY CutCallsMoves DEF SameMeaning
    <3> QED BY <3>1 DEF CallCuts!Keeps
  <2>2. start \in H
    BY <1>2 DEF SameMeaning
  <2> HIDE DEF H, start, seq
  <2> QED BY <1>3, <2>1, <2>2, CallCuts!FoldInSet
<1>6. ScanLoop(x) = ScanSafe(cut)
  <2>1. \A base, sq : CallCuts!Fold(base, sq) = FoldLeft(CutCalls, base, sq)
    BY Zenon DEF CallCuts!Fold, FoldLeft, CallCuts!MapThenFoldSet,
                 MapThenFoldSet, CallCuts!Highest, Max
  <2> QED BY <2>1, Zenon DEF ScanLoop, Scanning
<1>7. SameMeaning(cut, start) /\ Cleared(cut.scanner)
  BY <1>4, <1>5
<1> HIDE DEF cut, start
<1>8. /\ ScanSafe(cut) \in ScanFeds /\ SameMeaning(ScanSafe(cut), cut)
      /\ Cleared(ScanSafe(cut).scanner) /\ HoldsLittle(ScanSafe(cut).scanner)
  BY <1>4, <1>7, ScanSafeMoves
<1>9. SameMeaning(ScanSafe(cut), start)
  BY <1>7, <1>8 DEF SameMeaning
<1> QED BY <1>6, <1>8, <1>9 DEF start

LEMMA ScanFeedMoves ==
    ASSUME NEW x \in Scanners, HoldsLittle(x), Cleared(x), NEW content \in Text
    PROVE  /\ ScanFeed(x, content) \in ScanFeds
           /\ Cleared(ScanFeed(x, content).scanner) /\ HoldsLittle(ScanFeed(x, content).scanner)
           /\ \A t \in Text :
                /\ XmlTotal(ScanFeed(x, content), t) = Xml(x.inXml, x.buffer \o (content \o t))
                /\ XmlOpen(ScanFeed(x, content), t) = LeftOpen(x.inXml, x.buffer \o (content \o t))
<1> DEFINE b == x.buffer
           i == x.inXml
           c == b \o content
           x2 == [buffer |-> c, inXml |-> i]
<1>1. b \in Text /\ i \in BOOLEAN /\ c \in Text
  BY ConcatType DEF Scanners
<1>2. x2 \in Scanners /\ x2.buffer = c /\ x2.inXml = i
  <2> HIDE DEF c, i
  <2> QED BY <1>1 DEF Scanners
<1>3. ASSUME NEW y \in Scanners, y.inXml = i, NEW t \in Text
      PROVE  /\ XmlTotal(Scanning(y), t) = Xml(i, y.buffer \o t)
             /\ XmlOpen(Scanning(y), t) = LeftOpen(i, y.buffer \o t)
  <2> DEFINE m == Xml(i, y.buffer \o t)
  <2>1. m \in AllItems
    <3>1. y.buffer \o t \in Text
      BY ConcatType DEF Scanners
    <3> QED BY <1>1, <3>1, WholeType
  <2>2. XmlTotal(Scanning(y), t) = Items(<<>>) \o m
    BY <1>3 DEF XmlTotal, Scanning
  <2>3. XmlOpen(Scanning(y), t) = LeftOpen(i, y.buffer \o t)
    BY <1>3 DEF XmlOpen, Scanning
  <2> HIDE DEF m
  <2>4. <<>> \o m = m
    BY <2>1, EmptyIn DEF AllItems
  <2> QED BY <2>2, <2>3, <2>4, ItemsEmpty DEF m
<1>4. ASSUME NEW t \in Text PROVE c \o t = b \o (content \o t)
  <2>1. b \in Text /\ content \in Text /\ t \in Text
    BY <1>1
  <2> QED BY <2>1, Associative
<1>5. CASE content = <<>>
  <2>1. ScanFeed(x, content) = Scanning(x)
    BY <1>5 DEF ScanFeed, Scanning
  <2>2. Scanning(x) \in ScanFeds /\ Scanning(x).scanner = x
    BY NoFindings DEF Scanning, ScanFeds
  <2>3. \A t \in Text : content \o t = t
    BY <1>5, EmptyText
  <2> QED BY <1>3, <2>1, <2>2, <2>3
<1>6. CASE content # <<>>
  <2>1. ScanFeed(x, content) = ScanLoop(x2)
    <3>1. \A y : [x EXCEPT !.buffer = y] = [buffer |-> y, inXml |-> i]
      BY DEF Scanners
    <3>2. [x EXCEPT !.buffer = @ \o content] = x2
      BY <3>1
    <3> QED BY <1>6, <3>2 DEF ScanFeed
  <2> HIDE DEF x2
  <2>2. /\ ScanLoop(x2) \in ScanFeds /\ SameMeaning(ScanLoop(x2), Scanning(x2))
        /\ Cleared(ScanLoop(x2).scanner) /\ HoldsLittle(ScanLoop(x2).scanner)
    BY <1>2, ScanLoopKeeps
  <2>3. ASSUME NEW t \in Text
        PROVE  /\ XmlTotal(ScanLoop(x2), t) = Xml(i, b \o (content \o t))
               /\ XmlOpen(ScanLoop(x2), t) = LeftOpen(i, b \o (content \o t))
    <3>1. /\ XmlTotal(ScanLoop(x2), t) = XmlTotal(Scanning(x2), t)
          /\ XmlOpen(ScanLoop(x2), t) = XmlOpen(Scanning(x2), t)
      BY <2>2 DEF SameMeaning
    <3>2. /\ XmlTotal(Scanning(x2), t) = Xml(i, c \o t)
          /\ XmlOpen(Scanning(x2), t) = LeftOpen(i, c \o t)
      BY <1>2, <1>3
    <3> QED BY <1>4, <3>1, <3>2
  <2> QED BY <2>1, <2>2, <2>3
<1> QED BY <1>5, <1>6

(* Whatever it was given before. *)
LEMMA ScanFeedKeeps ==
    ASSUME NEW x \in Scanners, HoldsLittle(x), NEW content \in Text
    PROVE  ScanFeed(x, content) \in ScanFeds /\ HoldsLittle(ScanFeed(x, content).scanner)
<1>1. x.buffer \in Text /\ x.inXml \in BOOLEAN /\ <<>> \in Findings
  BY NoFindings DEF Scanners
<1>2. CASE content = <<>>
  <2>1. ScanFeed(x, content) = Scanning(x)
    BY <1>2 DEF ScanFeed, Scanning
  <2> QED BY <1>1, <2>1 DEF ScanFeds, Scanning
<1>3. CASE content # <<>>
  <2> DEFINE c == x.buffer \o content
             x2 == [buffer |-> c, inXml |-> x.inXml]
  <2>1. c \in Text
    BY <1>1, ConcatType
  <2>2. ScanFeed(x, content) = ScanLoop(x2)
    <3>1. [x EXCEPT !.buffer = @ \o content] = x2
      <4>1. \A y : [x EXCEPT !.buffer = y] = [buffer |-> y, inXml |-> x.inXml]
        BY DEF Scanners
      <4> QED BY <4>1
    <3> QED BY <1>3, <3>1 DEF ScanFeed
  <2>3. x2 \in Scanners
    <3> HIDE DEF c
    <3> QED BY <1>1, <2>1 DEF Scanners
  <2> HIDE DEF x2
  <2> QED BY <2>2, <2>3, ScanLoopKeeps
<1> QED BY <1>2, <1>3

LEMMA ScanFlushKeeps ==
    ASSUME NEW x \in Scanners
    PROVE  ScanFlush(x) \in ScanFeds /\ HoldsLittle(ScanFlush(x).scanner)
<1> DEFINE partial == CallsOpen \o x.buffer
           segs == IF x.buffer = <<>> THEN <<>>
                   ELSE IF ~x.inXml THEN Segment("text", x.buffer)
                   ELSE IF ParseInvokesFromXml(partial) # <<>> THEN ParseInvokesFromXml(partial)
                   ELSE Segment("text", partial)
<1>1. x.buffer \in Text /\ x.inXml \in BOOLEAN /\ <<>> \in Text /\ Len(<<>>) = 0
  BY EmptyText DEF Scanners
<1>2. [x EXCEPT !.buffer = <<>>] = [buffer |-> <<>>, inXml |-> x.inXml]
  BY DEF Scanners
<1>3. ScanFlush(x) = [scanner |-> [buffer |-> <<>>, inXml |-> x.inXml], segments |-> segs]
  BY <1>2, Zenon DEF ScanFlush
<1>4. partial \in Text
  <2>1. CallsOpen \in Text
    BY Tags DEF IsTag
  <2> QED BY <1>1, <2>1, ConcatType
<1>5. segs \in Findings
  <2>1. Segment("text", x.buffer) \in Findings
    BY <1>1, TextSegmentType
  <2> HIDE DEF partial
  <2>2. ParseInvokesFromXml(partial) \in Findings /\ Segment("text", partial) \in Findings
    BY <1>4, InvokesType, TextSegmentType
  <2> QED BY <2>1, <2>2, NoFindings
<1> HIDE DEF segs
<1>6. ScanFlush(x) \in ScanFeds
  BY <1>1, <1>3, <1>5, ScanFedMade
<1> QED BY <1>1, <1>3, <1>6 DEF HoldsLittle
-----------------------------------------------------------------------------
(* The end of a stream *)

LEMMA SomeItems ==
    ASSUME NEW s \in Findings
    PROVE  Items(s) = <<>> <=> s = <<>>
<1>1. CASE s = <<>>
  BY <1>1, ItemsEmpty
<1>2. CASE s # <<>>
  <2> DEFINE h == Head(s)
             first == <<h>>
             r == Tail(s)
  <2>1. h \in Finding /\ r \in Findings /\ s = first \o r /\ first \in Findings
    BY <1>2 DEF Findings
  <2>2. /\ h.kind \in Kinds /\ h.text \in Text /\ h.text # <<>>
        /\ h = [kind |-> h.kind, text |-> h.text]
    BY <2>1, FindingParts DEF Kinds
  <2>3. first = Segment(h.kind, h.text)
    BY <2>2 DEF Segment
  <2> HIDE DEF h, first, r
  <2>4. Items(first) = [j \in 1..Len(h.text) |-> <<h.kind, h.text[j]>>]
    BY <2>2, <2>3, ItemsSegment
  <2>5. Len(h.text) \in Nat /\ Len(h.text) > 0
    BY <2>2 DEF Text
  <2>6. Len(Items(first)) > 0
    BY <2>4, <2>5
  <2> DEFINE a == Items(first)
             c == Items(r)
  <2>7. Items(s) = a \o c /\ a \in AllItems /\ c \in AllItems
    BY <2>1, FindingItemsConcat, FindingItems
  <2>8. Len(a) > 0
    BY <2>6
  <2> HIDE DEF a, c
  <2>9. a \o c # <<>>
    BY <2>7, <2>8 DEF AllItems
  <2> QED BY <1>2, <2>7, <2>9
<1> QED BY <1>1, <1>2

(* Text without an element. *)
LEMMA NoInvokes ==
    ASSUME NEW u \in Text, \A i \in 1..Len(u) : u[i] \notin Elements
    PROVE  ParseInvokesFromXml(u) = <<>>
<1>1. ParseInvokesRegex(u) = <<>>
  <2>1. \A i \in DOMAIN u : u[i] # Escaped /\ u[i] \notin {Invoke, Nested}
    BY DEF Text, Elements
  <2>2. ParseInvokesRegex(u) = FlattenSeq([i \in DOMAIN u |-> <<>>])
    BY <2>1 DEF ParseInvokesRegex
  <2> QED BY <2>2, FlatEmpties
<1>2. ASSUME IsXml(u) PROVE ParseInvokesStrictly(Enclosed(u)) = <<>>
  <2> DEFINE v == Enclosed(u)
  <2>1. v \in Text /\ \A i \in DOMAIN v : v[i] \notin Elements
    <3> DEFINE n == Find(CallsOpen, u)
    <3>1. /\ n \in 1..(Len(u) - 1) /\ Len(u) \in Nat /\ v \in Text /\ Len(v) = Len(u) - n - 3
          /\ \A i \in 1..Len(v) : v[i] = u[n + 1 + i]
      BY <1>2, EnclosedParts
    <3> HIDE DEF v, n
    <3>2. DOMAIN v = 1..Len(v) /\ Len(v) \in Nat
      BY <3>1 DEF Text
    <3>3. \A i \in 1..Len(v) : n + 1 + i \in 1..Len(u)
      BY <3>1, <3>2
    <3> QED BY <3>1, <3>2, <3>3
  <2> HIDE DEF v
  <2>2. ParseInvokesStrictly(v) = FlattenSeq([i \in DOMAIN v |-> <<>>])
    BY <2>1 DEF ParseInvokesStrictly
  <2> QED BY <2>1, <2>2, FlatEmpties DEF v
<1> QED BY <1>1, <1>2 DEF ParseInvokesFromXml

(* What flush() yields: what the text means, but for a block left open. *)
LEMMA ScanFlushMeans ==
    ASSUME NEW x \in Scanners, Cleared(x),
           NEW block, block = LeftOpen(x.inXml, x.buffer),
           NEW m, m = Xml(x.inXml, x.buffer)
    PROVE  LET found == ScanFlush(x).segments
               tools == Salvaged(block)
           IN  /\ found \in Findings /\ m \in AllItems
               /\ tools # <<>> \/ block = CallsOpen =>
                    Items(found) = tools /\ Len(m) = Len(block) /\ block \in Text
               /\ ~(tools # <<>> \/ block = CallsOpen) => Items(found) = m
<1> DEFINE b == x.buffer
           found == ScanFlush(x).segments
           tools == Salvaged(block)
<1>1. b \in Text /\ x.inXml \in BOOLEAN /\ Len(b) \in Nat /\ Find(CallTag(x.inXml), b) = 0
  BY DEF Scanners, Cleared, Text
<1>2. /\ m = TextItems(Whole(x.inXml, b)) /\ m \in AllItems
      /\ block = IF x.inXml THEN CallsOpen \o b ELSE <<>>
  BY <1>1, XmlPlain, OpenPlain, WholeType
<1>3. ScanFlush(x).segments = IF b = <<>> THEN <<>>
                              ELSE IF ~x.inXml THEN Segment("text", b)
                              ELSE IF ParseInvokesFromXml(CallsOpen \o b) # <<>>
                                   THEN ParseInvokesFromXml(CallsOpen \o b)
                              ELSE Segment("text", CallsOpen \o b)
  BY Zenon DEF ScanFlush
<1>4. found \in Findings
  BY ScanFlushKeeps, ScanFedParts
<1>5. CASE ~x.inXml
  <2>1. block = <<>> /\ m = TextItems(b)
    BY <1>2, <1>5 DEF Whole
  <2>2. tools = <<>>
    <3>1. \A i \in 1..Len(<<>>) : <<>>[i] \notin Elements
      OBVIOUS
    <3> QED BY <2>1, <3>1, EmptyText, NoInvokes, ItemsEmpty DEF Salvaged
  <2>3. block # CallsOpen
    BY <2>1 DEF CallsOpen
  <2>4. Items(found) = TextItems(b)
    BY <1>1, <1>3, <1>5, ItemsEmpty, NoText, TextItemsAre
  <2> HIDE DEF found, tools
  <2> QED BY <1>2, <1>4, <2>1, <2>2, <2>3, <2>4 DEF found, tools
<1>6. CASE x.inXml
  <2> DEFINE z == CallsOpen \o b
  <2>1. block = z /\ m = TextItems(z)
    BY <1>2, <1>6 DEF Whole
  <2>2. z \in Text /\ Len(z) = Len(b) + 2 /\ z[1] = CallsOpen[1] /\ z[2] = CallsOpen[2]
    BY <1>1, Tags, TagBefore
  <2>3. CallsOpen \in Text /\ Len(CallsOpen) = 2 /\ \A i \in 1..2 : CallsOpen[i] \notin Elements
    BY Tags, TagSymbols DEF IsTag
  <2>4. Len(m) = Len(block)
    BY <2>1, <2>2, TextItemsAre
  <2>5. CASE b = <<>>
    <3>1. z = CallsOpen
      BY <2>3, <2>5, EmptyText
    <3>2. tools = <<>>
      BY <2>1, <2>3, <3>1, NoInvokes, ItemsEmpty DEF Salvaged
    <3>3. Items(found) = <<>>
      BY <1>3, <2>5, ItemsEmpty
    <3> HIDE DEF found, tools, z
    <3> QED BY <1>2, <1>4, <2>1, <2>2, <2>4, <3>1, <3>2, <3>3 DEF found, tools
  <2>6. CASE b # <<>>
    <3>1. Len(b) > 0
      BY <1>1, <2>6 DEF Text
    <3>2. z # CallsOpen
      BY <1>1, <2>2, <2>3, <3>1
    <3> HIDE DEF z
    <3>3. tools = <<>> <=> ParseInvokesFromXml(z) = <<>>
      BY <2>1, <2>2, InvokesType, SomeItems DEF Salvaged
    <3>4. Items(found) = IF ParseInvokesFromXml(z) # <<>> THEN tools ELSE m
      <4>1. found = IF ParseInvokesFromXml(z) # <<>> THEN ParseInvokesFromXml(z)
                    ELSE Segment("text", z)
        BY <1>3, <1>6, <2>6, Zenon DEF z
      <4> HIDE DEF found
      <4> QED BY <2>1, <2>2, <4>1, TextItemsAre DEF Salvaged
    <3> HIDE DEF found, tools
    <3> QED BY <1>2, <1>4, <2>1, <2>2, <2>4, <3>2, <3>3, <3>4 DEF found, tools
  <2> QED BY <2>5, <2>6
<1> QED BY <1>1, <1>5, <1>6
-----------------------------------------------------------------------------
(* The streams *)

(* Whatever follows is split as the one-shot function does. *)
FeedInv ==
    /\ text \in Text /\ split \in Segments /\ ended \in BOOLEAN
    /\ splitter \in Splitters /\ Len(splitter.buffer) < 2
    /\ scanner \in Scanners /\ HoldsLittle(scanner)
    /\ ~ended => \A t \in Text : StripThink(text \o t)
                   = Add(Yielded(split), Meaning(splitter.inThink, splitter.buffer \o t))
    /\ ended => StripThink(text) = Yielded(split)

LEMMA ChunkType ==
    ASSUME NEW symbols \in Alphabets, NEW n \in 1..MaxChunk, NEW chunk \in [1..n -> symbols]
    PROVE  chunk \in Text
<1>1. symbols \subseteq Symbols
  BY DEF Symbols
<1>2. n \in Nat
  BY StreamsAssumption
<1>3. chunk \in [1..n -> Symbols]
  BY <1>1
<1> QED BY <1>2, <1>3 DEF Text

LEMMA FeedInit == Init => FeedInv
<1> SUFFICES ASSUME Init PROVE FeedInv
  OBVIOUS
<1>1. <<>> \in Text /\ <<>> \in Segments /\ Len(<<>>) = 0
  BY EmptyText, TextOfEmpty
<1>2. splitter \in Splitters /\ splitter.buffer = <<>> /\ splitter.inThink = FALSE
  BY <1>1 DEF Init, NewSplitter, Splitters
<1>3. scanner \in Scanners /\ HoldsLittle(scanner)
  BY <1>1 DEF Init, NewScanner, Scanners, HoldsLittle
<1>4. ASSUME NEW t \in Text
      PROVE  StripThink(text \o t)
               = Add(Yielded(split), Meaning(splitter.inThink, splitter.buffer \o t))
  <2>1. text \o t = t /\ splitter.buffer \o t = t
    BY <1>2, EmptyText DEF Init
  <2>2. Yielded(split) = Nothing
    BY TextOfEmpty DEF Init, Yielded, Nothing
  <2>3. Meaning(splitter.inThink, t) = StripThink(t)
    BY <1>2, MeaningIs
  <2>4. StripThink(t) \in Meanings
    BY StripType DEF Meanings
  <2> QED BY <2>1, <2>2, <2>3, <2>4, AddNothing
<1>5. text \in Text /\ split \in Segments /\ ended = FALSE
  BY <1>1 DEF Init
<1>6. Len(splitter.buffer) < 2
  BY <1>1, <1>2
<1>7. \A t \in Text : StripThink(text \o t)
        = Add(Yielded(split), Meaning(splitter.inThink, splitter.buffer \o t))
  BY <1>4
<1> QED BY <1>2, <1>3, <1>5, <1>6, <1>7 DEF FeedInv

LEMMA FeedNext == FeedInv /\ [Next]_vars => FeedInv'
<1> SUFFICES ASSUME FeedInv, [Next]_vars PROVE FeedInv'
  OBVIOUS
<1>1. /\ text \in Text /\ split \in Segments
      /\ splitter \in Splitters /\ Len(splitter.buffer) < 2
      /\ scanner \in Scanners /\ HoldsLittle(scanner)
      /\ splitter.buffer \in Text /\ splitter.inThink \in BOOLEAN
  BY DEF FeedInv, Splitters
<1>2. ASSUME NEW chunk \in Text, Feed(chunk) PROVE FeedInv'
  <2> DEFINE fed == SplitFeed(splitter, chunk)
             b == splitter.buffer
             i == splitter.inThink
  <2>1. /\ ~ended /\ ended' = ended /\ text' = text \o chunk
        /\ splitter' = fed.splitter /\ split' = split \o fed.segments
        /\ scanner' = ScanFeed(scanner, chunk).scanner
    BY <1>2 DEF Feed
  <2>2. /\ fed \in Feds /\ Len(fed.splitter.buffer) < 2
        /\ \A t \in Text : Total(fed, t) = Meaning(i, b \o (chunk \o t))
    BY <1>1, SplitFeedKeeps
  <2>3. scanner' \in Scanners /\ HoldsLittle(scanner')
    BY <1>1, <2>1, ScanFeedKeeps, ScanFedParts
  <2> HIDE DEF fed
  <2>4. /\ fed.splitter \in Splitters /\ fed.segments \in Segments
        /\ fed.splitter.buffer \in Text /\ fed.splitter.inThink \in BOOLEAN
    BY <2>2, FedParts
  <2>5. text' \in Text /\ split' \in Segments
    BY <1>1, <2>1, <2>4, ConcatType, TextOfConcat
  <2>6. ASSUME NEW t \in Text
        PROVE  StripThink(text' \o t)
                 = Add(Yielded(split'), Meaning(splitter'.inThink, splitter'.buffer \o t))
    <3> DEFINE m == Meaning(fed.splitter.inThink, fed.splitter.buffer \o t)
    <3>1. text' \o t = text \o (chunk \o t) /\ chunk \o t \in Text
      <4>1. text \in Text /\ chunk \in Text /\ t \in Text
        BY <1>1
      <4>2. (text \o chunk) \o t = text \o (chunk \o t)
        BY <4>1, Associative
      <4> QED BY <2>1, <4>1, <4>2, ConcatType
    <3>2. StripThink(text' \o t) = Add(Yielded(split), Total(fed, t))
      BY <2>1, <2>2, <3>1 DEF FeedInv
    <3>3. Total(fed, t) = Add(Yielded(fed.segments), m)
      BY DEF Total
    <3>4. m \in Meanings
      BY <2>4, ConcatType, MeaningType
    <3>5. /\ Yielded(split) \in Meanings /\ Yielded(fed.segments) \in Meanings
          /\ Yielded(split') = Add(Yielded(split), Yielded(fed.segments))
      BY <1>1, <2>1, <2>4, YieldedConcat
    <3> HIDE DEF m
    <3>6. Add(Add(Yielded(split), Yielded(fed.segments)), m)
            = Add(Yielded(split), Add(Yielded(fed.segments), m))
      BY <3>4, <3>5, AddAssociative
    <3>7. StripThink(text' \o t) = Add(Yielded(split'), m)
      BY <3>2, <3>3, <3>5, <3>6
    <3> QED BY <2>1, <3>7 DEF m
  <2> QED BY <2>1, <2>2, <2>3, <2>4, <2>5, <2>6 DEF FeedInv
<1>3. CASE Flush
  <2> DEFINE fed == SplitFlush(splitter)
             m == Meaning(splitter.inThink, splitter.buffer)
  <2>1. /\ ~ended /\ ended' = TRUE /\ text' = text
        /\ splitter' = fed.splitter /\ split' = split \o fed.segments
        /\ scanner' = ScanFlush(scanner).scanner
    BY <1>3 DEF Flush
  <2>2. fed \in Feds /\ fed.splitter.buffer = <<>> /\ Yielded(fed.segments) = m
    BY <1>1, SplitFlushKeeps
  <2>3. scanner' \in Scanners /\ HoldsLittle(scanner')
    BY <1>1, <2>1, ScanFlushKeeps, ScanFedParts
  <2> HIDE DEF fed
  <2>4. fed.splitter \in Splitters /\ fed.segments \in Segments /\ Len(fed.splitter.buffer) = 0
    BY <2>2, FedParts
  <2>5. split' \in Segments /\ Yielded(split') = Add(Yielded(split), Yielded(fed.segments))
    BY <1>1, <2>1, <2>4, YieldedConcat
  <2>6. StripThink(text') = Yielded(split')
    <3>1. <<>> \in Text /\ text \o <<>> = text /\ splitter.buffer \o <<>> = splitter.buffer
      BY <1>1, EmptyText
    <3>2. StripThink(text) = Add(Yielded(split), m)
      BY <2>1, <3>1 DEF FeedInv
    <3> QED BY <2>1, <2>2, <2>5, <3>2
  <2> QED BY <1>1, <2>1, <2>3, <2>4, <2>5, <2>6 DEF FeedInv
<1>4. CASE UNCHANGED vars
  BY <1>4 DEF FeedInv, vars, HoldsLittle
<1> QED BY <1>2, <1>3, <1>4, ChunkType DEF Next

LEMMA FeedInvariant == Spec => []FeedInv
BY FeedInit, FeedNext, PTL DEF Spec
-----------------------------------------------------------------------------
(* Whatever follows is scanned as the text at once *)

(* What flush() is to end with: what was made of the text, but for a block *)
(* left open that makes tools, or nothing.                                 *)
AsItEnds(w) ==
    LET block == OpenBlock(w)
        found == Found(w)
    IN  IF Salvaged(block) # <<>> \/ block = CallsOpen
        THEN Take(found, Len(found) - Len(block)) \o Salvaged(block) ELSE found

(* What was found of w, and what the scanner still has to make of it. *)
Remains(w, segments, x) ==
    /\ Found(w) = Items(segments) \o Xml(x.inXml, x.buffer)
    /\ OpenBlock(w) = LeftOpen(x.inXml, x.buffer)

LEMMA FlushEnds ==
    ASSUME NEW w \in Text, NEW segments \in Findings, NEW x \in Scanners, Cleared(x),
           Remains(w, segments, x)
    PROVE  /\ segments \o ScanFlush(x).segments \in Findings
           /\ Items(segments \o ScanFlush(x).segments) = AsItEnds(w)
<1> DEFINE found == ScanFlush(x).segments
           m == Xml(x.inXml, x.buffer)
           block == LeftOpen(x.inXml, x.buffer)
           tools == Salvaged(block)
           base == Items(segments)
           whole == base \o m
           all == segments \o found
<1>1. Found(w) = whole /\ OpenBlock(w) = block
  BY DEF Remains
<1>2. /\ found \in Findings /\ m \in AllItems
      /\ tools # <<>> \/ block = CallsOpen =>
           Items(found) = tools /\ Len(m) = Len(block) /\ block \in Text
      /\ ~(tools # <<>> \/ block = CallsOpen) => Items(found) = m
  <2> DEFINE mm == m
             bb == block
  <2>1. mm = Xml(x.inXml, x.buffer) /\ bb = LeftOpen(x.inXml, x.buffer)
    OBVIOUS
  <2> HIDE DEF mm, bb
  <2>2. LET f == ScanFlush(x).segments
            ts == Salvaged(bb)
        IN  /\ f \in Findings /\ mm \in AllItems
            /\ ts # <<>> \/ bb = CallsOpen =>
                 Items(f) = ts /\ Len(mm) = Len(bb) /\ bb \in Text
            /\ ~(ts # <<>> \/ bb = CallsOpen) => Items(f) = mm
    BY <2>1, ScanFlushMeans
  <2> QED BY <2>2 DEF mm, bb
<1> HIDE DEF found, m, block, tools
<1>3. base \in AllItems /\ all \in Findings /\ Items(all) = base \o Items(found)
  BY <1>2, FindingItems, FindingItemsConcat
<1> HIDE DEF base, all
<1>4. Items(all) = IF tools # <<>> \/ block = CallsOpen
                   THEN Take(whole, Len(whole) - Len(block)) \o tools ELSE whole
  <2>1. CASE tools # <<>> \/ block = CallsOpen
    <3>1. Items(found) = tools /\ Len(m) = Len(block) /\ Len(block) \in Nat
      BY <1>2, <2>1 DEF Text
    <3>2. Take(whole, Len(whole) - Len(m)) = base
      <4> DEFINE S == Kinds \X Symbols
      <4>1. base \in Seq(S) /\ m \in Seq(S)
        BY <1>2, <1>3 DEF AllItems
      <4> HIDE DEF S
      <4>2. /\ whole \in Seq(S) /\ Len(whole) = Len(base) + Len(m)
            /\ Len(base) \in Nat /\ Len(m) \in Nat
            /\ \A j \in 1..Len(base) : whole[j] = base[j]
        BY <4>1
      <4> HIDE DEF whole
      <4>3. Len(whole) - Len(m) = Len(base)
        BY <4>2
      <4> DEFINE p == SubSeq(whole, 1, Len(base))
      <4>4. p \in Seq(S) /\ Len(p) = Len(base) /\ \A j \in 1..Len(base) : p[j] = whole[j]
        BY <4>2
      <4> HIDE DEF p
      <4>5. p = base
        BY <4>1, <4>2, <4>4, SameSeq
      <4> QED BY <4>3, <4>5 DEF Take, p
    <3> QED BY <1>3, <2>1, <3>1, <3>2
  <2>2. CASE ~(tools # <<>> \/ block = CallsOpen)
    BY <1>2, <1>3, <2>2
  <2> QED BY <2>1, <2>2
<1>5. AsItEnds(w) = IF tools # <<>> \/ block = CallsOpen
                    THEN Take(whole, Len(whole) - Len(block)) \o tools ELSE whole
  <2> DEFINE v == Found(w)
             d == OpenBlock(w)
  <2>1. v = whole /\ d = block /\ Salvaged(d) = tools
    BY <1>1 DEF tools
  <2>2. AsItEnds(w) = IF Salvaged(d) # <<>> \/ d = CallsOpen
                      THEN Take(v, Len(v) - Len(d)) \o Salvaged(d) ELSE v
    BY Zenon DEF AsItEnds
  <2> HIDE DEF v, d, whole
  <2> QED BY <2>1, <2>2
<1> QED BY <1>3, <1>4, <1>5 DEF all, found

ScanAgrees(t) ==
    /\ Found(text \o t) = Items(scanned) \o Xml(scanner.inXml, scanner.buffer \o t)
    /\ OpenBlock(text \o t) = LeftOpen(scanner.inXml, scanner.buffer \o t)

ScanInv ==
    /\ scanned \in Findings
    /\ ~ended => Cleared(scanner) /\ \A t \in Text : ScanAgrees(t)
    /\ ended => Items(scanned) = AsItEnds(text)

LEMMA NewScannerIs ==
    /\ NewScanner \in Scanners /\ NewScanner.buffer = <<>> /\ NewScanner.inXml = FALSE
    /\ HoldsLittle(NewScanner) /\ Cleared(NewScanner)
<1>1. NewScanner \in Scanners /\ NewScanner.buffer = <<>> /\ NewScanner.inXml = FALSE
  BY EmptyText DEF NewScanner, Scanners
<1> DEFINE n == Find(CallsOpen, <<>>)
<1>2. n \in Nat /\ (n > 0 => n \in 1..(Len(<<>>) - 1))
  BY EmptyText, Tags, FindWhere, FindBounds
<1> HIDE DEF n
<1>3. n = 0 /\ Len(<<>>) < 2
  BY <1>2
<1> QED BY <1>1, <1>3 DEF Cleared, CallTag, HoldsLittle, n

LEMMA ScanInit == Init => ScanInv
<1> SUFFICES ASSUME Init PROVE ScanInv
  OBVIOUS
<1>1. scanned \in Findings /\ scanned = <<>> /\ ~ended
  BY NoFindings DEF Init
<1>2. text = <<>> /\ scanner.buffer = <<>> /\ scanner.inXml = FALSE
  BY DEF Init, NewScanner
<1>3. Cleared(scanner)
  BY NewScannerIs DEF Init
<1>4. ASSUME NEW t \in Text PROVE ScanAgrees(t)
  <2>1. <<>> \o t = t /\ Found(t) \in AllItems
    BY EmptyText, FoundType
  <2> DEFINE f == Found(t)
  <2>2. f \in AllItems /\ Xml(FALSE, t) = f /\ LeftOpen(FALSE, t) = OpenBlock(t)
    BY <2>1 DEF Xml, LeftOpen, Whole
  <2> HIDE DEF f
  <2>3. <<>> \o f = f
    BY <2>2, EmptyIn DEF AllItems
  <2> QED BY <1>1, <1>2, <2>1, <2>2, <2>3, ItemsEmpty DEF ScanAgrees, f
<1> QED BY <1>1, <1>3, <1>4 DEF ScanInv

LEMMA ScanNext == FeedInv /\ FeedInv' /\ ScanInv /\ [Next]_vars => ScanInv'
<1> SUFFICES ASSUME FeedInv, FeedInv', ScanInv, [Next]_vars PROVE ScanInv'
  OBVIOUS
<1>1. /\ text \in Text /\ scanned \in Findings
      /\ scanner \in Scanners /\ HoldsLittle(scanner)
      /\ scanner.buffer \in Text /\ scanner.inXml \in BOOLEAN
  BY DEF FeedInv, ScanInv, Scanners
<1>2. ASSUME NEW chunk \in Text, Feed(chunk) PROVE ScanInv'
  <2> DEFINE fed == ScanFeed(scanner, chunk)
             b == scanner.buffer
             i == scanner.inXml
  <2>1. /\ ~ended /\ ended' = ended /\ text' = text \o chunk
        /\ scanner' = fed.scanner /\ scanned' = scanned \o fed.segments
    BY <1>2 DEF Feed
  <2>2. Cleared(scanner) /\ \A t \in Text : ScanAgrees(t)
    BY <2>1 DEF ScanInv
  <2>3. /\ fed \in ScanFeds /\ Cleared(fed.scanner)
        /\ \A t \in Text : /\ XmlTotal(fed, t) = Xml(i, b \o (chunk \o t))
                           /\ XmlOpen(fed, t) = LeftOpen(i, b \o (chunk \o t))
    BY <1>1, <2>2, ScanFeedMoves
  <2> HIDE DEF fed
  <2>4. /\ fed.scanner \in Scanners /\ fed.segments \in Findings
        /\ fed.scanner.buffer \in Text /\ fed.scanner.inXml \in BOOLEAN
    BY <2>3, ScanFedParts
  <2>5. scanned' \in Findings /\ Cleared(scanner')
    BY <1>1, <2>1, <2>3, <2>4, FindingsConcat
  <2>6. ASSUME NEW t \in Text PROVE ScanAgrees(t)'
    <3> DEFINE m == Xml(fed.scanner.inXml, fed.scanner.buffer \o t)
    <3>1. text' \o t = text \o (chunk \o t) /\ chunk \o t \in Text
      <4>1. text \in Text /\ chunk \in Text /\ t \in Text
        BY <1>1
      <4>2. (text \o chunk) \o t = text \o (chunk \o t)
        BY <4>1, Associative
      <4> QED BY <2>1, <4>1, <4>2, ConcatType
    <3>2. /\ Found(text' \o t) = Items(scanned) \o XmlTotal(fed, t)
          /\ OpenBlock(text' \o t) = XmlOpen(fed, t)
      BY <2>2, <2>3, <3>1 DEF ScanAgrees
    <3>3. XmlTotal(fed, t) = Items(fed.segments) \o m
      BY DEF XmlTotal
    <3>4. m \in AllItems
      BY <2>4, ConcatType, WholeType
    <3> HIDE DEF m
    <3>5. Items(scanned \o fed.segments) \o m = Items(scanned) \o (Items(fed.segments) \o m)
      BY <1>1, <2>4, <3>4, FindMoves
    <3>6. Found(text' \o t) = Items(scanned') \o m
      BY <2>1, <3>2, <3>3, <3>5
    <3> QED BY <2>1, <3>2, <3>6 DEF ScanAgrees, XmlOpen, m
  <2> QED BY <2>1, <2>5, <2>6 DEF ScanInv
<1>3. CASE Flush
  <2> DEFINE found == ScanFlush(scanner).segments
  <2>1. ~ended /\ ended' = TRUE /\ text' = text /\ scanned' = scanned \o found
    BY <1>3 DEF Flush
  <2>2. Cleared(scanner) /\ ScanAgrees(<<>>)
    BY <2>1, EmptyText DEF ScanInv
  <2>3. text \o <<>> = text /\ scanner.buffer \o <<>> = scanner.buffer
    BY <1>1, EmptyText
  <2>4. /\ Found(text) = Items(scanned) \o Xml(scanner.inXml, scanner.buffer)
        /\ OpenBlock(text) = LeftOpen(scanner.inXml, scanner.buffer)
    BY <2>2, <2>3 DEF ScanAgrees
  <2>5. scanned \o found \in Findings /\ Items(scanned \o found) = AsItEnds(text)
    BY <1>1, <2>2, <2>4, FlushEnds DEF Remains
  <2> HIDE DEF found
  <2> QED BY <2>1, <2>5 DEF ScanInv
<1>4. CASE UNCHANGED vars
  BY <1>4 DEF ScanInv, ScanAgrees, vars
<1> QED BY <1>2, <1>3, <1>4, ChunkType DEF Next

(* However a stream is cut into chunks, the splitter classifies every      *)
(* symbol as strip_think_complete does (SplitIsExact).                     *)
THEOREM StreamedAsAtOnce == Spec => []SplitIsExact
<1>1. FeedInv => SplitIsExact
  BY DEF FeedInv, SplitIsExact, Yielded
<1> QED BY <1>1, FeedInvariant, PTL

(* What was yielded never has to be taken back, and less than a tag is     *)
(* held back (SplitIsTimely).                                              *)
THEOREM NothingIsHeldBack == Spec => []SplitIsTimely
<1>1. ASSUME NEW s \in Text, NEW t \in Text PROVE IsPrefix(s, s \o t)
  <2>1. /\ s \o t \in Text /\ Len(s \o t) = Len(s) + Len(t) /\ Len(s) \in 0..Len(s)
        /\ Len(s) \in Nat /\ Len(t) \in Nat
    BY ConcatType DEF Text
  <2>2. Take(s \o t, Len(s)) = Take(s, Len(s))
    BY <2>1, TakeOfConcat
  <2> QED BY <2>1, <2>2 DEF IsPrefix, Take
<1>2. ASSUME FeedInv
      PROVE  \E m \in Meanings : StripThink(text) = Add(Yielded(split), m)
  <2>1. text \in Text /\ Yielded(split) \in Meanings
    BY <1>2, YieldedConcat DEF FeedInv
  <2>2. CASE ended
    <3>1. Nothing \in Meanings
      BY EmptyText, MadeOf DEF Nothing
    <3>2. StripThink(text) = Add(Yielded(split), Nothing)
      BY <1>2, <2>1, <2>2, AddNothing DEF FeedInv
    <3> QED BY <3>1, <3>2
  <2>3. CASE ~ended
    <3> DEFINE m == Meaning(splitter.inThink, splitter.buffer \o <<>>)
    <3>1. <<>> \in Text /\ text \o <<>> = text
      BY <2>1, EmptyText
    <3>2. StripThink(text) = Add(Yielded(split), m)
      BY <1>2, <2>3, <3>1 DEF FeedInv
    <3>3. splitter.buffer \in Text /\ splitter.inThink \in BOOLEAN
      BY <1>2 DEF FeedInv, Splitters
    <3>4. m \in Meanings
      BY <3>1, <3>3, ConcatType, MeaningType
    <3> QED BY <3>2, <3>4
  <2> QED BY <2>2, <2>3
<1>3. FeedInv => SplitIsTimely
  <2> SUFFICES ASSUME FeedInv PROVE SplitIsTimely
    OBVIOUS
  <2>1. PICK m \in Meanings : StripThink(text) = Add(Yielded(split), m)
    BY <1>2
  <2> DEFINE s == TextOf("text", split)
             t == TextOf("thinking", split)
  <2>2. s \in Text /\ t \in Text /\ m.text \in Text /\ m.thinking \in Text
    BY TextOfIs, MeaningParts DEF FeedInv
  <2>3. StripThink(text) = [text |-> s \o m.text, thinking |-> t \o m.thinking]
    BY <2>1 DEF Add, Yielded
  <2> HIDE DEF s, t
  <2>4. IsPrefix(s, s \o m.text) /\ IsPrefix(t, t \o m.thinking)
    BY <1>1, <2>2
  <2>5. StripThink(text).text = s \o m.text /\ StripThink(text).thinking = t \o m.thinking
    BY <2>3
  <2>6. Len(splitter.buffer) < TagLen /\ (scanner.inXml \/ Len(scanner.buffer) < TagLen)
    BY DEF FeedInv, HoldsLittle, TagLen
  <2> QED BY <2>4, <2>5, <2>6 DEF SplitIsTimely, s, t
<1> QED BY <1>3, FeedInvariant, PTL

LEMMA AtOnceIs == ASSUME NEW w \in Text PROVE Items(ScanAtOnce(w)) = AsItEnds(w)
<1> DEFINE fed == ScanFeed(NewScanner, w)
<1>1. /\ fed \in ScanFeds /\ Cleared(fed.scanner)
      /\ \A t \in Text : /\ XmlTotal(fed, t) = Xml(FALSE, <<>> \o (w \o t))
                         /\ XmlOpen(fed, t) = LeftOpen(FALSE, <<>> \o (w \o t))
  BY NewScannerIs, ScanFeedMoves
<1>2. /\ <<>> \in Text /\ w \o <<>> = w /\ <<>> \o w = w
      /\ Xml(FALSE, w) = Found(w) /\ LeftOpen(FALSE, w) = OpenBlock(w)
  BY EmptyText DEF Xml, LeftOpen, Whole
<1>3. ScanAtOnce(w) = fed.segments \o ScanFlush(fed.scanner).segments
  BY DEF ScanAtOnce
<1> HIDE DEF fed
<1>4. fed.scanner \in Scanners /\ fed.segments \in Findings /\ fed.scanner.buffer \in Text
  BY <1>1, ScanFedParts
<1>5. fed.scanner.buffer \o <<>> = fed.scanner.buffer
  BY <1>4, EmptyText
<1>6. Remains(w, fed.segments, fed.scanner)
  BY <1>1, <1>2, <1>5 DEF XmlTotal, XmlOpen, Remains
<1> QED BY <1>1, <1>3, <1>4, <1>6, FlushEnds

(* However a stream is cut into chunks, the scanner finds what it would    *)
(* find in the whole of it; and where both parsers read the invokes alike, *)
(* that is what parse_complete finds, but for a block still open at the    *)
(* end that flush() does not keep as text (ScanIsExact).                   *)
THEOREM ScannedAsAtOnce == Spec => []ScanIsExact
<1>1. Init => ScanInv
  BY ScanInit
<1>2. FeedInv /\ FeedInv' /\ ScanInv /\ [Next]_vars => ScanInv'
  BY ScanNext
<1>3. FeedInv /\ ScanInv => ScanIsExact
  <2> SUFFICES ASSUME FeedInv, ScanInv, ended PROVE ScanIsExact
    BY DEF ScanIsExact
  <2> DEFINE block == OpenBlock(text)
             tools == ParseInvokesFromXml(block)
  <2>1. text \in Text /\ Items(scanned) = AsItEnds(text)
    BY DEF FeedInv, ScanInv
  <2>2. Items(scanned) = Items(ScanAtOnce(text))
    BY <2>1, AtOnceIs
  <2>3. ASSUME Plain(text), block # CallsOpen, tools = <<>>
        PROVE  Items(scanned) = Items(ParseComplete(text))
    <3>1. Salvaged(block) = <<>>
      BY <2>3, ItemsEmpty DEF Salvaged
    <3>2. AsItEnds(text) = Found(text)
      BY <2>3, <3>1, Zenon DEF AsItEnds
    <3>3. Found(text) = Items(ParseComplete(text))
      BY <2>1, <2>3, PlainAlike DEF Found
    <3> QED BY <2>1, <3>2, <3>3
  <2> QED BY <2>2, <2>3 DEF ScanIsExact
<1> QED BY <1>1, <1>2, <1>3, FeedInvariant, PTL DEF Spec

=============================================================================
