----------------------------- MODULE FoldTheorems -----------------------------
(***************************************************************************)
(* Induction on numbers and what it gives for FoldLeft.  The provers       *)
(* cannot instantiate a theorem's operator parameter, but tlapm can        *)
(* instantiate a module's: a module that needs these theorems for an       *)
(* operator of its own takes them with INSTANCE ... WITH Op <- ...         *)
(***************************************************************************)
EXTENDS Integers, Sequences, Folds, WellFoundedInduction, TLAPS

CONSTANT Op(_, _)   \* what is folded

-----------------------------------------------------------------------------
(* Natural numbers *)

(* Every set of naturals has a least element, as < is well-founded on them. *)
LEMMA LeastElement ==
    ASSUME NEW T \in SUBSET Nat, T # {}
    PROVE  \E n \in T : \A m \in T : n <= m
<1>1. PICK n \in T : \A m \in T : ~(<<m, n>> \in OpToRel(<, Nat))
  BY NatLessThanWellFounded, WFMin
<1>2. \A m \in T : m \in Nat /\ n \in Nat /\ ~(m < n)
  BY <1>1 DEF OpToRel
<1> QED BY <1>2

(* Induction, for what holds of the members of a set. *)
THEOREM Induction ==
    ASSUME NEW T, 0 \in T, \A n \in Nat : n \in T => n + 1 \in T
    PROVE  \A n \in Nat : n \in T
<1> DEFINE U == {n \in Nat : n \notin T}
<1> SUFFICES ASSUME U # {} PROVE FALSE
  OBVIOUS
<1>1. PICK n \in U : \A m \in U : n <= m
  <2>1. U \in SUBSET Nat
    OBVIOUS
  <2> HIDE DEF U
  <2> QED BY <2>1, LeastElement
<1>2. n - 1 \in Nat /\ n - 1 \notin U
  BY <1>1
<1>3. (n - 1) + 1 \in T
  BY <1>2
<1> QED BY <1>1, <1>3

(* The same up to a number. *)
THEOREM BoundedInduction ==
    ASSUME NEW k \in Nat, NEW T, 0 \in T, \A n \in 1..k : n - 1 \in T => n \in T
    PROVE  \A n \in 0..k : n \in T
<1> DEFINE U == {n \in Nat : n \in 0..k => n \in T}
<1>1. 0 \in U
  OBVIOUS
<1>2. ASSUME NEW n \in Nat, n \in U PROVE n + 1 \in U
  <2>1. CASE n + 1 \in 0..k
    <3>1. n + 1 \in 1..k /\ n \in 0..k /\ (n + 1) - 1 = n
      BY <2>1
    <3> QED BY <1>2, <3>1
  <2> QED BY <2>1
<1>3. \A n \in Nat : n \in U
  <2> HIDE DEF U
  <2> QED BY <1>1, <1>2, Induction
<1> QED BY <1>3

-----------------------------------------------------------------------------
(* FoldLeft *)

(* FoldLeft of SequencesExt, its body written out: the fold of the positions *)
(* of seq, the highest of which is folded last.                             *)
Highest(s) == CHOOSE x \in s : \A y \in s : x >= y

Fold(base, seq) ==
    MapThenFoldSet(LAMBDA x, y : Op(y, x), base, LAMBDA i : seq[i], LAMBDA s : Highest(s), DOMAIN seq)

LEMMA GreatestElement ==
    ASSUME NEW k \in Nat, NEW s \in SUBSET (1..k), s # {}
    PROVE  Highest(s) \in s /\ \A m \in s : m <= Highest(s)
<1> DEFINE T == {k - m : m \in s}
<1>1. T \in SUBSET Nat /\ T # {}
  <2>1. \A m \in s : k - m \in Nat
    OBVIOUS
  <2> QED BY <2>1
<1>2. PICK n \in T : \A m \in T : n <= m
  <2> HIDE DEF T
  <2> QED BY <1>1, LeastElement
<1>3. PICK x \in s : n = k - x
  OBVIOUS
<1>4. \A m \in s : x >= m
  <2> TAKE m \in s
  <2>1. k - m \in T /\ m \in Int /\ x \in Int
    OBVIOUS
  <2> QED BY <1>2, <1>3, <2>1
<1>5. Highest(s) \in s /\ \A m \in s : Highest(s) >= m
  BY <1>4 DEF Highest
<1> QED BY <1>5

(* f is what MapThenFoldSet computes of the subsets of 1..n. *)
Unfolds(f, base, seq, n) == f = [s \in SUBSET (1..n) |->
    IF s = {} THEN base ELSE Op(f[s \ {Highest(s)}], seq[Highest(s)])]

LEMMA UnfoldingExists ==
    ASSUME NEW base, NEW seq, NEW n \in Nat
    PROVE  \E f : Unfolds(f, base, seq, n)
<1> DEFINE T == {k \in Nat : \E f : Unfolds(f, base, seq, k)}
<1>1. 0 \in T
  <2> DEFINE f == [s \in SUBSET (1..0) |-> base]
  <2>1. \A s \in SUBSET (1..0) : s = {}
    OBVIOUS
  <2>2. f = [s \in SUBSET (1..0) |-> IF s = {} THEN base ELSE Op(f[s \ {Highest(s)}], seq[Highest(s)])]
    BY <2>1
  <2> QED BY <2>2 DEF Unfolds
<1>2. ASSUME NEW j \in Nat, j \in T PROVE j + 1 \in T
  <2>1. PICK f : Unfolds(f, base, seq, j)
    BY <1>2
  <2> DEFINE k == j + 1
             g == [s \in SUBSET (1..k) |-> IF k \in s THEN Op(f[s \ {k}], seq[k]) ELSE f[s]]
  <2>2. ASSUME NEW s \in SUBSET (1..k), s # {}
        PROVE  g[s] = Op(g[s \ {Highest(s)}], seq[Highest(s)])
    <3>1. Highest(s) \in s /\ \A m \in s : m <= Highest(s)
      <4>1. k \in Nat
        OBVIOUS
      <4> HIDE DEF k
      <4> QED BY <2>2, <4>1, GreatestElement
    <3>2. \A m \in s : m \in Nat /\ m <= k
      OBVIOUS
    <3>3. k \in s => Highest(s) = k
      <4>1. \A x \in s : (\A m \in s : m <= x) /\ k \in s => x = k
        BY <3>2
      <4> QED BY <3>1, <4>1
    <3>4. s \ {Highest(s)} \in SUBSET (1..k) /\ k \notin s \ {Highest(s)}
      <4> HIDE DEF k
      <4> QED BY <3>3
    <3>5. g[s \ {Highest(s)}] = f[s \ {Highest(s)}]
      BY <3>4
    <3>6. CASE k \in s
      BY <3>3, <3>5, <3>6
    <3>7. CASE k \notin s
      <4>1. s \in SUBSET (1..j)
        BY <3>7
      <4>2. f[s] = Op(f[s \ {Highest(s)}], seq[Highest(s)])
        BY <2>1, <2>2, <4>1 DEF Unfolds
      <4> QED BY <3>5, <3>7, <4>2
    <3> QED BY <3>6, <3>7
  <2>3. g[{}] = base
    <3>1. {} \in SUBSET (1..j) /\ {} \in SUBSET (1..k)
      OBVIOUS
    <3> QED BY <2>1, <3>1 DEF Unfolds
  <2>4. g = [s \in SUBSET (1..k) |-> g[s]]
    OBVIOUS
  <2> HIDE DEF g
  <2>5. Unfolds(g, base, seq, k)
    BY <2>2, <2>3, <2>4 DEF Unfolds
  <2> QED BY <2>5
<1>3. \A k \in Nat : k \in T
  <2> HIDE DEF T
  <2> QED BY <1>1, <1>2, Induction
<1> QED BY <1>3

(* What FoldLeft computes, step by step. *)
THEOREM FoldSteps ==
    ASSUME NEW base, NEW S, NEW seq \in Seq(S)
    PROVE  \E r : /\ r = [k \in 0..Len(seq) |-> r[k]]
                  /\ r[0] = base
                  /\ \A k \in 1..Len(seq) : r[k] = Op(r[k - 1], seq[k])
                  /\ Fold(base, seq) = r[Len(seq)]
<1>1. Len(seq) \in Nat /\ DOMAIN seq = 1..Len(seq)
  OBVIOUS
<1> DEFINE iter == CHOOSE f : Unfolds(f, base, seq, Len(seq))
           r == [k \in 0..Len(seq) |-> iter[1..k]]
<1>2. Unfolds(iter, base, seq, Len(seq))
  BY <1>1, UnfoldingExists
<1>3. Fold(base, seq) = iter[1..Len(seq)]
  BY <1>1, Zenon DEF Fold, MapThenFoldSet, Unfolds
<1> HIDE DEF iter
<1>4. r[0] = base
  <2>1. 1..0 = {} /\ {} \in SUBSET (1..Len(seq))
    OBVIOUS
  <2> QED BY <1>1, <1>2, <2>1 DEF Unfolds
<1>5. ASSUME NEW k \in 1..Len(seq) PROVE r[k] = Op(r[k - 1], seq[k])
  <2>1. /\ 1..k \in SUBSET (1..Len(seq)) /\ k \in 1..k /\ k \in Nat
        /\ k \in 0..Len(seq) /\ k - 1 \in 0..Len(seq)
    BY <1>1
  <2>2. Highest(1..k) = k
    <3>1. Highest(1..k) \in 1..k /\ \A m \in 1..k : m <= Highest(1..k)
      BY <2>1, GreatestElement
    <3> QED BY <2>1, <3>1
  <2>3. (1..k) \ {k} = 1..(k - 1)
    BY <2>1
  <2>4. iter[1..k] = Op(iter[(1..k) \ {Highest(1..k)}], seq[Highest(1..k)])
    BY <1>2, <2>1 DEF Unfolds
  <2> QED BY <2>1, <2>2, <2>3, <2>4
<1>6. r = [k \in 0..Len(seq) |-> r[k]] /\ Fold(base, seq) = r[Len(seq)]
  BY <1>1, <1>3
<1> HIDE DEF r
<1> QED BY <1>4, <1>5, <1>6

THEOREM FoldEmpty == ASSUME NEW base PROVE Fold(base, <<>>) = base
<1>1. ASSUME NEW S, NEW e \in Seq(S), Len(e) = 0 PROVE Fold(base, e) = base
  <2>1. PICK r : r[0] = base /\ Fold(base, e) = r[Len(e)]
    BY FoldSteps
  <2> QED BY <1>1, <2>1
<1>2. <<>> \in Seq(Nat) /\ Len(<<>>) = 0
  OBVIOUS
<1> QED BY <1>1, <1>2

(* A fold can be interrupted anywhere. *)
THEOREM FoldConcat ==
    ASSUME NEW base, NEW S, NEW s \in Seq(S), NEW t \in Seq(S)
    PROVE  Fold(base, s \o t) = Fold(Fold(base, s), t)
<1> DEFINE mid == Fold(base, s)
<1>1. /\ s \o t \in Seq(S) /\ Len(s \o t) = Len(s) + Len(t) /\ Len(s) \in Nat /\ Len(t) \in Nat
      /\ \A i \in 1..Len(s) : (s \o t)[i] = s[i]
      /\ \A i \in 1..Len(t) : (s \o t)[Len(s) + i] = t[i]
  OBVIOUS
<1>2. PICK r : /\ r[0] = base
               /\ \A k \in 1..Len(s) : r[k] = Op(r[k - 1], s[k])
               /\ mid = r[Len(s)]
  BY FoldSteps
<1>3. PICK u : /\ u[0] = base
               /\ \A k \in 1..(Len(s) + Len(t)) : u[k] = Op(u[k - 1], (s \o t)[k])
               /\ Fold(base, s \o t) = u[Len(s) + Len(t)]
  <2> DEFINE w == s \o t
  <2>1. w \in Seq(S) /\ Len(w) = Len(s) + Len(t)
    BY <1>1
  <2> HIDE DEF w
  <2>2. \E v : /\ v[0] = base
               /\ \A k \in 1..Len(w) : v[k] = Op(v[k - 1], w[k])
               /\ Fold(base, w) = v[Len(w)]
    BY <2>1, FoldSteps
  <2> QED BY <2>1, <2>2 DEF w
<1>4. PICK v : /\ v[0] = mid
               /\ \A k \in 1..Len(t) : v[k] = Op(v[k - 1], t[k])
               /\ Fold(mid, t) = v[Len(t)]
  <2> HIDE DEF mid
  <2> QED BY FoldSteps
<1> HIDE DEF mid
<1>5. \A k \in 0..Len(s) : u[k] = r[k]
  <2> DEFINE T == {k \in 0..Len(s) : u[k] = r[k]}
  <2>1. 0 \in T
    BY <1>1, <1>2, <1>3
  <2>2. ASSUME NEW k \in 1..Len(s), k - 1 \in T PROVE k \in T
    <3>1. k \in 1..(Len(s) + Len(t)) /\ k \in 0..Len(s)
      BY <1>1
    <3> QED BY <1>1, <1>2, <1>3, <2>2, <3>1
  <2>3. \A k \in 0..Len(s) : k \in T
    <3> HIDE DEF T
    <3> QED BY <1>1, <2>1, <2>2, BoundedInduction
  <2> QED BY <2>3
<1>6. \A k \in 0..Len(t) : u[Len(s) + k] = v[k]
  <2> DEFINE T == {k \in 0..Len(t) : u[Len(s) + k] = v[k]}
  <2>1. 0 \in T
    <3>1. Len(s) + 0 = Len(s) /\ Len(s) \in 0..Len(s) /\ 0 \in 0..Len(t)
      BY <1>1
    <3>2. u[Len(s)] = v[0]
      BY <1>2, <1>4, <1>5, <3>1
    <3> QED BY <3>1, <3>2
  <2>2. ASSUME NEW k \in 1..Len(t), k - 1 \in T PROVE k \in T
    <3>1. /\ k \in 0..Len(t) /\ k - 1 \in 0..Len(t)
          /\ Len(s) + k \in 1..(Len(s) + Len(t)) /\ (Len(s) + k) - 1 = Len(s) + (k - 1)
      BY <1>1
    <3>2. u[Len(s) + k] = Op(u[Len(s) + (k - 1)], (s \o t)[Len(s) + k])
      BY <1>3, <3>1
    <3> QED BY <1>1, <1>4, <2>2, <3>1, <3>2
  <2>3. \A k \in 0..Len(t) : k \in T
    <3> HIDE DEF T
    <3> QED BY <1>1, <2>1, <2>2, BoundedInduction
  <2> QED BY <2>3
<1>7. Len(t) \in 0..Len(t)
  BY <1>1
<1> QED BY <1>3, <1>4, <1>6, <1>7 DEF mid

THEOREM FoldOne == ASSUME NEW base, NEW x PROVE Fold(base, <<x>>) = Op(base, x)
<1> DEFINE s == <<x>>
<1>1. s \in Seq({x}) /\ Len(s) = 1 /\ s[1] = x
  OBVIOUS
<1> HIDE DEF s
<1>2. \E r : r[0] = base /\ (\A k \in 1..Len(s) : r[k] = Op(r[k - 1], s[k])) /\ Fold(base, s) = r[Len(s)]
  BY <1>1, FoldSteps
<1>3. Fold(base, s) = Op(base, s[1])
  BY <1>1, <1>2
<1> QED BY <1>1, <1>3 DEF s

THEOREM FoldAppend ==
    ASSUME NEW base, NEW S, NEW s \in Seq(S), NEW x \in S
    PROVE  Fold(base, Append(s, x)) = Op(Fold(base, s), x)
<1>1. Append(s, x) = s \o <<x>> /\ <<x>> \in Seq(S)
  OBVIOUS
<1> DEFINE t == <<x>>
<1>2. Fold(base, s \o t) = Fold(Fold(base, s), t)
  <2>1. t \in Seq(S)
    BY <1>1
  <2> HIDE DEF t
  <2> QED BY <2>1, FoldConcat
<1> QED BY <1>1, <1>2, FoldOne

-----------------------------------------------------------------------------
(* Sets of states and loops, folds that ignore what they fold over *)

Runs(r, base, seq) ==
    /\ r[0] = base
    /\ \A k \in 1..Len(seq) : r[k] = Op(r[k - 1], seq[k])
    /\ Fold(base, seq) = r[Len(seq)]

(* Every step from a state of H leads to one of H. *)
Keeps(H, S) == \A x \in H : \A y \in S : Op(x, y) \in H

(* A step from a state of D makes no difference, and one from another      *)
(* state of H shrinks it by two, until there is less than that left.       *)
Stops(D, H, S) == \A x \in H : \A y \in S : x \in D => Op(x, y) = x
Shrinks(size, D, H, S) == \A x \in H :
    /\ size[x] < 2 => x \in D
    /\ \A y \in S : x \notin D => size[Op(x, y)] + 2 <= size[x]

(* Every step from base leads to x. *)
Leads(base, x, S) == \A y \in S : Op(base, y) = x

(* It makes no difference whether a step is taken before image or after. *)
Commutes(image, H, S) == \A x \in H : \A y, z \in S : Op(image[x], z) = image[Op(x, y)]

Moves(image, H, S) == \A x \in H : \A y \in S : Op(image[x], y) = image[Op(x, y)]
Longer(seq, seq2, S) == seq \in Seq(S) /\ seq2 \in Seq(S) /\ Len(seq) > Len(seq2)
Unrolls(base, base2, image, D, H, S) ==
    /\ base2 \in H /\ Leads(base, image[base2], S)
    /\ Keeps(H, S) /\ Stops(D, H, S) /\ Commutes(image, H, S)

LEMMA FoldRuns == ASSUME NEW base, NEW S, NEW seq \in Seq(S) PROVE \E r : Runs(r, base, seq)
BY FoldSteps DEF Runs

(* A run leads to the fold, whatever else it is the run of. *)
THEOREM FoldIs ==
    ASSUME NEW base, NEW S, NEW seq \in Seq(S), NEW r, r[0] = base,
           \A k \in 1..Len(seq) : r[k] = Op(r[k - 1], seq[k])
    PROVE  Fold(base, seq) = r[Len(seq)]
<1>1. PICK u : Runs(u, base, seq)
  BY FoldRuns
<1> DEFINE T == {k \in 0..Len(seq) : u[k] = r[k]}
<1>2. Len(seq) \in Nat
  OBVIOUS
<1>3. 0 \in T /\ \A k \in 1..Len(seq) : k - 1 \in T => k \in T
  BY <1>1, <1>2 DEF Runs
<1>4. \A k \in 0..Len(seq) : k \in T
  <2> HIDE DEF T
  <2> QED BY <1>2, <1>3, BoundedInduction
<1> QED BY <1>1, <1>2, <1>4 DEF Runs

LEMMA Positions ==
    ASSUME NEW S, NEW seq \in Seq(S)
    PROVE  Len(seq) \in Nat /\ \A k \in 1..Len(seq) : seq[k] \in S
OBVIOUS

(* The set that every step keeps contains the fold. *)
THEOREM FoldInSet ==
    ASSUME NEW base, NEW S, NEW seq \in Seq(S), NEW H, base \in H, Keeps(H, S)
    PROVE  Fold(base, seq) \in H
<1>1. PICK r : Runs(r, base, seq)
  BY FoldRuns
<1> DEFINE T == {k \in 0..Len(seq) : r[k] \in H}
<1>2. Len(seq) \in Nat /\ \A k \in 1..Len(seq) : seq[k] \in S
  BY Positions
<1>3. 0 \in T /\ \A k \in 1..Len(seq) : k - 1 \in T => k \in T
  BY <1>1, <1>2 DEF Runs, Keeps
<1>4. \A k \in 0..Len(seq) : k \in T
  <2> HIDE DEF T
  <2> QED BY <1>2, <1>3, BoundedInduction
<1> QED BY <1>1, <1>2, <1>4 DEF Runs

(* A set of pairs, of what was folded and where that led, to which every   *)
(* step adds the next pair.                                                *)
Tracks(K, S) == \A k \in K : \A y \in S : <<k[1] \o <<y>>, Op(k[2], y)>> \in K

THEOREM FoldTracks ==
    ASSUME NEW base, NEW S, NEW seq \in Seq(S), NEW K, << <<>>, base >> \in K, Tracks(K, S)
    PROVE  <<seq, Fold(base, seq)>> \in K
<1>1. PICK r : Runs(r, base, seq)
  BY FoldRuns
<1> DEFINE T == {k \in 0..Len(seq) : <<SubSeq(seq, 1, k), r[k]>> \in K}
<1>2. Len(seq) \in Nat /\ \A k \in 1..Len(seq) : seq[k] \in S
  BY Positions
<1>3. SubSeq(seq, 1, 0) = <<>> /\ SubSeq(seq, 1, Len(seq)) = seq
  OBVIOUS
<1>4. 0 \in T
  BY <1>1, <1>2, <1>3 DEF Runs
<1>5. ASSUME NEW k \in 1..Len(seq), k - 1 \in T PROVE k \in T
  <2> DEFINE p == SubSeq(seq, 1, k - 1)
             pair == <<p, r[k - 1]>>
  <2>1. SubSeq(seq, 1, k) = p \o <<seq[k]>>
    OBVIOUS
  <2> HIDE DEF p
  <2>2. pair \in K /\ pair[1] = p /\ pair[2] = r[k - 1]
    BY <1>5 DEF p
  <2> HIDE DEF pair
  <2>3. <<pair[1] \o <<seq[k]>>, Op(pair[2], seq[k])>> \in K
    BY <1>2, <2>2 DEF Tracks
  <2>4. r[k] = Op(pair[2], seq[k])
    BY <1>1, <2>2 DEF Runs
  <2>5. k \in 0..Len(seq)
    BY <1>2
  <2> QED BY <2>1, <2>2, <2>3, <2>4, <2>5
<1>6. \A k \in 0..Len(seq) : k \in T
  <2> HIDE DEF T
  <2> QED BY <1>2, <1>4, <1>5, BoundedInduction
<1>7. Len(seq) \in T
  BY <1>2, <1>6
<1> QED BY <1>1, <1>3, <1>7 DEF Runs

(* A fold from the image of a state ends at the image of where the fold    *)
(* from that state ends, if every step does.                               *)
THEOREM FoldMoves ==
    ASSUME NEW base, NEW S, NEW seq \in Seq(S), NEW H, base \in H, NEW image,
           Keeps(H, S), Moves(image, H, S)
    PROVE  Fold(image[base], seq) = image[Fold(base, seq)]
<1>1. PICK r : Runs(r, base, seq)
  BY FoldRuns
<1>2. PICK u : Runs(u, image[base], seq)
  BY FoldRuns
<1>3. Len(seq) \in Nat /\ \A k \in 1..Len(seq) : seq[k] \in S
  BY Positions
<1> DEFINE T == {k \in 0..Len(seq) : r[k] \in H /\ u[k] = image[r[k]]}
<1>4. \A k \in 0..Len(seq) : k \in T
  <2>1. 0 \in T
    BY <1>1, <1>2, <1>3 DEF Runs
  <2>2. ASSUME NEW k \in 1..Len(seq), k - 1 \in T PROVE k \in T
    <3>1. k \in 0..Len(seq) /\ seq[k] \in S
      BY <1>3
    <3>2. r[k] = Op(r[k - 1], seq[k]) /\ u[k] = Op(u[k - 1], seq[k])
      BY <1>1, <1>2 DEF Runs
    <3>3. r[k - 1] \in H /\ u[k - 1] = image[r[k - 1]]
      BY <2>2
    <3>4. Op(r[k - 1], seq[k]) \in H
      BY <3>1, <3>3 DEF Keeps
    <3>5. Op(image[r[k - 1]], seq[k]) = image[Op(r[k - 1], seq[k])]
      BY <3>1, <3>3 DEF Moves
    <3> QED BY <3>1, <3>2, <3>3, <3>4, <3>5
  <2> HIDE DEF T
  <2> QED BY <1>3, <2>1, <2>2, BoundedInduction
<1>5. Len(seq) \in T
  <2>1. Len(seq) \in 0..Len(seq)
    BY <1>3
  <2> HIDE DEF T
  <2> QED BY <1>4, <2>1
<1> QED BY <1>1, <1>2, <1>5 DEF Runs

LEMMA OneLess ==
    ASSUME NEW a \in Nat, NEW b \in Nat, NEW c \in Nat, NEW k \in Int,
           a + 2 <= b, b + 2 * (k - 1) <= c
    PROVE  a + 2 * k <= c
OBVIOUS

(* Half its size in passes is enough for a loop to end. *)
THEOREM LoopEnds ==
    ASSUME NEW base, NEW S, NEW seq \in Seq(S), NEW H, base \in H, NEW D,
           NEW size \in [H -> Nat], size[base] < 2 * (Len(seq) + 1),
           Keeps(H, S), Stops(D, H, S), Shrinks(size, D, H, S)
    PROVE  Fold(base, seq) \in H /\ Fold(base, seq) \in D
<1>1. PICK r : Runs(r, base, seq)
  BY FoldRuns
<1> DEFINE T == {k \in 0..Len(seq) :
                    /\ r[k] \in H
                    /\ r[k] \in D \/ size[r[k]] + 2 * k <= size[base]}
<1>2. Len(seq) \in Nat /\ \A k \in 1..Len(seq) : seq[k] \in S
  BY Positions
<1>3. 0 \in T
  <2>1. r[0] = base
    BY <1>1 DEF Runs
  <2> QED BY <1>2, <2>1
<1>4. ASSUME NEW k \in 1..Len(seq), k - 1 \in T PROVE k \in T
  <2>1. r[k] = Op(r[k - 1], seq[k]) /\ seq[k] \in S /\ k \in 0..Len(seq) /\ r[k - 1] \in H
    BY <1>1, <1>2, <1>4 DEF Runs
  <2>2. r[k] \in H
    BY <2>1 DEF Keeps
  <2>3. CASE r[k - 1] \in D
    <3>1. r[k] = r[k - 1]
      BY <2>1, <2>3 DEF Stops
    <3> QED BY <2>1, <2>2, <2>3, <3>1
  <2>4. CASE r[k - 1] \notin D
    <3>1. size[r[k]] + 2 <= size[r[k - 1]]
      BY <2>1, <2>4 DEF Shrinks
    <3>2. size[r[k - 1]] + 2 * (k - 1) <= size[base]
      BY <1>4, <2>4
    <3>3. size[r[k]] \in Nat /\ size[r[k - 1]] \in Nat /\ size[base] \in Nat
      BY <2>1, <2>2
    <3>4. size[r[k]] + 2 * k <= size[base]
      <4>1. k \in Int
        OBVIOUS
      <4> QED BY <3>1, <3>2, <3>3, <4>1, OneLess
    <3> QED BY <2>1, <2>2, <3>4
  <2> QED BY <2>3, <2>4
<1>5. \A k \in 0..Len(seq) : k \in T
  <2> HIDE DEF T
  <2> QED BY <1>2, <1>3, <1>4, BoundedInduction
<1>6. r[Len(seq)] \in H /\ (r[Len(seq)] \in D \/ size[r[Len(seq)]] + 2 * Len(seq) <= size[base])
  BY <1>2, <1>5
<1>7. CASE size[r[Len(seq)]] + 2 * Len(seq) <= size[base]
  <2>1. size[r[Len(seq)]] \in Nat /\ size[base] \in Nat
    BY <1>6
  <2>2. size[r[Len(seq)]] < 2
    BY <1>2, <1>7, <2>1
  <2> QED BY <1>1, <1>6, <2>2 DEF Runs, Shrinks
<1> QED BY <1>1, <1>6, <1>7 DEF Runs

(* A loop whose first pass leads to the image of where another begins ends *)
(* at the image of where the other ends, if it goes on long enough.        *)
THEOREM LoopUnrolls ==
    ASSUME NEW base, NEW base2, NEW S, NEW seq, NEW seq2, NEW H, NEW D, NEW image,
           Longer(seq, seq2, S), Unrolls(base, base2, image, D, H, S),
           Fold(base2, seq2) \in D
    PROVE  Fold(base, seq) = image[Fold(base2, seq2)]
<1>1. PICK r : Runs(r, base, seq)
  BY FoldRuns DEF Longer
<1>2. PICK u : Runs(u, base2, seq2)
  BY FoldRuns DEF Longer
<1>3. /\ Len(seq) \in Nat /\ \A k \in 1..Len(seq) : seq[k] \in S
      /\ Len(seq2) \in Nat /\ \A k \in 1..Len(seq2) : seq2[k] \in S
  BY Positions DEF Longer
<1> DEFINE last == Len(seq2)
           more == Len(seq) - 1 - last
           T == {k \in 0..last : u[k] \in H /\ r[k + 1] = image[u[k]]}
           U == {k \in 0..more : r[last + k + 1] = image[u[last]]}
<1>4. last \in Nat /\ more \in Nat /\ last + more + 1 = Len(seq)
  BY <1>3 DEF Longer
<1>5. \A k \in 0..last : k \in T
  <2>1. 0 \in T
    <3>1. 1 \in 1..Len(seq) /\ 1 - 1 = 0 /\ 0 + 1 = 1 /\ 0 \in 0..last
      BY <1>4
    <3>2. r[1] = Op(r[0], seq[1]) /\ seq[1] \in S /\ r[0] = base /\ u[0] = base2
      BY <1>1, <1>2, <1>3, <3>1 DEF Runs
    <3> QED BY <3>1, <3>2 DEF Unrolls, Leads
  <2>2. ASSUME NEW k \in 1..last, k - 1 \in T PROVE k \in T
    <3>1. k \in 0..last /\ k + 1 \in 1..Len(seq) /\ (k + 1) - 1 = k /\ (k - 1) + 1 = k
      BY <1>4
    <3>2. seq2[k] \in S /\ seq[k + 1] \in S
      BY <1>3, <3>1
    <3>3. u[k] = Op(u[k - 1], seq2[k]) /\ r[k + 1] = Op(r[k], seq[k + 1])
      BY <1>1, <1>2, <3>1 DEF Runs
    <3>4. u[k - 1] \in H /\ r[k] = image[u[k - 1]]
      BY <2>2, <3>1
    <3>5. u[k] \in H
      BY <3>2, <3>3, <3>4 DEF Unrolls, Keeps
    <3>6. Op(image[u[k - 1]], seq[k + 1]) = image[Op(u[k - 1], seq2[k])]
      BY <3>2, <3>4 DEF Unrolls, Commutes
    <3> QED BY <3>1, <3>3, <3>4, <3>5, <3>6
  <2> HIDE DEF T
  <2> QED BY <1>4, <2>1, <2>2, BoundedInduction
<1>6. u[last] \in H /\ u[last] \in D /\ r[last + 1] = image[u[last]]
  <2>1. last \in 0..last
    BY <1>4
  <2> QED BY <1>2, <1>5, <2>1 DEF Runs
<1>7. \A k \in 0..more : k \in U
  <2>1. 0 \in U
    <3>1. last + 0 + 1 = last + 1 /\ 0 \in 0..more
      BY <1>4
    <3> QED BY <1>6, <3>1
  <2>2. ASSUME NEW k \in 1..more, k - 1 \in U PROVE k \in U
    <3>1. /\ k \in 0..more /\ last + k + 1 \in 1..Len(seq)
          /\ (last + k + 1) - 1 = last + (k - 1) + 1
      BY <1>4
    <3>2. seq[last + k + 1] \in S
      BY <1>3, <3>1
    <3>3. r[last + k + 1] = Op(image[u[last]], seq[last + k + 1])
      BY <1>1, <2>2, <3>1 DEF Runs
    <3>4. r[last + k + 1] = image[u[last]]
      BY <1>6, <3>2, <3>3 DEF Unrolls, Stops, Commutes
    <3> QED BY <3>1, <3>4
  <2> HIDE DEF U
  <2> QED BY <1>4, <2>1, <2>2, BoundedInduction
<1>8. r[Len(seq)] = image[u[last]]
  <2>1. more \in U
    <3>1. more \in 0..more
      BY <1>4
    <3> HIDE DEF U, more
    <3> QED BY <1>7, <3>1
  <2>2. last + more + 1 = Len(seq)
    BY <1>4
  <2>3. r[last + more + 1] = image[u[last]]
    <3> HIDE DEF last, more
    <3> QED BY <2>1
  <2> HIDE DEF last, more
  <2> QED BY <2>2, <2>3
<1> QED BY <1>1, <1>2, <1>8 DEF Runs

=============================================================================
