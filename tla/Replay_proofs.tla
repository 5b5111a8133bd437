---------------------------- MODULE Replay_proofs ----------------------------
(***************************************************************************)
(* Proofs about Replay, for any bodies, codings and limits, and recordings *)
(* of any length: what the exit code of a replay says is so, and what is   *)
(* displayed of a body does not pass for more than it is.                  *)
(*                                                                         *)
(* Control takes little (ReplayInv, the last section); what the invariants *)
(* are about is the data, which BodyView computes by recursive functions   *)
(* on the codings of a body and on the messages in it.  No rule of         *)
(* induction takes part: that something holds at each of finitely many     *)
(* stages is shown from the first, or the last, stage at which it would    *)
(* not (LeastElement, GreatestElement).  In this way each recursive        *)
(* function is first shown to exist, and so to satisfy its equation        *)
(* (EncodedIs, DecodedIs, MessagesFromIs); everything else about it comes  *)
(* from the equation.                                                      *)
(***************************************************************************)
EXTENDS Replay, SequenceTheorems, WellFoundedInduction, NaturalsInduction, TLAPS

-----------------------------------------------------------------------------
(* Numbers and sequences *)

\* A set of numbers has a least element; with it, what fails anywhere fails somewhere first.
LEMMA LeastElement ==
  ASSUME NEW T \in SUBSET Nat, T # {}
  PROVE  \E x \in T : \A y \in T : x <= y
<1> DEFINE Less == OpToRel(<, Nat)
<1>1. \A x, y \in Nat : x < y => <<x, y>> \in Less
  BY DEF OpToRel
<1>2. IsWellFoundedOn(Less, Nat)
  BY NatLessThanWellFounded
<1> HIDE DEF Less
<1>3. PICK x \in T : \A y \in T : ~ (<<y, x>> \in Less)
  BY <1>2, WFMin
<1>4. ASSUME NEW y \in T PROVE x <= y
  <2>1. ~ (y < x)
    BY <1>1, <1>3, Zenon
  <2> QED
    BY <2>1
<1> QED
  BY <1>4

\* And a bounded one has a greatest.
LEMMA GreatestElement ==
  ASSUME NEW k \in Nat, NEW S \in SUBSET (0 .. k), S # {}
  PROVE  \E x \in S : \A y \in S : y <= x
<1> DEFINE T == {j \in Nat : k - j \in S}
<1>1. T # {}
  <2>1. PICK x \in S : TRUE
    OBVIOUS
  <2>2. k - x \in Nat /\ k - (k - x) = x
    OBVIOUS
  <2> QED
    BY <2>1, <2>2
<1>2. PICK j \in T : \A y \in T : j <= y
  BY <1>1, LeastElement
<1>3. ASSUME NEW y \in S PROVE y <= k - j
  <2>1. y \in 0 .. k /\ k - y \in Nat /\ k - (k - y) = y
    OBVIOUS
  <2>2. j \in Nat /\ j <= k - y
    BY <1>2, <2>1
  <2> QED
    BY <2>1, <2>2
<1> QED
  BY <1>3

\* Min is the least element,
LEMMA MinIs ==
  ASSUME NEW S \in SUBSET Nat, S # {}
  PROVE  Min(S) \in S /\ \A y \in S : Min(S) <= y
BY LeastElement DEF Min

\* and Max the greatest.
LEMMA MaxIs ==
  ASSUME NEW k \in Nat, NEW S \in SUBSET (0 .. k), S # {}
  PROVE  Max(S) \in S /\ \A y \in S : y <= Max(S)
BY GreatestElement DEF Max

\* Of two numbers, the lesser one.
LEMMA MinOfTwo ==
  ASSUME NEW a \in Nat, NEW b \in Nat
  PROVE  Min({a, b}) = IF a <= b THEN a ELSE b
BY MinIs

\* Of which one may be less than nothing.
LEMMA MinOfTwoInts ==
  ASSUME NEW a \in Int, NEW b \in Int
  PROVE  Min({a, b}) = IF a <= b THEN a ELSE b
<1> DEFINE least == IF a <= b THEN a ELSE b
<1>1. least \in {a, b} /\ \A y \in {a, b} : least <= y
  OBVIOUS
<1>2. \A x \in {a, b} : (\A y \in {a, b} : x <= y) => x = least
  OBVIOUS
<1> HIDE DEF least
<1>3. Min({a, b}) \in {a, b} /\ \A y \in {a, b} : Min({a, b}) <= y
  BY <1>1 DEF Min
<1>4. Min({a, b}) = least
  BY <1>2, <1>3
<1> QED
  BY <1>4 DEF least

\* A sequence, of whatever elements.
IsSeq(s) == Len(s) \in Nat /\ s = [i \in 1 .. Len(s) |-> s[i]]

\* What Seq has is a sequence,
LEMMA SeqIsSeq ==
  ASSUME NEW S, NEW s \in Seq(S)
  PROVE  IsSeq(s)
BY LenProperties DEF IsSeq

\* a sequence is in Seq of its own elements,
LEMMA AsSeq ==
  ASSUME NEW s, IsSeq(s)
  PROVE  s \in Seq(ToSet(s)) /\ DOMAIN s = 1 .. Len(s)
<1>1. DOMAIN s = 1 .. Len(s) /\ Len(s) \in Nat
  BY DEF IsSeq
<1>2. s \in [1 .. Len(s) -> ToSet(s)]
  BY <1>1 DEF ToSet, IsSeq
<1> QED
  BY <1>1, <1>2, IsASeq

\* and so is a function on 1 .. k.
LEMMA MakesSeq ==
  ASSUME NEW k \in Nat, NEW s, s = [i \in 1 .. k |-> s[i]]
  PROVE  IsSeq(s) /\ Len(s) = k
<1>1. s \in [1 .. k -> {s[i] : i \in 1 .. k}]
  OBVIOUS
<1>2. s \in Seq({s[i] : i \in 1 .. k})
  BY <1>1, IsASeq
<1>3. Len(s) = k
  BY <1>2, LenProperties
<1> QED
  BY <1>2, <1>3, SeqIsSeq

\* Sequences of a length, and the same at each place, are equal.
LEMMA SameSeq ==
  ASSUME NEW s, IsSeq(s), NEW t, IsSeq(t), Len(s) = Len(t),
         \A i \in 1 .. Len(s) : s[i] = t[i]
  PROVE  s = t
BY DEF IsSeq

\* The elements of a part of a sequence.
LEMMA Part ==
  ASSUME NEW s, IsSeq(s), NEW a \in 1 .. Len(s) + 1, NEW b \in a - 1 .. Len(s)
  PROVE  /\ IsSeq(SubSeq(s, a, b))
         /\ Len(SubSeq(s, a, b)) = b - a + 1
         /\ \A i \in 1 .. b - a + 1 : SubSeq(s, a, b)[i] = s[a + i - 1]
<1>1. Len(s) \in Nat
  BY DEF IsSeq
<1>2. \A i \in a .. b : s[i] \in ToSet(s)
  BY <1>1, AsSeq DEF ToSet
<1>3. /\ SubSeq(s, a, b) \in Seq(ToSet(s))
      /\ Len(SubSeq(s, a, b)) = IF a <= b THEN b - a + 1 ELSE 0
      /\ \A i \in 1 .. b - a + 1 : SubSeq(s, a, b)[i] = s[a + i - 1]
  <2>1. a \in Int /\ b \in Int
    BY <1>1
  <2> QED
    BY <1>2, <2>1, SubSeqProperties
<1>4. IsSeq(SubSeq(s, a, b))
  BY <1>3, SeqIsSeq
<1>5. (IF a <= b THEN b - a + 1 ELSE 0) = b - a + 1
  BY <1>1
<1> QED
  BY <1>3, <1>4, <1>5

\* s is a beginning of t.
Begins(s, t) == Len(s) <= Len(t) /\ \A i \in 1 .. Len(s) : s[i] = t[i]

\* Which is what IsPrefix says of sequences.
LEMMA PrefixBegins ==
  ASSUME NEW s, IsSeq(s), NEW t, IsSeq(t)
  PROVE  IsPrefix(s, t) <=> Begins(s, t)
<1>1. Len(s) \in Nat /\ Len(t) \in Nat
  BY DEF IsSeq
<1>2. CASE Len(s) <= Len(t)
  <2> DEFINE a == SubSeq(s, 1, Len(s))
             b == SubSeq(t, 1, Len(s))
  <2>1. IsSeq(a) /\ Len(a) = Len(s) /\ \A i \in 1 .. Len(s) : a[i] = s[i]
    BY <1>1, Part
  <2>2. IsSeq(b) /\ Len(b) = Len(s) /\ \A i \in 1 .. Len(s) : b[i] = t[i]
    BY <1>1, <1>2, Part
  <2>3. a = b <=> \A i \in 1 .. Len(s) : s[i] = t[i]
    <3> HIDE DEF a, b
    <3> QED
      BY <2>1, <2>2, SameSeq
  <2> QED
    BY <1>1, <1>2, <2>3 DEF IsPrefix, Begins
<1>3. CASE ~(Len(s) <= Len(t))
  BY <1>3 DEF IsPrefix, Begins
<1> QED
  BY <1>2, <1>3

\* The first k bytes, or all if there are no more (io.LimitReader, stream.go).
LEMMA UptoIs ==
  ASSUME NEW s, IsSeq(s), NEW k \in Nat
  PROVE  /\ IsSeq(Upto(s, k))
         /\ Len(Upto(s, k)) = IF k <= Len(s) THEN k ELSE Len(s)
         /\ Begins(Upto(s, k), s)
         /\ Len(s) <= k => Upto(s, k) = s
<1>1. Len(s) \in Nat
  BY DEF IsSeq
<1> DEFINE l == Min({k, Len(s)})
<1>2. l = IF k <= Len(s) THEN k ELSE Len(s)
  BY <1>1, MinOfTwo
<1> HIDE DEF l
<1> DEFINE u == SubSeq(s, 1, l)
<1>3. IsSeq(u) /\ Len(u) = l /\ \A i \in 1 .. l : u[i] = s[i]
  BY <1>1, <1>2, Part
<1>4. Upto(s, k) = u
  BY DEF Upto, l
<1> HIDE DEF u
<1>5. Len(s) <= k => u = s
  BY <1>1, <1>2, <1>3, SameSeq
<1> QED
  BY <1>1, <1>2, <1>3, <1>4, <1>5 DEF Begins

\* Where a text has anything but space.
Ink(s) == {i \in DOMAIN s : s[i] # Space}

\* A trimmed text goes from the first byte that is not a space to the last.
LEMMA TrimIs ==
  ASSUME NEW s, IsSeq(s)
  PROVE  /\ Ink(s) = {} => TrimSpace(s) = <<>>
         /\ Ink(s) # {} =>
              /\ Min(Ink(s)) \in Ink(s) /\ Max(Ink(s)) \in Ink(s)
              /\ \A i \in Ink(s) : Min(Ink(s)) <= i /\ i <= Max(Ink(s))
              /\ Len(TrimSpace(s)) = Max(Ink(s)) - Min(Ink(s)) + 1
              /\ \A i \in 1 .. Len(TrimSpace(s)) : TrimSpace(s)[i] = s[Min(Ink(s)) + i - 1]
         /\ IsSeq(TrimSpace(s))
<1>1. Len(s) \in Nat /\ DOMAIN s = 1 .. Len(s)
  BY AsSeq DEF IsSeq
<1>2. Ink(s) \in SUBSET (1 .. Len(s))
  BY <1>1 DEF Ink
<1>3. CASE Ink(s) = {}
  <2>1. TrimSpace(s) = <<>>
    BY <1>3 DEF TrimSpace, Ink
  <2>2. IsSeq(<<>>)
    BY EmptySeq, SeqIsSeq
  <2> QED
    BY <1>3, <2>1, <2>2
<1>4. CASE Ink(s) # {}
  <2> DEFINE a == Min(Ink(s))
             b == Max(Ink(s))
  <2>1. Ink(s) \in SUBSET Nat /\ Ink(s) \in SUBSET (0 .. Len(s))
    BY <1>1, <1>2
  <2>2. a \in Ink(s) /\ b \in Ink(s) /\ \A i \in Ink(s) : a <= i /\ i <= b
    BY <1>1, <1>4, <2>1, MinIs, MaxIs
  <2>3. TrimSpace(s) = SubSeq(s, a, b)
    BY <1>4 DEF TrimSpace, Ink
  <2> HIDE DEF a, b
  <2>4. a \in 1 .. Len(s) + 1 /\ b \in a - 1 .. Len(s) /\ a <= b
    BY <1>1, <1>2, <2>2
  <2>5. /\ IsSeq(TrimSpace(s)) /\ Len(TrimSpace(s)) = b - a + 1
        /\ \A i \in 1 .. b - a + 1 : TrimSpace(s)[i] = s[a + i - 1]
    BY <2>3, <2>4, Part
  <2> QED
    BY <1>4, <2>2, <2>5 DEF a, b
<1> QED
  BY <1>3, <1>4

\* The spaces around a beginning of a text are cut to a beginning of the text cut.
LEMMA TrimBegins ==
  ASSUME NEW s, IsSeq(s), NEW t, IsSeq(t), Begins(s, t)
  PROVE  Begins(TrimSpace(s), TrimSpace(t))
<1>1. /\ Len(s) \in Nat /\ DOMAIN s = 1 .. Len(s)
      /\ Len(t) \in Nat /\ DOMAIN t = 1 .. Len(t)
  BY AsSeq DEF IsSeq
<1>2. \A i \in 1 .. Len(s) : i \in 1 .. Len(t) /\ s[i] = t[i]
  BY <1>1 DEF Begins
<1>3. Ink(s) = Ink(t) \cap (1 .. Len(s))
  BY <1>1, <1>2 DEF Ink
<1>4. CASE Ink(s) = {}
  <2>1. Len(TrimSpace(s)) = 0
    BY <1>4, TrimIs, EmptySeq
  <2>2. Len(TrimSpace(t)) \in Nat
    BY TrimIs DEF IsSeq
  <2> QED
    BY <2>1, <2>2 DEF Begins
<1>5. CASE Ink(s) # {}
  <2> DEFINE a == Min(Ink(s))
             b == Max(Ink(s))
             c == Min(Ink(t))
             d == Max(Ink(t))
  <2>1. /\ a \in Ink(s) /\ b \in Ink(s)
        /\ \A i \in Ink(s) : a <= i /\ i <= b
        /\ Len(TrimSpace(s)) = b - a + 1
        /\ \A i \in 1 .. Len(TrimSpace(s)) : TrimSpace(s)[i] = s[a + i - 1]
    BY <1>5, TrimIs
  <2>2. /\ c \in Ink(t) /\ d \in Ink(t)
        /\ \A i \in Ink(t) : c <= i /\ i <= d
        /\ Len(TrimSpace(t)) = d - c + 1
        /\ \A i \in 1 .. Len(TrimSpace(t)) : TrimSpace(t)[i] = t[c + i - 1]
    <3>1. Ink(t) # {}
      BY <1>3, <1>5
    <3> QED
      BY <3>1, TrimIs
  <2> HIDE DEF a, b, c, d
  <2>3. /\ a \in 1 .. Len(s) /\ b \in 1 .. Len(s) /\ c \in 1 .. Len(t) /\ d \in 1 .. Len(t)
    BY <1>1, <2>1, <2>2 DEF Ink
  <2>4. c = a /\ b <= d
    <3>1. a \in Ink(t) /\ b \in Ink(t)
      BY <1>3, <2>1
    <3>2. c <= a /\ b <= d
      BY <2>2, <3>1
    <3>3. c \in Ink(s)
      BY <1>1, <1>3, <2>2, <2>3, <3>2
    <3> QED
      BY <1>1, <2>1, <2>3, <3>2, <3>3
  <2>5. ASSUME NEW i \in 1 .. b - a + 1 PROVE s[a + i - 1] = t[a + i - 1]
    BY <1>1, <1>2, <2>3
  <2>6. Len(TrimSpace(s)) <= Len(TrimSpace(t))
    BY <1>1, <2>1, <2>2, <2>3, <2>4
  <2>7. ASSUME NEW i \in 1 .. b - a + 1 PROVE TrimSpace(s)[i] = TrimSpace(t)[i]
    <3>1. i \in 1 .. Len(TrimSpace(t))
      BY <1>1, <2>2, <2>3, <2>4
    <3> QED
      BY <2>1, <2>2, <2>4, <2>5, <3>1
  <2> QED
    BY <2>1, <2>6, <2>7 DEF Begins
<1> QED
  BY <1>4, <1>5

\* A text that does not begin with a space keeps its first byte when it is trimmed.
LEMMA TrimHead ==
  ASSUME NEW s, IsSeq(s), Len(s) > 0, s[1] # Space
  PROVE  Len(TrimSpace(s)) > 0 /\ TrimSpace(s)[1] = s[1]
<1>1. Len(s) \in Nat /\ DOMAIN s = 1 .. Len(s)
  BY AsSeq DEF IsSeq
<1>2. 1 \in Ink(s)
  BY <1>1 DEF Ink
<1>3. Min(Ink(s)) = 1 /\ Max(Ink(s)) \in 1 .. Len(s)
  <2>1. Min(Ink(s)) \in Ink(s) /\ Max(Ink(s)) \in Ink(s) /\ Min(Ink(s)) <= 1
    BY <1>2, TrimIs
  <2> QED
    BY <1>1, <2>1 DEF Ink
<1>4. /\ Len(TrimSpace(s)) = Max(Ink(s)) - Min(Ink(s)) + 1
      /\ \A i \in 1 .. Len(TrimSpace(s)) : TrimSpace(s)[i] = s[Min(Ink(s)) + i - 1]
  BY <1>2, TrimIs
<1> QED
  BY <1>1, <1>3, <1>4

\* A trimmed text has no bytes that the text has not.
LEMMA TrimElement ==
  ASSUME NEW s, IsSeq(s), NEW i \in 1 .. Len(TrimSpace(s))
  PROVE  \E j \in 1 .. Len(s) : TrimSpace(s)[i] = s[j]
<1>1. Len(s) \in Nat /\ DOMAIN s = 1 .. Len(s)
  BY AsSeq DEF IsSeq
<1>2. Ink(s) # {}
  <2>1. Ink(s) = {} => Len(TrimSpace(s)) = 0
    BY TrimIs, EmptySeq
  <2> QED
    BY <2>1
<1> DEFINE a == Min(Ink(s))
           b == Max(Ink(s))
<1>3. /\ a \in Ink(s) /\ b \in Ink(s)
      /\ Len(TrimSpace(s)) = b - a + 1
      /\ TrimSpace(s)[i] = s[a + i - 1]
  BY <1>2, TrimIs
<1> HIDE DEF a, b
<1>4. a \in 1 .. Len(s) /\ b \in 1 .. Len(s)
  BY <1>1, <1>3 DEF Ink
<1>5. a + i - 1 \in 1 .. Len(s)
  BY <1>1, <1>3, <1>4
<1> QED
  BY <1>3, <1>5
-----------------------------------------------------------------------------
(* What codings make of a body *)

\* f is what the first k codings make of the body, each of what the one before made.
EncodesUpTo(f, layers, body, k) ==
  f = [i \in 0 .. k |-> IF i = 0 THEN body ELSE EncodeLayer(layers[i], f[i - 1])]

\* There is such a function: the least k without would have one, from that for k - 1.
LEMMA EncodedExists ==
  ASSUME NEW layers, NEW body, NEW k \in Nat
  PROVE  \E f : EncodesUpTo(f, layers, body, k)
<1> USE DEF EncodesUpTo
<1> DEFINE Exists(j) == \E f : EncodesUpTo(f, layers, body, j)
<1> SUFFICES ASSUME ~Exists(k) PROVE FALSE
  OBVIOUS
<1> DEFINE Missing == {j \in Nat : ~Exists(j)}
<1>1. PICK j \in Missing : \A i \in Missing : j <= i
  <2> HIDE DEF Exists
  <2> QED
    BY LeastElement
<1>2. CASE j = 0
  <2> DEFINE g == [i \in 0 .. 0 |-> body]
  <2>1. g = [i \in 0 .. 0 |-> IF i = 0 THEN body ELSE EncodeLayer(layers[i], g[i - 1])]
    OBVIOUS
  <2> HIDE DEF g
  <2>2. Exists(0)
    BY <2>1
  <2> QED
    BY <1>1, <1>2, <2>2
<1>3. CASE j # 0
  <2>1. j \in Nat /\ j - 1 \in Nat
    BY <1>3
  <2>2. Exists(j - 1)
    <3> HIDE DEF Exists
    <3> QED
      BY <1>1, <2>1
  <2>3. PICK f : f = [i \in 0 .. j - 1 |-> IF i = 0 THEN body ELSE EncodeLayer(layers[i], f[i - 1])]
    BY <2>2
  <2> DEFINE g == [i \in 0 .. j |-> IF i = j THEN EncodeLayer(layers[j], f[j - 1]) ELSE f[i]]
  <2>4. ASSUME NEW i \in 0 .. j
        PROVE  g[i] = IF i = 0 THEN body ELSE EncodeLayer(layers[i], g[i - 1])
    <3>1. CASE i = j
      BY <1>3, <2>1, <3>1
    <3>2. CASE i # j
      <4>1. i \in 0 .. j - 1 /\ g[i] = f[i]
        BY <2>1, <3>2
      <4>2. i # 0 => i - 1 \in 0 .. j - 1 /\ g[i - 1] = f[i - 1]
        BY <2>1, <3>2
      <4>3. f[i] = IF i = 0 THEN body ELSE EncodeLayer(layers[i], f[i - 1])
        BY <2>3, <4>1
      <4> HIDE DEF g
      <4> QED
        BY <4>1, <4>2, <4>3
    <3> QED
      BY <3>1, <3>2
  <2>5. g = [i \in 0 .. j |-> IF i = 0 THEN body ELSE EncodeLayer(layers[i], g[i - 1])]
    <3>1. g = [i \in 0 .. j |-> g[i]]
      OBVIOUS
    <3> HIDE DEF g
    <3> QED
      BY <2>4, <3>1
  <2>6. Exists(j)
    <3> HIDE DEF g
    <3> QED
      BY <2>5
  <2> QED
    BY <1>1, <2>6
<1> QED
  BY <1>2, <1>3

\* Encoded satisfies its equation.
LEMMA EncodedIs ==
  ASSUME NEW layers, Len(layers) \in Nat, NEW body
  PROVE  /\ Encoded(layers, body)[0] = body
         /\ \A k \in 1 .. Len(layers) :
              Encoded(layers, body)[k] = EncodeLayer(layers[k], Encoded(layers, body)[k - 1])
<1> DEFINE e == Encoded(layers, body)
<1>1. \E f : EncodesUpTo(f, layers, body, Len(layers))
  BY EncodedExists
<1>2. EncodesUpTo(e, layers, body, Len(layers))
  BY <1>1 DEF Encoded, EncodesUpTo
<1> HIDE DEF e
<1>3. e[0] = body /\ \A k \in 1 .. Len(layers) : e[k] = EncodeLayer(layers[k], e[k - 1])
  BY <1>2 DEF EncodesUpTo
<1> QED
  BY <1>3 DEF e

\* What a coding makes of data: a header, the bytes one by one, and a trailer.
LEMMA EncodeLayerIs ==
  ASSUME NEW layer, NEW data, IsSeq(data)
  PROVE  LET coded == EncodeLayer(layer, data)
         IN /\ IsSeq(coded) /\ Len(coded) = Len(data) + 2
            /\ coded[1] = <<layer, Header>>
            /\ coded[Len(data) + 2] = <<layer, Trailer>>
            /\ \A i \in 1 .. Len(data) : coded[i + 1] = <<layer, data[i]>>
<1> DEFINE S == ToSet(data) \cup {Header, Trailer}
           whole == <<Header>> \o data \o <<Trailer>>
<1>1. data \in Seq(S) /\ <<Header>> \in Seq(S) /\ <<Trailer>> \in Seq(S) /\ Len(data) \in Nat
  BY AsSeq, SeqMonotonic DEF IsSeq
<1>2. /\ <<Header>> \o data \in Seq(S)
      /\ Len(<<Header>> \o data) = Len(data) + 1
      /\ (<<Header>> \o data)[1] = Header
      /\ \A i \in 1 .. Len(data) : (<<Header>> \o data)[i + 1] = data[i]
  BY <1>1, ConcatProperties
<1>3. /\ whole[1] = Header /\ whole[Len(data) + 2] = Trailer
      /\ \A i \in 1 .. Len(data) : whole[i + 1] = data[i]
  BY <1>1, <1>2, ConcatProperties
<1> DEFINE coded == [i \in 1 .. Len(data) + 2 |-> <<layer, whole[i]>>]
<1>4. EncodeLayer(layer, data) = coded
  BY DEF EncodeLayer
<1> HIDE DEF whole
<1>5. IsSeq(coded) /\ Len(coded) = Len(data) + 2
  <2>1. coded = [i \in 1 .. Len(data) + 2 |-> coded[i]] /\ Len(data) + 2 \in Nat
    BY <1>1
  <2> HIDE DEF coded
  <2> QED
    BY <2>1, MakesSeq
<1>6. /\ coded[1] = <<layer, Header>>
      /\ coded[Len(data) + 2] = <<layer, Trailer>>
      /\ \A i \in 1 .. Len(data) : coded[i + 1] = <<layer, data[i]>>
  BY <1>1, <1>3
<1> QED
  BY <1>4, <1>5, <1>6

\* What the codings make of a body is a sequence of bytes.
LEMMA EncodedIsSeq ==
  ASSUME NEW layers, Len(layers) \in Nat, NEW body, IsSeq(body), NEW k \in 0 .. Len(layers)
  PROVE  IsSeq(Encoded(layers, body)[k])
<1> DEFINE Broken == {j \in 0 .. Len(layers) : ~IsSeq(Encoded(layers, body)[j])}
<1> SUFFICES ASSUME Broken # {} PROVE FALSE
  OBVIOUS
<1>1. PICK j \in Broken : \A i \in Broken : j <= i
  <2>1. Broken \in SUBSET Nat
    OBVIOUS
  <2> HIDE DEF Broken
  <2> QED
    BY <2>1, LeastElement
<1>2. j # 0
  BY EncodedIs
<1>3. IsSeq(Encoded(layers, body)[j - 1])
  BY <1>1, <1>2
<1>4. Encoded(layers, body)[j] = EncodeLayer(layers[j], Encoded(layers, body)[j - 1])
  BY <1>2, EncodedIs
<1> QED
  BY <1>3, <1>4, EncodeLayerIs

-----------------------------------------------------------------------------
(* What is decoded of it: one layer *)

\* The decoder meets the trailer,
Ended(layer, coded) == Last(coded) = <<layer, Trailer>>

\* and gives this before it does, or runs out of input.
Plain(layer, coded) ==
  LET inner == SubSeq(coded, 2, Len(coded) - (IF Ended(layer, coded) THEN 1 ELSE 0))
  IN [i \in DOMAIN inner |-> inner[i][2]]

\* Of a beginning of what a coding made, the decoder gives a beginning of what was coded;
\* all of it if it has all, and only then does it meet the trailer (readTolerant,
\* decompress.go).
LEMMA PlainIs ==
  ASSUME NEW layer, NEW w, IsSeq(w),
         NEW coded, IsSeq(coded), Len(coded) > 0, Begins(coded, EncodeLayer(layer, w))
  PROVE  LET plain == Plain(layer, coded)
         IN /\ IsSeq(plain) /\ Begins(plain, w)
            /\ Len(plain) = Len(coded) - (IF Ended(layer, coded) THEN 2 ELSE 1)
            /\ coded = EncodeLayer(layer, w) => Ended(layer, coded) /\ plain = w
            /\ Ended(layer, coded) /\ Trailer \notin ToSet(w) => coded = EncodeLayer(layer, w)
<1> DEFINE enc == EncodeLayer(layer, w)
           plain == Plain(layer, coded)
           ended == Ended(layer, coded)
           b == Len(coded) - (IF ended THEN 1 ELSE 0)
           inner == SubSeq(coded, 2, b)
<1>1. Len(w) \in Nat /\ Len(coded) \in Nat
  BY DEF IsSeq
<1>2. /\ IsSeq(enc) /\ Len(enc) = Len(w) + 2
      /\ enc[1] = <<layer, Header>>
      /\ enc[Len(w) + 2] = <<layer, Trailer>>
      /\ \A i \in 1 .. Len(w) : enc[i + 1] = <<layer, w[i]>>
  BY EncodeLayerIs
<1> HIDE DEF enc
<1>3. Len(coded) <= Len(w) + 2 /\ \A i \in 1 .. Len(coded) : coded[i] = enc[i]
  BY <1>2 DEF Begins, enc
<1>4. coded[1] = <<layer, Header>>
  BY <1>1, <1>2, <1>3
<1>5. ended <=> coded[Len(coded)] = <<layer, Trailer>>
  BY DEF Ended, Last
<1>6. ended \in BOOLEAN
  BY DEF Ended
<1>7. ended => Len(coded) >= 2
  <2>1. <<layer, Header>> # <<layer, Trailer>>
    BY DEF Header, Trailer
  <2> QED
    BY <1>1, <1>4, <1>5, <2>1
<1> HIDE DEF ended
<1>8. b \in Nat /\ b >= 1 /\ b <= Len(coded) /\ b - 1 = Len(coded) - (IF ended THEN 2 ELSE 1)
  BY <1>1, <1>6, <1>7
<1>9. plain = [i \in DOMAIN inner |-> inner[i][2]]
  BY DEF Plain, ended
<1> HIDE DEF b
<1>10. /\ IsSeq(inner) /\ Len(inner) = b - 1
       /\ \A i \in 1 .. b - 1 : inner[i] = coded[i + 1]
  <2>1. 2 \in 1 .. Len(coded) + 1 /\ b \in 2 - 1 .. Len(coded)
    BY <1>1, <1>8
  <2>2. /\ IsSeq(inner) /\ Len(inner) = b - 2 + 1
        /\ \A i \in 1 .. b - 2 + 1 : inner[i] = coded[2 + i - 1]
    BY <2>1, Part
  <2> HIDE DEF inner
  <2> QED
    BY <1>8, <2>2
<1> HIDE DEF inner
<1>11. DOMAIN inner = 1 .. b - 1
  BY <1>10, AsSeq
<1>12. IsSeq(plain) /\ Len(plain) = b - 1
  <2>1. plain = [i \in 1 .. b - 1 |-> plain[i]] /\ b - 1 \in Nat
    BY <1>8, <1>9, <1>11
  <2> HIDE DEF plain
  <2> QED
    BY <2>1, MakesSeq
<1>13. b - 1 <= Len(w)
  <2>1. CASE ended
    BY <1>1, <1>3, <1>8, <2>1
  <2>2. CASE ~ended
    <3>1. Len(coded) # Len(w) + 2
      BY <1>1, <1>2, <1>3, <1>5, <2>2
    <3> QED
      BY <1>1, <1>3, <1>8, <2>2, <3>1
  <2> QED
    BY <2>1, <2>2
<1>14. ASSUME NEW i \in 1 .. b - 1 PROVE plain[i] = w[i]
  <2>1. i \in Nat /\ i + 1 \in 1 .. Len(coded) /\ i \in 1 .. Len(w)
    BY <1>1, <1>8, <1>13
  <2>2. inner[i] = <<layer, w[i]>>
    BY <1>2, <1>3, <1>10, <2>1
  <2> QED
    BY <1>9, <1>11, <2>2
<1>15. coded = enc => ended /\ plain = w
  <2> SUFFICES ASSUME coded = enc PROVE ended /\ plain = w
    OBVIOUS
  <2>1. ended
    BY <1>2, <1>5
  <2>2. Len(plain) = Len(w)
    BY <1>1, <1>2, <1>8, <1>12, <2>1
  <2> HIDE DEF plain
  <2> QED
    BY <1>12, <1>14, <2>1, <2>2, SameSeq
<1>16. ended /\ Trailer \notin ToSet(w) => coded = enc
  <2> SUFFICES ASSUME ended, Trailer \notin ToSet(w) PROVE coded = enc
    OBVIOUS
  <2>1. Len(coded) = Len(w) + 2
    <3> SUFFICES ASSUME Len(coded) < Len(w) + 2 PROVE FALSE
      BY <1>1, <1>3
    <3> DEFINE i == Len(coded) - 1
    <3>1. i \in 1 .. Len(w)
      BY <1>1, <1>7
    <3>2. coded[i + 1] = <<layer, w[i]>> /\ i + 1 = Len(coded)
      <4>1. i + 1 = Len(coded) /\ i + 1 \in 1 .. Len(coded)
        BY <1>1, <3>1
      <4> HIDE DEF i
      <4> QED
        BY <1>2, <1>3, <3>1, <4>1
    <3>3. w[i] = Trailer
      BY <1>5, <3>2
    <3>4. DOMAIN w = 1 .. Len(w)
      BY AsSeq
    <3> QED
      BY <3>1, <3>3, <3>4 DEF ToSet
  <2> QED
    BY <1>2, <1>3, <2>1, SameSeq
<1> HIDE DEF plain
<1>17. Begins(plain, w)
  BY <1>12, <1>13, <1>14 DEF Begins
<1> QED
  BY <1>8, <1>12, <1>15, <1>16, <1>17 DEF plain, ended, enc

\* A layer is decoded if httpmon knows the coding and the decoder gives anything at all,
\* and it is whole if the trailer came before the cap on the output (decompress.go:71-122).
LEMMA DecodeLayerIs ==
  ASSUME NEW layer, NEW w, IsSeq(w),
         NEW coded, IsSeq(coded), Begins(coded, EncodeLayer(layer, w))
  PROVE  LET r     == decodeLayer(layer, coded)
             plain == Plain(layer, coded)
             ended == Ended(layer, coded)
         IN /\ r.ok \in BOOLEAN /\ r.truncated \in BOOLEAN
            /\ r.ok <=> layer \in Codings /\ Len(coded) > 0 /\ (ended \/ Len(plain) > 0)
            /\ ~r.ok => ~r.truncated
            /\ r.ok => /\ r.data = Upto(plain, maxDecompressed)
                       /\ ~r.truncated <=> ended /\ Len(plain) < maxDecompressed
<1> DEFINE plain == Plain(layer, coded)
           ended == Ended(layer, coded)
           r == decodeLayer(layer, coded)
<1>1. CASE layer \notin Codings \/ Len(coded) = 0
  <2>1. Len(coded) = 0 => coded = <<>>
    BY EmptySeq, SeqIsSeq, SameSeq
  <2>2. r = Failed
    BY <1>1, <2>1 DEF decodeLayer
  <2> QED
    BY <1>1, <2>2 DEF Failed
<1>2. CASE layer \in Codings /\ Len(coded) # 0
  <2>1. Len(coded) \in Nat /\ Len(coded) > 0
    BY <1>2 DEF IsSeq
  <2>2. IsSeq(plain) /\ Len(plain) \in Nat
    BY <2>1, PlainIs DEF IsSeq
  <2>3. coded[1] = <<layer, Header>>
    BY <2>1, EncodeLayerIs DEF Begins
  <2>4. coded # <<>>
    BY <2>1, EmptySeq
  <2>5. r = readTolerant(plain, ended)
    BY <1>2, <2>3, <2>4 DEF decodeLayer, Plain, Ended
  <2>6. plain # <<>> <=> Len(plain) > 0
    BY <2>2, EmptySeq, SeqIsSeq, SameSeq
  <2>7. maxDecompressed \in Nat /\ maxDecompressed > 0
    BY LimitsAssumption
  <2>8. Len(plain) <= maxDecompressed => Upto(plain, maxDecompressed) = plain
    BY <2>2, <2>7, UptoIs
  <2>9. ended \in BOOLEAN
    BY DEF Ended
  <2> HIDE DEF plain, ended, r
  <2>10. CASE Len(plain) >= maxDecompressed
    <3>1. r = [ok |-> TRUE, data |-> Upto(plain, maxDecompressed), truncated |-> TRUE]
      BY <2>5, <2>10 DEF readTolerant
    <3>2. r.ok /\ r.truncated /\ r.data = Upto(plain, maxDecompressed)
      BY <3>1
    <3>3. Len(plain) > 0 /\ ~(Len(plain) < maxDecompressed)
      BY <2>2, <2>7, <2>10
    <3> QED
      BY <1>2, <2>1, <3>2, <3>3 DEF plain, ended, r
  <2>11. CASE Len(plain) < maxDecompressed
    <3>1. r = [ok |-> ended \/ plain # <<>>, data |-> plain, truncated |-> ~ended /\ plain # <<>>]
      BY <2>2, <2>5, <2>7, <2>11 DEF readTolerant
    <3>2. /\ r.ok \in BOOLEAN /\ r.truncated \in BOOLEAN
          /\ r.ok <=> ended \/ plain # <<>>
          /\ r.truncated <=> ~ended /\ plain # <<>>
          /\ r.data = plain
      BY <2>9, <3>1
    <3>3. r.ok <=> layer \in Codings /\ Len(coded) > 0 /\ (ended \/ Len(plain) > 0)
      BY <1>2, <2>1, <2>6, <3>2
    <3>4. ~r.ok => ~r.truncated
      BY <3>2
    <3>5. r.ok => /\ r.data = Upto(plain, maxDecompressed)
                  /\ ~r.truncated <=> ended /\ Len(plain) < maxDecompressed
      BY <2>2, <2>7, <2>8, <2>11, <3>2
    <3> QED
      BY <3>2, <3>3, <3>4, <3>5 DEF plain, ended, r
  <2> QED
    BY <2>2, <2>7, <2>10, <2>11
<1> QED
  BY <1>1, <1>2

-----------------------------------------------------------------------------
(* All of the layers *)

\* One more layer is decoded, if those before it were whole.
DecodeNext(layers, k, r) ==
  IF r.ok /\ ~r.truncated THEN decodeLayer(layers[Len(layers) + 1 - k], r.data) ELSE r

\* Before any layer is decoded.
Undecoded(coded) == [ok |-> TRUE, data |-> coded, truncated |-> FALSE]

\* f is what the last k codings decode to.
DecodesUpTo(f, layers, coded, k) ==
  f = [i \in 0 .. k |-> IF i = 0 THEN Undecoded(coded) ELSE DecodeNext(layers, i, f[i - 1])]

\* There is such a function.
LEMMA DecodedExists ==
  ASSUME NEW layers, NEW coded, NEW k \in Nat
  PROVE  \E f : DecodesUpTo(f, layers, coded, k)
<1> USE DEF DecodesUpTo
<1> DEFINE Exists(j) == \E f : DecodesUpTo(f, layers, coded, j)
<1> SUFFICES ASSUME ~Exists(k) PROVE FALSE
  OBVIOUS
<1> DEFINE Missing == {j \in Nat : ~Exists(j)}
<1>1. PICK j \in Missing : \A i \in Missing : j <= i
  <2> HIDE DEF Exists
  <2> QED
    BY LeastElement
<1>2. CASE j = 0
  <2> DEFINE g == [i \in 0 .. 0 |-> Undecoded(coded)]
  <2>1. g = [i \in 0 .. 0 |-> IF i = 0 THEN Undecoded(coded) ELSE DecodeNext(layers, i, g[i - 1])]
    OBVIOUS
  <2> HIDE DEF g
  <2>2. Exists(0)
    BY <2>1
  <2> QED
    BY <1>1, <1>2, <2>2
<1>3. CASE j # 0
  <2>1. j \in Nat /\ j - 1 \in Nat
    BY <1>3
  <2>2. Exists(j - 1)
    <3> HIDE DEF Exists
    <3> QED
      BY <1>1, <2>1
  <2>3. PICK f : DecodesUpTo(f, layers, coded, j - 1)
    BY <2>2
  <2> DEFINE g == [i \in 0 .. j |-> IF i = j THEN DecodeNext(layers, j, f[j - 1]) ELSE f[i]]
  <2>4. ASSUME NEW i \in 0 .. j
        PROVE  g[i] = IF i = 0 THEN Undecoded(coded) ELSE DecodeNext(layers, i, g[i - 1])
    <3>1. CASE i = j
      BY <1>3, <2>1, <3>1
    <3>2. CASE i # j
      <4>1. i \in 0 .. j - 1 /\ g[i] = f[i]
        BY <2>1, <3>2
      <4>2. i # 0 => i - 1 \in 0 .. j - 1 /\ g[i - 1] = f[i - 1]
        BY <2>1, <3>2
      <4>3. f[i] = IF i = 0 THEN Undecoded(coded) ELSE DecodeNext(layers, i, f[i - 1])
        BY <2>3, <4>1
      <4> HIDE DEF g
      <4> QED
        BY <4>1, <4>2, <4>3
    <3> QED
      BY <3>1, <3>2
  <2>5. g = [i \in 0 .. j |-> IF i = 0 THEN Undecoded(coded) ELSE DecodeNext(layers, i, g[i - 1])]
    <3>1. g = [i \in 0 .. j |-> g[i]]
      OBVIOUS
    <3> HIDE DEF g
    <3> QED
      BY <2>4, <3>1
  <2>6. Exists(j)
    <3> HIDE DEF g
    <3> QED
      BY <2>5
  <2> QED
    BY <1>1, <2>6
<1> QED
  BY <1>2, <1>3

\* Decoded satisfies its equation.
LEMMA DecodedIs ==
  ASSUME NEW layers, Len(layers) \in Nat, NEW coded
  PROVE  /\ Decoded(layers, coded)[0] = Undecoded(coded)
         /\ \A k \in 1 .. Len(layers) :
              Decoded(layers, coded)[k] = DecodeNext(layers, k, Decoded(layers, coded)[k - 1])
<1> DEFINE e == Decoded(layers, coded)
<1>1. \E f : DecodesUpTo(f, layers, coded, Len(layers))
  BY DecodedExists
<1>2. DecodesUpTo(e, layers, coded, Len(layers))
  BY <1>1 DEF Decoded, DecodesUpTo, Undecoded, DecodeNext
<1> HIDE DEF e
<1>3. e[0] = Undecoded(coded) /\ \A k \in 1 .. Len(layers) : e[k] = DecodeNext(layers, k, e[k - 1])
  BY <1>2 DEF DecodesUpTo
<1> QED
  BY <1>3 DEF e

\* After k layers the data is a beginning of what some of the codings made: of all but k,
\* unless a layer was not whole, of which the decoding stops.  Of all of the coded body it
\* is all, unless it was capped.
Stage(layers, body, coded, k) ==
  LET r    == Decoded(layers, coded)[k]
      wire == Encoded(layers, body)[Len(layers)]
  IN /\ r.ok \in BOOLEAN /\ r.truncated \in BOOLEAN
     /\ r.ok => \E i \in Len(layers) - k .. Len(layers) :
          /\ IsSeq(r.data) /\ Begins(r.data, Encoded(layers, body)[i])
          /\ ~r.truncated => i = Len(layers) - k
          /\ coded = wire => \/ r.data = Encoded(layers, body)[i]
                             \/ r.truncated /\ Len(r.data) = maxDecompressed

\* Another layer decoded leads from a stage to the next.
LEMMA DecodeStep ==
  ASSUME NEW layers, Len(layers) \in Nat, NEW body, IsSeq(body), NEW coded,
         NEW k \in 1 .. Len(layers), Stage(layers, body, coded, k - 1)
  PROVE  Stage(layers, body, coded, k)
<1> DEFINE last == Len(layers)
           enc  == Encoded(layers, body)
           dec  == Decoded(layers, coded)
           r    == dec[k - 1]
           wire == enc[last]
           j    == last - k
           layer == layers[last + 1 - k]
<1>1. dec[k] = IF r.ok /\ ~r.truncated THEN decodeLayer(layer, r.data) ELSE r
  BY DecodedIs DEF DecodeNext
<1>2. r.ok \in BOOLEAN /\ r.truncated \in BOOLEAN
  BY DEF Stage
<1>3. r.ok => \E i \in last - (k - 1) .. last :
          /\ IsSeq(r.data) /\ Begins(r.data, enc[i])
          /\ ~r.truncated => i = last - (k - 1)
          /\ coded = wire => \/ r.data = enc[i]
                             \/ r.truncated /\ Len(r.data) = maxDecompressed
  BY DEF Stage
<1>4. CASE r.ok /\ ~r.truncated
  <2> DEFINE w == enc[j]
             q == decodeLayer(layer, r.data)
             plain == Plain(layer, r.data)
             ended == Ended(layer, r.data)
  <2>1. j \in 0 .. last /\ j + 1 \in 1 .. last /\ last - (k - 1) = j + 1 /\ last + 1 - k = j + 1
    OBVIOUS
  <2>2. enc[j + 1] = EncodeLayer(layer, w)
    <3>1. enc[j + 1] = EncodeLayer(layers[j + 1], enc[j + 1 - 1]) /\ j + 1 - 1 = j
      BY <2>1, EncodedIs
    <3> QED
      BY <2>1, <3>1
  <2>3. IsSeq(w)
    BY <2>1, EncodedIsSeq
  <2> HIDE DEF enc, dec, j, layer, wire
  <2>4. /\ IsSeq(r.data) /\ Begins(r.data, EncodeLayer(layer, w))
        /\ coded = wire => r.data = EncodeLayer(layer, w)
    BY <1>3, <1>4, <2>1, <2>2
  <2>5. /\ q.ok \in BOOLEAN /\ q.truncated \in BOOLEAN
        /\ q.ok <=> layer \in Codings /\ Len(r.data) > 0 /\ (ended \/ Len(plain) > 0)
        /\ q.ok => /\ q.data = Upto(plain, maxDecompressed)
                   /\ ~q.truncated <=> ended /\ Len(plain) < maxDecompressed
    BY <2>3, <2>4, DecodeLayerIs
  <2>6. dec[k] = q
    BY <1>1, <1>4
  <2>7. maxDecompressed \in Nat /\ maxDecompressed > 0
    BY LimitsAssumption
  <2>8. ASSUME q.ok
        PROVE  /\ IsSeq(q.data) /\ Begins(q.data, w)
               /\ coded = wire => q.data = w \/ (q.truncated /\ Len(q.data) = maxDecompressed)
    <3>1. /\ IsSeq(plain) /\ Begins(plain, w) /\ Len(plain) \in Nat
          /\ r.data = EncodeLayer(layer, w) => ended /\ plain = w
      <4>1. Len(r.data) > 0
        BY <2>5, <2>8
      <4>2. ASSUME NEW d, IsSeq(d), Len(d) > 0, Begins(d, EncodeLayer(layer, w))
            PROVE  /\ IsSeq(Plain(layer, d)) /\ Begins(Plain(layer, d), w)
                   /\ d = EncodeLayer(layer, w) => Ended(layer, d) /\ Plain(layer, d) = w
        BY <2>3, <4>2, PlainIs
      <4>3. /\ IsSeq(plain) /\ Begins(plain, w)
            /\ r.data = EncodeLayer(layer, w) => ended /\ plain = w
        BY <2>4, <4>1, <4>2
      <4>4. Len(plain) \in Nat
        BY <4>3 DEF IsSeq
      <4> QED
        BY <4>3, <4>4
    <3> HIDE DEF plain, ended, w, q
    <3>2. /\ IsSeq(q.data) /\ Begins(q.data, plain)
          /\ Len(q.data) = IF maxDecompressed <= Len(plain) THEN maxDecompressed ELSE Len(plain)
          /\ Len(plain) <= maxDecompressed => q.data = plain
      BY <2>5, <2>7, <2>8, <3>1, UptoIs
    <3>3. Begins(q.data, w)
      BY <2>3, <3>1, <3>2 DEF Begins, IsSeq
    <3>4. coded = wire => q.data = w \/ (q.truncated /\ Len(q.data) = maxDecompressed)
      <4> SUFFICES ASSUME coded = wire PROVE q.data = w \/ (q.truncated /\ Len(q.data) = maxDecompressed)
        OBVIOUS
      <4>1. ended /\ plain = w
        BY <2>4, <3>1
      <4>2. CASE Len(plain) < maxDecompressed
        BY <2>7, <3>1, <3>2, <4>1, <4>2
      <4>3. CASE ~(Len(plain) < maxDecompressed)
        BY <2>5, <2>7, <2>8, <3>1, <3>2, <4>3
      <4> QED
        BY <4>2, <4>3
    <3> QED
      BY <3>2, <3>3, <3>4
  <2>9. j \in last - k .. last /\ j = last - k
    BY <2>1 DEF j
  <2>10. /\ dec[k].ok \in BOOLEAN /\ dec[k].truncated \in BOOLEAN
         /\ dec[k].ok => /\ IsSeq(dec[k].data) /\ Begins(dec[k].data, enc[j])
                         /\ coded = wire => \/ dec[k].data = enc[j]
                                            \/ dec[k].truncated /\ Len(dec[k].data) = maxDecompressed
    BY <2>5, <2>6, <2>8
  <2> QED
    BY <2>9, <2>10 DEF Stage, dec, enc, wire
<1>5. CASE ~(r.ok /\ ~r.truncated)
  <2>1. dec[k] = r
    BY <1>1, <1>5
  <2>2. r.ok => \E i \in last - k .. last :
          /\ IsSeq(r.data) /\ Begins(r.data, enc[i])
          /\ ~r.truncated => i = last - k
          /\ coded = wire => \/ r.data = enc[i]
                             \/ r.truncated /\ Len(r.data) = maxDecompressed
    <3> HIDE DEF enc, dec, wire
    <3> SUFFICES ASSUME r.ok, r.truncated
                 PROVE  \E i \in last - k .. last :
                           /\ IsSeq(r.data) /\ Begins(r.data, enc[i])
                           /\ coded = wire => \/ r.data = enc[i]
                                              \/ r.truncated /\ Len(r.data) = maxDecompressed
      BY <1>2, <1>5
    <3>1. PICK i \in last - (k - 1) .. last :
                /\ IsSeq(r.data) /\ Begins(r.data, enc[i])
                /\ coded = wire => \/ r.data = enc[i]
                                   \/ r.truncated /\ Len(r.data) = maxDecompressed
      BY <1>3
    <3>2. i \in last - k .. last
      OBVIOUS
    <3> QED
      BY <3>1, <3>2
  <2> QED
    BY <1>2, <2>1, <2>2 DEF Stage
<1> QED
  BY <1>2, <1>4, <1>5

\* And so all of them are reached.
LEMMA DecodeStages ==
  ASSUME NEW layers, Len(layers) \in Nat, NEW body, IsSeq(body),
         NEW coded, IsSeq(coded), Begins(coded, Encoded(layers, body)[Len(layers)]),
         NEW k \in 0 .. Len(layers)
  PROVE  Stage(layers, body, coded, k)
<1> DEFINE Broken == {j \in 0 .. Len(layers) : ~Stage(layers, body, coded, j)}
<1> SUFFICES ASSUME Broken # {} PROVE FALSE
  OBVIOUS
<1>1. PICK j \in Broken : \A i \in Broken : j <= i
  <2>1. Broken \in SUBSET Nat
    OBVIOUS
  <2> HIDE DEF Broken
  <2> QED
    BY <2>1, LeastElement
<1>2. CASE j = 0
  <2>1. Decoded(layers, coded)[0] = [ok |-> TRUE, data |-> coded, truncated |-> FALSE]
    BY DecodedIs DEF Undecoded
  <2>2. Len(layers) \in Len(layers) - 0 .. Len(layers) /\ Len(layers) = Len(layers) - 0
    OBVIOUS
  <2> DEFINE r == Decoded(layers, coded)[0]
  <2>3. r.ok = TRUE /\ r.truncated = FALSE /\ r.data = coded
    BY <2>1
  <2> HIDE DEF r
  <2>4. /\ IsSeq(r.data) /\ Begins(r.data, Encoded(layers, body)[Len(layers)])
        /\ coded = Encoded(layers, body)[Len(layers)] => r.data = Encoded(layers, body)[Len(layers)]
    BY <2>3
  <2>5. \E i \in Len(layers) - 0 .. Len(layers) :
          /\ IsSeq(r.data) /\ Begins(r.data, Encoded(layers, body)[i])
          /\ ~r.truncated => i = Len(layers) - 0
          /\ coded = Encoded(layers, body)[Len(layers)] =>
               \/ r.data = Encoded(layers, body)[i]
               \/ r.truncated /\ Len(r.data) = maxDecompressed
    BY <2>2, <2>4
  <2>6. r.ok \in BOOLEAN /\ r.truncated \in BOOLEAN
    BY <2>3
  <2>7. Stage(layers, body, coded, 0)
    BY <2>5, <2>6 DEF Stage, r
  <2> QED
    BY <1>2, <2>7
<1>3. CASE j # 0
  <2>1. j \in 1 .. Len(layers) /\ j - 1 \in 0 .. Len(layers) /\ ~(j <= j - 1)
    BY <1>3
  <2>2. Stage(layers, body, coded, j - 1)
    BY <1>1, <2>1
  <2>3. Stage(layers, body, coded, j)
    BY <2>1, <2>2, DecodeStep
  <2> QED
    BY <2>3
<1> QED
  BY <1>2, <1>3

\* The first byte is one that a coding made.
IsCoded(s) == Len(s) > 0 /\ Len(s[1]) = 2

\* What is left of a coded body, cut anywhere, is never text.
LEMMA EncodedIsCoded ==
  ASSUME NEW layers, Len(layers) \in Nat, NEW body, IsSeq(body), NEW k \in 1 .. Len(layers)
  PROVE  /\ IsSeq(Encoded(layers, body)[k]) /\ Len(Encoded(layers, body)[k]) > 0
         /\ \A s : IsSeq(s) /\ Len(s) > 0 /\ Begins(s, Encoded(layers, body)[k]) => IsCoded(s)
<1> DEFINE w == Encoded(layers, body)[k - 1]
           c == Encoded(layers, body)[k]
<1>1. k - 1 \in 0 .. Len(layers)
  OBVIOUS
<1>2. IsSeq(w) /\ Len(w) \in Nat
  <2>1. IsSeq(w)
    BY <1>1, EncodedIsSeq
  <2> QED
    BY <2>1 DEF IsSeq
<1>3. c = EncodeLayer(layers[k], w)
  BY EncodedIs
<1> HIDE DEF c, w
<1>4. IsSeq(c) /\ Len(c) = Len(w) + 2 /\ c[1] = <<layers[k], Header>>
  BY <1>2, <1>3, EncodeLayerIs
<1>5. Len(<<layers[k], Header>>) = 2
  OBVIOUS
<1>6. ASSUME NEW s, IsSeq(s), Len(s) > 0, Begins(s, c) PROVE IsCoded(s)
  <2>1. Len(s) \in Nat
    BY <1>6 DEF IsSeq
  <2>2. s[1] = <<layers[k], Header>>
    BY <1>4, <1>6, <2>1 DEF Begins
  <2> QED
    BY <1>5, <1>6, <2>2 DEF IsCoded
<1> QED
  BY <1>2, <1>4, <1>6 DEF c

\* decompressBody gives a beginning of the body, or coded bytes; and all of the body when
\* it is whole and within the cap (decompress.go:33-67).
LEMMA DecompressIs ==
  ASSUME NEW layers, Len(layers) \in Nat, NEW body, IsSeq(body),
         NEW coded, IsSeq(coded), Begins(coded, Encoded(layers, body)[Len(layers)])
  PROVE  LET r == decompressBody(layers, coded)
         IN /\ r.ok \in BOOLEAN /\ r.truncated \in BOOLEAN
            /\ r.ok => /\ IsSeq(r.data)
                       /\ Begins(r.data, body) \/ IsCoded(r.data)
                       /\ (coded = Encoded(layers, body)[Len(layers)] /\ Len(body) <= maxDecompressed)
                            => r.data = body \/ IsCoded(r.data)
<1> DEFINE r == decompressBody(layers, coded)
           enc == Encoded(layers, body)
           wire == enc[Len(layers)]
<1>1. Stage(layers, body, coded, Len(layers)) /\ r = Decoded(layers, coded)[Len(layers)]
  BY DecodeStages DEF decompressBody
<1>2. /\ r.ok \in BOOLEAN /\ r.truncated \in BOOLEAN
      /\ r.ok => \E i \in Len(layers) - Len(layers) .. Len(layers) :
           /\ IsSeq(r.data) /\ Begins(r.data, enc[i])
           /\ coded = wire => \/ r.data = enc[i]
                              \/ r.truncated /\ Len(r.data) = maxDecompressed
  BY <1>1 DEF Stage
<1>3. maxDecompressed \in Nat /\ maxDecompressed > 0
  BY LimitsAssumption
<1>4. ASSUME r.ok
      PROVE  /\ IsSeq(r.data)
             /\ Begins(r.data, body) \/ IsCoded(r.data)
             /\ (coded = wire /\ Len(body) <= maxDecompressed) => r.data = body \/ IsCoded(r.data)
  <2> HIDE DEF r, enc, wire
  <2>1. PICK i \in 0 .. Len(layers) :
          /\ IsSeq(r.data) /\ Begins(r.data, enc[i])
          /\ coded = wire => \/ r.data = enc[i]
                             \/ r.truncated /\ Len(r.data) = maxDecompressed
    BY <1>2, <1>4
  <2>2. Len(r.data) \in Nat /\ Len(body) \in Nat
    BY <2>1 DEF IsSeq
  <2>3. CASE i = 0
    <3>1. enc[0] = body
      BY EncodedIs DEF enc
    <3>2. Begins(r.data, body)
      BY <2>1, <2>3, <3>1
    <3>3. ASSUME coded = wire, Len(body) <= maxDecompressed PROVE r.data = body
      <4>1. CASE r.data = enc[i]
        BY <2>3, <3>1, <4>1
      <4>2. CASE Len(r.data) = maxDecompressed
        <5>1. Len(r.data) = Len(body) /\ \A k \in 1 .. Len(r.data) : r.data[k] = body[k]
          BY <1>3, <2>2, <3>2, <3>3, <4>2 DEF Begins
        <5> QED
          BY <2>1, <5>1, SameSeq
      <4> QED
        BY <2>1, <3>3, <4>1, <4>2
    <3> QED
      BY <2>1, <3>2, <3>3
  <2>4. CASE i # 0
    <3>1. i \in 1 .. Len(layers)
      BY <2>4
    <3>2. /\ IsSeq(enc[i]) /\ Len(enc[i]) > 0
          /\ \A s : IsSeq(s) /\ Len(s) > 0 /\ Begins(s, enc[i]) => IsCoded(s)
      BY <3>1, EncodedIsCoded DEF enc
    <3>3. CASE Len(r.data) > 0
      BY <2>1, <3>2, <3>3
    <3>4. CASE Len(r.data) = 0
      <4>1. Begins(r.data, body)
        BY <2>2, <3>4 DEF Begins
      <4>2. coded # wire
        BY <1>3, <2>1, <3>2, <3>4
      <4> QED
        BY <2>1, <4>1, <4>2
    <3> QED
      BY <2>2, <3>3, <3>4
  <2> QED
    BY <2>3, <2>4
<1> QED
  BY <1>2, <1>4

-----------------------------------------------------------------------------
(* Messages, samples and views *)

\* What the assumption on messages says of one.
LEMMA MessageIs ==
  ASSUME NEW m, IsMessage(m)
  PROVE  /\ Len(m.layers) \in Nat /\ IsSeq(m.body)
         /\ IsSeq(Wire(m)) /\ Len(Wire(m)) \in Nat
         /\ m.arrived \in Nat /\ m.arrived <= Len(Wire(m))
         /\ m.layers = <<>> => Len(m.layers) = 0
         /\ Len(m.layers) = 0 => Wire(m) = m.body /\ m.layers = <<>>
         /\ Len(m.layers) > 0 => Len(Wire(m)) > 0
<1>1. Len(m.layers) \in Nat /\ IsSeq(m.body) /\ IsSeq(m.layers)
  BY LenProperties, SeqIsSeq DEF IsMessage
<1>2. IsSeq(Wire(m)) /\ Len(Wire(m)) \in Nat
  <2>1. Len(m.layers) \in 0 .. Len(m.layers)
    BY <1>1
  <2>2. IsSeq(Wire(m))
    BY <1>1, <2>1, EncodedIsSeq DEF Wire
  <2> QED
    BY <2>2 DEF IsSeq
<1>3. m.arrived \in Nat /\ m.arrived <= Len(Wire(m))
  BY <1>2 DEF IsMessage
<1>4. m.layers = <<>> <=> Len(m.layers) = 0
  BY <1>1, EmptySeq, SeqIsSeq, SameSeq
<1>5. Len(m.layers) = 0 => Wire(m) = m.body
  BY <1>1, EncodedIs DEF Wire
<1>6. Len(m.layers) > 0 => Len(Wire(m)) > 0
  <2>1. Len(m.layers) > 0 => Len(m.layers) \in 1 .. Len(m.layers)
    BY <1>1
  <2> QED
    BY <1>1, <2>1, EncodedIsCoded DEF Wire
<1> QED
  BY <1>1, <1>2, <1>3, <1>4, <1>5, <1>6

\* What the assumption on the limits says.
LEMMA LimitIs ==
  ASSUME NEW m, NEW recording
  PROVE  /\ captureLimitFor(m, recording) \in Nat /\ captureLimitFor(m, recording) > 0
         /\ captureMaxBody \in Nat /\ captureMaxBody > 0
         /\ maxDecompressed \in Nat /\ maxDecompressed > 0
         /\ displayMaxBody \in Nat /\ displayMaxBody > 0
BY LimitsAssumption DEF captureLimitFor

\* The sampler keeps a beginning of the body, and knows when it is less than all of it.
LEMMA SampledIs ==
  ASSUME NEW m, IsMessage(m), NEW limit \in Nat
  PROVE  LET sample == Sampled(m, limit)
         IN /\ IsSeq(sample.raw) /\ Begins(sample.raw, Wire(m))
            /\ Len(sample.raw) = IF limit <= m.arrived THEN limit ELSE m.arrived
            /\ sample.raw = Upto(Wire(m), Min({limit, m.arrived}))
            /\ sample.incomplete \in BOOLEAN
            /\ m.arrived > limit \/ m.arrived < Len(Wire(m)) => sample.incomplete
            /\ ~sample.incomplete => sample.raw = Wire(m) /\ m.arrived = Len(Wire(m))
            /\ m.arrived = Len(Wire(m)) /\ m.arrived <= limit => sample.raw = Wire(m)
<1> DEFINE raw == Upto(Wire(m), Min({limit, m.arrived}))
           incomplete == m.arrived > limit \/ ~m.ended
<1>0. m.ended \in BOOLEAN /\ (m.ended => m.arrived = Len(Wire(m)))
  BY DEF IsMessage
<1>1. /\ IsSeq(Wire(m)) /\ Len(Wire(m)) \in Nat
      /\ m.arrived \in Nat /\ m.arrived <= Len(Wire(m))
  BY MessageIs
<1>2. Min({limit, m.arrived}) = IF limit <= m.arrived THEN limit ELSE m.arrived
  BY <1>1, MinOfTwo
<1>3. Min({limit, m.arrived}) \in Nat /\ Min({limit, m.arrived}) <= Len(Wire(m))
  BY <1>1, <1>2
<1>4. /\ IsSeq(raw) /\ Begins(raw, Wire(m)) /\ Len(raw) = Min({limit, m.arrived})
      /\ Len(Wire(m)) <= Min({limit, m.arrived}) => raw = Wire(m)
  <2> HIDE DEF IsSeq
  <2>1. Len(raw) = IF Min({limit, m.arrived}) <= Len(Wire(m)) THEN Min({limit, m.arrived}) ELSE Len(Wire(m))
    BY <1>1, <1>3, UptoIs
  <2> QED
    BY <1>1, <1>3, <2>1, UptoIs
<1> HIDE DEF raw
<1>5. /\ ~incomplete => raw = Wire(m) /\ m.arrived = Len(Wire(m))
      /\ m.arrived = Len(Wire(m)) /\ m.arrived <= limit => raw = Wire(m)
  BY <1>0, <1>1, <1>2, <1>4
<1>6. Sampled(m, limit).raw = raw /\ Sampled(m, limit).incomplete = incomplete
  BY DEF Sampled, raw
<1>7. incomplete \in BOOLEAN
  OBVIOUS
<1> HIDE DEF incomplete
<1>8. m.arrived > limit \/ m.arrived < Len(Wire(m)) => incomplete
  BY <1>0, <1>1 DEF incomplete
<1> QED
  BY <1>2, <1>4, <1>5, <1>6, <1>7, <1>8 DEF raw

\* The empty sequence is the one without elements.
LEMMA EmptyIs ==
  ASSUME NEW s, IsSeq(s)
  PROVE  s = <<>> <=> Len(s) = 0
BY EmptySeq, SeqIsSeq, SameSeq

\* And one element makes a sequence of length one.
LEMMA SingletonIs ==
  ASSUME NEW x
  PROVE  IsSeq(<<x>>) /\ Len(<<x>>) = 1
<1>1. <<x>> \in Seq({x})
  OBVIOUS
<1> QED
  BY <1>1, SeqIsSeq

\* A JSON string has no bytes that a coding made, and valid text goes through it as it is
\* (record.go).
LEMMA JSONIs ==
  ASSUME NEW s, IsSeq(s)
  PROVE  /\ IsSeq(ThroughJSON(s)) /\ Len(ThroughJSON(s)) = Len(s)
         /\ \A i \in 1 .. Len(s) : Len(ThroughJSON(s)[i]) # 2
         /\ ValidUTF8(s) => ThroughJSON(s) = s
<1> DEFINE t == [i \in 1 .. Len(s) |-> IF Stray(s, i) THEN Bad ELSE s[i]]
<1>1. DOMAIN s = 1 .. Len(s) /\ Len(s) \in Nat
  BY AsSeq DEF IsSeq
<1>2. ThroughJSON(s) = t
  BY <1>1 DEF ThroughJSON
<1>3. IsSeq(t) /\ Len(t) = Len(s)
  <2>1. t = [i \in 1 .. Len(s) |-> t[i]]
    OBVIOUS
  <2> HIDE DEF t
  <2> QED
    BY <1>1, <2>1, MakesSeq
<1>4. ASSUME NEW i \in 1 .. Len(s) PROVE Len(t[i]) # 2
  <2>1. CASE Stray(s, i)
    <3>1. t[i] = <<"U+FFFD">>
      BY <2>1 DEF Bad
    <3>2. Len(<<"U+FFFD">>) = 1
      BY SingletonIs
    <3> HIDE DEF t
    <3>3. Len(t[i]) = 1
      BY <3>1, <3>2, Zenon
    <3> QED
      BY <3>3
  <2>2. CASE ~Stray(s, i)
    <3>1. t[i] = s[i] /\ ~(Len(s[i]) > 1)
      BY <2>2 DEF Stray
    <3> HIDE DEF t
    <3>2. ~(Len(t[i]) > 1)
      BY <3>1, Zenon
    <3> QED
      BY <3>2
  <2> QED
    BY <2>1, <2>2
<1>5. ASSUME ValidUTF8(s) PROVE t = s
  <2>1. \A i \in 1 .. Len(s) : t[i] = s[i]
    BY <1>1, <1>5 DEF ValidUTF8
  <2> HIDE DEF t
  <2> QED
    BY <1>3, <2>1, SameSeq
<1> QED
  BY <1>2, <1>3, <1>4, <1>5

\* What captureBody makes of a sample: nothing, the text or a placeholder, or the count
\* (stream.go).
LEMMA CaptureIs ==
  ASSUME NEW m, IsMessage(m), NEW recording
  PROVE  LET sample == Sampled(m, captureLimitFor(m, recording))
             r      == decompressBody(m.layers, sample.raw)
             v      == captureBody(m, recording)
         IN /\ IsSeq(v.text) /\ v.truncated \in BOOLEAN
            /\ sample.raw = <<>> => v.text = <<>> /\ ~v.truncated
            /\ (sample.raw # <<>> /\ m.type = "text") =>
                 /\ v.text = IF r.ok THEN r.data ELSE Placeholder
                 /\ v.truncated <=> r.ok /\ (r.truncated \/ sample.incomplete)
            /\ (sample.raw # <<>> /\ m.type = "grpc") =>
                 v.text = grpcSummary(sample.raw, sample.incomplete)
<1> DEFINE sample == Sampled(m, captureLimitFor(m, recording))
           r      == decompressBody(m.layers, sample.raw)
           v      == captureBody(m, recording)
<1>1. v = decodeBody(m, sample.raw, sample.incomplete)
  BY DEF captureBody
<1>2. sample.incomplete \in BOOLEAN /\ IsSeq(sample.raw) /\ Begins(sample.raw, Wire(m))
  BY LimitIs, SampledIs
<1>3. r.ok \in BOOLEAN /\ r.truncated \in BOOLEAN /\ (r.ok => IsSeq(r.data))
  BY <1>2, MessageIs, DecompressIs DEF Wire
<1>4. m.type \in {"text", "binary", "grpc"}
  BY DEF IsMessage
<1> HIDE DEF sample, r, v
<1>5. CASE sample.raw = <<>>
  <2>1. v = [text |-> <<>>, truncated |-> FALSE]
    BY <1>1, <1>5 DEF decodeBody, NoView
  <2>2. IsSeq(<<>>)
    BY EmptySeq, SeqIsSeq
  <2>3. v.text = <<>> /\ v.truncated = FALSE
    BY <2>1
  <2> QED
    BY <1>5, <2>2, <2>3 DEF sample, v
<1>6. CASE sample.raw # <<>> /\ m.type = "grpc"
  <2>1. v = [text |-> grpcSummary(sample.raw, sample.incomplete), truncated |-> sample.incomplete]
    BY <1>1, <1>6 DEF decodeBody
  <2>2. v.text = grpcSummary(sample.raw, sample.incomplete) /\ v.truncated = sample.incomplete
    BY <2>1
  <2>3. IsSeq(grpcSummary(sample.raw, sample.incomplete))
    BY SingletonIs DEF grpcSummary
  <2> QED
    BY <1>2, <1>6, <2>2, <2>3 DEF sample, v
<1>7. CASE sample.raw # <<>> /\ m.type = "binary"
  <2>1. v = [text |-> Placeholder, truncated |-> FALSE]
    BY <1>1, <1>7 DEF decodeBody
  <2>2. v.text = Placeholder /\ v.truncated = FALSE
    BY <2>1
  <2>3. IsSeq(Placeholder)
    BY SingletonIs DEF Placeholder
  <2> QED
    BY <1>7, <2>2, <2>3 DEF sample, v
<1>8. CASE sample.raw # <<>> /\ m.type = "text"
  <2>1. v = IF r.ok THEN [text |-> r.data, truncated |-> r.truncated \/ sample.incomplete]
                    ELSE [text |-> Placeholder, truncated |-> FALSE]
    BY <1>1, <1>8 DEF decodeBody, r
  <2>2. IsSeq(Placeholder)
    BY SingletonIs DEF Placeholder
  <2>3. CASE r.ok
    <3>1. v.text = r.data /\ v.truncated = (r.truncated \/ sample.incomplete)
      BY <2>1, <2>3
    <3>2. v.truncated \in BOOLEAN /\ (v.truncated <=> r.ok /\ (r.truncated \/ sample.incomplete))
      BY <1>2, <1>3, <2>3, <3>1
    <3> QED
      BY <1>3, <1>8, <2>3, <3>1, <3>2 DEF sample, v, r
  <2>4. CASE ~r.ok
    <3>1. v.text = Placeholder /\ v.truncated = FALSE
      BY <2>1, <2>4
    <3> QED
      BY <1>8, <2>2, <2>4, <3>1 DEF sample, v, r
  <2> QED
    BY <2>3, <2>4
<1> QED
  BY <1>4, <1>5, <1>6, <1>7, <1>8

-----------------------------------------------------------------------------
(* A body that is cut *)

\* No coding makes a trailer out of the bytes of a body: the next decoder will not take
\* any for its own.
LEMMA NoTrailer ==
  ASSUME NEW m, IsMessage(m), NEW k \in 0 .. Len(m.layers)
  PROVE  Trailer \notin ToSet(Encoded(m.layers, m.body)[k])
<1>1. Len(m.layers) \in Nat /\ IsSeq(m.body)
  BY MessageIs
<1>2. CASE k = 0
  <2>1. Encoded(m.layers, m.body)[0] = m.body
    BY <1>1, EncodedIs
  <2> QED
    BY <1>2, <2>1 DEF IsMessage
<1>3. CASE k # 0
  <2> DEFINE w == Encoded(m.layers, m.body)[k - 1]
             c == Encoded(m.layers, m.body)[k]
             layer == m.layers[k]
  <2>1. k \in 1 .. Len(m.layers) /\ k - 1 \in 0 .. Len(m.layers)
    BY <1>1, <1>3
  <2>2. IsSeq(w)
    BY <1>1, <2>1, EncodedIsSeq
  <2>3. c = EncodeLayer(layer, w)
    BY <1>1, <2>1, EncodedIs
  <2> HIDE DEF w, c, layer
  <2>4. /\ IsSeq(c) /\ Len(c) = Len(w) + 2
        /\ c[1] = <<layer, Header>> /\ c[Len(w) + 2] = <<layer, Trailer>>
        /\ \A i \in 1 .. Len(w) : c[i + 1] = <<layer, w[i]>>
    BY <2>2, <2>3, EncodeLayerIs
  <2>5. Len(w) \in Nat
    BY <2>2 DEF IsSeq
  <2>6. \A x : <<layer, x>> # Trailer
    BY DEF Trailer
  <2>7. ASSUME NEW i \in 1 .. Len(c) PROVE c[i] # Trailer
    <3>1. CASE i = 1
      BY <2>4, <2>6, <3>1
    <3>2. CASE i = Len(w) + 2
      BY <2>4, <2>6, <3>2
    <3>3. CASE i # 1 /\ i # Len(w) + 2
      <4>1. i - 1 \in 1 .. Len(w) /\ (i - 1) + 1 = i
        BY <2>4, <2>5, <3>3
      <4>2. c[(i - 1) + 1] = <<layer, w[i - 1]>>
        BY <2>4, <4>1
      <4> QED
        BY <2>6, <4>1, <4>2
    <3> QED
      BY <3>1, <3>2, <3>3
  <2>8. DOMAIN c = 1 .. Len(c)
    BY <2>4, AsSeq
  <2> QED
    BY <2>7, <2>8 DEF ToSet, c
<1> QED
  BY <1>2, <1>3

\* A layer that is cut is not taken for a whole one.
LEMMA CutIsMarked ==
  ASSUME NEW layer, NEW w, IsSeq(w), Trailer \notin ToSet(w),
         NEW coded, IsSeq(coded), Begins(coded, EncodeLayer(layer, w)),
         Len(coded) # Len(EncodeLayer(layer, w))
  PROVE  LET r == decodeLayer(layer, coded)
         IN ~r.ok \/ r.truncated
<1> DEFINE r == decodeLayer(layer, coded)
<1>1. r.ok => Len(coded) > 0 /\ (~r.truncated => Ended(layer, coded))
  BY DecodeLayerIs
<1>2. Len(coded) > 0 => ~Ended(layer, coded)
  BY PlainIs
<1> HIDE DEF r
<1> QED
  BY <1>1, <1>2 DEF r

\* Of two cuts of a coded body the longer decodes to at least as much.
LEMMA LongerCut ==
  ASSUME NEW layer, NEW w, IsSeq(w), Trailer \notin ToSet(w),
         NEW c, IsSeq(c), Begins(c, EncodeLayer(layer, w)),
         NEW e, IsSeq(e), Begins(e, EncodeLayer(layer, w)),
         Len(c) < Len(e), decodeLayer(layer, c).ok
  PROVE  LET q == decodeLayer(layer, c)
             r == decodeLayer(layer, e)
         IN /\ IsSeq(q.data) /\ Begins(q.data, w) /\ Len(q.data) > 0
            /\ r.ok /\ Begins(q.data, r.data)
<1> DEFINE q == decodeLayer(layer, c)
           r == decodeLayer(layer, e)
           p == Plain(layer, c)
           s == Plain(layer, e)
<1>1. Len(c) \in Nat /\ Len(e) \in Nat /\ Len(w) \in Nat /\ maxDecompressed \in Nat /\ maxDecompressed > 0
  BY LimitIs DEF IsSeq
<1>2. /\ Len(c) > 0 /\ layer \in Codings /\ (Ended(layer, c) \/ Len(p) > 0)
      /\ q.data = Upto(p, maxDecompressed)
  BY DecodeLayerIs
<1>3. /\ IsSeq(p) /\ Begins(p, w)
      /\ Len(p) = Len(c) - (IF Ended(layer, c) THEN 2 ELSE 1)
      /\ Ended(layer, c) => c = EncodeLayer(layer, w)
  BY <1>2, PlainIs
<1>4. ~Ended(layer, c)
  BY <1>1, <1>3 DEF Begins
<1>5. /\ IsSeq(s) /\ Begins(s, w)
      /\ Len(s) = Len(e) - (IF Ended(layer, e) THEN 2 ELSE 1)
  <2>1. Len(e) > 0
    BY <1>1
  <2> QED
    BY <2>1, PlainIs
<1>6. r.ok <=> layer \in Codings /\ Len(e) > 0 /\ (Ended(layer, e) \/ Len(s) > 0)
  BY DecodeLayerIs
<1>7. r.ok => r.data = Upto(s, maxDecompressed)
  BY DecodeLayerIs
<1> HIDE DEF q, r, p, s
<1>8. Len(p) > 0 /\ Len(p) <= Len(s) /\ Len(p) \in Nat /\ Len(s) \in Nat
  <2>1. Len(p) \in Nat /\ Len(s) \in Nat
    BY <1>3, <1>5 DEF IsSeq
  <2>2. Len(p) > 0 /\ Len(p) = Len(c) - 1
    BY <1>2, <1>3, <1>4
  <2>3. CASE Ended(layer, e)
    <3>1. Len(s) = Len(e) - 2
      BY <1>5, <2>3
    <3> QED
      BY <1>1, <2>1, <2>2, <3>1
  <2>4. CASE ~Ended(layer, e)
    <3>1. Len(s) = Len(e) - 1
      BY <1>5, <2>4
    <3> QED
      BY <1>1, <2>1, <2>2, <3>1
  <2> QED
    BY <2>1, <2>2, <2>3, <2>4
<1>9. r.ok
  BY <1>1, <1>2, <1>6, <1>8
<1>10. /\ IsSeq(q.data) /\ Begins(q.data, p)
       /\ Len(q.data) = IF maxDecompressed <= Len(p) THEN maxDecompressed ELSE Len(p)
  BY <1>1, <1>2, <1>3, UptoIs
<1>11. /\ IsSeq(r.data) /\ Begins(r.data, s)
       /\ Len(r.data) = IF maxDecompressed <= Len(s) THEN maxDecompressed ELSE Len(s)
  BY <1>1, <1>5, <1>7, <1>9, UptoIs
<1>12. Begins(q.data, w) /\ Len(q.data) > 0
  BY <1>1, <1>3, <1>8, <1>10 DEF Begins
<1>13. Begins(q.data, r.data)
  <2>1. Len(q.data) <= Len(r.data) /\ Len(q.data) <= Len(p) /\ Len(r.data) <= Len(s)
        /\ Len(q.data) \in Nat /\ Len(r.data) \in Nat
    BY <1>1, <1>8, <1>10, <1>11
  <2>2. ASSUME NEW i \in 1 .. Len(q.data) PROVE q.data[i] = r.data[i]
    <3>1. i \in 1 .. Len(r.data) /\ i \in 1 .. Len(p) /\ i \in 1 .. Len(s)
      BY <1>8, <2>1
    <3>2. q.data[i] = p[i] /\ r.data[i] = s[i] /\ p[i] = w[i] /\ s[i] = w[i]
      BY <1>3, <1>5, <1>10, <1>11, <3>1 DEF Begins
    <3> QED
      BY <3>2
  <2> QED
    BY <2>1, <2>2 DEF Begins
<1> QED
  BY <1>9, <1>10, <1>12, <1>13 DEF q, r

\* If the first layer is not whole, its data is what decompressBody returns.
LEMMA StopsThere ==
  ASSUME NEW layers, Len(layers) \in Nat, NEW coded, Len(layers) >= 1,
         ~Decoded(layers, coded)[1].ok \/ Decoded(layers, coded)[1].truncated
  PROVE  decompressBody(layers, coded) = Decoded(layers, coded)[1]
<1> DEFINE dec == Decoded(layers, coded)
           Broken == {j \in 1 .. Len(layers) : dec[j] # dec[1]}
<1>1. SUFFICES ASSUME Broken # {} PROVE FALSE
  <2>1. Len(layers) \in 1 .. Len(layers)
    OBVIOUS
  <2> QED
    BY <2>1 DEF decompressBody
<1>2. PICK j \in Broken : \A i \in Broken : j <= i
  <2>1. Broken \in SUBSET Nat
    OBVIOUS
  <2> HIDE DEF Broken
  <2> QED
    BY <1>1, <2>1, LeastElement
<1>3. j \in 1 .. Len(layers) /\ dec[j] # dec[1] /\ j # 1
  OBVIOUS
<1>4. j - 1 \in 1 .. Len(layers) /\ ~(j <= j - 1)
  BY <1>3
<1>5. dec[j - 1] = dec[1]
  BY <1>2, <1>4
<1>6. dec[j] = DecodeNext(layers, j, dec[j - 1])
  BY <1>3, DecodedIs
<1> QED
  BY <1>3, <1>5, <1>6 DEF DecodeNext

\* The first layer that is decoded is the last coding applied.
LEMMA FirstDecoded ==
  ASSUME NEW layers, Len(layers) \in Nat, NEW coded, Len(layers) >= 1
  PROVE  Decoded(layers, coded)[1] = decodeLayer(layers[Len(layers)], coded)
<1>1. 1 \in 1 .. Len(layers) /\ 1 - 1 = 0 /\ Len(layers) + 1 - 1 = Len(layers)
  OBVIOUS
<1>2. Decoded(layers, coded)[1] = DecodeNext(layers, 1, Decoded(layers, coded)[0])
  BY <1>1, DecodedIs
<1>3. Decoded(layers, coded)[0] = Undecoded(coded)
  BY DecodedIs
<1>4. Undecoded(coded).ok /\ ~Undecoded(coded).truncated /\ Undecoded(coded).data = coded
  BY DEF Undecoded
<1> QED
  BY <1>1, <1>2, <1>3, <1>4 DEF DecodeNext

\* Without codings there is nothing to decode.
LEMMA NothingToDecode ==
  ASSUME NEW layers, Len(layers) = 0, NEW coded
  PROVE  /\ decompressBody(layers, coded).ok /\ ~decompressBody(layers, coded).truncated
         /\ decompressBody(layers, coded).data = coded
<1>0. Len(layers) \in Nat
  OBVIOUS
<1>1. decompressBody(layers, coded) = Undecoded(coded)
  BY <1>0, DecodedIs DEF decompressBody
<1> QED
  BY <1>1 DEF Undecoded

-----------------------------------------------------------------------------
(* A response that is altered *)

\* What a response is compared by is a beginning of its body, or coded bytes (record.go).
LEMMA CompareIs ==
  ASSUME NEW m, IsMessage(m)
  PROVE  LET d == decodeForCompare(m)
         IN /\ IsSeq(d)
            /\ Begins(d, m.body) \/ IsCoded(d)
            /\ Whole(m) => d = m.body \/ IsCoded(d)
<1> DEFINE raw  == Upto(Wire(m), Min({captureMaxBody, m.arrived}))
           out  == decompressBody(m.layers, raw)
           d    == decodeForCompare(m)
           last == Len(m.layers)
           enc  == Encoded(m.layers, m.body)
<1>1. /\ last \in Nat /\ IsSeq(m.body) /\ IsSeq(Wire(m)) /\ Len(Wire(m)) \in Nat
      /\ m.arrived \in Nat /\ m.arrived <= Len(Wire(m)) /\ Wire(m) = enc[last]
  BY MessageIs DEF Wire
<1>2. captureMaxBody \in Nat
  BY LimitIs
<1>3. d = IF out.ok THEN out.data ELSE raw
  BY DEF decodeForCompare
<1>4. IsSeq(raw) /\ Begins(raw, Wire(m)) /\ (Whole(m) => raw = Wire(m))
  <2>1. Min({captureMaxBody, m.arrived}) = IF captureMaxBody <= m.arrived THEN captureMaxBody ELSE m.arrived
    BY <1>1, <1>2, MinOfTwo
  <2>2. Min({captureMaxBody, m.arrived}) \in Nat
    BY <1>1, <1>2, <2>1
  <2>3. Whole(m) => Min({captureMaxBody, m.arrived}) = Len(Wire(m))
    BY <1>1, <1>2, <2>1 DEF Whole
  <2>4. IsSeq(raw) /\ Begins(raw, Wire(m))
    BY <1>1, <2>2, UptoIs
  <2>5. Upto(Wire(m), Len(Wire(m))) = Wire(m)
    BY <1>1, UptoIs
  <2> QED
    BY <2>3, <2>4, <2>5
<1> HIDE DEF raw, d, last, enc
<1>5. CASE out.ok
  <2>1. /\ IsSeq(out.data)
        /\ Begins(out.data, m.body) \/ IsCoded(out.data)
        /\ (raw = Wire(m) /\ Len(m.body) <= maxDecompressed) => out.data = m.body \/ IsCoded(out.data)
    BY <1>1, <1>4, <1>5, DecompressIs DEF last, enc
  <2>2. Whole(m) => Len(m.body) <= maxDecompressed
    BY DEF Whole
  <2> HIDE DEF out
  <2>3. d = out.data
    BY <1>3, <1>5
  <2> QED
    BY <1>4, <2>1, <2>2, <2>3 DEF d
<1>6. CASE ~out.ok
  <2>1. d = raw
    BY <1>3, <1>6
  <2>2. last # 0
    <3> SUFFICES ASSUME last = 0 PROVE out.ok
      BY <1>6
    <3>1. out = Undecoded(raw)
      BY <1>1, DecodedIs DEF decompressBody, last
    <3> QED
      BY <3>1 DEF Undecoded
  <2>3. last \in 1 .. last
    BY <1>1, <2>2
  <2>4. /\ Len(enc[last]) > 0
        /\ \A s : IsSeq(s) /\ Len(s) > 0 /\ Begins(s, enc[last]) => IsCoded(s)
    BY <1>1, <2>3, EncodedIsCoded DEF last, enc
  <2>5. CASE Len(raw) > 0
    BY <1>1, <1>4, <2>1, <2>4, <2>5 DEF d
  <2>6. CASE ~(Len(raw) > 0)
    <3>1. Len(raw) = 0 /\ Len(m.body) \in Nat
      BY <1>1, <1>4, <2>6 DEF IsSeq
    <3>2. Begins(raw, m.body)
      BY <3>1 DEF Begins
    <3>3. ~Whole(m)
      BY <1>1, <1>4, <2>4, <3>1
    <3> QED
      BY <1>4, <2>1, <3>2, <3>3 DEF d
  <2> QED
    BY <2>5, <2>6
<1> QED
  BY <1>5, <1>6

\* All that is within reach is compared: what came of a body without a coding, and of one
\* with a single coding all but its header; unless what is compared is coded bytes
\* (record.go:255, decodeForCompare).
LEMMA SeenIs ==
  ASSUME NEW m, IsMessage(m), ~IsCoded(decodeForCompare(m))
  PROVE  Len(decodeForCompare(m)) >= Seen(m)
<1> DEFINE came == Min({captureMaxBody, m.arrived})
           raw  == Upto(Wire(m), came)
           out  == decompressBody(m.layers, raw)
           d    == decodeForCompare(m)
           last == Len(m.layers)
<1>1. /\ last \in Nat /\ IsSeq(m.body) /\ IsSeq(Wire(m)) /\ Len(Wire(m)) \in Nat
      /\ m.arrived \in Nat /\ m.arrived <= Len(Wire(m)) /\ Len(m.body) \in Nat
  BY MessageIs DEF IsSeq
<1>2. captureMaxBody \in Nat /\ captureMaxBody > 0 /\ maxDecompressed \in Nat /\ maxDecompressed > 0
  BY LimitIs
<1>3. d = IF out.ok THEN out.data ELSE raw
  BY DEF decodeForCompare
<1>4. came \in Nat /\ came = IF captureMaxBody <= m.arrived THEN captureMaxBody ELSE m.arrived
  BY <1>1, <1>2, MinOfTwo
<1>5. IsSeq(raw) /\ Begins(raw, Wire(m)) /\ Len(raw) = came
  <2> HIDE DEF came
  <2>1. Len(raw) = IF came <= Len(Wire(m)) THEN came ELSE Len(Wire(m))
    BY <1>1, <1>4, UptoIs
  <2>2. came <= Len(Wire(m))
    BY <1>1, <1>2, <1>4
  <2>3. Len(raw) = came
    BY <2>1, <2>2
  <2> QED
    BY <1>1, <1>4, <2>3, UptoIs
<1>6. IsSeq(d) /\ Len(d) \in Nat /\ (Whole(m) => d = m.body)
  BY CompareIs DEF IsSeq
<1> HIDE DEF d, raw
<1>7. CASE Whole(m)
  BY <1>1, <1>6, <1>7 DEF Seen, d
<1>8. CASE ~Whole(m) /\ last = 0
  <2>1. out.ok /\ out.data = raw
    BY <1>8, NothingToDecode
  <2>2. Seen(m) = came
    BY <1>8 DEF Seen
  <2> HIDE DEF out, came
  <2>3. Len(d) = came
    BY <1>3, <1>5, <2>1
  <2> QED
    BY <1>4, <2>2, <2>3 DEF d
<1>9. CASE ~Whole(m) /\ last = 1
  <2> DEFINE layer == m.layers[1]
             plain == Plain(layer, raw)
             ended == Ended(layer, raw)
  <2>1. Seen(m) = Min({maxDecompressed, came - 1})
    BY <1>9 DEF Seen
  <2>2. Seen(m) = IF maxDecompressed <= came - 1 THEN maxDecompressed ELSE came - 1
    <3> HIDE DEF came
    <3>1. maxDecompressed \in Int /\ came - 1 \in Int
      BY <1>2, <1>4
    <3> QED
      BY <2>1, <3>1, MinOfTwoInts
  <2>3. Wire(m) = EncodeLayer(layer, m.body)
    <3>1. Encoded(m.layers, m.body)[1] = EncodeLayer(layer, Encoded(m.layers, m.body)[1 - 1])
      BY <1>1, <1>9, EncodedIs
    <3>2. Encoded(m.layers, m.body)[1 - 1] = m.body
      BY <1>1, EncodedIs
    <3> QED
      BY <1>9, <3>1, <3>2 DEF Wire
  <2>4. Trailer \notin ToSet(m.body)
    <3>1. Encoded(m.layers, m.body)[0] = m.body /\ 0 \in 0 .. Len(m.layers)
      BY <1>1, EncodedIs
    <3> QED
      BY <3>1, NoTrailer
  <2>5. out = decodeLayer(layer, raw)
    BY <1>9, FirstDecoded DEF decompressBody
  <2>6. CASE came = 0
    BY <1>2, <1>6, <2>2, <2>6 DEF d
  <2>7. CASE came # 0
    <3> HIDE DEF came, layer
    <3>1. Len(raw) > 0
      BY <1>4, <1>5, <2>7
    <3>2. out.ok
      <4>1. 1 \in 1 .. last
        BY <1>9
      <4>2. Wire(m) = Encoded(m.layers, m.body)[1]
        BY <1>9 DEF Wire
      <4>3. IsCoded(raw)
        BY <1>1, <1>5, <3>1, <4>1, <4>2, EncodedIsCoded
      <4> QED
        BY <1>3, <4>3 DEF d
    <3>3. out.data = Upto(plain, maxDecompressed)
      BY <1>1, <1>5, <2>3, <2>5, <3>2, DecodeLayerIs
    <3>4. /\ IsSeq(plain) /\ Len(plain) = Len(raw) - (IF ended THEN 2 ELSE 1)
          /\ ended => raw = Wire(m) /\ plain = m.body
      BY <1>1, <1>5, <2>3, <2>4, <3>1, PlainIs
    <3> HIDE DEF plain, ended, out
    <3>5. Len(plain) \in Nat
      BY <3>4 DEF IsSeq
    <3>6. Len(d) = IF maxDecompressed <= Len(plain) THEN maxDecompressed ELSE Len(plain)
      BY <1>2, <1>3, <3>2, <3>3, <3>4, UptoIs
    <3>7. CASE ended
      <4>1. came = Len(Wire(m)) /\ plain = m.body
        BY <1>5, <3>4, <3>7
      <4>2. m.arrived = Len(Wire(m)) /\ m.arrived <= captureMaxBody
        BY <1>1, <1>2, <1>4, <4>1
      <4>3. ~(Len(m.body) <= maxDecompressed)
        BY <1>9, <4>2 DEF Whole
      <4>4. Len(d) = maxDecompressed
        BY <1>1, <1>2, <3>6, <4>1, <4>3
      <4> QED
        BY <1>2, <1>4, <2>2, <4>4 DEF d
    <3>8. CASE ~ended
      <4>1. Len(plain) = came - 1
        BY <1>5, <3>4, <3>8
      <4> QED
        BY <1>2, <1>4, <2>2, <3>6, <4>1 DEF d
    <3> QED
      BY <3>7, <3>8
  <2> QED
    BY <2>6, <2>7
<1>10. CASE ~Whole(m) /\ last > 1
  <2>1. Seen(m) = 0
    BY <1>1, <1>10 DEF Seen
  <2> QED
    BY <1>6, <2>1 DEF d
<1>11. last = 0 \/ last = 1 \/ last > 1
  <2>1. \A i \in Nat : i = 0 \/ i = 1 \/ i > 1
    OBVIOUS
  <2> QED
    BY <1>1, <2>1, Zenon
<1> QED
  BY <1>7, <1>8, <1>9, <1>10, <1>11

\* A response that is altered, in its status or its text, is counted as a difference,
\* unless it only goes on behind what the replay reads: what it is compared by is a
\* beginning of its body that has all that is within reach, or coded bytes, of which a
\* record has none (record.go, bodyMatch).
LEMMA AlteredDiffers ==
  ASSUME NEW o \in Exchanges, NEW r \in Responses, Altered(o, r), ~GoesOn(o, r)
  PROVE  r.status # writeRecord(o).status \/ ~BodyMatch(writeRecord(o), r)
<1> DEFINE ex == writeRecord(o)
           v  == captureBody(o.response, TRUE)
           b  == ThroughJSON(v.text)
           t  == TrimSpace(b)
           d  == decodeForCompare(r)
           trim == TrimSpace(d)
           whole == TrimSpace(r.body)
<1>1. IsMessage(o.response) /\ IsMessage(r)
  BY MessagesAssumption
<1>2. ex.status = o.response.status /\ ex.respBody = b /\ ex.respTrunc = v.truncated
  BY DEF writeRecord
<1>3. IsSeq(v.text) /\ v.truncated \in BOOLEAN
  BY <1>1, CaptureIs
<1> SUFFICES ASSUME r.status = ex.status, BodyMatch(ex, r) PROVE FALSE
  OBVIOUS
<1>4. IF ex.respTrunc THEN ~IsPrefix(t, whole) ELSE t # whole
  BY <1>2 DEF Altered
<1>5. IF ex.respTrunc THEN IsPrefix(t, trim) ELSE t = trim
  BY <1>2 DEF BodyMatch
<1>6. /\ IsSeq(d) /\ IsSeq(r.body)
      /\ Begins(d, r.body) \/ IsCoded(d)
      /\ ~IsCoded(d) => Len(d) >= Seen(r)
  BY <1>1, CompareIs, SeenIs, MessageIs
<1>7. IsSeq(b) /\ \A i \in 1 .. Len(b) : Len(b[i]) # 2
  BY <1>3, JSONIs
<1> HIDE DEF ex, v, b, d
<1>8. IsSeq(t) /\ IsSeq(trim) /\ IsSeq(whole) /\ Len(t) \in Nat /\ Len(trim) \in Nat /\ Len(whole) \in Nat
  <2>1. IsSeq(t) /\ IsSeq(trim) /\ IsSeq(whole)
    BY <1>6, <1>7, TrimIs
  <2> QED
    BY <2>1 DEF IsSeq
<1>9. ASSUME NEW i \in 1 .. Len(t) PROVE Len(t[i]) # 2
  BY <1>7, TrimElement
<1> HIDE DEF t, trim, whole
<1>10. Begins(t, trim)
  <2>1. Begins(trim, trim)
    BY <1>8 DEF Begins
  <2> QED
    BY <1>5, <1>8, <2>1, PrefixBegins
<1>11. CASE IsCoded(d)
  <2>1. Len(d) > 0 /\ d[1] # Space /\ Len(d[1]) = 2
    <3>1. Len(Space) = 1
      BY SingletonIs DEF Space
    <3>2. Len(d) > 0 /\ Len(d[1]) = 2
      BY <1>11 DEF IsCoded
    <3>3. ASSUME d[1] = Space PROVE FALSE
      <4>1. Len(d[1]) = 1
        BY <3>1, <3>3, Zenon
      <4>2. 1 # 2
        OBVIOUS
      <4> QED
        BY <3>2, <4>1, <4>2, Zenon
    <3> QED
      BY <3>2, <3>3
  <2>2. Len(trim) > 0 /\ trim[1] = d[1]
    BY <1>6, <2>1, TrimHead DEF trim
  <2>3. Len(t) = 0
    <3> SUFFICES ASSUME Len(t) # 0 PROVE FALSE
      OBVIOUS
    <3>1. 1 \in 1 .. Len(t)
      BY <1>8
    <3>2. t[1] = trim[1]
      BY <1>10, <3>1 DEF Begins
    <3> QED
      BY <1>9, <2>1, <2>2, <3>1, <3>2
  <2>4. t # trim
    BY <2>2, <2>3
  <2>5. Begins(t, whole)
    BY <1>8, <2>3 DEF Begins
  <2> QED
    BY <1>4, <1>5, <1>8, <2>4, <2>5, PrefixBegins
<1>12. CASE ~IsCoded(d)
  <2>1. Begins(trim, whole)
    BY <1>6, <1>12, TrimBegins DEF trim, whole
  <2>2. Begins(t, whole)
    BY <1>8, <1>10, <2>1 DEF Begins
  <2>3. IsPrefix(t, whole)
    BY <1>8, <2>2, PrefixBegins
  <2>4. ~ex.respTrunc => GoesOn(o, r)
    <3>1. d = Upto(r.body, Len(d)) /\ Len(d) \in 0 .. Len(r.body)
      <4>1. Len(d) \in Nat /\ Len(r.body) \in Nat /\ Len(d) <= Len(r.body)
            /\ \A i \in 1 .. Len(d) : d[i] = r.body[i]
        BY <1>6, <1>12 DEF IsSeq, Begins
      <4> DEFINE u == Upto(r.body, Len(d))
      <4>2. IsSeq(u) /\ Len(u) = Len(d) /\ Begins(u, r.body)
        BY <1>6, <4>1, UptoIs
      <4> HIDE DEF u
      <4>3. \A i \in 1 .. Len(d) : d[i] = u[i]
        BY <4>1, <4>2 DEF Begins
      <4>4. d = u
        BY <1>6, <4>2, <4>3, SameSeq
      <4> QED
        BY <4>1, <4>4 DEF u
    <3>2. ~ex.respTrunc => TrimSpace(Upto(r.body, Len(d))) = TrimSpace(ex.respBody)
      BY <1>2, <1>5, <3>1 DEF t, trim
    <3>3. r.status = o.response.status /\ Len(d) >= Seen(r)
      BY <1>2, <1>6, <1>12
    <3> QED
      BY <3>1, <3>2, <3>3 DEF GoesOn, ex
  <2> QED
    BY <1>4, <2>3, <2>4
<1> QED
  BY <1>11, <1>12

-----------------------------------------------------------------------------
(* A response that is not *)

\* The record of a response, and the same response got whole on replay, agree, as far as
\* the record goes.  If both were cut alike they are decoded alike; else the record is of
\* the shorter cut, is marked so, and was decoded to a beginning of what the longer one is.
\* Of several codings, the first layer that is cut leaves coded bytes, and no valid text.
LEMMA SameBodyMatches ==
  ASSUME NEW m, IsMessage(m), m.type = "text",
         NEW r, IsMessage(r), r.layers = m.layers, r.body = m.body, r.arrived = Len(Wire(r)),
         captureBody(m, TRUE).text # Placeholder, ValidUTF8(captureBody(m, TRUE).text),
         m.arrived = 0 => Wire(m) = <<>>
  PROVE  LET v == captureBody(m, TRUE)
             d == decodeForCompare(r)
         IN /\ IsSeq(v.text) /\ IsSeq(d) /\ v.truncated \in BOOLEAN
            /\ v.text = d \/ (v.truncated /\ Begins(v.text, d))
<1> DEFINE v      == captureBody(m, TRUE)
           d      == decodeForCompare(r)
           wire   == Wire(m)
           last   == Len(m.layers)
           enc    == Encoded(m.layers, m.body)
           sample == Sampled(m, captureMaxBody)
           raw    == sample.raw
           out    == decompressBody(m.layers, raw)
           raw2   == Upto(wire, Min({captureMaxBody, Len(wire)}))
           out2   == decompressBody(m.layers, raw2)
<1>1. /\ last \in Nat /\ IsSeq(m.body) /\ IsSeq(wire) /\ Len(wire) \in Nat
      /\ m.arrived \in Nat /\ m.arrived <= Len(wire) /\ wire = enc[last]
      /\ m.layers = <<>> => last = 0
      /\ last = 0 => wire = m.body
      /\ last > 0 => Len(wire) > 0
  BY MessageIs DEF Wire
<1>2. captureMaxBody \in Nat /\ captureMaxBody > 0 /\ captureLimitFor(m, TRUE) = captureMaxBody
  BY LimitIs DEF captureLimitFor
<1>3. Wire(r) = wire /\ r.arrived = Len(wire)
  BY DEF Wire
<1>4. d = IF out2.ok THEN out2.data ELSE raw2
  BY <1>3 DEF decodeForCompare
<1>5. /\ IsSeq(raw) /\ Begins(raw, wire)
      /\ Len(raw) = IF captureMaxBody <= m.arrived THEN captureMaxBody ELSE m.arrived
      /\ sample.incomplete \in BOOLEAN
      /\ m.arrived > captureMaxBody \/ m.arrived < Len(wire) => sample.incomplete
  BY <1>2, SampledIs
<1>6. /\ IsSeq(v.text) /\ v.truncated \in BOOLEAN
      /\ raw = <<>> => v.text = <<>> /\ ~v.truncated
      /\ raw # <<>> => /\ v.text = IF out.ok THEN out.data ELSE Placeholder
                       /\ v.truncated <=> out.ok /\ (out.truncated \/ sample.incomplete)
  BY <1>2, CaptureIs
<1>7. /\ IsSeq(raw2) /\ Begins(raw2, wire)
      /\ Len(raw2) = IF captureMaxBody <= Len(wire) THEN captureMaxBody ELSE Len(wire)
  <2>1. Min({captureMaxBody, Len(wire)}) = IF captureMaxBody <= Len(wire) THEN captureMaxBody ELSE Len(wire)
    BY <1>1, <1>2, MinOfTwo
  <2>2. Min({captureMaxBody, Len(wire)}) \in Nat
    BY <1>1, <1>2, <2>1
  <2>3. /\ IsSeq(raw2) /\ Begins(raw2, wire)
        /\ Len(raw2) = IF Min({captureMaxBody, Len(wire)}) <= Len(wire)
                         THEN Min({captureMaxBody, Len(wire)}) ELSE Len(wire)
    BY <1>1, <2>2, UptoIs
  <2> QED
    BY <1>1, <1>2, <2>1, <2>3
<1>8. IsSeq(d)
  BY CompareIs
<1>9. v.text # Placeholder /\ ValidUTF8(v.text) /\ (m.arrived = 0 => wire = <<>>)
  OBVIOUS
<1>10. Len(raw) \in Nat /\ Len(raw2) \in Nat /\ Len(raw) <= Len(raw2)
  BY <1>1, <1>2, <1>5, <1>7
<1> HIDE DEF v, d, wire, last, enc, sample, raw, raw2
<1>11. CASE raw = <<>>
  <2>1. Len(raw) = 0
    BY <1>5, <1>11, EmptyIs
  <2>2. m.arrived = 0
    BY <1>1, <1>2, <1>5, <2>1
  <2>3. Len(wire) = 0
    BY <1>1, <1>9, <2>2, EmptyIs
  <2>4. Len(raw2) = 0 /\ last = 0
    BY <1>1, <1>2, <1>7, <2>3
  <2>5. out2.ok /\ out2.data = raw2
    BY <2>4, NothingToDecode DEF last
  <2>6. d = <<>>
    BY <1>4, <1>7, <2>4, <2>5, EmptyIs
  <2> QED
    BY <1>6, <1>8, <1>11, <2>6 DEF v, d
<1>12. CASE raw # <<>> /\ raw = raw2
  <2>1. out.ok /\ v.text = out.data
    BY <1>6, <1>9, <1>12
  <2>2. d = out.data
    BY <1>4, <1>12, <2>1
  <2> QED
    BY <1>6, <1>8, <2>1, <2>2 DEF v, d
<1>13. CASE raw # <<>> /\ raw # raw2
  <2>1. out.ok /\ v.text = out.data
    BY <1>6, <1>9, <1>13
  <2>2. Begins(raw, raw2)
    <3>1. ASSUME NEW i \in 1 .. Len(raw) PROVE raw[i] = raw2[i]
      <4>1. i \in 1 .. Len(raw2)
        BY <1>10
      <4> QED
        BY <1>5, <1>7, <4>1 DEF Begins
    <3> QED
      BY <1>10, <3>1 DEF Begins
  <2>3. Len(raw) < Len(raw2)
    <3>1. Len(raw) = Len(raw2) => raw = raw2
      BY <1>5, <1>7, <2>2, SameSeq DEF Begins
    <3> QED
      BY <1>10, <1>13, <3>1
  <2>4. m.arrived < Len(wire) /\ Len(raw) < Len(wire)
    BY <1>1, <1>2, <1>5, <1>7, <2>3
  <2>5. v.truncated
    BY <1>5, <1>6, <1>13, <2>1, <2>4
  <2>6. CASE last = 0
    <3>1. out.data = raw /\ out2.ok /\ out2.data = raw2
      BY <2>6, NothingToDecode DEF last
    <3>2. v.text = raw /\ d = raw2
      BY <1>4, <2>1, <3>1
    <3> QED
      BY <1>6, <1>8, <2>2, <2>5, <3>2 DEF v, d
  <2>7. CASE last > 0
    <3> DEFINE w     == enc[last - 1]
               layer == m.layers[last]
               q     == decodeLayer(layer, raw)
               q2    == decodeLayer(layer, raw2)
    <3>1. last \in 1 .. last /\ last - 1 \in 0 .. last
      BY <1>1, <2>7
    <3>2. IsSeq(w)
      BY <1>1, <3>1, EncodedIsSeq DEF last, enc
    <3>3. Trailer \notin ToSet(w)
      BY <3>1, NoTrailer DEF last, enc
    <3>4. wire = EncodeLayer(layer, w)
      <4>1. \A k \in 1 .. last : enc[k] = EncodeLayer(m.layers[k], enc[k - 1])
        BY <1>1, EncodedIs DEF last, enc
      <4> QED
        BY <1>1, <3>1, <4>1
    <3>5. Decoded(m.layers, raw)[1] = q /\ Decoded(m.layers, raw2)[1] = q2
      BY <1>1, <2>7, FirstDecoded DEF last
    <3> HIDE DEF w, layer
    <3>6. ~q.ok \/ q.truncated
      BY <1>5, <2>4, <3>2, <3>3, <3>4, CutIsMarked
    <3>7. out = q
      BY <1>1, <2>7, <3>5, <3>6, StopsThere DEF last
    <3>8. q.ok /\ v.text = q.data
      BY <2>1, <3>7
    <3>9. /\ IsSeq(q.data) /\ Begins(q.data, w) /\ Len(q.data) > 0
          /\ q2.ok /\ Begins(q.data, q2.data)
      BY <1>5, <1>7, <2>3, <3>2, <3>3, <3>4, <3>8, LongerCut
    <3> HIDE DEF q, q2, out, out2
    <3>10. CASE last = 1
      <4>1. out2 = q2
        BY <3>5, <3>10 DEF decompressBody, out2, last
      <4>2. d = q2.data
        BY <1>4, <3>9, <4>1
      <4> QED
        BY <1>6, <1>8, <2>5, <3>8, <3>9, <4>2 DEF v, d
    <3>11. CASE last # 1
      <4>1. last - 1 \in 1 .. last
        BY <1>1, <2>7, <3>11
      <4>2. IsCoded(q.data)
        BY <1>1, <3>9, <4>1, EncodedIsCoded DEF w, enc, last
      <4>3. Len(v.text) > 0 /\ Len(v.text[1]) = 2
        BY <3>8, <4>2 DEF IsCoded
      <4>4. 1 \in DOMAIN v.text
        <5>1. DOMAIN v.text = 1 .. Len(v.text) /\ Len(v.text) \in Nat
          BY <1>6, AsSeq DEF IsSeq
        <5> QED
          BY <4>3, <5>1
      <4>5. Stray(v.text, 1)
        <5>1. Len(v.text[1]) > 1
          BY <4>3
        <5> QED
          BY <5>1 DEF Stray
      <4> QED
        BY <1>9, <4>4, <4>5 DEF ValidUTF8
    <3> QED
      BY <3>10, <3>11
  <2>8. last = 0 \/ last > 0
    BY <1>1
  <2> QED
    BY <2>6, <2>7, <2>8
<1> QED
  BY <1>11, <1>12, <1>13

\* A server that answers as it did before makes no difference (record.go, bodyMatch).
LEMMA UnchangedMatches ==
  ASSUME NEW o \in Exchanges, NEW r \in Responses, Unchanged(o, r), Recorded(o)
  PROVE  r.status = writeRecord(o).status /\ BodyMatch(writeRecord(o), r)
<1> DEFINE ex == writeRecord(o)
           v  == captureBody(o.response, TRUE)
           d  == decodeForCompare(r)
<1>1. IsMessage(o.response) /\ IsMessage(r)
  BY MessagesAssumption
<1>2. /\ r.status = o.response.status /\ r.layers = o.response.layers /\ r.body = o.response.body
      /\ r.arrived = Len(Wire(r))
  BY DEF Unchanged
<1>3. /\ IsSeq(v.text) /\ IsSeq(d) /\ v.truncated \in BOOLEAN
      /\ v.text = d \/ (v.truncated /\ Begins(v.text, d))
  BY <1>1, <1>2, SameBodyMatches DEF Recorded
<1>4. ThroughJSON(v.text) = v.text
  BY <1>3, JSONIs DEF Recorded
<1>5. ex.status = o.response.status /\ ex.respBody = v.text /\ ex.respTrunc = v.truncated
  BY <1>4 DEF writeRecord
<1> HIDE DEF ex, v, d
<1>6. IsSeq(TrimSpace(v.text)) /\ IsSeq(TrimSpace(d))
  BY <1>3, TrimIs
<1>7. IsPrefix(TrimSpace(v.text), TrimSpace(d))
  <2>1. Begins(TrimSpace(v.text), TrimSpace(d))
    <3>1. Len(d) \in Nat
      BY <1>3 DEF IsSeq
    <3>2. Begins(v.text, d)
      BY <1>3, <3>1 DEF Begins
    <3> QED
      BY <1>3, <3>2, TrimBegins
  <2> QED
    BY <1>6, <2>1, PrefixBegins
<1>8. ex.respTrunc \/ TrimSpace(ex.respBody) = TrimSpace(d)
  BY <1>3, <1>5
<1> QED
  BY <1>2, <1>5, <1>7, <1>8 DEF BodyMatch, d, ex

\* A request of plain text, captured whole, is recorded as it was.
LEMMA SentAsIs ==
  ASSUME NEW m, IsMessage(m), m.type = "text", m.layers = <<>>, m.arrived = Len(m.body),
         ValidUTF8(m.body), Len(m.body) <= captureMaxBody
  PROVE  ThroughJSON(captureBody(m, TRUE).text) = m.body
<1> DEFINE v      == captureBody(m, TRUE)
           sample == Sampled(m, captureMaxBody)
           raw    == sample.raw
           out    == decompressBody(m.layers, raw)
<1>1. /\ Len(m.layers) = 0 /\ IsSeq(m.body) /\ Wire(m) = m.body /\ Len(m.body) \in Nat
  BY MessageIs
<1>2. captureMaxBody \in Nat /\ captureLimitFor(m, TRUE) = captureMaxBody
  BY LimitIs DEF captureLimitFor
<1>3. m.arrived = Len(Wire(m)) /\ m.arrived <= captureMaxBody => raw = Wire(m)
  BY <1>2, SampledIs
<1>4. /\ raw = <<>> => v.text = <<>>
      /\ raw # <<>> => v.text = IF out.ok THEN out.data ELSE Placeholder
  BY <1>2, CaptureIs
<1>5. out.ok /\ out.data = raw
  BY <1>1, NothingToDecode
<1> HIDE DEF v, sample, raw, out
<1>6. raw = m.body
  BY <1>1, <1>3
<1>7. v.text = m.body
  BY <1>4, <1>5, <1>6
<1> QED
  BY <1>1, <1>7, JSONIs DEF v

-----------------------------------------------------------------------------
(* What is displayed of a text *)

\* The parts of a sequence that something was appended to.
LEMMA AppendIs ==
  ASSUME NEW s, IsSeq(s), NEW x
  PROVE  Append(s, x) # <<>> /\ Last(Append(s, x)) = x /\ Front(Append(s, x)) = s
<1> DEFINE a == Append(s, x)
<1>1. Len(s) \in Nat /\ s \in Seq(ToSet(s) \cup {x})
  <2>1. s \in Seq(ToSet(s))
    BY AsSeq
  <2> QED
    BY <2>1, SeqMonotonic DEF IsSeq
<1>2. /\ a \in Seq(ToSet(s) \cup {x}) /\ Len(a) = Len(s) + 1 /\ a[Len(s) + 1] = x
      /\ \A i \in 1 .. Len(s) : a[i] = s[i]
  BY <1>1, AppendProperties
<1>3. IsSeq(a)
  BY <1>2, SeqIsSeq
<1> HIDE DEF a
<1>4. a # <<>>
  BY <1>1, <1>2, <1>3, EmptyIs
<1>5. Last(a) = x
  BY <1>2 DEF Last
<1>6. Front(a) = s
  <2>1. /\ 1 \in 1 .. Len(a) + 1 /\ Len(a) - 1 \in 1 - 1 .. Len(a)
        /\ Len(a) - 1 = Len(s) /\ (Len(a) - 1) - 1 + 1 = Len(s)
    BY <1>1, <1>2
  <2> DEFINE f == SubSeq(a, 1, Len(a) - 1)
  <2>2. IsSeq(f) /\ Len(f) = (Len(a) - 1) - 1 + 1 /\ \A i \in 1 .. (Len(a) - 1) - 1 + 1 : f[i] = a[1 + i - 1]
    BY <1>3, <2>1, Part
  <2> HIDE DEF f
  <2>3. ASSUME NEW i \in 1 .. Len(f) PROVE f[i] = s[i]
    <3>1. i \in 1 .. Len(s) /\ 1 + i - 1 = i
      BY <1>1, <2>1, <2>2
    <3> QED
      BY <1>2, <2>1, <2>2, <3>1
  <2>4. f = s
    BY <2>1, <2>2, <2>3, SameSeq
  <2> QED
    BY <2>4 DEF Front, f
<1> QED
  BY <1>4, <1>5, <1>6 DEF a

\* A view is displayed as it is, or a beginning of it with the marker
\* (main.go, truncateForDisplay).
LEMMA DisplayIs ==
  ASSUME NEW v, IsSeq(v.text), v.truncated \in BOOLEAN
  PROVE  LET shown == truncateForDisplay(v)
         IN \/ Len(v.text) <= displayMaxBody /\ ~v.truncated /\ shown = v.text
            \/ /\ shown # <<>> /\ Last(shown) = Marker
               /\ IsSeq(Front(shown)) /\ Begins(Front(shown), v.text)
<1> DEFINE shown == truncateForDisplay(v)
           cuts == {k \in 0 .. displayMaxBody : k = 0 \/ v.text[k + 1] # Cont}
<1>1. Len(v.text) \in Nat /\ displayMaxBody \in Nat
  BY LimitIs DEF IsSeq
<1>2. Begins(v.text, v.text)
  BY <1>1 DEF Begins
<1>3. CASE Len(v.text) <= displayMaxBody /\ ~v.truncated
  BY <1>3 DEF truncateForDisplay
<1>4. CASE Len(v.text) <= displayMaxBody /\ v.truncated
  <2>1. shown = Append(v.text, Marker)
    BY <1>4 DEF truncateForDisplay
  <2> QED
    BY <1>2, <2>1, AppendIs
<1>5. CASE ~(Len(v.text) <= displayMaxBody)
  <2> DEFINE u == Upto(v.text, Max(cuts))
  <2>1. shown = Append(u, Marker)
    BY <1>5 DEF truncateForDisplay
  <2>2. Max(cuts) \in Nat
    <3>1. cuts \in SUBSET (0 .. displayMaxBody) /\ cuts # {}
      <4>1. 0 \in 0 .. displayMaxBody
        BY <1>1
      <4> QED
        BY <4>1
    <3> HIDE DEF cuts
    <3>2. Max(cuts) \in cuts
      BY <1>1, <3>1, MaxIs
    <3>3. Max(cuts) \in 0 .. displayMaxBody
      BY <3>1, <3>2
    <3> QED
      BY <1>1, <3>3
  <2> HIDE DEF cuts
  <2>3. IsSeq(u) /\ Begins(u, v.text)
    BY <2>2, UptoIs
  <2> HIDE DEF u, shown
  <2> QED
    BY <2>1, <2>3, AppendIs DEF shown
<1> QED
  BY <1>3, <1>4, <1>5

\* The text in a view is the placeholder, or a beginning of the body, and all of it if the
\* view is not marked (stream.go, decodeBody).
LEMMA TextIs ==
  ASSUME NEW m, IsMessage(m), NEW recording, m.type = "text", m.arrived > 0, Len(m.layers) <= 1
  PROVE  LET v == captureBody(m, recording)
         IN /\ IsSeq(v.text) /\ v.truncated \in BOOLEAN
            /\ \/ v.text = Placeholder /\ ~v.truncated
               \/ /\ Begins(v.text, m.body)
                  /\ ~v.truncated => v.text = m.body /\ m.arrived = Len(Wire(m))
<1> DEFINE v      == captureBody(m, recording)
           limit  == captureLimitFor(m, recording)
           sample == Sampled(m, limit)
           raw    == sample.raw
           out    == decompressBody(m.layers, raw)
           wire   == Wire(m)
<1>1. /\ Len(m.layers) \in Nat /\ IsSeq(m.body) /\ IsSeq(wire) /\ m.arrived \in Nat
      /\ Len(m.layers) = 0 => wire = m.body
  BY MessageIs
<1>2. limit \in Nat /\ limit > 0 /\ maxDecompressed \in Nat
  BY LimitIs
<1>3. /\ IsSeq(raw) /\ Begins(raw, wire)
      /\ Len(raw) = IF limit <= m.arrived THEN limit ELSE m.arrived
      /\ sample.incomplete \in BOOLEAN
      /\ ~sample.incomplete => raw = wire /\ m.arrived = Len(wire)
  BY <1>2, SampledIs
<1>4. /\ IsSeq(v.text) /\ v.truncated \in BOOLEAN
      /\ raw # <<>> => /\ v.text = IF out.ok THEN out.data ELSE Placeholder
                       /\ v.truncated <=> out.ok /\ (out.truncated \/ sample.incomplete)
  BY CaptureIs
<1> HIDE DEF v, limit, sample, raw, wire
<1>5. raw # <<>>
  BY <1>1, <1>2, <1>3, EmptyIs
<1>6. CASE ~out.ok
  BY <1>4, <1>5, <1>6 DEF v
<1>7. CASE out.ok /\ Len(m.layers) = 0
  <2>1. out.data = raw /\ ~out.truncated
    BY <1>7, NothingToDecode
  <2> HIDE DEF out
  <2>2. v.text = raw /\ (v.truncated <=> sample.incomplete)
    BY <1>3, <1>4, <1>5, <1>7, <2>1
  <2> QED
    BY <1>1, <1>3, <1>4, <1>7, <2>2 DEF v, wire
<1>8. CASE out.ok /\ Len(m.layers) # 0
  <2> DEFINE layer == m.layers[1]
             plain == Plain(layer, raw)
             ended == Ended(layer, raw)
  <2>1. Len(m.layers) = 1 /\ 1 \in 1 .. Len(m.layers)
    <3>1. \A i \in Nat : i <= 1 /\ i # 0 => i = 1
      OBVIOUS
    <3>2. Len(m.layers) = 1
      BY <1>1, <1>8, <3>1, Zenon
    <3> QED
      BY <3>2
  <2>2. wire = EncodeLayer(layer, m.body)
    <3>1. Encoded(m.layers, m.body)[1] = EncodeLayer(layer, Encoded(m.layers, m.body)[1 - 1])
      BY <1>1, <2>1, EncodedIs
    <3>2. Encoded(m.layers, m.body)[1 - 1] = m.body
      BY <1>1, EncodedIs
    <3> QED
      BY <2>1, <3>1, <3>2 DEF Wire, wire
  <2>3. out = decodeLayer(layer, raw)
    BY <2>1, FirstDecoded DEF decompressBody
  <2>4. /\ out.truncated \in BOOLEAN /\ out.data = Upto(plain, maxDecompressed)
        /\ ~out.truncated => Len(plain) < maxDecompressed
    BY <1>1, <1>3, <1>8, <2>2, <2>3, DecodeLayerIs
  <2>5. IsSeq(plain) /\ Begins(plain, m.body) /\ (raw = wire => plain = m.body)
    <3>1. Len(raw) > 0
      BY <1>1, <1>2, <1>3
    <3> QED
      BY <1>1, <1>3, <2>2, <3>1, PlainIs
  <2> HIDE DEF plain, ended, layer
  <2>6. Len(plain) \in Nat
    BY <2>5 DEF IsSeq
  <2>7. /\ IsSeq(out.data) /\ Begins(out.data, plain)
        /\ Len(plain) <= maxDecompressed => out.data = plain
    BY <1>2, <2>4, <2>5, UptoIs
  <2>8. Begins(out.data, m.body)
    <3>1. ASSUME NEW i \in 1 .. Len(out.data) PROVE out.data[i] = m.body[i]
      <4>1. i \in 1 .. Len(plain)
        <5>1. Len(out.data) \in Nat
          BY <2>7 DEF IsSeq
        <5> QED
          BY <2>6, <2>7, <5>1 DEF Begins
      <4> QED
        BY <2>5, <2>7, <4>1 DEF Begins
    <3>2. Len(out.data) <= Len(m.body)
      <4>1. Len(out.data) \in Nat /\ Len(m.body) \in Nat
        BY <1>1, <2>7 DEF IsSeq
      <4> QED
        BY <2>5, <2>6, <2>7, <4>1 DEF Begins
    <3> QED
      BY <3>1, <3>2 DEF Begins
  <2>9. v.text = out.data /\ (v.truncated <=> out.truncated \/ sample.incomplete)
    BY <1>4, <1>5, <1>8
  <2> HIDE DEF out
  <2>10. ASSUME ~v.truncated PROVE v.text = m.body /\ m.arrived = Len(wire)
    <3>1. ~out.truncated /\ ~sample.incomplete
      BY <2>9, <2>10
    <3>2. plain = m.body /\ m.arrived = Len(wire)
      BY <1>3, <2>5, <3>1
    <3>3. Len(plain) <= maxDecompressed
      BY <1>2, <2>4, <2>6, <3>1
    <3> QED
      BY <2>7, <2>9, <3>2, <3>3
  <2> QED
    BY <1>4, <2>8, <2>9, <2>10 DEF v, wire
<1> QED
  BY <1>6, <1>7, <1>8

\* Which makes what is displayed of any message honest.
LEMMA TextStaysHonest ==
  ASSUME NEW m, IsMessage(m), NEW recording
  PROVE  TextIsHonest(m, recording)
<1> DEFINE v     == captureBody(m, recording)
           shown == truncateForDisplay(v)
<1> SUFFICES ASSUME m.type = "text", shown # Placeholder, m.arrived > 0, Len(m.layers) <= 1
             PROVE  \/ shown = m.body /\ m.arrived = Len(Wire(m))
                    \/ /\ shown # <<>> /\ Last(shown) = Marker
                       /\ IsPrefix(Front(shown), m.body)
  BY DEF TextIsHonest
<1>1. IsSeq(m.body) /\ Len(m.body) \in Nat
  BY MessageIs DEF IsSeq
<1>2. /\ IsSeq(v.text) /\ v.truncated \in BOOLEAN
      /\ \/ v.text = Placeholder /\ ~v.truncated
         \/ /\ Begins(v.text, m.body)
            /\ ~v.truncated => v.text = m.body /\ m.arrived = Len(Wire(m))
  BY TextIs
<1>3. \/ Len(v.text) <= displayMaxBody /\ ~v.truncated /\ shown = v.text
      \/ /\ shown # <<>> /\ Last(shown) = Marker
         /\ IsSeq(Front(shown)) /\ Begins(Front(shown), v.text)
  BY <1>2, DisplayIs
<1>4. ASSUME v.text = Placeholder, ~v.truncated PROVE shown = Placeholder
  <2>1. Len(v.text) = 1
    BY <1>4, SingletonIs DEF Placeholder
  <2>2. Len(v.text) <= displayMaxBody
    BY <2>1, LimitIs
  <2> QED
    BY <1>4, <2>2 DEF truncateForDisplay
<1> HIDE DEF v, shown
<1>5. Begins(v.text, m.body) /\ (~v.truncated => v.text = m.body /\ m.arrived = Len(Wire(m)))
  BY <1>2, <1>4
<1>6. CASE ~v.truncated /\ shown = v.text
  BY <1>5, <1>6
<1>7. CASE shown # <<>> /\ Last(shown) = Marker /\ IsSeq(Front(shown)) /\ Begins(Front(shown), v.text)
  <2> DEFINE f == Front(shown)
  <2> HIDE DEF f
  <2>1. IsSeq(f) /\ Begins(f, v.text) /\ Len(f) \in Nat /\ Len(v.text) \in Nat
    BY <1>2, <1>7 DEF IsSeq, f
  <2>2. Begins(f, m.body)
    <3>1. ASSUME NEW i \in 1 .. Len(f) PROVE f[i] = m.body[i]
      <4>1. i \in 1 .. Len(v.text)
        BY <2>1 DEF Begins
      <4> QED
        BY <1>5, <2>1, <4>1 DEF Begins
    <3> QED
      BY <1>1, <1>5, <2>1, <3>1 DEF Begins
  <2>3. IsPrefix(f, m.body)
    BY <1>1, <2>1, <2>2, PrefixBegins
  <2> QED
    BY <1>7, <2>3 DEF f
<1> QED
  BY <1>3, <1>6, <1>7

-----------------------------------------------------------------------------
(* Messages of gRPC *)

\* The counts of no bytes,
NoMessages == [msgs |-> 0, payload |-> 0, partial |-> FALSE]

\* of a cut header,
HalfAHeader == [msgs |-> 0, payload |-> 0, partial |-> TRUE]

\* of a cut message of l bytes,
CutMessage(l) == [msgs |-> 1, payload |-> l, partial |-> TRUE]

\* and of one more message.
OneMore(l, r) == [msgs |-> r.msgs + 1, payload |-> r.payload + l, partial |-> r.partial]

\* The length that a message at k says it has.
LengthAt(raw, k) == raw[k + 1][2]

\* The counts from k on, where r is that of the messages behind the first.
MessagesNext(raw, k, r) ==
  IF k > Len(raw) THEN NoMessages
  ELSE IF k = Len(raw) THEN HalfAHeader
  ELSE IF LengthAt(raw, k) \in 0 .. Len(raw) - k - 1
         THEN OneMore(LengthAt(raw, k), r)
         ELSE CutMessage(LengthAt(raw, k))

\* f is the counts from each of the places j, j + 1, ...
CountsDownTo(f, raw, j) ==
  f = [k \in j .. Len(raw) + 1 |-> MessagesNext(raw, k, f[k + LengthAt(raw, k) + 2])]

\* The counts from a place on depend on those from later places only.
LEMMA NextLooksAhead ==
  ASSUME NEW raw, Len(raw) \in Nat, NEW j \in Nat, NEW k \in j .. Len(raw) + 1, NEW f, NEW g,
         \A i \in k + 1 .. Len(raw) + 1 : f[i] = g[i]
  PROVE  MessagesNext(raw, k, f[k + LengthAt(raw, k) + 2])
           = MessagesNext(raw, k, g[k + LengthAt(raw, k) + 2])
<1> DEFINE l == LengthAt(raw, k)
<1> HIDE DEF l
<1>1. CASE k < Len(raw) /\ l \in 0 .. Len(raw) - k - 1
  <2>1. k + l + 2 \in k + 1 .. Len(raw) + 1
    BY <1>1
  <2>2. f[k + l + 2] = g[k + l + 2]
    BY <2>1
  <2> QED
    BY <2>2 DEF l
<1>2. CASE ~(k < Len(raw) /\ l \in 0 .. Len(raw) - k - 1)
  <2>1. k > Len(raw) \/ k = Len(raw) \/ (k < Len(raw) /\ ~(l \in 0 .. Len(raw) - k - 1))
    BY <1>2
  <2> QED
    BY <2>1 DEF MessagesNext, l
<1> QED
  BY <1>1, <1>2

\* So there are such counts: the greatest j without would have some.
LEMMA MessagesExist ==
  ASSUME NEW raw, Len(raw) \in Nat, NEW j \in 0 .. Len(raw)
  PROVE  \E f : CountsDownTo(f, raw, j + 1)
<1> DEFINE Exists(i) == \E f : CountsDownTo(f, raw, i + 1)
           Missing == {i \in 0 .. Len(raw) : ~Exists(i)}
<1> SUFFICES ASSUME ~Exists(j) PROVE FALSE
  OBVIOUS
<1>1. PICK i \in Missing : \A x \in Missing : x <= i
  <2>1. Missing \in SUBSET (0 .. Len(raw)) /\ j \in Missing
    OBVIOUS
  <2> HIDE DEF Missing
  <2> QED
    BY <2>1, GreatestElement
<1>2. i \in 0 .. Len(raw) /\ ~Exists(i)
  OBVIOUS
<1>3. CASE i = Len(raw)
  <2> DEFINE f == [k \in i + 1 .. Len(raw) + 1 |-> NoMessages]
  <2>1. ASSUME NEW k \in i + 1 .. Len(raw) + 1, NEW r PROVE MessagesNext(raw, k, r) = NoMessages
    <3>1. k > Len(raw)
      BY <1>3
    <3> QED
      BY <3>1 DEF MessagesNext
  <2>2. f = [k \in i + 1 .. Len(raw) + 1 |-> MessagesNext(raw, k, f[k + LengthAt(raw, k) + 2])]
    <3> HIDE DEF NoMessages
    <3> QED
      BY <2>1
  <2> HIDE DEF f
  <2>3. CountsDownTo(f, raw, i + 1)
    BY <2>2 DEF CountsDownTo
  <2> QED
    BY <1>2, <2>3
<1>4. CASE i # Len(raw)
  <2>1. i + 1 \in 0 .. Len(raw) /\ ~(i + 1 <= i) /\ (i + 1) + 1 = i + 2
    BY <1>2, <1>4
  <2>2. Exists(i + 1)
    <3> HIDE DEF Exists
    <3> QED
      BY <1>1, <2>1
  <2>3. PICK f : CountsDownTo(f, raw, i + 2)
    BY <2>1, <2>2
  <2> DEFINE g == [k \in i + 1 .. Len(raw) + 1 |-> MessagesNext(raw, k, f[k + LengthAt(raw, k) + 2])]
  <2>4. ASSUME NEW k \in i + 2 .. Len(raw) + 1 PROVE g[k] = f[k]
    <3>1. k \in i + 1 .. Len(raw) + 1
      BY <1>2
    <3>2. f[k] = MessagesNext(raw, k, f[k + LengthAt(raw, k) + 2])
      BY <2>3 DEF CountsDownTo
    <3> QED
      BY <3>1, <3>2
  <2>5. ASSUME NEW k \in i + 1 .. Len(raw) + 1
        PROVE g[k] = MessagesNext(raw, k, g[k + LengthAt(raw, k) + 2])
    <3>1. g[k] = MessagesNext(raw, k, f[k + LengthAt(raw, k) + 2])
      OBVIOUS
    <3> HIDE DEF g
    <3>2. i + 1 \in Nat /\ \A x \in k + 1 .. Len(raw) + 1 : f[x] = g[x]
      BY <1>2, <2>4
    <3>3. MessagesNext(raw, k, f[k + LengthAt(raw, k) + 2])
            = MessagesNext(raw, k, g[k + LengthAt(raw, k) + 2])
      BY <3>2, NextLooksAhead
    <3> QED
      BY <3>1, <3>3
  <2>6. g = [k \in i + 1 .. Len(raw) + 1 |-> g[k]]
    OBVIOUS
  <2> HIDE DEF g
  <2>7. g = [k \in i + 1 .. Len(raw) + 1 |-> MessagesNext(raw, k, g[k + LengthAt(raw, k) + 2])]
    BY <2>5, <2>6
  <2>8. CountsDownTo(g, raw, i + 1)
    BY <2>7 DEF CountsDownTo
  <2> QED
    BY <1>2, <2>8
<1> QED
  BY <1>3, <1>4

\* MessagesFrom satisfies its equation.
LEMMA MessagesFromIs ==
  ASSUME NEW raw, Len(raw) \in Nat, NEW k \in 1 .. Len(raw) + 1
  PROVE  MessagesFrom(raw)[k] = MessagesNext(raw, k, MessagesFrom(raw)[k + LengthAt(raw, k) + 2])
<1> DEFINE e == MessagesFrom(raw)
<1>1. \E f : CountsDownTo(f, raw, 1)
  <2>1. 0 \in 0 .. Len(raw) /\ 0 + 1 = 1
    OBVIOUS
  <2> QED
    BY <2>1, MessagesExist
<1>2. CountsDownTo(e, raw, 1)
  BY <1>1 DEF MessagesFrom, CountsDownTo, MessagesNext, LengthAt, NoMessages, HalfAHeader, CutMessage, OneMore
<1> HIDE DEF e
<1>3. e[k] = MessagesNext(raw, k, e[k + LengthAt(raw, k) + 2])
  BY <1>2 DEF CountsDownTo
<1> QED
  BY <1>3 DEF e

\* starts are the places where messages start (IsFramed).
FramedBy(s, starts) ==
  /\ 1 \in starts
  /\ \A k \in starts : k < Len(s) =>
       /\ LengthAt(s, k) \in Nat
       /\ k + LengthAt(s, k) + 1 <= Len(s) => k + LengthAt(s, k) + 2 \in starts

\* The counts of messages and payload are numbers.
IsCount(r) == r = [msgs |-> r.msgs, payload |-> r.payload, partial |-> r.partial]
              /\ r.msgs \in Nat /\ r.payload \in Nat

\* Each way to count gives numbers.
LEMMA CountsAre ==
  /\ IsCount(NoMessages) /\ NoMessages.msgs = 0 /\ NoMessages.payload = 0
  /\ IsCount(HalfAHeader) /\ HalfAHeader.msgs = 0 /\ HalfAHeader.payload = 0
  /\ \A l \in Nat : /\ IsCount(CutMessage(l))
                    /\ CutMessage(l).msgs = 1 /\ CutMessage(l).payload = l
                    /\ \A r : IsCount(r) => /\ IsCount(OneMore(l, r))
                                            /\ OneMore(l, r).msgs = r.msgs + 1
                                            /\ OneMore(l, r).payload = r.payload + l
<1>1. IsCount(NoMessages) /\ NoMessages.msgs = 0 /\ NoMessages.payload = 0
  BY DEF IsCount, NoMessages
<1>2. IsCount(HalfAHeader) /\ HalfAHeader.msgs = 0 /\ HalfAHeader.payload = 0
  BY DEF IsCount, HalfAHeader
<1>3. ASSUME NEW l \in Nat
      PROVE  IsCount(CutMessage(l)) /\ CutMessage(l).msgs = 1 /\ CutMessage(l).payload = l
  BY DEF IsCount, CutMessage
<1>4. ASSUME NEW l \in Nat, NEW r, IsCount(r)
      PROVE  IsCount(OneMore(l, r)) /\ OneMore(l, r).msgs = r.msgs + 1 /\ OneMore(l, r).payload = r.payload + l
  <2>1. r.msgs \in Nat /\ r.payload \in Nat
    BY <1>4 DEF IsCount
  <2>2. /\ OneMore(l, r).msgs = r.msgs + 1 /\ OneMore(l, r).payload = r.payload + l
        /\ OneMore(l, r).partial = r.partial
    BY DEF OneMore
  <2>3. OneMore(l, r) = [msgs |-> OneMore(l, r).msgs, payload |-> OneMore(l, r).payload,
                         partial |-> OneMore(l, r).partial]
    BY <2>2 DEF OneMore
  <2> QED
    BY <2>1, <2>2, <2>3 DEF IsCount
<1> QED
  BY <1>1, <1>2, <1>3, <1>4

\* So wherever a message starts.
LEMMA MessagesAreCounts ==
  ASSUME NEW s, Len(s) \in Nat, NEW starts, FramedBy(s, starts), NEW k \in starts, k \in 1 .. Len(s) + 1
  PROVE  IsCount(MessagesFrom(s)[k])
<1> DEFINE f == MessagesFrom(s)
           Broken == {i \in 1 .. Len(s) + 1 : i \in starts /\ ~IsCount(f[i])}
<1> SUFFICES ASSUME Broken # {} PROVE FALSE
  OBVIOUS
<1>1. PICK i \in Broken : \A x \in Broken : x <= i
  <2>1. Broken \in SUBSET (0 .. Len(s) + 1) /\ Len(s) + 1 \in Nat
    OBVIOUS
  <2> HIDE DEF Broken
  <2> QED
    BY <2>1, GreatestElement
<1>2. i \in 1 .. Len(s) + 1 /\ i \in starts /\ ~IsCount(f[i])
  OBVIOUS
<1> DEFINE l == LengthAt(s, i)
<1>3. f[i] = MessagesNext(s, i, f[i + l + 2])
  BY <1>2, MessagesFromIs
<1> HIDE DEF l, f
<1>4. CASE i > Len(s)
  BY <1>2, <1>3, <1>4, CountsAre DEF MessagesNext
<1>5. CASE i = Len(s)
  BY <1>2, <1>3, <1>5, CountsAre DEF MessagesNext
<1>6. CASE i < Len(s)
  <2>1. l \in Nat /\ (i + l + 1 <= Len(s) => i + l + 2 \in starts)
    BY <1>2, <1>6 DEF FramedBy, l
  <2>2. ~(i > Len(s)) /\ ~(i = Len(s))
    BY <1>2, <1>6
  <2>3. CASE l \in 0 .. Len(s) - i - 1
    <3>1. i + l + 2 \in 1 .. Len(s) + 1 /\ i + l + 2 \in starts /\ ~(i + l + 2 <= i)
      BY <1>2, <2>1, <2>3
    <3>2. IsCount(f[i + l + 2])
      BY <1>1, <3>1
    <3>3. f[i] = OneMore(l, f[i + l + 2])
      BY <1>3, <2>2, <2>3 DEF MessagesNext, l
    <3> QED
      BY <1>2, <2>1, <3>2, <3>3, CountsAre
  <2>4. CASE ~(l \in 0 .. Len(s) - i - 1)
    <3>1. f[i] = CutMessage(l)
      BY <1>3, <2>2, <2>4 DEF MessagesNext, l
    <3> QED
      BY <1>2, <2>1, <3>1, CountsAre
  <2> QED
    BY <2>3, <2>4
<1> QED
  BY <1>2, <1>4, <1>5, <1>6

\* A beginning of a framed body is framed.
LEMMA PrefixIsFramed ==
  ASSUME NEW s, Len(s) \in Nat, NEW t, Len(t) \in Nat, Begins(s, t), NEW starts, FramedBy(t, starts)
  PROVE  FramedBy(s, starts \cap (1 .. Len(s) + 1))
<1> DEFINE here == starts \cap (1 .. Len(s) + 1)
<1>1. 1 \in here
  BY DEF FramedBy
<1>2. ASSUME NEW k \in here, k < Len(s)
      PROVE  /\ LengthAt(s, k) \in Nat
             /\ k + LengthAt(s, k) + 1 <= Len(s) => k + LengthAt(s, k) + 2 \in here
  <2>1. k + 1 \in 1 .. Len(s) /\ k \in Nat
    BY <1>2
  <2>2. s[k + 1] = t[k + 1] /\ Len(s) <= Len(t)
    BY <2>1 DEF Begins
  <2>3. LengthAt(s, k) = LengthAt(t, k)
    BY <2>2 DEF LengthAt
  <2> DEFINE l == LengthAt(s, k)
  <2>4. l \in Nat /\ (k + l + 1 <= Len(t) => k + l + 2 \in starts)
    <3>1. k \in starts /\ k < Len(t)
      BY <1>2, <2>1, <2>2
    <3> QED
      BY <2>3, <3>1 DEF FramedBy
  <2> HIDE DEF l
  <2>5. k + l + 1 <= Len(s) => k + l + 2 \in here
    BY <2>1, <2>2, <2>4
  <2> QED
    BY <2>4, <2>5 DEF l
<1> QED
  BY <1>1, <1>2 DEF FramedBy

\* A beginning of a framed body has no more messages than the body, nor more payload: where
\* it is cut, the body goes on.
LEMMA PrefixHasFewer ==
  ASSUME NEW s, Len(s) \in Nat, NEW t, Len(t) \in Nat, Begins(s, t), NEW starts, FramedBy(t, starts),
         NEW k \in starts, k \in 1 .. Len(s) + 1
  PROVE  /\ MessagesFrom(s)[k].msgs <= MessagesFrom(t)[k].msgs
         /\ MessagesFrom(s)[k].payload <= MessagesFrom(t)[k].payload
<1> DEFINE f == MessagesFrom(s)
           g == MessagesFrom(t)
           Less(i) == f[i].msgs <= g[i].msgs /\ f[i].payload <= g[i].payload
           Broken == {i \in 1 .. Len(s) + 1 : i \in starts /\ ~Less(i)}
<1> SUFFICES ASSUME Broken # {} PROVE FALSE
  OBVIOUS
<1>1. PICK i \in Broken : \A x \in Broken : x <= i
  <2>1. Broken \in SUBSET (0 .. Len(s) + 1) /\ Len(s) + 1 \in Nat
    OBVIOUS
  <2> HIDE DEF Broken
  <2> QED
    BY <2>1, GreatestElement
<1>2. i \in 1 .. Len(s) + 1 /\ i \in starts /\ ~Less(i) /\ i \in 1 .. Len(t) + 1
  BY DEF Begins
<1>3. \A x \in starts : x \in 1 .. Len(s) + 1 /\ x > i => Less(x)
  <2> SUFFICES ASSUME NEW x \in starts, x \in 1 .. Len(s) + 1, x > i, ~Less(x) PROVE FALSE
    OBVIOUS
  <2>1. x \in Broken
    OBVIOUS
  <2>2. x <= i
    BY <1>1, <2>1
  <2> QED
    BY <1>2, <2>2
<1> DEFINE l == LengthAt(s, i)
<1>4. f[i] = MessagesNext(s, i, f[i + l + 2])
  BY <1>2, MessagesFromIs
<1>5. g[i] = MessagesNext(t, i, g[i + LengthAt(t, i) + 2])
  BY <1>2, MessagesFromIs
<1>6. \A x \in starts : /\ x \in 1 .. Len(s) + 1 => IsCount(f[x])
                        /\ x \in 1 .. Len(t) + 1 => IsCount(g[x])
  <2> DEFINE here == starts \cap (1 .. Len(s) + 1)
  <2>1. FramedBy(s, here)
    BY PrefixIsFramed
  <2>2. ASSUME NEW x \in starts, x \in 1 .. Len(s) + 1 PROVE IsCount(f[x])
    <3>1. x \in here
      BY <2>2
    <3> QED
      BY <2>1, <2>2, <3>1, MessagesAreCounts
  <2>3. ASSUME NEW x \in starts, x \in 1 .. Len(t) + 1 PROVE IsCount(g[x])
    BY <2>3, MessagesAreCounts
  <2> QED
    BY <2>2, <2>3
<1>7. IsCount(g[i])
  BY <1>2, <1>6
<1>8. g[i].msgs \in Nat /\ g[i].payload \in Nat
  BY <1>7 DEF IsCount
<1> HIDE DEF l, f, g
<1>9. CASE i >= Len(s)
  <2>1. f[i] = NoMessages \/ f[i] = HalfAHeader
    BY <1>2, <1>4, <1>9 DEF MessagesNext
  <2>2. f[i].msgs = 0 /\ f[i].payload = 0
    BY <2>1, CountsAre
  <2> QED
    BY <1>2, <1>8, <2>2
<1>10. CASE i < Len(s)
  <2>1. LengthAt(t, i) = l
    <3>1. i + 1 \in 1 .. Len(s)
      BY <1>2, <1>10
    <3>2. s[i + 1] = t[i + 1]
      BY <3>1 DEF Begins
    <3> QED
      BY <3>2 DEF LengthAt, l
  <2>2. i < Len(t) /\ Len(s) <= Len(t)
    BY <1>2, <1>10 DEF Begins
  <2>3. l \in Nat /\ (i + l + 1 <= Len(t) => i + l + 2 \in starts)
    BY <1>2, <2>1, <2>2 DEF FramedBy
  <2>4. ~(i > Len(s)) /\ ~(i = Len(s)) /\ ~(i > Len(t)) /\ ~(i = Len(t))
    BY <1>2, <1>10, <2>2
  <2>5. CASE l \in 0 .. Len(s) - i - 1
    <3> DEFINE j == i + l + 2
    <3>1. j \in 1 .. Len(s) + 1 /\ j \in starts /\ j > i
          /\ j \in 1 .. Len(t) + 1 /\ l \in 0 .. Len(t) - i - 1
      BY <1>2, <2>2, <2>3, <2>5
    <3>2. f[i] = OneMore(l, f[j])
      BY <1>4, <2>4, <2>5 DEF MessagesNext, l
    <3>3. g[i] = OneMore(l, g[j])
      BY <1>5, <2>1, <2>4, <3>1 DEF MessagesNext
    <3> HIDE DEF j
    <3>4. Less(j) /\ IsCount(f[j]) /\ IsCount(g[j])
      <4> HIDE DEF Less
      <4> QED
        BY <1>3, <1>6, <3>1
    <3>5. /\ f[i].msgs = f[j].msgs + 1 /\ f[i].payload = f[j].payload + l
          /\ g[i].msgs = g[j].msgs + 1 /\ g[i].payload = g[j].payload + l
      BY <2>3, <3>2, <3>3, <3>4, CountsAre
    <3>6. /\ f[j].msgs \in Nat /\ f[j].payload \in Nat
          /\ g[j].msgs \in Nat /\ g[j].payload \in Nat
      BY <3>4 DEF IsCount
    <3>7. \A a, b, c \in Nat : a <= b => a + c <= b + c
      OBVIOUS
    <3>8. f[i].msgs <= g[i].msgs
      BY <3>4, <3>5, <3>6, <3>7
    <3>9. f[i].payload <= g[i].payload
      BY <2>3, <3>4, <3>5, <3>6, <3>7
    <3> QED
      BY <1>2, <3>8, <3>9
  <2>6. CASE ~(l \in 0 .. Len(s) - i - 1)
    <3>1. f[i] = CutMessage(l)
      BY <1>4, <2>4, <2>6 DEF MessagesNext, l
    <3>2. f[i].msgs = 1 /\ f[i].payload = l
      BY <2>3, <3>1, CountsAre
    <3>3. CASE l \in 0 .. Len(t) - i - 1
      <4> DEFINE j == i + l + 2
      <4>1. j \in 1 .. Len(t) + 1 /\ j \in starts
        BY <1>2, <2>2, <2>3, <3>3
      <4>2. g[i] = OneMore(l, g[j])
        BY <1>5, <2>1, <2>4, <3>3 DEF MessagesNext
      <4> HIDE DEF j
      <4>3. IsCount(g[j])
        BY <1>6, <4>1
      <4>4. g[i].msgs = g[j].msgs + 1 /\ g[i].payload = g[j].payload + l
        BY <2>3, <4>2, <4>3, CountsAre
      <4>5. g[j].msgs \in Nat /\ g[j].payload \in Nat
        BY <4>3 DEF IsCount
      <4>6. \A a, b \in Nat : 1 <= a + 1 /\ b <= a + b
        OBVIOUS
      <4>7. f[i].msgs <= g[i].msgs
        BY <3>2, <4>4, <4>5, <4>6
      <4>8. f[i].payload <= g[i].payload
        BY <2>3, <3>2, <4>4, <4>5, <4>6
      <4> QED
        BY <1>2, <4>7, <4>8
    <3>4. CASE ~(l \in 0 .. Len(t) - i - 1)
      <4>1. g[i] = CutMessage(l)
        BY <1>5, <2>1, <2>4, <3>4 DEF MessagesNext
      <4>2. g[i].msgs = 1 /\ g[i].payload = l
        BY <2>3, <4>1, CountsAre
      <4> QED
        BY <1>2, <2>3, <3>2, <4>2
    <3> QED
      BY <3>3, <3>4
  <2> QED
    BY <2>5, <2>6
<1> QED
  BY <1>2, <1>9, <1>10

\* The counts of a gRPC body are its own, or less and marked so (grpc.go).
LEMMA SummaryStaysHonest ==
  ASSUME NEW m, IsMessage(m), NEW recording
  PROVE  SummaryIsHonest(m, recording)
<1> DEFINE v       == captureBody(m, recording)
           summary == v.text[1]
           all     == grpcMessages(m.body)
           limit   == captureLimitFor(m, recording)
           sample  == Sampled(m, limit)
           raw     == sample.raw
           seen    == grpcMessages(raw)
<1> SUFFICES ASSUME m.type = "grpc", m.layers = <<>>, m.arrived > 0
             PROVE  IF summary[4] THEN summary[2] <= all.msgs /\ summary[3] <= all.payload
                                  ELSE summary[2] = all.msgs /\ summary[3] = all.payload
  BY DEF SummaryIsHonest
<1>1. /\ IsSeq(m.body) /\ Wire(m) = m.body /\ m.arrived \in Nat
  BY MessageIs
<1>2. limit \in Nat /\ limit > 0
  BY LimitIs
<1>3. /\ IsSeq(raw) /\ Begins(raw, m.body)
      /\ Len(raw) = IF limit <= m.arrived THEN limit ELSE m.arrived
      /\ sample.incomplete \in BOOLEAN
      /\ ~sample.incomplete => raw = m.body
  BY <1>1, <1>2, SampledIs
<1>4. Len(raw) \in Nat /\ Len(m.body) \in Nat /\ Len(raw) > 0
  <2>1. Len(raw) \in Nat /\ Len(m.body) \in Nat
    BY <1>1, <1>3 DEF IsSeq
  <2> QED
    BY <1>1, <1>2, <1>3, <2>1
<1>5. raw # <<>>
  BY <1>3, <1>4, EmptyIs
<1>6. v.text = grpcSummary(raw, sample.incomplete)
  BY <1>5, CaptureIs
<1> HIDE DEF v, limit, sample, raw
<1>7. summary = <<"gRPC", seen.msgs, seen.payload, sample.incomplete \/ seen.partial>>
  BY <1>6 DEF grpcSummary
<1>8. PICK starts : FramedBy(m.body, starts)
  BY DEF IsMessage, IsFramed, FramedBy, LengthAt
<1>9. 1 \in starts /\ 1 \in 1 .. Len(raw) + 1 /\ 1 \in 1 .. Len(m.body) + 1
  BY <1>4, <1>8 DEF FramedBy
<1>10. seen.msgs <= all.msgs /\ seen.payload <= all.payload
  BY <1>3, <1>4, <1>8, <1>9, PrefixHasFewer DEF grpcMessages
<1> HIDE DEF seen, all, summary
<1>11. summary[2] = seen.msgs /\ summary[3] = seen.payload /\ (summary[4] <=> (sample.incomplete \/ seen.partial))
  BY <1>7
<1>12. ~summary[4] => seen = all
  BY <1>3, <1>11 DEF seen, all
<1> QED
  BY <1>10, <1>11, <1>12 DEF summary, all

-----------------------------------------------------------------------------
(* The replay *)

\* A request that is sent is of an exchange of the recording.
InFlight == pc \in {"send", "wait"} => original \in Exchanges

\* Its body is the one recorded.
SentIsRecorded == pc = "wait" => sent = writeRecord(original).reqBody

\* Nothing is decided until the end, nor anything met before the start.
Running == /\ pc # "done" => code = None /\ "unreadable" \notin met
           /\ pc = "open" => met = {}

\* errs counts the lines that could not be parsed.
ErrorsAreCounted == errs > 0 <=> "malformed" \in met

\* diffs counts nothing but differences,
DiffsAreReal == diffs > 0 => met \cap {"failed", "altered", "longer", "similar", "not in the recording"} # {}

\* and all of those that matter.
DiffsAreCounted == met \cap {"failed", "altered"} # {} => diffs > 0

\* The exit code goes by the counts (replayFile, record.go).
CodeIsRight ==
  /\ code = 0 => errs = 0 /\ "unreadable" \notin met /\ (failOnDiff => diffs = 0)
  /\ code = 1 => met \cap {"unreadable", "malformed"} # {}
  /\ code = 2 => failOnDiff /\ diffs > 0

\* The inductive invariant.
ReplayInv == /\ TypeOK /\ InFlight /\ SentIsRecorded /\ Running
             /\ ErrorsAreCounted /\ DiffsAreReal /\ DiffsAreCounted /\ CodeIsRight

\* What is counted as a difference agrees with the verdict of one who saw both responses
\* whole: a response that is altered is counted, and one that is unchanged is not.
LEMMA VerdictIs ==
  ASSUME NEW o \in Exchanges, NEW r \in Responses
  PROVE  LET ex      == writeRecord(o)
             differs == r.status # ex.status \/ ~BodyMatch(ex, r)
         IN /\ differs \in BOOLEAN
            /\ Verdict(o, r) \in {"unchanged", "not in the recording", "altered", "longer", "similar"}
            /\ Verdict(o, r) = "altered" => differs
            /\ differs => Verdict(o, r) # "unchanged"
<1>1. Verdict(o, r) \in {"unchanged", "not in the recording", "altered", "longer", "similar"}
  BY DEF Verdict
<1>2. Verdict(o, r) = "altered" => Altered(o, r) /\ ~GoesOn(o, r)
  BY DEF Verdict
<1>3. Verdict(o, r) = "unchanged" => Unchanged(o, r) /\ Recorded(o)
  BY DEF Verdict
<1> QED
  BY <1>1, <1>2, <1>3, AlteredDiffers, UnchangedMatches

\* Counters go up.
LEMMA OneMoreIs == \A i \in Nat : i + 0 = i /\ i + 1 \in Nat /\ i + 1 > 0
OBVIOUS

\* The invariant is kept when replayFile has counted an exchange.
LEMMA CountedKeeps ==
  ASSUME ReplayInv, pc \in {"send", "wait"}, NEW differs \in BOOLEAN,
         NEW what \in {"skipped", "failed", "unchanged", "not in the recording", "altered", "longer", "similar"},
         Counted(differs, what), skipped' \in Nat,
         differs => what \in {"failed", "altered", "longer", "similar", "not in the recording"},
         what \in {"failed", "altered"} => differs
  PROVE  ReplayInv'
<1>1. /\ pc' = "scan" /\ original' = None /\ n' = n + 1
      /\ diffs' = diffs + (IF differs THEN 1 ELSE 0)
      /\ met' = met \cup {what}
      /\ failOnDiff' = failOnDiff /\ errs' = errs /\ code' = code
  BY DEF Counted
<1>2. TypeOK /\ code = None /\ "unreadable" \notin met
  BY DEF ReplayInv, Running
<1>3. /\ diffs' \in Nat /\ n' \in Nat
      /\ differs => diffs' > 0
      /\ diffs > 0 => diffs' > 0
      /\ ~differs => diffs' = diffs
  <2>1. diffs \in Nat /\ n \in Nat
    BY <1>2 DEF TypeOK
  <2>2. n' \in Nat
    BY <1>1, <2>1, OneMoreIs, Zenon
  <2>3. CASE differs
    <3>1. diffs' = diffs + 1
      BY <1>1, <2>3
    <3>2. diffs' \in Nat /\ diffs' > 0
      BY <2>1, <3>1, OneMoreIs, Zenon
    <3> QED
      BY <2>2, <2>3, <3>2
  <2>4. CASE ~differs
    <3>1. (IF differs THEN 1 ELSE 0) = 0
      BY <2>4
    <3>2. diffs' = diffs + 0
      BY <1>1, <3>1, Zenon
    <3>3. diffs' = diffs
      BY <2>1, <3>2, OneMoreIs, Zenon
    <3> QED
      BY <2>1, <2>2, <2>4, <3>3
  <2> QED
    BY <2>3, <2>4
<1>4. TypeOK'
  BY <1>1, <1>2, <1>3 DEF TypeOK
<1>5. (InFlight /\ SentIsRecorded /\ Running)'
  BY <1>1, <1>2 DEF InFlight, SentIsRecorded, Running
<1>6. ErrorsAreCounted'
  BY <1>1 DEF ReplayInv, ErrorsAreCounted
<1>7. DiffsAreReal'
  <2>1. CASE diffs > 0
    BY <1>1, <2>1 DEF ReplayInv, DiffsAreReal
  <2>2. CASE differs
    BY <1>1, <2>2 DEF DiffsAreReal
  <2> QED
    BY <1>3, <2>1, <2>2 DEF DiffsAreReal
<1>8. DiffsAreCounted'
  <2>1. met' \cap {"failed", "altered"} # {} => met \cap {"failed", "altered"} # {} \/ what \in {"failed", "altered"}
    BY <1>1
  <2> QED
    BY <1>3, <2>1 DEF ReplayInv, DiffsAreCounted
<1>9. CodeIsRight'
  BY <1>1, <1>2, NoneAssumption DEF CodeIsRight
<1> QED
  BY <1>4, <1>5, <1>6, <1>7, <1>8, <1>9 DEF ReplayInv

\* It holds at first,
LEMMA InitKeeps == Init => ReplayInv
<1> SUFFICES ASSUME Init PROVE ReplayInv
  OBVIOUS
<1>1. TypeOK
  BY DEF Init, TypeOK
<1>2. InFlight /\ SentIsRecorded /\ Running
  BY DEF Init, InFlight, SentIsRecorded, Running
<1>3. ErrorsAreCounted /\ DiffsAreReal /\ DiffsAreCounted
  BY DEF Init, ErrorsAreCounted, DiffsAreReal, DiffsAreCounted
<1>4. CodeIsRight
  BY NoneAssumption DEF Init, CodeIsRight
<1> QED
  BY <1>1, <1>2, <1>3, <1>4 DEF ReplayInv

\* and every step of a replay keeps it.
LEMMA StepKeeps == ReplayInv /\ [Next]_vars => ReplayInv'
<1> SUFFICES ASSUME ReplayInv, [Next]_vars PROVE ReplayInv'
  OBVIOUS
<1>0. TypeOK
  BY DEF ReplayInv
<1>1. CASE Open
  <2>1. /\ pc = "open" /\ pc' = "scan"
        /\ UNCHANGED <<failOnDiff, original, sent, n, errs, diffs, skipped, code, met>>
    BY <1>1 DEF Open, counters
  <2>2. TypeOK'
    BY <1>0, <2>1 DEF TypeOK
  <2>3. (InFlight /\ SentIsRecorded /\ Running)'
    BY <2>1 DEF ReplayInv, InFlight, SentIsRecorded, Running
  <2>4. (ErrorsAreCounted /\ DiffsAreReal /\ DiffsAreCounted /\ CodeIsRight)'
    BY <2>1 DEF ReplayInv, ErrorsAreCounted, DiffsAreReal, DiffsAreCounted, CodeIsRight
  <2> QED
    BY <2>2, <2>3, <2>4 DEF ReplayInv
<1>2. CASE OpenFails
  <2>1. /\ pc = "open" /\ pc' = "done" /\ code' = 1 /\ original' = None /\ met' = {"unreadable"}
        /\ UNCHANGED <<failOnDiff, sent, n, errs, diffs, skipped>>
    BY <1>2 DEF OpenFails, Done, counters
  <2>2. TypeOK'
    BY <1>0, <2>1 DEF TypeOK
  <2>3. (InFlight /\ SentIsRecorded /\ Running)'
    BY <2>1 DEF InFlight, SentIsRecorded, Running
  <2>4. met = {}
    BY <2>1 DEF ReplayInv, Running
  <2>5. (ErrorsAreCounted /\ DiffsAreReal /\ DiffsAreCounted)'
    BY <2>1, <2>4 DEF ReplayInv, ErrorsAreCounted, DiffsAreReal, DiffsAreCounted
  <2>6. CodeIsRight'
    BY <2>1 DEF CodeIsRight
  <2> QED
    BY <2>2, <2>3, <2>5, <2>6 DEF ReplayInv
<1>3. CASE MalformedLine
  <2>1. /\ pc = "scan" /\ errs' = errs + 1 /\ met' = met \cup {"malformed"}
        /\ UNCHANGED <<pc, failOnDiff, original, sent, n, diffs, skipped, code>>
    BY <1>3 DEF MalformedLine, MoreLines
  <2>4. errs' \in Nat /\ errs' > 0
    <3>1. errs \in Nat
      BY <1>0 DEF TypeOK
    <3> QED
      BY <2>1, <3>1
  <2>2. TypeOK'
    BY <1>0, <2>1, <2>4 DEF TypeOK
  <2>3. (InFlight /\ SentIsRecorded /\ Running)'
    BY <2>1 DEF ReplayInv, InFlight, SentIsRecorded, Running
  <2>5. (ErrorsAreCounted /\ DiffsAreReal /\ DiffsAreCounted)'
    BY <2>1, <2>4 DEF ReplayInv, ErrorsAreCounted, DiffsAreReal, DiffsAreCounted
  <2>6. CodeIsRight'
    <3>1. code' = None
      BY <2>1 DEF ReplayInv, Running
    <3> QED
      BY <3>1, NoneAssumption DEF CodeIsRight
  <2> QED
    BY <2>2, <2>3, <2>5, <2>6 DEF ReplayInv
<1>4. CASE ScanFails
  <2>1. /\ pc = "scan" /\ pc' = "done" /\ code' = 1 /\ original' = None
        /\ met' = met \cup {"unreadable"}
        /\ UNCHANGED <<failOnDiff, sent, n, errs, diffs, skipped>>
    BY <1>4 DEF ScanFails, Done, counters
  <2>2. TypeOK'
    BY <1>0, <2>1 DEF TypeOK
  <2>3. (InFlight /\ SentIsRecorded /\ Running)'
    BY <2>1 DEF InFlight, SentIsRecorded, Running
  <2>4. (ErrorsAreCounted /\ DiffsAreReal /\ DiffsAreCounted)'
    BY <2>1 DEF ReplayInv, ErrorsAreCounted, DiffsAreReal, DiffsAreCounted
  <2>5. CodeIsRight'
    BY <2>1 DEF CodeIsRight
  <2> QED
    BY <2>2, <2>3, <2>4, <2>5 DEF ReplayInv
<1>5. CASE EndOfFile
  <2>1. /\ pc = "scan" /\ pc' = "done" /\ original' = None
        /\ code' = IF errs > 0 THEN 1 ELSE IF failOnDiff /\ diffs > 0 THEN 2 ELSE 0
        /\ UNCHANGED <<failOnDiff, sent, n, errs, diffs, skipped, met>>
    BY <1>5 DEF EndOfFile, Done, counters
  <2>2. TypeOK'
    BY <1>0, <2>1 DEF TypeOK
  <2>3. (InFlight /\ SentIsRecorded /\ Running)'
    BY <2>1 DEF InFlight, SentIsRecorded, Running
  <2>4. (ErrorsAreCounted /\ DiffsAreReal /\ DiffsAreCounted)'
    BY <2>1 DEF ReplayInv, ErrorsAreCounted, DiffsAreReal, DiffsAreCounted
  <2>5. CodeIsRight'
    <3>1. "unreadable" \notin met /\ (errs > 0 => "malformed" \in met)
      BY <2>1 DEF ReplayInv, Running, ErrorsAreCounted
    <3>2. errs \in Nat /\ diffs \in Nat /\ failOnDiff \in BOOLEAN
      BY <1>0 DEF TypeOK
    <3>3. /\ code' = 0 => ~(errs > 0) /\ ~(failOnDiff /\ diffs > 0)
          /\ code' = 1 => errs > 0
          /\ code' = 2 => failOnDiff /\ diffs > 0
      BY <2>1
    <3>4. code' = 0 => errs' = 0 /\ (failOnDiff' => diffs' = 0)
      BY <2>1, <3>2, <3>3
    <3>5. code' = 1 => met' \cap {"unreadable", "malformed"} # {}
      BY <2>1, <3>1, <3>3
    <3> QED
      BY <2>1, <3>1, <3>3, <3>4, <3>5 DEF CodeIsRight
  <2> QED
    BY <2>2, <2>3, <2>4, <2>5 DEF ReplayInv
<1>6. ASSUME NEW o \in Exchanges, ReadLine(o) PROVE ReplayInv'
  <2>1. /\ pc = "scan" /\ pc' = "send" /\ original' = o
        /\ UNCHANGED <<failOnDiff, sent, n, errs, diffs, skipped, code, met>>
    BY <1>6 DEF ReadLine, MoreLines, counters
  <2>2. TypeOK'
    BY <1>0, <2>1 DEF TypeOK
  <2>3. (InFlight /\ SentIsRecorded /\ Running)'
    BY <2>1 DEF ReplayInv, InFlight, SentIsRecorded, Running
  <2>4. (ErrorsAreCounted /\ DiffsAreReal /\ DiffsAreCounted /\ CodeIsRight)'
    BY <2>1 DEF ReplayInv, ErrorsAreCounted, DiffsAreReal, DiffsAreCounted, CodeIsRight
  <2> QED
    BY <2>2, <2>3, <2>4 DEF ReplayInv
<1>7. CASE SkipGRPC
  <2>1. pc = "send" /\ Counted(FALSE, "skipped") /\ skipped' \in Nat
    <3>1. skipped \in Nat
      BY <1>0 DEF TypeOK
    <3>2. skipped' = skipped + 1
      BY <1>7 DEF SkipGRPC
    <3>3. skipped' \in Nat
      BY <3>1, <3>2
    <3> QED
      BY <1>7, <3>3, Zenon DEF SkipGRPC
  <2> QED
    BY <2>1, CountedKeeps
<1>8. CASE NewRequestFails
  <2>1. pc = "send" /\ Counted(TRUE, "failed") /\ skipped' \in Nat
    BY <1>0, <1>8 DEF NewRequestFails, TypeOK
  <2> QED
    BY <2>1, CountedKeeps
<1>9. CASE Do
  <2>1. /\ pc = "send" /\ pc' = "wait" /\ sent' = writeRecord(original).reqBody /\ original' = original
        /\ UNCHANGED <<failOnDiff, n, errs, diffs, skipped, code, met>>
    BY <1>9 DEF Do, counters
  <2>2. TypeOK'
    BY <1>0, <2>1 DEF TypeOK
  <2>3. (InFlight /\ SentIsRecorded /\ Running)'
    BY <2>1 DEF ReplayInv, InFlight, SentIsRecorded, Running
  <2>4. (ErrorsAreCounted /\ DiffsAreReal /\ DiffsAreCounted /\ CodeIsRight)'
    BY <2>1 DEF ReplayInv, ErrorsAreCounted, DiffsAreReal, DiffsAreCounted, CodeIsRight
  <2> QED
    BY <2>2, <2>3, <2>4 DEF ReplayInv
<1>10. CASE DoFails
  <2>1. pc = "wait" /\ Counted(TRUE, "failed") /\ skipped' \in Nat
    BY <1>0, <1>10 DEF DoFails, TypeOK
  <2> QED
    BY <2>1, CountedKeeps
<1>11. ASSUME NEW r \in Responses, Answered(r) PROVE ReplayInv'
  <2> DEFINE ex      == writeRecord(original)
             differs == r.status # ex.status \/ ~BodyMatch(ex, r)
             what    == Verdict(original, r)
  <2>1. pc = "wait" /\ Counted(differs, what) /\ skipped' \in Nat
    BY <1>0, <1>11 DEF Answered, TypeOK
  <2>2. original \in Exchanges
    BY <2>1 DEF ReplayInv, InFlight
  <2>3. /\ differs \in BOOLEAN
        /\ what \in {"unchanged", "not in the recording", "altered", "longer", "similar"}
        /\ what = "altered" => differs
        /\ differs => what # "unchanged"
    BY <2>2, VerdictIs
  <2> HIDE DEF differs, what, ex
  <2> QED
    BY <2>1, <2>3, CountedKeeps
<1>12. CASE UNCHANGED vars
  <2>1. UNCHANGED <<pc, failOnDiff, original, sent, n, errs, diffs, skipped, code, met>>
    BY <1>12 DEF vars
  <2>2. TypeOK'
    BY <1>0, <2>1 DEF TypeOK
  <2>3. (InFlight /\ SentIsRecorded /\ Running)'
    BY <2>1 DEF ReplayInv, InFlight, SentIsRecorded, Running
  <2>4. (ErrorsAreCounted /\ DiffsAreReal /\ DiffsAreCounted /\ CodeIsRight)'
    BY <2>1 DEF ReplayInv, ErrorsAreCounted, DiffsAreReal, DiffsAreCounted, CodeIsRight
  <2> QED
    BY <2>2, <2>3, <2>4 DEF ReplayInv
<1> QED
  BY <1>1, <1>2, <1>3, <1>4, <1>5, <1>6, <1>7, <1>8, <1>9, <1>10, <1>11, <1>12 DEF Next

\* So it holds throughout a replay (replayFile, replayOne).
THEOREM ReplayInvariant == Spec => []ReplayInv
<1>1. Init => ReplayInv
  BY InitKeeps
<1>2. ReplayInv /\ [Next]_vars => ReplayInv'
  BY StepKeeps
<1> QED
  BY <1>1, <1>2, PTL DEF Spec

\* The variables have their types.
THEOREM TypeCorrect == Spec => []TypeOK
<1>1. ReplayInv => TypeOK
  BY DEF ReplayInv
<1> QED
  BY <1>1, ReplayInvariant, PTL

\* Exit code 0 is earned: all lines were read and parsed, and with --replay-fail-on-diff no
\* request failed and no response was altered (record.go:128-129), whatever the responses:
\* none differed from the recording, but in going on behind the bytes within reach.
THEOREM ExitZeroIsEarned == Spec => []SuccessIsEarned
<1>1. ReplayInv => SuccessIsEarned
  <2> SUFFICES ASSUME ReplayInv, code = 0
               PROVE  /\ met \cap {"unreadable", "malformed"} = {}
                      /\ failOnDiff => met \cap {"failed", "altered"} = {}
    BY DEF SuccessIsEarned
  <2>1. errs = 0 /\ "unreadable" \notin met /\ (failOnDiff => diffs = 0)
    BY DEF ReplayInv, CodeIsRight
  <2>2. "malformed" \notin met
    BY <2>1 DEF ReplayInv, ErrorsAreCounted
  <2>3. failOnDiff => met \cap {"failed", "altered"} = {}
    BY <2>1 DEF ReplayInv, DiffsAreCounted
  <2> QED
    BY <2>1, <2>2, <2>3
<1> QED
  BY <1>1, ReplayInvariant, PTL

\* A replay fails for a reason: exit code 2 says that something differed, code 1 that the
\* recording could not be read or parsed, and the server was asked what it was asked before
\* (record.go:128-129).
THEOREM NoFalseAlarm == Spec => []FailureIsReal
<1>1. ReplayInv => FailureIsReal
  <2> SUFFICES ASSUME ReplayInv PROVE FailureIsReal
    OBVIOUS
  <2>1. code = 2 => failOnDiff /\ met \cap {"failed", "altered", "longer", "similar", "not in the recording"} # {}
    BY DEF ReplayInv, CodeIsRight, DiffsAreReal
  <2>2. code = 1 => met \cap {"unreadable", "malformed"} # {}
    BY DEF ReplayInv, CodeIsRight
  <2>3. ASSUME pc = "wait", original.request.type = "text", original.request.layers = <<>>,
               original.request.arrived = Len(original.request.body), ValidUTF8(original.request.body),
               Len(original.request.body) <= captureMaxBody
        PROVE  sent = original.request.body
    <3>1. original \in Exchanges /\ sent = writeRecord(original).reqBody
      BY <2>3 DEF ReplayInv, InFlight, SentIsRecorded
    <3>2. IsMessage(original.request)
      BY <3>1, MessagesAssumption
    <3>3. sent = ThroughJSON(captureBody(original.request, TRUE).text)
      BY <3>1 DEF writeRecord
    <3> QED
      BY <2>3, <3>2, <3>3, SentAsIs
  <2> QED
    BY <2>1, <2>2, <2>3 DEF FailureIsReal
<1> QED
  BY <1>1, ReplayInvariant, PTL

\* A cut-off body is never mistaken for a complete one, be it shown as text or summed up
\* (README.md:252).
THEOREM CutIsNeverWhole == Spec => []DisplayIsHonest
<1>1. ReplayInv => DisplayIsHonest
  <2> SUFFICES ASSUME ReplayInv, pc = "send", NEW recording \in BOOLEAN
               PROVE  /\ TextIsHonest(original.response, recording)
                      /\ SummaryIsHonest(original.response, recording)
    BY DEF DisplayIsHonest
  <2>1. IsMessage(original.response)
    BY MessagesAssumption DEF ReplayInv, InFlight
  <2> QED
    BY <2>1, TextStaysHonest, SummaryStaysHonest
<1> QED
  BY <1>1, ReplayInvariant, PTL
=============================================================================
