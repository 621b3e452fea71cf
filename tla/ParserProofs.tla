---------------------------- MODULE ParserProofs ----------------------------
(***************************************************************************)
(* Proofs about the two parsers, pki-openssl-version/parser/bson and       *)
(* pki-openssl-version/parser/cpp.                                         *)
(*                                                                         *)
(* For every set of BSON files: the documents are cut where they lie, and  *)
(* the tokens of a document stand for its elements in order, up to an      *)
(* element that the code is known to misread. A file is bytes, one encoded *)
(* element after the other, so most of what is proved says where an        *)
(* element lies and what is read there.                                    *)
(*                                                                         *)
(* For every set of C++ sources: the types of the tokeniser, that a        *)
(* punctuation is the longest, that the tokens spell what was read, and    *)
(* how many newlines are listed. Each step is first put in terms of the    *)
(* place of input_char in the source (Reading).                            *)
(*                                                                         *)
(* Nothing is proved by induction on a file: a set of counterexamples has  *)
(* a smallest member.                                                      *)
(***************************************************************************)
EXTENDS CppTokenizer, BsonParser, SequenceTheorems, FiniteSetTheorems,
        WellFoundedInduction, TLAPS

-----------------------------------------------------------------------------
(* Smallest counterexamples, and what a concatenation is.                   *)

(* Induction by the smallest counterexample.                                *)
LEMMA SmallestMember ==
  ASSUME NEW T, T \subseteq Nat, T # {}
  PROVE  \E x \in T : \A y \in T : x <= y
<1>1. PICK x \in T : \A y \in T : ~(<<y, x>> \in OpToRel(<, Nat))
  BY WFMin, NatLessThanWellFounded
<1>2. ASSUME NEW y \in T PROVE x <= y
  <2>1. ~(<<y, x>> \in OpToRel(<, Nat))
    BY <1>1
  <2>2. ~(y < x)
    BY <2>1 DEF OpToRel
  <2>3. QED
    BY <2>2
<1>3. QED
  BY <1>2

(* Concatenation under a name: the provers expand \o wherever they see it.  *)
Cat(a, b) == a \o b

(* A concatenation is a sequence of both lengths.                           *)
LEMMA CatTyped ==
  ASSUME NEW S, NEW a \in Seq(S), NEW b \in Seq(S)
  PROVE  /\ Cat(a, b) \in Seq(S)
         /\ Len(Cat(a, b)) = Len(a) + Len(b)
BY ConcatProperties DEF Cat

(* Its first members are those of the first sequence.                       *)
LEMMA CatLeft ==
  ASSUME NEW S, NEW a \in Seq(S), NEW b \in Seq(S), NEW i \in 1 .. Len(a)
  PROVE  Cat(a, b)[i] = a[i]
BY ConcatProperties DEF Cat

(* The others are those of the second one.                                  *)
LEMMA CatRight ==
  ASSUME NEW S, NEW a \in Seq(S), NEW b \in Seq(S), NEW i \in 1 .. Len(b)
  PROVE  Cat(a, b)[Len(a) + i] = b[i]
BY ConcatProperties DEF Cat

(* Concatenation is associative.                                            *)
LEMMA CatAssociative ==
  ASSUME NEW S, NEW a \in Seq(S), NEW b \in Seq(S), NEW c \in Seq(S)
  PROVE  Cat(Cat(a, b), c) = Cat(a, Cat(b, c))
BY ConcatAssociative DEF Cat

(* The empty sequence adds nothing, on either side.                         *)
LEMMA CatEmpty ==
  ASSUME NEW S, NEW a \in Seq(S)
  PROVE  Cat(a, <<>>) = a /\ Cat(<<>>, a) = a
BY ConcatEmptySeq DEF Cat

(* To append is to concatenate a sequence of one.                           *)
LEMMA CatAppend ==
  ASSUME NEW S, NEW a \in Seq(S), NEW e \in S
  PROVE  Append(a, e) = Cat(a, <<e>>)
BY AppendIsConcat DEF Cat

FlatUpTo(ss, k, f) ==
  /\ DOMAIN f = 1 .. k
  /\ \A n \in 1 .. k : f[n] = IF n = 1 THEN ss[n] ELSE Cat(f[n - 1], ss[n])

SameUpTo(ss, tt, k) == \A n \in 1 .. k : ss[n] = tt[n]

(* The pieces of a sequence are concatenated one after the other: by the    *)
(* smallest length for which they would not be.                             *)
LEMMA FlatUpToExists ==
  ASSUME NEW ss, NEW k \in Nat
  PROVE  \E f : FlatUpTo(ss, k, f)
<1> DEFINE T == {n \in Nat : ~\E f : FlatUpTo(ss, n, f)}
<1>1. SUFFICES ASSUME T # {} PROVE FALSE
  OBVIOUS
<1>2. PICK n \in T : \A m \in T : n <= m
  <2> HIDE DEF T
  <2>1. T \subseteq Nat
    BY DEF T
  <2>2. QED
    BY <1>1, <2>1, SmallestMember
<1>3. n \in Nat /\ ~\E f : FlatUpTo(ss, n, f)
  OBVIOUS
<1>4. CASE n = 0
  <2>1. FlatUpTo(ss, 0, [i \in 1 .. 0 |-> <<>>])
    BY DEF FlatUpTo
  <2>2. QED
    BY <1>3, <1>4, <2>1
<1>5. CASE n # 0
  <2>1. n - 1 \in Nat /\ ~(n <= n - 1)
    BY <1>3, <1>5
  <2>2. n - 1 \notin T
    BY <1>2, <2>1
  <2>3. PICK f : FlatUpTo(ss, n - 1, f)
    BY <2>1, <2>2
  <2> DEFINE g == [i \in 1 .. n |->
                     IF i # n THEN f[i]
                     ELSE IF i = 1 THEN ss[i] ELSE Cat(f[i - 1], ss[i])]
  <2>5. ASSUME NEW i \in 1 .. n
        PROVE  g[i] = IF i = 1 THEN ss[i] ELSE Cat(g[i - 1], ss[i])
    <3>1. i # 1 => g[i - 1] = f[i - 1]
      BY <1>3
    <3>2. CASE i = n
      BY <1>3, <3>1, <3>2
    <3>3. CASE i # n
      <4>1. i \in 1 .. n - 1 /\ g[i] = f[i]
        BY <1>3, <3>3
      <4>2. QED
        BY <2>3, <3>1, <4>1 DEF FlatUpTo
    <3>4. QED
      BY <3>2, <3>3
  <2>6. DOMAIN g = 1 .. n
    OBVIOUS
  <2> HIDE DEF g
  <2>7. FlatUpTo(ss, n, g)
    BY <2>5, <2>6 DEF FlatUpTo
  <2>8. QED
    BY <1>3, <2>7
<1>6. QED
  BY <1>4, <1>5

(* FlattenSeq is the last of those concatenations.                          *)
LEMMA FlattenValue ==
  ASSUME NEW ss, Len(ss) \in Nat, Len(ss) # 0
  PROVE  \E f : FlatUpTo(ss, Len(ss), f) /\ FlattenSeq(ss) = f[Len(ss)]
<1> DEFINE Step(f) == [n \in 1 .. Len(ss) |-> IF n = 1 THEN ss[n] ELSE f[n - 1] \o ss[n]]
           upTo == CHOOSE f : f = Step(f)
<1>1. PICK f : FlatUpTo(ss, Len(ss), f)
  BY FlatUpToExists
<1>2. \E g : g = Step(g)
  <2> DEFINE g == [n \in 1 .. Len(ss) |-> f[n]]
  <2>1. ASSUME NEW n \in 1 .. Len(ss)
        PROVE  g[n] = Step(g)[n]
    <3>1. CASE n = 1
      BY <1>1, <3>1 DEF FlatUpTo
    <3>2. CASE n # 1
      <4>1. n - 1 \in 1 .. Len(ss)
        BY <3>2
      <4>2. f[n] = Cat(f[n - 1], ss[n])
        BY <1>1, <3>2 DEF FlatUpTo
      <4>3. QED
        BY <3>2, <4>1, <4>2 DEF Cat
    <3>3. QED
      BY <3>1, <3>2
  <2>2. g = Step(g)
    BY <2>1
  <2>3. QED
    BY <2>2
<1>3. upTo = Step(upTo)
  <2> HIDE DEF Step
  <2>1. QED
    BY <1>2
<1>4. FlattenSeq(ss) = upTo[Len(ss)]
  BY DEF FlattenSeq
<1> HIDE DEF upTo
<1>5. FlatUpTo(ss, Len(ss), upTo)
  <2>1. ASSUME NEW n \in 1 .. Len(ss)
        PROVE  upTo[n] = IF n = 1 THEN ss[n] ELSE Cat(upTo[n - 1], ss[n])
    <3>1. upTo[n] = Step(upTo)[n]
      BY <1>3
    <3>2. QED
      BY <3>1 DEF Cat
  <2>2. DOMAIN upTo = 1 .. Len(ss)
    <3>1. DOMAIN upTo = DOMAIN Step(upTo)
      BY <1>3
    <3>2. QED
      BY <3>1
  <2>3. QED
    BY <2>1, <2>2 DEF FlatUpTo
<1>6. QED
  BY <1>4, <1>5

(* Sequences that agree up to k are concatenated alike up to k.             *)
LEMMA FlatUpToAgree ==
  ASSUME NEW ss, NEW tt, NEW k \in Nat, NEW l \in Nat, k <= l,
         NEW f, NEW g, FlatUpTo(ss, k, f), FlatUpTo(tt, l, g), SameUpTo(ss, tt, k)
  PROVE  \A n \in 1 .. k : f[n] = g[n]
<1> DEFINE T == {n \in 1 .. k : f[n] # g[n]}
<1>1. SUFFICES ASSUME T # {} PROVE FALSE
  OBVIOUS
<1>2. PICK n \in T : \A m \in T : n <= m
  <2>1. T \subseteq Nat
    OBVIOUS
  <2> HIDE DEF T
  <2>2. QED
    BY <1>1, <2>1, SmallestMember
<1>3. n \in 1 .. k /\ n \in 1 .. l /\ ~(n <= n - 1)
  OBVIOUS
<1>4. CASE n = 1
  <2>1. f[n] = g[n]
    BY <1>3, <1>4 DEF FlatUpTo, SameUpTo
  <2>2. QED
    BY <2>1
<1>5. CASE n # 1
  <2>1. n - 1 \in 1 .. k
    BY <1>3, <1>5
  <2>2. f[n - 1] = g[n - 1]
    BY <1>2, <1>3, <2>1
  <2>3. f[n] = g[n]
    BY <1>3, <1>5, <2>2 DEF FlatUpTo, SameUpTo
  <2>4. QED
    BY <2>3
<1>6. QED
  BY <1>4, <1>5

(* Sequences over S are concatenated to sequences over S.                   *)
LEMMA FlatUpToTyped ==
  ASSUME NEW S, NEW ss \in Seq(Seq(S)), NEW f, FlatUpTo(ss, Len(ss), f)
  PROVE  \A n \in 1 .. Len(ss) : f[n] \in Seq(S)
<1> DEFINE T == {n \in 1 .. Len(ss) : f[n] \notin Seq(S)}
<1>1. SUFFICES ASSUME T # {} PROVE FALSE
  OBVIOUS
<1>2. PICK n \in T : \A m \in T : n <= m
  <2>1. T \subseteq Nat
    OBVIOUS
  <2> HIDE DEF T
  <2>2. QED
    BY <1>1, <2>1, SmallestMember
<1>3. n \in 1 .. Len(ss) /\ ~(n <= n - 1) /\ ss[n] \in Seq(S)
  BY ElementOfSeq
<1>4. CASE n = 1
  BY <1>3, <1>4 DEF FlatUpTo
<1>5. CASE n # 1
  <2>1. n - 1 \in 1 .. Len(ss)
    BY <1>3, <1>5
  <2>2. f[n - 1] \in Seq(S)
    BY <1>2, <1>3, <2>1
  <2>3. f[n] = Cat(f[n - 1], ss[n])
    BY <1>3, <1>5 DEF FlatUpTo
  <2>4. QED
    BY <1>3, <2>2, <2>3, CatTyped
<1>6. QED
  BY <1>4, <1>5

(* Nothing is flattened to nothing.                                         *)
LEMMA FlattenEmpty == FlattenSeq(<<>>) = <<>>
BY DEF FlattenSeq

(* A sequence of sequences over S is flattened to one over S.               *)
LEMMA FlattenTyped ==
  ASSUME NEW S, NEW ss \in Seq(Seq(S))
  PROVE  FlattenSeq(ss) \in Seq(S)
<1>1. CASE Len(ss) = 0
  <2>1. ss = <<>>
    BY <1>1, EmptySeq
  <2>2. QED
    BY <2>1, FlattenEmpty, EmptySeq
<1>2. CASE Len(ss) # 0
  <2>1. Len(ss) \in Nat
    BY LenProperties
  <2>2. PICK f : FlatUpTo(ss, Len(ss), f) /\ FlattenSeq(ss) = f[Len(ss)]
    BY <1>2, <2>1, FlattenValue
  <2>3. QED
    BY <1>2, <2>1, <2>2, FlatUpToTyped
<1>3. QED
  BY <1>1, <1>2

(* One more piece is added at the end.                                      *)
LEMMA FlattenAppend ==
  ASSUME NEW S, NEW ss \in Seq(Seq(S)), NEW x \in Seq(S)
  PROVE  FlattenSeq(Append(ss, x)) = Cat(FlattenSeq(ss), x)
<1> DEFINE tt == Append(ss, x)
           n == Len(ss)
<1>1. n \in Nat /\ Len(tt) = n + 1 /\ tt[n + 1] = x /\ \A i \in 1 .. n : tt[i] = ss[i]
  BY AppendProperties, LenProperties
<1> HIDE DEF tt, n
<1>2. PICK g : FlatUpTo(tt, Len(tt), g) /\ FlattenSeq(tt) = g[Len(tt)]
  BY <1>1, FlattenValue
<1>3. CASE n = 0
  <2>1. FlattenSeq(ss) = <<>>
    BY <1>3, FlattenEmpty, EmptySeq DEF n
  <2>2. FlattenSeq(tt) = x
    BY <1>1, <1>2, <1>3 DEF FlatUpTo
  <2>3. QED
    BY <2>1, <2>2, CatEmpty DEF tt
<1>4. CASE n # 0
  <2>1. PICK f : FlatUpTo(ss, n, f) /\ FlattenSeq(ss) = f[n]
    BY <1>1, <1>4, FlattenValue DEF n
  <2>2. SameUpTo(ss, tt, n)
    BY <1>1 DEF SameUpTo
  <2>3. \A i \in 1 .. n : f[i] = g[i]
    <3>1. n + 1 \in Nat /\ n <= n + 1
      BY <1>1
    <3>2. QED
      BY <1>1, <1>2, <2>1, <2>2, <3>1, FlatUpToAgree
  <2>4. g[n + 1] = Cat(g[n], x)
    BY <1>1, <1>2, <1>4 DEF FlatUpTo
  <2>5. QED
    BY <1>1, <1>2, <1>4, <2>1, <2>3, <2>4 DEF tt
<1>5. QED
  BY <1>3, <1>4

(* A sequence of one.                                                       *)
LEMMA SingletonSeq ==
  ASSUME NEW S, NEW e \in S
  PROVE  <<e>> \in Seq(S) /\ Len(<<e>>) = 1 /\ <<e>>[1] = e
OBVIOUS

(* One piece is flattened to itself.                                        *)
LEMMA FlattenOne ==
  ASSUME NEW S, NEW x \in Seq(S)
  PROVE  FlattenSeq(<<x>>) = x
<1>1. <<>> \in Seq(Seq(S))
  OBVIOUS
<1>2. Append(<<>>, x) = <<x>>
  BY <1>1, CatAppend, CatEmpty, SingletonSeq
<1>3. FlattenSeq(Append(<<>>, x)) = Cat(FlattenSeq(<<>>), x)
  BY <1>1, FlattenAppend
<1>4. QED
  BY <1>2, <1>3, FlattenEmpty, CatEmpty

(* The first k members of a sequence.                                       *)
FirstOf(s, k) == SubSeq(s, 1, k)
RestOf(s, k) == SubSeq(s, k + 1, Len(s))

(* The first k members of a sequence.                                       *)
LEMMA FrontTyped ==
  ASSUME NEW S, NEW s \in Seq(S), NEW k \in 0 .. Len(s)
  PROVE  /\ FirstOf(s, k) \in Seq(S)
         /\ Len(FirstOf(s, k)) = k
         /\ \A i \in 1 .. k : FirstOf(s, k)[i] = s[i]
<1>1. Len(s) \in Nat
  BY LenProperties
<1>2. \A i \in 1 .. k : s[i] \in S
  BY <1>1, ElementOfSeq
<1>3. QED
  BY <1>1, <1>2, SubSeqProperties DEF FirstOf

(* The members of a sequence after the first k.                             *)
LEMMA BackTyped ==
  ASSUME NEW S, NEW s \in Seq(S), NEW k \in 0 .. Len(s)
  PROVE  /\ RestOf(s, k) \in Seq(S)
         /\ Len(RestOf(s, k)) = Len(s) - k
         /\ \A i \in 1 .. Len(s) - k : RestOf(s, k)[i] = s[k + i]
<1>1. Len(s) \in Nat
  BY LenProperties
<1>2. \A i \in k + 1 .. Len(s) : s[i] \in S
  BY <1>1, ElementOfSeq
<1>3. k + 1 \in Int
  BY <1>1
<1>4. QED
  BY <1>1, <1>2, <1>3, SubSeqProperties DEF RestOf

(* All the members, and none.                                               *)
LEMMA FrontFull ==
  ASSUME NEW S, NEW s \in Seq(S)
  PROVE  FirstOf(s, Len(s)) = s /\ FirstOf(s, 0) = <<>> /\ RestOf(s, 0) = s
BY SubSeqFull, SubSeqEmpty DEF FirstOf, RestOf

(* The first k, and one more.                                               *)
LEMMA FrontNext ==
  ASSUME NEW S, NEW s \in Seq(S), NEW k \in 1 .. Len(s)
  PROVE  FirstOf(s, k) = Append(FirstOf(s, k - 1), s[k])
<1>1. Len(s) \in Nat /\ k - 1 \in 0 .. Len(s) /\ s[k] \in S
  BY LenProperties, ElementOfSeq
<1>2. SubSeq(s, 1, k) = SubSeq(s, 1, k - 1) \o <<s[k]>>
  BY <1>1, SubSeqRecursiveSecond
<1>3. Append(SubSeq(s, 1, k - 1), s[k]) = SubSeq(s, 1, k - 1) \o <<s[k]>>
  BY <1>1, FrontTyped, AppendIsConcat DEF FirstOf
<1>4. QED
  BY <1>2, <1>3 DEF FirstOf

(* A sequence is its first k members, then the others.                      *)
LEMMA FrontBack ==
  ASSUME NEW S, NEW s \in Seq(S), NEW k \in 0 .. Len(s)
  PROVE  Cat(FirstOf(s, k), RestOf(s, k)) = s
<1>1. Len(s) \in Nat
  BY LenProperties
<1>2. 1 \in 1 .. Len(s) + 1 /\ k \in 1 - 1 .. Len(s) /\ Len(s) \in k .. Len(s)
  BY <1>1
<1>3. SubSeq(s, 1, k) \o SubSeq(s, k + 1, Len(s)) = SubSeq(s, 1, Len(s))
  BY <1>2, ConcatAdjacentSubSeq
<1>4. QED
  BY <1>3, SubSeqFull DEF Cat, FirstOf, RestOf

(* FlattenSeq distributes over concatenation.                               *)
LEMMA FlattenCat ==
  ASSUME NEW S, NEW ss \in Seq(Seq(S)), NEW tt \in Seq(Seq(S))
  PROVE  FlattenSeq(Cat(ss, tt)) = Cat(FlattenSeq(ss), FlattenSeq(tt))
<1> DEFINE T == {k \in 0 .. Len(tt) : FlattenSeq(Cat(ss, FirstOf(tt, k)))
                                        # Cat(FlattenSeq(ss), FlattenSeq(FirstOf(tt, k)))}
<1>0. Len(tt) \in Nat
  BY LenProperties
<1>1. CASE T = {}
  <2>1. Len(tt) \notin T
    BY <1>1
  <2> HIDE DEF T
  <2>2. Len(tt) \in 0 .. Len(tt)
    BY <1>0
  <2>3. FlattenSeq(Cat(ss, FirstOf(tt, Len(tt)))) = Cat(FlattenSeq(ss), FlattenSeq(FirstOf(tt, Len(tt))))
    BY <2>1, <2>2 DEF T
  <2>4. QED
    BY <2>3, FrontFull
<1>2. CASE T # {}
  <2>1. PICK n \in T : \A m \in T : n <= m
    <3>1. T \subseteq Nat
      OBVIOUS
    <3> HIDE DEF T
    <3>2. QED
      BY <1>2, <3>1, SmallestMember
  <2>2. n \in 0 .. Len(tt)
    OBVIOUS
  <2>3. FlattenSeq(Cat(ss, FirstOf(tt, n))) # Cat(FlattenSeq(ss), FlattenSeq(FirstOf(tt, n)))
    OBVIOUS
  <2>4. CASE n = 0
    <3>1. FirstOf(tt, 0) = <<>> /\ Cat(ss, <<>>) = ss
      BY FrontFull, CatEmpty
    <3>2. FlattenSeq(ss) \in Seq(S)
      BY FlattenTyped
    <3>3. Cat(FlattenSeq(ss), <<>>) = FlattenSeq(ss)
      BY <3>2, CatEmpty
    <3>4. QED
      BY <2>3, <2>4, <3>1, <3>3, FlattenEmpty
  <2>5. CASE n # 0
    <3> DEFINE u == FirstOf(tt, n - 1)
               x == tt[n]
    <3>1. n \in 1 .. Len(tt) /\ n - 1 \in 0 .. Len(tt) /\ ~(n <= n - 1)
      BY <1>0, <2>2, <2>5
    <3>2. x \in Seq(S) /\ u \in Seq(Seq(S))
      BY <3>1, ElementOfSeq, FrontTyped
    <3>3. FirstOf(tt, n) = Append(u, x)
      BY <3>1, FrontNext
    <3>4. n - 1 \notin T
      BY <2>1, <3>1
    <3>5. FlattenSeq(Cat(ss, u)) = Cat(FlattenSeq(ss), FlattenSeq(u))
      BY <3>1, <3>4
    <3> HIDE DEF u, x
    <3>6. /\ FlattenSeq(Append(u, x)) = Cat(FlattenSeq(u), x)
          /\ Cat(ss, u) \in Seq(Seq(S))
          /\ FlattenSeq(ss) \in Seq(S) /\ FlattenSeq(u) \in Seq(S)
      BY <3>2, FlattenAppend, CatTyped, FlattenTyped
    <3>7. FlattenSeq(Append(Cat(ss, u), x)) = Cat(FlattenSeq(Cat(ss, u)), x)
      BY <3>2, <3>6, FlattenAppend
    <3>8. Cat(ss, Append(u, x)) = Append(Cat(ss, u), x)
      <4>1. <<x>> \in Seq(Seq(S))
        BY <3>2, SingletonSeq
      <4>2. Append(u, x) = Cat(u, <<x>>) /\ Append(Cat(ss, u), x) = Cat(Cat(ss, u), <<x>>)
        BY <3>2, <3>6, CatAppend
      <4>3. Cat(Cat(ss, u), <<x>>) = Cat(ss, Cat(u, <<x>>))
        <5> DEFINE y == <<x>>
        <5> HIDE DEF y
        <5>1. y \in Seq(Seq(S))
          BY <4>1 DEF y
        <5>2. Cat(Cat(ss, u), y) = Cat(ss, Cat(u, y))
          BY <3>2, <5>1, CatAssociative
        <5>3. QED
          BY <5>2 DEF y
      <4>4. QED
        BY <4>2, <4>3
    <3>9. Cat(Cat(FlattenSeq(ss), FlattenSeq(u)), x) = Cat(FlattenSeq(ss), Cat(FlattenSeq(u), x))
      BY <3>2, <3>6, CatAssociative
    <3>10. QED
      BY <2>3, <3>3, <3>5, <3>6, <3>7, <3>8, <3>9
  <2>6. QED
    BY <2>4, <2>5
<1>3. QED
  BY <1>1, <1>2

FlatTo(ss, k) == FlattenSeq(FirstOf(ss, k))

(* The first pieces flattened: none, and all.                               *)
LEMMA FlatToEdges ==
  ASSUME NEW S, NEW ss \in Seq(Seq(S))
  PROVE  FlatTo(ss, 0) = <<>> /\ FlatTo(ss, Len(ss)) = FlattenSeq(ss)
BY FrontFull, FlattenEmpty DEF FlatTo

(* The first k pieces flattened, and one more.                              *)
LEMMA FlatToNext ==
  ASSUME NEW S, NEW ss \in Seq(Seq(S)), NEW k \in 1 .. Len(ss)
  PROVE  /\ FlatTo(ss, k - 1) \in Seq(S)
         /\ ss[k] \in Seq(S)
         /\ FlatTo(ss, k) = Cat(FlatTo(ss, k - 1), ss[k])
<1>1. Len(ss) \in Nat /\ k - 1 \in 0 .. Len(ss) /\ ss[k] \in Seq(S)
  BY LenProperties, ElementOfSeq
<1>2. FirstOf(ss, k - 1) \in Seq(Seq(S))
  BY <1>1, FrontTyped
<1>3. QED
  BY <1>1, <1>2, FrontNext, FlattenAppend, FlattenTyped DEF FlatTo

(* Each piece lies in the flattened sequence after those before it.         *)
LEMMA FlattenPiece ==
  ASSUME NEW S, NEW ss \in Seq(Seq(S)), NEW k \in 1 .. Len(ss)
  PROVE  \E r \in Seq(S) : FlattenSeq(ss) = Cat(FlatTo(ss, k - 1), Cat(ss[k], r))
<1> DEFINE r == FlattenSeq(RestOf(ss, k))
<1>1. Len(ss) \in Nat /\ k \in 0 .. Len(ss)
  BY LenProperties
<1>2. RestOf(ss, k) \in Seq(Seq(S)) /\ FirstOf(ss, k) \in Seq(Seq(S))
  BY <1>1, FrontTyped, BackTyped
<1>3. r \in Seq(S)
  BY <1>2, FlattenTyped
<1>4. FlattenSeq(Cat(FirstOf(ss, k), RestOf(ss, k))) = Cat(FlatTo(ss, k), r)
  BY <1>2, FlattenCat DEF FlatTo
<1>5. Cat(FirstOf(ss, k), RestOf(ss, k)) = ss
  BY <1>1, FrontBack
<1> HIDE DEF r
<1>6. Cat(Cat(FlatTo(ss, k - 1), ss[k]), r) = Cat(FlatTo(ss, k - 1), Cat(ss[k], r))
  BY <1>3, FlatToNext, CatAssociative
<1>7. QED
  BY <1>3, <1>4, <1>5, <1>6, FlatToNext

-----------------------------------------------------------------------------
(* BSON: bytes, and what is read where they hold.                           *)

Bytes == Seq(Byte)

(* The bytes b are in data, from p on.                                      *)
Holds(data, p, b) ==
  /\ p \in Nat /\ p > 0
  /\ p + Len(b) <= Len(data) + 1
  /\ \A i \in 1 .. Len(b) : data[p + i - 1] = b[i]

(* What holds a concatenation holds both parts, one after the other.        *)
LEMMA HoldsCat ==
  ASSUME NEW data \in Bytes, NEW p, NEW a \in Bytes, NEW b \in Bytes, Holds(data, p, Cat(a, b))
  PROVE  Holds(data, p, a) /\ Holds(data, p + Len(a), b)
<1> DEFINE ab == Cat(a, b)
<1>1. /\ Len(a) \in Nat /\ Len(b) \in Nat /\ Len(data) \in Nat
      /\ Len(ab) = Len(a) + Len(b)
  BY LenProperties, CatTyped DEF Bytes
<1>2. \A i \in 1 .. Len(a) : ab[i] = a[i]
  BY CatLeft DEF Bytes
<1>3. \A i \in 1 .. Len(b) : ab[Len(a) + i] = b[i]
  BY CatRight DEF Bytes
<1> HIDE DEF ab
<1>4. /\ p \in Nat /\ p > 0 /\ p + Len(ab) <= Len(data) + 1
      /\ \A i \in 1 .. Len(ab) : data[p + i - 1] = ab[i]
  BY DEF Holds, ab
<1>5. Holds(data, p, a)
  <2>1. ASSUME NEW i \in 1 .. Len(a) PROVE data[p + i - 1] = a[i]
    <3>1. i \in 1 .. Len(ab)
      BY <1>1
    <3>2. QED
      BY <1>2, <1>4, <3>1
  <2>2. QED
    BY <1>1, <1>4, <2>1 DEF Holds
<1>6. Holds(data, p + Len(a), b)
  <2>1. ASSUME NEW i \in 1 .. Len(b) PROVE data[(p + Len(a)) + i - 1] = b[i]
    <3>1. Len(a) + i \in 1 .. Len(ab)
      BY <1>1
    <3>2. data[p + (Len(a) + i) - 1] = ab[Len(a) + i]
      BY <1>4, <3>1
    <3>3. p + (Len(a) + i) - 1 = (p + Len(a)) + i - 1
      BY <1>1, <1>4
    <3>4. QED
      BY <1>3, <3>2, <3>3
  <2>2. QED
    BY <1>1, <1>4, <2>1 DEF Holds
<1>7. QED
  BY <1>5, <1>6

(* A sequence of bytes holds itself at its start.                           *)
LEMMA HoldsSelf ==
  ASSUME NEW data \in Bytes
  PROVE  Holds(data, 1, data)
BY LenProperties DEF Holds, Bytes

(* The bytes that are in data are what SubSeq reads there.                  *)
LEMMA HoldsSubSeq ==
  ASSUME NEW data \in Bytes, NEW p, NEW b \in Bytes, Holds(data, p, b)
  PROVE  SubSeq(data, p, p + Len(b) - 1) = b
<1> DEFINE n == p + Len(b) - 1
           s == SubSeq(data, p, n)
<1>1. Len(b) \in Nat /\ Len(data) \in Nat /\ p \in Nat /\ p > 0 /\ n <= Len(data)
  BY LenProperties DEF Bytes, Holds
<1>2. \A i \in p .. n : data[i] \in Byte
  BY <1>1, ElementOfSeq DEF Bytes
<1>3. s \in Bytes /\ Len(s) = Len(b) /\ \A i \in 1 .. Len(b) : s[i] = data[p + i - 1]
  BY <1>1, <1>2, SubSeqProperties DEF Bytes
<1> HIDE DEF s, n
<1>4. \A i \in 1 .. Len(s) : s[i] = b[i]
  BY <1>3 DEF Holds
<1>5. s = b
  BY <1>3, <1>4, SeqEqual DEF Bytes
<1>6. QED
  BY <1>5 DEF s, n

(* The byte read at a position of the data.                                 *)
LEMMA AtValue ==
  ASSUME NEW p \in Nat, NEW n \in Int
  PROVE  At(p, n) = IF p = Beyond \/ n < 0 \/ p + n > Len(m_fileData) + 1 THEN Lost
                    ELSE [data |-> SubSeq(m_fileData, p, p + n - 1), next |-> p + n]
BY DEF At

(* The byte read where a sequence of bytes is held.                         *)
LEMMA AtHolds ==
  ASSUME NEW p, NEW b \in Bytes, m_fileData \in Bytes, Holds(m_fileData, p, b)
  PROVE  At(p, Len(b)) = [data |-> b, next |-> p + Len(b)]
<1>1. Len(b) \in Nat /\ Len(b) \in Int /\ p \in Nat /\ p > 0
  BY LenProperties DEF Bytes, Holds
<1>2. p + Len(b) <= Len(m_fileData) + 1
  BY DEF Holds
<1>3. Len(m_fileData) \in Nat
  BY LenProperties DEF Bytes
<1>4. ~(p = Beyond \/ Len(b) < 0 \/ p + Len(b) > Len(m_fileData) + 1)
  BY <1>1, <1>2, <1>3 DEF Beyond
<1>5. SubSeq(m_fileData, p, p + Len(b) - 1) = b
  BY HoldsSubSeq
<1>6. QED
  BY <1>1, <1>4, <1>5, AtValue

(* What division leaves, of a sum of a multiple and a rest.                 *)
LEMMA Divided ==
  ASSUME NEW n \in Nat
  PROVE  /\ n \div 256 \in Nat
         /\ n % 256 \in 0 .. 255
         /\ n - 256 * (n \div 256) = n % 256
BY SMT

(* A 4-byte number encoded is decoded to itself, and is made of bytes.      *)
LEMMA Int32Encoded ==
  ASSUME NEW n \in Nat, n <= MaxSize
  PROVE  /\ EncodedInt32(n) \in Bytes
         /\ Len(EncodedInt32(n)) = 4
         /\ Int32(EncodedInt32(n)) = n
<1> DEFINE p == n \div 256
           q == p \div 256
           r == q \div 256
           a == n % 256
           b == p % 256
           c == q % 256
           d == r % 256
<1>1. n \in Nat /\ p \in Nat /\ q \in Nat /\ r \in Nat
  <2>1. n \in Nat
    OBVIOUS
  <2>2. p \in Nat
    BY <2>1, Divided
  <2>3. q \in Nat
    BY <2>2, Divided
  <2>4. QED
    BY <2>1, <2>2, <2>3, Divided
<1>2. /\ a \in 0 .. 255 /\ b \in 0 .. 255 /\ c \in 0 .. 255 /\ d \in 0 .. 255
      /\ n - 256 * p = a /\ p - 256 * q = b /\ q - 256 * r = c
  BY <1>1, Divided
<1>3. n \div 65536 = q /\ n \div 16777216 = r
  BY <1>1, SMT
<1>4. EncodedInt32(n) = <<a, b, c, d>>
  BY <1>3 DEF EncodedInt32
<1>5. r < 128 /\ d = r
  <2>1. n <= 2147483647
    BY DEF MaxSize
  <2> HIDE DEF a, b, c, d, p, q
  <2>2. r < 128
    BY <1>1, <1>2, <2>1, SMT
  <2>3. d = r
    BY <1>1, <2>2, SMT DEF d
  <2>4. QED
    BY <2>2, <2>3
<1> HIDE DEF a, b, c, d, p, q, r
<1>6. a + 256 * b + 65536 * c + 16777216 * d = n
  BY <1>1, <1>2, <1>5, SMT
<1>7. Int32(<<a, b, c, d>>) = n
  BY <1>2, <1>5, <1>6, SMT DEF Int32
<1>8. <<a, b, c, d>> \in Seq(Byte) /\ Len(<<a, b, c, d>>) = 4
  BY <1>2 DEF Byte
<1>9. QED
  BY <1>4, <1>7, <1>8 DEF Bytes

(* getName where a name and its 00 are held: the name, and the position     *)
(* after the 00.                                                            *)
LEMMA NameValue ==
  ASSUME NEW p, NEW name \in Seq(Byte \ {0}), m_fileData \in Bytes,
         Holds(m_fileData, p, Cat(name, << 0 >>))
  PROVE  getName(p) = [data |-> name, next |-> p + Len(name) + 1]
<1> DEFINE ends == {q \in p .. Len(m_fileData) : m_fileData[q] = 0}
           z == p + Len(name)
<1>1. name \in Bytes /\ Len(name) \in Nat /\ Len(m_fileData) \in Nat
  BY SeqMonotonic, LenProperties DEF Bytes
<1>2. <<0>> \in Bytes /\ Len(<<0>>) = 1 /\ <<0>>[1] = 0
  BY DEF Bytes, Byte
<1>3. Holds(m_fileData, p, name) /\ Holds(m_fileData, z, <<0>>)
  <2> DEFINE zero == <<0>>
  <2> HIDE DEF zero
  <2>1. zero \in Bytes
    BY <1>2 DEF zero
  <2>2. Holds(m_fileData, p, Cat(name, zero))
    BY DEF zero
  <2>3. QED
    BY <1>1, <2>1, <2>2, HoldsCat DEF zero
<1>4. p \in Nat /\ p > 0 /\ z \in Nat /\ z <= Len(m_fileData)
  BY <1>1, <1>2, <1>3 DEF Holds
<1>5. m_fileData[z] = 0
  <2>1. m_fileData[z + 1 - 1] = <<0>>[1]
    BY <1>2, <1>3 DEF Holds
  <2>2. QED
    BY <1>2, <1>4, <2>1
<1>6. z \in ends
  BY <1>1, <1>4, <1>5
<1>7. \A r \in ends : z <= r
  <2>1. SUFFICES ASSUME NEW r \in ends, r < z PROVE FALSE
    BY <1>1, <1>4
  <2>2. r \in p .. Len(m_fileData) /\ m_fileData[r] = 0 /\ r - p + 1 \in 1 .. Len(name)
    BY <1>1, <1>4, <2>1
  <2>3. m_fileData[p + (r - p + 1) - 1] = name[r - p + 1]
    BY <1>3, <2>2 DEF Holds
  <2>4. name[r - p + 1] \in Byte \ {0}
    BY <2>2, ElementOfSeq
  <2>5. p + (r - p + 1) - 1 = r
    BY <1>4, <2>2
  <2>6. QED
    BY <2>2, <2>3, <2>4, <2>5
<1>8. (CHOOSE q \in ends : \A r \in ends : q <= r) = z
  <2>1. \A q \in ends : (\A r \in ends : q <= r) => q = z
    BY <1>1, <1>4, <1>6, <1>7
  <2> HIDE DEF ends, z
  <2>2. QED
    BY <1>6, <1>7, <2>1
<1>9. getName(p) = [data |-> SubSeq(m_fileData, p, z - 1), next |-> z + 1]
  <2> DEFINE q0 == CHOOSE q \in ends : \A r \in ends : q <= r
  <2>1. getName(p) = IF p = Beyond \/ ends = {} THEN Lost
                     ELSE [data |-> SubSeq(m_fileData, p, q0 - 1), next |-> q0 + 1]
    BY <1>4 DEF getName
  <2>2. q0 = z
    BY <1>8
  <2>3. p # Beyond /\ ends # {}
    BY <1>4, <1>6 DEF Beyond
  <2> HIDE DEF q0, ends
  <2>4. QED
    BY <2>1, <2>2, <2>3
<1>10. SubSeq(m_fileData, p, z - 1) = name
  <2>1. SubSeq(m_fileData, p, p + Len(name) - 1) = name
    BY <1>1, <1>3, HoldsSubSeq
  <2>2. p + Len(name) - 1 = z - 1
    BY <1>1, <1>4
  <2>3. QED
    BY <2>1, <2>2
<1>11. QED
  BY <1>9, <1>10

(* The bytes of a part of the data.                                         *)
LEMMA Part ==
  ASSUME NEW b \in Bytes, NEW i \in Nat, NEW j \in Int, 1 <= i, j <= Len(b)
  PROVE  /\ SubSeq(b, i, j) \in Bytes
         /\ Len(SubSeq(b, i, j)) = IF i <= j THEN j - i + 1 ELSE 0
         /\ \A k \in 1 .. j - i + 1 : SubSeq(b, i, j)[k] = b[i + k - 1]
<1>1. Len(b) \in Nat
  BY LenProperties DEF Bytes
<1>2. \A k \in i .. j : b[k] \in Byte
  BY <1>1, ElementOfSeq DEF Bytes
<1>3. QED
  BY <1>2, SubSeqProperties DEF Bytes

(* A part of bytes that are in data is in data. *)
LEMMA HoldsPart ==
  ASSUME NEW data \in Bytes, NEW p, NEW b \in Bytes, Holds(data, p, b),
         NEW i \in Nat, NEW j \in Int, 1 <= i, i <= j + 1, j <= Len(b)
  PROVE  Holds(data, p + i - 1, SubSeq(b, i, j))
<1> DEFINE s == SubSeq(b, i, j)
<1>1. Len(b) \in Nat /\ Len(data) \in Nat
  BY LenProperties DEF Bytes
<1>2. /\ p \in Nat /\ p > 0 /\ p + Len(b) <= Len(data) + 1
      /\ \A k \in 1 .. Len(b) : data[p + k - 1] = b[k]
  BY DEF Holds
<1>3. Len(s) = j - i + 1 /\ \A k \in 1 .. j - i + 1 : s[k] = b[i + k - 1]
  <2>1. Len(s) = IF i <= j THEN j - i + 1 ELSE 0
    BY Part
  <2>2. \A k \in 1 .. j - i + 1 : s[k] = b[i + k - 1]
    BY Part
  <2> HIDE DEF s
  <2>3. QED
    BY <2>1, <2>2
<1> HIDE DEF s
<1>4. ASSUME NEW k \in 1 .. Len(s) PROVE data[(p + i - 1) + k - 1] = s[k]
  <2>1. i + k - 1 \in 1 .. Len(b)
    BY <1>1, <1>3
  <2>2. data[p + (i + k - 1) - 1] = b[i + k - 1]
    BY <1>2, <2>1
  <2>3. p + (i + k - 1) - 1 = (p + i - 1) + k - 1
    BY <1>2, <1>3
  <2>4. QED
    BY <1>3, <2>2, <2>3
<1>5. QED
  BY <1>1, <1>2, <1>3, <1>4 DEF Holds, s

(* getInt32 where a size is encoded: that size.                             *)
LEMMA SizeRead ==
  ASSUME NEW p, NEW body \in Bytes, NEW n \in Nat, Sized(body, n),
         m_fileData \in Bytes, Holds(m_fileData, p, body)
  PROVE  /\ At(p, 4) = [data |-> SubSeq(body, 1, 4), next |-> p + 4]
         /\ At(p, 4) # Lost
         /\ Int32(SubSeq(body, 1, 4)) = Len(body) - n
<1> DEFINE s == SubSeq(body, 1, 4)
<1>1. Len(body) \in Nat /\ n >= 4 /\ Len(body) >= n /\ Int32(body) = Len(body) - n
  BY LenProperties DEF Bytes, Sized
<1>2. /\ s \in Bytes /\ Len(s) = 4
      /\ s[1] = body[1] /\ s[2] = body[2] /\ s[3] = body[3] /\ s[4] = body[4]
  <2>1. s \in Bytes
    BY <1>1, Part
  <2>2. Len(s) = IF 1 <= 4 THEN 4 - 1 + 1 ELSE 0
    BY <1>1, Part
  <2>3. \A k \in 1 .. 4 - 1 + 1 : s[k] = body[1 + k - 1]
    BY <1>1, Part
  <2> HIDE DEF s
  <2>4. QED
    BY <2>1, <2>2, <2>3
<1>3. Holds(m_fileData, p, s)
  <2>1. Holds(m_fileData, p + 1 - 1, s)
    BY <1>1, HoldsPart
  <2>2. p + 1 - 1 = p
    BY DEF Holds
  <2>3. QED
    BY <2>1, <2>2
<1> HIDE DEF s
<1>4. At(p, 4) = [data |-> s, next |-> p + 4]
  BY <1>2, <1>3, AtHolds
<1>5. Int32(s) = Int32(body)
  BY <1>2 DEF Int32
<1>6. At(p, 4) # Lost
  <2>1. p + 4 # Beyond
    BY DEF Holds, Beyond
  <2>2. QED
    BY <1>4, <2>1 DEF Lost
<1>7. QED
  BY <1>1, <1>4, <1>5, <1>6 DEF s

(* getString where a string is encoded: the string, and the position after  *)
(* its 00.                                                                  *)
LEMMA StringRead ==
  ASSUME NEW p, NEW body \in Bytes, NEW n \in Nat, Sized(body, n),
         m_fileData \in Bytes, Holds(m_fileData, p, body)
  PROVE  getString(p) = [data |-> SubSeq(body, 5, Len(body) - n + 4), next |-> p + Len(body) - n + 4]
<1> DEFINE s == SubSeq(body, 5, Len(body) - n + 4)
<1>1. Len(body) \in Nat /\ n >= 4 /\ Len(body) >= n
  BY LenProperties DEF Bytes, Sized
<1>2. getString(p) = At(p + 4, Len(body) - n)
  <2> DEFINE b4 == SubSeq(body, 1, 4)
  <2>1. At(p, 4) = [data |-> b4, next |-> p + 4] /\ At(p, 4) # Lost /\ Int32(b4) = Len(body) - n
    BY SizeRead
  <2> HIDE DEF b4
  <2>2. At(p, 4).data = b4 /\ At(p, 4).next = p + 4
    BY <2>1
  <2>3. getString(p) = IF At(p, 4) = Lost THEN Lost ELSE At(At(p, 4).next, Int32(At(p, 4).data))
    BY DEF getString
  <2>4. QED
    BY <2>1, <2>2, <2>3
<1>3. s \in Bytes /\ Len(s) = Len(body) - n
  <2> DEFINE j == Len(body) - n + 4
  <2>1. j \in Int /\ j <= Len(body) /\ 5 <= j + 1 /\ j - 5 + 1 = Len(body) - n
    BY <1>1
  <2> HIDE DEF j
  <2>2. SubSeq(body, 5, j) \in Bytes /\ Len(SubSeq(body, 5, j)) = IF 5 <= j THEN j - 5 + 1 ELSE 0
    BY <2>1, Part
  <2>3. Len(SubSeq(body, 5, j)) = Len(body) - n
    BY <1>1, <2>1, <2>2
  <2>4. QED
    BY <2>2, <2>3 DEF j
<1>4. Holds(m_fileData, p + 4, s)
  <2> DEFINE j == Len(body) - n + 4
  <2>1. j \in Int /\ j <= Len(body) /\ 5 <= j + 1 /\ p + 5 - 1 = p + 4
    BY <1>1 DEF Holds
  <2> HIDE DEF j
  <2>2. Holds(m_fileData, p + 5 - 1, SubSeq(body, 5, j))
    BY <2>1, HoldsPart
  <2>3. QED
    BY <2>1, <2>2 DEF j
<1> HIDE DEF s
<1>5. At(p + 4, Len(s)) = [data |-> s, next |-> p + 4 + Len(s)]
  BY <1>3, <1>4, AtHolds
<1>6. p + 4 + Len(s) = p + Len(body) - n + 4
  BY <1>1, <1>3 DEF Holds
<1>7. QED
  BY <1>2, <1>3, <1>5, <1>6 DEF s

ElementAt(p, e) ==
  /\ m_fileData \in Bytes
  /\ e \in Element /\ Shaped(e)
  /\ Holds(m_fileData, p, EncodedElement(e))

(* How an element of that type, name and body is laid out. *)
Laid(ty, nm, bd) == Cat(Cat(Cat(<<ty>>, nm), <<0>>), bd)

(* A byte is a sequence of one byte.                                        *)
LEMMA OneByte ==
  ASSUME NEW b \in Byte
  PROVE  <<b>> \in Bytes /\ Len(<<b>>) = 1 /\ <<b>>[1] = b
BY SingletonSeq DEF Bytes

(* Bytes concatenated are bytes.                                            *)
LEMMA CatBytes ==
  ASSUME NEW a \in Bytes, NEW b \in Bytes
  PROVE  /\ Cat(a, b) \in Bytes
         /\ Len(Cat(a, b)) = Len(a) + Len(b)
         /\ Len(a) > 0 => Cat(a, b)[1] = a[1]
<1>1. a \in Seq(Byte) /\ b \in Seq(Byte) /\ Len(a) \in Nat
  BY LenProperties DEF Bytes
<1>2. Cat(a, b) \in Seq(Byte) /\ Len(Cat(a, b)) = Len(a) + Len(b)
  BY <1>1, CatTyped
<1>3. ASSUME Len(a) > 0 PROVE Cat(a, b)[1] = a[1]
  <2>1. 1 \in 1 .. Len(a)
    BY <1>1, <1>3
  <2>2. QED
    BY <1>1, <2>1, CatLeft
<1>4. QED
  BY <1>2, <1>3 DEF Bytes

(* An element laid out is bytes.                                            *)
LEMMA LaidTyped ==
  ASSUME NEW ty \in Byte, NEW nm \in Bytes, NEW bd \in Bytes
  PROVE  /\ Laid(ty, nm, bd) \in Bytes
         /\ Len(Laid(ty, nm, bd)) = 2 + Len(nm) + Len(bd)
         /\ Laid(ty, nm, bd)[1] = ty
<1> DEFINE t == <<ty>>
           z == <<0>>
           u == Cat(t, nm)
           v == Cat(u, z)
           w == Cat(v, bd)
<1>1. t \in Bytes /\ Len(t) = 1 /\ t[1] = ty
  BY OneByte
<1>2. z \in Bytes /\ Len(z) = 1
  <2>1. 0 \in Byte
    BY DEF Byte
  <2>2. QED
    BY <2>1, OneByte
<1>3. Laid(ty, nm, bd) = w
  BY DEF Laid
<1> HIDE DEF t, z
<1>4. u \in Bytes /\ Len(u) = Len(t) + Len(nm) /\ (Len(t) > 0 => u[1] = t[1])
  BY <1>1, CatBytes
<1> HIDE DEF u
<1>5. v \in Bytes /\ Len(v) = Len(u) + Len(z) /\ (Len(u) > 0 => v[1] = u[1])
  BY <1>2, <1>4, CatBytes
<1> HIDE DEF v
<1>6. w \in Bytes /\ Len(w) = Len(v) + Len(bd) /\ (Len(v) > 0 => w[1] = v[1])
  BY <1>5, CatBytes
<1> HIDE DEF w
<1>7. Len(nm) \in Nat /\ Len(bd) \in Nat
  BY LenProperties DEF Bytes
<1>8. QED
  BY <1>1, <1>2, <1>3, <1>4, <1>5, <1>6, <1>7

(* Where an element is held its type, its name, the 00 and its body follow  *)
(* one another.                                                             *)
LEMMA LaidParts ==
  ASSUME NEW ty \in Byte, NEW nm \in Seq(Byte \ {0}), NEW bd \in Bytes, NEW p,
         m_fileData \in Bytes, Holds(m_fileData, p, Laid(ty, nm, bd))
  PROVE  /\ p \in Nat /\ p > 0
         /\ m_fileData[p] = ty
         /\ getName(p + 1) = [data |-> nm, next |-> p + 2 + Len(nm)]
         /\ Holds(m_fileData, p + 2 + Len(nm), bd)
         /\ p + Len(Laid(ty, nm, bd)) = p + 2 + Len(nm) + Len(bd)
         /\ p + Len(Laid(ty, nm, bd)) <= Len(m_fileData) + 1
<1> DEFINE t == <<ty>>
           z == <<0>>
           u == Cat(t, nm)
           v == Cat(u, z)
           zn == Cat(nm, z)
<1>1. t \in Bytes /\ Len(t) = 1 /\ t[1] = ty
  BY OneByte
<1>2. z \in Bytes /\ Len(z) = 1
  <2>1. 0 \in Byte
    BY DEF Byte
  <2>2. QED
    BY <2>1, OneByte
<1>3. nm \in Bytes
  BY SeqMonotonic DEF Bytes
<1>4. Len(nm) \in Nat /\ Len(bd) \in Nat /\ p \in Nat /\ p > 0
  BY <1>3, LenProperties DEF Bytes, Holds
<1>5. Laid(ty, nm, bd) = Cat(v, bd)
  BY DEF Laid
<1> HIDE DEF t
<1>6. zn \in Bytes /\ v = Cat(t, zn)
  <2> HIDE DEF z
  <2>1. QED
    BY <1>1, <1>2, <1>3, CatTyped, CatAssociative DEF Bytes
<1>7. u \in Bytes /\ Len(u) = Len(t) + Len(nm)
  BY <1>1, <1>3, CatTyped DEF Bytes
<1>8. v \in Bytes /\ Len(v) = Len(u) + Len(z)
  <2> HIDE DEF z, u
  <2>1. QED
    BY <1>2, <1>7, CatTyped DEF Bytes
<1> HIDE DEF v, u
<1>9. Holds(m_fileData, p, v) /\ Holds(m_fileData, p + Len(v), bd)
  BY <1>5, <1>8, HoldsCat
<1>10. Holds(m_fileData, p, t) /\ Holds(m_fileData, p + Len(t), zn)
  <2> HIDE DEF zn
  <2>1. QED
    BY <1>1, <1>6, <1>9, HoldsCat
<1>11. m_fileData[p] = ty
  <2>1. m_fileData[p + 1 - 1] = t[1]
    BY <1>1, <1>10 DEF Holds
  <2>2. QED
    BY <1>1, <1>4, <2>1
<1>12. getName(p + 1) = [data |-> nm, next |-> p + 1 + Len(nm) + 1]
  <2>1. Holds(m_fileData, p + 1, Cat(nm, <<0>>))
    BY <1>1, <1>10
  <2>2. QED
    BY <2>1, NameValue
<1>13. p + 1 + Len(nm) + 1 = p + 2 + Len(nm) /\ p + Len(v) = p + 2 + Len(nm)
  BY <1>1, <1>2, <1>4, <1>7, <1>8
<1>14. p + Len(Laid(ty, nm, bd)) = p + 2 + Len(nm) + Len(bd)
  <2>1. Len(Laid(ty, nm, bd)) = 2 + Len(nm) + Len(bd)
    BY <1>3, LaidTyped
  <2>2. QED
    BY <1>4, <2>1
<1>15. QED
  BY <1>4, <1>9, <1>11, <1>12, <1>13, <1>14 DEF Holds

(* An encoded element is its type, its name, 00 and its body.               *)
LEMMA ElementLaid ==
  ASSUME NEW e \in Element
  PROVE  /\ e.type \in Byte /\ e.type # 0
         /\ e.name \in Seq(Byte \ {0}) /\ e.name \in Bytes
         /\ e.body \in Bytes
         /\ EncodedElement(e) = Laid(e.type, e.name, e.body)
<1>1. e.type \in Byte /\ e.type # 0 /\ e.name \in Seq(Byte \ {0}) /\ e.body \in Bytes
  BY DEF Element, Bytes
<1>2. e.name \in Bytes
  BY <1>1, SeqMonotonic DEF Bytes
<1>3. EncodedElement(e) = Laid(e.type, e.name, e.body)
  BY DEF EncodedElement, Laid, Cat
<1>4. QED
  BY <1>1, <1>2, <1>3

-----------------------------------------------------------------------------
(* BSON: what parse_token keeps of each type of element.                    *)

LaidAt(p, ty, nm, bd) ==
  /\ ty \in Byte /\ nm \in Seq(Byte \ {0}) /\ nm \in Bytes /\ bd \in Bytes
  /\ m_fileData \in Bytes
  /\ Holds(m_fileData, p, Laid(ty, nm, bd))

BodyOf(p, nm) == p + 2 + Len(nm)

TokenOf(nm, data, next) == [name |-> nm, data |-> data, next |-> next]

(* The type and the name that are read of an element, and where its body    *)
(* begins.                                                                  *)
LEMMA LaidAtParts ==
  ASSUME NEW p, NEW ty, NEW nm, NEW bd, LaidAt(p, ty, nm, bd)
  PROVE  /\ getName(p + 1) = [data |-> nm, next |-> BodyOf(p, nm)]
         /\ Holds(m_fileData, BodyOf(p, nm), bd)
         /\ BodyOf(p, nm) \in Nat /\ BodyOf(p, nm) > 0
         /\ Len(bd) \in Nat
         /\ bd \in Bytes /\ m_fileData \in Bytes
<1>1. Len(nm) \in Nat /\ Len(bd) \in Nat
  BY LenProperties DEF LaidAt, Bytes
<1>2. /\ ty \in Byte /\ nm \in Seq(Byte \ {0}) /\ bd \in Bytes
      /\ m_fileData \in Bytes /\ Holds(m_fileData, p, Laid(ty, nm, bd))
  BY DEF LaidAt
<1>3. /\ p \in Nat /\ p > 0
      /\ getName(p + 1) = [data |-> nm, next |-> p + 2 + Len(nm)]
      /\ Holds(m_fileData, p + 2 + Len(nm), bd)
  BY <1>2, LaidParts
<1>4. p + 2 + Len(nm) \in Nat /\ p + 2 + Len(nm) > 0
  BY <1>1, <1>3
<1>5. QED
  BY <1>1, <1>2, <1>3, <1>4 DEF BodyOf

(* What is kept of a body of fixed length, and where the next element       *)
(* begins.                                                                  *)
LEMMA KeptValue ==
  ASSUME NEW nm, NEW d, NEW n, NEW q
  PROVE  Kept([data |-> nm, next |-> q], [data |-> d, next |-> n]) = TokenOf(nm, d, n)
BY DEF Kept, TokenOf

(* Where a body of fixed length is held, its bytes are kept.                *)
LEMMA FixedRead ==
  ASSUME NEW p, NEW ty, NEW nm, NEW bd, LaidAt(p, ty, nm, bd)
  PROVE  /\ getName(p + 1).next = BodyOf(p, nm)
         /\ At(BodyOf(p, nm), Len(bd)) = [data |-> bd, next |-> BodyOf(p, nm) + Len(bd)]
         /\ Kept(getName(p + 1), At(BodyOf(p, nm), Len(bd))) = TokenOf(nm, bd, BodyOf(p, nm) + Len(bd))
<1> DEFINE q == BodyOf(p, nm)
<1>1. getName(p + 1) = [data |-> nm, next |-> q]
  BY LaidAtParts
<1>2. At(q, Len(bd)) = [data |-> bd, next |-> q + Len(bd)]
  BY LaidAtParts, AtHolds
<1> HIDE DEF q
<1>3. getName(p + 1).next = q
  BY <1>1
<1>4. QED
  BY <1>1, <1>2, <1>3, KeptValue DEF q

(* The tokens of a fixed width. *)
LEMMA FixedTokens ==
  ASSUME NEW p, NEW ty, NEW nm, NEW bd, LaidAt(p, ty, nm, bd)
  PROVE  LET t == TokenOf(nm, bd, BodyOf(p, nm) + Len(bd))
         IN /\ Len(bd) = 8 => x01Token(p) = t /\ x09Token(p) = t /\ x11Token(p) = t
            /\ Len(bd) = 0 => x06Token(p) = t /\ x0AToken(p) = t /\ x7FToken(p) = t
            /\ Len(bd) = 12 => x07Token(p) = t
            /\ Len(bd) = 4 => x10Token(p) = t
<1> DEFINE q == BodyOf(p, nm)
           t == TokenOf(nm, bd, q + Len(bd))
<1>1. /\ getName(p + 1).next = q
      /\ Kept(getName(p + 1), At(q, Len(bd))) = t
  BY FixedRead
<1> HIDE DEF q, t
<1>2. ASSUME Len(bd) = 8 PROVE x01Token(p) = t /\ x09Token(p) = t /\ x11Token(p) = t
  BY <1>1, <1>2 DEF x01Token, x09Token, x11Token
<1>3. ASSUME Len(bd) = 0 PROVE x06Token(p) = t /\ x0AToken(p) = t /\ x7FToken(p) = t
  BY <1>1, <1>3 DEF x06Token, x0AToken, x7FToken
<1>4. ASSUME Len(bd) = 12 PROVE x07Token(p) = t
  BY <1>1, <1>4 DEF x07Token
<1>5. ASSUME Len(bd) = 4 PROVE x10Token(p) = t
  BY <1>1, <1>5 DEF x10Token
<1>6. QED
  BY <1>2, <1>3, <1>4, <1>5 DEF q, t

(* The types whose body is a string, its length first: the string is kept.  *)
LEMMA StringTokens ==
  ASSUME NEW p, NEW ty, NEW nm, NEW bd, LaidAt(p, ty, nm, bd), Sized(bd, 4)
  PROVE  LET t == TokenOf(nm, SubSeq(bd, 5, Len(bd)), BodyOf(p, nm) + Len(bd))
         IN x02Token(p) = t /\ x0DToken(p) = t /\ x0EToken(p) = t
<1> DEFINE q == BodyOf(p, nm)
           s == SubSeq(bd, 5, Len(bd))
<1>1. getName(p + 1) = [data |-> nm, next |-> q] /\ q \in Nat /\ Len(bd) \in Nat
  BY LaidAtParts
<1>2. getString(q) = [data |-> s, next |-> q + Len(bd)]
  <2>1. getString(q) = [data |-> SubSeq(bd, 5, Len(bd) - 4 + 4), next |-> q + Len(bd) - 4 + 4]
    BY LaidAtParts, StringRead
  <2>2. Len(bd) - 4 + 4 = Len(bd) /\ q + Len(bd) - 4 + 4 = q + Len(bd)
    BY <1>1
  <2>3. QED
    BY <2>1, <2>2
<1> HIDE DEF q, s
<1>3. getName(p + 1).next = q
  BY <1>1
<1>4. Kept(getName(p + 1), getString(q)) = TokenOf(nm, s, q + Len(bd))
  BY <1>1, <1>2, KeptValue
<1>5. QED
  BY <1>3, <1>4 DEF x02Token, x0DToken, x0EToken, q, s

(* A boolean is kept when it is 00 or 01.                                   *)
LEMMA BooleanToken ==
  ASSUME NEW p, NEW ty, NEW nm, NEW bd, LaidAt(p, ty, nm, bd), bd \in {<< 0 >>, << 1 >>},
         NEW v \in x08Values(p)
  PROVE  \E d : /\ x08Token(p, v) = TokenOf(nm, d, BodyOf(p, nm) + Len(bd))
                /\ d = << 1 >> => bd = << 1 >>
<1> DEFINE q == BodyOf(p, nm)
           d == <<IF v THEN 1 ELSE 0>>
<1>1. getName(p + 1) = [data |-> nm, next |-> q] /\ Len(bd) = 1
  BY LaidAtParts
<1>2. At(q, 1) = [data |-> bd, next |-> q + 1]
  BY <1>1, FixedRead
<1> HIDE DEF q
<1>3. getName(p + 1).next = q /\ At(q, 1).data = bd
  BY <1>1, <1>2
<1>4. bd # <<1>> => v = FALSE
  BY <1>3 DEF x08Values
<1>5. [At(q, 1) EXCEPT !.data = d] = [data |-> d, next |-> q + 1]
  BY <1>2
<1>6. x08Token(p, v) = Kept(getName(p + 1), [At(q, 1) EXCEPT !.data = d])
  BY <1>3 DEF x08Token
<1>7. bd # <<1>> => d # <<1>>
  BY <1>4
<1> HIDE DEF d
<1>8. x08Token(p, v) = TokenOf(nm, d, q + 1)
  BY <1>1, <1>5, <1>6, KeptValue
<1>9. QED
  BY <1>1, <1>7, <1>8 DEF q

(* The zeros of a regular expression's body end its two strings. *)
TwoStrings(bd, i) ==
  /\ i \in 1 .. Len(bd) - 1
  /\ \A k \in 1 .. Len(bd) : bd[k] = 0 <=> k \in {i, Len(bd)}

(* A part of bytes without a zero, and the zero after it. *)
LEMMA CutString ==
  ASSUME NEW bd \in Bytes, NEW i \in Nat, NEW j \in 1 .. Len(bd), 1 <= i, i <= j,
         \A k \in i .. j - 1 : bd[k] # 0, bd[j] = 0
  PROVE  /\ SubSeq(bd, i, j - 1) \in Seq(Byte \ {0})
         /\ Cat(SubSeq(bd, i, j - 1), << 0 >>) = SubSeq(bd, i, j)
         /\ Len(SubSeq(bd, i, j - 1)) = j - i
<1>1. Len(bd) \in Nat /\ \A k \in 1 .. Len(bd) : bd[k] \in Byte
  BY LenProperties, ElementOfSeq DEF Bytes
<1>2. \A k \in i .. j - 1 : bd[k] \in Byte \ {0}
  BY <1>1
<1>3. SubSeq(bd, i, j - 1) \in Seq(Byte \ {0})
  BY <1>1, <1>2, SubSeqProperties
<1>4. SubSeq(bd, i, j - 1) \o <<bd[j]>> = SubSeq(bd, i, j)
  <2>1. bd \in Seq(Byte) /\ i \in 1 .. Len(bd) /\ j \in i .. Len(bd)
    BY <1>1 DEF Bytes
  <2>2. QED
    BY <2>1, SubSeqRecursiveSecond
<1>5. Len(SubSeq(bd, i, j - 1)) = j - i
  <2>1. Len(SubSeq(bd, i, j - 1)) = IF i <= j - 1 THEN j - 1 - i + 1 ELSE 0
    BY <1>1, <1>2, SubSeqProperties
  <2>2. QED
    BY <1>1, <2>1
<1>6. QED
  BY <1>3, <1>4, <1>5 DEF Cat

(* A regular expression and its options are kept with a 00 between them.    *)
LEMMA RegexToken ==
  ASSUME NEW p, NEW ty, NEW nm, NEW bd, LaidAt(p, ty, nm, bd), NEW i, TwoStrings(bd, i)
  PROVE  x0BToken(p) = TokenOf(nm, bd, BodyOf(p, nm) + Len(bd))
<1> DEFINE q == BodyOf(p, nm)
           n == Len(bd)
           a == SubSeq(bd, 1, i - 1)
           b == SubSeq(bd, i + 1, n - 1)
           z == <<0>>
<1>1. /\ getName(p + 1) = [data |-> nm, next |-> q]
      /\ Holds(m_fileData, q, bd) /\ q \in Nat /\ q > 0 /\ n \in Nat
      /\ bd \in Bytes /\ m_fileData \in Bytes
  BY LaidAtParts
<1>2. i \in 1 .. n - 1 /\ n \in 1 .. n /\ \A k \in 1 .. n : bd[k] = 0 <=> k \in {i, n}
  BY <1>1 DEF TwoStrings
<1> HIDE DEF q
<1>3. /\ a \in Seq(Byte \ {0}) /\ Cat(a, z) = SubSeq(bd, 1, i) /\ Len(a) = i - 1
  <2>1. /\ i \in 1 .. Len(bd) /\ 1 <= i /\ bd[i] = 0
        /\ \A k \in 1 .. i - 1 : bd[k] # 0
    BY <1>1, <1>2
  <2> HIDE DEF n
  <2>2. Len(SubSeq(bd, 1, i - 1)) = i - 1
    BY <1>1, <2>1, CutString
  <2>3. QED
    BY <1>1, <2>1, <2>2, CutString
<1>4. /\ b \in Seq(Byte \ {0}) /\ Cat(b, z) = SubSeq(bd, i + 1, n) /\ Len(b) = n - (i + 1)
  <2>1. /\ n \in 1 .. Len(bd) /\ 1 <= i + 1 /\ i + 1 <= n /\ bd[n] = 0 /\ i + 1 \in Nat
        /\ \A k \in i + 1 .. n - 1 : bd[k] # 0
    BY <1>1, <1>2
  <2> DEFINE i1 == i + 1
  <2> HIDE DEF i1, n
  <2>2. /\ n \in 1 .. Len(bd) /\ 1 <= i1 /\ i1 <= n /\ bd[n] = 0 /\ i1 \in Nat
        /\ \A k \in i1 .. n - 1 : bd[k] # 0
    BY <2>1 DEF i1
  <2>3. /\ SubSeq(bd, i1, n - 1) \in Seq(Byte \ {0})
        /\ Cat(SubSeq(bd, i1, n - 1), <<0>>) = SubSeq(bd, i1, n)
        /\ Len(SubSeq(bd, i1, n - 1)) = n - i1
    BY <1>1, <2>2, CutString
  <2>4. QED
    BY <2>3 DEF i1
<1>5. Holds(m_fileData, q, Cat(a, z))
  <2>1. Holds(m_fileData, q + 1 - 1, SubSeq(bd, 1, i))
    BY <1>1, <1>2, HoldsPart
  <2>2. q + 1 - 1 = q
    BY <1>1
  <2> HIDE DEF a, z
  <2>3. QED
    BY <1>3, <2>1, <2>2
<1>6. Holds(m_fileData, q + i, Cat(b, z))
  <2> DEFINE i1 == i + 1
  <2>1. i1 \in Nat /\ 1 <= i1 /\ i1 <= n + 1 /\ n \in Int /\ n <= Len(bd)
    BY <1>1, <1>2
  <2> HIDE DEF i1, n
  <2>2. Holds(m_fileData, q + i1 - 1, SubSeq(bd, i1, n))
    BY <1>1, <2>1, HoldsPart
  <2>3. q + i1 - 1 = q + i
    BY <1>1, <1>2 DEF i1
  <2> HIDE DEF b, z
  <2>4. QED
    BY <1>4, <2>2, <2>3 DEF i1
<1>7. getCstring(q) = [data |-> a, next |-> q + i]
  <2>1. getName(q) = [data |-> a, next |-> q + Len(a) + 1]
    <3> HIDE DEF a
    <3>1. QED
      BY <1>1, <1>3, <1>5, NameValue
  <2>2. q + Len(a) + 1 = q + i
    BY <1>1, <1>2, <1>3
  <2>3. QED
    BY <2>1, <2>2 DEF getCstring
<1>8. getCstring(q + i) = [data |-> b, next |-> q + n]
  <2>1. getName(q + i) = [data |-> b, next |-> q + i + Len(b) + 1]
    <3> HIDE DEF b
    <3>1. QED
      BY <1>1, <1>4, <1>6, NameValue
  <2>2. q + i + Len(b) + 1 = q + n
    <3> HIDE DEF b, n
    <3>1. QED
      BY <1>1, <1>2, <1>4
  <2>3. QED
    BY <2>1, <2>2 DEF getCstring
<1>9. Cat(Cat(Cat(a, z), b), z) = bd
  <2>1. Cat(SubSeq(bd, 1, i), SubSeq(bd, i + 1, n)) = bd
    <3>1. i \in 0 .. Len(bd)
      BY <1>1, <1>2
    <3>2. Cat(FirstOf(bd, i), RestOf(bd, i)) = bd
      BY <1>1, <3>1, FrontBack DEF Bytes
    <3>3. QED
      BY <3>2 DEF FirstOf, RestOf
  <2> HIDE DEF a, b, z
  <2>2. Cat(Cat(a, z), Cat(b, z)) = bd
    BY <1>3, <1>4, <2>1
  <2>3. a \in Bytes /\ b \in Bytes /\ z \in Bytes
    <3>1. z \in Bytes
      BY DEF z, Bytes, Byte
    <3>2. QED
      BY <1>3, <1>4, <3>1, SeqMonotonic DEF Bytes
  <2>4. Cat(a, z) \in Bytes
    BY <2>3, CatBytes
  <2>5. Cat(Cat(Cat(a, z), b), z) = Cat(Cat(a, z), Cat(b, z))
    BY <2>3, <2>4, CatAssociative DEF Bytes
  <2>6. QED
    BY <2>2, <2>5
<1> HIDE DEF a, b, n
<1>10. a \o <<0>> \o b \o <<0>> = bd
  BY <1>9 DEF Cat
<1>11. getName(p + 1).next = q /\ getCstring(q).next = q + i /\ getCstring(q).data = a
  BY <1>1, <1>7
<1>12. x0BToken(p) = Kept(getName(p + 1),
            [getCstring(q + i) EXCEPT !.data = a \o <<0>> \o @ \o <<0>>])
  BY <1>11 DEF x0BToken
<1> DEFINE x == a \o <<0>> \o b \o <<0>>
           g == getCstring(q + i)
<1>13. [g EXCEPT !.data = a \o <<0>> \o @ \o <<0>>] = [data |-> bd, next |-> q + n]
  <2>1. g = [data |-> b, next |-> q + n]
    BY <1>8
  <2> HIDE DEF g
  <2>2. g.data = b
    BY <2>1
  <2>3. a \o <<0>> \o g.data \o <<0>> = bd
    BY <1>10, <2>2, Zenon
  <2> DEFINE y == a \o <<0>> \o g.data \o <<0>>
  <2> HIDE DEF y
  <2>4. [g EXCEPT !.data = y] = [data |-> y, next |-> q + n]
    BY <2>1
  <2>5. QED
    BY <2>3, <2>4 DEF y
<1>14. x0BToken(p) = Kept(getName(p + 1), [data |-> bd, next |-> q + n])
  BY <1>12, <1>13
<1>15. x0BToken(p) = TokenOf(nm, bd, q + n)
  BY <1>1, <1>14, KeptValue
<1>16. QED
  BY <1>15 DEF q, n

(* What is read of a part of an element's body. *)
LEMMA PartRead ==
  ASSUME NEW q, NEW bd \in Bytes, m_fileData \in Bytes, Holds(m_fileData, q, bd),
         NEW i \in Nat, NEW j \in Int, 1 <= i, i <= j + 1, j <= Len(bd)
  PROVE  At(q + i - 1, j - i + 1) = [data |-> SubSeq(bd, i, j), next |-> q + j]
<1> DEFINE s == SubSeq(bd, i, j)
           r == q + i - 1
<1>1. q \in Nat /\ q > 0
  BY DEF Holds
<1>2. s \in Bytes /\ Len(s) = j - i + 1
  <2>1. s \in Bytes /\ Len(s) = IF i <= j THEN j - i + 1 ELSE 0
    BY Part
  <2> HIDE DEF s
  <2>2. QED
    BY <2>1
<1>3. Holds(m_fileData, r, s)
  BY HoldsPart
<1>4. r + Len(s) = q + j
  <2> HIDE DEF s
  <2>1. QED
    BY <1>1, <1>2
<1> HIDE DEF r, s
<1>5. At(r, Len(s)) = [data |-> s, next |-> r + Len(s)]
  BY <1>2, <1>3, AtHolds
<1>6. At(r, j - i + 1) = [data |-> s, next |-> q + j]
  BY <1>2, <1>4, <1>5
<1>7. QED
  BY <1>6 DEF r, s

(* A pointer keeps its string and the twelve bytes after it.                *)
LEMMA PointerToken ==
  ASSUME NEW p, NEW ty, NEW nm, NEW bd, LaidAt(p, ty, nm, bd), Sized(bd, 16)
  PROVE  x0CToken(p) = TokenOf(nm, SubSeq(bd, Len(bd) - 11, Len(bd)), BodyOf(p, nm) + Len(bd))
<1> DEFINE q == BodyOf(p, nm)
           n == Len(bd)
           s == SubSeq(bd, n - 11, n)
<1>1. /\ getName(p + 1) = [data |-> nm, next |-> q]
      /\ Holds(m_fileData, q, bd) /\ q \in Nat /\ q > 0 /\ n \in Nat
      /\ bd \in Bytes /\ m_fileData \in Bytes
  BY LaidAtParts
<1>2. n >= 16
  BY DEF Sized
<1> HIDE DEF q
<1>3. getString(q).next = q + n - 16 + 4
  <2>1. getString(q) = [data |-> SubSeq(bd, 5, n - 16 + 4), next |-> q + n - 16 + 4]
    BY <1>1, StringRead
  <2> DEFINE b5 == SubSeq(bd, 5, n - 16 + 4)
  <2> HIDE DEF b5, n
  <2>2. QED
    BY <2>1
<1>4. At(q + (n - 11) - 1, n - (n - 11) + 1) = [data |-> s, next |-> q + n]
  <2> DEFINE i == n - 11
  <2>1. i \in Nat /\ n \in Int /\ 1 <= i /\ i <= n + 1 /\ n <= Len(bd)
    BY <1>1, <1>2
  <2> HIDE DEF i, n
  <2>2. At(q + i - 1, n - i + 1) = [data |-> SubSeq(bd, i, n), next |-> q + n]
    BY <1>1, <2>1, PartRead
  <2>3. QED
    BY <2>2 DEF i
<1> HIDE DEF n, s
<1>5. q + (n - 11) - 1 = q + n - 16 + 4 /\ n - (n - 11) + 1 = 12
  BY <1>1, <1>2
<1>6. At(getString(q).next, 12) = [data |-> s, next |-> q + n]
  BY <1>3, <1>4, <1>5
<1>7. getName(p + 1).next = q
  BY <1>1
<1>8. x0CToken(p) = TokenOf(nm, s, q + n)
  BY <1>1, <1>6, <1>7, KeptValue DEF x0CToken
<1>9. QED
  BY <1>8 DEF n, s, q

(* A binary keeps its bytes, with its subtype as the code puts it.          *)
LEMMA BinaryToken ==
  ASSUME NEW p, NEW ty, NEW nm, NEW bd, LaidAt(p, ty, nm, bd), Sized(bd, 5),
         Len(bd) <= 6 \/ bd[5] \notin 0 .. 5 \union {80}
  PROVE  x05Token(p).next = BodyOf(p, nm) + Len(bd)
<1> DEFINE q == BodyOf(p, nm)
           n == Len(bd)
           b4 == SubSeq(bd, 1, 4)
           b5 == SubSeq(bd, 5, 5)
           b6 == SubSeq(bd, 6, n)
           name == getName(p + 1)
           size == At(name.next, 4)
           subtype == At(size.next, 1)
           bytes == At(subtype.next, Int32(size.data))
<1>1. /\ name = [data |-> nm, next |-> q]
      /\ Holds(m_fileData, q, bd) /\ q \in Nat /\ q > 0 /\ n \in Nat
      /\ bd \in Bytes /\ m_fileData \in Bytes
  BY LaidAtParts
<1>2. n >= 5
  BY DEF Sized
<1>3. name.next = q /\ name # Lost
  <2> HIDE DEF name
  <2>1. QED
    BY <1>1 DEF Lost, Beyond
<1>4. At(q, 4) = [data |-> b4, next |-> q + 4] /\ At(q, 4) # Lost /\ Int32(b4) = n - 5
  <2> HIDE DEF q
  <2>1. QED
    BY <1>1, SizeRead
<1> HIDE DEF name, q, b4
<1>5. size = At(q, 4)
  BY <1>3
<1> HIDE DEF size
<1>6. size.next = q + 4 /\ size.data = b4 /\ size # Lost
  BY <1>4, <1>5
<1>7. At(q + 4, 1) = [data |-> b5, next |-> q + 5]
  <2>1. At(q + 5 - 1, 5 - 5 + 1) = [data |-> SubSeq(bd, 5, 5), next |-> q + 5]
    <3> DEFINE i == 5
    <3>1. i \in Nat /\ i \in Int /\ 1 <= i /\ i <= i + 1 /\ i <= Len(bd)
      BY <1>1, <1>2
    <3> HIDE DEF i, n
    <3>2. At(q + i - 1, i - i + 1) = [data |-> SubSeq(bd, i, i), next |-> q + i]
      BY <1>1, <3>1, PartRead
    <3>3. QED
      BY <3>2 DEF i
  <2>2. q + 5 - 1 = q + 4 /\ 5 - 5 + 1 = 1
    BY <1>1
  <2>3. QED
    BY <2>1, <2>2
<1>8. b5[1] = bd[5]
  <2>1. \A k \in 1 .. 5 - 5 + 1 : SubSeq(bd, 5, 5)[k] = bd[5 + k - 1]
    BY <1>1, <1>2, Part
  <2> HIDE DEF b5
  <2>2. QED
    BY <2>1 DEF b5
<1> HIDE DEF b5
<1>9. subtype = [data |-> b5, next |-> q + 5]
  BY <1>6, <1>7
<1> HIDE DEF subtype
<1>10. subtype.next = q + 5 /\ subtype.data = b5 /\ subtype # Lost
  BY <1>1, <1>9 DEF Lost, Beyond
<1>11. At(q + 5, n - 5) = [data |-> b6, next |-> q + n]
  <2>1. 6 \in Nat /\ n \in Int /\ 1 <= 6 /\ 6 <= n + 1 /\ n <= Len(bd)
    BY <1>1, <1>2
  <2> HIDE DEF n
  <2>2. At(q + 6 - 1, n - 6 + 1) = [data |-> SubSeq(bd, 6, n), next |-> q + n]
    BY <1>1, <2>1, PartRead
  <2>3. q + 6 - 1 = q + 5 /\ n - 6 + 1 = n - 5
    BY <1>1
  <2>4. QED
    BY <2>2, <2>3
<1> HIDE DEF b6, n
<1>12. bytes = [data |-> b6, next |-> q + n]
  BY <1>4, <1>6, <1>10, <1>11
<1>13. Int32(size.data) = n - 5
  BY <1>4, <1>6
<1> HIDE DEF bytes
<1>14. x05Token(p) =
         IF subtype.data[1] \notin 0 .. 5 \union {80} THEN Kept(name, [bytes EXCEPT !.data = <<>>])
         ELSE IF Int32(size.data) > 1 THEN Kept(name, Lost) ELSE Kept(name, bytes)
  <2>1. Lost \notin {name, size, subtype}
    BY <1>3, <1>6, <1>10
  <2>2. QED
    BY <2>1 DEF x05Token, name, size, subtype, bytes
<1>15. Kept(name, [bytes EXCEPT !.data = <<>>]).next = q + n /\ Kept(name, bytes).next = q + n
  BY <1>12 DEF Kept
<1>16. CASE bd[5] \notin 0 .. 5 \union {80}
  BY <1>8, <1>10, <1>14, <1>15, <1>16 DEF q, n
<1>17. CASE bd[5] \in 0 .. 5 \union {80}
  <2>1. ~(n - 5 > 1)
    BY <1>1, <1>17 DEF n
  <2>2. x05Token(p) = Kept(name, bytes)
    BY <1>8, <1>10, <1>13, <1>14, <1>17, <2>1
  <2>3. QED
    BY <1>15, <2>2 DEF q, n
<1>18. QED
  BY <1>16, <1>17

(* A nested document, array or code with scope is lost with the data of the *)
(* parser.                                                                  *)
LEMMA NestedTokens ==
  ASSUME NEW p
  PROVE  x03Token(p).next = Beyond /\ x04Token(p).next = Beyond /\ x0FToken(p).next = Beyond
BY DEF x03Token, x04Token, x0FToken, parseNested, Kept, Lost

(* A number of 64 bits is kept, but the byte read as the next type is its   *)
(* last one.                                                                *)
LEMMA Int64Token ==
  ASSUME NEW p, NEW ty, NEW nm, NEW bd, LaidAt(p, ty, nm, bd), Len(bd) = 8
  PROVE  /\ x12Token(p).next = p + 9
         /\ 10 <= Len(Laid(ty, nm, bd))
         /\ m_fileData[p + 9] = Laid(ty, nm, bd)[10]
<1> DEFINE w == Laid(ty, nm, bd)
<1>1. w \in Bytes /\ Len(w) = 2 + Len(nm) + Len(bd) /\ Len(nm) \in Nat /\ Len(m_fileData) \in Nat
  BY LaidTyped, LenProperties DEF LaidAt, Bytes
<1>2. /\ p \in Nat /\ p > 0 /\ p + Len(w) <= Len(m_fileData) + 1
      /\ \A k \in 1 .. Len(w) : m_fileData[p + k - 1] = w[k]
  BY DEF LaidAt, Holds
<1> HIDE DEF w
<1>3. 10 \in 1 .. Len(w)
  BY <1>1
<1>4. m_fileData[p + 10 - 1] = w[10]
  BY <1>2, <1>3
<1>5. p + 10 - 1 = p + 9
  BY <1>2
<1>6. At(p + 1, 8).next = p + 9
  <2>1. ~(p + 1 = Beyond \/ 8 < 0 \/ p + 1 + 8 > Len(m_fileData) + 1)
    BY <1>1, <1>2 DEF Beyond
  <2>2. p + 1 \in Nat /\ 8 \in Int
    BY <1>2
  <2>3. At(p + 1, 8) = [data |-> SubSeq(m_fileData, p + 1, p + 1 + 8 - 1), next |-> p + 1 + 8]
    BY <2>1, <2>2, AtValue
  <2> DEFINE d == SubSeq(m_fileData, p + 1, p + 1 + 8 - 1)
  <2> HIDE DEF d
  <2>4. At(p + 1, 8).next = p + 1 + 8
    BY <2>3
  <2>5. QED
    BY <1>2, <2>4
<1>7. x12Token(p).next = p + 9
  BY <1>6 DEF x12Token, Kept
<1>8. QED
  BY <1>3, <1>4, <1>5, <1>7 DEF w

(* What a token read of an element is. *)
ReadOf(t, p, e) ==
  /\ t.next = IF e.type = 18 THEN p + 9 ELSE p + Len(EncodedElement(e))
  /\ e.type \in Faithful =>
       /\ t.name = e.name
       /\ IF e.type = 8 THEN t.data = <<1>> => e.body = <<1>> ELSE t.data = BodyKept(e)

(* An element of a document laid out where it is held.                      *)
LEMMA ElementLaidAt ==
  ASSUME NEW p, NEW e, ElementAt(p, e)
  PROVE  /\ LaidAt(p, e.type, e.name, e.body)
         /\ EncodedElement(e) = Laid(e.type, e.name, e.body)
         /\ BodyOf(p, e.name) + Len(e.body) = p + Len(EncodedElement(e))
         /\ Len(e.body) \in Nat
         /\ Shaped(e)
<1> DEFINE ty == e.type
           nm == e.name
           bd == e.body
           w == Laid(ty, nm, bd)
<1>1. /\ ty \in Byte /\ nm \in Seq(Byte \ {0}) /\ nm \in Bytes /\ bd \in Bytes
      /\ EncodedElement(e) = w
  BY ElementLaid DEF ElementAt
<1>2. Shaped(e) /\ m_fileData \in Bytes /\ Holds(m_fileData, p, EncodedElement(e))
  BY DEF ElementAt
<1> HIDE DEF ty, nm, bd
<1>3. LaidAt(p, ty, nm, bd)
  BY <1>1, <1>2 DEF LaidAt
<1>4. Len(w) = 2 + Len(nm) + Len(bd) /\ p \in Nat
  BY <1>1, <1>2, LaidTyped DEF Holds
<1>5. Len(nm) \in Nat /\ Len(bd) \in Nat
  BY <1>1, LenProperties DEF Bytes
<1> HIDE DEF w
<1>6. p + 2 + Len(nm) + Len(bd) = p + Len(w)
  BY <1>4, <1>5
<1>7. QED
  BY <1>1, <1>2, <1>3, <1>5, <1>6 DEF BodyOf, w, ty, nm, bd

(* The fields of the token read.                                            *)
LEMMA TokenFields ==
  ASSUME NEW nm, NEW d, NEW n
  PROVE  TokenOf(nm, d, n).name = nm /\ TokenOf(nm, d, n).data = d /\ TokenOf(nm, d, n).next = n
BY DEF TokenOf

(* The body of a regular expression is two strings, each ended by 00.       *)
LEMMA RegexShaped ==
  ASSUME NEW bd \in Bytes,
         \E i \in 1 .. Len(bd) - 1 : {k \in DOMAIN bd : bd[k] = 0} = {i, Len(bd)}
  PROVE  \E i : TwoStrings(bd, i)
<1>1. PICK i \in 1 .. Len(bd) - 1 : {k \in DOMAIN bd : bd[k] = 0} = {i, Len(bd)}
  OBVIOUS
<1>2. DOMAIN bd = 1 .. Len(bd)
  BY LenProperties DEF Bytes
<1>3. ASSUME NEW k \in 1 .. Len(bd) PROVE bd[k] = 0 <=> k \in {i, Len(bd)}
  <2>1. k \in {j \in DOMAIN bd : bd[j] = 0} <=> bd[k] = 0
    BY <1>2
  <2>2. QED
    BY <1>1, <2>1
<1>4. QED
  BY <1>3 DEF TwoStrings

(* Every element that is not misread is read to its end, as it says, unless *)
(* it is a 64-bit integer. *)
LEMMA ElementRead ==
  ASSUME NEW p, NEW e, ElementAt(p, e), ~Misread(e), e.type \in tokenType,
         NEW t \in parse(e.type, p)
  PROVE  ReadOf(t, p, e)
<1> DEFINE ty == e.type
           nm == e.name
           bd == e.body
           end == p + Len(EncodedElement(e))
<1>1. /\ LaidAt(p, ty, nm, bd) /\ BodyOf(p, nm) + Len(bd) = end /\ Len(bd) \in Nat /\ Shaped(e)
      /\ EncodedElement(e) = Laid(ty, nm, bd)
  BY ElementLaidAt
<1>2. ty \in tokenType /\ ty \notin {3, 4, 15}
  BY DEF Misread
<1>3. ty \in Int
  BY <1>2 DEF tokenType
<1>4. SUFFICES /\ t.next = IF ty = 18 THEN p + 9 ELSE end
               /\ ty \in Faithful =>
                    /\ t.name = nm
                    /\ IF ty = 8 THEN t.data = <<1>> => bd = <<1>> ELSE t.data = BodyKept(e)
  BY DEF ReadOf
<1>5. /\ ty \in {1, 9, 17, 18}  => Len(bd) = 8
      /\ ty \in {2, 13, 14}     => Sized(bd, 4)
      /\ ty = 5                 => Sized(bd, 5)
      /\ ty \in {6, 10, 127}    => bd = <<>>
      /\ ty = 7                 => Len(bd) = 12
      /\ ty = 8                 => bd \in {<<0>>, <<1>>}
      /\ ty = 11 => \E i \in 1 .. Len(bd) - 1 : {k \in DOMAIN bd : bd[k] = 0} = {i, Len(bd)}
      /\ ty = 12                => Sized(bd, 16)
      /\ ty = 16                => Len(bd) = 4
  BY <1>1 DEF Shaped
<1>6. ty = 5 => Len(bd) <= 6 \/ bd[5] \notin 0 .. 5 \union {80}
  BY <1>1 DEF Misread
<1>7. /\ ty = 12 => BodyKept(e) = SubSeq(bd, Len(bd) - 11, Len(bd))
      /\ ty \in {2, 13, 14} => BodyKept(e) = SubSeq(bd, 5, Len(bd))
      /\ ty \notin {2, 12, 13, 14} => BodyKept(e) = bd
  BY DEF BodyKept
<1>8. t \in parse(ty, p)
  OBVIOUS
<1> HIDE DEF ty, nm, bd, end
<1>9. CASE ty \in {1, 6, 7, 9, 10, 16, 17, 127}
  <2>1. t = TokenOf(nm, bd, end)
    <3>1. Len(<<>>) = 0
      OBVIOUS
    <3>2. CASE ty = 1
      BY <1>1, <1>5, <1>8, <3>2, FixedTokens DEF parse
    <3>3. CASE ty = 6
      BY <1>1, <1>5, <1>8, <3>1, <3>3, FixedTokens DEF parse
    <3>4. CASE ty = 7
      BY <1>1, <1>5, <1>8, <3>4, FixedTokens DEF parse
    <3>5. CASE ty = 9
      BY <1>1, <1>5, <1>8, <3>5, FixedTokens DEF parse
    <3>6. CASE ty = 10
      BY <1>1, <1>5, <1>8, <3>1, <3>6, FixedTokens DEF parse
    <3>7. CASE ty = 16
      BY <1>1, <1>5, <1>8, <3>7, FixedTokens DEF parse
    <3>8. CASE ty = 17
      BY <1>1, <1>5, <1>8, <3>8, FixedTokens DEF parse
    <3>9. CASE ty = 127
      BY <1>1, <1>5, <1>8, <3>1, <3>9, FixedTokens DEF parse
    <3>10. QED
      BY <1>9, <3>2, <3>3, <3>4, <3>5, <3>6, <3>7, <3>8, <3>9
  <2>2. BodyKept(e) = bd /\ ty # 18 /\ ty # 8
    BY <1>7, <1>9
  <2>3. QED
    BY <2>1, <2>2, TokenFields
<1>10. CASE ty \in {2, 13, 14}
  <2> DEFINE d == SubSeq(bd, 5, Len(bd))
  <2>1. BodyKept(e) = d /\ Sized(bd, 4) /\ ty # 18 /\ ty # 8
    BY <1>5, <1>7, <1>10
  <2>2. x02Token(p) = TokenOf(nm, d, end) /\ x0DToken(p) = TokenOf(nm, d, end)
          /\ x0EToken(p) = TokenOf(nm, d, end)
    BY <1>1, <2>1, StringTokens
  <2> HIDE DEF d
  <2>3. t = TokenOf(nm, d, end)
    <3>1. CASE ty = 2
      BY <1>8, <2>2, <3>1 DEF parse
    <3>2. CASE ty = 13
      BY <1>8, <2>2, <3>2 DEF parse
    <3>3. CASE ty = 14
      BY <1>8, <2>2, <3>3 DEF parse
    <3>4. QED
      BY <1>10, <3>1, <3>2, <3>3
  <2>4. QED
    BY <2>1, <2>3, TokenFields
<1>11. CASE ty = 5
  <2>1. t = x05Token(p)
    BY <1>8, <1>11 DEF parse
  <2>2. t.next = end
    BY <1>1, <1>5, <1>6, <1>11, <2>1, BinaryToken
  <2>3. ty \notin Faithful
    BY <1>11 DEF Faithful
  <2>4. QED
    BY <1>11, <2>2, <2>3
<1>12. CASE ty = 8
  <2>1. PICK v \in x08Values(p) : t = x08Token(p, v)
    BY <1>8, <1>12 DEF parse
  <2>2. PICK d : x08Token(p, v) = TokenOf(nm, d, end) /\ (d = <<1>> => bd = <<1>>)
    BY <1>1, <1>5, <1>12, BooleanToken
  <2>3. t = TokenOf(nm, d, end)
    BY <2>1, <2>2
  <2>4. t.data = d /\ t.name = nm /\ t.next = end
    BY <2>3, TokenFields
  <2>5. QED
    BY <1>12, <2>2, <2>4
<1>13. CASE ty = 11
  <2>1. PICK i : TwoStrings(bd, i)
    BY <1>1, <1>5, <1>13, RegexShaped DEF LaidAt
  <2>2. x0BToken(p) = TokenOf(nm, bd, end)
    BY <1>1, <2>1, RegexToken
  <2>3. t = x0BToken(p)
    BY <1>8, <1>13 DEF parse
  <2>4. BodyKept(e) = bd
    BY <1>7, <1>13
  <2>5. QED
    BY <1>13, <2>2, <2>3, <2>4, TokenFields
<1>14. CASE ty = 12
  <2> DEFINE d == SubSeq(bd, Len(bd) - 11, Len(bd))
  <2>1. x0CToken(p) = TokenOf(nm, d, end)
    BY <1>1, <1>5, <1>14, PointerToken
  <2>2. t = x0CToken(p)
    BY <1>8, <1>14 DEF parse
  <2>3. BodyKept(e) = d
    BY <1>7, <1>14
  <2> HIDE DEF d
  <2>4. QED
    BY <1>14, <2>1, <2>2, <2>3, TokenFields
<1>15. CASE ty = 18
  <2>1. t = x12Token(p)
    BY <1>8, <1>15 DEF parse
  <2>2. x12Token(p).next = p + 9
    BY <1>1, <1>5, <1>15, Int64Token
  <2>3. ty \notin Faithful
    BY <1>15 DEF Faithful
  <2>4. QED
    BY <1>15, <2>1, <2>2, <2>3
<1>16. ty \in {1, 6, 7, 9, 10, 16, 17, 127} \/ ty \in {2, 13, 14} \/ ty = 5 \/ ty = 8
         \/ ty = 11 \/ ty = 12 \/ ty = 18
  BY <1>2, <1>3 DEF tokenType
<1>17. QED
  BY <1>9, <1>10, <1>11, <1>12, <1>13, <1>14, <1>15, <1>16

(* What a read gives, and what a token of it is. *)
Read == [data : Bytes, next : Nat]
TokenRead == [name : Bytes, data : Bytes, next : Nat]

(* A byte read is a byte, or lost.                                          *)
LEMMA AtTyped ==
  ASSUME NEW p \in Nat, NEW n \in Int, m_fileData \in Bytes
  PROVE  /\ At(p, n) \in Read
         /\ At(p, n) # Lost => Len(At(p, n).data) = n
<1>1. Len(m_fileData) \in Nat
  BY LenProperties DEF Bytes
<1>2. Lost \in Read
  BY DEF Lost, Read, Bytes, Beyond
<1>3. CASE p = Beyond \/ n < 0 \/ p + n > Len(m_fileData) + 1
  BY <1>2, <1>3 DEF At
<1>4. CASE ~(p = Beyond \/ n < 0 \/ p + n > Len(m_fileData) + 1)
  <2> DEFINE s == SubSeq(m_fileData, p, p + n - 1)
  <2>1. At(p, n) = [data |-> s, next |-> p + n] /\ p + n \in Nat
    BY <1>1, <1>4 DEF At
  <2>2. \A i \in p .. p + n - 1 : m_fileData[i] \in Byte
    BY <1>1, <1>4, ElementOfSeq DEF Bytes, Beyond
  <2>3. s \in Bytes /\ Len(s) = n
    BY <1>1, <1>4, <2>2, SubSeqProperties DEF Bytes, Beyond
  <2> HIDE DEF s
  <2>4. QED
    BY <2>1, <2>3 DEF Read
<1>5. QED
  BY <1>3, <1>4

(* A size read is a number.                                                 *)
LEMMA SizeTyped ==
  ASSUME NEW p \in Nat, m_fileData \in Bytes, At(p, 4) # Lost
  PROVE  Int32(At(p, 4).data) \in Int
<1> DEFINE b == At(p, 4).data
<1>1. b \in Bytes /\ Len(b) = 4
  <2> DEFINE n == 4
  <2>1. n \in Int /\ n = 4
    OBVIOUS
  <2> HIDE DEF n
  <2>2. At(p, n) \in Read /\ (At(p, n) # Lost => Len(At(p, n).data) = n)
    BY <2>1, AtTyped
  <2>3. QED
    BY <2>1, <2>2 DEF Read
<1> HIDE DEF b
<1>2. \A i \in 1 .. 4 : b[i] \in Int
  <2>1. \A i \in 1 .. 4 : b[i] \in Byte
    BY <1>1, ElementOfSeq DEF Bytes
  <2>2. Byte \subseteq Int
    BY DEF Byte
  <2> HIDE DEF b
  <2>3. QED
    BY <2>1, <2>2
<1>3. Int32(b) \in Int
  BY <1>2 DEF Int32
<1>4. QED
  BY <1>3 DEF b

(* Beyond the data nothing is read.                                         *)
LEMMA LostRead == ASSUME NEW n PROVE At(Beyond, n) = Lost
BY DEF At

(* A name read is bytes, and the position after it a number.                *)
LEMMA NameTyped ==
  ASSUME NEW p \in Nat, m_fileData \in Bytes
  PROVE  getName(p) \in Read /\ getCstring(p) \in Read
<1> DEFINE ends == {q \in p .. Len(m_fileData) : m_fileData[q] = 0}
<1>1. Len(m_fileData) \in Nat
  BY LenProperties DEF Bytes
<1>2. Lost \in Read
  BY DEF Lost, Read, Bytes, Beyond
<1>3. CASE p = Beyond \/ ends = {}
  BY <1>2, <1>3 DEF getName, getCstring
<1>4. CASE p # Beyond /\ ends # {}
  <2> DEFINE q == CHOOSE q \in ends : \A r \in ends : q <= r
             s == SubSeq(m_fileData, p, q - 1)
  <2>1. \E z \in ends : \A r \in ends : z <= r
    <3>1. ends \subseteq Nat
      BY <1>1
    <3> HIDE DEF ends
    <3>2. QED
      BY <1>4, <3>1, SmallestMember
  <2>2. q \in ends
    BY <2>1
  <2>3. q \in p .. Len(m_fileData)
    BY <2>2
  <2>4. getName(p) = [data |-> s, next |-> q + 1]
    BY <1>4 DEF getName
  <2> HIDE DEF q, ends
  <2>5. \A i \in p .. q - 1 : m_fileData[i] \in Byte
    BY <1>1, <1>4, <2>3, ElementOfSeq DEF Bytes, Beyond
  <2>6. s \in Bytes
    BY <1>1, <1>4, <2>3, <2>5, SubSeqProperties DEF Bytes, Beyond
  <2> HIDE DEF s
  <2>7. QED
    BY <2>3, <2>4, <2>6 DEF Read, getCstring
<1>5. QED
  BY <1>3, <1>4

(* A string read is bytes, and the position after it a number.              *)
LEMMA StringTyped ==
  ASSUME NEW p \in Nat, m_fileData \in Bytes
  PROVE  getString(p) \in Read /\ getDocument(p) \in Read
<1>1. Lost \in Read /\ 4 \in Int
  BY DEF Lost, Read, Bytes, Beyond
<1>2. CASE At(p, 4) = Lost
  BY <1>1, <1>2 DEF getString, getDocument
<1>3. CASE At(p, 4) # Lost
  <2>1. Int32(At(p, 4).data) \in Int /\ At(p, 4).next \in Nat
    BY <1>1, <1>3, SizeTyped, AtTyped DEF Read
  <2>2. At(At(p, 4).next, Int32(At(p, 4).data)) \in Read
    BY <2>1, AtTyped
  <2>3. QED
    BY <1>3, <2>2 DEF getString, getDocument
<1>4. QED
  BY <1>2, <1>3

(* A body kept is bytes, and the position after it a number.                *)
LEMMA KeptTyped ==
  ASSUME NEW n \in Read, NEW r \in Read
  PROVE  Kept(n, r) \in TokenRead
BY DEF Kept, Read, TokenRead

(* A token made of a name and of data that are read.                        *)
LEMMA DataTyped ==
  ASSUME NEW r \in Read, NEW d \in Bytes
  PROVE  [r EXCEPT !.data = d] \in Read
BY DEF Read

(* A sequence of one byte.                                                  *)
LEMMA BytesTyped == ASSUME NEW b \in Byte PROVE <<b>> \in Bytes
BY SingletonSeq DEF Bytes

(* Whatever the bytes are, a token is a name and some bytes of the file. *)
LEMMA ParseTyped ==
  ASSUME NEW p \in Nat, NEW ty, ty \in tokenType, m_fileData \in Bytes, NEW t \in parse(ty, p)
  PROVE  t \in TokenRead
<1> DEFINE name == getName(p + 1)
<1>1. p + 1 \in Nat /\ name \in Read
  BY NameTyped
<1>2. name.next \in Nat /\ name.data \in Bytes
  BY <1>1 DEF Read
<1>3. t \in parse(ty, p)
  OBVIOUS
<1>4. Lost \in Read /\ <<>> \in Bytes /\ <<0>> \in Bytes
  BY BytesTyped DEF Lost, Read, Bytes, Beyond, Byte
<1>5. \A n \in {0, 1, 4, 8, 12} : At(name.next, n) \in Read
  BY <1>2, AtTyped
<1>6. Kept(name, Lost) \in TokenRead
  BY <1>1, <1>4, KeptTyped
<1>7. CASE ty \in {1, 6, 7, 9, 10, 16, 17, 127}
  <2>1. \A n \in {0, 4, 8, 12} : Kept(name, At(name.next, n)) \in TokenRead
    BY <1>1, <1>5, KeptTyped
  <2>2. t \in {Kept(name, At(name.next, n)) : n \in {0, 4, 8, 12}}
    BY <1>3, <1>7 DEF parse, x01Token, x06Token, x07Token, x09Token, x0AToken, x10Token, x11Token, x7FToken
  <2>3. QED
    BY <2>1, <2>2
<1>8. CASE ty \in {2, 13, 14}
  <2>1. Kept(name, getString(name.next)) \in TokenRead
    BY <1>1, <1>2, StringTyped, KeptTyped
  <2>2. t = Kept(name, getString(name.next))
    BY <1>3, <1>8 DEF parse, x02Token, x0DToken, x0EToken
  <2>3. QED
    BY <2>1, <2>2
<1>9. CASE ty \in {3, 4, 15}
  <2>1. t = Kept(name, Lost)
    BY <1>3, <1>9 DEF parse, x03Token, x04Token, x0FToken, parseNested
  <2>2. QED
    BY <1>6, <2>1
<1>10. CASE ty = 5
  <2> DEFINE size == At(name.next, 4)
             subtype == At(size.next, 1)
             bytes == At(subtype.next, Int32(size.data))
  <2>1. t = x05Token(p)
    BY <1>3, <1>10 DEF parse
  <2>2. CASE Lost \in {name, size, subtype}
    BY <1>6, <2>1, <2>2 DEF x05Token
  <2>3. CASE Lost \notin {name, size, subtype}
    <3>1. size \in Read /\ size # Lost
      BY <1>5, <2>3
    <3>2. Int32(size.data) \in Int
      BY <1>2, <3>1, SizeTyped
    <3>3. subtype \in Read
      <4> DEFINE n == 1
      <4>1. n \in Int /\ size.next \in Nat
        BY <3>1 DEF Read
      <4> HIDE DEF n, size
      <4>2. At(size.next, n) \in Read
        BY <4>1, AtTyped
      <4>3. QED
        BY <4>2 DEF n
    <3>4. bytes \in Read
      BY <3>2, <3>3, AtTyped DEF Read
    <3>5. t \in {Kept(name, [bytes EXCEPT !.data = <<>>]), Kept(name, Lost), Kept(name, bytes)}
      <4> HIDE DEF name, size, subtype, bytes
      <4>1. x05Token(p) = IF subtype.data[1] \notin 0 .. 5 \union {80} THEN Kept(name, [bytes EXCEPT !.data = <<>>])
                          ELSE IF Int32(size.data) > 1 THEN Kept(name, Lost) ELSE Kept(name, bytes)
        BY <2>3 DEF x05Token, name, size, subtype, bytes
      <4>2. QED
        BY <2>1, <4>1
    <3> HIDE DEF name, size, subtype, bytes
    <3>6. QED
      BY <1>1, <1>4, <1>6, <3>4, <3>5, KeptTyped, DataTyped
  <2>4. QED
    BY <2>2, <2>3
<1>11. CASE ty = 8
  <2>1. PICK v \in x08Values(p) : t = x08Token(p, v)
    BY <1>3, <1>11 DEF parse
  <2>2. <<IF v THEN 1 ELSE 0>> \in Bytes
    <3>1. (IF v THEN 1 ELSE 0) \in Byte
      BY DEF Byte
    <3>2. QED
      BY <3>1, BytesTyped
  <2> DEFINE d == <<IF v THEN 1 ELSE 0>>
  <2>3. t = Kept(name, [At(name.next, 1) EXCEPT !.data = d])
    BY <2>1 DEF x08Token
  <2> HIDE DEF d, name
  <2>4. QED
    BY <1>1, <1>5, <2>2, <2>3, DataTyped, KeptTyped DEF d
<1>12. CASE ty = 11
  <2> DEFINE pattern == getCstring(name.next)
             options == getCstring(pattern.next)
             d == pattern.data \o <<0>> \o options.data \o <<0>>
  <2>1. pattern \in Read
    BY <1>2, NameTyped
  <2>2. options \in Read
    BY <2>1, NameTyped DEF Read
  <2>3. t = Kept(name, [options EXCEPT !.data = d])
    BY <1>3, <1>12 DEF parse, x0BToken
  <2> HIDE DEF pattern, options
  <2>4. d \in Bytes
    BY <1>4, <2>1, <2>2, ConcatProperties DEF Read, Bytes
  <2> HIDE DEF d
  <2>5. QED
    BY <1>1, <2>2, <2>3, <2>4, DataTyped, KeptTyped
<1>13. CASE ty = 12
  <2>1. t = Kept(name, At(getString(name.next).next, 12))
    BY <1>3, <1>13 DEF parse, x0CToken
  <2>2. getString(name.next).next \in Nat
    BY <1>2, StringTyped DEF Read
  <2>3. QED
    BY <1>1, <2>1, <2>2, AtTyped, KeptTyped
<1>14. CASE ty = 18
  <2>1. t = Kept([data |-> <<>>], At(p + 1, 8))
    BY <1>3, <1>14 DEF parse, x12Token
  <2>2. At(p + 1, 8) \in Read
    BY <1>1, AtTyped
  <2>3. QED
    BY <1>4, <2>1, <2>2 DEF Kept, Read, TokenRead
<1>15. QED
  BY <1>7, <1>8, <1>9, <1>10, <1>11, <1>12, <1>13, <1>14 DEF tokenType

-----------------------------------------------------------------------------
(* BSON: where the elements of a document and the documents of a file lie.  *)

(* The bytes of a document, and where its elements begin after its size. *)
Elements(es) == [i \in 1 .. Len(es) |-> EncodedElement(es[i])]
BodyOfDocument(es) == FlattenSeq(Elements(es))
Offset(es, k) == Len(FlatTo(Elements(es), k))

Document == [elements : Seq(Element), last : Byte]
SoundDocument(d) ==
  /\ d \in Document
  /\ \A k \in DOMAIN d.elements : Shaped(d.elements[k])
  /\ Len(EncodedDocument(d)) <= MaxSize

DocumentAt(s, d) ==
  /\ m_fileData \in Bytes /\ SoundDocument(d)
  /\ Holds(m_fileData, s, EncodedDocument(d))

(* The size that begins a document is four bytes.                           *)
LEMMA SizeBytes ==
  ASSUME NEW n \in Nat
  PROVE  EncodedInt32(n) \in Bytes /\ Len(EncodedInt32(n)) = 4
<1>1. /\ n \div 256 \in Nat /\ n \div 65536 \in Nat /\ n \div 16777216 \in Nat
  BY SMT
<1>2. \A x \in Nat : x % 256 \in Byte
  BY SMT DEF Byte
<1> DEFINE a == n % 256
           b == (n \div 256) % 256
           c == (n \div 65536) % 256
           d == (n \div 16777216) % 256
<1>3. a \in Byte /\ b \in Byte /\ c \in Byte /\ d \in Byte
  BY <1>1, <1>2
<1>4. EncodedInt32(n) = <<a, b, c, d>>
  BY DEF EncodedInt32
<1> HIDE DEF a, b, c, d
<1>5. QED
  BY <1>3, <1>4 DEF Bytes

(* The elements encoded are bytes, one sequence each.                       *)
LEMMA ElementsTyped ==
  ASSUME NEW es \in Seq(Element)
  PROVE  /\ Elements(es) \in Seq(Bytes)
         /\ Len(Elements(es)) = Len(es)
         /\ \A k \in 1 .. Len(es) : es[k] \in Element /\ Elements(es)[k] = EncodedElement(es[k])
<1>1. Len(es) \in Nat
  BY LenProperties
<1>2. ASSUME NEW k \in 1 .. Len(es) PROVE es[k] \in Element /\ EncodedElement(es[k]) \in Bytes
  <2>1. es[k] \in Element
    BY <1>1, <1>2, ElementOfSeq
  <2> DEFINE ty == es[k].type
             nm == es[k].name
             bd == es[k].body
  <2>2. /\ ty \in Byte /\ nm \in Seq(Byte \ {0}) /\ nm \in Bytes /\ bd \in Bytes
        /\ EncodedElement(es[k]) = Laid(ty, nm, bd)
    BY <2>1, ElementLaid
  <2> HIDE DEF ty, nm, bd
  <2>3. QED
    BY <2>1, <2>2, LaidTyped
<1>3. QED
  BY <1>1, <1>2 DEF Elements

(* A document encoded is its size, its elements and its last byte.          *)
LEMMA DocumentLaid ==
  ASSUME NEW d, SoundDocument(d)
  PROVE  LET body == BodyOfDocument(d.elements)
             size == EncodedInt32(Len(body) + 5)
         IN /\ body \in Bytes /\ size \in Bytes /\ <<d.last>> \in Bytes
            /\ Len(body) \in Nat /\ Len(size) = 4
            /\ EncodedDocument(d) = Cat(Cat(size, body), <<d.last>>)
            /\ EncodedDocument(d) \in Bytes
            /\ Len(EncodedDocument(d)) = Len(body) + 5
            /\ Int32(size) = Len(body) + 5
<1> DEFINE body == BodyOfDocument(d.elements)
           size == EncodedInt32(Len(body) + 5)
           z == <<d.last>>
<1>1. d.elements \in Seq(Element) /\ d.last \in Byte
  BY DEF SoundDocument, Document
<1>2. body \in Bytes
  BY <1>1, ElementsTyped, FlattenTyped DEF BodyOfDocument, Bytes
<1>3. z \in Bytes /\ Len(z) = 1
  BY <1>1, SingletonSeq DEF Bytes
<1>4. EncodedDocument(d) = Cat(Cat(size, body), z)
  BY DEF EncodedDocument, BodyOfDocument, Elements, Cat
<1> HIDE DEF body, z
<1>5. Len(body) \in Nat
  BY <1>2, LenProperties DEF Bytes
<1>6. size \in Bytes /\ Len(size) = 4
  BY <1>5, SizeBytes
<1> DEFINE n == Len(body) + 5
<1>7. n \in Nat
  BY <1>5
<1>8. size = EncodedInt32(n)
  OBVIOUS
<1> HIDE DEF size, n
<1>9. Cat(size, body) \in Bytes /\ Len(Cat(size, body)) = 4 + Len(body)
  BY <1>2, <1>6, CatTyped DEF Bytes
<1>10. EncodedDocument(d) \in Bytes /\ Len(EncodedDocument(d)) = 4 + Len(body) + 1
  <2> DEFINE sb == Cat(size, body)
  <2>1. sb \in Bytes /\ Len(sb) = 4 + Len(body) /\ EncodedDocument(d) = Cat(sb, z)
    BY <1>4, <1>9
  <2> HIDE DEF sb
  <2>2. Cat(sb, z) \in Bytes /\ Len(Cat(sb, z)) = Len(sb) + Len(z)
    BY <1>3, <2>1, CatTyped DEF Bytes
  <2>3. QED
    BY <1>3, <2>1, <2>2
<1>11. Len(EncodedDocument(d)) = n
  BY <1>5, <1>10 DEF n
<1>12. n <= MaxSize
  BY <1>11 DEF SoundDocument
<1>13. Int32(size) = n
  BY <1>7, <1>8, <1>12, Int32Encoded
<1>14. QED
  BY <1>2, <1>3, <1>4, <1>5, <1>6, <1>10, <1>11, <1>13 DEF n, size, body, z

(* What is read of a document before its elements, and after them. *)
LEMMA DocumentRead ==
  ASSUME NEW s, NEW d, DocumentAt(s, d)
  PROVE  LET n == Len(EncodedDocument(d))
         IN /\ s \in Nat /\ s > 0 /\ n \in Nat /\ n >= 5 /\ s + n <= Len(m_fileData) + 1
            /\ Len(m_fileData) \in Nat
            /\ At(s, 4) # Lost
            /\ Int32(At(s, 4).data) = n
            /\ At(s, n) = [data |-> EncodedDocument(d), next |-> s + n]
            /\ Last(EncodedDocument(d)) = d.last
            /\ m_fileData[s + n - 1] = d.last
            /\ d.last \in Byte
<1> DEFINE doc == EncodedDocument(d)
           n == Len(doc)
           body == BodyOfDocument(d.elements)
           size == EncodedInt32(Len(body) + 5)
           z == <<d.last>>
<1>1. SoundDocument(d) /\ m_fileData \in Bytes /\ Holds(m_fileData, s, doc)
  BY DEF DocumentAt
<1>2. /\ body \in Bytes /\ size \in Bytes /\ z \in Bytes
      /\ Len(body) \in Nat /\ Len(size) = 4
      /\ doc = Cat(Cat(size, body), z)
      /\ doc \in Bytes /\ n = Len(body) + 5 /\ Int32(size) = Len(body) + 5
  BY <1>1, DocumentLaid
<1>3. Len(z) = 1 /\ z[1] = d.last /\ d.last \in Byte
  <2>1. d.last \in Byte
    BY <1>1 DEF SoundDocument, Document
  <2>2. QED
    BY <2>1, SingletonSeq
<1> HIDE DEF doc, body, size, z
<1>4. s \in Nat /\ s > 0 /\ s + n <= Len(m_fileData) + 1 /\ Len(m_fileData) \in Nat
  BY <1>1, LenProperties DEF Holds, Bytes
<1>5. Cat(size, body) \in Bytes /\ Len(Cat(size, body)) = 4 + Len(body)
  BY <1>2, CatTyped DEF Bytes
<1>6. Holds(m_fileData, s, Cat(size, body)) /\ Holds(m_fileData, s + Len(Cat(size, body)), z)
  BY <1>1, <1>2, <1>5, HoldsCat
<1>7. Holds(m_fileData, s, size)
  BY <1>1, <1>2, <1>6, HoldsCat
<1>8. At(s, 4) = [data |-> size, next |-> s + 4]
  <2>1. At(s, Len(size)) = [data |-> size, next |-> s + Len(size)]
    BY <1>1, <1>2, <1>7, AtHolds
  <2>2. QED
    BY <1>2, <2>1
<1>9. At(s, 4) # Lost
  <2>1. s + 4 # Beyond
    BY <1>4 DEF Beyond
  <2>2. QED
    BY <1>8, <2>1 DEF Lost
<1>10. At(s, n) = [data |-> doc, next |-> s + n]
  BY <1>1, <1>2, AtHolds
<1>11. doc[n] = d.last
  <2> DEFINE sb == Cat(size, body)
             i == 1
  <2>1. sb \in Bytes /\ Len(sb) = 4 + Len(body) /\ doc = Cat(sb, z) /\ i \in 1 .. Len(z) /\ i = 1
    BY <1>2, <1>3, <1>5
  <2> HIDE DEF sb, i
  <2>2. Cat(sb, z)[Len(sb) + i] = z[i]
    <3>1. sb \in Seq(Byte) /\ z \in Seq(Byte) /\ i \in 1 .. Len(z)
      BY <1>2, <2>1 DEF Bytes
    <3> HIDE DEF z
    <3>2. QED
      BY <3>1, CatRight
  <2>3. Len(sb) + i = n
    BY <1>2, <2>1
  <2>4. QED
    BY <1>3, <2>1, <2>2, <2>3
<1>12. m_fileData[s + n - 1] = d.last
  <2>1. m_fileData[s + n - 1] = doc[n]
    BY <1>1, <1>2 DEF Holds
  <2>2. QED
    BY <1>11, <2>1
<1>13. QED
  BY <1>2, <1>3, <1>4, <1>8, <1>9, <1>10, <1>11, <1>12 DEF Last, doc, n

(* The offset of an element in the body of its document.                    *)
LEMMA OffsetTyped ==
  ASSUME NEW es \in Seq(Element)
  PROVE  /\ Len(BodyOfDocument(es)) \in Nat
         /\ Offset(es, 0) = 0 /\ Offset(es, Len(es)) = Len(BodyOfDocument(es))
         /\ \A k \in 1 .. Len(es) :
              /\ Offset(es, k - 1) \in Nat /\ Offset(es, k) \in Nat
              /\ Len(EncodedElement(es[k])) \in Nat
              /\ Offset(es, k) = Offset(es, k - 1) + Len(EncodedElement(es[k]))
              /\ Offset(es, k) <= Len(BodyOfDocument(es))
<1> DEFINE ss == Elements(es)
<1>1. /\ ss \in Seq(Bytes) /\ Len(ss) = Len(es)
      /\ \A k \in 1 .. Len(es) : es[k] \in Element /\ ss[k] = EncodedElement(es[k])
  BY ElementsTyped
<1>2. /\ Offset(es, 0) = Len(FlatTo(ss, 0)) /\ \A k \in 1 .. Len(es) : Offset(es, k) = Len(FlatTo(ss, k))
      /\ \A k \in 1 .. Len(es) : Offset(es, k - 1) = Len(FlatTo(ss, k - 1))
      /\ Offset(es, Len(es)) = Len(FlatTo(ss, Len(es)))
      /\ BodyOfDocument(es) = FlattenSeq(ss)
  BY DEF Offset, BodyOfDocument
<1> HIDE DEF ss
<1>3. BodyOfDocument(es) \in Bytes /\ Len(BodyOfDocument(es)) \in Nat
  BY <1>1, <1>2, FlattenTyped, LenProperties DEF Bytes
<1>4. Offset(es, 0) = 0 /\ Offset(es, Len(es)) = Len(BodyOfDocument(es))
  <2>1. FlatTo(ss, 0) = <<>> /\ FlatTo(ss, Len(ss)) = FlattenSeq(ss)
    BY <1>1, FlatToEdges DEF Bytes
  <2>2. Len(<<>>) = 0
    OBVIOUS
  <2>3. QED
    BY <1>1, <1>2, <2>1, <2>2
<1>5. ASSUME NEW k \in 1 .. Len(es)
      PROVE  /\ Offset(es, k - 1) \in Nat /\ Offset(es, k) \in Nat
             /\ Len(EncodedElement(es[k])) \in Nat
             /\ Offset(es, k) = Offset(es, k - 1) + Len(EncodedElement(es[k]))
             /\ Offset(es, k) <= Len(BodyOfDocument(es))
  <2>1. /\ FlatTo(ss, k - 1) \in Bytes /\ ss[k] \in Bytes
        /\ FlatTo(ss, k) = Cat(FlatTo(ss, k - 1), ss[k])
    BY <1>1, FlatToNext DEF Bytes
  <2>2. /\ Len(FlatTo(ss, k)) = Len(FlatTo(ss, k - 1)) + Len(ss[k])
        /\ Len(FlatTo(ss, k - 1)) \in Nat /\ Len(ss[k]) \in Nat
    BY <2>1, CatTyped, LenProperties DEF Bytes
  <2>3. PICK r \in Bytes : FlattenSeq(ss) = Cat(FlatTo(ss, k - 1), Cat(ss[k], r))
    BY <1>1, FlattenPiece DEF Bytes
  <2>4. /\ Len(FlattenSeq(ss)) = Len(FlatTo(ss, k - 1)) + (Len(ss[k]) + Len(r)) /\ Len(r) \in Nat
    <3>1. Cat(ss[k], r) \in Bytes /\ Len(Cat(ss[k], r)) = Len(ss[k]) + Len(r) /\ Len(r) \in Nat
      BY <2>1, CatTyped, LenProperties DEF Bytes
    <3>2. QED
      BY <2>1, <2>3, <3>1, CatTyped DEF Bytes
  <2>5. ss[k] = EncodedElement(es[k])
    BY <1>1
  <2> DEFINE x == Len(FlatTo(ss, k - 1))
             y == Len(FlatTo(ss, k))
             l == Len(ss[k])
             n == Len(FlattenSeq(ss))
  <2>6. y = x + l /\ x \in Nat /\ l \in Nat /\ n = x + (l + Len(r)) /\ Len(r) \in Nat
    BY <2>2, <2>4
  <2>7. /\ Offset(es, k - 1) = x /\ Offset(es, k) = y
        /\ Len(EncodedElement(es[k])) = l /\ Len(BodyOfDocument(es)) = n
    BY <1>2, <2>5
  <2> HIDE DEF x, y, l, n
  <2>8. y \in Nat /\ y <= n
    BY <2>6
  <2>9. QED
    BY <2>6, <2>7, <2>8
<1>6. QED
  BY <1>3, <1>4, <1>5

(* Each element of a document is where those before it end. *)
LEMMA DocumentElements ==
  ASSUME NEW s, NEW d, DocumentAt(s, d), NEW k \in 1 .. Len(d.elements)
  PROVE  ElementAt(s + 4 + Offset(d.elements, k - 1), d.elements[k])
<1> DEFINE es == d.elements
           ss == Elements(es)
           doc == EncodedDocument(d)
           body == BodyOfDocument(es)
           size == EncodedInt32(Len(body) + 5)
           z == <<d.last>>
           before == FlatTo(ss, k - 1)
           w == ss[k]
<1>1. SoundDocument(d) /\ m_fileData \in Bytes /\ Holds(m_fileData, s, doc)
  BY DEF DocumentAt
<1>2. es \in Seq(Element) /\ k \in DOMAIN es /\ Shaped(es[k])
  <2>1. es \in Seq(Element) /\ \A j \in DOMAIN es : Shaped(es[j])
    BY <1>1 DEF SoundDocument, Document
  <2> HIDE DEF es
  <2>2. k \in DOMAIN es
    BY <2>1, LenProperties DEF es
  <2>3. QED
    BY <2>1, <2>2
<1>3. /\ ss \in Seq(Bytes) /\ Len(ss) = Len(es) /\ es[k] \in Element /\ w = EncodedElement(es[k])
  BY <1>2, ElementsTyped
<1>4. /\ body \in Bytes /\ size \in Bytes /\ z \in Bytes /\ Len(size) = 4
      /\ doc = Cat(Cat(size, body), z)
  BY <1>1, DocumentLaid
<1>5. PICK r \in Bytes : FlattenSeq(ss) = Cat(before, Cat(w, r))
  BY <1>3, FlattenPiece DEF Bytes
<1>6. before \in Bytes /\ w \in Bytes
  BY <1>3, FlatToNext DEF Bytes
<1>7. body = FlattenSeq(ss) /\ Offset(es, k - 1) = Len(before)
  BY DEF BodyOfDocument, Offset
<1> HIDE DEF doc, size, z, w, before, body, ss
<1>8. Holds(m_fileData, s, Cat(size, body))
  BY <1>1, <1>4, CatTyped, HoldsCat DEF Bytes
<1>9. Holds(m_fileData, s + 4, body)
  BY <1>1, <1>4, <1>8, HoldsCat
<1>10. Cat(w, r) \in Bytes
  BY <1>6, CatTyped DEF Bytes
<1>11. Holds(m_fileData, s + 4 + Len(before), Cat(w, r))
  BY <1>1, <1>5, <1>6, <1>7, <1>9, <1>10, HoldsCat
<1>12. Holds(m_fileData, s + 4 + Len(before), w)
  BY <1>1, <1>6, <1>11, HoldsCat
<1>13. QED
  BY <1>1, <1>2, <1>3, <1>7, <1>12 DEF ElementAt, es

(* The documents of a file, one after the other, and those that end by 00. *)
Documents(ds) == [i \in 1 .. Len(ds) |-> EncodedDocument(ds[i])]
Valid(ds) == [i \in 1 .. Len(ds) |-> IF ds[i].last = 0 THEN <<ds[i]>> ELSE <<>>]
SoundFile(ds) == ds \in Seq(Document) /\ \A i \in DOMAIN ds : SoundDocument(ds[i])

(* A file is the documents before the k-th, and those from it on.           *)
LEMMA FileParts ==
  ASSUME NEW ds, SoundFile(ds)
  PROVE  /\ Documents(ds) \in Seq(Bytes) /\ Len(Documents(ds)) = Len(ds)
         /\ Valid(ds) \in Seq(Seq(Document)) /\ Len(Valid(ds)) = Len(ds) /\ Len(ds) \in Nat
         /\ \A i \in 1 .. Len(ds) :
              /\ SoundDocument(ds[i]) /\ ds[i] \in Document
              /\ Documents(ds)[i] = EncodedDocument(ds[i])
              /\ Valid(ds)[i] = IF ds[i].last = 0 THEN <<ds[i]>> ELSE <<>>
<1>1. Len(ds) \in Nat /\ DOMAIN ds = 1 .. Len(ds)
  BY LenProperties DEF SoundFile
<1>2. ASSUME NEW i \in 1 .. Len(ds)
      PROVE  /\ SoundDocument(ds[i]) /\ ds[i] \in Document
             /\ EncodedDocument(ds[i]) \in Bytes
             /\ (IF ds[i].last = 0 THEN <<ds[i]>> ELSE <<>>) \in Seq(Document)
  <2>1. SoundDocument(ds[i]) /\ ds[i] \in Document
    BY <1>1 DEF SoundFile, SoundDocument
  <2>2. EncodedDocument(ds[i]) \in Bytes
    BY <2>1, DocumentLaid
  <2>3. <<ds[i]>> \in Seq(Document) /\ <<>> \in Seq(Document)
    BY <2>1, SingletonSeq
  <2>4. QED
    BY <2>1, <2>2, <2>3
<1>3. QED
  BY <1>1, <1>2 DEF Documents, Valid

(* Where cutDocument stands after k documents it reads the size of the next *)
(* one, or is at the end.                                                   *)
LEMMA FileCut ==
  ASSUME SoundFile(bsonFile), m_fileData = EncodedFile(bsonFile), NEW k \in 1 .. Len(bsonFile)
  PROVE  LET D == Documents(bsonFile)
             p == Len(FlatTo(D, k - 1)) + 1
         IN /\ DocumentAt(p, bsonFile[k])
            /\ Len(FlatTo(D, k)) \in Nat
            /\ Len(FlatTo(D, k)) + 1 = p + Len(EncodedDocument(bsonFile[k]))
            /\ k = Len(bsonFile) => Len(FlatTo(D, k)) = Len(m_fileData)
            /\ k < Len(bsonFile) => Len(FlatTo(D, k)) < Len(m_fileData)
<1> DEFINE D == Documents(bsonFile)
           p == Len(FlatTo(D, k - 1)) + 1
           w == D[k]
           before == FlatTo(D, k - 1)
<1>1. /\ D \in Seq(Bytes) /\ Len(D) = Len(bsonFile) /\ Len(bsonFile) \in Nat
      /\ \A i \in 1 .. Len(bsonFile) : SoundDocument(bsonFile[i]) /\ D[i] = EncodedDocument(bsonFile[i])
  BY FileParts
<1>2. m_fileData = FlattenSeq(D)
  BY DEF EncodedFile, Documents
<1> HIDE DEF D
<1>3. m_fileData \in Bytes
  BY <1>1, <1>2, FlattenTyped DEF Bytes
<1>4. before \in Bytes /\ w \in Bytes /\ FlatTo(D, k) = Cat(before, w)
  BY <1>1, FlatToNext DEF Bytes
<1>5. PICK r \in Bytes : m_fileData = Cat(before, Cat(w, r))
  BY <1>1, <1>2, FlattenPiece DEF Bytes
<1>6. p = Len(before) + 1
  OBVIOUS
<1> HIDE DEF before, w
<1>7. /\ Len(before) \in Nat /\ Len(w) \in Nat /\ Len(FlatTo(D, k)) = Len(before) + Len(w)
  BY <1>4, CatTyped, LenProperties DEF Bytes
<1>8. Holds(m_fileData, p, w)
  <2> DEFINE q == 1
  <2>1. Holds(m_fileData, q, m_fileData) /\ Cat(w, r) \in Bytes
    BY <1>3, <1>4, HoldsSelf, CatTyped DEF Bytes
  <2>2. Holds(m_fileData, q, Cat(before, Cat(w, r)))
    BY <1>5, <2>1
  <2> HIDE DEF q
  <2>3. Holds(m_fileData, q + Len(before), Cat(w, r))
    BY <1>3, <1>4, <2>1, <2>2, HoldsCat
  <2>4. Holds(m_fileData, q + Len(before), w)
    BY <1>3, <1>4, <2>3, HoldsCat
  <2>5. q + Len(before) = p
    BY <1>6, <1>7 DEF q
  <2>6. QED
    BY <2>4, <2>5
<1>9. DocumentAt(p, bsonFile[k])
  BY <1>1, <1>3, <1>8 DEF DocumentAt, w
<1>10. Len(FlatTo(D, k)) + 1 = p + Len(EncodedDocument(bsonFile[k]))
  <2>1. w = EncodedDocument(bsonFile[k])
    BY <1>1 DEF w
  <2> HIDE DEF p
  <2>2. QED
    BY <1>6, <1>7, <2>1
<1>11. ASSUME k = Len(bsonFile) PROVE Len(FlatTo(D, k)) = Len(m_fileData)
  BY <1>1, <1>2, <1>11, FlatToEdges DEF Bytes
<1>12. ASSUME k < Len(bsonFile) PROVE Len(FlatTo(D, k)) < Len(m_fileData)
  <2> DEFINE j == k + 1
  <2>1. j \in 1 .. Len(bsonFile) /\ j - 1 = k /\ j \in 1 .. Len(D)
    BY <1>1, <1>12
  <2> HIDE DEF j
  <2>2. PICK r2 \in Bytes : m_fileData = Cat(FlatTo(D, j - 1), Cat(D[j], r2))
    BY <1>1, <1>2, <2>1, FlattenPiece DEF Bytes
  <2>3. FlatTo(D, j - 1) \in Bytes /\ D[j] \in Bytes
    BY <1>1, <2>1, FlatToNext DEF Bytes
  <2>4. Cat(D[j], r2) \in Bytes /\ Len(Cat(D[j], r2)) = Len(D[j]) + Len(r2)
    BY <2>3, CatTyped DEF Bytes
  <2>5. Len(m_fileData) = Len(FlatTo(D, j - 1)) + Len(Cat(D[j], r2))
    BY <2>2, <2>3, <2>4, CatTyped DEF Bytes
  <2>6. Len(D[j]) >= 5 /\ Len(r2) \in Nat /\ Len(D[j]) \in Nat
    <3>1. SoundDocument(bsonFile[j]) /\ D[j] = EncodedDocument(bsonFile[j])
      BY <1>1, <2>1
    <3>2. /\ Len(EncodedDocument(bsonFile[j])) = Len(BodyOfDocument(bsonFile[j].elements)) + 5
          /\ Len(BodyOfDocument(bsonFile[j].elements)) \in Nat
      BY <3>1, DocumentLaid
    <3>3. Len(r2) \in Nat
      BY LenProperties DEF Bytes
    <3>4. QED
      BY <3>1, <3>2, <3>3
  <2>7. Len(FlatTo(D, k)) \in Nat
    BY <2>1, <2>3, LenProperties DEF Bytes
  <2>8. QED
    BY <2>1, <2>4, <2>5, <2>6, <2>7
<1>13. QED
  <2>1. Len(FlatTo(D, k)) \in Nat
    BY <1>7
  <2>2. QED
    BY <1>9, <1>10, <1>11, <1>12, <2>1 DEF D

(* No document of a file, and all of them.                                  *)
LEMMA FileEdges ==
  ASSUME NEW ds, SoundFile(ds)
  PROVE  Len(FlatTo(Documents(ds), 0)) = 0 /\ Len(FlatTo(Valid(ds), 0)) = 0
<1>1. FlatTo(Documents(ds), 0) = <<>> /\ FlatTo(Valid(ds), 0) = <<>>
  BY FileParts, FlatToEdges DEF Bytes
<1>2. Len(<<>>) = 0
  OBVIOUS
<1>3. QED
  BY <1>1, <1>2

(* The documents kept when a file is cut are those that end by 00, in order. *)
LEMMA ValidCut ==
  ASSUME SoundFile(bsonFile), NEW k \in 1 .. Len(bsonFile)
  PROVE  LET V == Valid(bsonFile)
             n == Len(FlatTo(V, k - 1))
         IN /\ n \in Nat
            /\ Len(FlatTo(V, k)) = IF bsonFile[k].last = 0 THEN n + 1 ELSE n
            /\ bsonFile[k].last = 0 => WellFormed[n + 1] = bsonFile[k]
            /\ k = Len(bsonFile) => Len(FlatTo(V, k)) = Len(WellFormed)
<1> DEFINE V == Valid(bsonFile)
           n == Len(FlatTo(V, k - 1))
           before == FlatTo(V, k - 1)
           w == V[k]
           d == bsonFile[k]
<1>1. /\ V \in Seq(Seq(Document)) /\ Len(V) = Len(bsonFile) /\ Len(bsonFile) \in Nat
      /\ d \in Document /\ w = IF d.last = 0 THEN <<d>> ELSE <<>>
  BY FileParts
<1>2. WellFormed = FlattenSeq(V)
  BY DEF WellFormed, Valid
<1> HIDE DEF V
<1>3. before \in Seq(Document) /\ w \in Seq(Document) /\ FlatTo(V, k) = Cat(before, w)
  BY <1>1, FlatToNext
<1>4. PICK r \in Seq(Document) : WellFormed = Cat(before, Cat(w, r))
  BY <1>1, <1>2, FlattenPiece
<1>5. n = Len(before)
  OBVIOUS
<1>6. k = Len(bsonFile) => Len(FlatTo(V, k)) = Len(WellFormed)
  BY <1>1, <1>2, FlatToEdges
<1> HIDE DEF n, before, w, d
<1>7. n \in Nat /\ Len(FlatTo(V, k)) = n + Len(w)
  BY <1>3, <1>5, CatTyped, LenProperties
<1>8. Len(FlatTo(V, k)) = IF d.last = 0 THEN n + 1 ELSE n
  <2>1. Len(<<>>) = 0 /\ Len(<<d>>) = 1
    BY <1>1, SingletonSeq
  <2>2. QED
    BY <1>1, <1>7, <2>1
<1>9. ASSUME d.last = 0 PROVE WellFormed[n + 1] = d
  <2> DEFINE i == 1
  <2>1. w = <<d>> /\ Len(w) = 1 /\ w[1] = d
    BY <1>1, <1>9, SingletonSeq
  <2>2. i \in 1 .. Len(w) /\ i = 1
    BY <2>1
  <2> HIDE DEF i
  <2>3. Cat(w, r) \in Seq(Document) /\ Len(Cat(w, r)) = Len(w) + Len(r) /\ Cat(w, r)[i] = w[i]
    BY <1>3, <2>2, CatTyped, CatLeft
  <2>4. Len(r) \in Nat
    BY LenProperties
  <2>5. i \in 1 .. Len(Cat(w, r))
    BY <2>1, <2>2, <2>3, <2>4
  <2>6. WellFormed[Len(before) + i] = Cat(w, r)[i]
    <3> DEFINE wr == Cat(w, r)
    <3>1. wr \in Seq(Document) /\ i \in 1 .. Len(wr) /\ WellFormed = Cat(before, wr)
      BY <1>4, <2>3, <2>5
    <3> HIDE DEF wr
    <3>2. WellFormed[Len(before) + i] = wr[i]
      BY <1>3, <3>1, CatRight
    <3>3. QED
      BY <3>2 DEF wr
  <2>7. QED
    BY <1>5, <2>1, <2>2, <2>3, <2>6
<1>10. QED
  BY <1>6, <1>7, <1>8, <1>9 DEF n, d, V

-----------------------------------------------------------------------------
(* BSON: the inductive invariant.                                           *)

BsonToken == [type : tokenType, name : Bytes, data : Bytes]
ParsedDocument == [state : {"open", "returned", "null"}, tokens : Seq(BsonToken)]

BsonTypeOK ==
  /\ SoundFile(bsonFile)
  /\ m_fileData = EncodedFile(bsonFile)
  /\ position \in Nat
  /\ m_documentsSizes \in Seq(Nat \X Nat)
  /\ m_tokens \in Seq(ParsedDocument)
  /\ parsing \in {"idle", "cutting", "parsing", "parsed", "printed", "undefined"}

(* What was cut is at its place, and ends by 00. *)
CutAt(b, d) ==
  /\ DocumentAt(b[1], d)
  /\ b[2] = b[1] + Len(EncodedDocument(d))
  /\ d.last = 0
  /\ \E i \in 1 .. Len(bsonFile) : d = bsonFile[i]

CutSoFar ==
  \E i \in 1 .. Len(bsonFile) :
     /\ position = Len(FlatTo(Documents(bsonFile), i - 1)) + 1
     /\ Len(m_documentsSizes) = Len(FlatTo(Valid(bsonFile), i - 1))

Cutting ==
  /\ \A k \in 1 .. Len(m_documentsSizes) : CutAt(m_documentsSizes[k], WellFormed[k])
  /\ parsing = "idle" => Len(m_documentsSizes) = 0
  /\ parsing = "cutting" => CutSoFar
  /\ parsing \in {"parsing", "parsed", "printed"} => Len(m_documentsSizes) = Len(WellFormed)

(* The tokens of a document, against its elements. *)
FaithfulTo(es, l) == \A j \in 1 .. l : es[j].type \in Faithful
TokensOf(es, t) ==
  /\ \A l \in 1 .. Len(es) :
       l <= Len(t.tokens) /\ FaithfulTo(es, l) => Represents(t.tokens[l], es[l])
  /\ t.state = "returned" => \A l \in 1 .. Len(es) : FaithfulTo(es, l) => l <= Len(t.tokens)
  /\ t.state = "null" => \E j \in 1 .. Len(es) : Misread(es[j])
  /\ \A l \in 1 .. Len(t.tokens) : t.tokens[l].type \notin {3, 4, 15}

(* Where a document that is open is parsed: at an element, after a number of *)
(* 64 bits whose last byte is of no type, or beyond an element misread.      *)
OnTrack(es, c, s, p) == c <= Len(es) /\ p = s + 4 + Offset(es, c)
AfterNumber(es, c, s, p) ==
  /\ c \in 1 .. Len(es)
  /\ es[c].type = 18 /\ ~Misread(es[c]) /\ p = s + 4 + Offset(es, c - 1) + 9
Astray(es, c) == \E j \in 1 .. Len(es) : j <= c /\ Misread(es[j])

Progress(es, c, s, p) == OnTrack(es, c, s, p) \/ AfterNumber(es, c, s, p) \/ Astray(es, c)

LastParsed == m_tokens[Len(m_tokens)]

Parsing ==
  /\ parsing \in {"idle", "cutting"} => Len(m_tokens) = 0
  /\ Len(m_tokens) <= Len(m_documentsSizes)
  /\ \A k \in 1 .. Len(m_tokens) : TokensOf(WellFormed[k].elements, m_tokens[k])
  /\ \A k \in 1 .. Len(m_tokens) : m_tokens[k].state = "open" => k = Len(m_tokens)
  /\ parsing = "parsing" /\ Len(m_tokens) > 0 /\ LastParsed.state = "open" =>
       Progress(WellFormed[Len(m_tokens)].elements, Len(LastParsed.tokens),
                m_documentsSizes[Len(m_tokens)][1], position)
  /\ parsing \in {"parsed", "printed"} =>
       Len(m_tokens) = Len(WellFormed) /\ \A k \in 1 .. Len(m_tokens) : m_tokens[k].state # "open"

MisreadIn(d) == \E j \in 1 .. Len(d.elements) : Misread(d.elements[j])
LeftForMisread == parsing = "undefined" => \E i \in 1 .. Len(bsonFile) : MisreadIn(bsonFile[i])

BsonIInv == BsonTypeOK /\ Cutting /\ Parsing /\ LeftForMisread

(* An element misread is not of a type that is kept faithfully.             *)
LEMMA MisreadUnfaithful ==
  ASSUME NEW e, Misread(e)
  PROVE  e.type \notin Faithful
BY DEF Misread, Faithful

(* The byte at a position of a document held in the file.                   *)
LEMMA ByteAt ==
  ASSUME NEW p \in Nat, p > 0, p <= Len(m_fileData), m_fileData \in Bytes
  PROVE  At(p, 1) # Lost
<1>1. Len(m_fileData) \in Nat
  BY LenProperties DEF Bytes
<1>2. ~(p = Beyond \/ 1 < 0 \/ p + 1 > Len(m_fileData) + 1)
  BY <1>1 DEF Beyond
<1> DEFINE r == [data |-> SubSeq(m_fileData, p, p + 1 - 1), next |-> p + 1]
<1>3. At(p, 1) = r
  BY <1>2 DEF At
<1>4. r.next # Beyond
  BY DEF Beyond
<1> HIDE DEF r
<1>5. QED
  BY <1>3, <1>4 DEF Lost

(* Where an element begins is its type, and after the last element is 00.   *)
LEMMA OnTrackRead ==
  ASSUME NEW s, NEW d, DocumentAt(s, d), d.last = 0, NEW c \in Nat, NEW p, OnTrack(d.elements, c, s, p)
  PROVE  /\ p # s + Len(EncodedDocument(d))
         /\ At(p, 1) # Lost
         /\ c < Len(d.elements) => ElementAt(p, d.elements[c + 1]) /\ m_fileData[p] = d.elements[c + 1].type
         /\ c = Len(d.elements) => m_fileData[p] = 0
<1> DEFINE es == d.elements
           n == Len(EncodedDocument(d))
           body == Len(BodyOfDocument(es))
           x == Offset(es, c)
<1>1. SoundDocument(d) /\ m_fileData \in Bytes /\ es \in Seq(Element)
  BY DEF DocumentAt, SoundDocument, Document
<1>2. n = body + 5
  BY <1>1, DocumentLaid
<1>3. /\ s \in Nat /\ s > 0 /\ n \in Nat /\ s + n <= Len(m_fileData) + 1 /\ Len(m_fileData) \in Nat
      /\ m_fileData[s + n - 1] = d.last
  BY DocumentRead
<1>4. c <= Len(es) /\ p = s + 4 + x /\ Len(es) \in Nat
  BY <1>1, LenProperties DEF OnTrack
<1>5. body \in Nat /\ x \in Nat /\ x <= body /\ (c = Len(es) => x = body)
  <2>1. /\ body \in Nat /\ Offset(es, 0) = 0 /\ Offset(es, Len(es)) = body
        /\ \A k \in 1 .. Len(es) : Offset(es, k) \in Nat /\ Offset(es, k) <= body
    BY <1>1, OffsetTyped
  <2> HIDE DEF body, es
  <2>2. QED
    BY <1>4, <2>1
<1>6. ASSUME c < Len(es) PROVE ElementAt(p, es[c + 1]) /\ m_fileData[p] = es[c + 1].type
  <2> DEFINE k == c + 1
  <2>1. k \in 1 .. Len(es) /\ k - 1 = c
    BY <1>4, <1>6
  <2> HIDE DEF k
  <2>2. ElementAt(s + 4 + Offset(es, k - 1), es[k])
    BY <2>1, DocumentElements
  <2>3. ElementAt(p, es[k])
    BY <1>4, <2>1, <2>2
  <2>4. m_fileData[p] = es[k].type
    <3> DEFINE ty == es[k].type
               nm == es[k].name
               bd == es[k].body
    <3>1. LaidAt(p, ty, nm, bd)
      BY <2>3, ElementLaidAt
    <3> HIDE DEF ty, nm, bd
    <3>2. m_fileData[p] = ty
      BY <3>1, LaidParts DEF LaidAt
    <3>3. QED
      BY <3>2 DEF ty
  <2>5. QED
    BY <2>3, <2>4 DEF k
<1> HIDE DEF es, n, body, x
<1>7. ASSUME c = Len(es) PROVE m_fileData[p] = 0
  <2>1. p = s + n - 1
    BY <1>2, <1>3, <1>4, <1>5, <1>7
  <2>2. QED
    BY <1>3, <2>1
<1>8. p \in Nat /\ p > 0 /\ p <= Len(m_fileData) /\ p # s + n
  BY <1>2, <1>3, <1>4, <1>5
<1>9. At(p, 1) # Lost
  BY <1>1, <1>8, ByteAt
<1>10. QED
  BY <1>6, <1>7, <1>8, <1>9 DEF es, n

(* After a number of 64 bits that is not misread is a byte of no type. *)
LEMMA AfterNumberRead ==
  ASSUME NEW s, NEW d, DocumentAt(s, d), NEW c, NEW p, AfterNumber(d.elements, c, s, p)
  PROVE  /\ p # s + Len(EncodedDocument(d))
         /\ At(p, 1) # Lost
         /\ m_fileData[p] \notin tokenType
<1> DEFINE es == d.elements
           n == Len(EncodedDocument(d))
           body == Len(BodyOfDocument(es))
           e == es[c]
           q == s + 4 + Offset(es, c - 1)
           x == Offset(es, c - 1)
           l == Len(EncodedElement(e))
<1>1. SoundDocument(d) /\ m_fileData \in Bytes /\ es \in Seq(Element)
  BY DEF DocumentAt, SoundDocument, Document
<1>2. n = body + 5
  BY <1>1, DocumentLaid
<1>3. /\ s \in Nat /\ s > 0 /\ n \in Nat /\ s + n <= Len(m_fileData) + 1 /\ Len(m_fileData) \in Nat
  BY DocumentRead
<1>4. c \in 1 .. Len(es) /\ e.type = 18 /\ ~Misread(e) /\ p = q + 9 /\ q = s + 4 + x
  BY DEF AfterNumber
<1>5. x \in Nat /\ l \in Nat /\ x + l <= body /\ body \in Nat
  <2>1. /\ body \in Nat
        /\ \A k \in 1 .. Len(es) :
              /\ Offset(es, k - 1) \in Nat
              /\ Len(EncodedElement(es[k])) \in Nat
              /\ Offset(es, k) = Offset(es, k - 1) + Len(EncodedElement(es[k]))
              /\ Offset(es, k) <= body
    BY <1>1, OffsetTyped
  <2> HIDE DEF body, es
  <2>2. QED
    BY <1>4, <2>1
<1>6. ElementAt(q, e)
  BY <1>4, DocumentElements
<1> DEFINE ty == e.type
           nm == e.name
           bd == e.body
<1>7. /\ LaidAt(q, ty, nm, bd) /\ EncodedElement(e) = Laid(ty, nm, bd) /\ Shaped(e)
  BY <1>6, ElementLaidAt
<1>8. Len(bd) = 8 /\ EncodedElement(e)[10] \notin tokenType
  BY <1>4, <1>7 DEF Shaped, Misread
<1> HIDE DEF es, n, body, e, q, x, ty, nm, bd
<1>9. /\ 10 <= Len(Laid(ty, nm, bd)) /\ m_fileData[q + 9] = Laid(ty, nm, bd)[10]
  BY <1>7, <1>8, Int64Token
<1>10. m_fileData[p] \notin tokenType /\ 10 <= l
  BY <1>4, <1>7, <1>8, <1>9
<1> HIDE DEF l
<1>11. p \in Nat /\ p > 0 /\ p <= Len(m_fileData) /\ p # s + n
  BY <1>2, <1>3, <1>4, <1>5, <1>10
<1>12. At(p, 1) # Lost
  BY <1>1, <1>11, ByteAt
<1>13. QED
  BY <1>10, <1>11, <1>12 DEF n

(* Nothing parsed where the data are lost.                                  *)
LEMMA ParsedLost ==
  ASSUME NEW s, NEW d, DocumentAt(s, d), d.last = 0, NEW c \in Nat, NEW p,
         Progress(d.elements, c, s, p), At(p, 1) = Lost \/ p = s + Len(EncodedDocument(d))
  PROVE  MisreadIn(d)
<1>1. ~OnTrack(d.elements, c, s, p)
  BY OnTrackRead
<1>2. ~AfterNumber(d.elements, c, s, p)
  BY AfterNumberRead
<1>3. QED
  BY <1>1, <1>2 DEF Progress, Astray, MisreadIn

(* Zero and the byte of the next one are no types.                          *)
LEMMA NotType ==
  /\ 0 \notin tokenType
  /\ Faithful \subseteq tokenType /\ tokenType \subseteq Byte
  /\ \A ty \in Faithful : ty \notin {3, 4, 5, 15, 18}
BY DEF Faithful, tokenType, Byte

(* What parseDocument does at the byte that ends a document.                *)
LEMMA ParsedEnd ==
  ASSUME NEW s, NEW d, DocumentAt(s, d), d.last = 0, NEW t \in ParsedDocument, NEW p,
         TokensOf(d.elements, t),
         Progress(d.elements, Len(t.tokens), s, p), m_fileData[p] \notin tokenType
  PROVE  /\ [t EXCEPT !.state = "returned"] \in ParsedDocument
         /\ TokensOf(d.elements, [t EXCEPT !.state = "returned"])
<1> DEFINE es == d.elements
           c == Len(t.tokens)
           u == [t EXCEPT !.state = "returned"]
<1>1. /\ u \in ParsedDocument /\ u.tokens = t.tokens /\ u.state = "returned" /\ c \in Nat
  BY LenProperties DEF ParsedDocument
<1>2. es \in Seq(Element) /\ Len(es) \in Nat
  BY LenProperties DEF DocumentAt, SoundDocument, Document
<1>3. ASSUME NEW l \in 1 .. Len(es), FaithfulTo(es, l) PROVE l <= c
  <2>1. \A j \in 1 .. l : es[j].type \in Faithful
    BY <1>3 DEF FaithfulTo
  <2>2. CASE OnTrack(es, c, s, p)
    <3>1. c <= Len(es)
      BY <2>2 DEF OnTrack
    <3>2. CASE c = Len(es)
      BY <3>2
    <3>3. CASE c < Len(es)
      <4>1. m_fileData[p] = es[c + 1].type
        BY <1>1, <2>2, <3>3, OnTrackRead
      <4>2. es[c + 1].type \notin Faithful
        BY <4>1, NotType
      <4> HIDE DEF es, c
      <4>3. c + 1 \notin 1 .. l
        BY <2>1, <4>2
      <4>4. QED
        BY <1>1, <4>3
    <3> HIDE DEF es, c
    <3>4. QED
      BY <1>1, <1>2, <3>1, <3>2, <3>3
  <2>3. CASE AfterNumber(es, c, s, p)
    <3>1. c \in 1 .. Len(es) /\ es[c].type = 18
      BY <2>3 DEF AfterNumber
    <3>2. es[c].type \notin Faithful
      BY <3>1, NotType
    <3> HIDE DEF es, c
    <3>3. c \notin 1 .. l
      BY <2>1, <3>2
    <3>4. QED
      BY <3>1, <3>3
  <2>4. CASE Astray(es, c)
    <3>1. PICK j \in 1 .. Len(es) : j <= c /\ Misread(es[j])
      BY <2>4 DEF Astray
    <3>2. es[j].type \notin Faithful
      BY <3>1, MisreadUnfaithful
    <3> HIDE DEF es, c
    <3>3. j \notin 1 .. l
      BY <2>1, <3>2
    <3>4. QED
      BY <1>1, <3>1, <3>3
  <2>5. QED
    BY <2>2, <2>3, <2>4 DEF Progress
<1>4. TokensOf(es, u)
  <2>1. /\ \A l \in 1 .. Len(es) : l <= Len(t.tokens) /\ FaithfulTo(es, l) => Represents(t.tokens[l], es[l])
        /\ \A l \in 1 .. Len(t.tokens) : t.tokens[l].type \notin {3, 4, 15}
    BY DEF TokensOf
  <2>2. u.state # "null"
    BY <1>1
  <2> HIDE DEF u
  <2>3. QED
    BY <1>1, <1>3, <2>1, <2>2 DEF TokensOf
<1>5. QED
  BY <1>1, <1>4

(* What is appended to the tokens of a document. *)
TokenKept(ty, r) == [type |-> ty, name |-> r.name, data |-> r.data]

(* A token that stands for the next element extends the tokens of a         *)
(* document.                                                                *)
LEMMA TokensAppended ==
  ASSUME NEW es, NEW t \in ParsedDocument, TokensOf(es, t), t.state = "open",
         NEW k \in BsonToken, k.type \notin {3, 4, 15},
         LET c == Len(t.tokens) + 1
         IN c \in 1 .. Len(es) /\ FaithfulTo(es, c) => Represents(k, es[c])
  PROVE  LET u == [t EXCEPT !.tokens = Append(@, k)]
         IN u \in ParsedDocument /\ u.state = "open" /\ TokensOf(es, u)
              /\ Len(u.tokens) = Len(t.tokens) + 1
<1> DEFINE c == Len(t.tokens)
           a == Append(t.tokens, k)
           u == [t EXCEPT !.tokens = a]
<1>1. t.tokens \in Seq(BsonToken) /\ c \in Nat /\ t.state = "open"
  BY LenProperties DEF ParsedDocument
<1>2. /\ a \in Seq(BsonToken) /\ Len(a) = c + 1 /\ a[c + 1] = k
      /\ \A l \in 1 .. c : a[l] = t.tokens[l]
  BY <1>1, AppendProperties
<1>3. /\ \A l \in 1 .. Len(es) : l <= c /\ FaithfulTo(es, l) => Represents(t.tokens[l], es[l])
      /\ \A l \in 1 .. c : t.tokens[l].type \notin {3, 4, 15}
  BY DEF TokensOf
<1>4. c + 1 \in 1 .. Len(es) /\ FaithfulTo(es, c + 1) => Represents(k, es[c + 1])
  OBVIOUS
<1>5. u \in ParsedDocument /\ u.tokens = a /\ u.state = "open"
  <2> HIDE DEF a
  <2>1. QED
    BY <1>1, <1>2 DEF ParsedDocument
<1> HIDE DEF a, u, c
<1>6. ASSUME NEW l \in 1 .. Len(es), l <= c + 1, FaithfulTo(es, l) PROVE Represents(a[l], es[l])
  <2>1. CASE l <= c
    <3>1. l \in 1 .. c
      BY <1>1, <2>1
    <3>2. Represents(t.tokens[l], es[l]) /\ a[l] = t.tokens[l]
      BY <1>2, <1>3, <1>6, <2>1, <3>1
    <3>3. QED
      BY <3>2
  <2>2. CASE ~(l <= c)
    <3>1. l = c + 1
      BY <1>1, <1>6, <2>2
    <3>2. QED
      BY <1>2, <1>4, <1>6, <3>1
  <2>3. QED
    BY <2>1, <2>2
<1>7. ASSUME NEW l \in 1 .. c + 1 PROVE a[l].type \notin {3, 4, 15}
  <2>1. CASE l = c + 1
    BY <1>2, <2>1
  <2>2. CASE l # c + 1
    <3>1. l \in 1 .. c
      BY <1>1, <2>2
    <3>2. a[l] = t.tokens[l] /\ t.tokens[l].type \notin {3, 4, 15}
      BY <1>2, <1>3, <3>1
    <3>3. QED
      BY <3>2
  <2>3. QED
    BY <2>1, <2>2
<1>8. TokensOf(es, u)
  BY <1>2, <1>5, <1>6, <1>7 DEF TokensOf
<1>9. QED
  BY <1>2, <1>5, <1>8 DEF a, u, c

(* One turn of the loop: the token is what the element says or is of no *)
(* matter, and the bytes are left only for an element that is misread.  *)
LEMMA ParsedOn ==
  ASSUME NEW s, NEW d, DocumentAt(s, d), d.last = 0, NEW t \in ParsedDocument, NEW p \in Nat,
         TokensOf(d.elements, t), t.state = "open",
         Progress(d.elements, Len(t.tokens), s, p), m_fileData[p] \in tokenType,
         NEW r \in parse(m_fileData[p], p)
  PROVE  /\ r.next \in Nat
         /\ r.next = Beyond => MisreadIn(d)
         /\ r.next # Beyond =>
              LET u == [t EXCEPT !.tokens = Append(@, TokenKept(m_fileData[p], r))]
              IN /\ u \in ParsedDocument /\ u.state = "open" /\ TokensOf(d.elements, u)
                 /\ Progress(d.elements, Len(u.tokens), s, r.next)
<1> DEFINE es == d.elements
           c == Len(t.tokens)
           ty == m_fileData[p]
           k == TokenKept(ty, r)
<1>1. m_fileData \in Bytes /\ es \in Seq(Element) /\ Len(es) \in Nat
  BY LenProperties DEF DocumentAt, SoundDocument, Document
<1>2. c \in Nat
  BY LenProperties DEF ParsedDocument
<1>3. r \in TokenRead
  BY <1>1, ParseTyped
<1>4. r.next \in Nat /\ k \in BsonToken /\ k.type = ty /\ k.name = r.name /\ k.data = r.data
  BY <1>3 DEF TokenRead, BsonToken, TokenKept
<1>5. r.next # Beyond => ty \notin {3, 4, 15}
  <2>1. CASE ty = 3
    BY <2>1, NestedTokens DEF parse
  <2>2. CASE ty = 4
    BY <2>2, NestedTokens DEF parse
  <2>3. CASE ty = 15
    BY <2>3, NestedTokens DEF parse
  <2>4. QED
    BY <2>1, <2>2, <2>3
<1> DEFINE Goal ==
      /\ r.next = Beyond => MisreadIn(d)
      /\ r.next # Beyond => Progress(es, c + 1, s, r.next)
      /\ r.next # Beyond /\ c + 1 \in 1 .. Len(es) /\ FaithfulTo(es, c + 1) => Represents(k, es[c + 1])
<1>6. ASSUME OnTrack(es, c, s, p) PROVE Goal
  <2> DEFINE e == es[c + 1]
             i == c + 1
  <2>1. c <= Len(es) /\ p = s + 4 + Offset(es, c)
    BY <1>6 DEF OnTrack
  <2>2. c # Len(es)
    <3>1. c = Len(es) => m_fileData[p] = 0
      BY <1>2, <1>6, OnTrackRead
    <3>2. QED
      BY <3>1, NotType
  <2>3. c < Len(es)
    <3> HIDE DEF es, c
    <3>1. QED
      BY <1>1, <1>2, <2>1, <2>2
  <2>4. ElementAt(p, e) /\ ty = e.type
    BY <1>2, <1>6, <2>3, OnTrackRead
  <2>5. i \in 1 .. Len(es) /\ i - 1 = c /\ e = es[i]
    <3> HIDE DEF es, c
    <3>1. QED
      BY <1>1, <1>2, <2>3
  <2> HIDE DEF i
  <2>6. CASE Misread(e)
    <3>1. MisreadIn(d)
      BY <2>5, <2>6 DEF MisreadIn
    <3>2. Astray(es, i)
      <4>1. i <= i
        BY <2>5
      <4>2. QED
        BY <2>5, <2>6, <4>1 DEF Astray
    <3>3. ~FaithfulTo(es, i)
      <4>1. e.type \notin Faithful /\ i \in 1 .. i
        BY <2>5, <2>6, MisreadUnfaithful
      <4>2. QED
        BY <2>5, <4>1 DEF FaithfulTo
    <3>4. QED
      BY <3>1, <3>2, <3>3 DEF Progress, i
  <2>7. CASE ~Misread(e)
    <3>1. ReadOf(r, p, e)
      BY <2>4, <2>7, ElementRead
    <3>2. /\ r.next = IF e.type = 18 THEN p + 9 ELSE p + Len(EncodedElement(e))
          /\ e.type \in Faithful =>
               /\ r.name = e.name
               /\ IF e.type = 8 THEN r.data = <<1>> => e.body = <<1>> ELSE r.data = BodyKept(e)
      BY <3>1 DEF ReadOf
    <3>3. /\ Len(EncodedElement(es[i])) \in Nat /\ Offset(es, i - 1) \in Nat
          /\ Offset(es, i) = Offset(es, i - 1) + Len(EncodedElement(es[i]))
      BY <1>1, <2>5, OffsetTyped
    <3>4. s \in Nat /\ s > 0
      BY DocumentRead
    <3>5. FaithfulTo(es, i) => Represents(k, es[i])
      <4>1. i \in 1 .. i
        BY <2>5
      <4>2. FaithfulTo(es, i) => e.type \in Faithful
        BY <2>5, <4>1 DEF FaithfulTo
      <4>3. e.type \in Faithful => Represents(k, e)
        BY <1>4, <2>4, <3>2 DEF Represents
      <4>4. QED
        BY <2>5, <4>2, <4>3
    <3>6. CASE e.type = 18
      <4>1. r.next = p + 9
        BY <3>2, <3>6
      <4>2. r.next = s + 4 + Offset(es, i - 1) + 9
        BY <2>1, <2>5, <4>1
      <4>3. AfterNumber(es, i, s, r.next)
        BY <2>5, <2>7, <3>6, <4>2 DEF AfterNumber
      <4> DEFINE x == Offset(es, i - 1)
      <4>4. r.next # Beyond
        <5>1. x \in Nat /\ r.next = s + 4 + x + 9
          BY <3>3, <4>2
        <5> HIDE DEF x
        <5>2. QED
          BY <3>4, <5>1 DEF Beyond
      <4>5. QED
        BY <3>5, <4>3, <4>4 DEF Progress, i
    <3>7. CASE e.type # 18
      <4> DEFINE x == Offset(es, i - 1)
                 y == Offset(es, i)
                 l == Len(EncodedElement(es[i]))
      <4>1. r.next = p + l /\ p = s + 4 + x /\ y = x + l /\ x \in Nat /\ l \in Nat
        BY <2>1, <2>5, <3>2, <3>3, <3>7
      <4> HIDE DEF x, l, y
      <4>2. r.next = s + 4 + y /\ r.next > 0
        BY <3>4, <4>1
      <4>3. OnTrack(es, i, s, r.next)
        <5>1. i <= Len(es)
          BY <2>5
        <5>2. QED
          BY <4>2, <5>1 DEF OnTrack, y
      <4>4. r.next # Beyond
        BY <4>2 DEF Beyond
      <4>5. QED
        BY <3>5, <4>3, <4>4 DEF Progress, i
    <3>8. QED
      BY <3>6, <3>7
  <2>8. QED
    BY <2>6, <2>7
<1>7. ASSUME AfterNumber(es, c, s, p) PROVE Goal
  <2>1. m_fileData[p] \notin tokenType
    BY <1>7, AfterNumberRead
  <2>2. QED
    BY <2>1
<1>8. ASSUME Astray(es, c) PROVE Goal
  <2>1. PICK j \in 1 .. Len(es) : j <= c /\ Misread(es[j])
    BY <1>8 DEF Astray
  <2>2. MisreadIn(d)
    BY <2>1 DEF MisreadIn
  <2>3. Astray(es, c + 1)
    <3>1. j <= c + 1
      <4> HIDE DEF es, c
      <4>1. QED
        BY <1>2, <2>1
    <3>2. QED
      BY <2>1, <3>1 DEF Astray
  <2>4. ~FaithfulTo(es, c + 1)
    <3>1. es[j].type \notin Faithful
      BY <2>1, MisreadUnfaithful
    <3>2. j \in 1 .. c + 1
      <4> HIDE DEF es, c
      <4>1. QED
        BY <1>2, <2>1
    <3>3. QED
      BY <3>1, <3>2 DEF FaithfulTo
  <2>5. QED
    BY <2>2, <2>3, <2>4 DEF Progress
<1>9. Goal
  BY <1>6, <1>7, <1>8 DEF Progress
<1>10. ASSUME r.next # Beyond
       PROVE  LET u == [t EXCEPT !.tokens = Append(@, k)]
              IN /\ u \in ParsedDocument /\ u.state = "open" /\ TokensOf(es, u)
                 /\ Progress(es, Len(u.tokens), s, r.next)
  <2> DEFINE u == [t EXCEPT !.tokens = Append(@, k)]
  <2>1. c + 1 \in 1 .. Len(es) /\ FaithfulTo(es, c + 1) => Represents(k, es[c + 1])
    BY <1>9, <1>10
  <2>2. k \in BsonToken /\ k.type \notin {3, 4, 15}
    BY <1>4, <1>5, <1>10
  <2> HIDE DEF k, es
  <2>3. u \in ParsedDocument /\ u.state = "open" /\ TokensOf(es, u) /\ Len(u.tokens) = c + 1
    BY <2>1, <2>2, TokensAppended DEF es
  <2> HIDE DEF u
  <2>4. Progress(es, Len(u.tokens), s, r.next)
    BY <1>9, <1>10, <2>3 DEF es
  <2>5. QED
    BY <2>3, <2>4 DEF u
<1>11. QED
  BY <1>4, <1>9, <1>10

(* A step that leaves the file leaves what is said of its documents.        *)
LEMMA FileKept ==
  ASSUME UNCHANGED <<bsonFile, m_fileData>>
  PROVE  /\ WellFormed' = WellFormed
         /\ \A b, d : CutAt(b, d)' <=> CutAt(b, d)
         /\ \A i \in 1 .. Len(bsonFile) : MisreadIn(bsonFile[i])' <=> MisreadIn(bsonFile[i])
         /\ SoundFile(bsonFile)' <=> SoundFile(bsonFile)
         /\ EncodedFile(bsonFile)' = EncodedFile(bsonFile)
<1>1. WellFormed' = WellFormed
  BY DEF WellFormed
<1>2. ASSUME NEW b, NEW d PROVE CutAt(b, d)' <=> CutAt(b, d)
  BY DEF CutAt, DocumentAt
<1>3. QED
  BY <1>1, <1>2

(* An action that leaves the file and what was cut of it. *)
LEMMA CutKept ==
  ASSUME BsonTypeOK, Cutting, UNCHANGED <<bsonFile, m_fileData, m_documentsSizes>>,
         parsing' = parsing \/ (parsing \in {"parsing", "parsed"} /\ parsing' \in {"parsing", "parsed", "printed"})
           \/ parsing' = "undefined",
         parsing' = "cutting" => position' = position
  PROVE  Cutting'
<1>1. /\ WellFormed' = WellFormed
      /\ \A b, d : CutAt(b, d)' <=> CutAt(b, d)
  BY FileKept
<1>2. \A k \in 1 .. Len(m_documentsSizes') : CutAt(m_documentsSizes[k], WellFormed[k])'
  <2>1. ASSUME NEW k \in 1 .. Len(m_documentsSizes') PROVE CutAt(m_documentsSizes[k], WellFormed[k])'
    <3>1. CutAt(m_documentsSizes[k], WellFormed[k])
      BY DEF Cutting
    <3>2. m_documentsSizes'[k] = m_documentsSizes[k] /\ WellFormed'[k] = WellFormed[k]
      BY <1>1
    <3>3. QED
      BY <3>1, <3>2 DEF CutAt, DocumentAt
  <2>2. QED
    BY <2>1
<1>3. parsing' = "cutting" => CutSoFar'
  <2>1. parsing' = "cutting" => parsing = "cutting"
    OBVIOUS
  <2>2. parsing = "cutting" => CutSoFar
    BY DEF Cutting
  <2>3. QED
    BY <2>1, <2>2 DEF CutSoFar
<1>4. parsing' = "idle" => Len(m_documentsSizes') = 0
  BY DEF Cutting
<1>5. parsing' \in {"parsing", "parsed", "printed"} => Len(m_documentsSizes') = Len(WellFormed')
  BY <1>1 DEF Cutting
<1>6. QED
  BY <1>2, <1>3, <1>4, <1>5 DEF Cutting

(* The invariant holds before a file is read.                               *)
LEMMA InitIInv == BsonInit => BsonIInv
<1> SUFFICES ASSUME BsonInit PROVE BsonIInv
  OBVIOUS
<1>1. /\ bsonFile = <<>> /\ m_fileData = <<>> /\ position = 1
      /\ m_documentsSizes = <<>> /\ m_tokens = <<>> /\ parsing = "idle"
  BY DEF BsonInit
<1>2. Len(<<>>) = 0 /\ DOMAIN <<>> = {}
  OBVIOUS
<1>3. SoundFile(bsonFile)
  BY <1>1, <1>2 DEF SoundFile
<1>4. m_fileData = EncodedFile(bsonFile)
  <2>1. Documents(<<>>) = <<>>
    BY DEF Documents
  <2>2. EncodedFile(<<>>) = FlattenSeq(Documents(<<>>))
    BY DEF EncodedFile, Documents
  <2>3. QED
    BY <1>1, <2>1, <2>2, FlattenEmpty
<1>5. BsonTypeOK
  BY <1>1, <1>3, <1>4 DEF BsonTypeOK
<1>6. Cutting
  BY <1>1, <1>2 DEF Cutting
<1>7. Parsing
  BY <1>1, <1>2 DEF Parsing
<1>8. LeftForMisread
  BY <1>1 DEF LeftForMisread
<1>9. QED
  BY <1>5, <1>6, <1>7, <1>8 DEF BsonIInv

(* Reading the file establishes the invariant.                              *)
LEMMA ReadStep == ASSUME BsonIInv, ReadBsonFile PROVE BsonIInv'
<1>1. /\ parsing = "idle" /\ bsonFile' \in BsonFiles /\ bsonFile' # <<>>
      /\ m_fileData' = EncodedFile(bsonFile') /\ position' = 1 /\ parsing' = "cutting"
      /\ m_documentsSizes' = m_documentsSizes /\ m_tokens' = m_tokens
  BY DEF ReadBsonFile
<1>2. SoundFile(bsonFile')
  <2>1. /\ bsonFile' \in Seq([elements : Seq(Element), last : Byte])
        /\ \A i \in DOMAIN bsonFile' :
             /\ \A k \in DOMAIN bsonFile'[i].elements : Shaped(bsonFile'[i].elements[k])
             /\ Len(EncodedDocument(bsonFile'[i])) <= MaxSize
    BY <1>1, BsonFilesAssumption
  <2>2. bsonFile' \in Seq(Document)
    BY <2>1 DEF Document
  <2>3. \A i \in DOMAIN bsonFile' : bsonFile'[i] \in Document
    <3> DEFINE f == bsonFile'
    <3>1. f \in Seq(Document)
      BY <2>2
    <3> HIDE DEF f
    <3>2. \A i \in 1 .. Len(f) : f[i] \in Document
      BY <3>1, ElementOfSeq
    <3>3. DOMAIN f = 1 .. Len(f)
      BY <3>1, LenProperties
    <3>4. QED
      BY <3>2, <3>3 DEF f
  <2>4. QED
    BY <2>1, <2>2, <2>3 DEF SoundFile, SoundDocument
<1>3. Len(m_documentsSizes) = 0 /\ Len(m_tokens) = 0
  BY <1>1 DEF BsonIInv, Cutting, Parsing
<1>4. BsonTypeOK'
  BY <1>1, <1>2 DEF BsonIInv, BsonTypeOK
<1>5. CutSoFar'
  <2> DEFINE f == bsonFile'
             i == 1
  <2>1. f \in Seq(Document) /\ f # <<>>
    BY <1>1, <1>2 DEF SoundFile
  <2>2. Len(FlatTo(Documents(f), 0)) = 0 /\ Len(FlatTo(Valid(f), 0)) = 0
    BY <1>2, FileEdges
  <2>3. i \in 1 .. Len(f) /\ i - 1 = 0
    <3> HIDE DEF f
    <3>1. Len(f) \in Nat /\ Len(f) # 0
      BY <2>1, EmptySeq, LenProperties
    <3>2. QED
      BY <3>1
  <2> HIDE DEF f, i
  <2>4. position' = Len(FlatTo(Documents(f), i - 1)) + 1 /\ Len(m_documentsSizes') = Len(FlatTo(Valid(f), i - 1))
    BY <1>1, <1>3, <2>2, <2>3
  <2>5. QED
    BY <2>3, <2>4 DEF CutSoFar, f
<1>6. Cutting'
  BY <1>1, <1>3, <1>5 DEF Cutting
<1>7. Parsing'
  BY <1>1, <1>3 DEF Parsing
<1>8. LeftForMisread'
  BY <1>1 DEF LeftForMisread
<1>9. QED
  BY <1>4, <1>6, <1>7, <1>8 DEF BsonIInv

(* Cutting a document keeps the invariant: the next size is read where the  *)
(* next document begins.                                                    *)
LEMMA CutStep == ASSUME BsonIInv, CutDocument PROVE BsonIInv'
<1>1. parsing = "cutting" /\ BsonTypeOK /\ Cutting /\ Parsing
  BY DEF CutDocument, BsonIInv
<1>2. PICK i \in 1 .. Len(bsonFile) :
        /\ position = Len(FlatTo(Documents(bsonFile), i - 1)) + 1
        /\ Len(m_documentsSizes) = Len(FlatTo(Valid(bsonFile), i - 1))
  BY <1>1 DEF Cutting, CutSoFar
<1> DEFINE d == bsonFile[i]
           n == Len(EncodedDocument(d))
           j == i + 1
           x == Len(FlatTo(Documents(bsonFile), i))
           m == Len(m_documentsSizes)
           v == Len(FlatTo(Valid(bsonFile), i))
           b == <<position, position + n>>
<1>3. SoundFile(bsonFile) /\ m_fileData = EncodedFile(bsonFile) /\ m_documentsSizes \in Seq(Nat \X Nat)
      /\ Len(bsonFile) \in Nat
  BY <1>1, FileParts DEF BsonTypeOK
<1>4. /\ DocumentAt(position, d) /\ x \in Nat /\ x + 1 = position + n
      /\ i = Len(bsonFile) => x = Len(m_fileData)
      /\ i < Len(bsonFile) => x < Len(m_fileData)
  BY <1>2, <1>3, FileCut
<1>5. /\ position \in Nat /\ position > 0 /\ n \in Nat /\ n >= 5 /\ Len(m_fileData) \in Nat
      /\ At(position, 4) # Lost /\ Int32(At(position, 4).data) = n
      /\ At(position, n) = [data |-> EncodedDocument(d), next |-> position + n]
      /\ Last(EncodedDocument(d)) = d.last
  BY <1>4, DocumentRead
<1>6. /\ m \in Nat /\ v = IF d.last = 0 THEN m + 1 ELSE m
      /\ d.last = 0 => WellFormed[m + 1] = d
      /\ i = Len(bsonFile) => v = Len(WellFormed)
  BY <1>2, <1>3, ValidCut
<1>7. At(position, n) # Lost
  <2>1. position + n # Beyond
    BY <1>5 DEF Beyond
  <2>2. QED
    BY <1>5, <2>1 DEF Lost
<1>8. /\ m_documentsSizes' = IF d.last # 0 THEN m_documentsSizes ELSE Append(m_documentsSizes, b)
      /\ position' = position + n
      /\ parsing' = IF position' > Len(m_fileData) THEN "parsing" ELSE "cutting"
      /\ bsonFile' = bsonFile /\ m_fileData' = m_fileData /\ m_tokens' = m_tokens
  <2> DEFINE size == At(position, 4)
             q == At(position, Int32(size.data))
  <2>1. q = [data |-> EncodedDocument(d), next |-> position + n] /\ q # Lost
    BY <1>5, <1>7
  <2>2. q.data = EncodedDocument(d) /\ q.next = position + n /\ Last(q.data) = d.last
    BY <1>5, <2>1
  <2>3. /\ m_documentsSizes' = IF Last(q.data) # 0 THEN m_documentsSizes
                               ELSE Append(m_documentsSizes, <<position, q.next>>)
        /\ position' = q.next
        /\ parsing' = IF position' > Len(m_fileData) THEN "parsing" ELSE "cutting"
        /\ UNCHANGED <<bsonFile, m_fileData, m_tokens>>
    BY <1>5, <2>1 DEF CutDocument
  <2> HIDE DEF q
  <2>4. QED
    BY <2>2, <2>3
<1> HIDE DEF n, x, v, m
<1>9. position + n \in Nat /\ b \in Nat \X Nat
  BY <1>5
<1> HIDE DEF b
<1>10. BsonTypeOK'
  <2>1. Append(m_documentsSizes, b) \in Seq(Nat \X Nat)
    BY <1>3, <1>9, AppendProperties
  <2>2. m_documentsSizes' \in Seq(Nat \X Nat) /\ position' \in Nat
    BY <1>3, <1>8, <1>9, <2>1
  <2>3. parsing' \in {"parsing", "cutting"}
    BY <1>8
  <2>4. QED
    BY <1>1, <1>8, <2>2, <2>3 DEF BsonTypeOK
<1>11. /\ WellFormed' = WellFormed
       /\ \A c, e : CutAt(c, e)' <=> CutAt(c, e)
  BY <1>8, FileKept
<1>12. Len(m_documentsSizes') = v
  <2>1. Len(Append(m_documentsSizes, b)) = m + 1
    BY <1>3, <1>9, AppendProperties DEF m
  <2>2. QED
    BY <1>6, <1>8, <2>1 DEF m
<1>13. \A k \in 1 .. Len(m_documentsSizes') : CutAt(m_documentsSizes[k], WellFormed[k])'
  <2>1. ASSUME NEW k \in 1 .. Len(m_documentsSizes') PROVE CutAt(m_documentsSizes'[k], WellFormed[k])
    <3>1. CASE k \in 1 .. m
      <4>1. m_documentsSizes'[k] = m_documentsSizes[k]
        BY <1>3, <1>8, <1>9, <3>1, AppendProperties DEF m
      <4>2. CutAt(m_documentsSizes[k], WellFormed[k])
        BY <1>1, <3>1 DEF Cutting, m
      <4>3. QED
        BY <4>1, <4>2
    <3>2. CASE k \notin 1 .. m
      <4>1. d.last = 0 /\ k = m + 1
        BY <1>6, <1>12, <3>2
      <4>2. m_documentsSizes' = Append(m_documentsSizes, b)
        BY <1>8, <4>1
      <4>3. m_documentsSizes'[k] = b
        BY <1>3, <1>9, <4>1, <4>2, AppendProperties DEF m
      <4>4. WellFormed[k] = d
        BY <1>6, <4>1
      <4>5. b[1] = position /\ b[2] = position + n
        BY DEF b
      <4>6. CutAt(b, d)
        BY <1>4, <4>1, <4>5 DEF CutAt, n
      <4>7. QED
        BY <4>3, <4>4, <4>6
    <3>3. QED
      BY <3>1, <3>2
  <2>2. ASSUME NEW k \in 1 .. Len(m_documentsSizes') PROVE CutAt(m_documentsSizes[k], WellFormed[k])'
    <3>1. CutAt(m_documentsSizes'[k], WellFormed[k])
      BY <2>1
    <3>2. WellFormed'[k] = WellFormed[k]
      BY <1>11
    <3>3. QED
      BY <1>8, <3>1, <3>2 DEF CutAt, DocumentAt
  <2>3. QED
    BY <2>2
<1>14. ASSUME i = Len(bsonFile) PROVE Cutting'
  <2>1. position' > Len(m_fileData)
    BY <1>4, <1>5, <1>8, <1>14 DEF x, n
  <2>2. parsing' = "parsing" /\ Len(m_documentsSizes') = Len(WellFormed')
    BY <1>6, <1>8, <1>11, <1>12, <1>14, <2>1
  <2>3. QED
    BY <1>13, <2>2 DEF Cutting
<1>15. ASSUME i # Len(bsonFile) PROVE Cutting'
  <2>1. i < Len(bsonFile) /\ j \in 1 .. Len(bsonFile) /\ j - 1 = i
    BY <1>3, <1>15
  <2>2. x < Len(m_fileData) /\ position' = x + 1
    BY <1>4, <1>8, <2>1
  <2>3. x \in Int
    BY <1>4
  <2>4. parsing' = "cutting"
    BY <1>5, <1>8, <2>2, <2>3
  <2> HIDE DEF j
  <2>5. /\ position' = Len(FlatTo(Documents(bsonFile), j - 1)) + 1
        /\ Len(m_documentsSizes') = Len(FlatTo(Valid(bsonFile), j - 1))
    BY <1>12, <2>1, <2>2 DEF x, v
  <2>6. CutSoFar'
    BY <1>8, <2>1, <2>5 DEF CutSoFar
  <2>7. QED
    BY <1>13, <2>4, <2>6 DEF Cutting
<1>16. Cutting'
  BY <1>14, <1>15
<1>17. Parsing'
  <2>1. Len(m_tokens) = 0
    BY <1>1 DEF Parsing
  <2>2. v \in Nat
    BY <1>6
  <2>3. parsing' \in {"parsing", "cutting"}
    BY <1>8
  <2>4. QED
    BY <1>8, <1>12, <2>1, <2>2, <2>3 DEF Parsing
<1>18. LeftForMisread'
  BY <1>8 DEF LeftForMisread
<1>19. QED
  BY <1>10, <1>16, <1>17, <1>18 DEF BsonIInv

(* A document that is open is the last one, and what is known of it. *)
LEMMA OpenFacts ==
  ASSUME BsonIInv, OpenDocument
  PROVE  LET n == Len(m_tokens)
             d == WellFormed[n]
         IN /\ parsing = "parsing" /\ n \in Nat /\ n > 0 /\ n <= Len(m_documentsSizes)
            /\ m_tokens[n] \in ParsedDocument /\ m_tokens[n].state = "open"
            /\ Len(m_tokens[n].tokens) \in Nat
            /\ TokensOf(d.elements, m_tokens[n])
            /\ Progress(d.elements, Len(m_tokens[n].tokens), m_documentsSizes[n][1], position)
            /\ DocumentAt(m_documentsSizes[n][1], d) /\ d.last = 0
            /\ Boundary = m_documentsSizes[n][1] + Len(EncodedDocument(d))
            /\ \E i \in 1 .. Len(bsonFile) : d = bsonFile[i]
            /\ Len(m_documentsSizes) = Len(WellFormed)
<1>1. BsonTypeOK /\ Cutting /\ Parsing /\ parsing = "parsing" /\ ~Complete
  BY DEF BsonIInv, OpenDocument
<1>2. m_tokens \in Seq(ParsedDocument) /\ m_documentsSizes \in Seq(Nat \X Nat)
  BY <1>1 DEF BsonTypeOK
<1>3. Len(m_tokens) \in Nat /\ DOMAIN m_tokens = 1 .. Len(m_tokens) /\ Len(m_documentsSizes) \in Nat
  BY <1>2, LenProperties
<1>4. PICK i \in DOMAIN m_tokens : m_tokens[i].state = "open"
  BY <1>1 DEF Complete
<1> DEFINE n == Len(m_tokens)
           d == WellFormed[n]
<1>5. i = n /\ n \in 1 .. Len(m_tokens) /\ n > 0
  <2>1. \A k \in 1 .. Len(m_tokens) : m_tokens[k].state = "open" => k = Len(m_tokens)
    BY <1>1 DEF Parsing
  <2>2. i \in 1 .. Len(m_tokens)
    BY <1>3
  <2>3. i = Len(m_tokens)
    BY <1>4, <2>1, <2>2
  <2>4. QED
    BY <1>3, <2>2, <2>3
<1>6. m_tokens[n] \in ParsedDocument /\ m_tokens[n].state = "open"
  BY <1>2, <1>4, <1>5, ElementOfSeq
<1>7. Len(m_tokens[n].tokens) \in Nat
  BY <1>6, LenProperties DEF ParsedDocument
<1>8. /\ TokensOf(d.elements, m_tokens[n])
      /\ Progress(d.elements, Len(m_tokens[n].tokens), m_documentsSizes[n][1], position)
      /\ n <= Len(m_documentsSizes)
  BY <1>1, <1>5, <1>6 DEF Parsing, LastParsed
<1>9. n \in 1 .. Len(m_documentsSizes)
  BY <1>3, <1>5, <1>8
<1>10. CutAt(m_documentsSizes[n], d)
  BY <1>1, <1>9 DEF Cutting
<1>11. Len(m_documentsSizes) = Len(WellFormed)
  BY <1>1 DEF Cutting
<1>12. QED
  BY <1>1, <1>3, <1>5, <1>6, <1>7, <1>8, <1>10, <1>11 DEF CutAt, Boundary

(* The last document, and it alone, is replaced by another of its tokens. *)
LEMMA LastReplaced ==
  ASSUME BsonIInv, OpenDocument,
         UNCHANGED <<bsonFile, m_fileData, m_documentsSizes, parsing>>, position' \in Nat,
         NEW u \in ParsedDocument, m_tokens' = [m_tokens EXCEPT ![Len(m_tokens)] = u],
         TokensOf(WellFormed[Len(m_tokens)].elements, u),
         u.state = "open" =>
           Progress(WellFormed[Len(m_tokens)].elements, Len(u.tokens),
                    m_documentsSizes[Len(m_tokens)][1], position')
  PROVE  BsonIInv'
<1> DEFINE n == Len(m_tokens)
           d == WellFormed[n]
<1>1. BsonTypeOK /\ Cutting /\ Parsing /\ LeftForMisread
  BY DEF BsonIInv
<1>2. parsing = "parsing" /\ n \in Nat /\ n > 0 /\ n <= Len(m_documentsSizes)
  BY OpenFacts
<1>3. m_tokens \in Seq(ParsedDocument)
  BY <1>1 DEF BsonTypeOK
<1>4. /\ m_tokens' \in Seq(ParsedDocument) /\ Len(m_tokens') = n
      /\ \A k \in 1 .. n : m_tokens'[k] = IF k = n THEN u ELSE m_tokens[k]
  BY <1>2, <1>3, ExceptSeq
<1>5. BsonTypeOK'
  BY <1>1, <1>4 DEF BsonTypeOK
<1>6. Cutting'
  BY <1>1, <1>2, CutKept
<1>7. WellFormed' = WellFormed
  BY FileKept
<1>8. ASSUME NEW k \in 1 .. n
      PROVE  /\ TokensOf(WellFormed[k].elements, m_tokens'[k])
             /\ m_tokens'[k].state = "open" => k = n
  <2>1. CASE k = n
    BY <1>4, <2>1
  <2>2. CASE k # n
    <3>1. m_tokens'[k] = m_tokens[k]
      BY <1>4, <2>2
    <3>2. TokensOf(WellFormed[k].elements, m_tokens[k]) /\ (m_tokens[k].state = "open" => k = n)
      BY <1>1 DEF Parsing
    <3>3. QED
      BY <3>1, <3>2
  <2>3. QED
    BY <2>1, <2>2
<1>9. LastParsed' = u
  BY <1>2, <1>4 DEF LastParsed
<1>10. ASSUME u.state = "open"
       PROVE  Progress(WellFormed[n].elements, Len(u.tokens), m_documentsSizes[n][1], position')
  BY <1>10
<1> HIDE DEF n
<1>11. Parsing'
  <2>1. \A k \in 1 .. Len(m_tokens') : TokensOf(WellFormed[k].elements, m_tokens[k])'
    <3>1. ASSUME NEW k \in 1 .. Len(m_tokens') PROVE TokensOf(WellFormed[k].elements, m_tokens[k])'
      <4>1. TokensOf(WellFormed[k].elements, m_tokens'[k])
        BY <1>4, <1>8
      <4>2. QED
        BY <1>7, <4>1 DEF TokensOf, FaithfulTo
    <3>2. QED
      BY <3>1
  <2>2. \A k \in 1 .. Len(m_tokens') : m_tokens'[k].state = "open" => k = Len(m_tokens')
    BY <1>4, <1>8
  <2>3. LastParsed'.state = "open" =>
          Progress(WellFormed[Len(m_tokens)].elements, Len(LastParsed.tokens),
                   m_documentsSizes[Len(m_tokens)][1], position)'
    <3>1. ASSUME u.state = "open"
          PROVE  Progress(WellFormed'[Len(m_tokens')].elements, Len(LastParsed'.tokens),
                          m_documentsSizes'[Len(m_tokens')][1], position')
      BY <1>4, <1>7, <1>9, <1>10, <3>1
    <3>2. QED
      BY <1>9, <3>1 DEF Progress, OnTrack, AfterNumber, Astray
  <2>4. Len(m_tokens') <= Len(m_documentsSizes')
    BY <1>2, <1>4
  <2>5. QED
    BY <1>2, <2>1, <2>2, <2>3, <2>4 DEF Parsing
<1>12. LeftForMisread'
  BY <1>2 DEF LeftForMisread
<1>13. QED
  BY <1>5, <1>6, <1>11, <1>12 DEF BsonIInv

(* The bytes are left for an element that is misread, in a document of the file. *)
LEMMA LeftStep ==
  ASSUME BsonIInv, Undefined, NEW k \in 1 .. Len(m_documentsSizes), MisreadIn(WellFormed[k])
  PROVE  BsonIInv'
<1>1. /\ BsonTypeOK /\ Cutting /\ Parsing
      /\ UNCHANGED <<bsonFile, m_fileData, position, m_documentsSizes, m_tokens>> /\ parsing' = "undefined"
  BY DEF BsonIInv, Undefined
<1>2. BsonTypeOK'
  BY <1>1 DEF BsonTypeOK
<1>3. Cutting'
  BY <1>1, CutKept
<1>4. WellFormed' = WellFormed
  BY <1>1, FileKept
<1>5. Parsing'
  BY <1>1, <1>4 DEF Parsing, TokensOf, FaithfulTo
<1>6. LeftForMisread'
  <2>1. CutAt(m_documentsSizes[k], WellFormed[k])
    BY <1>1 DEF Cutting
  <2>2. \E i \in 1 .. Len(bsonFile) : WellFormed[k] = bsonFile[i]
    BY <2>1 DEF CutAt
  <2>3. \E i \in 1 .. Len(bsonFile) : MisreadIn(bsonFile[i])
    BY <2>2
  <2>4. QED
    BY <1>1, <2>3 DEF LeftForMisread, MisreadIn
<1>7. QED
  BY <1>2, <1>3, <1>5, <1>6 DEF BsonIInv

(* Beginning a document keeps the invariant: it is the next one cut.        *)
LEMMA NextDocumentStep == ASSUME BsonIInv, NextDocument PROVE BsonIInv'
<1> DEFINE n == Len(m_tokens)
           i == n + 1
           new == [state |-> "open", tokens |-> <<>>]
<1>1. /\ BsonTypeOK /\ Cutting /\ Parsing /\ parsing = "parsing" /\ Complete
      /\ UNCHANGED <<bsonFile, m_fileData, m_documentsSizes>>
  BY DEF BsonIInv, NextDocument
<1>2. m_tokens \in Seq(ParsedDocument) /\ m_documentsSizes \in Seq(Nat \X Nat) /\ position \in Nat
  BY <1>1 DEF BsonTypeOK
<1>3. /\ n \in Nat /\ DOMAIN m_tokens = 1 .. n /\ Len(m_documentsSizes) \in Nat
  BY <1>2, LenProperties
<1>4. /\ n <= Len(m_documentsSizes) /\ Len(m_documentsSizes) = Len(WellFormed)
      /\ \A k \in 1 .. n : TokensOf(WellFormed[k].elements, m_tokens[k]) /\ m_tokens[k].state # "open"
  BY <1>1, <1>3 DEF Parsing, Cutting, Complete
<1>5. WellFormed' = WellFormed
  BY <1>1, FileKept
<1>6. CASE i > Len(m_documentsSizes)
  <2>1. parsing' = "parsed" /\ position' = position /\ m_tokens' = m_tokens
    BY <1>6 DEF NextDocument
  <2>2. n = Len(WellFormed)
    BY <1>3, <1>4, <1>6
  <2>3. BsonTypeOK'
    BY <1>1, <2>1 DEF BsonTypeOK
  <2>4. Cutting'
    BY <1>1, <2>1, CutKept
  <2>5. Parsing'
    <3>1. \A k \in 1 .. Len(m_tokens') : TokensOf(WellFormed[k].elements, m_tokens[k])'
      BY <1>4, <1>5, <2>1 DEF TokensOf, FaithfulTo
    <3>2. QED
      BY <1>1, <1>4, <1>5, <2>1, <2>2, <3>1 DEF Parsing
  <2>6. LeftForMisread'
    BY <2>1 DEF LeftForMisread
  <2>7. QED
    BY <2>3, <2>4, <2>5, <2>6 DEF BsonIInv
<1>7. CASE ~(i > Len(m_documentsSizes))
  <2> DEFINE s == m_documentsSizes[i][1]
             d == WellFormed[i]
  <2>1. /\ position' = s + 4 /\ m_tokens' = Append(m_tokens, new) /\ parsing' = parsing
    BY <1>7 DEF NextDocument
  <2>2. i \in 1 .. Len(m_documentsSizes)
    BY <1>3, <1>7
  <2>3. CutAt(m_documentsSizes[i], d)
    BY <1>1, <2>2 DEF Cutting
  <2>4. DocumentAt(s, d)
    BY <2>3 DEF CutAt
  <2>5. s \in Nat /\ d.elements \in Seq(Element)
    BY <2>4, DocumentRead DEF DocumentAt, SoundDocument, Document
  <2>6. new \in ParsedDocument /\ new.state = "open" /\ Len(new.tokens) = 0
    BY DEF ParsedDocument
  <2>7. Progress(d.elements, 0, s, s + 4)
    <3>1. Offset(d.elements, 0) = 0 /\ Len(d.elements) \in Nat
      BY <2>5, OffsetTyped, LenProperties
    <3>2. OnTrack(d.elements, 0, s, s + 4)
      <4> HIDE DEF s, d
      <4>1. s + 4 = s + 4 + 0 /\ 0 <= Len(d.elements)
        BY <2>5, <3>1
      <4>2. QED
        BY <3>1, <4>1 DEF OnTrack
    <3>3. QED
      BY <3>2 DEF Progress
  <2>8. TokensOf(d.elements, new)
    <3> HIDE DEF d
    <3>1. Len(d.elements) \in Nat
      BY <2>5, LenProperties
    <3>2. QED
      BY <2>6, <3>1 DEF TokensOf
  <2> HIDE DEF new
  <2>9. /\ m_tokens' \in Seq(ParsedDocument) /\ Len(m_tokens') = i /\ m_tokens'[i] = new
        /\ \A k \in 1 .. n : m_tokens'[k] = m_tokens[k]
    BY <1>2, <2>1, <2>6, AppendProperties
  <2>10. BsonTypeOK'
    <3>1. s + 4 \in Nat
      <4> HIDE DEF s
      <4>1. QED
        BY <2>5
    <3>2. QED
      BY <1>1, <2>1, <2>9, <3>1 DEF BsonTypeOK
  <2>11. Cutting'
    BY <1>1, <2>1, CutKept
  <2>12. LastParsed' = new
    BY <2>9 DEF LastParsed
  <2>13. ASSUME NEW k \in 1 .. i
         PROVE  /\ TokensOf(WellFormed[k].elements, m_tokens'[k])
                /\ m_tokens'[k].state = "open" => k = i
    <3>1. CASE k = i
      BY <2>8, <2>9, <3>1
    <3>2. CASE k # i
      <4>1. k \in 1 .. n
        BY <1>3, <3>2
      <4>2. m_tokens'[k] = m_tokens[k]
        BY <2>9, <4>1
      <4>3. QED
        BY <1>4, <4>1, <4>2
    <3>3. QED
      BY <3>1, <3>2
  <2> HIDE DEF i, n, s
  <2>14. Parsing'
    <3>1. \A k \in 1 .. Len(m_tokens') : TokensOf(WellFormed[k].elements, m_tokens[k])'
      <4>1. ASSUME NEW k \in 1 .. Len(m_tokens') PROVE TokensOf(WellFormed[k].elements, m_tokens[k])'
        <5>1. TokensOf(WellFormed[k].elements, m_tokens'[k])
          BY <2>9, <2>13
        <5>2. QED
          BY <1>5, <5>1 DEF TokensOf, FaithfulTo
      <4>2. QED
        BY <4>1
    <3>2. \A k \in 1 .. Len(m_tokens') : m_tokens'[k].state = "open" => k = Len(m_tokens')
      BY <2>9, <2>13
    <3>3. Progress(WellFormed[Len(m_tokens)].elements, Len(LastParsed.tokens),
                   m_documentsSizes[Len(m_tokens)][1], position)'
      <4>1. Progress(WellFormed'[Len(m_tokens')].elements, Len(LastParsed'.tokens),
                     m_documentsSizes'[Len(m_tokens')][1], position')
        BY <1>1, <1>5, <2>1, <2>6, <2>7, <2>9, <2>12 DEF s
      <4>2. QED
        BY <4>1 DEF Progress, OnTrack, AfterNumber, Astray
    <3>4. Len(m_tokens') <= Len(m_documentsSizes')
      BY <1>1, <2>2, <2>9
    <3>5. QED
      BY <1>1, <2>1, <3>1, <3>2, <3>3, <3>4 DEF Parsing
  <2>15. LeftForMisread'
    BY <1>1, <2>1 DEF LeftForMisread
  <2>16. QED
    BY <2>10, <2>11, <2>14, <2>15 DEF BsonIInv
<1>8. QED
  BY <1>6, <1>7

(* Parsing an element keeps the invariant: its token stands for it, or it   *)
(* was misread.                                                             *)
LEMMA ParseStep == ASSUME BsonIInv, ParseElement PROVE BsonIInv'
<1> DEFINE n == Len(m_tokens)
           d == WellFormed[n]
           s == m_documentsSizes[n][1]
           t == m_tokens[n]
<1>1. OpenDocument /\ m_fileData[position] \in tokenType
  BY DEF ParseElement
<1>2. /\ n \in Nat /\ n > 0 /\ n <= Len(m_documentsSizes)
      /\ t \in ParsedDocument /\ t.state = "open" /\ TokensOf(d.elements, t)
      /\ Progress(d.elements, Len(t.tokens), s, position)
      /\ DocumentAt(s, d) /\ d.last = 0
  BY <1>1, OpenFacts
<1>3. position \in Nat /\ m_documentsSizes \in Seq(Nat \X Nat)
  BY DEF BsonIInv, BsonTypeOK
<1>4. PICK r \in parse(m_fileData[position], position) :
        IF r.next = Beyond THEN Undefined
        ELSE /\ m_tokens' = [m_tokens EXCEPT ![n].tokens =
                  Append(@, [type |-> m_fileData[position], name |-> r.name, data |-> r.data])]
             /\ position' = r.next
             /\ UNCHANGED <<bsonFile, m_fileData, m_documentsSizes, parsing>>
  BY DEF ParseElement
<1>5. /\ r.next \in Nat
      /\ r.next = Beyond => MisreadIn(d)
      /\ r.next # Beyond =>
           LET u == [t EXCEPT !.tokens = Append(@, TokenKept(m_fileData[position], r))]
           IN /\ u \in ParsedDocument /\ u.state = "open" /\ TokensOf(d.elements, u)
              /\ Progress(d.elements, Len(u.tokens), s, r.next)
  BY <1>1, <1>2, <1>3, ParsedOn
<1>6. CASE r.next = Beyond
  <2>1. Undefined /\ MisreadIn(d)
    BY <1>4, <1>5, <1>6
  <2>2. n \in 1 .. Len(m_documentsSizes)
    BY <1>2, <1>3, LenProperties
  <2>3. QED
    BY <2>1, <2>2, LeftStep
<1>7. CASE r.next # Beyond
  <2> DEFINE u == [t EXCEPT !.tokens = Append(@, TokenKept(m_fileData[position], r))]
  <2>1. /\ u \in ParsedDocument /\ u.state = "open" /\ TokensOf(d.elements, u)
        /\ Progress(d.elements, Len(u.tokens), s, r.next)
    BY <1>5, <1>7
  <2>2. /\ m_tokens' = [m_tokens EXCEPT ![n] = u]
        /\ position' = r.next
        /\ UNCHANGED <<bsonFile, m_fileData, m_documentsSizes, parsing>>
    BY <1>4, <1>7 DEF TokenKept
  <2> HIDE DEF u
  <2>3. position' \in Nat
    BY <1>5, <2>2
  <2>4. Progress(d.elements, Len(u.tokens), s, position')
    BY <2>1, <2>2
  <2>5. QED
    BY <1>1, <2>1, <2>2, <2>3, <2>4, LastReplaced
<1>8. QED
  BY <1>6, <1>7

(* Ending a document keeps the invariant: 00 is met after the last element  *)
(* only, or after a misread one.                                            *)
LEMMA EndStep == ASSUME BsonIInv, EndDocument PROVE BsonIInv'
<1> DEFINE n == Len(m_tokens)
           d == WellFormed[n]
           s == m_documentsSizes[n][1]
           t == m_tokens[n]
<1>1. OpenDocument
  BY DEF EndDocument
<1>2. /\ n \in Nat /\ n > 0 /\ n <= Len(m_documentsSizes)
      /\ t \in ParsedDocument /\ t.state = "open" /\ TokensOf(d.elements, t)
      /\ Len(t.tokens) \in Nat
      /\ Progress(d.elements, Len(t.tokens), s, position)
      /\ DocumentAt(s, d) /\ d.last = 0
  BY <1>1, OpenFacts
<1>3. position \in Nat /\ m_documentsSizes \in Seq(Nat \X Nat)
  BY DEF BsonIInv, BsonTypeOK
<1>4. CASE At(position, 1) = Lost
  <2>1. Undefined
    BY <1>4 DEF EndDocument
  <2>2. MisreadIn(d)
    BY <1>2, <1>4, ParsedLost
  <2>3. n \in 1 .. Len(m_documentsSizes)
    BY <1>2, <1>3, LenProperties
  <2>4. QED
    BY <2>1, <2>2, <2>3, LeftStep
<1>5. CASE At(position, 1) # Lost
  <2> DEFINE u == [t EXCEPT !.state = "returned"]
  <2>1. /\ m_fileData[position] \notin tokenType
        /\ m_tokens' = [m_tokens EXCEPT ![n] = u]
        /\ UNCHANGED <<bsonFile, m_fileData, position, m_documentsSizes, parsing>>
    BY <1>5 DEF EndDocument
  <2>2. u \in ParsedDocument /\ TokensOf(d.elements, u)
    BY <1>2, <2>1, ParsedEnd
  <2>3. u.state = "returned"
    BY <1>2 DEF ParsedDocument
  <2> HIDE DEF u
  <2>4. position' \in Nat /\ u.state # "open"
    BY <1>3, <2>1, <2>3
  <2>5. QED
    BY <1>1, <2>1, <2>2, <2>4, LastReplaced
<1>6. QED
  BY <1>4, <1>5

(* Leaving a document that meets no type keeps the invariant: that happens  *)
(* only after a misread element.                                            *)
LEMMA BoundaryStep == ASSUME BsonIInv, MeetBoundary PROVE BsonIInv'
<1> DEFINE n == Len(m_tokens)
           d == WellFormed[n]
           s == m_documentsSizes[n][1]
           t == m_tokens[n]
           u == [state |-> "null", tokens |-> <<>>]
<1>1. /\ OpenDocument /\ position = Boundary
      /\ m_tokens' = [m_tokens EXCEPT ![n] = u]
      /\ UNCHANGED <<bsonFile, m_fileData, position, m_documentsSizes, parsing>>
  BY DEF MeetBoundary
<1>2. /\ Len(t.tokens) \in Nat
      /\ Progress(d.elements, Len(t.tokens), s, position)
      /\ DocumentAt(s, d) /\ d.last = 0
      /\ position = s + Len(EncodedDocument(d))
  BY <1>1, OpenFacts
<1>3. MisreadIn(d)
  BY <1>2, ParsedLost
<1>4. u \in ParsedDocument /\ u.state = "null" /\ Len(u.tokens) = 0
  BY DEF ParsedDocument
<1>5. Len(d.elements) \in Nat
  BY <1>2, LenProperties DEF DocumentAt, SoundDocument, Document
<1> HIDE DEF u
<1>6. TokensOf(d.elements, u)
  BY <1>3, <1>4, <1>5 DEF TokensOf, MisreadIn
<1>7. position' \in Nat /\ u.state # "open"
  BY <1>1, <1>4 DEF BsonIInv, BsonTypeOK
<1>8. QED
  BY <1>1, <1>4, <1>6, <1>7, LastReplaced

(* Printing keeps the invariant: every document cut was parsed.             *)
LEMMA PrintStep == ASSUME BsonIInv, PrintTokens PROVE BsonIInv'
<1>1. BsonTypeOK /\ Cutting /\ Parsing /\ parsing = "parsed"
  BY DEF BsonIInv, PrintTokens
<1>2. CASE \E i \in 1 .. Len(m_tokens) : m_tokens[i].state = "null"
  <2>1. PICK i \in 1 .. Len(m_tokens) : m_tokens[i].state = "null"
    BY <1>2
  <2>2. Undefined
    BY <1>2 DEF PrintTokens
  <2>3. TokensOf(WellFormed[i].elements, m_tokens[i]) /\ Len(m_tokens) <= Len(m_documentsSizes)
    BY <1>1 DEF Parsing
  <2>4. MisreadIn(WellFormed[i])
    BY <2>1, <2>3 DEF TokensOf, MisreadIn
  <2>5. i \in 1 .. Len(m_documentsSizes)
    <3>1. Len(m_tokens) \in Nat /\ Len(m_documentsSizes) \in Nat
      BY <1>1, LenProperties DEF BsonTypeOK
    <3>2. QED
      BY <2>3, <3>1
  <2>6. QED
    BY <2>2, <2>4, <2>5, LeftStep
<1>3. CASE ~\E i \in 1 .. Len(m_tokens) : m_tokens[i].state = "null"
  <2>1. parsing' = "printed" /\ UNCHANGED <<bsonFile, m_fileData, position, m_documentsSizes, m_tokens>>
    BY <1>3 DEF PrintTokens
  <2>2. BsonTypeOK'
    BY <1>1, <2>1 DEF BsonTypeOK
  <2>3. Cutting'
    BY <1>1, <2>1, CutKept
  <2>4. WellFormed' = WellFormed
    BY <2>1, FileKept
  <2>5. Parsing'
    BY <1>1, <2>1, <2>4 DEF Parsing, TokensOf, FaithfulTo
  <2>6. LeftForMisread'
    BY <2>1 DEF LeftForMisread
  <2>7. QED
    BY <2>2, <2>3, <2>5, <2>6 DEF BsonIInv
<1>4. QED
  BY <1>2, <1>3

(* A step that changes nothing keeps the invariant.                         *)
LEMMA BsonStutter == ASSUME BsonIInv, UNCHANGED bsonVars PROVE BsonIInv'
<1>1. UNCHANGED <<bsonFile, m_fileData, position, m_documentsSizes, m_tokens, parsing>>
  BY DEF bsonVars
<1>2. BsonTypeOK /\ Cutting /\ Parsing /\ LeftForMisread
  BY DEF BsonIInv
<1>3. Cutting'
  BY <1>1, <1>2, CutKept
<1>4. WellFormed' = WellFormed
  BY <1>1, FileKept
<1>5. Parsing'
  BY <1>1, <1>2, <1>4 DEF Parsing, TokensOf, FaithfulTo, LastParsed, Progress, OnTrack, AfterNumber, Astray
<1>6. QED
  BY <1>1, <1>2, <1>3, <1>5 DEF BsonIInv, BsonTypeOK, LeftForMisread, MisreadIn

(* Of every set of files of documents encoded as the specification says:    *)
(* where the documents were cut, what their tokens stand for and where the  *)
(* parser stands hold at each step.                                         *)
THEOREM BsonInvariant == BsonSpec => []BsonIInv
<1>1. BsonInit => BsonIInv
  BY InitIInv
<1>2. BsonIInv /\ [BsonNext]_bsonVars => BsonIInv'
  <2> SUFFICES ASSUME BsonIInv, [BsonNext]_bsonVars PROVE BsonIInv'
    OBVIOUS
  <2>1. CASE ReadBsonFile
    BY <2>1, ReadStep
  <2>2. CASE CutDocument
    BY <2>2, CutStep
  <2>3. CASE NextDocument
    BY <2>3, NextDocumentStep
  <2>4. CASE ParseElement
    BY <2>4, ParseStep
  <2>5. CASE EndDocument
    BY <2>5, EndStep
  <2>6. CASE MeetBoundary
    BY <2>6, BoundaryStep
  <2>7. CASE PrintTokens
    BY <2>7, PrintStep
  <2>8. CASE UNCHANGED bsonVars
    BY <2>8, BsonStutter
  <2>9. QED
    BY <2>1, <2>2, <2>3, <2>4, <2>5, <2>6, <2>7, <2>8 DEF BsonNext
<1>3. QED
  BY <1>1, <1>2, PTL DEF BsonSpec

(* The invariant implies that the tokens of a document stand for its        *)
(* elements.                                                                *)
THEOREM ElementsAreRead == BsonIInv => ElementsRead
<1> SUFFICES ASSUME BsonIInv, NEW i \in 1 .. Len(m_tokens), m_tokens[i].state # "null",
                    NEW k \in 1 .. (IF m_tokens[i].state = "open" /\ Len(m_tokens[i].tokens) < Len(WellFormed[i].elements)
                                    THEN Len(m_tokens[i].tokens) ELSE Len(WellFormed[i].elements)),
                    \A j \in 1 .. k : WellFormed[i].elements[j].type \in Faithful
             PROVE  /\ Len(m_tokens[i].tokens) >= k
                    /\ Represents(m_tokens[i].tokens[k], WellFormed[i].elements[k])
  BY DEF ElementsRead
<1> DEFINE t == m_tokens[i]
           es == WellFormed[i].elements
           c == Len(t.tokens)
<1>1. BsonTypeOK /\ Cutting /\ Parsing
  BY DEF BsonIInv
<1>2. m_tokens \in Seq(ParsedDocument)
  BY <1>1 DEF BsonTypeOK
<1>3. t \in ParsedDocument
  BY <1>2, ElementOfSeq
<1>4. c \in Nat /\ t.state \in {"open", "returned", "null"} /\ t.state # "null"
  BY <1>3, LenProperties DEF ParsedDocument
<1>5. TokensOf(es, t) /\ Len(m_tokens) <= Len(m_documentsSizes)
  BY <1>1 DEF Parsing
<1>6. Len(es) \in Nat
  <2>1. i \in 1 .. Len(m_documentsSizes)
    BY <1>1, <1>2, <1>5, LenProperties DEF BsonTypeOK
  <2>2. CutAt(m_documentsSizes[i], WellFormed[i])
    BY <1>1, <2>1 DEF Cutting
  <2>3. QED
    BY <2>2, LenProperties DEF CutAt, DocumentAt, SoundDocument, Document
<1>7. /\ \A l \in 1 .. Len(es) : l <= c /\ FaithfulTo(es, l) => Represents(t.tokens[l], es[l])
      /\ t.state = "returned" => \A l \in 1 .. Len(es) : FaithfulTo(es, l) => l <= c
  BY <1>5 DEF TokensOf
<1>8. FaithfulTo(es, k)
  BY DEF FaithfulTo
<1>9. k \in 1 .. (IF t.state = "open" /\ c < Len(es) THEN c ELSE Len(es))
  OBVIOUS
<1> HIDE DEF t, es, c
<1>10. k \in 1 .. Len(es) /\ k <= c
  BY <1>4, <1>6, <1>7, <1>8, <1>9
<1>11. Represents(t.tokens[k], es[k])
  BY <1>7, <1>8, <1>10
<1>12. QED
  BY <1>4, <1>10, <1>11 DEF t, es, c

(* The invariant implies that the documents cut are those of the file that  *)
(* end by 00.                                                               *)
THEOREM DocumentsAreRead == BsonIInv => DocumentsRead
<1> SUFFICES ASSUME BsonIInv, parsing \in {"parsed", "printed"}
             PROVE  /\ Len(m_tokens) = Len(WellFormed)
                    /\ \A i \in 1 .. Len(m_tokens) :
                         m_tokens[i].state # "returned" => \E e \in ToSet(WellFormed[i].elements) : Misread(e)
  BY DEF DocumentsRead
<1>1. BsonTypeOK /\ Cutting /\ Parsing
  BY DEF BsonIInv
<1>2. Len(m_tokens) = Len(WellFormed) /\ \A k \in 1 .. Len(m_tokens) : m_tokens[k].state # "open"
  BY <1>1 DEF Parsing
<1>3. ASSUME NEW i \in 1 .. Len(m_tokens), m_tokens[i].state # "returned"
      PROVE  \E e \in ToSet(WellFormed[i].elements) : Misread(e)
  <2>1. m_tokens[i] \in ParsedDocument
    BY <1>1, ElementOfSeq DEF BsonTypeOK
  <2>2. m_tokens[i].state = "null"
    BY <1>2, <1>3, <2>1 DEF ParsedDocument
  <2>3. PICK j \in 1 .. Len(WellFormed[i].elements) : Misread(WellFormed[i].elements[j])
    BY <1>1, <2>2 DEF Parsing, TokensOf
  <2>4. WellFormed[i].elements \in Seq(Element)
    <3>1. i \in 1 .. Len(m_documentsSizes)
      BY <1>1, <1>2 DEF Cutting
    <3>2. CutAt(m_documentsSizes[i], WellFormed[i])
      BY <1>1, <3>1 DEF Cutting
    <3>3. QED
      BY <3>2 DEF CutAt, DocumentAt, SoundDocument, Document
  <2>5. WellFormed[i].elements[j] \in ToSet(WellFormed[i].elements)
    <3> DEFINE es == WellFormed[i].elements
    <3>1. j \in DOMAIN es
      BY <2>3, <2>4, LenProperties
    <3>2. QED
      BY <3>1 DEF ToSet
  <2>6. QED
    BY <2>3, <2>5
<1>4. QED
  BY <1>2, <1>3

(* For every set of files: each well-formed document is cut where it lies   *)
(* and its elements are read in order, up to the first type the parser does *)
(* not keep (BSONparser::getTokens, cutDocument).                           *)
THEOREM BsonFilesRead == BsonSpec => []FileRead
<1>1. BsonIInv => FileRead
  BY ElementsAreRead, DocumentsAreRead DEF FileRead
<1>2. QED
  BY <1>1, BsonInvariant, PTL

(* For every set of files: the parser reads beyond its bytes or loses them  *)
(* only because of an element it misreads.                                  *)
THEOREM BsonBytesLeft == BsonSpec => []BytesLeft
<1>1. BsonIInv => BytesLeft
  <2> SUFFICES ASSUME BsonIInv PROVE BytesLeft
    OBVIOUS
  <2> DEFINE es == UNION {ToSet(bsonFile[i].elements) : i \in DOMAIN bsonFile}
  <2>1. BsonTypeOK /\ Parsing /\ LeftForMisread
    BY DEF BsonIInv
  <2>2. ASSUME parsing = "undefined" PROVE \E e \in es : Misread(e)
    <3>1. PICK i \in 1 .. Len(bsonFile) : MisreadIn(bsonFile[i])
      BY <2>1, <2>2 DEF LeftForMisread
    <3>2. PICK j \in 1 .. Len(bsonFile[i].elements) : Misread(bsonFile[i].elements[j])
      BY <3>1 DEF MisreadIn
    <3>3. i \in DOMAIN bsonFile /\ bsonFile[i].elements \in Seq(Element)
      <4>1. bsonFile \in Seq(Document)
        BY <2>1 DEF BsonTypeOK, SoundFile
      <4>2. bsonFile[i] \in Document
        BY <4>1, ElementOfSeq
      <4>3. QED
        BY <4>1, <4>2, LenProperties DEF Document
    <3>4. bsonFile[i].elements[j] \in ToSet(bsonFile[i].elements)
      <4> DEFINE s == bsonFile[i].elements
      <4>1. j \in DOMAIN s
        BY <3>2, <3>3, LenProperties
      <4>2. QED
        BY <4>1 DEF ToSet
    <3>5. QED
      BY <3>2, <3>3, <3>4
  <2>3. ASSUME NEW i \in 1 .. Len(m_tokens), NEW type \in {3, 4, 15}, NEW k \in 1 .. Len(m_tokens[i].tokens)
        PROVE  m_tokens[i].tokens[k].type # type
    <3>1. m_tokens[i].tokens[k].type \notin {3, 4, 15}
      BY <2>1 DEF Parsing, TokensOf
    <3>2. QED
      BY <3>1
  <2>4. QED
    BY <2>2, <2>3 DEF BytesLeft
<1>2. QED
  BY <1>1, BsonInvariant, PTL

-----------------------------------------------------------------------------
(* The tokeniser: streams, and what is read of them.                        *)

Text == Seq(Characters)

(* What is left after n characters, whether there are as many or not. *)
LEMMA AfterValue ==
  ASSUME NEW S, NEW s \in Seq(S), NEW n \in Nat
  PROVE  /\ After(s, n) \in Seq(S)
         /\ Len(After(s, n)) = IF n < Len(s) THEN Len(s) - n ELSE 0
         /\ \A i \in 1 .. Len(s) - n : After(s, n)[i] = s[n + i]
<1>1. Len(s) \in Nat
  BY LenProperties
<1>2. \A i \in n + 1 .. Len(s) : s[i] \in S
  BY <1>1, ElementOfSeq
<1> DEFINE m == n + 1
           l == Len(s)
<1>3. m \in Int /\ l \in Int /\ l - m + 1 = l - n /\ (m <= l <=> n < l)
  BY <1>1
<1>4. \A i \in m .. l : s[i] \in S
  BY <1>2
<1>5. After(s, n) = SubSeq(s, m, l)
  BY DEF After
<1> HIDE DEF m, l
<1>6. /\ SubSeq(s, m, l) \in Seq(S)
      /\ Len(SubSeq(s, m, l)) = IF m <= l THEN l - m + 1 ELSE 0
      /\ \A i \in 1 .. l - m + 1 : SubSeq(s, m, l)[i] = s[m + i - 1]
  BY <1>3, <1>4, SubSeqProperties
<1>7. \A i \in 1 .. l - n : m + i - 1 = n + i
  BY <1>1, <1>3 DEF m, l
<1>8. \A i \in 1 .. l - n : SubSeq(s, m, l)[i] = s[n + i]
  BY <1>3, <1>6, <1>7
<1>9. Len(SubSeq(s, m, l)) = IF n < l THEN l - n ELSE 0
  BY <1>3, <1>6
<1>10. QED
  BY <1>5, <1>6, <1>8, <1>9 DEF l

(* After a characters and then b, a + b were read.                          *)
LEMMA AfterAfter ==
  ASSUME NEW S, NEW s \in Seq(S), NEW a \in Nat, NEW b \in Nat
  PROVE  After(After(s, a), b) = After(s, a + b)
<1> DEFINE t == After(s, a)
           u == After(t, b)
           v == After(s, a + b)
<1>1. Len(s) \in Nat /\ a + b \in Nat
  BY LenProperties
<1>2. /\ t \in Seq(S) /\ Len(t) = (IF a < Len(s) THEN Len(s) - a ELSE 0)
      /\ \A i \in 1 .. Len(s) - a : t[i] = s[a + i]
  BY AfterValue
<1> HIDE DEF t
<1>3. /\ u \in Seq(S) /\ Len(u) = (IF b < Len(t) THEN Len(t) - b ELSE 0)
      /\ \A i \in 1 .. Len(t) - b : u[i] = t[b + i]
  BY <1>2, AfterValue
<1>4. /\ v \in Seq(S) /\ Len(v) = (IF a + b < Len(s) THEN Len(s) - (a + b) ELSE 0)
      /\ \A i \in 1 .. Len(s) - (a + b) : v[i] = s[a + b + i]
  BY <1>1, AfterValue
<1> HIDE DEF u, v
<1>5. Len(u) = Len(v)
  BY <1>1, <1>2, <1>3, <1>4
<1>6. ASSUME NEW i \in 1 .. Len(u) PROVE u[i] = v[i]
  <2>1. i \in 1 .. Len(t) - b /\ b + i \in 1 .. Len(s) - a /\ i \in 1 .. Len(s) - (a + b) /\ a + (b + i) = a + b + i
    BY <1>1, <1>2, <1>3
  <2>2. u[i] = t[b + i]
    BY <1>3, <2>1
  <2>3. t[b + i] = s[a + (b + i)]
    BY <1>2, <2>1
  <2>4. v[i] = s[a + b + i]
    BY <1>4, <2>1
  <2>5. QED
    BY <2>1, <2>2, <2>3, <2>4
<1>7. u = v
  BY <1>3, <1>4, <1>5, <1>6, SeqEqual
<1>8. QED
  BY <1>7 DEF t, u, v

(* The next character is the first one of the stream.                       *)
LEMMA PeekValue ==
  ASSUME NEW S, NEW s \in Seq(S)
  PROVE  /\ Len(s) = 0 => Peek(s) = Eof
         /\ Len(s) # 0 => Peek(s) = s[1] /\ Peek(s) \in S
<1>1. CASE s = <<>>
  <2>1. Len(s) = 0 /\ Peek(s) = Eof
    BY <1>1, EmptySeq DEF Peek
  <2>2. QED
    BY <2>1
<1>2. CASE s # <<>>
  <2>1. Len(s) # 0
    BY <1>2, EmptySeq
  <2>2. Head(s) = s[1] /\ Head(s) \in S
    BY <1>2, HeadTailProperties
  <2>3. QED
    BY <1>2, <2>1, <2>2 DEF Peek
<1>3. QED
  BY <1>1, <1>2

(* The character that is peeked at after n of them. *)
LEMMA PeekAfter ==
  ASSUME NEW S, NEW s \in Seq(S), NEW n \in Nat
  PROVE  Peek(After(s, n)) = IF n < Len(s) THEN s[n + 1] ELSE Eof
<1> DEFINE t == After(s, n)
           i == 1
<1>1. Len(s) \in Nat
  BY LenProperties
<1>2. /\ t \in Seq(S) /\ Len(t) = (IF n < Len(s) THEN Len(s) - n ELSE 0)
      /\ \A k \in 1 .. Len(s) - n : t[k] = s[n + k]
  BY AfterValue
<1> HIDE DEF t
<1>3. CASE n < Len(s)
  <2>1. i \in 1 .. Len(s) - n /\ Len(t) # 0
    BY <1>1, <1>2, <1>3
  <2>2. t[1] = s[n + 1]
    BY <1>2, <2>1
  <2>3. Peek(t) = t[1]
    BY <1>2, <2>1, PeekValue
  <2>4. QED
    BY <1>3, <2>2, <2>3 DEF t
<1>4. CASE ~(n < Len(s))
  <2>1. Len(t) = 0
    BY <1>2, <1>4
  <2>2. Peek(t) = Eof
    BY <1>2, <2>1, PeekValue
  <2>3. QED
    BY <1>4, <2>2 DEF t
<1>5. QED
  BY <1>3, <1>4

(* The end of the file is no character.                                     *)
LEMMA EofApart == Eof \notin Characters
BY Zenon DEF Eof, Characters, Letters, Digits, Blank, Punct, Newline, Backslash, Quote, Apostrophe

(* Run is the length of the longest prefix in a set: the set of such lengths*)
(* has a least one that cannot be extended.                                 *)
LEMMA RunValue ==
  ASSUME NEW s, NEW S, Len(s) \in Nat
  PROVE  LET n == Run(s, S)
         IN /\ n \in 0 .. Len(s)
            /\ \A i \in 1 .. n : s[i] \in S
            /\ n < Len(s) => s[n + 1] \notin S
<1> DEFINE T == {n \in Nat : n = Len(s) \/ (n < Len(s) /\ s[n + 1] \notin S)}
           Right(n) == /\ \A i \in 1 .. n : s[i] \in S
                       /\ n < Len(s) => s[n + 1] \notin S
<1>1. Len(s) \in T /\ T \subseteq Nat
  OBVIOUS
<1>2. PICK n \in T : \A m \in T : n <= m
  <2> HIDE DEF T
  <2>1. T # {}
    BY <1>1
  <2>2. QED
    BY <1>1, <2>1, SmallestMember
<1>3. n \in 0 .. Len(s)
  OBVIOUS
<1>4. n < Len(s) => s[n + 1] \notin S
  OBVIOUS
<1>5. ASSUME NEW i \in 1 .. n PROVE s[i] \in S
  <2> DEFINE j == i - 1
  <2>1. j \in Nat /\ j < n /\ j < Len(s) /\ j + 1 = i
    BY <1>3
  <2>2. j \notin T
    <3> HIDE DEF T
    <3>1. QED
      BY <1>1, <1>2, <2>1
  <2> HIDE DEF j
  <2>3. s[j + 1] \in S
    BY <2>1, <2>2
  <2>4. QED
    BY <2>1, <2>3
<1>6. \E k \in 0 .. Len(s) : Right(k)
  BY <1>3, <1>4, <1>5
<1>7. Run(s, S) = CHOOSE k \in 0 .. Len(s) : Right(k)
  BY DEF Run
<1> HIDE DEF Right
<1>8. Run(s, S) \in 0 .. Len(s) /\ Right(Run(s, S))
  BY <1>6, <1>7
<1>9. QED
  BY <1>8 DEF Right

(* A recursion towards the end of a text: beyond n it is z, and before, G of *)
(* the values at the next two places.                                        *)
Descends(n, z, G, f) ==
  \A i \in 1 .. n + 2 : f[i] = IF i > n THEN z ELSE G[i][f[i + 1]][f[i + 2]]

SameBeyond(n, f, g) == \A i \in 1 .. n + 2 : i > n => f[i] = g[i]
SameIfNext(n, f, g) ==
  \A i \in 1 .. n : f[i + 1] = g[i + 1] /\ f[i + 2] = g[i + 2] => f[i] = g[i]

(* It has a value at each place. *)
LEMMA Descending ==
  ASSUME NEW n \in Nat, NEW V, NEW z \in V, NEW G \in [1 .. n -> [V -> [V -> V]]]
  PROVE  \E f \in [1 .. n + 2 -> V] : Descends(n, z, G, f)
<1> DEFINE Right(f, i) == f[i] = IF i > n THEN z ELSE G[i][f[i + 1]][f[i + 2]]
           Done(k) == \E f \in [1 .. n + 2 -> V] : \A i \in 1 .. n + 2 : i + k > n => Right(f, i)
           T == {k \in Nat : k <= n /\ ~Done(k)}
<1>1. ASSUME T # {} PROVE FALSE
  <2>1. PICK k \in T : \A m \in T : k <= m
    <3>1. T \subseteq Nat
      OBVIOUS
    <3> HIDE DEF T
    <3>2. QED
      BY <1>1, <3>1, SmallestMember
  <2>2. k \in Nat /\ k <= n /\ ~Done(k)
    OBVIOUS
  <2>3. CASE k = 0
    <3> DEFINE f == [i \in 1 .. n + 2 |-> z]
    <3>1. f \in [1 .. n + 2 -> V]
      OBVIOUS
    <3>2. \A i \in 1 .. n + 2 : i + k > n => Right(f, i)
      BY <2>3
    <3>3. QED
      BY <2>2, <3>1, <3>2
  <2>4. CASE k # 0
    <3> DEFINE j == k - 1
    <3>1. j \in Nat /\ j < k /\ j <= n /\ j + 1 = k
      BY <2>2, <2>4
    <3>2. Done(j)
      <4>1. j \notin T
        <5> HIDE DEF T
        <5>1. QED
          BY <2>1, <3>1
      <4> HIDE DEF Done, j
      <4>2. QED
        BY <3>1, <4>1
    <3> HIDE DEF j
    <3>3. PICK f \in [1 .. n + 2 -> V] : \A i \in 1 .. n + 2 : i + j > n => Right(f, i)
      BY <3>2
    <3> DEFINE p == n - j
               v == G[p][f[p + 1]][f[p + 2]]
               g == [f EXCEPT ![p] = v]
    <3>4. p \in 1 .. n /\ p + 1 \in 1 .. n + 2 /\ p + 2 \in 1 .. n + 2 /\ p + j = n
      BY <2>2, <3>1
    <3> HIDE DEF p
    <3>5. v \in V
      <4>1. f[p + 1] \in V /\ f[p + 2] \in V
        BY <3>4
      <4>2. G[p] \in [V -> [V -> V]]
        BY <3>4
      <4>3. G[p][f[p + 1]] \in [V -> V]
        BY <4>1, <4>2
      <4>4. QED
        BY <4>1, <4>3
    <3> HIDE DEF v
    <3>6. g \in [1 .. n + 2 -> V] /\ g[p] = v /\ \A i \in 1 .. n + 2 : i # p => g[i] = f[i]
      BY <3>4, <3>5
    <3> HIDE DEF g
    <3>7. ASSUME NEW i \in 1 .. n + 2, i + k > n PROVE Right(g, i)
      <4>1. CASE i = p
        <5>1. g[p + 1] = f[p + 1] /\ g[p + 2] = f[p + 2] /\ ~(p > n)
          BY <3>4, <3>6
        <5>2. QED
          BY <3>6, <4>1, <5>1 DEF v
      <4>2. CASE i # p
        <5>1. i + j > n
          BY <3>1, <3>4, <3>7, <4>2
        <5>2. Right(f, i)
          BY <3>3, <5>1
        <5>3. i <= n => i + 1 \in 1 .. n + 2 /\ i + 2 \in 1 .. n + 2 /\ i + 1 # p /\ i + 2 # p
          BY <2>2, <3>1, <3>4, <5>1
        <5>4. i <= n => g[i + 1] = f[i + 1] /\ g[i + 2] = f[i + 2]
          BY <3>6, <5>3
        <5>5. g[i] = f[i]
          BY <3>6, <4>2
        <5>6. QED
          BY <5>2, <5>4, <5>5
      <4>3. QED
        BY <4>1, <4>2
    <3>8. QED
      BY <2>2, <3>6, <3>7
  <2>5. QED
    BY <2>3, <2>4
<1>2. Done(n)
  <2>1. n \notin T
    BY <1>1
  <2> HIDE DEF Done
  <2>2. QED
    BY <2>1
<1>3. PICK f \in [1 .. n + 2 -> V] : \A i \in 1 .. n + 2 : i + n > n => Right(f, i)
  BY <1>2
<1>4. QED
  BY <1>3 DEF Descends

(* Two such recursions are the same if each value follows from the next two. *)
LEMMA DescendingAgree ==
  ASSUME NEW n \in Nat, NEW f, NEW g, SameBeyond(n, f, g), SameIfNext(n, f, g)
  PROVE  \A i \in 1 .. n + 2 : f[i] = g[i]
<1> DEFINE T == {k \in Nat : k <= n /\ \E i \in 1 .. n + 2 : i + k > n /\ f[i] # g[i]}
<1>1. ASSUME T # {} PROVE FALSE
  <2>1. PICK k \in T : \A m \in T : k <= m
    <3>1. T \subseteq Nat
      OBVIOUS
    <3> HIDE DEF T
    <3>2. QED
      BY <1>1, <3>1, SmallestMember
  <2>2. PICK i \in 1 .. n + 2 : i + k > n /\ f[i] # g[i]
    OBVIOUS
  <2>3. k \in Nat /\ k <= n /\ i <= n /\ k # 0
    <3>1. k \in Nat /\ k <= n
      OBVIOUS
    <3> HIDE DEF T
    <3>2. ~(i > n)
      BY <2>2 DEF SameBeyond
    <3>3. QED
      BY <2>2, <3>1, <3>2
  <2> DEFINE j == k - 1
  <2>4. j \in Nat /\ j < k /\ j <= n
    BY <2>3
  <2>5. j \notin T
    <3> HIDE DEF T, j
    <3>1. QED
      BY <2>1, <2>3, <2>4
  <2>6. \A m \in 1 .. n + 2 : m + j > n => f[m] = g[m]
    BY <2>4, <2>5
  <2>7. i + 1 \in 1 .. n + 2 /\ i + 2 \in 1 .. n + 2 /\ i + 1 + j > n /\ i + 2 + j > n /\ i \in 1 .. n
    BY <2>2, <2>3
  <2>8. f[i + 1] = g[i + 1] /\ f[i + 2] = g[i + 2]
    BY <2>6, <2>7
  <2>9. QED
    BY <2>2, <2>7, <2>8 DEF SameIfNext
<1>2. n \notin T
  BY <1>1
<1>3. QED
  BY <1>2

(* One turn of the loop that reads a comment, and of that of a literal. *)
CommentRead == [close : Nat, eols : Nat]
CommentAt(s, f, i) ==
  IF i > Len(s) THEN [close |-> 0, eols |-> 0]
  ELSE IF s[i] = Newline THEN [f[i + 1] EXCEPT !.eols = @ + 1]
  ELSE IF s[i] # "*" THEN f[i + 1]
  ELSE IF Peek(After(s, i)) = "/" THEN [close |-> i + 1, eols |-> 0]
  ELSE f[i + 2]

KeptText == Seq(Characters \union {Eof})
LiteralRead == [close : Nat, text : KeptText]
LiteralAt(q, s, f, i) ==
  IF i > Len(s) THEN [close |-> 0, text |-> <<>>]
  ELSE IF s[i] = q THEN [close |-> i, text |-> <<>>]
  ELSE IF s[i] # Backslash THEN [f[i + 1] EXCEPT !.text = <<s[i]>> \o @]
  ELSE IF Peek(After(s, i)) \in {q, Backslash}
       THEN [f[i + 2] EXCEPT !.text = <<Backslash, Peek(After(s, i))>> \o @]
  ELSE IF q = Quote /\ Peek(After(s, i)) = Newline THEN [close |-> 0, text |-> <<>>]
  ELSE [f[i + 1] EXCEPT !.text = <<Peek(After(s, i))>> \o @]

(* The position and the newlines that BlockComment computes come from a     *)
(* function over the stream, of numbers.                                    *)
LEMMA CommentRecursion ==
  ASSUME NEW s \in Text
  PROVE  \E f \in [1 .. Len(s) + 2 -> CommentRead] :
            /\ \A i \in 1 .. Len(s) + 2 : f[i] = CommentAt(s, f, i)
            /\ BlockComment(s) = f[1]
<1> DEFINE n == Len(s)
           z == [close |-> 0, eols |-> 0]
           V == CommentRead
           G == [i \in 1 .. n |-> [a \in V |-> [b \in V |->
                  IF s[i] = Newline THEN [a EXCEPT !.eols = @ + 1]
                  ELSE IF s[i] # "*" THEN a
                  ELSE IF Peek(After(s, i)) = "/" THEN [close |-> i + 1, eols |-> 0]
                  ELSE b]]]
           Step(f) == [i \in 1 .. n + 2 |-> CommentAt(s, f, i)]
           from == CHOOSE f : f = Step(f)
<1>1. n \in Nat
  BY LenProperties DEF Text
<1>2. z \in V
  BY DEF CommentRead
<1>3. G \in [1 .. n -> [V -> [V -> V]]]
  <2>1. ASSUME NEW i \in 1 .. n, NEW a \in V, NEW b \in V
        PROVE  (IF s[i] = Newline THEN [a EXCEPT !.eols = @ + 1]
                ELSE IF s[i] # "*" THEN a
                ELSE IF Peek(After(s, i)) = "/" THEN [close |-> i + 1, eols |-> 0]
                ELSE b) \in V
    <3>1. i + 1 \in Nat
      BY <1>1
    <3>2. [close |-> i + 1, eols |-> 0] \in V
      BY <3>1 DEF CommentRead
    <3>3. [a EXCEPT !.eols = @ + 1] \in V
      BY DEF CommentRead
    <3>4. QED
      BY <3>2, <3>3
  <2>2. QED
    BY <2>1
<1> HIDE DEF z
<1>4. PICK f \in [1 .. n + 2 -> V] : Descends(n, z, G, f)
  <2> HIDE DEF n, V, G
  <2>1. QED
    BY <1>1, <1>2, <1>3, Descending
<1>5. ASSUME NEW i \in 1 .. n + 2 PROVE f[i] = CommentAt(s, f, i)
  <2>1. CASE i > n
    BY <1>4, <2>1 DEF CommentAt, z, Descends
  <2>2. CASE ~(i > n)
    <3>1. i \in 1 .. n /\ f[i + 1] \in V /\ f[i + 2] \in V
      BY <1>1, <2>2
    <3>2. f[i] = G[i][f[i + 1]][f[i + 2]]
      BY <1>4, <2>2 DEF Descends
    <3> DEFINE a == f[i + 1]
               b == f[i + 2]
    <3>3. a \in V /\ b \in V
      BY <3>1
    <3>4. f[i] = G[i][a][b]
      BY <3>2
    <3>5. CommentAt(s, f, i) = IF s[i] = Newline THEN [a EXCEPT !.eols = @ + 1]
                  ELSE IF s[i] # "*" THEN a
                  ELSE IF Peek(After(s, i)) = "/" THEN [close |-> i + 1, eols |-> 0]
                  ELSE b
      BY <2>2 DEF CommentAt
    <3> HIDE DEF a, b, V
    <3>6. QED
      BY <3>1, <3>3, <3>4, <3>5
  <2>3. QED
    BY <2>1, <2>2
<1>6. f = Step(f)
  BY <1>5
<1>7. from = Step(from)
  <2> HIDE DEF Step
  <2>1. QED
    BY <1>6
<1>8. BlockComment(s) = from[1]
  BY DEF BlockComment, CommentAt
<1> HIDE DEF from
<1>9. \A i \in 1 .. n + 2 : from[i] = CommentAt(s, from, i)
  BY <1>7
<1>10. from[1] = f[1]
  <2>1. SameBeyond(n, from, f)
    <3>1. ASSUME NEW i \in 1 .. n + 2, i > n PROVE from[i] = f[i]
      BY <1>5, <1>9, <3>1 DEF CommentAt
    <3>2. QED
      BY <3>1 DEF SameBeyond
  <2>2. SameIfNext(n, from, f)
    <3>1. ASSUME NEW i \in 1 .. n, from[i + 1] = f[i + 1] /\ from[i + 2] = f[i + 2]
          PROVE  from[i] = f[i]
      <4>1. i \in 1 .. n + 2
        BY <1>1
      <4>2. CommentAt(s, from, i) = CommentAt(s, f, i)
        BY <3>1 DEF CommentAt
      <4>3. QED
        BY <1>5, <1>9, <4>1, <4>2
    <3>2. QED
      BY <3>1 DEF SameIfNext
  <2>3. \A i \in 1 .. n + 2 : from[i] = f[i]
    <3> HIDE DEF n
    <3>1. QED
      BY <1>1, <2>1, <2>2, DescendingAgree
  <2>4. 1 \in 1 .. n + 2
    BY <1>1
  <2>5. QED
    BY <2>3, <2>4
<1>11. QED
  BY <1>5, <1>8, <1>10

(* So do the position and the text that Quoted computes.                    *)
LEMMA LiteralRecursion ==
  ASSUME NEW q, NEW s \in Text
  PROVE  \E f \in [1 .. Len(s) + 2 -> LiteralRead] :
            /\ \A i \in 1 .. Len(s) + 2 : f[i] = LiteralAt(q, s, f, i)
            /\ Quoted(q, s) = f[1]
<1> DEFINE n == Len(s)
           z == [close |-> 0, text |-> <<>>]
           V == LiteralRead
           Turn(i, a, b) ==
                  IF s[i] = q THEN [close |-> i, text |-> <<>>]
                  ELSE IF s[i] # Backslash THEN [a EXCEPT !.text = <<s[i]>> \o @]
                  ELSE IF Peek(After(s, i)) \in {q, Backslash}
                       THEN [b EXCEPT !.text = <<Backslash, Peek(After(s, i))>> \o @]
                  ELSE IF q = Quote /\ Peek(After(s, i)) = Newline THEN [close |-> 0, text |-> <<>>]
                  ELSE [a EXCEPT !.text = <<Peek(After(s, i))>> \o @]
           G == [i \in 1 .. n |-> [a \in V |-> [b \in V |-> Turn(i, a, b)]]]
           Step(f) == [i \in 1 .. n + 2 |-> LiteralAt(q, s, f, i)]
           from == CHOOSE f : f = Step(f)
<1>1. n \in Nat
  BY LenProperties DEF Text
<1>2. z \in V
  BY DEF LiteralRead, KeptText
<1>3. ASSUME NEW i \in 1 .. n, NEW a \in V, NEW b \in V PROVE Turn(i, a, b) \in V
  <2> DEFINE p == Peek(After(s, i))
             C == Characters \union {Eof}
             one == <<s[i]>>
             two == <<Backslash, p>>
             peeked == <<p>>
  <2>1. s[i] \in C
    BY ElementOfSeq DEF Text
  <2>2. p \in C
    <3>1. i \in Nat
      BY <1>1
    <3>2. After(s, i) \in Text
      BY <3>1, AfterValue DEF Text
    <3>3. Len(After(s, i)) \in Nat
      BY <3>2, LenProperties DEF Text
    <3>4. QED
      BY <3>2, <3>3, PeekValue DEF Text
  <2>3. Backslash \in C
    BY DEF Characters, Punct
  <2> HIDE DEF C, p
  <2>4. one \in Seq(C) /\ two \in Seq(C) /\ peeked \in Seq(C)
    BY <2>1, <2>2, <2>3
  <2> HIDE DEF one, two, peeked
  <2>5. /\ a.text \in Seq(C) /\ b.text \in Seq(C)
    BY DEF LiteralRead, KeptText, C
  <2>6. one \o a.text \in Seq(C) /\ two \o b.text \in Seq(C) /\ peeked \o a.text \in Seq(C)
    BY <2>4, <2>5, ConcatProperties
  <2>7. /\ [a EXCEPT !.text = one \o @] \in V
        /\ [b EXCEPT !.text = two \o @] \in V
        /\ [a EXCEPT !.text = peeked \o @] \in V
    BY <2>6 DEF LiteralRead, KeptText, C
  <2>8. [close |-> i, text |-> <<>>] \in V /\ [close |-> 0, text |-> <<>>] \in V
    BY <1>1 DEF LiteralRead, KeptText
  <2>9. QED
    BY <2>7, <2>8 DEF one, two, peeked, p
<1>31. G \in [1 .. n -> [V -> [V -> V]]]
  <2> HIDE DEF Turn
  <2>1. QED
    BY <1>3
<1> HIDE DEF z
<1>4. PICK f \in [1 .. n + 2 -> V] : Descends(n, z, G, f)
  <2> HIDE DEF n, V, G
  <2>1. QED
    BY <1>1, <1>2, <1>31, Descending
<1>5. ASSUME NEW i \in 1 .. n + 2 PROVE f[i] = LiteralAt(q, s, f, i)
  <2>1. CASE i > n
    BY <1>4, <2>1 DEF LiteralAt, z, Descends
  <2>2. CASE ~(i > n)
    <3>1. i \in 1 .. n /\ f[i + 1] \in V /\ f[i + 2] \in V
      BY <1>1, <2>2
    <3>2. f[i] = G[i][f[i + 1]][f[i + 2]]
      BY <1>4, <2>2 DEF Descends
    <3> DEFINE a == f[i + 1]
               b == f[i + 2]
    <3>3. a \in V /\ b \in V
      BY <3>1
    <3>4. f[i] = G[i][a][b]
      BY <3>2
    <3>5. LiteralAt(q, s, f, i) = Turn(i, a, b)
      BY <2>2 DEF LiteralAt
    <3> HIDE DEF a, b, V, Turn
    <3>6. QED
      BY <3>1, <3>3, <3>4, <3>5
  <2>3. QED
    BY <2>1, <2>2
<1>6. f = Step(f)
  BY <1>5
<1>7. from = Step(from)
  <2> HIDE DEF Step
  <2>1. QED
    BY <1>6
<1>8. Quoted(q, s) = from[1]
  BY DEF Quoted, LiteralAt
<1> HIDE DEF from
<1>9. \A i \in 1 .. n + 2 : from[i] = LiteralAt(q, s, from, i)
  BY <1>7
<1>10. from[1] = f[1]
  <2>1. SameBeyond(n, from, f)
    <3>1. ASSUME NEW i \in 1 .. n + 2, i > n PROVE from[i] = f[i]
      BY <1>5, <1>9, <3>1 DEF LiteralAt
    <3>2. QED
      BY <3>1 DEF SameBeyond
  <2>2. SameIfNext(n, from, f)
    <3>1. ASSUME NEW i \in 1 .. n, from[i + 1] = f[i + 1] /\ from[i + 2] = f[i + 2]
          PROVE  from[i] = f[i]
      <4>1. i \in 1 .. n + 2
        BY <1>1
      <4>2. LiteralAt(q, s, from, i) = LiteralAt(q, s, f, i)
        BY <3>1 DEF LiteralAt
      <4>3. QED
        BY <1>5, <1>9, <4>1, <4>2
    <3>2. QED
      BY <3>1 DEF SameIfNext
  <2>3. \A i \in 1 .. n + 2 : from[i] = f[i]
    <3> HIDE DEF n
    <3>1. QED
      BY <1>1, <2>1, <2>2, DescendingAgree
  <2>4. 1 \in 1 .. n + 2
    BY <1>1
  <2>5. QED
    BY <2>3, <2>4
<1>11. QED
  BY <1>5, <1>8, <1>10

EndsIn(n, P) == \A i \in 1 .. n + 2 : i > n => i \in P
Backward(n, P) == \A i \in 1 .. n : i + 1 \in P /\ i + 2 \in P => i \in P

(* What holds beyond n, and at each place if it does at the next two, holds    *)
(* everywhere.                                                                *)
LEMMA DescendingHolds ==
  ASSUME NEW n \in Nat, NEW P, EndsIn(n, P), Backward(n, P)
  PROVE  \A i \in 1 .. n + 2 : i \in P
<1> DEFINE T == {k \in Nat : k <= n /\ \E i \in 1 .. n + 2 : i + k > n /\ i \notin P}
<1>1. ASSUME T # {} PROVE FALSE
  <2>1. PICK k \in T : \A m \in T : k <= m
    <3>1. T \subseteq Nat
      OBVIOUS
    <3> HIDE DEF T
    <3>2. QED
      BY <1>1, <3>1, SmallestMember
  <2>2. PICK i \in 1 .. n + 2 : i + k > n /\ i \notin P
    OBVIOUS
  <2>3. k \in Nat /\ k <= n /\ i <= n /\ k # 0
    <3>1. k \in Nat /\ k <= n
      OBVIOUS
    <3> HIDE DEF T
    <3>2. ~(i > n)
      BY <2>2 DEF EndsIn
    <3>3. QED
      BY <2>2, <3>1, <3>2
  <2> DEFINE j == k - 1
  <2>4. j \in Nat /\ j < k /\ j <= n
    BY <2>3
  <2>5. j \notin T
    <3> HIDE DEF T, j
    <3>1. QED
      BY <2>1, <2>3, <2>4
  <2>6. \A m \in 1 .. n + 2 : m + j > n => m \in P
    BY <2>4, <2>5
  <2>7. i + 1 \in 1 .. n + 2 /\ i + 2 \in 1 .. n + 2 /\ i + 1 + j > n /\ i + 2 + j > n /\ i \in 1 .. n
    BY <2>2, <2>3
  <2>8. i + 1 \in P /\ i + 2 \in P
    BY <2>6, <2>7
  <2>9. QED
    BY <2>2, <2>7, <2>8 DEF Backward
<1>2. n \notin T
  BY <1>1
<1>3. QED
  BY <1>2

(* Characters of a source may be kept, and are as many as a number.         *)
LEMMA TextKept ==
  ASSUME NEW s \in Text
  PROVE  s \in KeptText /\ Len(s) \in Nat
BY SeqMonotonic, LenProperties DEF Text, KeptText

(* What is left of a source is a text, and its next character is one of the *)
(* source or the end of the file.                                           *)
LEMMA AfterText ==
  ASSUME NEW s \in Text, NEW n \in Nat
  PROVE  /\ After(s, n) \in Text
         /\ Peek(After(s, n)) \in Characters \union {Eof}
         /\ Peek(After(s, n)) = IF n < Len(s) THEN s[n + 1] ELSE Eof
         /\ Peek(After(s, n)) = Eof <=> ~(n < Len(s))
<1>1. After(s, n) \in Seq(Characters)
  BY AfterValue DEF Text
<1>2. Peek(After(s, n)) = IF n < Len(s) THEN s[n + 1] ELSE Eof
  BY PeekAfter DEF Text
<1>3. n < Len(s) => s[n + 1] \in Characters
  <2>1. Len(s) \in Nat
    BY TextKept
  <2>2. n < Len(s) => n + 1 \in 1 .. Len(s)
    BY <2>1
  <2>3. QED
    BY <2>2, ElementOfSeq DEF Text
<1>4. QED
  BY <1>1, <1>2, <1>3, EofApart DEF Text

(* Nothing was read: all is left.                                           *)
LEMMA AfterNone ==
  ASSUME NEW s \in Text
  PROVE  After(s, 0) = s
<1>1. Len(s) \in Nat /\ 0 + 1 = 1
  BY TextKept
<1>2. SubSeq(s, 1, Len(s)) = s
  BY SubSeqFull DEF Text
<1>3. QED
  BY <1>1, <1>2 DEF After

(* AfterAfter, of a text.                                                   *)
LEMMA TextAfterAfter ==
  ASSUME NEW s \in Text, NEW a \in Nat, NEW b \in Nat
  PROVE  After(After(s, a), b) = After(s, a + b)
BY AfterAfter DEF Text

(* A character and n more of those that follow it. *)
LEMMA FirstKept ==
  ASSUME NEW c \in Characters, NEW s \in Text, NEW n \in 0 .. Len(s)
  PROVE  /\ <<c>> \o SubSeq(s, 1, n) = Cat(<<c>>, FirstOf(s, n))
         /\ FirstOf(s, n) \in Text
         /\ <<c>> \in Text
         /\ Cat(<<c>>, FirstOf(s, n)) \in Text
         /\ Cat(<<c>>, FirstOf(s, n)) \in KeptText
<1>1. FirstOf(s, n) \in Text
  BY FrontTyped DEF Text
<1>2. <<c>> \in Text
  BY SingletonSeq DEF Text
<1>3. Cat(<<c>>, FirstOf(s, n)) \in Text
  BY <1>1, <1>2, CatTyped DEF Text
<1>4. <<c>> \o SubSeq(s, 1, n) = Cat(<<c>>, FirstOf(s, n))
  BY DEF Cat, FirstOf
<1>5. QED
  BY <1>1, <1>2, <1>3, <1>4, TextKept

(* How far a token of each class reads. *)
LEMMA RunRead ==
  ASSUME NEW s \in Text, NEW S
  PROVE  /\ Run(s, S) \in 0 .. Len(s)
         /\ \A i \in 1 .. Run(s, S) : s[i] \in S
         /\ Run(s, S) < Len(s) => s[Run(s, S) + 1] \notin S
BY TextKept, RunValue

(* The tail is what is left after one character.                            *)
LEMMA TailRead ==
  ASSUME NEW s \in Text, Peek(s) # Eof
  PROVE  /\ Len(s) \in Nat \ {0} /\ Peek(s) = s[1] /\ Head(s) = s[1]
         /\ Tail(s) = After(s, 1)
<1>1. Len(s) \in Nat /\ s # <<>>
  BY TextKept DEF Peek
<1>2. Len(s) # 0
  BY <1>1, EmptySeq DEF Text
<1>3. Peek(s) = s[1] /\ Head(s) = s[1]
  BY <1>1, <1>2, PeekValue, HeadTailProperties DEF Text
<1>4. Tail(s) = SubSeq(s, 2, Len(s))
  BY <1>1, TailIsSubSeq DEF Text
<1>5. 1 + 1 = 2
  OBVIOUS
<1>6. QED
  BY <1>1, <1>2, <1>3, <1>4, <1>5 DEF After

(* An integer reads letters and digits only, and no more than there are.    *)
LEMMA IntegerRead ==
  ASSUME NEW c, NEW s \in Text
  PROVE  /\ IntegerLength(c, s) \in 0 .. Len(s)
         /\ \A i \in 1 .. IntegerLength(c, s) : s[i] \in Letters \union Digits
<1> DEFINE L == Letters \union Digits
<1>1. Len(s) \in Nat
  BY TextKept
<1>2. "x" # Eof /\ "x" \in L /\ HexDigits \subseteq L
  BY DEF Eof, Letters, HexDigits
<1>3. CASE c = "0" /\ Peek(s) = "x"
  <2> DEFINE t == Tail(s)
             n == Run(t, HexDigits)
  <2>1. Len(s) # 0 /\ s[1] = "x" /\ t = After(s, 1)
    BY <1>2, <1>3, TailRead
  <2>2. t \in Text /\ Len(t) = Len(s) - 1 /\ \A i \in 1 .. Len(s) - 1 : t[i] = s[1 + i]
    <3>1. /\ After(s, 1) \in Seq(Characters)
          /\ Len(After(s, 1)) = IF 1 < Len(s) THEN Len(s) - 1 ELSE 0
          /\ \A i \in 1 .. Len(s) - 1 : After(s, 1)[i] = s[1 + i]
      <4> DEFINE k == 1
      <4>1. k \in Nat
        OBVIOUS
      <4> HIDE DEF k
      <4>2. /\ After(s, k) \in Seq(Characters)
            /\ Len(After(s, k)) = IF k < Len(s) THEN Len(s) - k ELSE 0
            /\ \A i \in 1 .. Len(s) - k : After(s, k)[i] = s[k + i]
        BY <4>1, AfterValue DEF Text
      <4>3. QED
        BY <4>2 DEF k
    <3> HIDE DEF t
    <3>2. QED
      BY <1>1, <2>1, <3>1 DEF Text
  <2> HIDE DEF t
  <2>3. n \in 0 .. Len(t) /\ \A i \in 1 .. n : t[i] \in HexDigits
    BY <2>2, RunRead
  <2>4. IntegerLength(c, s) = 1 + n
    BY <1>3 DEF IntegerLength, t
  <2> HIDE DEF n, L
  <2>5. ASSUME NEW i \in 1 .. 1 + n PROVE s[i] \in L
    <3>1. CASE i = 1
      BY <1>2, <2>1, <3>1
    <3>2. CASE i # 1
      <4> DEFINE j == i - 1
      <4>1. j \in 1 .. n /\ j \in 1 .. Len(s) - 1 /\ 1 + j = i
        BY <1>1, <2>2, <2>3, <3>2
      <4> HIDE DEF j
      <4>2. s[1 + j] \in HexDigits
        BY <2>2, <2>3, <4>1
      <4>3. QED
        BY <1>2, <4>1, <4>2
    <3>3. QED
      BY <3>1, <3>2
  <2>6. 1 + n \in 0 .. Len(s)
    BY <1>1, <2>1, <2>2, <2>3
  <2>7. QED
    BY <2>4, <2>5, <2>6 DEF L
<1>4. CASE ~(c = "0" /\ Peek(s) = "x")
  <2>1. IntegerLength(c, s) = Run(s, Digits)
    BY <1>4 DEF IntegerLength
  <2>2. QED
    BY <2>1, RunRead
<1>5. QED
  BY <1>3, <1>4

(* The characters that may follow others in a punctuation token. *)
FollowSigns == {"=", "#", ".", ":", "&", "+", "<", ">", "|", "-", "*"}

(* What may follow one character, and two: the cases of Follow do not       *)
(* overlap.                                                                 *)
LEMMA FollowValue ==
  /\ \A c : Follow(<<c>>) =
        IF c \in {"!", "%", "*", "/", "="} THEN {"="}
        ELSE IF c \in {"#", ".", ":"} THEN {c}
        ELSE IF c \in {"&", "+", "<", ">", "|"} THEN {c, "="}
        ELSE IF c = "-" THEN {"-", "=", ">"} ELSE {}
  /\ \A c, d : Follow(<<c, d>>) =
        IF c = "-" /\ d = ">" THEN {"*"}
        ELSE IF c = "." /\ d = "." THEN {"."}
        ELSE IF c \in {"<", ">"} /\ d = c THEN {"="} ELSE {}
<1>1. ASSUME NEW c PROVE
       Follow(<<c>>) =
        IF c \in {"!", "%", "*", "/", "="} THEN {"="}
        ELSE IF c \in {"#", ".", ":"} THEN {c}
        ELSE IF c \in {"&", "+", "<", ">", "|"} THEN {c, "="}
        ELSE IF c = "-" THEN {"-", "=", ">"} ELSE {}
  <2>1. CASE c \in {"!", "%", "*", "/", "="}
    BY <2>1 DEF Follow
  <2>2. CASE c \in {"#", ".", ":"}
    BY <2>2 DEF Follow
  <2>3. CASE c \in {"&", "+", "<", ">", "|"}
    BY <2>3 DEF Follow
  <2>4. CASE c = "-"
    BY <2>4 DEF Follow
  <2>5. CASE c \notin {"!", "%", "*", "/", "=", "#", ".", ":", "&", "+", "<", ">", "|", "-"}
    BY <2>5 DEF Follow
  <2>6. QED
    BY <2>1, <2>2, <2>3, <2>4, <2>5
<1>2. ASSUME NEW c, NEW d PROVE
      Follow(<<c, d>>) =
        IF c = "-" /\ d = ">" THEN {"*"}
        ELSE IF c = "." /\ d = "." THEN {"."}
        ELSE IF c \in {"<", ">"} /\ d = c THEN {"="} ELSE {}
  BY DEF Follow
<1>3. QED
  BY <1>1, <1>2

(* Only eleven characters follow another in an operator, and a newline is   *)
(* none of them.                                                            *)
LEMMA FollowApart ==
  /\ FollowSigns \subseteq Characters /\ Newline \notin FollowSigns
  /\ \A c : Follow(<<c>>) \subseteq FollowSigns
  /\ \A c, d : Follow(<<c, d>>) \subseteq FollowSigns
<1>1. FollowSigns \subseteq Characters /\ Newline \notin FollowSigns
  BY DEF FollowSigns, Characters, Punct, Newline
<1> DEFINE one(c) == Follow(<<c>>)
           two(c, d) == Follow(<<c, d>>)
<1>2. ASSUME NEW c PROVE one(c) \subseteq FollowSigns
  <2>1. one(c) =
        IF c \in {"!", "%", "*", "/", "="} THEN {"="}
        ELSE IF c \in {"#", ".", ":"} THEN {c}
        ELSE IF c \in {"&", "+", "<", ">", "|"} THEN {c, "="}
        ELSE IF c = "-" THEN {"-", "=", ">"} ELSE {}
    BY FollowValue
  <2> HIDE DEF one
  <2>2. QED
    BY <2>1 DEF FollowSigns
<1>3. ASSUME NEW c, NEW d PROVE two(c, d) \subseteq FollowSigns
  <2>1. two(c, d) =
        IF c = "-" /\ d = ">" THEN {"*"}
        ELSE IF c = "." /\ d = "." THEN {"."}
        ELSE IF c \in {"<", ">"} /\ d = c THEN {"="} ELSE {}
    BY FollowValue
  <2> HIDE DEF two
  <2>2. QED
    BY <2>1 DEF FollowSigns
<1>4. QED
  BY <1>1, <1>2, <1>3

(* What a punctuation token reads, and why it stops. *)
LEMMA PunctuationRead ==
  ASSUME NEW c, NEW s \in Text
  PROVE  LET n == PunctuationLength(c, s)
         IN /\ n \in 0 .. Len(s) /\ n \in 0 .. 2
            /\ \A i \in 1 .. n : s[i] \in FollowSigns
            /\ n > 0 => s[1] \in Follow(<<c>>)
            /\ n = 0 => Peek(After(s, n)) \notin Follow(<<c>>)
            /\ n = 1 => Peek(After(s, n)) \notin Follow(<<c, s[1]>>)
            /\ n = 2 => s[2] \in Follow(<<c, s[1]>>)
<1> DEFINE n == PunctuationLength(c, s)
           Goal(m) == /\ m \in 0 .. Len(s) /\ m \in 0 .. 2
                      /\ \A i \in 1 .. m : s[i] \in FollowSigns
                      /\ m > 0 => s[1] \in Follow(<<c>>)
                      /\ m = 0 => Peek(After(s, m)) \notin Follow(<<c>>)
                      /\ m = 1 => Peek(After(s, m)) \notin Follow(<<c, s[1]>>)
                      /\ m = 2 => s[2] \in Follow(<<c, s[1]>>)
<1>1. Eof \notin FollowSigns /\ Len(s) \in Nat
  BY EofApart, FollowApart, TextKept
<1>2. CASE Peek(s) \notin Follow(<<c>>)
  <2>1. n = 0
    BY <1>2 DEF PunctuationLength
  <2>2. Peek(After(s, 0)) \notin Follow(<<c>>)
    BY <1>2, AfterNone
  <2>3. Goal(0)
    BY <1>1, <2>2
  <2>4. QED
    BY <2>1, <2>3
<1>3. CASE Peek(s) \in Follow(<<c>>)
  <2>1. Peek(s) # Eof
    BY <1>1, <1>3, FollowApart
  <2>2. Len(s) \in Nat \ {0} /\ Head(s) = s[1] /\ Peek(s) = s[1] /\ Tail(s) = After(s, 1)
    BY <2>1, TailRead
  <2>3. s[1] \in Follow(<<c>>) /\ s[1] \in FollowSigns
    BY <1>3, <2>2, FollowApart
  <2>4. n = IF Peek(After(s, 1)) \in Follow(<<c, s[1]>>) THEN 2 ELSE 1
    BY <1>3, <2>2 DEF PunctuationLength
  <2>5. CASE Peek(After(s, 1)) \in Follow(<<c, s[1]>>)
    <3>1. n = 2
      BY <2>4, <2>5
    <3>2. Peek(After(s, 1)) # Eof /\ Peek(After(s, 1)) \in FollowSigns
      BY <1>1, <2>5, FollowApart
    <3> DEFINE k == 1
    <3>3. k \in Nat /\ Peek(After(s, k)) = Peek(After(s, 1))
      OBVIOUS
    <3>4. k = 1 /\ k + 1 = 2
      OBVIOUS
    <3> HIDE DEF k
    <3>5. Peek(After(s, k)) = IF k < Len(s) THEN s[k + 1] ELSE Eof
      BY <3>3, AfterText
    <3>6. 1 < Len(s) /\ Peek(After(s, 1)) = s[2]
      BY <3>2, <3>3, <3>4, <3>5
    <3>7. s[2] \in Follow(<<c, s[1]>>) /\ s[2] \in FollowSigns
      BY <2>5, <3>2, <3>6
    <3>8. \A i \in 1 .. 2 : s[i] \in FollowSigns
      <4>1. \A i \in 1 .. 2 : i = 1 \/ i = 2
        OBVIOUS
      <4>2. QED
        BY <2>3, <3>7, <4>1
    <3>9. Goal(2)
      BY <2>2, <2>3, <3>6, <3>7, <3>8
    <3>10. QED
      BY <3>1, <3>9
  <2>6. CASE Peek(After(s, 1)) \notin Follow(<<c, s[1]>>)
    <3>1. n = 1
      BY <2>4, <2>6
    <3>2. \A i \in 1 .. 1 : s[i] \in FollowSigns
      <4>1. \A i \in 1 .. 1 : i = 1
        OBVIOUS
      <4>2. QED
        BY <2>3, <4>1
    <3>3. Goal(1)
      BY <2>2, <2>3, <2>6, <3>2
    <3>4. QED
      BY <3>1, <3>3
  <2>7. QED
    BY <2>5, <2>6
<1>4. QED
  BY <1>2, <1>3

(* What parse_token keeps, how far it reads, and whether the program goes on. *)
ClassKinds ==
  {"symbol", "eol", "whitespace", "literal", "const_literal", "integer", "punctuation"}
ParsedToken == [text : KeptText, read : Nat, outcome : {"tokenising", "unterminated", "spinning"}]

(* The position and the text of a quoted literal have their types.          *)
LEMMA QuotedTyped ==
  ASSUME NEW q, NEW s \in Text
  PROVE  Quoted(q, s) \in LiteralRead
<1>1. Len(s) \in Nat
  BY TextKept
<1>2. PICK f \in [1 .. Len(s) + 2 -> LiteralRead] : Quoted(q, s) = f[1]
  BY LiteralRecursion
<1>3. QED
  BY <1>1, <1>2

(* So has what parse_token returns for each class.                          *)
LEMMA TokenTyped ==
  ASSUME NEW kind \in ClassKinds, NEW c \in Characters, NEW s \in Text
  PROVE  parse_token(kind, c, s) \in ParsedToken
<1>1. Len(s) \in Nat /\ <<>> \in KeptText /\ 0 \in Nat
  BY TextKept, EmptySeq DEF KeptText
<1>2. ASSUME NEW n \in 0 .. Len(s)
      PROVE  Parsed(<<c>> \o SubSeq(s, 1, n), n) \in ParsedToken
  <2>1. <<c>> \o SubSeq(s, 1, n) \in KeptText /\ n \in Nat
    <3>1. <<c>> \o SubSeq(s, 1, n) = Cat(<<c>>, FirstOf(s, n)) /\ Cat(<<c>>, FirstOf(s, n)) \in KeptText
      BY FirstKept
    <3>2. <<c>> \o SubSeq(s, 1, n) \in KeptText
      BY <3>1, Zenon
    <3>3. QED
      BY <1>1, <3>2
  <2> DEFINE t == <<c>> \o SubSeq(s, 1, n)
  <2> HIDE DEF t
  <2>2. t \in KeptText => Parsed(t, n) \in ParsedToken
    BY <2>1 DEF Parsed, ParsedToken
  <2>3. QED
    BY <2>1, <2>2 DEF t
<1>3. Parsed(<<>>, 0) \in ParsedToken /\ \A n \in Nat : Parsed(<<>>, n) \in ParsedToken
  BY <1>1 DEF Parsed, ParsedToken
<1>4. Ended("unterminated") \in ParsedToken /\ Ended("spinning") \in ParsedToken
  BY <1>1 DEF Ended, ParsedToken
<1>5. ASSUME NEW q PROVE Parsed(Quoted(q, s).text, Quoted(q, s).close) \in ParsedToken
  <2>1. Quoted(q, s) \in LiteralRead
    BY QuotedTyped
  <2>2. QED
    BY <2>1 DEF LiteralRead, Parsed, ParsedToken
<1>6. CASE kind = "symbol"
  <2>1. Run(s, Letters \union Digits) \in 0 .. Len(s)
    BY RunRead
  <2>2. parse_token(kind, c, s) = symbol_token(c, s)
    BY <1>6 DEF parse_token
  <2>3. QED
    BY <1>2, <2>1, <2>2 DEF symbol_token
<1>7. CASE kind = "integer"
  <2>1. IntegerLength(c, s) \in 0 .. Len(s)
    BY IntegerRead
  <2>2. parse_token(kind, c, s) = integer_token(c, s)
    BY <1>7 DEF parse_token
  <2>3. QED
    BY <1>2, <2>1, <2>2 DEF integer_token
<1>8. CASE kind = "punctuation"
  <2>1. PunctuationLength(c, s) \in 0 .. Len(s)
    BY PunctuationRead
  <2>2. parse_token(kind, c, s) = punctuation_token(c, s)
    BY <1>8 DEF parse_token
  <2>3. QED
    BY <1>2, <2>1, <2>2 DEF punctuation_token
<1>9. CASE kind = "whitespace"
  <2>1. Run(s, Blank) \in Nat
    BY <1>1, RunRead
  <2>2. parse_token(kind, c, s) = whitespace_token(s)
    BY <1>9 DEF parse_token
  <2>3. QED
    BY <1>3, <2>1, <2>2 DEF whitespace_token
<1>10. CASE kind = "eol"
  <2>1. parse_token(kind, c, s) = eol_token
    BY <1>10 DEF parse_token
  <2>2. QED
    BY <1>3, <2>1 DEF eol_token
<1>11. CASE kind = "literal"
  <2>1. parse_token(kind, c, s) = literal_token(s)
    BY <1>11 DEF parse_token
  <2>2. QED
    BY <1>4, <1>5, <2>1 DEF literal_token
<1>12. CASE kind = "const_literal"
  <2>1. parse_token(kind, c, s) = const_literal_token(s)
    BY <1>12 DEF parse_token
  <2>2. QED
    BY <1>4, <1>5, <2>1 DEF const_literal_token
<1>13. QED
  BY <1>6, <1>7, <1>8, <1>9, <1>10, <1>11, <1>12 DEF ClassKinds

-----------------------------------------------------------------------------
(* The tokeniser: types, and where each step leaves the stream.             *)

TokenObject == [kind : ClassKinds \union {"eof"}, text : KeptText]
Classed(os) == \A i \in 1 .. Len(os) : os[i].kind \in ClassKinds

(* p is the place of input_char in the source, beyond it at its end. *)
Reading(p) ==
  /\ p \in Nat \ {0}
  /\ input_char = Peek(After(source, p - 1))
  /\ rest = After(source, p)

(* A step leaves input_char at the place q of the source. *)
ReadingNext(q) ==
  /\ q \in Nat \ {0}
  /\ source' = source
  /\ input_char' = Peek(After(source, q - 1))
  /\ rest' = After(source, q)

TokenizerTypeOK ==
  /\ source \in Text
  /\ objects \in Seq(TokenObject)
  /\ token \in 0 .. Len(objects)
  /\ token_list \in Seq(Nat)
  /\ \A i \in 1 .. Len(token_list) : token_list[i] \in 1 .. Len(objects)
  /\ outcome \in {"idle", "tokenising", "unterminated", "spinning", "printed"}
  /\ outcome = "tokenising" => Classed(objects)
  /\ outcome = "idle" => objects = <<>> /\ token = 0 /\ token_list = <<>> /\ source = <<>>
  /\ \E p : Reading(p)

(* Where the tokeniser stands in the source: the character read ahead, and  *)
(* those left.                                                              *)
LEMMA ReadingTyped ==
  ASSUME source \in Text, NEW p, Reading(p)
  PROVE  /\ rest \in Text /\ input_char \in Characters \union {Eof}
         /\ input_char = IF p <= Len(source) THEN source[p] ELSE Eof
         /\ input_char = Eof <=> ~(p <= Len(source))
         /\ \A n \in Nat : After(rest, n) = After(source, p + n)
         /\ Len(rest) = IF p < Len(source) THEN Len(source) - p ELSE 0
         /\ \A i \in 1 .. Len(rest) : rest[i] = source[p + i]
<1>1. p \in Nat /\ p - 1 \in Nat /\ p - 1 + 1 = p /\ Len(source) \in Nat
  BY TextKept DEF Reading
<1>2. rest = After(source, p) /\ input_char = Peek(After(source, p - 1))
  BY DEF Reading
<1>3. rest \in Text
  BY <1>1, <1>2, AfterText
<1>4. \A n \in Nat : After(rest, n) = After(source, p + n)
  BY <1>1, <1>2, TextAfterAfter
<1>5. /\ Len(rest) = (IF p < Len(source) THEN Len(source) - p ELSE 0)
      /\ \A i \in 1 .. Len(source) - p : rest[i] = source[p + i]
  BY <1>1, <1>2, AfterValue DEF Text
<1> DEFINE k == p - 1
<1>6. k \in Nat /\ k + 1 = p /\ input_char = Peek(After(source, k)) /\ (k < Len(source) <=> p <= Len(source))
  BY <1>1, <1>2
<1> HIDE DEF k
<1>7. /\ input_char \in Characters \union {Eof}
      /\ input_char = IF k < Len(source) THEN source[k + 1] ELSE Eof
      /\ input_char = Eof <=> ~(k < Len(source))
  BY <1>6, AfterText
<1>8. \A i \in 1 .. Len(rest) : rest[i] = source[p + i]
  <2>1. 1 .. Len(rest) = 1 .. Len(source) - p \/ Len(rest) = 0
    BY <1>1, <1>5
  <2>2. QED
    BY <1>5, <2>1
<1>9. QED
  BY <1>3, <1>4, <1>5, <1>6, <1>7, <1>8

(* Where a push leaves the stream. *)
LEMMA PushReads ==
  ASSUME source \in Text, NEW p, Reading(p), NEW a \in Nat, NEW read \in Nat,
         NEW kind, NEW o, NEW t, NEW before, t.read = read,
         Push(kind, o, t, After(rest, a), before)
  PROVE  ReadingNext(p + a + read + 1)
<1>1. /\ p \in Nat /\ p - 1 \in Nat /\ p > 0 /\ rest \in Text
      /\ \A n \in Nat : After(rest, n) = After(source, p + n)
  <2>1. p \in Nat /\ p - 1 \in Nat /\ p > 0
    BY DEF Reading
  <2>2. rest \in Text /\ \A n \in Nat : After(rest, n) = After(source, p + n)
    BY ReadingTyped
  <2>3. QED
    BY <2>1, <2>2
<1>2. /\ input_char' = Peek(After(After(rest, a), read))
      /\ rest' = After(After(rest, a), read + 1)
      /\ source' = source
  BY DEF Push
<1> DEFINE q == p + a + read + 1
<1>3. /\ a + read \in Nat /\ a + (read + 1) \in Nat /\ read + 1 \in Nat
      /\ p + (a + read) = q - 1 /\ p + (a + (read + 1)) = q /\ q \in Nat \ {0}
  BY <1>1
<1> HIDE DEF q
<1>4. After(After(rest, a), read) = After(source, q - 1)
  <2>1. After(After(rest, a), read) = After(rest, a + read)
    BY <1>1, TextAfterAfter
  <2>2. After(rest, a + read) = After(source, p + (a + read))
    BY <1>1, <1>3
  <2>3. QED
    BY <1>3, <2>1, <2>2
<1>5. After(After(rest, a), read + 1) = After(source, q)
  <2>1. After(After(rest, a), read + 1) = After(rest, a + (read + 1))
    BY <1>1, <1>3, TextAfterAfter
  <2>2. After(rest, a + (read + 1)) = After(source, p + (a + (read + 1)))
    BY <1>1, <1>3
  <2>3. QED
    BY <1>3, <2>1, <2>2
<1>6. ReadingNext(q)
  BY <1>2, <1>3, <1>4, <1>5 DEF ReadingNext
<1>7. QED
  BY <1>6 DEF q

(* A sequence whose o-th member is replaced, or added at its end. *)
Placed(os, o, x) ==
  [i \in 1 .. (IF o > Len(os) THEN o ELSE Len(os)) |-> IF i = o THEN x ELSE os[i]]

(* Such a sequence is longer by one if the member is new; the other members *)
(* are the same.                                                            *)
LEMMA PlacedTyped ==
  ASSUME NEW S, NEW os \in Seq(S), NEW o \in 1 .. Len(os) + 1, NEW x \in S
  PROVE  /\ Placed(os, o, x) \in Seq(S)
         /\ Len(Placed(os, o, x)) = IF o > Len(os) THEN o ELSE Len(os)
         /\ Placed(os, o, x)[o] = x
         /\ \A i \in 1 .. Len(os) : i # o => Placed(os, o, x)[i] = os[i]
<1> DEFINE n == IF o > Len(os) THEN o ELSE Len(os)
           new == [i \in 1 .. n |-> IF i = o THEN x ELSE os[i]]
<1>1. Len(os) \in Nat /\ n \in Nat /\ o \in 1 .. n /\ \A i \in 1 .. n : i = o \/ i \in 1 .. Len(os)
  BY LenProperties
<1>2. \A i \in 1 .. n : (IF i = o THEN x ELSE os[i]) \in S
  BY <1>1, ElementOfSeq
<1>3. new \in [1 .. n -> S]
  BY <1>2
<1>4. new \in Seq(S) /\ Len(new) = n
  <2> HIDE DEF new, n
  <2>1. new \in Seq(S)
    BY <1>1, <1>3, SeqDef
  <2>2. DOMAIN new = 1 .. n
    BY <1>3
  <2>3. DOMAIN new = 1 .. Len(new) /\ Len(new) \in Nat
    BY <2>1, LenProperties
  <2>4. QED
    BY <1>1, <2>1, <2>2, <2>3
<1>5. Placed(os, o, x) = new
  BY DEF Placed
<1>6. new[o] = x /\ \A i \in 1 .. Len(os) : i # o => new[i] = os[i]
  BY <1>1
<1> HIDE DEF new
<1>7. QED
  BY <1>4, <1>5, <1>6

(* What a push leaves: the objects typed, with the token among them. *)
LEMMA PushTyped ==
  ASSUME NEW before \in Seq(TokenObject), Classed(before), NEW kind \in ClassKinds,
         NEW o \in 1 .. Len(before) + 1, NEW t \in ParsedToken, NEW s,
         Push(kind, o, t, s, before)
  PROVE  /\ objects' = Placed(before, o, [kind |-> kind, text |-> t.text])
         /\ objects' \in Seq(TokenObject) /\ Classed(objects')
         /\ Len(objects') = IF o > Len(before) THEN o ELSE Len(before)
         /\ objects'[o] = [kind |-> kind, text |-> t.text]
         /\ \A i \in 1 .. Len(before) : i # o => objects'[i] = before[i]
         /\ token' = o /\ outcome' = t.outcome
         /\ outcome' \in {"tokenising", "unterminated", "spinning"}
<1> DEFINE x == [kind |-> kind, text |-> t.text]
<1>1. x \in TokenObject /\ x.kind \in ClassKinds
  BY DEF TokenObject, ParsedToken
<1>2. token' = o /\ outcome' = t.outcome
  BY DEF Push
<1>3. outcome' \in {"tokenising", "unterminated", "spinning"}
  BY <1>2 DEF ParsedToken
<1>4. objects' = Placed(before, o, x)
  BY DEF Push, Placed
<1> HIDE DEF x
<1>5. /\ objects' \in Seq(TokenObject)
      /\ Len(objects') = IF o > Len(before) THEN o ELSE Len(before)
      /\ objects'[o] = x
      /\ \A i \in 1 .. Len(before) : i # o => objects'[i] = before[i]
  <2> DEFINE new == Placed(before, o, x)
  <2>1. /\ new \in Seq(TokenObject)
        /\ Len(new) = IF o > Len(before) THEN o ELSE Len(before)
        /\ new[o] = x
        /\ \A i \in 1 .. Len(before) : i # o => new[i] = before[i]
    BY <1>1, PlacedTyped
  <2>2. objects' = new
    BY <1>4
  <2> HIDE DEF new
  <2>3. QED
    BY <2>1, <2>2
<1>6. Classed(objects')
  <2>1. ASSUME NEW i \in 1 .. Len(objects') PROVE objects'[i].kind \in ClassKinds
    <3>1. i = o \/ i \in 1 .. Len(before)
      BY <1>5, LenProperties
    <3>2. CASE i = o
      BY <1>1, <1>5, <3>2
    <3>3. CASE i # o
      BY <1>5, <3>1, <3>3 DEF Classed
    <3>4. QED
      BY <3>2, <3>3
  <2>2. QED
    BY <2>1 DEF Classed
<1>7. QED
  BY <1>2, <1>3, <1>4, <1>5, <1>6 DEF x

(* The classes are apart, so a character has the kind of its own. *)
LEMMA KindValue ==
  ASSUME NEW c \in Characters
  PROVE  /\ KindOf(c) \in ClassKinds \union {"none"}
         /\ KindOf(c) = "none" => c = "other"
         /\ KindOf(c) = "symbol" => c \in Letters
         /\ KindOf(c) = "eol" <=> c = Newline
         /\ KindOf(c) = "whitespace" => c \in Blank
         /\ KindOf(c) = "literal" => c = Quote
         /\ KindOf(c) = "const_literal" => c = Apostrophe
         /\ KindOf(c) = "integer" => c \in Digits
         /\ KindOf(c) = "punctuation" => c \in Punct
<1>1. CASE c \in Letters
  <2>1. /\ c # Newline /\ c \notin Blank /\ c # Quote /\ c # Apostrophe
        /\ c \notin Digits /\ c \notin Punct /\ c # "other"
    BY <1>1, Zenon DEF Letters, Newline, Quote, Apostrophe, Backslash, Blank, Digits, Punct
  <2>2. KindOf(c) = "symbol"
    BY <1>1, <2>1 DEF KindOf
  <2>3. QED
    BY <1>1, <2>1, <2>2 DEF ClassKinds
<1>2. CASE c = Newline
  <2>1. /\ c \notin Letters /\ c \notin Blank /\ c # Quote /\ c # Apostrophe
        /\ c \notin Digits /\ c \notin Punct /\ c # "other"
    BY <1>2, Zenon DEF Letters, Newline, Quote, Apostrophe, Backslash, Blank, Digits, Punct
  <2>2. KindOf(c) = "eol"
    BY <1>2, <2>1 DEF KindOf
  <2>3. QED
    BY <1>2, <2>1, <2>2 DEF ClassKinds
<1>3. CASE c \in Blank
  <2>1. /\ c \notin Letters /\ c # Newline /\ c # Quote /\ c # Apostrophe
        /\ c \notin Digits /\ c \notin Punct /\ c # "other"
    BY <1>3, Zenon DEF Letters, Newline, Quote, Apostrophe, Backslash, Blank, Digits, Punct
  <2>2. KindOf(c) = "whitespace"
    BY <1>3, <2>1 DEF KindOf
  <2>3. QED
    BY <1>3, <2>1, <2>2 DEF ClassKinds
<1>4. CASE c = Quote
  <2>1. /\ c \notin Letters /\ c # Newline /\ c \notin Blank /\ c # Apostrophe
        /\ c \notin Digits /\ c \notin Punct /\ c # "other"
    BY <1>4, Zenon DEF Letters, Newline, Quote, Apostrophe, Backslash, Blank, Digits, Punct
  <2>2. KindOf(c) = "literal"
    BY <1>4, <2>1 DEF KindOf
  <2>3. QED
    BY <1>4, <2>1, <2>2 DEF ClassKinds
<1>5. CASE c = Apostrophe
  <2>1. /\ c \notin Letters /\ c # Newline /\ c \notin Blank /\ c # Quote
        /\ c \notin Digits /\ c \notin Punct /\ c # "other"
    BY <1>5, Zenon DEF Letters, Newline, Quote, Apostrophe, Backslash, Blank, Digits, Punct
  <2>2. KindOf(c) = "const_literal"
    BY <1>5, <2>1 DEF KindOf
  <2>3. QED
    BY <1>5, <2>1, <2>2 DEF ClassKinds
<1>6. CASE c \in Digits
  <2>1. /\ c \notin Letters /\ c # Newline /\ c \notin Blank /\ c # Quote
        /\ c # Apostrophe /\ c \notin Punct /\ c # "other"
    BY <1>6, Zenon DEF Letters, Newline, Quote, Apostrophe, Backslash, Blank, Digits, Punct
  <2>2. KindOf(c) = "integer"
    BY <1>6, <2>1 DEF KindOf
  <2>3. QED
    BY <1>6, <2>1, <2>2 DEF ClassKinds
<1>7. CASE c \in Punct
  <2>1. /\ c \notin Letters /\ c # Newline /\ c \notin Blank /\ c # Quote
        /\ c # Apostrophe /\ c \notin Digits /\ c # "other"
    BY <1>7, Zenon DEF Letters, Newline, Quote, Apostrophe, Backslash, Blank, Digits, Punct
  <2>2. KindOf(c) = "punctuation"
    BY <1>7, <2>1 DEF KindOf
  <2>3. QED
    BY <1>7, <2>1, <2>2 DEF ClassKinds
<1>8. CASE c = "other"
  <2>1. /\ c \notin Letters /\ c # Newline /\ c \notin Blank /\ c # Quote
        /\ c # Apostrophe /\ c \notin Digits /\ c \notin Punct
    BY <1>8, Zenon DEF Letters, Newline, Quote, Apostrophe, Backslash, Blank, Digits, Punct
  <2>2. KindOf(c) = "none"
    BY <1>8, <2>1 DEF KindOf
  <2>3. QED
    BY <1>8, <2>1, <2>2 DEF ClassKinds
<1>9. QED
  BY <1>1, <1>2, <1>3, <1>4, <1>5, <1>6, <1>7, <1>8 DEF Characters

(* A push that keeps the references of the list among the objects keeps the *)
(* types.                                                                   *)
LEMMA PushKeepsTypes ==
  ASSUME TokenizerTypeOK, NEW before \in Seq(TokenObject), Classed(before),
         NEW kind \in ClassKinds, NEW o \in 1 .. Len(before) + 1, NEW t \in ParsedToken, NEW s,
         Push(kind, o, t, s, before), NEW q, ReadingNext(q),
         token_list' \in Seq(Nat),
         \A i \in 1 .. Len(token_list') : token_list'[i] \in 1 .. Len(objects')
  PROVE  TokenizerTypeOK'
<1>1. /\ objects' \in Seq(TokenObject) /\ Classed(objects')
      /\ Len(objects') = (IF o > Len(before) THEN o ELSE Len(before))
      /\ token' = o /\ outcome' \in {"tokenising", "unterminated", "spinning"}
  BY PushTyped
<1>2. o \in 0 .. Len(objects')
  <2>1. Len(before) \in Nat
    BY LenProperties
  <2>2. QED
    BY <1>1, <2>1
<1>3. source' = source /\ source \in Text
  BY DEF Push, TokenizerTypeOK
<1>4. outcome' # "idle"
  BY <1>1
<1>5. source' \in Text /\ token' \in 0 .. Len(objects')
  BY <1>1, <1>2, <1>3
<1>6. \E r : Reading(r)'
  BY DEF Reading, ReadingNext
<1>7. QED
  BY <1>1, <1>4, <1>5, <1>6 DEF TokenizerTypeOK

(* A reference is added to the list. *)
LEMMA Referred ==
  ASSUME NEW list \in Seq(Nat), NEW n \in Nat, NEW m \in Nat, n <= m, NEW o \in 1 .. m,
         \A i \in 1 .. Len(list) : list[i] \in 1 .. n
  PROVE  /\ Append(list, o) \in Seq(Nat)
         /\ Len(Append(list, o)) = Len(list) + 1
         /\ \A i \in 1 .. Len(Append(list, o)) : Append(list, o)[i] \in 1 .. m
         /\ \A i \in 1 .. Len(list) : Append(list, o)[i] = list[i]
         /\ Append(list, o)[Len(list) + 1] = o
<1> DEFINE new == Append(list, o)
<1>1. Len(list) \in Nat /\ o \in Nat
  BY LenProperties
<1>2. /\ new \in Seq(Nat) /\ Len(new) = Len(list) + 1
      /\ \A i \in 1 .. Len(list) : new[i] = list[i]
      /\ new[Len(list) + 1] = o
  BY <1>1, AppendProperties
<1> HIDE DEF new
<1>3. \A i \in 1 .. Len(new) : new[i] \in 1 .. m
  <2>1. ASSUME NEW i \in 1 .. Len(new) PROVE new[i] \in 1 .. m
    <3>1. CASE i \in 1 .. Len(list)
      <4>1. new[i] \in 1 .. n
        BY <1>2, <3>1
      <4>2. QED
        BY <4>1
    <3>2. CASE i = Len(list) + 1
      BY <1>2, <3>2
    <3>3. QED
      BY <1>1, <1>2, <3>1, <3>2
  <2>2. QED
    BY <2>1
<1>4. QED
  BY <1>2, <1>3 DEF new

(* What is known of a step that reads the next token. *)
TokenReads(p, t) ==
  LET kind == KindOf(input_char)
      o == Len(objects) + 1
  IN /\ input_char \in Characters /\ kind \in ClassKinds /\ rest \in Text
     /\ t = parse_token(kind, input_char, rest) /\ t \in ParsedToken
     /\ objects \in Seq(TokenObject) /\ Classed(objects) /\ o \in 1 .. Len(objects) + 1
     /\ o \in Nat
     /\ Push(kind, o, t, After(rest, 0), objects)
     /\ token_list' = Append(token_list, o)
     /\ ReadingNext(p + t.read + 1)

(* A Token step, put in terms of the place p: what it parses and where it   *)
(* leaves the stream.                                                       *)
LEMMA TokenStepReads ==
  ASSUME TokenizerTypeOK, Token, NEW p, Reading(p)
  PROVE  TokenReads(p, parse_token(KindOf(input_char), input_char, rest))
<1> DEFINE kind == KindOf(input_char)
           o == Len(objects) + 1
           t == parse_token(kind, input_char, rest)
<1>1. source \in Text /\ rest \in Text /\ input_char \in Characters
  BY ReadingTyped DEF TokenizerTypeOK, Token, Tokenising
<1>2. kind \in ClassKinds
  BY <1>1, KindValue DEF Token
<1>3. t \in ParsedToken
  BY <1>1, <1>2, TokenTyped
<1>4. objects \in Seq(TokenObject) /\ Classed(objects)
  BY DEF TokenizerTypeOK, Token, Tokenising
<1>5. Len(objects) \in Nat /\ o \in 1 .. Len(objects) + 1 /\ o \in Nat
  BY <1>4, LenProperties
<1>6. After(rest, 0) = rest
  BY <1>1, AfterNone
<1>7. Push(kind, o, t, After(rest, 0), objects) /\ token_list' = Append(token_list, o)
  BY <1>6 DEF Token
<1> HIDE DEF t, kind, o
<1>8. t.read \in Nat
  BY <1>3 DEF ParsedToken
<1> DEFINE read == t.read
           a == 0
<1>81. read \in Nat /\ t.read = read /\ a \in Nat /\ a = 0
  BY <1>8
<1>82. p \in Nat
  BY DEF Reading
<1>83. Push(kind, o, t, After(rest, a), objects)
  BY <1>7
<1> HIDE DEF read, a
<1>9. ReadingNext(p + a + read + 1)
  BY <1>1, <1>81, <1>83, PushReads
<1>10. p + a + read + 1 = p + read + 1
  BY <1>81, <1>82
<1>11. ReadingNext(p + t.read + 1)
  BY <1>9, <1>10 DEF read
<1>12. QED
  BY <1>1, <1>2, <1>3, <1>4, <1>5, <1>7, <1>11 DEF TokenReads, t, kind, o

(* What is known of a step that reads a character of no class. *)
StaleReads(p, t) ==
  LET kind == objects[token].kind
  IN /\ input_char = "other" /\ input_char \in Characters /\ kind \in ClassKinds /\ rest \in Text
     /\ t = parse_token(kind, input_char, rest) /\ t \in ParsedToken
     /\ objects \in Seq(TokenObject) /\ Classed(objects) /\ token \in 1 .. Len(objects) + 1
     /\ token \in 1 .. Len(objects)
     /\ Push(kind, token, t, After(rest, 0), objects)
     /\ token_list' = Append(token_list, token)
     /\ ReadingNext(p + t.read + 1)

(* The same of a StaleToken step, at a character of no class.               *)
LEMMA StaleStepReads ==
  ASSUME TokenizerTypeOK, StaleToken, NEW p, Reading(p)
  PROVE  StaleReads(p, parse_token(objects[token].kind, input_char, rest))
<1> DEFINE kind == objects[token].kind
           t == parse_token(kind, input_char, rest)
<1>1. source \in Text /\ rest \in Text /\ input_char \in Characters
  BY ReadingTyped DEF TokenizerTypeOK, StaleToken, Tokenising
<1>2. input_char = "other"
  BY <1>1, KindValue DEF StaleToken
<1>3. objects \in Seq(TokenObject) /\ Classed(objects) /\ Len(objects) \in Nat
  BY LenProperties DEF TokenizerTypeOK, StaleToken, Tokenising
<1>4. token \in 1 .. Len(objects) /\ token \in 1 .. Len(objects) + 1
  BY <1>3 DEF TokenizerTypeOK, StaleToken
<1>5. kind \in ClassKinds
  BY <1>3, <1>4 DEF Classed
<1>6. t \in ParsedToken
  BY <1>1, <1>5, TokenTyped
<1>7. After(rest, 0) = rest
  BY <1>1, AfterNone
<1>8. Push(kind, token, t, After(rest, 0), objects) /\ token_list' = Append(token_list, token)
  BY <1>7 DEF StaleToken
<1> HIDE DEF t, kind
<1> DEFINE read == t.read
           a == 0
           o == token
<1>9. read \in Nat /\ t.read = read /\ a \in Nat /\ a = 0
  BY <1>6 DEF ParsedToken
<1>10. p \in Nat
  BY DEF Reading
<1>11. Push(kind, o, t, After(rest, a), objects)
  BY <1>8
<1> HIDE DEF read, a, o
<1>12. ReadingNext(p + a + read + 1)
  BY <1>1, <1>9, <1>11, PushReads
<1>13. p + a + read + 1 = p + read + 1
  BY <1>9, <1>10
<1>14. ReadingNext(p + t.read + 1)
  BY <1>12, <1>13 DEF read
<1>15. QED
  BY <1>1, <1>2, <1>3, <1>4, <1>5, <1>6, <1>8, <1>14 DEF StaleReads, t, kind

(* What is known of a step that reads a comment to the end of its line, n    *)
(* characters of it.                                                         *)
Unended(s) == {c \in Range(s) : c # Newline}

LineReads(p, n) ==
  LET o == Len(objects) + 1
  IN /\ InLineComment /\ rest \in Text
     /\ n = Run(rest, Unended(rest)) /\ n \in Nat
     /\ eol_token \in ParsedToken
     /\ objects \in Seq(TokenObject) /\ Classed(objects) /\ o \in 1 .. Len(objects) + 1
     /\ o \in Nat
     /\ Push("eol", o, eol_token, After(rest, n + 1), objects)
     /\ token_list' = Append(token_list, o)
     /\ ReadingNext(p + n + 2)

(* The token of a newline reads nothing.                                    *)
LEMMA EolTyped == eol_token \in ParsedToken /\ eol_token = [text |-> <<>>, read |-> 0, outcome |-> "tokenising"]
<1>1. <<>> \in KeptText
  BY EmptySeq DEF KeptText
<1>2. QED
  BY <1>1 DEF eol_token, Parsed, ParsedToken

(* The same of a LineComment step: it reads up to the newline or the end of *)
(* the file.                                                                *)
LEMMA LineStepReads ==
  ASSUME TokenizerTypeOK, LineComment, NEW p, Reading(p)
  PROVE  LineReads(p, Run(rest, Unended(rest)))
<1> DEFINE o == Len(objects) + 1
           n == Run(rest, Unended(rest))
<1>1. source \in Text /\ rest \in Text
  BY ReadingTyped DEF TokenizerTypeOK
<1>2. n \in Nat
  BY <1>1, TextKept, RunRead
<1>3. objects \in Seq(TokenObject) /\ Classed(objects) /\ Len(objects) \in Nat
  BY LenProperties DEF TokenizerTypeOK, LineComment, Tokenising
<1>4. o \in 1 .. Len(objects) + 1 /\ o \in Nat
  BY <1>3
<1>5. Push("eol", o, eol_token, After(rest, n + 1), objects) /\ token_list' = Append(token_list, o)
  BY DEF LineComment, Unended
<1> DEFINE read == 0
           a == n + 1
           t == eol_token
           kind == "eol"
<1>6. read \in Nat /\ t.read = read /\ a \in Nat /\ read = 0
  BY <1>2, EolTyped
<1>7. p \in Nat
  BY DEF Reading
<1>8. a = n + 1
  OBVIOUS
<1>9. Push(kind, o, t, After(rest, a), objects)
  BY <1>5
<1> HIDE DEF read, a, o, n, t, kind
<1>12. ReadingNext(p + a + read + 1)
  BY <1>1, <1>6, <1>9, PushReads
<1>13. p + a + read + 1 = p + n + 2
  BY <1>2, <1>6, <1>7, <1>8
<1>14. ReadingNext(p + n + 2)
  BY <1>12, <1>13
<1>15. InLineComment
  BY DEF LineComment
<1>16. QED
  BY <1>1, <1>2, <1>3, <1>4, <1>5, <1>14, <1>15, EolTyped DEF LineReads, o, n

(* What is known of a step that reads a comment between slashes and stars. *)
EolObjects(n) == [i \in 1 .. n |-> [kind |-> "eol", text |-> <<>>]]
Blanks(c) == whitespace_token(After(rest, c.close + 1))
BlockReads(p, c, t) ==
  LET before == objects \o EolObjects(c.eols)
      o == Len(objects) + c.eols + 1
  IN /\ InBlockComment /\ rest \in Text
     /\ c = BlockComment(rest) /\ c.close \in Nat \ {0} /\ c.eols \in Nat
     /\ t = Blanks(c) /\ t \in ParsedToken
     /\ objects \in Seq(TokenObject)
     /\ before \in Seq(TokenObject) /\ Classed(before) /\ o \in 1 .. Len(before) + 1
     /\ Len(before) = Len(objects) + c.eols /\ o \in Nat
     /\ \A i \in 1 .. Len(objects) : before[i] = objects[i]
     /\ \A i \in 1 .. c.eols : before[Len(objects) + i].kind = "eol"
     /\ Push("whitespace", o, t, After(rest, c.close + 1), before)
     /\ token_list' = token_list \o [i \in 1 .. c.eols + 1 |-> Len(objects) + i]
     /\ ReadingNext(p + c.close + 1 + t.read + 1)

(* The newline objects that a comment adds.                                 *)
LEMMA EolObjectsTyped ==
  ASSUME NEW n \in Nat
  PROVE  /\ EolObjects(n) \in Seq(TokenObject) /\ Len(EolObjects(n)) = n
         /\ \A i \in 1 .. n : EolObjects(n)[i] \in TokenObject /\ EolObjects(n)[i].kind = "eol"
<1>1. <<>> \in KeptText
  BY EmptySeq DEF KeptText
<1>2. [kind |-> "eol", text |-> <<>>] \in TokenObject
  BY <1>1 DEF TokenObject, ClassKinds
<1> DEFINE es == EolObjects(n)
<1>3. es \in [1 .. n -> TokenObject] /\ \A i \in 1 .. n : es[i].kind = "eol"
  BY <1>2 DEF EolObjects
<1> HIDE DEF es
<1>4. es \in Seq(TokenObject)
  BY <1>3, SeqDef
<1>5. DOMAIN es = 1 .. n /\ DOMAIN es = 1 .. Len(es) /\ Len(es) \in Nat
  BY <1>3, <1>4, LenProperties
<1>6. Len(es) = n
  BY <1>5
<1>7. QED
  BY <1>3, <1>4, <1>6 DEF es

(* The position and the newlines of a comment are numbers.                  *)
LEMMA BlockTyped ==
  ASSUME NEW s \in Text
  PROVE  BlockComment(s) \in CommentRead
<1>1. Len(s) \in Nat
  BY TextKept
<1>2. PICK f \in [1 .. Len(s) + 2 -> CommentRead] : BlockComment(s) = f[1]
  BY CommentRecursion
<1>3. QED
  BY <1>1, <1>2

(* The same of a CloseBlockComment step: the comment, the character after it*)
(* and the blanks that follow.                                              *)
LEMMA BlockStepReads ==
  ASSUME TokenizerTypeOK, CloseBlockComment, NEW p, Reading(p)
  PROVE  BlockReads(p, BlockComment(rest), Blanks(BlockComment(rest)))
<1> DEFINE c == BlockComment(rest)
           t == Blanks(c)
           es == EolObjects(c.eols)
           before == objects \o es
           o == Len(objects) + c.eols + 1
           n == Len(objects)
           k == c.eols
<1>1. source \in Text /\ rest \in Text
  BY ReadingTyped DEF TokenizerTypeOK
<1>2. c \in CommentRead
  BY <1>1, BlockTyped
<1>3. c.close \in Nat \ {0} /\ c.eols \in Nat
  BY <1>2 DEF CommentRead, CloseBlockComment
<1>4. objects \in Seq(TokenObject) /\ Classed(objects) /\ Len(objects) \in Nat
  BY LenProperties DEF TokenizerTypeOK, CloseBlockComment, Tokenising
<1>5. /\ Push("whitespace", o, t, After(rest, c.close + 1), before)
      /\ token_list' = token_list \o [i \in 1 .. c.eols + 1 |-> Len(objects) + i]
  BY DEF CloseBlockComment, EolObjects, Blanks
<1> HIDE DEF c
<1>6. t \in ParsedToken
  <2>1. c.close + 1 \in Nat
    BY <1>3
  <2>2. After(rest, c.close + 1) \in Text
    BY <1>1, <2>1, AfterText
  <2> DEFINE ty == "whitespace"
             ch == " "
             s == After(rest, c.close + 1)
  <2>3. ty \in ClassKinds /\ ch \in Characters
    BY DEF ClassKinds, Characters, Blank
  <2>4. parse_token(ty, ch, s) = t
    BY DEF parse_token, Blanks
  <2> HIDE DEF ty, ch, s
  <2>5. QED
    BY <2>2, <2>3, <2>4, TokenTyped DEF s
<1>7. /\ es \in Seq(TokenObject) /\ Len(es) = k
      /\ \A i \in 1 .. k : es[i] \in TokenObject /\ es[i].kind = "eol"
  BY <1>3, EolObjectsTyped
<1>8. n \in Nat /\ k \in Nat /\ o = n + k + 1 /\ n = Len(objects)
  BY <1>3, <1>4
<1>81. before = Cat(objects, es)
  BY DEF Cat
<1> HIDE DEF es, o, n, k, before
<1>9. before \in Seq(TokenObject) /\ Len(before) = n + k
  BY <1>4, <1>7, <1>8, <1>81, CatTyped
<1>10. ASSUME NEW i \in 1 .. n PROVE before[i] = objects[i]
  <2>1. i \in 1 .. Len(objects)
    BY <1>8
  <2>2. Cat(objects, es)[i] = objects[i]
    BY <1>4, <1>7, <2>1, CatLeft
  <2>3. QED
    BY <1>81, <2>2
<1>11. ASSUME NEW i \in 1 .. k PROVE before[n + i].kind = "eol"
  <2>1. i \in 1 .. Len(es)
    BY <1>7
  <2>2. Cat(objects, es)[Len(objects) + i] = es[i]
    BY <1>4, <1>7, <2>1, CatRight
  <2>3. QED
    BY <1>7, <1>8, <1>81, <2>2
<1>12. Classed(before)
  <2>1. ASSUME NEW i \in 1 .. Len(before) PROVE before[i].kind \in ClassKinds
    <3>1. CASE i <= n
      <4>1. i \in 1 .. n
        BY <1>8, <1>9, <3>1
      <4>2. QED
        BY <1>4, <1>8, <1>10, <4>1 DEF Classed
    <3>2. CASE ~(i <= n)
      <4> DEFINE j == i - n
      <4>1. j \in 1 .. k /\ n + j = i
        BY <1>8, <1>9, <3>2
      <4> HIDE DEF j
      <4>2. before[n + j].kind = "eol"
        BY <1>11, <4>1
      <4>3. before[i].kind = "eol"
        BY <4>1, <4>2
      <4>4. QED
        BY <4>3 DEF ClassKinds
    <3>3. QED
      BY <3>1, <3>2
  <2>2. QED
    BY <2>1 DEF Classed
<1>13. o \in 1 .. Len(before) + 1 /\ o \in Nat
  BY <1>8, <1>9
<1> DEFINE read == t.read
           a == c.close + 1
           kind == "whitespace"
<1>14. read \in Nat /\ t.read = read /\ a \in Nat /\ a = c.close + 1
  BY <1>3, <1>6 DEF ParsedToken
<1>15. p \in Nat
  BY DEF Reading
<1>16. Push(kind, o, t, After(rest, a), before)
  BY <1>5
<1> HIDE DEF read, a, kind, t
<1>17. ReadingNext(p + a + read + 1)
  BY <1>1, <1>14, <1>16, PushReads
<1>18. p + a + read + 1 = p + c.close + 1 + read + 1
  BY <1>3, <1>14, <1>15
<1>19. ReadingNext(p + c.close + 1 + t.read + 1)
  BY <1>17, <1>18 DEF read
<1>20. InBlockComment
  BY DEF CloseBlockComment
<1>21. Len(before) = Len(objects) + c.eols
  BY <1>8, <1>9 DEF k
<1>22. /\ \A i \in 1 .. Len(objects) : before[i] = objects[i]
       /\ \A i \in 1 .. c.eols : before[Len(objects) + i].kind = "eol"
  BY <1>8, <1>10, <1>11 DEF k
<1>23. QED
  BY <1>1, <1>3, <1>4, <1>5, <1>6, <1>9, <1>12, <1>13, <1>19, <1>20, <1>21, <1>22
     DEF BlockReads, c, t, before, es, o

(* A push whose token is added to the list keeps the types. *)
LEMMA PushOneKeepsTypes ==
  ASSUME TokenizerTypeOK, NEW kind \in ClassKinds, NEW o \in 1 .. Len(objects) + 1,
         NEW t \in ParsedToken, NEW s, objects \in Seq(TokenObject), Classed(objects),
         Push(kind, o, t, s, objects), NEW q, ReadingNext(q),
         token_list' = Append(token_list, o)
  PROVE  TokenizerTypeOK'
<1>1. Len(objects) \in Nat
  BY LenProperties
<1>2. Len(objects') = (IF o > Len(objects) THEN o ELSE Len(objects))
  BY PushTyped
<1> DEFINE m == Len(objects')
           n == Len(objects)
           list == Append(token_list, o)
<1>3. n \in Nat /\ m \in Nat /\ n <= m /\ o \in 1 .. m
  BY <1>1, <1>2
<1>4. token_list \in Seq(Nat) /\ \A i \in 1 .. Len(token_list) : token_list[i] \in 1 .. n
  BY DEF TokenizerTypeOK
<1> HIDE DEF m, n
<1>5. list \in Seq(Nat) /\ \A i \in 1 .. Len(list) : list[i] \in 1 .. m
  BY <1>3, <1>4, Referred
<1>6. token_list' = list
  OBVIOUS
<1> HIDE DEF list
<1>7. token_list' \in Seq(Nat) /\ \A i \in 1 .. Len(token_list') : token_list'[i] \in 1 .. Len(objects')
  BY <1>5, <1>6 DEF m
<1>8. QED
  BY <1>7, PushKeepsTypes

(* A Token step keeps the types.                                            *)
LEMMA TokenTypes ==
  ASSUME TokenizerTypeOK, Token
  PROVE  TokenizerTypeOK'
<1>1. PICK p : Reading(p)
  BY DEF TokenizerTypeOK
<1> DEFINE kind == KindOf(input_char)
           o == Len(objects) + 1
           t == parse_token(kind, input_char, rest)
<1>2. TokenReads(p, t)
  BY <1>1, TokenStepReads
<1> HIDE DEF t
<1>3. /\ kind \in ClassKinds /\ t \in ParsedToken
      /\ objects \in Seq(TokenObject) /\ Classed(objects) /\ o \in 1 .. Len(objects) + 1
      /\ Push(kind, o, t, After(rest, 0), objects)
      /\ token_list' = Append(token_list, o)
      /\ ReadingNext(p + t.read + 1)
  BY <1>2 DEF TokenReads
<1> HIDE DEF kind, o
<1>4. QED
  BY <1>3, PushOneKeepsTypes

(* So does a StaleToken step, which rewrites an object of the list.         *)
LEMMA StaleTypes ==
  ASSUME TokenizerTypeOK, StaleToken
  PROVE  TokenizerTypeOK'
<1>1. PICK p : Reading(p)
  BY DEF TokenizerTypeOK
<1> DEFINE kind == objects[token].kind
           o == token
           t == parse_token(kind, input_char, rest)
<1>2. StaleReads(p, t)
  BY <1>1, StaleStepReads
<1> HIDE DEF t
<1>3. /\ kind \in ClassKinds /\ t \in ParsedToken
      /\ objects \in Seq(TokenObject) /\ Classed(objects) /\ o \in 1 .. Len(objects) + 1
      /\ Push(kind, o, t, After(rest, 0), objects)
      /\ token_list' = Append(token_list, o)
      /\ ReadingNext(p + t.read + 1)
  BY <1>2 DEF StaleReads
<1> HIDE DEF kind, o
<1>4. QED
  BY <1>3, PushOneKeepsTypes

(* So does a LineComment step.                                              *)
LEMMA LineTypes ==
  ASSUME TokenizerTypeOK, LineComment
  PROVE  TokenizerTypeOK'
<1>1. PICK p : Reading(p)
  BY DEF TokenizerTypeOK
<1> DEFINE kind == "eol"
           o == Len(objects) + 1
           n == Run(rest, Unended(rest))
<1>2. LineReads(p, n)
  BY <1>1, LineStepReads
<1> HIDE DEF n
<1>3. /\ eol_token \in ParsedToken
      /\ objects \in Seq(TokenObject) /\ Classed(objects) /\ o \in 1 .. Len(objects) + 1
      /\ Push(kind, o, eol_token, After(rest, n + 1), objects)
      /\ token_list' = Append(token_list, o)
      /\ ReadingNext(p + n + 2)
  BY <1>2 DEF LineReads
<1>4. kind \in ClassKinds
  BY DEF ClassKinds
<1> HIDE DEF kind, o
<1>5. QED
  BY <1>3, <1>4, PushOneKeepsTypes

(* What a list of k + 1 references to the objects after n is added to. *)
LEMMA ReferredBeyond ==
  ASSUME NEW list \in Seq(Nat), NEW n \in Nat, NEW k \in Nat,
         \A i \in 1 .. Len(list) : list[i] \in 1 .. n
  PROVE  LET more == [i \in 1 .. k + 1 |-> n + i]
             new == list \o more
         IN /\ new \in Seq(Nat) /\ Len(new) = Len(list) + k + 1
            /\ \A i \in 1 .. Len(new) : new[i] \in 1 .. n + k + 1
            /\ \A i \in 1 .. Len(list) : new[i] = list[i]
            /\ \A i \in 1 .. k + 1 : new[Len(list) + i] = n + i
<1> DEFINE more == [i \in 1 .. k + 1 |-> n + i]
           new == list \o more
<1>1. more \in [1 .. k + 1 -> Nat] /\ \A i \in 1 .. k + 1 : more[i] = n + i
  OBVIOUS
<1> HIDE DEF more
<1>2. more \in Seq(Nat)
  <2>1. k + 1 \in Nat
    OBVIOUS
  <2>2. QED
    BY <1>1, <2>1, SeqDef
<1>3. DOMAIN more = 1 .. k + 1 /\ DOMAIN more = 1 .. Len(more) /\ Len(more) \in Nat
  BY <1>1, <1>2, LenProperties
<1>4. Len(more) = k + 1 /\ Len(list) \in Nat
  BY <1>3, LenProperties
<1>5. new = Cat(list, more)
  BY DEF Cat
<1> HIDE DEF new
<1>6. new \in Seq(Nat) /\ Len(new) = Len(list) + k + 1
  <2>1. new \in Seq(Nat) /\ Len(new) = Len(list) + Len(more)
    BY <1>2, <1>5, CatTyped
  <2>2. QED
    BY <1>4, <2>1
<1>7. ASSUME NEW i \in 1 .. Len(list) PROVE new[i] = list[i]
  BY <1>2, <1>5, CatLeft
<1>8. ASSUME NEW i \in 1 .. k + 1 PROVE new[Len(list) + i] = n + i
  <2>1. i \in 1 .. Len(more)
    BY <1>4
  <2>2. Cat(list, more)[Len(list) + i] = more[i]
    BY <1>2, <2>1, CatRight
  <2>3. QED
    BY <1>1, <1>5, <2>2
<1>9. ASSUME NEW i \in 1 .. Len(new) PROVE new[i] \in 1 .. n + k + 1
  <2>1. CASE i <= Len(list)
    <3>1. i \in 1 .. Len(list)
      BY <1>4, <2>1
    <3>2. new[i] \in 1 .. n
      BY <1>7, <3>1
    <3>3. QED
      BY <3>2
  <2>2. CASE ~(i <= Len(list))
    <3> DEFINE j == i - Len(list)
    <3>1. j \in 1 .. k + 1 /\ Len(list) + j = i
      BY <1>4, <1>6, <2>2
    <3> HIDE DEF j
    <3>2. new[i] = n + j
      BY <1>8, <3>1
    <3>3. QED
      BY <3>1, <3>2
  <2>3. QED
    BY <2>1, <2>2
<1>10. QED
  BY <1>6, <1>7, <1>8, <1>9 DEF new, more

(* So does a CloseBlockComment step, which adds several objects.            *)
LEMMA BlockTypes ==
  ASSUME TokenizerTypeOK, CloseBlockComment
  PROVE  TokenizerTypeOK'
<1>1. PICK p : Reading(p)
  BY DEF TokenizerTypeOK
<1> DEFINE kind == "whitespace"
           c == BlockComment(rest)
           t == Blanks(c)
           before == objects \o EolObjects(c.eols)
           o == Len(objects) + c.eols + 1
           list == token_list \o [i \in 1 .. c.eols + 1 |-> Len(objects) + i]
<1>2. BlockReads(p, c, t)
  BY <1>1, BlockStepReads
<1> HIDE DEF c, t
<1>3. /\ c.eols \in Nat /\ t \in ParsedToken
      /\ before \in Seq(TokenObject) /\ Classed(before) /\ o \in 1 .. Len(before) + 1
      /\ Len(before) = Len(objects) + c.eols /\ o \in Nat
      /\ objects \in Seq(TokenObject)
      /\ Push(kind, o, t, After(rest, c.close + 1), before)
      /\ token_list' = list
      /\ ReadingNext(p + c.close + 1 + t.read + 1)
  BY <1>2 DEF BlockReads
<1>4. kind \in ClassKinds
  BY DEF ClassKinds
<1> DEFINE n == Len(objects)
           k == c.eols
<1>5. n \in Nat /\ k \in Nat /\ o = n + k + 1 /\ Len(before) = n + k
  BY <1>3, LenProperties
<1>6. list \in Seq(Nat) /\ \A i \in 1 .. Len(list) : list[i] \in 1 .. o
  <2>1. token_list \in Seq(Nat) /\ \A i \in 1 .. Len(token_list) : token_list[i] \in 1 .. n
    BY DEF TokenizerTypeOK
  <2> DEFINE more == token_list \o [i \in 1 .. k + 1 |-> n + i]
  <2> HIDE DEF n, k
  <2>2. more \in Seq(Nat) /\ \A i \in 1 .. Len(more) : more[i] \in 1 .. n + k + 1
    BY <1>5, <2>1, ReferredBeyond
  <2>3. list = more
    BY DEF n, k
  <2> HIDE DEF list, more, o
  <2>4. QED
    BY <1>5, <2>2, <2>3
<1> HIDE DEF kind, o, before, list, n, k
<1>7. Len(objects') = (IF o > Len(before) THEN o ELSE Len(before))
  BY <1>3, <1>4, PushTyped
<1>8. Len(objects') = o
  BY <1>5, <1>7
<1>9. token_list' \in Seq(Nat) /\ \A i \in 1 .. Len(token_list') : token_list'[i] \in 1 .. Len(objects')
  BY <1>3, <1>6, <1>8
<1>10. QED
  BY <1>3, <1>4, <1>9, PushKeepsTypes

(* Opening a source establishes them, with the first character read ahead.  *)
LEMMA OpenTypes ==
  ASSUME TokenizerTypeOK, OpenSource
  PROVE  TokenizerTypeOK' /\ Reading(1)'
<1>1. source' \in Text
  BY SourcesAssumption DEF OpenSource, Text
<1>2. objects = <<>> /\ token = 0 /\ token_list = <<>>
  BY DEF TokenizerTypeOK, OpenSource
<1>3. objects' = <<>> /\ token' = 0 /\ token_list' = <<>> /\ outcome' = "tokenising"
  BY <1>2 DEF OpenSource
<1> DEFINE s == source'
<1>4. After(s, 0) = s
  <2> HIDE DEF s
  <2>1. s \in Text
    BY <1>1 DEF s
  <2>2. QED
    BY <2>1, AfterNone
<1>5. Reading(1)'
  <2>1. 1 - 1 = 0 /\ 1 \in Nat \ {0}
    OBVIOUS
  <2>2. input_char' = Peek(After(source', 1 - 1)) /\ rest' = After(source', 1)
    BY <1>4, <2>1 DEF OpenSource
  <2>3. QED
    BY <2>1, <2>2 DEF Reading
<1>6. Len(objects') = 0 /\ Len(token_list') = 0 /\ objects' \in Seq(TokenObject) /\ token_list' \in Seq(Nat)
  BY <1>3, EmptySeq
<1>7. Classed(objects')
  BY <1>6 DEF Classed
<1>8. QED
  BY <1>1, <1>3, <1>5, <1>6, <1>7 DEF TokenizerTypeOK

(* The token of the end of the file keeps them.                             *)
LEMMA EndTypes ==
  ASSUME TokenizerTypeOK, EndOfFile
  PROVE  TokenizerTypeOK'
<1> DEFINE x == [kind |-> "eof", text |-> <<>>]
           n == Len(objects)
           o == n + 1
           new == Append(objects, x)
           list == Append(token_list, o)
<1>1. objects \in Seq(TokenObject) /\ n \in Nat /\ o \in Nat
  BY LenProperties DEF TokenizerTypeOK
<1>2. x \in TokenObject
  <2>1. <<>> \in KeptText
    BY EmptySeq DEF KeptText
  <2>2. QED
    BY <2>1 DEF TokenObject
<1> HIDE DEF x
<1>3. new \in Seq(TokenObject) /\ Len(new) = o
  BY <1>1, <1>2, AppendProperties
<1>4. token_list \in Seq(Nat) /\ \A i \in 1 .. Len(token_list) : token_list[i] \in 1 .. n
  BY DEF TokenizerTypeOK
<1>5. objects' = new
  BY DEF EndOfFile, x
<1>51. token' = Len(objects') /\ token_list' = Append(token_list, token')
  BY DEF EndOfFile
<1>6. token' = o /\ token_list' = list
  BY <1>3, <1>5, <1>51
<1>7. n <= o /\ o \in 1 .. o
  BY <1>1
<1> HIDE DEF n, o, new
<1>8. list \in Seq(Nat) /\ \A i \in 1 .. Len(list) : list[i] \in 1 .. o
  BY <1>1, <1>4, <1>7, Referred
<1> HIDE DEF list
<1>9. /\ source' = source /\ rest' = rest /\ input_char' = input_char
      /\ outcome' = "printed" /\ source \in Text
  BY DEF EndOfFile, TokenizerTypeOK
<1>10. \E p : Reading(p)'
  BY <1>9 DEF TokenizerTypeOK, Reading
<1>11. /\ objects' \in Seq(TokenObject) /\ Len(objects') = o
       /\ token' \in 0 .. Len(objects')
       /\ token_list' \in Seq(Nat)
       /\ \A i \in 1 .. Len(token_list') : token_list'[i] \in 1 .. Len(objects')
  BY <1>1, <1>3, <1>5, <1>6, <1>8
<1>12. QED
  BY <1>9, <1>10, <1>11 DEF TokenizerTypeOK

(* So do the steps that end the program.                                    *)
LEMMA StopTypes ==
  ASSUME TokenizerTypeOK, UnterminatedComment \/ RejectFirstCharacter
  PROVE  TokenizerTypeOK'
<1>1. /\ UNCHANGED <<source, rest, input_char, objects, token, token_list>>
      /\ outcome' \in {"unterminated", "printed"}
  BY DEF UnterminatedComment, RejectFirstCharacter
<1>2. \E p : Reading(p)'
  BY <1>1 DEF TokenizerTypeOK, Reading
<1>3. QED
  BY <1>1, <1>2 DEF TokenizerTypeOK

(* So does a step that changes nothing.                                     *)
LEMMA StutterTypes ==
  ASSUME TokenizerTypeOK, UNCHANGED tokenizerVars
  PROVE  TokenizerTypeOK'
<1>1. \E p : Reading(p)'
  BY DEF TokenizerTypeOK, Reading, tokenizerVars
<1>2. Classed(objects') <=> Classed(objects)
  BY DEF tokenizerVars
<1>3. QED
  BY <1>1, <1>2 DEF TokenizerTypeOK, tokenizerVars

(* They hold at the start.                                                  *)
LEMMA InitTypes == TokenizerInit => TokenizerTypeOK
<1> SUFFICES ASSUME TokenizerInit PROVE TokenizerTypeOK
  OBVIOUS
<1>1. source = <<>> /\ rest = <<>> /\ input_char = Eof /\ outcome = "idle"
      /\ objects = <<>> /\ token = 0 /\ token_list = <<>>
  BY DEF TokenizerInit
<1>2. <<>> \in Text /\ Len(<<>>) = 0 /\ <<>> \in Seq(TokenObject) /\ <<>> \in Seq(Nat)
  BY EmptySeq DEF Text
<1>3. Reading(1)
  <2> DEFINE s == <<>>
  <2> HIDE DEF s
  <2>1. s \in Text /\ 1 \in Nat
    BY <1>2 DEF s
  <2> DEFINE one == 1
  <2>2. one \in Nat /\ one = 1
    OBVIOUS
  <2> HIDE DEF one
  <2>3. After(s, 0) = s /\ After(s, one) \in Seq(Characters)
        /\ Len(After(s, one)) = IF one < Len(s) THEN Len(s) - one ELSE 0
    BY <2>1, <2>2, AfterNone, AfterValue DEF Text
  <2>4. Len(After(s, one)) = 0
    BY <1>2, <2>2, <2>3 DEF s
  <2>5. After(s, one) = <<>>
    <3> DEFINE u == After(s, one)
    <3> HIDE DEF u
    <3>1. u \in Seq(Characters) /\ Len(u) = 0
      BY <2>3, <2>4 DEF u
    <3>2. u = <<>>
      BY <3>1, EmptySeq
    <3>3. QED
      BY <3>2 DEF u
  <2>6. Peek(<<>>) = Eof
    BY DEF Peek
  <2>7. 1 - 1 = 0
    OBVIOUS
  <2>8. QED
    BY <1>1, <2>2, <2>3, <2>5, <2>6, <2>7 DEF Reading, s
<1>4. QED
  BY <1>1, <1>2, <1>3 DEF TokenizerTypeOK

(* For every set of sources: each object is a token of a class, the list    *)
(* refers to objects that exist, and the character read ahead and the stream*)
(* are those of one place in the source (parser.cpp, parse_input and        *)
(* parse_token).                                                            *)
THEOREM TokenizerTypes == TokenizerSpec => []TokenizerTypeOK
<1>1. ASSUME TokenizerTypeOK, TokenizerNext PROVE TokenizerTypeOK'
  <2>1. CASE OpenSource
    BY <1>1, <2>1, OpenTypes
  <2>2. CASE LineComment
    BY <1>1, <2>2, LineTypes
  <2>3. CASE CloseBlockComment
    BY <1>1, <2>3, BlockTypes
  <2>4. CASE UnterminatedComment
    BY <1>1, <2>4, StopTypes
  <2>5. CASE Token
    BY <1>1, <2>5, TokenTypes
  <2>6. CASE StaleToken
    BY <1>1, <2>6, StaleTypes
  <2>7. CASE RejectFirstCharacter
    BY <1>1, <2>7, StopTypes
  <2>8. CASE EndOfFile
    BY <1>1, <2>8, EndTypes
  <2>9. QED
    BY <1>1, <2>1, <2>2, <2>3, <2>4, <2>5, <2>6, <2>7, <2>8 DEF TokenizerNext
<1>2. TokenizerTypeOK /\ [TokenizerNext]_tokenizerVars => TokenizerTypeOK'
  BY <1>1, StutterTypes
<1>3. QED
  BY <1>2, InitTypes, PTL DEF TokenizerSpec

-----------------------------------------------------------------------------
(* The tokeniser: a punctuation token is the longest.                       *)

(* The operators that are not split.                                        *)
LEMMA OperatorsListed ==
  Operators =
    { <<"!", "=">>, <<"#", "#">>, <<"%", "=">>, <<"&", "&">>, <<"&", "=">>, <<"*", "=">>,
      <<"+", "+">>, <<"+", "=">>, <<"-", "-">>, <<"-", "=">>, <<"-", ">">>, <<"-", ">", "*">>,
      <<".", ".", ".">>, <<"/", "=">>, <<":", ":">>, <<"<", "=">>, <<"<", "<">>,
      <<"<", "<", "=">>, <<"=", "=">>, <<">", "=">>, <<">", ">">>, <<">", ">", "=">>,
      <<"|", "|">>, <<"|", "=">> }
  BY DEF Operators, CppOperators, SplitOperators

(* Each operator is read one sign after the other. *)
LEMMA OperatorShape ==
  ASSUME NEW op \in Operators
  PROVE  \/ \E a \in Punct, b \in Punct : op = <<a, b>> /\ b \in Follow(<<a>>)
         \/ \E a \in Punct, b \in Punct, d \in Punct :
               op = <<a, b, d>> /\ b \in Follow(<<a>>) /\ d \in Follow(<<a, b>>)
<1> DEFINE Two(x) == \E a \in Punct, b \in Punct : x = <<a, b>> /\ b \in Follow(<<a>>)
           Three(x) == \E a \in Punct, b \in Punct, d \in Punct :
               x = <<a, b, d>> /\ b \in Follow(<<a>>) /\ d \in Follow(<<a, b>>)
<1>1. CASE op \in { <<"!", "=">>, <<"%", "=">>, <<"*", "=">>, <<"/", "=">>, <<"=", "=">> }
  <2>1. PICK a \in {"!", "%", "*", "/", "="} : op = <<a, "=">>
    BY <1>1
  <2>2. a \in Punct /\ "=" \in Punct
    BY DEF Punct
  <2>3. "=" \in Follow(<<a>>)
    BY FollowValue
  <2>4. QED
    BY <2>1, <2>2, <2>3
<1>2. CASE op \in { <<"#", "#">>, <<":", ":">> }
  <2>1. PICK a \in {"#", ":"} : op = <<a, a>>
    BY <1>2
  <2>2. a \in Punct
    BY DEF Punct
  <2>3. a \in Follow(<<a>>)
    BY FollowValue
  <2>4. QED
    BY <2>1, <2>2, <2>3
<1>3. CASE op \in { <<"&", "&">>, <<"&", "=">>, <<"+", "+">>, <<"+", "=">>, <<"<", "=">>, <<"<", "<">>,
                    <<">", "=">>, <<">", ">">>, <<"|", "|">>, <<"|", "=">> }
  <2>1. PICK a \in {"&", "+", "<", ">", "|"} : op = <<a, a>> \/ op = <<a, "=">>
    BY <1>3
  <2>2. a \in Punct /\ "=" \in Punct
    BY DEF Punct
  <2>3. a \in Follow(<<a>>) /\ "=" \in Follow(<<a>>)
    BY FollowValue
  <2>4. QED
    BY <2>1, <2>2, <2>3
<1>4. CASE op \in { <<"-", "-">>, <<"-", "=">>, <<"-", ">">> }
  <2>1. PICK b \in {"-", "=", ">"} : op = <<"-", b>>
    BY <1>4
  <2>2. b \in Punct /\ "-" \in Punct
    BY DEF Punct
  <2>3. b \in Follow(<<"-">>)
    BY FollowValue
  <2>4. QED
    BY <2>1, <2>2, <2>3
<1>5. CASE op = <<"-", ">", "*">>
  <2>1. "-" \in Punct /\ ">" \in Punct /\ "*" \in Punct
    BY DEF Punct
  <2>2. ">" \in Follow(<<"-">>) /\ "*" \in Follow(<<"-", ">">>)
    BY FollowValue
  <2>3. QED
    BY <1>5, <2>1, <2>2
<1>6. CASE op = <<".", ".", ".">>
  <2>1. "." \in Punct
    BY DEF Punct
  <2>2. "." \in Follow(<<".">>) /\ "." \in Follow(<<".", ".">>)
    BY DEF Follow
  <2>3. QED
    BY <1>6, <2>1, <2>2
<1>7. CASE op \in { <<"<", "<", "=">>, <<">", ">", "=">> }
  <2>1. PICK a \in {"<", ">"} : op = <<a, a, "=">>
    BY <1>7
  <2>2. a \in Punct /\ "=" \in Punct
    BY DEF Punct
  <2>3. a \in Follow(<<a>>) /\ "=" \in Follow(<<a, a>>)
    BY FollowValue
  <2>4. QED
    BY <2>1, <2>2, <2>3
<1>8. QED
  BY <1>1, <1>2, <1>3, <1>4, <1>5, <1>6, <1>7, OperatorsListed

(* Two characters of a token are an operator or two dots, and three are one. *)
LEMMA FollowOperators ==
  /\ \A c : \A d \in Follow(<<c>>) : <<c, d>> \in Operators \union {<<".", ".">>}
  /\ \A c : \A d \in Follow(<<c>>) : \A e \in Follow(<<c, d>>) : <<c, d, e>> \in Operators
<1>1. ASSUME NEW c, NEW d \in Follow(<<c>>) PROVE <<c, d>> \in Operators \union {<<".", ".">>}
  <2> DEFINE F == Follow(<<c>>)
  <2>1. d \in F /\ F =
        IF c \in {"!", "%", "*", "/", "="} THEN {"="}
        ELSE IF c \in {"#", ".", ":"} THEN {c}
        ELSE IF c \in {"&", "+", "<", ">", "|"} THEN {c, "="}
        ELSE IF c = "-" THEN {"-", "=", ">"} ELSE {}
    BY FollowValue
  <2> HIDE DEF F
  <2>2. \/ c \in {"!", "%", "*", "/", "="} /\ d = "="
        \/ c \in {"#", ".", ":"} /\ d = c
        \/ c \in {"&", "+", "<", ">", "|"} /\ d \in {c, "="}
        \/ c = "-" /\ d \in {"-", "=", ">"}
    BY <2>1
  <2>3. QED
    BY <2>2, OperatorsListed
<1>2. ASSUME NEW c, NEW d \in Follow(<<c>>), NEW e \in Follow(<<c, d>>) PROVE <<c, d, e>> \in Operators
  <2> DEFINE F == Follow(<<c, d>>)
  <2>1. e \in F /\ F =
        IF c = "-" /\ d = ">" THEN {"*"}
        ELSE IF c = "." /\ d = "." THEN {"."}
        ELSE IF c \in {"<", ">"} /\ d = c THEN {"="} ELSE {}
    BY FollowValue
  <2> HIDE DEF F
  <2>2. \/ c = "-" /\ d = ">" /\ e = "*"
        \/ c = "." /\ d = "." /\ e = "."
        \/ c \in {"<", ">"} /\ d = c /\ e = "="
    BY <2>1
  <2>3. QED
    BY <2>2, OperatorsListed
<1>3. QED
  BY <1>1, <1>2

(* A prefix has the same members. *)
LEMMA PrefixMembers ==
  ASSUME NEW S, NEW u \in Seq(S), NEW v \in Seq(S), IsPrefix(u, v)
  PROVE  Len(u) <= Len(v) /\ \A i \in 1 .. Len(u) : u[i] = v[i]
<1> DEFINE k == Len(u)
<1>1. k <= Len(v) /\ SubSeq(u, 1, k) = SubSeq(v, 1, k) /\ k = Len(u)
  BY DEF IsPrefix
<1>2. k \in Nat /\ Len(v) \in Nat
  BY LenProperties
<1> HIDE DEF k
<1>3. k \in 0 .. Len(u) /\ k \in 0 .. Len(v)
  BY <1>1, <1>2
<1>4. FirstOf(u, k) = FirstOf(v, k)
  BY <1>1 DEF FirstOf
<1>5. /\ \A i \in 1 .. k : FirstOf(u, k)[i] = u[i]
      /\ \A i \in 1 .. k : FirstOf(v, k)[i] = v[i]
  BY <1>3, FrontTyped
<1>6. QED
  BY <1>1, <1>4, <1>5

(* The text of a punctuation token, one, two or three signs. *)
LEMMA SignsRead ==
  ASSUME NEW c \in Characters, NEW s \in Text, NEW n \in 0 .. Len(s), n \in 0 .. 2
  PROVE  LET text == <<c>> \o SubSeq(s, 1, n)
         IN /\ text \in KeptText /\ Len(text) = n + 1
            /\ text[1] = c
            /\ n > 0 => text[2] = s[1]
            /\ n > 1 => text[3] = s[2]
            /\ n = 1 => text = <<c, s[1]>>
            /\ n = 2 => text = <<c, s[1], s[2]>>
<1> DEFINE S == Characters \union {Eof}
           one == <<c>>
           more == FirstOf(s, n)
           text == <<c>> \o SubSeq(s, 1, n)
           ch(i) == s[i]
<1>0. Len(s) \in Nat
  BY TextKept
<1>1. c \in S /\ s \in Seq(S)
  BY TextKept DEF KeptText
<1>2. one \in Seq(S) /\ Len(one) = 1 /\ one[1] = c
  BY <1>1, SingletonSeq
<1>3. more \in Seq(S) /\ Len(more) = n /\ \A i \in 1 .. n : more[i] = s[i]
  <2> HIDE DEF S
  <2>1. QED
    BY <1>1, FrontTyped
<1>4. text = Cat(one, more)
  BY DEF Cat, FirstOf
<1> HIDE DEF S, one, more, text
<1>5. text \in Seq(S) /\ Len(text) = n + 1
  <2>1. text \in Seq(S) /\ Len(text) = Len(one) + Len(more)
    BY <1>2, <1>3, <1>4, CatTyped
  <2>2. QED
    BY <1>2, <1>3, <2>1
<1>6. text[1] = c
  <2> DEFINE i == 1
  <2>1. i \in 1 .. Len(one) /\ i = 1
    BY <1>2
  <2> HIDE DEF i
  <2>2. Cat(one, more)[i] = one[i]
    BY <1>2, <1>3, <2>1, CatLeft
  <2>3. QED
    BY <1>2, <1>4, <2>1, <2>2
<1>7. ASSUME NEW i \in 1 .. n PROVE text[1 + i] = s[i]
  <2>1. i \in 1 .. Len(more)
    BY <1>3
  <2>2. Cat(one, more)[Len(one) + i] = more[i]
    BY <1>2, <1>3, <2>1, CatRight
  <2>3. QED
    BY <1>2, <1>3, <1>4, <2>2
<1>8. n > 0 => text[2] = s[1]
  <2>1. n > 0 => 1 \in 1 .. n /\ 1 + 1 = 2
    OBVIOUS
  <2>2. n > 0 => text[1 + 1] = s[1]
    BY <1>7, <2>1
  <2>3. QED
    BY <2>1, <2>2
<1>9. n > 1 => text[3] = s[2]
  <2>1. n > 1 => 2 \in 1 .. n /\ 1 + 2 = 3
    OBVIOUS
  <2>2. n > 1 => text[1 + 2] = s[2]
    BY <1>7, <2>1
  <2>3. QED
    BY <2>1, <2>2
<1>10. ASSUME n = 1 PROVE text = <<c, s[1]>>
  <2> DEFINE a == s[1]
             two == <<c, a>>
  <2>1. a \in S
    <3>1. 1 \in 1 .. Len(s)
      BY <1>0, <1>10
    <3>2. QED
      BY <1>1, <3>1, ElementOfSeq
  <2>2. text[1] = c /\ text[2] = a /\ Len(text) = 2
    BY <1>5, <1>6, <1>8, <1>10
  <2> HIDE DEF a
  <2>3. two \in Seq(S) /\ Len(two) = 2 /\ two[1] = c /\ two[2] = a
    BY <1>1, <2>1
  <2> HIDE DEF two
  <2>4. \A i \in 1 .. Len(text) : i = 1 \/ i = 2
    BY <2>2
  <2>5. \A i \in 1 .. Len(text) : text[i] = two[i]
    BY <2>2, <2>3, <2>4
  <2>6. text = two
    BY <1>5, <2>2, <2>3, <2>5, SeqEqual
  <2>7. QED
    BY <2>6 DEF two, a
<1>11. ASSUME n = 2 PROVE text = <<c, s[1], s[2]>>
  <2> DEFINE a == s[1]
             b == s[2]
             three == <<c, a, b>>
  <2>1. a \in S /\ b \in S
    <3>1. 1 \in 1 .. Len(s) /\ 2 \in 1 .. Len(s)
      BY <1>0, <1>11
    <3>2. QED
      BY <1>1, <3>1, ElementOfSeq
  <2>2. text[1] = c /\ text[2] = a /\ text[3] = b /\ Len(text) = 3
    BY <1>5, <1>6, <1>8, <1>9, <1>11
  <2> HIDE DEF a, b
  <2>3. three \in Seq(S) /\ Len(three) = 3 /\ three[1] = c /\ three[2] = a /\ three[3] = b
    BY <1>1, <2>1
  <2> HIDE DEF three
  <2>4. \A i \in 1 .. Len(text) : i = 1 \/ i = 2 \/ i = 3
    BY <2>2
  <2>5. \A i \in 1 .. Len(text) : text[i] = three[i]
    BY <2>2, <2>3, <2>4
  <2>6. text = three
    BY <1>5, <2>2, <2>3, <2>5, SeqEqual
  <2>7. QED
    BY <2>6 DEF three, a, b
<1>12. text \in KeptText
  BY <1>5 DEF KeptText, S
<1>13. QED
  BY <1>5, <1>6, <1>8, <1>9, <1>10, <1>11, <1>12 DEF text

(* A punctuation token is as long as it can be, and is an operator. *)
LEMMA PunctuationLongest ==
  ASSUME NEW c \in Characters, NEW s \in Text
  PROVE  LET n == PunctuationLength(c, s)
             text == <<c>> \o SubSeq(s, 1, n)
             next == Peek(After(s, n))
         IN /\ \A op \in Operators : ~IsPrefix(Append(text, next), op)
            /\ Len(text) > 1 => text \in Operators \union {<<".", ".">>}
<1> DEFINE S == Characters \union {Eof}
           n == PunctuationLength(c, s)
           text == <<c>> \o SubSeq(s, 1, n)
           next == Peek(After(s, n))
           a == s[1]
           b == s[2]
           new == Append(text, next)
<1>1. /\ n \in 0 .. Len(s) /\ n \in 0 .. 2
      /\ n > 0 => a \in Follow(<<c>>)
      /\ n = 0 => next \notin Follow(<<c>>)
      /\ n = 1 => next \notin Follow(<<c, a>>)
      /\ n = 2 => b \in Follow(<<c, a>>)
  BY PunctuationRead
<1>2. next \in S
  <2>1. n \in Nat
    BY <1>1
  <2> HIDE DEF n
  <2>2. QED
    BY <2>1, AfterText
<1> HIDE DEF n, next
<1>3. /\ text \in KeptText /\ Len(text) = n + 1
      /\ text[1] = c
      /\ n > 0 => text[2] = a
      /\ n > 1 => text[3] = b
      /\ n = 1 => text = <<c, a>>
      /\ n = 2 => text = <<c, a, b>>
  BY <1>1, SignsRead
<1>31. text \in Seq(S)
  BY <1>3 DEF KeptText
<1> HIDE DEF text, a, b, S
<1>4. /\ new \in Seq(S) /\ Len(new) = n + 2 /\ new[n + 2] = next
      /\ new[1] = c
      /\ n > 0 => new[2] = a
  <2>1. /\ new \in Seq(S) /\ Len(new) = Len(text) + 1 /\ new[Len(text) + 1] = next
        /\ \A i \in 1 .. Len(text) : new[i] = text[i]
    BY <1>2, <1>31, AppendProperties
  <2> HIDE DEF new
  <2>2. 1 \in 1 .. Len(text) /\ (n > 0 => 2 \in 1 .. Len(text)) /\ Len(text) + 1 = n + 2
    BY <1>1, <1>3
  <2>3. QED
    BY <1>3, <2>1, <2>2
<1> HIDE DEF new
<1>5. ASSUME NEW op \in Operators, IsPrefix(new, op) PROVE FALSE
  <2>1. CASE \E x \in Punct, y \in Punct : op = <<x, y>> /\ y \in Follow(<<x>>)
    <3>1. PICK x \in Punct, y \in Punct : op = <<x, y>> /\ y \in Follow(<<x>>)
      BY <2>1
    <3>2. x \in S /\ y \in S
      BY DEF S, Characters
    <3>3. op \in Seq(S) /\ Len(op) = 2 /\ op[1] = x /\ op[2] = y
      BY <3>1, <3>2
    <3>4. Len(new) <= Len(op) /\ \A i \in 1 .. Len(new) : new[i] = op[i]
      BY <1>4, <1>5, <3>3, PrefixMembers
    <3>5. n = 0 /\ 1 \in 1 .. Len(new) /\ 2 \in 1 .. Len(new)
      BY <1>1, <1>4, <3>3, <3>4
    <3>6. x = c /\ y = next
      BY <1>4, <3>3, <3>4, <3>5
    <3>7. next \in Follow(<<c>>)
      BY <3>1, <3>6
    <3>8. QED
      BY <1>1, <3>5, <3>7
  <2>2. CASE \E x \in Punct, y \in Punct, z \in Punct :
               op = <<x, y, z>> /\ y \in Follow(<<x>>) /\ z \in Follow(<<x, y>>)
    <3>1. PICK x \in Punct, y \in Punct, z \in Punct :
             op = <<x, y, z>> /\ y \in Follow(<<x>>) /\ z \in Follow(<<x, y>>)
      BY <2>2
    <3>2. x \in S /\ y \in S /\ z \in S
      BY DEF S, Characters
    <3>3. op \in Seq(S) /\ Len(op) = 3 /\ op[1] = x /\ op[2] = y /\ op[3] = z
      BY <3>1, <3>2
    <3>4. Len(new) <= Len(op) /\ \A i \in 1 .. Len(new) : new[i] = op[i]
      BY <1>4, <1>5, <3>3, PrefixMembers
    <3>5. n \in {0, 1} /\ 1 \in 1 .. Len(new) /\ 2 \in 1 .. Len(new) /\ (n = 1 => 3 \in 1 .. Len(new))
      BY <1>1, <1>4, <3>3, <3>4
    <3>6. x = c /\ (n = 0 => y = next) /\ (n = 1 => y = a /\ z = next)
      BY <1>4, <3>3, <3>4, <3>5
    <3>7. n = 0 => next \in Follow(<<c>>)
      BY <3>1, <3>6
    <3>8. n = 1 => next \in Follow(<<c, a>>)
      BY <3>1, <3>6
    <3>9. QED
      BY <1>1, <3>5, <3>7, <3>8
  <2>3. QED
    BY <2>1, <2>2, OperatorShape
<1>6. ASSUME Len(text) > 1 PROVE text \in Operators \union {<<".", ".">>}
  <2>1. n = 1 \/ n = 2
    BY <1>1, <1>3, <1>6
  <2>2. CASE n = 1
    BY <1>1, <1>3, <2>2, FollowOperators
  <2>3. CASE n = 2
    BY <1>1, <1>3, <2>3, FollowOperators
  <2>4. QED
    BY <2>1, <2>2, <2>3
<1>7. QED
  BY <1>5, <1>6 DEF new, n, next, text

(* A token that is parsed is the longest punctuation, if it is punctuation. *)
LEMMA PushedLongest ==
  ASSUME NEW kind \in ClassKinds, NEW o \in 1 .. Len(objects) + 1,
         NEW c \in Characters, rest \in Text,
         NEW t \in ParsedToken, t = parse_token(kind, c, rest),
         objects \in Seq(TokenObject), Classed(objects),
         Push(kind, o, t, After(rest, 0), objects)
  PROVE  LongestPunctuation'
<1> DEFINE n == PunctuationLength(c, rest)
           signs == <<c>> \o SubSeq(rest, 1, n)
           next == Peek(After(rest, n))
<1>1. objects'[o] = [kind |-> kind, text |-> t.text] /\ token' = o
  BY PushTyped
<1>2. objects'[token'].kind = kind /\ objects'[token'].text = t.text
  BY <1>1
<1>3. CASE kind # "punctuation"
  BY <1>2, <1>3 DEF LongestPunctuation
<1>4. CASE kind = "punctuation"
  <2>1. t = punctuation_token(c, rest)
    BY <1>4 DEF parse_token
  <2>2. t.text = signs /\ t.read = n
    <3>1. t = Parsed(signs, n)
      BY <2>1 DEF punctuation_token
    <3> HIDE DEF signs, n
    <3>2. QED
      BY <3>1 DEF Parsed
  <2>3. input_char' = next
    <3>1. After(rest, 0) = rest
      BY AfterNone
    <3>2. input_char' = Peek(After(After(rest, 0), t.read))
      BY DEF Push
    <3>3. QED
      BY <2>2, <3>1, <3>2
  <2>4. /\ \A op \in Operators : ~IsPrefix(Append(signs, next), op)
        /\ Len(signs) > 1 => signs \in Operators \union {<<".", ".">>}
    BY PunctuationLongest
  <2> HIDE DEF signs, next
  <2>5. objects'[token'].text = signs
    BY <1>2, <2>2
  <2>6. QED
    BY <2>3, <2>4, <2>5 DEF LongestPunctuation
<1>5. QED
  BY <1>3, <1>4

(* Each step leaves a punctuation token that is the longest, if it leaves   *)
(* one.                                                                     *)
LEMMA LongestStep ==
  ASSUME TokenizerTypeOK, LongestPunctuation, TokenizerNext
  PROVE  LongestPunctuation'
<1>1. PICK p : Reading(p)
  BY DEF TokenizerTypeOK
<1>2. CASE OpenSource
  <2>1. token' = 0
    BY <1>2 DEF OpenSource, TokenizerTypeOK
  <2>2. QED
    BY <2>1 DEF LongestPunctuation
<1>3. CASE LineComment
  <2> DEFINE kind == "eol"
             o == Len(objects) + 1
             n == Run(rest, Unended(rest))
  <2>1. LineReads(p, n)
    BY <1>1, <1>3, LineStepReads
  <2> HIDE DEF n
  <2>2. /\ eol_token \in ParsedToken
        /\ objects \in Seq(TokenObject) /\ Classed(objects) /\ o \in 1 .. Len(objects) + 1
        /\ Push(kind, o, eol_token, After(rest, n + 1), objects)
    BY <2>1 DEF LineReads
  <2>3. kind \in ClassKinds /\ kind # "punctuation"
    BY DEF ClassKinds
  <2> HIDE DEF kind, o
  <2>4. objects'[o] = [kind |-> kind, text |-> eol_token.text] /\ token' = o
    BY <2>2, <2>3, PushTyped
  <2>5. objects'[token'].kind = kind
    BY <2>4
  <2>6. QED
    BY <2>3, <2>5 DEF LongestPunctuation
<1>4. CASE CloseBlockComment
  <2> DEFINE kind == "whitespace"
             c == BlockComment(rest)
             t == Blanks(c)
             before == objects \o EolObjects(c.eols)
             o == Len(objects) + c.eols + 1
  <2>1. BlockReads(p, c, t)
    BY <1>1, <1>4, BlockStepReads
  <2> HIDE DEF c, t
  <2>2. /\ t \in ParsedToken
        /\ before \in Seq(TokenObject) /\ Classed(before) /\ o \in 1 .. Len(before) + 1
        /\ Push(kind, o, t, After(rest, c.close + 1), before)
    BY <2>1 DEF BlockReads
  <2>3. kind \in ClassKinds /\ kind # "punctuation"
    BY DEF ClassKinds
  <2> HIDE DEF kind, o, before
  <2>4. objects'[o] = [kind |-> kind, text |-> t.text] /\ token' = o
    BY <2>2, <2>3, PushTyped
  <2>5. objects'[token'].kind = kind
    BY <2>4
  <2>6. QED
    BY <2>3, <2>5 DEF LongestPunctuation
<1>5. CASE UnterminatedComment
  <2>1. outcome' = "unterminated"
    BY <1>5 DEF UnterminatedComment
  <2>2. QED
    BY <2>1 DEF LongestPunctuation
<1>6. CASE Token
  <2> DEFINE kind == KindOf(input_char)
             o == Len(objects) + 1
             t == parse_token(kind, input_char, rest)
  <2>1. TokenReads(p, t)
    BY <1>1, <1>6, TokenStepReads
  <2>2. t = parse_token(kind, input_char, rest)
    OBVIOUS
  <2> HIDE DEF t
  <2>3. /\ kind \in ClassKinds /\ t \in ParsedToken /\ input_char \in Characters /\ rest \in Text
        /\ objects \in Seq(TokenObject) /\ Classed(objects) /\ o \in 1 .. Len(objects) + 1
        /\ Push(kind, o, t, After(rest, 0), objects)
    BY <2>1 DEF TokenReads
  <2> HIDE DEF kind, o
  <2>4. QED
    BY <2>2, <2>3, PushedLongest
<1>7. CASE StaleToken
  <2> DEFINE kind == objects[token].kind
             o == token
             t == parse_token(kind, input_char, rest)
  <2>1. StaleReads(p, t)
    BY <1>1, <1>7, StaleStepReads
  <2>2. t = parse_token(kind, input_char, rest)
    OBVIOUS
  <2> HIDE DEF t
  <2>3. /\ kind \in ClassKinds /\ t \in ParsedToken /\ input_char \in Characters /\ rest \in Text
        /\ objects \in Seq(TokenObject) /\ Classed(objects) /\ o \in 1 .. Len(objects) + 1
        /\ Push(kind, o, t, After(rest, 0), objects)
    BY <2>1 DEF StaleReads
  <2> HIDE DEF kind, o
  <2>4. QED
    BY <2>2, <2>3, PushedLongest
<1>8. CASE RejectFirstCharacter \/ EndOfFile
  <2>1. outcome' = "printed"
    BY <1>8 DEF RejectFirstCharacter, EndOfFile
  <2>2. QED
    BY <2>1 DEF LongestPunctuation
<1>9. QED
  BY <1>2, <1>3, <1>4, <1>5, <1>6, <1>7, <1>8 DEF TokenizerNext

(* For every set of sources: a punctuation token is the longest operator of *)
(* C++ that its characters begin, those named as split excepted.            *)
THEOREM PunctuationIsLongest == TokenizerSpec => []LongestPunctuation
<1>1. TokenizerInit => LongestPunctuation
  BY DEF TokenizerInit, LongestPunctuation
<1>2. TokenizerTypeOK /\ LongestPunctuation /\ [TokenizerNext]_tokenizerVars => LongestPunctuation'
  <2>1. ASSUME LongestPunctuation, UNCHANGED tokenizerVars PROVE LongestPunctuation'
    BY <2>1 DEF LongestPunctuation, tokenizerVars
  <2>2. QED
    BY <2>1, LongestStep
<1>3. QED
  BY <1>1, <1>2, TokenizerTypes, PTL DEF TokenizerSpec

-----------------------------------------------------------------------------
(* The tokeniser: each object is in the list once, in order.                *)

(* Without a character of no class, each object is in the list once, at its   *)
(* own place.                                                                 *)
ListedOnce == Len(token_list) = Len(objects) /\ \A i \in 1 .. Len(token_list) : token_list[i] = i
ListedInOrder == Has(source, {"other"}) \/ ListedOnce

(* A character of no class that is read ahead is in the source.             *)
LEMMA OtherRead ==
  ASSUME source \in Text, NEW p, Reading(p), input_char = "other"
  PROVE  Has(source, {"other"})
<1>1. p \in Nat \ {0} /\ Len(source) \in Nat
  BY TextKept DEF Reading
<1>2. "other" # Eof
  BY DEF Eof
<1>3. p <= Len(source) /\ source[p] = "other"
  BY <1>2, ReadingTyped
<1>4. p \in 1 .. Len(source)
  BY <1>1, <1>3
<1>5. QED
  BY <1>3, <1>4 DEF Has

(* One object more, and its reference. *)
LEMMA ListedNext ==
  ASSUME ListedOnce, NEW n \in Nat, n = Len(objects), NEW o, o = n + 1,
         token_list \in Seq(Nat), token_list' = Append(token_list, o), Len(objects') = o
  PROVE  ListedOnce'
<1> DEFINE list == Append(token_list, o)
<1>1. Len(token_list) = n /\ \A i \in 1 .. n : token_list[i] = i
  BY DEF ListedOnce
<1>2. o \in Nat
  OBVIOUS
<1>3. /\ list \in Seq(Nat) /\ Len(list) = Len(token_list) + 1
      /\ \A i \in 1 .. Len(token_list) : list[i] = token_list[i]
      /\ list[Len(token_list) + 1] = o
  BY <1>2, AppendProperties
<1>4. token_list' = list
  OBVIOUS
<1> HIDE DEF list
<1>5. Len(list) = o /\ \A i \in 1 .. o : list[i] = i
  BY <1>1, <1>3
<1>6. QED
  BY <1>4, <1>5 DEF ListedOnce

(* Each step lists the objects it adds, in order; only StaleToken lists one *)
(* again.                                                                   *)
LEMMA ListedStep ==
  ASSUME TokenizerTypeOK, ListedInOrder, TokenizerNext
  PROVE  ListedInOrder'
<1>1. PICK p : Reading(p)
  BY DEF TokenizerTypeOK
<1>2. source \in Text /\ token_list \in Seq(Nat) /\ objects \in Seq(TokenObject) /\ Len(objects) \in Nat
  BY LenProperties DEF TokenizerTypeOK
<1>3. CASE OpenSource
  <2>1. objects' = <<>> /\ token_list' = <<>>
    BY <1>3 DEF OpenSource, TokenizerTypeOK
  <2>2. Len(objects') = 0 /\ Len(token_list') = 0
    BY <2>1, EmptySeq
  <2>3. QED
    BY <2>2 DEF ListedInOrder, ListedOnce
<1>4. ASSUME source' = source, ~Has(source, {"other"}), ListedOnce => ListedOnce'
      PROVE  ListedInOrder'
  BY <1>4 DEF ListedInOrder
<1>5. ASSUME source' = source, Has(source, {"other"}) PROVE ListedInOrder'
  BY <1>5 DEF ListedInOrder
<1>6. CASE LineComment
  <2> DEFINE kind == "eol"
             o == Len(objects) + 1
             n == Run(rest, Unended(rest))
  <2>1. LineReads(p, n)
    BY <1>1, <1>6, LineStepReads
  <2> HIDE DEF n
  <2>2. /\ eol_token \in ParsedToken /\ Classed(objects) /\ o \in 1 .. Len(objects) + 1
        /\ Push(kind, o, eol_token, After(rest, n + 1), objects)
        /\ token_list' = Append(token_list, o)
    BY <2>1 DEF LineReads
  <2>3. kind \in ClassKinds
    BY DEF ClassKinds
  <2>4. o = Len(objects) + 1
    OBVIOUS
  <2> HIDE DEF kind, o
  <2>5. Len(objects') = IF o > Len(objects) THEN o ELSE Len(objects)
    BY <1>2, <2>2, <2>3, PushTyped
  <2>6. Len(objects') = o /\ source' = source
    BY <1>2, <2>2, <2>4, <2>5 DEF Push
  <2>7. ListedOnce => ListedOnce'
    BY <1>2, <2>2, <2>4, <2>6, ListedNext
  <2>8. QED
    BY <1>4, <1>5, <2>6, <2>7
<1>7. CASE CloseBlockComment
  <2> DEFINE kind == "whitespace"
             c == BlockComment(rest)
             t == Blanks(c)
             k == c.eols
             n == Len(objects)
             before == objects \o EolObjects(k)
             o == n + k + 1
             list == token_list \o [i \in 1 .. k + 1 |-> n + i]
  <2>1. BlockReads(p, c, t)
    BY <1>1, <1>7, BlockStepReads
  <2> HIDE DEF c, t
  <2>2. /\ t \in ParsedToken /\ k \in Nat
        /\ before \in Seq(TokenObject) /\ Classed(before) /\ o \in 1 .. Len(before) + 1
        /\ Len(before) = n + k
        /\ Push(kind, o, t, After(rest, c.close + 1), before)
        /\ token_list' = list
    BY <2>1 DEF BlockReads
  <2>3. kind \in ClassKinds
    BY DEF ClassKinds
  <2>4. o = n + k + 1 /\ n \in Nat /\ n = Len(objects)
    BY <1>2
  <2> HIDE DEF kind, o, before, k
  <2>5. Len(objects') = IF o > Len(before) THEN o ELSE Len(before)
    BY <2>2, <2>3, PushTyped
  <2>6. Len(objects') = n + k + 1 /\ source' = source
    BY <2>2, <2>4, <2>5 DEF Push
  <2>7. ASSUME ListedOnce PROVE ListedOnce'
    <3>1. Len(token_list) = n /\ \A i \in 1 .. n : token_list[i] = i
      BY <2>7 DEF ListedOnce
    <3>2. \A i \in 1 .. Len(token_list) : token_list[i] \in 1 .. n
      BY <3>1
    <3> HIDE DEF n
    <3>3. /\ Len(list) = Len(token_list) + k + 1
          /\ \A i \in 1 .. Len(token_list) : list[i] = token_list[i]
          /\ \A i \in 1 .. k + 1 : list[Len(token_list) + i] = n + i
      BY <1>2, <2>2, <2>4, <3>2, ReferredBeyond
    <3> HIDE DEF list
    <3>4. Len(list) = n + k + 1
      BY <3>1, <3>3
    <3>5. ASSUME NEW i \in 1 .. n + k + 1 PROVE list[i] = i
      <4>1. CASE i <= n
        <5>1. i \in 1 .. n
          BY <2>4, <4>1
        <5>2. QED
          BY <3>1, <3>3, <5>1
      <4>2. CASE ~(i <= n)
        <5> DEFINE j == i - n
        <5>1. j \in 1 .. k + 1 /\ n + j = i
          BY <2>2, <2>4, <4>2
        <5> HIDE DEF j
        <5>2. list[n + j] = n + j
          BY <3>1, <3>3, <5>1
        <5>3. QED
          BY <5>1, <5>2
      <4>3. QED
        BY <4>1, <4>2
    <3>6. QED
      BY <2>2, <2>6, <3>4, <3>5 DEF ListedOnce
  <2>8. QED
    BY <1>4, <1>5, <2>6, <2>7
<1>8. CASE Token
  <2> DEFINE kind == KindOf(input_char)
             o == Len(objects) + 1
             t == parse_token(kind, input_char, rest)
  <2>1. TokenReads(p, t)
    BY <1>1, <1>8, TokenStepReads
  <2> HIDE DEF t
  <2>2. /\ kind \in ClassKinds /\ t \in ParsedToken /\ Classed(objects) /\ o \in 1 .. Len(objects) + 1
        /\ Push(kind, o, t, After(rest, 0), objects)
        /\ token_list' = Append(token_list, o)
    BY <2>1 DEF TokenReads
  <2>4. o = Len(objects) + 1
    OBVIOUS
  <2> HIDE DEF kind, o
  <2>5. Len(objects') = IF o > Len(objects) THEN o ELSE Len(objects)
    BY <1>2, <2>2, PushTyped
  <2>6. Len(objects') = o /\ source' = source
    BY <1>2, <2>2, <2>4, <2>5 DEF Push
  <2>7. ListedOnce => ListedOnce'
    BY <1>2, <2>2, <2>4, <2>6, ListedNext
  <2>8. QED
    BY <1>4, <1>5, <2>6, <2>7
<1>9. CASE StaleToken
  <2>1. StaleReads(p, parse_token(objects[token].kind, input_char, rest))
    BY <1>1, <1>9, StaleStepReads
  <2>2. input_char = "other"
    BY <2>1 DEF StaleReads
  <2>3. source' = source
    BY <1>9 DEF StaleToken, Push
  <2>4. QED
    BY <1>1, <1>2, <1>5, <2>2, <2>3, OtherRead
<1>10. CASE UnterminatedComment \/ RejectFirstCharacter
  <2>1. UNCHANGED <<source, objects, token_list>>
    BY <1>10 DEF UnterminatedComment, RejectFirstCharacter
  <2>2. QED
    BY <2>1 DEF ListedInOrder, ListedOnce
<1>11. CASE EndOfFile
  <2> DEFINE x == [kind |-> "eof", text |-> <<>>]
             n == Len(objects)
             o == n + 1
             new == Append(objects, x)
  <2>1. objects' = new /\ token' = Len(objects') /\ token_list' = Append(token_list, token') /\ source' = source
    BY <1>11 DEF EndOfFile
  <2>2. x \in TokenObject
    <3>1. <<>> \in KeptText
      BY EmptySeq DEF KeptText
    <3>2. QED
      BY <3>1 DEF TokenObject
  <2> HIDE DEF x
  <2>3. Len(new) = o
    BY <1>2, <2>2, AppendProperties
  <2>4. n \in Nat /\ n = Len(objects) /\ o = n + 1
    BY <1>2
  <2> HIDE DEF new, n, o
  <2>5. Len(objects') = o /\ token_list' = Append(token_list, o)
    BY <2>1, <2>3
  <2>6. ListedOnce => ListedOnce'
    BY <1>2, <2>4, <2>5, ListedNext
  <2>7. QED
    BY <1>4, <1>5, <2>1, <2>6
<1>12. QED
  BY <1>3, <1>6, <1>7, <1>8, <1>9, <1>10, <1>11 DEF TokenizerNext

(* For every set of sources without a character of no class: token_list is  *)
(* the objects, once each, in the order they were made.                     *)
THEOREM TokensInOrder == TokenizerSpec => []ListedInOrder
<1>1. TokenizerInit => ListedInOrder
  <2>1. Len(<<>>) = 0
    OBVIOUS
  <2>2. QED
    BY <2>1 DEF TokenizerInit, ListedInOrder, ListedOnce
<1>2. TokenizerTypeOK /\ ListedInOrder /\ [TokenizerNext]_tokenizerVars => ListedInOrder'
  <2>1. ASSUME ListedInOrder, UNCHANGED tokenizerVars PROVE ListedInOrder'
    BY <2>1 DEF ListedInOrder, ListedOnce, tokenizerVars
  <2>2. QED
    BY <2>1, ListedStep
<1>3. QED
  BY <1>1, <1>2, TokenizerTypes, PTL DEF TokenizerSpec

(* So one object is in the list twice only where such a character was read. *)
LEMMA InOrderShared == TokenizerTypeOK /\ ListedInOrder => TokensShared
<1> SUFFICES ASSUME TokenizerTypeOK, ListedInOrder, ~Has(source, {"other"}) PROVE IsInjective(token_list)
  BY DEF TokensShared
<1>1. ListedOnce
  BY DEF ListedInOrder
<1>2. DOMAIN token_list = 1 .. Len(token_list)
  BY LenProperties DEF TokenizerTypeOK
<1>3. \A i \in DOMAIN token_list : token_list[i] = i
  BY <1>1, <1>2 DEF ListedOnce
<1>4. QED
  BY <1>3 DEF IsInjective

-----------------------------------------------------------------------------
(* The tokeniser: what the tokens spell is what was read.                   *)

(* A text without its blanks, piece by piece. *)
Signs == Characters \union {Eof}
PieceOf(c) == IF c \in Blank \union {Eof} THEN <<>> ELSE <<c>>
Pieces(s) == [i \in 1 .. Len(s) |-> PieceOf(s[i])]

(* A character without blanks is kept, or is nothing.                       *)
LEMMA PieceTyped ==
  ASSUME NEW c \in Signs
  PROVE  PieceOf(c) \in KeptText
BY EmptySeq, SingletonSeq DEF PieceOf, KeptText, Signs

(* The characters of a text, one piece each.                                *)
LEMMA PiecesTyped ==
  ASSUME NEW s \in KeptText
  PROVE  /\ Pieces(s) \in Seq(KeptText) /\ Len(Pieces(s)) = Len(s)
         /\ \A i \in 1 .. Len(s) : Pieces(s)[i] = PieceOf(s[i])
<1> DEFINE ps == Pieces(s)
           n == Len(s)
<1>1. n \in Nat
  BY LenProperties DEF KeptText
<1>2. \A i \in 1 .. n : s[i] \in Signs
  BY ElementOfSeq DEF KeptText, Signs
<1>3. \A i \in 1 .. n : PieceOf(s[i]) \in KeptText
  BY <1>2, PieceTyped
<1>4. ps \in [1 .. n -> KeptText] /\ \A i \in 1 .. n : ps[i] = PieceOf(s[i])
  <2> HIDE DEF n
  <2>1. QED
    BY <1>3 DEF Pieces, n
<1> HIDE DEF ps
<1>5. ps \in Seq(KeptText)
  BY <1>1, <1>4, SeqDef
<1>6. DOMAIN ps = 1 .. n /\ DOMAIN ps = 1 .. Len(ps) /\ Len(ps) \in Nat
  BY <1>4, <1>5, LenProperties
<1>7. Len(ps) = n
  BY <1>1, <1>6
<1>8. QED
  BY <1>4, <1>5, <1>7 DEF ps

(* A text without its blanks is its pieces flattened.                       *)
LEMMA UnblankedValue ==
  ASSUME NEW s \in KeptText
  PROVE  Unblanked(s) = FlattenSeq(Pieces(s)) /\ Unblanked(s) \in KeptText
<1>1. Unblanked(s) = FlattenSeq(Pieces(s))
  BY DEF Unblanked, Pieces, PieceOf
<1>2. Pieces(s) \in Seq(Seq(Signs))
  BY PiecesTyped DEF KeptText, Signs
<1>3. FlattenSeq(Pieces(s)) \in Seq(Signs)
  BY <1>2, FlattenTyped
<1>4. QED
  BY <1>1, <1>3 DEF KeptText, Signs

(* Texts concatenated are a text.                                           *)
LEMMA KeptCat ==
  ASSUME NEW a \in KeptText, NEW b \in KeptText
  PROVE  Cat(a, b) \in KeptText /\ Len(Cat(a, b)) = Len(a) + Len(b) /\ Len(a) \in Nat /\ Len(b) \in Nat
BY CatTyped, LenProperties DEF KeptText

(* The blanks of a concatenation are those of its parts.                    *)
LEMMA UnblankedCat ==
  ASSUME NEW a \in KeptText, NEW b \in KeptText
  PROVE  Unblanked(Cat(a, b)) = Cat(Unblanked(a), Unblanked(b))
<1> DEFINE ab == Cat(a, b)
           pa == Pieces(a)
           pb == Pieces(b)
           pp == Cat(pa, pb)
           ps == Pieces(ab)
<1>1. ab \in KeptText /\ Len(ab) = Len(a) + Len(b) /\ Len(a) \in Nat /\ Len(b) \in Nat
  BY KeptCat
<1>2. /\ pa \in Seq(KeptText) /\ Len(pa) = Len(a) /\ \A i \in 1 .. Len(a) : pa[i] = PieceOf(a[i])
      /\ pb \in Seq(KeptText) /\ Len(pb) = Len(b) /\ \A i \in 1 .. Len(b) : pb[i] = PieceOf(b[i])
  BY PiecesTyped
<1>3. ps \in Seq(KeptText) /\ Len(ps) = Len(ab) /\ \A i \in 1 .. Len(ab) : ps[i] = PieceOf(ab[i])
  BY <1>1, PiecesTyped
<1> HIDE DEF pa, pb, ps
<1>4. pp \in Seq(KeptText) /\ Len(pp) = Len(pa) + Len(pb)
  BY <1>2, CatTyped
<1>5. ASSUME NEW i \in 1 .. Len(ps) PROVE ps[i] = pp[i]
  <2>1. CASE i <= Len(a)
    <3>1. i \in 1 .. Len(a) /\ i \in 1 .. Len(pa) /\ i \in 1 .. Len(ab)
      BY <1>1, <1>2, <1>3, <2>1
    <3>2. ab[i] = a[i]
      BY <3>1, CatLeft DEF KeptText
    <3>3. pp[i] = pa[i]
      BY <1>2, <3>1, CatLeft
    <3>4. QED
      BY <1>2, <1>3, <3>1, <3>2, <3>3
  <2>2. CASE ~(i <= Len(a))
    <3> DEFINE j == i - Len(a)
    <3>1. j \in 1 .. Len(b) /\ j \in 1 .. Len(pb) /\ Len(a) + j = i /\ i \in 1 .. Len(ab)
      BY <1>1, <1>2, <1>3, <2>2
    <3> HIDE DEF j
    <3>2. ab[Len(a) + j] = b[j]
      BY <3>1, CatRight DEF KeptText
    <3>3. pp[Len(pa) + j] = pb[j]
      BY <1>2, <3>1, CatRight
    <3>4. ps[i] = PieceOf(ab[i])
      BY <1>3, <3>1
    <3>5. QED
      BY <1>2, <3>1, <3>2, <3>3, <3>4
  <2>3. QED
    BY <2>1, <2>2
<1>6. ps = pp
  <2> HIDE DEF pp
  <2>1. QED
    BY <1>1, <1>2, <1>3, <1>4, <1>5, SeqEqual
<1>7. FlattenSeq(pp) = Cat(FlattenSeq(pa), FlattenSeq(pb))
  BY <1>2, FlattenCat DEF KeptText
<1>8. Unblanked(ab) = FlattenSeq(ps) /\ Unblanked(a) = FlattenSeq(pa) /\ Unblanked(b) = FlattenSeq(pb)
  <2> HIDE DEF ab
  <2>1. QED
    BY <1>1, UnblankedValue DEF pa, pb, ps
<1>9. QED
  BY <1>6, <1>7, <1>8

(* Blanks alone are nothing. *)
LEMMA UnblankedBlanks ==
  ASSUME NEW s \in KeptText, \A i \in 1 .. Len(s) : s[i] \in Blank \union {Eof}
  PROVE  Unblanked(s) = <<>>
<1> DEFINE ps == Pieces(s)
           n == Len(s)
           T == {k \in Nat : k <= n /\ FlatTo(ps, k) # <<>>}
<1>1. /\ ps \in Seq(KeptText) /\ Len(ps) = n /\ n \in Nat
      /\ \A i \in 1 .. n : ps[i] = <<>>
  <2>1. /\ ps \in Seq(KeptText) /\ Len(ps) = n
        /\ \A i \in 1 .. n : ps[i] = PieceOf(s[i])
    BY PiecesTyped
  <2>2. n \in Nat
    BY LenProperties DEF KeptText
  <2>3. \A i \in 1 .. n : PieceOf(s[i]) = <<>>
    BY DEF PieceOf
  <2>4. QED
    BY <2>1, <2>2, <2>3
<1>11. ps \in Seq(Seq(Signs))
  BY <1>1 DEF KeptText, Signs
<1> HIDE DEF ps
<1>2. FlatTo(ps, 0) = <<>> /\ FlatTo(ps, Len(ps)) = FlattenSeq(ps)
  BY <1>11, FlatToEdges
<1>3. ASSUME T # {} PROVE FALSE
  <2>1. PICK k \in T : \A m \in T : k <= m
    <3>1. T \subseteq Nat
      OBVIOUS
    <3> HIDE DEF T
    <3>2. QED
      BY <1>3, <3>1, SmallestMember
  <2>2. k \in Nat /\ k <= n /\ FlatTo(ps, k) # <<>> /\ k # 0
    BY <1>2
  <2> DEFINE j == k - 1
  <2>3. j \in Nat /\ j < k /\ j <= n /\ k \in 1 .. Len(ps) /\ k - 1 = j
    BY <1>1, <2>2
  <2>4. FlatTo(ps, j) = <<>>
    <3>1. j \notin T
      <4> HIDE DEF T, j
      <4>1. QED
        BY <2>1, <2>2, <2>3
    <3> HIDE DEF j
    <3>2. QED
      BY <2>3, <3>1
  <2>5. FlatTo(ps, k) = Cat(FlatTo(ps, k - 1), ps[k])
    BY <1>11, <2>3, FlatToNext
  <2>6. ps[k] = <<>>
    BY <1>1, <2>3
  <2>7. Cat(<<>>, <<>>) = <<>>
    BY EmptySeq, CatEmpty
  <2>8. QED
    BY <2>2, <2>3, <2>4, <2>5, <2>6, <2>7
<1>4. FlatTo(ps, n) = <<>>
  BY <1>1, <1>3
<1>5. Unblanked(s) = FlattenSeq(ps)
  BY UnblankedValue DEF ps
<1>6. QED
  BY <1>1, <1>2, <1>4, <1>5

(* What is left of the stream s after n characters, one of them read ahead.  *)
LEMMA UnblankedAhead ==
  ASSUME NEW s \in Text, NEW n \in Nat
  PROVE  /\ <<Peek(After(s, n))>> \in KeptText /\ After(s, n + 1) \in KeptText /\ After(s, n) \in KeptText
         /\ Unblanked(Cat(<<Peek(After(s, n))>>, After(s, n + 1))) = Unblanked(After(s, n))
<1> DEFINE u == After(s, n)
           v == After(s, n + 1)
           c == Peek(u)
           one == <<c>>
<1>1. u \in Text /\ v \in Text /\ c \in Signs /\ Len(s) \in Nat /\ n + 1 \in Nat
  <2>1. u \in Text /\ c \in Signs
    BY AfterText DEF Signs
  <2> DEFINE m == n + 1
  <2>2. m \in Nat
    OBVIOUS
  <2> HIDE DEF m
  <2>3. After(s, m) \in Text
    BY <2>2, AfterText
  <2>4. QED
    BY <2>1, <2>2, <2>3, TextKept DEF m
<1>2. /\ Len(u) = (IF n < Len(s) THEN Len(s) - n ELSE 0)
      /\ \A i \in 1 .. Len(s) - n : u[i] = s[n + i]
  BY AfterValue DEF Text
<1>3. /\ Len(v) = (IF n + 1 < Len(s) THEN Len(s) - (n + 1) ELSE 0)
      /\ \A i \in 1 .. Len(s) - (n + 1) : v[i] = s[n + 1 + i]
  BY <1>1, AfterValue DEF Text
<1>4. c = IF n < Len(s) THEN s[n + 1] ELSE Eof
  BY AfterText
<1> HIDE DEF u, v, c
<1>5. one \in KeptText /\ Len(one) = 1 /\ one[1] = c
  BY <1>1, SingletonSeq DEF KeptText, Signs
<1>51. u \in KeptText /\ v \in KeptText
  BY <1>1, TextKept
<1> HIDE DEF one
<1>6. CASE n < Len(s)
  <2> DEFINE w == Cat(one, v)
  <2>1. w \in KeptText /\ Len(w) = 1 + Len(v)
    BY <1>5, <1>51, KeptCat
  <2>2. Len(w) = Len(u)
    BY <1>1, <1>2, <1>3, <1>6, <2>1
  <2>3. ASSUME NEW i \in 1 .. Len(w) PROVE w[i] = u[i]
    <3>1. CASE i = 1
      <4>1. i \in 1 .. Len(one) /\ i \in 1 .. Len(s) - n /\ n + i = n + 1
        BY <1>1, <1>5, <1>6, <3>1
      <4>2. w[i] = one[i]
        BY <1>5, <1>51, <4>1, CatLeft DEF KeptText
      <4>3. u[i] = s[n + i]
        BY <1>2, <4>1
      <4>4. QED
        BY <1>4, <1>5, <1>6, <3>1, <4>1, <4>2, <4>3
    <3>2. CASE i # 1
      <4> DEFINE j == i - 1
      <4>1. j \in 1 .. Len(v) /\ j \in 1 .. Len(s) - (n + 1) /\ i \in 1 .. Len(s) - n
            /\ 1 + j = i /\ n + 1 + j = n + i
        BY <1>1, <1>3, <1>6, <2>1, <3>2
      <4> HIDE DEF j
      <4>2. w[Len(one) + j] = v[j]
        BY <1>5, <1>51, <4>1, CatRight DEF KeptText
      <4>3. v[j] = s[n + 1 + j] /\ u[i] = s[n + i]
        BY <1>2, <1>3, <4>1
      <4>4. QED
        BY <1>5, <4>1, <4>2, <4>3
    <3>3. QED
      BY <3>1, <3>2
  <2> HIDE DEF w
  <2>4. w = u
    BY <1>51, <2>1, <2>2, <2>3, SeqEqual DEF KeptText
  <2>5. QED
    BY <1>51, <1>5, <2>4 DEF w, u, v, c, one
<1>7. CASE ~(n < Len(s))
  <2>1. Len(u) = 0 /\ Len(v) = 0 /\ c = Eof
    BY <1>1, <1>2, <1>3, <1>4, <1>7
  <2>2. u = <<>> /\ v = <<>>
    BY <1>51, <2>1, EmptySeq DEF KeptText
  <2>3. Cat(one, v) = one
    BY <1>5, <2>2, CatEmpty DEF KeptText
  <2>4. Unblanked(one) = <<>>
    <3>1. \A i \in 1 .. Len(one) : one[i] \in Blank \union {Eof}
      <4>1. \A i \in 1 .. Len(one) : i = 1
        BY <1>5
      <4>2. QED
        BY <1>5, <2>1, <4>1
    <3>2. QED
      BY <1>5, <3>1, UnblankedBlanks
  <2>5. Unblanked(u) = <<>>
    <3>1. \A i \in 1 .. Len(u) : u[i] \in Blank \union {Eof}
      BY <2>1
    <3>2. QED
      BY <1>51, <3>1, UnblankedBlanks
  <2>6. QED
    BY <1>5, <1>51, <2>3, <2>4, <2>5 DEF u, v, c, one
<1>8. QED
  BY <1>6, <1>7

(* A quoted literal without a backslash is the characters before its quote.  *)
LEMMA QuotedPlain ==
  ASSUME NEW q, NEW s \in Text, \A i \in 1 .. Len(s) : s[i] # Backslash, Quoted(q, s).close # 0
  PROVE  LET l == Quoted(q, s)
         IN /\ l.close \in 1 .. Len(s) /\ s[l.close] = q
            /\ l.text = FirstOf(s, l.close - 1)
<1> DEFINE n == Len(s)
           Mid(i, j) == SubSeq(s, i, j)
<1>1. n \in Nat
  BY TextKept
<1>2. PICK f \in [1 .. n + 2 -> LiteralRead] :
         (\A i \in 1 .. n + 2 : f[i] = LiteralAt(q, s, f, i)) /\ Quoted(q, s) = f[1]
  BY LiteralRecursion
<1> DEFINE Right(i) == \/ f[i].close = 0
                       \/ /\ f[i].close \in i .. n /\ s[f[i].close] = q
                          /\ f[i].text = Mid(i, f[i].close - 1)
           P == {i \in 1 .. n + 2 : Right(i)}
<1>3. ASSUME NEW i \in 1 .. n + 2, i > n PROVE Right(i)
  <2>1. f[i] = [close |-> 0, text |-> <<>>]
    BY <1>2, <1>3 DEF LiteralAt
  <2>2. QED
    BY <2>1
<1>4. ASSUME NEW i \in 1 .. n, Right(i + 1) PROVE Right(i)
  <2>1. i \in 1 .. n + 2 /\ i + 1 \in 1 .. n + 2 /\ ~(i > n) /\ i \in Nat
    BY <1>1
  <2>2. f[i] = LiteralAt(q, s, f, i)
    BY <1>2, <2>1
  <2>3. CASE s[i] = q
    <3>1. f[i] = [close |-> i, text |-> <<>>]
      BY <2>1, <2>2, <2>3 DEF LiteralAt
    <3>2. Mid(i, i - 1) = <<>>
      <4> DEFINE j == i - 1
      <4>1. i \in Int /\ j \in Int /\ j < i
        BY <2>1
      <4> HIDE DEF j
      <4>2. SubSeq(s, i, j) = <<>>
        BY <4>1, SubSeqEmpty
      <4>3. QED
        BY <4>2 DEF j
    <3> HIDE DEF Mid
    <3>3. f[i].close = i /\ f[i].text = <<>>
      BY <3>1
    <3>4. i \in i .. n
      BY <1>1
    <3>5. QED
      BY <2>3, <3>2, <3>3, <3>4
  <2>4. CASE s[i] # q
    <3> DEFINE r == f[i + 1]
               k == r.close
               one == <<s[i]>>
               x == r.text
    <3>1. r \in LiteralRead
      BY <1>2, <2>1
    <3>2. f[i] = [r EXCEPT !.text = one \o x]
      <4>1. s[i] # Backslash
        OBVIOUS
      <4>2. LiteralAt(q, s, f, i) = [r EXCEPT !.text = <<s[i]>> \o @]
        BY <2>1, <2>4, <4>1 DEF LiteralAt
      <4>3. QED
        BY <2>2, <4>2
    <3> DEFINE y == one \o x
    <3> HIDE DEF r, one, y
    <3>3. f[i].close = k /\ f[i].text = y /\ k \in Nat
      <4>1. f[i] = [r EXCEPT !.text = y]
        BY <3>2 DEF y
      <4>2. QED
        BY <3>1, <4>1 DEF LiteralRead
    <3>4. k = 0 \/ (k \in i + 1 .. n /\ s[k] = q /\ x = Mid(i + 1, k - 1))
      BY <1>4 DEF r
    <3> HIDE DEF k, x
    <3>5. CASE k = 0
      BY <3>3, <3>5
    <3>6. CASE k # 0
      <4>1. k \in i + 1 .. n /\ s[k] = q /\ x = Mid(i + 1, k - 1)
        BY <3>4, <3>6
      <4> DEFINE m == k - 1
      <4>2. m \in i .. Len(s) /\ i \in 1 .. Len(s) /\ k \in i .. n
        BY <1>1, <3>3, <4>1
      <4> HIDE DEF m
      <4>3. SubSeq(s, i, m) = <<s[i]>> \o SubSeq(s, i + 1, m)
        BY <4>2, SubSeqRecursiveFirst DEF Text
      <4>4. y = Mid(i, k - 1)
        BY <4>1, <4>3 DEF y, one, m
      <4> HIDE DEF Mid
      <4>5. QED
        BY <3>3, <4>1, <4>2, <4>4
    <3>7. QED
      BY <3>5, <3>6
  <2>5. QED
    BY <2>3, <2>4
<1>5. EndsIn(n, P)
  <2> HIDE DEF Right
  <2>1. QED
    BY <1>3 DEF EndsIn
<1>6. Backward(n, P)
  <2> HIDE DEF Right
  <2>1. \A i \in 1 .. n : i \in 1 .. n + 2
    BY <1>1
  <2>2. QED
    BY <1>4, <2>1 DEF Backward
<1>7. 1 \in P
  <2> HIDE DEF P, n
  <2>1. \A i \in 1 .. n + 2 : i \in P
    BY <1>1, <1>5, <1>6, DescendingHolds
  <2>2. 1 \in 1 .. n + 2
    BY <1>1
  <2>3. QED
    BY <2>1, <2>2
<1>8. Right(1)
  BY <1>7
<1>9. QED
  BY <1>2, <1>8 DEF FirstOf

(* The spelling of an object is a text.                                     *)
LEMMA SpelledTyped ==
  ASSUME NEW x \in TokenObject
  PROVE  Spelled(x) \in KeptText
<1>1. <<>> \in KeptText /\ <<Newline>> \in KeptText /\ <<Quote>> \in KeptText /\ <<Apostrophe>> \in KeptText
  <2>1. Newline \in Signs /\ Quote \in Signs /\ Apostrophe \in Signs
    BY DEF Signs, Characters
  <2>2. QED
    BY <2>1, EmptySeq, SingletonSeq DEF KeptText, Signs
<1> DEFINE q == CASE x.kind = "literal" -> <<Quote>>
             [] x.kind = "const_literal" -> <<Apostrophe>>
             [] OTHER -> <<>>
<1>2. q \in KeptText
  BY <1>1
<1>3. x.text \in KeptText
  BY DEF TokenObject
<1>4. Spelled(x) = IF x.kind = "eol" THEN <<Newline>> ELSE Cat(Cat(q, x.text), q)
  BY DEF Spelled, Cat
<1> DEFINE y == x.text
           front == Cat(q, y)
<1> HIDE DEF q, y
<1>5. front \in KeptText
  BY <1>2, <1>3, KeptCat DEF y
<1> HIDE DEF front
<1>6. Cat(front, q) \in KeptText
  BY <1>2, <1>5, KeptCat
<1>7. Spelled(x) = IF x.kind = "eol" THEN <<Newline>> ELSE Cat(front, q)
  BY <1>4 DEF front, y
<1>8. QED
  BY <1>1, <1>6, <1>7

(* How a token of each kind is spelled. *)
LEMMA SpelledValue ==
  ASSUME NEW kind, NEW text \in KeptText
  PROVE  LET x == [kind |-> kind, text |-> text]
         IN /\ kind = "eol" => Spelled(x) = <<Newline>>
            /\ kind = "literal" => Spelled(x) = Cat(Cat(<<Quote>>, text), <<Quote>>)
            /\ kind = "const_literal" => Spelled(x) = Cat(Cat(<<Apostrophe>>, text), <<Apostrophe>>)
            /\ kind \notin {"eol", "literal", "const_literal"} => Spelled(x) = text
<1> DEFINE x == [kind |-> kind, text |-> text]
<1>1. x.kind = kind /\ x.text = text
  OBVIOUS
<1> HIDE DEF x
<1>2. CASE kind = "eol"
  BY <1>1, <1>2 DEF Spelled, x
<1>3. CASE kind = "literal"
  BY <1>1, <1>3 DEF Spelled, Cat, x
<1>4. CASE kind = "const_literal"
  BY <1>1, <1>4 DEF Spelled, Cat, x
<1>5. CASE kind \notin {"eol", "literal", "const_literal"}
  <2>1. Spelled(x) = Cat(Cat(<<>>, text), <<>>)
    BY <1>1, <1>5 DEF Spelled, Cat
  <2>2. Cat(<<>>, text) = text /\ Cat(text, <<>>) = text
    BY CatEmpty DEF KeptText
  <2>3. QED
    BY <1>5, <2>1, <2>2 DEF x
<1>6. QED
  BY <1>2, <1>3, <1>4, <1>5

(* A token of the kind, with the text, spells c and the n characters of s     *)
(* that are read after it.                                                    *)
SpelledBy(kind, text, c, s, n) ==
  /\ n \in 0 .. Len(s)
  /\ Unblanked(Spelled([kind |-> kind, text |-> text])) = Unblanked(Cat(<<c>>, FirstOf(s, n)))

WordRead(t, c, s, n) == n \in 0 .. Len(s) /\ t = Parsed(<<c>> \o SubSeq(s, 1, n), n)

(* A symbol, an integer and a punctuation are spelled by the characters     *)
(* read.                                                                    *)
LEMMA WordSpelled ==
  ASSUME NEW kind, kind \notin {"eol", "literal", "const_literal"},
         NEW c \in Characters, NEW s \in Text, NEW n, NEW t, WordRead(t, c, s, n)
  PROVE  t.read = n /\ SpelledBy(kind, t.text, c, s, t.read)
<1> DEFINE word == <<c>> \o SubSeq(s, 1, n)
           same == Cat(<<c>>, FirstOf(s, n))
<1>0. n \in 0 .. Len(s)
  BY DEF WordRead
<1>1. word = same /\ same \in KeptText
  BY <1>0, FirstKept
<1>2. t = Parsed(word, n)
  BY DEF WordRead
<1> HIDE DEF word, same
<1>3. t.read = n /\ t.text = word
  BY <1>2 DEF Parsed
<1>4. Spelled([kind |-> kind, text |-> word]) = word
  <2>1. word \in KeptText
    BY <1>1
  <2>2. QED
    BY <2>1, SpelledValue
<1>5. QED
  BY <1>0, <1>1, <1>3, <1>4 DEF SpelledBy, same

(* A blank is spelled by nothing, and only blanks are read after it.        *)
LEMMA BlankSpelled ==
  ASSUME NEW c \in Blank, NEW s \in Text,
         NEW t, t = whitespace_token(s)
  PROVE  SpelledBy("whitespace", t.text, c, s, t.read)
<1> DEFINE n == Run(s, Blank)
           one == <<c>>
           front == FirstOf(s, n)
           all == Cat(one, front)
<1>1. n \in 0 .. Len(s) /\ Len(s) \in Nat /\ \A i \in 1 .. n : s[i] \in Blank
  BY RunRead, TextKept
<1>2. t.read = n /\ t.text = <<>>
  <2> HIDE DEF n
  <2>1. QED
    BY DEF whitespace_token, Parsed, n
<1> HIDE DEF n
<1>3. c \in Signs /\ one \in KeptText /\ Len(one) = 1 /\ one[1] = c
  <2>1. c \in Signs
    BY DEF Signs, Characters
  <2>2. QED
    BY <2>1, SingletonSeq DEF KeptText, Signs
<1>4. front \in Text /\ Len(front) = n /\ \A i \in 1 .. n : front[i] = s[i]
  BY <1>1, FrontTyped DEF Text
<1>5. front \in KeptText
  BY <1>4, TextKept
<1> HIDE DEF one, front
<1>6. Unblanked(one) = <<>>
  <2>1. \A i \in 1 .. Len(one) : one[i] \in Blank \union {Eof}
    <3>1. \A i \in 1 .. Len(one) : i = 1
      BY <1>3
    <3>2. QED
      BY <1>3, <3>1
  <2>2. QED
    BY <1>3, <2>1, UnblankedBlanks
<1>7. Unblanked(front) = <<>>
  <2>1. \A i \in 1 .. Len(front) : front[i] \in Blank \union {Eof}
    BY <1>1, <1>4
  <2>2. QED
    BY <1>5, <2>1, UnblankedBlanks
<1>8. Unblanked(all) = <<>>
  <2>1. Unblanked(all) = Cat(Unblanked(one), Unblanked(front))
    BY <1>3, <1>5, UnblankedCat
  <2>2. Cat(<<>>, <<>>) = <<>>
    BY EmptySeq, CatEmpty
  <2>3. QED
    BY <1>6, <1>7, <2>1, <2>2
<1>9. Unblanked(Spelled([kind |-> "whitespace", text |-> <<>>])) = <<>>
  <2>1. <<>> \in KeptText /\ Len(<<>>) = 0
    BY EmptySeq DEF KeptText
  <2>2. Spelled([kind |-> "whitespace", text |-> <<>>]) = <<>>
    BY <2>1, SpelledValue
  <2>3. Unblanked(<<>>) = <<>>
    <3>1. \A i \in 1 .. Len(<<>>) : <<>>[i] \in Blank \union {Eof}
      BY <2>1
    <3>2. QED
      BY <2>1, <3>1, UnblankedBlanks
  <2>4. QED
    BY <2>2, <2>3
<1>10. QED
  BY <1>1, <1>2, <1>8, <1>9 DEF SpelledBy, one, front

(* A newline is spelled by itself.                                          *)
LEMMA EolSpelled ==
  ASSUME NEW s \in Text
  PROVE  eol_token.read = 0 /\ SpelledBy("eol", eol_token.text, Newline, s, 0)
<1>1. eol_token.read = 0 /\ eol_token.text = <<>>
  BY EolTyped
<1>2. <<>> \in KeptText
  BY EmptySeq DEF KeptText
<1>3. Spelled([kind |-> "eol", text |-> <<>>]) = <<Newline>>
  BY <1>2, SpelledValue
<1>4. Cat(<<Newline>>, FirstOf(s, 0)) = <<Newline>>
  <2>1. FirstOf(s, 0) = <<>>
    BY FrontFull DEF Text
  <2>2. <<Newline>> \in Seq({Newline})
    BY SingletonSeq
  <2>3. QED
    BY <2>1, <2>2, CatEmpty
<1>5. 0 \in 0 .. Len(s)
  BY TextKept
<1>6. QED
  BY <1>1, <1>3, <1>4, <1>5 DEF SpelledBy

(* A quoted text without a backslash is spelled with its two quotes.        *)
LEMMA QuoteSpelled ==
  ASSUME NEW kind, NEW q, (kind = "literal" /\ q = Quote) \/ (kind = "const_literal" /\ q = Apostrophe),
         NEW s \in Text, \A i \in 1 .. Len(s) : s[i] # Backslash,
         Quoted(q, s).close # 0,
         NEW t, t = Parsed(Quoted(q, s).text, Quoted(q, s).close)
  PROVE  SpelledBy(kind, t.text, q, s, t.read)
<1> DEFINE l == Quoted(q, s)
           n == l.close
           m == n - 1
           x == FirstOf(s, m)
           one == <<q>>
<1>1. n \in 1 .. Len(s) /\ s[n] = q /\ l.text = x
  BY QuotedPlain
<1>2. t.read = n /\ t.text = x
  <2>1. t = Parsed(l.text, n)
    OBVIOUS
  <2> HIDE DEF l, n, x
  <2>2. t = Parsed(x, n)
    BY <1>1, <2>1
  <2>3. QED
    BY <2>2 DEF Parsed
<1> HIDE DEF l, n
<1>3. Len(s) \in Nat /\ n \in 0 .. Len(s) /\ m \in 0 .. Len(s)
  BY <1>1, TextKept
<1>4. FirstOf(s, n) = Cat(x, one) /\ x \in KeptText /\ one \in KeptText
  <2>1. FirstOf(s, n) = Append(FirstOf(s, n - 1), s[n])
    BY <1>1, FrontNext DEF Text
  <2>2. x \in Text
    BY <1>3, FrontTyped DEF Text
  <2>3. q \in Characters
    BY DEF Characters
  <2>4. Append(x, q) = Cat(x, one)
    <3> HIDE DEF x
    <3>1. QED
      BY <2>2, <2>3, CatAppend DEF Text
  <2>5. q \in Signs
    BY <2>3 DEF Signs
  <2>6. one \in KeptText
    BY <2>5, SingletonSeq DEF KeptText, Signs
  <2>7. x \in KeptText
    <3> HIDE DEF x
    <3>1. QED
      BY <2>2, TextKept
  <2>8. QED
    BY <1>1, <2>1, <2>4, <2>6, <2>7
<1> HIDE DEF m, x, one
<1>5. Spelled([kind |-> kind, text |-> x]) = Cat(Cat(one, x), one)
  <2>1. CASE kind = "literal" /\ q = Quote
    BY <1>4, <2>1, SpelledValue DEF one
  <2>2. CASE kind = "const_literal" /\ q = Apostrophe
    BY <1>4, <2>2, SpelledValue DEF one
  <2>3. QED
    BY <2>1, <2>2
<1>6. Cat(Cat(one, x), one) = Cat(one, Cat(x, one))
  BY <1>4, CatAssociative DEF KeptText
<1>7. QED
  BY <1>2, <1>3, <1>4, <1>5, <1>6 DEF SpelledBy, one

(* A character of a class and what its token reads are what the token spells. *)
LEMMA TokenSpelled ==
  ASSUME NEW c \in Characters, NEW kind, kind = KindOf(c), kind # "none",
         NEW s \in Text, \A i \in 1 .. Len(s) : s[i] # Backslash,
         NEW t, t = parse_token(kind, c, s), t.outcome = "tokenising"
  PROVE  SpelledBy(kind, t.text, c, s, t.read)
<1>1. kind \in ClassKinds
  BY KindValue
<1>2. Ended("unterminated").outcome # "tokenising" /\ Ended("spinning").outcome # "tokenising"
  BY DEF Ended
<1>3. CASE kind = "symbol"
  <2> DEFINE n == Run(s, Letters \union Digits)
  <2>1. n \in 0 .. Len(s)
    BY RunRead
  <2>2. WordRead(t, c, s, n)
    BY <1>3, <2>1 DEF parse_token, symbol_token, WordRead
  <2> HIDE DEF n
  <2>3. kind \notin {"eol", "literal", "const_literal"}
    BY <1>3
  <2>4. QED
    BY <2>2, <2>3, WordSpelled
<1>4. CASE kind = "integer"
  <2> DEFINE n == IntegerLength(c, s)
  <2>1. n \in 0 .. Len(s)
    BY IntegerRead
  <2>2. WordRead(t, c, s, n)
    BY <1>4, <2>1 DEF parse_token, integer_token, WordRead
  <2> HIDE DEF n
  <2>3. kind \notin {"eol", "literal", "const_literal"}
    BY <1>4
  <2>4. QED
    BY <2>2, <2>3, WordSpelled
<1>5. CASE kind = "punctuation"
  <2> DEFINE n == PunctuationLength(c, s)
  <2>1. n \in 0 .. Len(s)
    BY PunctuationRead
  <2>2. WordRead(t, c, s, n)
    BY <1>5, <2>1 DEF parse_token, punctuation_token, WordRead
  <2> HIDE DEF n
  <2>3. kind \notin {"eol", "literal", "const_literal"}
    BY <1>5
  <2>4. QED
    BY <2>2, <2>3, WordSpelled
<1>6. CASE kind = "whitespace"
  <2>1. t = whitespace_token(s)
    BY <1>6 DEF parse_token
  <2>2. c \in Blank
    BY <1>6, KindValue
  <2>3. SpelledBy("whitespace", t.text, c, s, t.read)
    BY <2>1, <2>2, BlankSpelled
  <2>4. QED
    BY <1>6, <2>3
<1>7. CASE kind = "eol"
  <2>1. t = eol_token
    BY <1>7 DEF parse_token
  <2>2. c = Newline
    BY <1>7, KindValue
  <2>3. eol_token.read = 0 /\ SpelledBy("eol", eol_token.text, Newline, s, 0)
    BY EolSpelled
  <2>4. QED
    BY <1>7, <2>1, <2>2, <2>3
<1>8. CASE kind = "literal"
  <2>1. t = literal_token(s)
    BY <1>8 DEF parse_token
  <2>2. c = Quote
    BY <1>8, KindValue
  <2>3. Quoted(Quote, s).close # 0 /\ t = Parsed(Quoted(Quote, s).text, Quoted(Quote, s).close)
    BY <1>2, <2>1 DEF literal_token
  <2>4. SpelledBy(kind, t.text, Quote, s, t.read)
    BY <1>8, <2>3, QuoteSpelled
  <2>5. QED
    BY <2>2, <2>4
<1>9. CASE kind = "const_literal"
  <2>1. t = const_literal_token(s)
    BY <1>9 DEF parse_token
  <2>2. c = Apostrophe
    BY <1>9, KindValue
  <2>3. Quoted(Apostrophe, s).close # 0 /\ t = Parsed(Quoted(Apostrophe, s).text, Quoted(Apostrophe, s).close)
    BY <1>2, <2>1 DEF const_literal_token
  <2>4. SpelledBy(kind, t.text, Apostrophe, s, t.read)
    BY <1>9, <2>3, QuoteSpelled
  <2>5. QED
    BY <2>2, <2>4
<1>10. QED
  BY <1>1, <1>3, <1>4, <1>5, <1>6, <1>7, <1>8, <1>9 DEF ClassKinds

SpelledList(objs, list) == [i \in 1 .. Len(list) |-> Spelled(objs[list[i]])]

(* The spellings of the objects that a list refers to.                      *)
LEMMA SpellingTyped ==
  ASSUME NEW objs \in Seq(TokenObject), NEW list \in Seq(Nat),
         \A i \in 1 .. Len(list) : list[i] \in 1 .. Len(objs)
  PROVE  LET ss == SpelledList(objs, list)
         IN /\ Len(list) \in Nat
            /\ ss \in Seq(KeptText) /\ Len(ss) = Len(list)
            /\ \A i \in 1 .. Len(list) : ss[i] = Spelled(objs[list[i]])
            /\ FlattenSeq(ss) \in KeptText
<1> DEFINE n == Len(list)
           ss == SpelledList(objs, list)
<1>1. n \in Nat
  BY LenProperties
<1>2. \A i \in 1 .. n : Spelled(objs[list[i]]) \in KeptText
  <2>1. \A i \in 1 .. n : objs[list[i]] \in TokenObject
    BY ElementOfSeq
  <2>2. QED
    BY <2>1, SpelledTyped
<1>3. /\ ss \in [1 .. n -> KeptText]
      /\ \A i \in 1 .. n : ss[i] = Spelled(objs[list[i]])
  <2> HIDE DEF n
  <2>1. QED
    BY <1>2 DEF SpelledList, n
<1> HIDE DEF ss
<1>5. ss \in Seq(KeptText)
  BY <1>1, <1>3, SeqDef
<1>6. DOMAIN ss = 1 .. n /\ DOMAIN ss = 1 .. Len(ss) /\ Len(ss) \in Nat
  BY <1>3, <1>5, LenProperties
<1>7. Len(ss) = n
  BY <1>1, <1>6
<1>8. FlattenSeq(ss) \in KeptText
  BY <1>5, FlattenTyped DEF KeptText
<1>9. QED
  BY <1>1, <1>3, <1>5, <1>7, <1>8 DEF ss

(* Spelling is those of token_list, flattened.                              *)
LEMMA SpellingListed == Spelling = FlattenSeq(SpelledList(objects, token_list))
BY DEF Spelling, SpelledList

(* A new object listed is spelled after the others. *)
LEMMA SpellingNext ==
  ASSUME TokenizerTypeOK, TokenizerTypeOK', NEW x \in TokenObject, NEW o, o = Len(objects) + 1,
         token_list' = Append(token_list, o), objects'[o] = x,
         \A i \in 1 .. Len(objects) : objects'[i] = objects[i]
  PROVE  Spelling' = Cat(Spelling, Spelled(x))
<1> DEFINE n == Len(token_list)
           new == Append(token_list, o)
           one == Spelled(x)
           ss == SpelledList(objects, token_list)
           listed == SpelledList(objects', token_list')
           more == Append(ss, one)
<1>1. token_list \in Seq(Nat) /\ o \in Nat /\ \A i \in 1 .. n : token_list[i] \in 1 .. Len(objects)
  BY LenProperties DEF TokenizerTypeOK
<1>2. /\ n \in Nat /\ ss \in Seq(KeptText) /\ Len(ss) = n
      /\ \A i \in 1 .. n : ss[i] = Spelled(objects[token_list[i]])
      /\ Spelling = FlattenSeq(ss)
  BY SpellingTyped, SpellingListed DEF TokenizerTypeOK
<1>3. one \in KeptText
  BY SpelledTyped
<1>4. Len(new) = n + 1 /\ new[n + 1] = o /\ \A i \in 1 .. n : new[i] = token_list[i]
  BY <1>1, AppendProperties
<1> HIDE DEF ss, one
<1>5. /\ more \in Seq(KeptText) /\ Len(more) = n + 1 /\ more[n + 1] = one
      /\ \A i \in 1 .. n : more[i] = ss[i]
  BY <1>2, <1>3, AppendProperties
<1>6. /\ listed \in Seq(KeptText) /\ Len(listed) = Len(token_list')
      /\ \A i \in 1 .. Len(token_list') : listed[i] = Spelled(objects'[token_list'[i]])
      /\ Spelling' = FlattenSeq(listed)
  <2>1. /\ objects' \in Seq(TokenObject) /\ token_list' \in Seq(Nat)
        /\ \A i \in 1 .. Len(token_list') : token_list'[i] \in 1 .. Len(objects')
    BY DEF TokenizerTypeOK
  <2>2. Spelling' = FlattenSeq(SpelledList(objects', token_list'))
    BY DEF Spelling, SpelledList, Spelled
  <2> DEFINE objs == objects'
             list == token_list'
  <2>3. objs = objects' /\ list = token_list'
    OBVIOUS
  <2> HIDE DEF objs, list
  <2>4. /\ SpelledList(objs, list) \in Seq(KeptText) /\ Len(SpelledList(objs, list)) = Len(list)
        /\ \A i \in 1 .. Len(list) : SpelledList(objs, list)[i] = Spelled(objs[list[i]])
    BY <2>1, <2>3, SpellingTyped
  <2>5. QED
    BY <2>2, <2>3, <2>4
<1>7. token_list' = new
  OBVIOUS
<1> HIDE DEF new, n, more, listed
<1>8. listed = more
  <2>1. Len(listed) = Len(more)
    BY <1>4, <1>5, <1>6, <1>7
  <2>2. ASSUME NEW i \in 1 .. n + 1 PROVE listed[i] = more[i]
    <3>1. listed[i] = Spelled(objects'[new[i]])
      BY <1>4, <1>6, <1>7
    <3>2. CASE i = n + 1
      BY <1>4, <1>5, <3>1, <3>2 DEF one
    <3>3. CASE i # n + 1
      <4>1. i \in 1 .. n
        BY <1>2, <3>3
      <4>2. new[i] = token_list[i] /\ token_list[i] \in 1 .. Len(objects) /\ more[i] = ss[i]
            /\ ss[i] = Spelled(objects[token_list[i]])
        BY <1>1, <1>2, <1>4, <1>5, <4>1
      <4>3. objects'[token_list[i]] = objects[token_list[i]]
        BY <4>2
      <4>4. QED
        BY <3>1, <4>2, <4>3
    <3>4. QED
      BY <3>2, <3>3
  <2>3. QED
    BY <1>5, <1>6, <2>1, <2>2, SeqEqual DEF KeptText
<1>9. FlattenSeq(more) = Cat(FlattenSeq(ss), one)
  BY <1>2, <1>3, FlattenAppend DEF more, KeptText
<1>10. QED
  BY <1>2, <1>6, <1>8, <1>9 DEF one

(* Concatenation of texts is associative,                                   *)
LEMMA KeptAssociative ==
  ASSUME NEW a \in KeptText, NEW b \in KeptText, NEW c \in KeptText
  PROVE  Cat(Cat(a, b), c) = Cat(a, Cat(b, c))
BY CatAssociative DEF KeptText

(* also of four of them.                                                    *)
LEMMA KeptFour ==
  ASSUME NEW a \in KeptText, NEW b \in KeptText, NEW c \in KeptText, NEW d \in KeptText
  PROVE  /\ Cat(Cat(Cat(a, b), c), d) = Cat(Cat(a, b), Cat(c, d))
         /\ Cat(Cat(a, b), Cat(c, d)) = Cat(Cat(a, Cat(b, c)), d)
<1> DEFINE ab == Cat(a, b)
<1>1. ab \in KeptText
  BY KeptCat
<1>2. Cat(ab, c) = Cat(a, Cat(b, c))
  BY KeptAssociative
<1> HIDE DEF ab
<1>3. Cat(Cat(ab, c), d) = Cat(ab, Cat(c, d))
  BY <1>1, KeptAssociative
<1>4. QED
  BY <1>2, <1>3 DEF ab

(* The blanks of three texts.                                               *)
LEMMA UnblankedThree ==
  ASSUME NEW a \in KeptText, NEW b \in KeptText, NEW c \in KeptText
  PROVE  /\ Unblanked(Cat(Cat(a, b), c)) = Cat(Cat(Unblanked(a), Unblanked(b)), Unblanked(c))
         /\ Cat(a, b) \in KeptText
<1> DEFINE ab == Cat(a, b)
<1>1. ab \in KeptText /\ Unblanked(ab) = Cat(Unblanked(a), Unblanked(b))
  BY KeptCat, UnblankedCat
<1> HIDE DEF ab
<1>2. Unblanked(Cat(ab, c)) = Cat(Unblanked(ab), Unblanked(c))
  BY <1>1, UnblankedCat
<1>3. QED
  BY <1>1, <1>2 DEF ab

(* What is listed, what is read ahead and what is left, without their blanks. *)
Moved(said, one, front, back, next, left) ==
  /\ said \in KeptText /\ one \in KeptText /\ front \in KeptText /\ back \in KeptText
  /\ next \in KeptText /\ left \in KeptText
  /\ Unblanked(said) = Unblanked(Cat(one, front))
  /\ Unblanked(Cat(next, left)) = Unblanked(back)

(* Characters move from the stream to the list: what is said is the same but*)
(* for its blanks.                                                          *)
LEMMA UnblankedMoved ==
  ASSUME NEW a \in KeptText, NEW said, NEW one, NEW front, NEW back, NEW next, NEW left,
         Moved(said, one, front, back, next, left)
  PROVE  Unblanked(Cat(Cat(Cat(a, said), next), left)) = Unblanked(Cat(Cat(a, one), Cat(front, back)))
<1>1. /\ said \in KeptText /\ one \in KeptText /\ front \in KeptText /\ back \in KeptText
      /\ next \in KeptText /\ left \in KeptText
  BY DEF Moved
<1>2. Unblanked(said) = Unblanked(Cat(one, front)) /\ Unblanked(Cat(next, left)) = Unblanked(back)
  BY DEF Moved
<1>3. Cat(next, left) \in KeptText /\ Cat(one, front) \in KeptText
  BY <1>1, KeptCat
<1>4. Cat(Cat(Cat(a, said), next), left) = Cat(Cat(a, said), Cat(next, left))
  BY <1>1, KeptFour
<1>5. Cat(Cat(a, one), Cat(front, back)) = Cat(Cat(a, Cat(one, front)), back)
  BY <1>1, KeptFour
<1> DEFINE nl == Cat(next, left)
           wf == Cat(one, front)
<1>6. nl \in KeptText /\ wf \in KeptText /\ Unblanked(said) = Unblanked(wf) /\ Unblanked(nl) = Unblanked(back)
  BY <1>2, <1>3
<1> HIDE DEF nl, wf
<1>7. Unblanked(Cat(Cat(a, said), nl)) = Cat(Cat(Unblanked(a), Unblanked(said)), Unblanked(nl))
  BY <1>1, <1>6, UnblankedThree
<1>8. Unblanked(Cat(Cat(a, wf), back)) = Cat(Cat(Unblanked(a), Unblanked(wf)), Unblanked(back))
  BY <1>1, <1>6, UnblankedThree
<1>9. QED
  BY <1>4, <1>5, <1>6, <1>7, <1>8 DEF nl, wf

Said == Cat(Cat(Spelling, <<input_char>>), rest)
Plain(s) == ~Comments(s) /\ ~Has(s, {Backslash, "other"})

(* TokensSpellSource, with its concatenations under a name.                 *)
LEMMA SaidSpells ==
  TokensSpellSource <=> (outcome \in {"tokenising", "printed"} /\ Plain(source) => Unblanked(Said) = Unblanked(source))
BY DEF TokensSpellSource, Said, Plain, Cat

(* A token read moves the characters it spells from the stream to the list.   *)
LEMMA PushSpells ==
  ASSUME TokenizerTypeOK, TokenizerTypeOK', NEW p, NEW t, Token, TokenReads(p, t),
         \A i \in 1 .. Len(rest) : rest[i] # Backslash, t.outcome = "tokenising"
  PROVE  Unblanked(Said') = Unblanked(Said)
<1> DEFINE kind == KindOf(input_char)
           c == input_char
           o == Len(objects) + 1
           x == [kind |-> kind, text |-> t.text]
           said == Spelled(x)
           n == t.read
           front == FirstOf(rest, n)
           back == After(rest, n)
           next == <<Peek(back)>>
           left == After(rest, n + 1)
<1>1. /\ c \in Characters /\ kind \in ClassKinds /\ rest \in Text
      /\ t = parse_token(kind, c, rest) /\ t \in ParsedToken
      /\ objects \in Seq(TokenObject) /\ Classed(objects) /\ o \in 1 .. Len(objects) + 1
      /\ Push(kind, o, t, After(rest, 0), objects)
      /\ token_list' = Append(token_list, o)
  BY DEF TokenReads
<1>2. kind # "none" /\ kind = KindOf(c) /\ o = Len(objects) + 1
  BY <1>1 DEF ClassKinds
<1>3. x \in TokenObject /\ x = [kind |-> kind, text |-> t.text]
  BY <1>1 DEF TokenObject, ParsedToken
<1>4. input_char' = Peek(back) /\ rest' = left
  <2>1. After(rest, 0) = rest
    BY <1>1, AfterNone
  <2>2. QED
    BY <1>1, <2>1 DEF Push
<1> HIDE DEF kind, o
<1>5. SpelledBy(kind, t.text, c, rest, t.read)
  <2> HIDE DEF c
  <2>1. QED
    BY <1>1, <1>2, TokenSpelled
<1>6. n \in 0 .. Len(rest) /\ Unblanked(said) = Unblanked(Cat(<<c>>, front))
  BY <1>5 DEF SpelledBy
<1>7. objects'[o] = x /\ \A i \in 1 .. Len(objects) : i # o => objects'[i] = objects[i]
  <2> HIDE DEF x
  <2>1. QED
    BY <1>1, <1>3, PushTyped
<1> HIDE DEF x
<1>8. Spelling' = Cat(Spelling, said)
  <2>1. Len(objects) \in Nat
    BY <1>1, LenProperties
  <2>2. \A i \in 1 .. Len(objects) : objects'[i] = objects[i]
    BY <1>2, <1>7, <2>1
  <2>3. QED
    BY <1>1, <1>2, <1>3, <1>7, <2>2, SpellingNext
<1> HIDE DEF n
<1>9. n \in Nat
  BY <1>1, <1>6, TextKept
<1>10. next \in KeptText /\ left \in KeptText /\ back \in KeptText /\ Unblanked(Cat(next, left)) = Unblanked(back)
  BY <1>1, <1>9, UnblankedAhead
<1>11. front \in KeptText /\ Cat(front, back) = rest
  <2>1. front \in Text
    BY <1>1, <1>6, FrontTyped DEF Text
  <2>2. back = RestOf(rest, n)
    BY DEF After, RestOf
  <2>3. Cat(FirstOf(rest, n), RestOf(rest, n)) = rest
    BY <1>1, <1>6, FrontBack DEF Text
  <2> HIDE DEF front, back
  <2>4. QED
    BY <2>1, <2>2, <2>3, TextKept DEF front
<1>12. said \in KeptText /\ <<c>> \in KeptText /\ Spelling \in KeptText
  <2>1. said \in KeptText
    BY <1>3, SpelledTyped
  <2>2. <<c>> \in KeptText
    BY <1>1, SingletonSeq DEF KeptText
  <2>3. Spelling \in KeptText
    BY SpellingListed, SpellingTyped DEF TokenizerTypeOK
  <2>4. QED
    BY <2>1, <2>2, <2>3
<1>13. Said' = Cat(Cat(Cat(Spelling, said), next), left)
  BY <1>4, <1>8 DEF Said
<1> DEFINE one == <<c>>
<1>14. Said = Cat(Cat(Spelling, one), Cat(front, back))
  BY <1>11 DEF Said
<1>15. one \in KeptText /\ Unblanked(said) = Unblanked(Cat(one, front))
  BY <1>6, <1>12
<1> DEFINE a == Spelling
<1>16. a \in KeptText /\ Moved(said, one, front, back, next, left)
  BY <1>10, <1>11, <1>12, <1>15 DEF Moved
<1> HIDE DEF said, next, left, front, back, one, a
<1>17. Unblanked(Cat(Cat(Cat(a, said), next), left)) = Unblanked(Cat(Cat(a, one), Cat(front, back)))
  BY <1>16, UnblankedMoved
<1>18. QED
  BY <1>13, <1>14, <1>17 DEF a

(* The two characters that begin a comment are in the source.               *)
LEMMA CommentsRead ==
  ASSUME source \in Text, NEW p, Reading(p), InLineComment \/ InBlockComment
  PROVE  Comments(source)
<1> DEFINE d == Peek(rest)
<1>1. p \in Nat \ {0} /\ Len(source) \in Nat
  BY TextKept DEF Reading
<1>2. input_char = "/" /\ d \in {"/", "*"}
  BY DEF InLineComment, InBlockComment
<1>3. "/" # Eof /\ "*" # Eof
  BY DEF Eof
<1>4. p <= Len(source) /\ source[p] = "/"
  BY <1>2, <1>3, ReadingTyped
<1>5. d = IF p < Len(source) THEN source[p + 1] ELSE Eof
  <2>1. rest = After(source, p) /\ p \in Nat
    BY <1>1 DEF Reading
  <2>2. Peek(After(source, p)) = IF p < Len(source) THEN source[p + 1] ELSE Eof
    BY <2>1, AfterText
  <2>3. QED
    BY <2>1, <2>2
<1> HIDE DEF d
<1>6. p < Len(source) /\ source[p + 1] \in {"/", "*"}
  BY <1>2, <1>3, <1>5
<1>7. p \in 1 .. Len(source) - 1
  BY <1>1, <1>6
<1>8. QED
  BY <1>4, <1>6, <1>7 DEF Comments

(* A source without comments, backslashes and characters of no class has    *)
(* none ahead.                                                              *)
LEMMA PlainRead ==
  ASSUME source \in Text, NEW p, Reading(p), Plain(source)
  PROVE  /\ ~InLineComment /\ ~InBlockComment /\ input_char # "other"
         /\ \A i \in 1 .. Len(rest) : rest[i] # Backslash
<1>1. ~InLineComment /\ ~InBlockComment
  BY CommentsRead DEF Plain
<1>2. ~Has(source, {"other"}) /\ ~Has(source, {Backslash})
  BY DEF Plain, Has
<1>3. p \in Nat /\ Len(source) \in Nat
  BY TextKept DEF Reading
<1>4. /\ Len(rest) = IF p < Len(source) THEN Len(source) - p ELSE 0
      /\ \A i \in 1 .. Len(rest) : rest[i] = source[p + i]
  BY ReadingTyped
<1>5. ASSUME NEW i \in 1 .. Len(rest), rest[i] = Backslash PROVE FALSE
  <2>1. p + i \in 1 .. Len(source) /\ source[p + i] = Backslash
    BY <1>3, <1>4, <1>5
  <2>2. QED
    BY <1>2, <2>1 DEF Has
<1>6. QED
  BY <1>1, <1>2, <1>5, OtherRead

(* Each step spells what it reads.                                          *)
LEMMA SpellsStep ==
  ASSUME TokenizerTypeOK, TokenizerTypeOK', TokensSpellSource, TokenizerNext
  PROVE  TokensSpellSource'
<1> SUFFICES ASSUME outcome' \in {"tokenising", "printed"}, Plain(source')
             PROVE  Unblanked(Said') = Unblanked(source')
  <2>1. TokensSpellSource' <=> (outcome' \in {"tokenising", "printed"} /\ Plain(source')
                                  => Unblanked(Said') = Unblanked(source'))
    BY DEF TokensSpellSource, Said, Plain, Cat
  <2>2. QED
    BY <2>1
<1>1. PICK p : Reading(p)
  BY DEF TokenizerTypeOK
<1>2. source \in Text
  BY DEF TokenizerTypeOK
<1>3. CASE OpenSource
  <2> DEFINE s == source'
             one == <<input_char'>>
             left == rest'
  <2>1. token_list' = <<>>
    BY <1>3 DEF OpenSource, TokenizerTypeOK
  <2>2. Spelling' = <<>>
    <3>1. 1 .. Len(token_list') = {}
      BY <2>1
    <3>2. \A f : [i \in {} |-> f[i]] = <<>>
      OBVIOUS
    <3>3. Spelling' = FlattenSeq(<<>>)
      BY <2>1, <3>1 DEF Spelling
    <3>4. QED
      BY <3>3, FlattenEmpty
  <2>3. s \in Text
    BY DEF TokenizerTypeOK
  <2>4. one = <<Peek(After(s, 0))>> /\ left = After(s, 0 + 1) /\ After(s, 0) = s
    <3>1. After(s, 0) = s
      BY <2>3, AfterNone
    <3>2. 0 + 1 = 1
      OBVIOUS
    <3>3. QED
      BY <1>3, <3>1, <3>2 DEF OpenSource
  <2>5. Said' = Cat(Cat(<<>>, one), left)
    BY <2>2 DEF Said
  <2> HIDE DEF s, one, left
  <2>6. one \in KeptText /\ Unblanked(Cat(one, left)) = Unblanked(s)
    <3> DEFINE k == 0
    <3>1. k \in Nat /\ one = <<Peek(After(s, k))>> /\ left = After(s, k + 1) /\ After(s, k) = s
      BY <2>4
    <3> HIDE DEF k
    <3>2. QED
      BY <2>3, <3>1, UnblankedAhead
  <2>7. Cat(<<>>, one) = one
    BY <2>6, CatEmpty DEF KeptText
  <2>8. QED
    BY <2>5, <2>6, <2>7 DEF s
<1>4. ASSUME source' = source, outcome = "tokenising", Unblanked(Said') = Unblanked(Said)
      PROVE  Unblanked(Said') = Unblanked(source')
  BY <1>4, SaidSpells
<1>5. ASSUME ~OpenSource PROVE source' = source /\ outcome = "tokenising"
  BY <1>5 DEF TokenizerNext, LineComment, CloseBlockComment, UnterminatedComment, Token, StaleToken,
              RejectFirstCharacter, EndOfFile, Push, Tokenising
<1>6. ASSUME ~OpenSource
      PROVE  /\ ~InLineComment /\ ~InBlockComment /\ input_char # "other"
             /\ \A i \in 1 .. Len(rest) : rest[i] # Backslash
  <2>1. Plain(source)
    BY <1>5, <1>6
  <2>2. QED
    BY <1>1, <1>2, <2>1, PlainRead
<1>7. CASE Token /\ ~OpenSource
  <2> DEFINE t == parse_token(KindOf(input_char), input_char, rest)
  <2>1. TokenReads(p, t)
    BY <1>1, <1>7, TokenStepReads
  <2> HIDE DEF t
  <2>2. t \in ParsedToken /\ outcome' = t.outcome
    BY <2>1 DEF TokenReads, Push
  <2>3. t.outcome = "tokenising"
    BY <2>2 DEF ParsedToken
  <2>4. Unblanked(Said') = Unblanked(Said)
    BY <1>6, <1>7, <2>1, <2>3, PushSpells
  <2>5. QED
    BY <1>4, <1>5, <1>7, <2>4
<1>8. CASE EndOfFile /\ ~OpenSource
  <2> DEFINE x == [kind |-> "eof", text |-> <<>>]
             o == Len(objects) + 1
  <2>1. /\ objects' = Append(objects, x) /\ token' = Len(objects') /\ token_list' = Append(token_list, token')
        /\ input_char' = input_char /\ rest' = rest
    BY <1>8 DEF EndOfFile
  <2>2. <<>> \in KeptText
    BY EmptySeq DEF KeptText
  <2>3. x \in TokenObject
    BY <2>2 DEF TokenObject
  <2>4. Spelled(x) = <<>>
    BY <2>2, SpelledValue
  <2> HIDE DEF x
  <2>5. /\ Len(objects') = o /\ objects'[o] = x
        /\ \A i \in 1 .. Len(objects) : objects'[i] = objects[i]
    BY <2>1, <2>3, AppendProperties DEF TokenizerTypeOK
  <2>6. Spelling' = Cat(Spelling, Spelled(x))
    <3>1. token_list' = Append(token_list, o) /\ o = Len(objects) + 1
      BY <2>1, <2>5
    <3> HIDE DEF o
    <3>2. QED
      BY <2>3, <2>5, <3>1, SpellingNext
  <2>7. Spelling \in KeptText
    BY SpellingListed, SpellingTyped DEF TokenizerTypeOK
  <2>8. Spelling' = Spelling
    BY <2>4, <2>6, <2>7, CatEmpty DEF KeptText
  <2>9. Said' = Said
    BY <2>1, <2>8 DEF Said
  <2>10. QED
    BY <1>4, <1>5, <1>8, <2>9
<1>9. CASE (LineComment \/ CloseBlockComment \/ UnterminatedComment) /\ ~OpenSource
  BY <1>6, <1>9 DEF LineComment, CloseBlockComment, UnterminatedComment
<1>10. CASE (StaleToken \/ RejectFirstCharacter) /\ ~OpenSource
  <2>1. input_char = "other"
    <3>1. input_char \in Characters
      BY <1>1, <1>2, <1>10, ReadingTyped DEF StaleToken, RejectFirstCharacter, Tokenising
    <3>2. KindOf(input_char) = "none"
      BY <1>10 DEF StaleToken, RejectFirstCharacter
    <3>3. QED
      BY <3>1, <3>2, KindValue
  <2>2. QED
    BY <1>6, <1>10, <2>1
<1>11. QED
  BY <1>3, <1>7, <1>8, <1>9, <1>10 DEF TokenizerNext

(* For every set of sources: of one without comments, backslashes and       *)
(* characters of no class, the tokens listed and what is still to be read   *)
(* spell the source at each step, and no object is listed twice.            *)
THEOREM TokensAreRead == TokenizerSpec => []TokensRead
<1>1. TokenizerInit => TokensSpellSource
  BY DEF TokenizerInit, TokensSpellSource
<1>2. TokenizerTypeOK /\ TokenizerTypeOK' /\ TokensSpellSource /\ [TokenizerNext]_tokenizerVars => TokensSpellSource'
  <2>1. ASSUME TokensSpellSource, UNCHANGED tokenizerVars PROVE TokensSpellSource'
    BY <2>1 DEF TokensSpellSource, Spelling, Spelled, tokenizerVars
  <2>2. QED
    BY <2>1, SpellsStep
<1>3. TokenizerTypeOK /\ ListedInOrder /\ TokensSpellSource => TokensRead
  BY InOrderShared DEF TokensRead
<1>4. QED
  BY <1>1, <1>2, <1>3, TokenizerTypes, TokensInOrder, PTL DEF TokenizerSpec

-----------------------------------------------------------------------------
(* The tokeniser: the newlines listed are those of the source.              *)

(* The newlines that a comment reads as newlines, at places from p on: every  *)
(* other newline up to the slash that closes it follows a star.               *)
BlockLines(s, p, i, r, D) ==
  /\ r.close \in i + 1 .. Len(s)
  /\ s[r.close] = "/" /\ s[r.close - 1] = "*"
  /\ IsFiniteSet(D) /\ Cardinality(D) = r.eols
  /\ \A d \in D : \E j \in i .. r.close : d = p + j /\ s[j] = Newline
  /\ \A j \in i .. r.close : s[j] = Newline => p + j \in D \/ (j > i /\ s[j - 1] = "*")

(* A newline is neither of the characters that close a comment.             *)
LEMMA NewlineApart == Newline # "*" /\ Newline # "/"
BY Zenon DEF Newline

(* One character more, before those of a comment. *)
LEMMA BlockLinesNext ==
  ASSUME NEW s \in Text, NEW p \in Nat, NEW i \in Nat, NEW r, NEW D, BlockLines(s, p, i + 1, r, D)
  PROVE  /\ s[i] # Newline => BlockLines(s, p, i, r, D)
         /\ s[i] = Newline => BlockLines(s, p, i, [close |-> r.close, eols |-> r.eols + 1], D \union {p + i})
<1> DEFINE c == r.close
           n == r.eols
<1>1. /\ c \in i + 2 .. Len(s) /\ s[c] = "/" /\ s[c - 1] = "*" /\ Len(s) \in Nat
      /\ IsFiniteSet(D) /\ Cardinality(D) = n
      /\ \A d \in D : \E j \in i + 1 .. c : d = p + j /\ s[j] = Newline
      /\ \A j \in i + 1 .. c : s[j] = Newline => p + j \in D \/ (j > i + 1 /\ s[j - 1] = "*")
  BY TextKept DEF BlockLines
<1> HIDE DEF c, n
<1>2. c \in i + 1 .. Len(s) /\ \A j \in i .. c : j = i \/ j \in i + 1 .. c
  BY <1>1
<1>3. \A j \in i + 1 .. c : j \in i .. c /\ j > i
  BY <1>1
<1>4. CASE s[i] # Newline
  <2>1. \A d \in D : \E j \in i .. c : d = p + j /\ s[j] = Newline
    BY <1>1, <1>3
  <2>2. \A j \in i .. c : s[j] = Newline => p + j \in D \/ (j > i /\ s[j - 1] = "*")
    BY <1>1, <1>2, <1>3, <1>4
  <2>3. QED
    BY <1>1, <1>2, <1>4, <2>1, <2>2 DEF BlockLines, c, n
<1>5. CASE s[i] = Newline
  <2> DEFINE E == D \union {p + i}
             x == [close |-> c, eols |-> n + 1]
  <2>1. p + i \notin D
    <3>1. \A d \in D : d # p + i
      <4>1. \A d \in D : \E j \in i + 1 .. c : d = p + j
        BY <1>1
      <4>2. \A j \in i + 1 .. c : p + j # p + i
        BY <1>1
      <4>3. QED
        BY <4>1, <4>2
    <3>2. QED
      BY <3>1
  <2>2. IsFiniteSet(E) /\ Cardinality(E) = n + 1
    BY <1>1, <2>1, FS_AddElement
  <2>3. \A d \in E : \E j \in i .. c : d = p + j /\ s[j] = Newline
    <3>1. i \in i .. c
      BY <1>1
    <3>2. QED
      BY <1>1, <1>3, <1>5, <3>1
  <2>4. \A j \in i .. c : s[j] = Newline => p + j \in E \/ (j > i /\ s[j - 1] = "*")
    <3>1. \A j \in i .. c : j = i => p + j \in E
      OBVIOUS
    <3>2. \A j \in i + 1 .. c : s[j] = Newline => p + j \in E \/ (j > i /\ s[j - 1] = "*")
      BY <1>1, <1>3
    <3> HIDE DEF E
    <3>3. QED
      BY <1>2, <3>1, <3>2
  <2>5. x.close = c /\ x.eols = n + 1
    OBVIOUS
  <2> HIDE DEF E, x
  <2>6. BlockLines(s, p, i, x, E)
    BY <1>1, <1>2, <2>2, <2>3, <2>4, <2>5 DEF BlockLines
  <2>7. QED
    BY <1>5, <2>6 DEF E, x, c, n
<1>6. QED
  BY <1>4, <1>5

(* A star and the character after it, before those of a comment. *)
LEMMA BlockLinesSkip ==
  ASSUME NEW s \in Text, NEW p \in Nat, NEW i \in Nat, NEW r, NEW D, BlockLines(s, p, i + 2, r, D), s[i] = "*"
  PROVE  BlockLines(s, p, i, r, D)
<1> DEFINE c == r.close
           n == r.eols
<1>1. /\ c \in i + 3 .. Len(s) /\ s[c] = "/" /\ s[c - 1] = "*" /\ Len(s) \in Nat
      /\ IsFiniteSet(D) /\ Cardinality(D) = n
      /\ \A d \in D : \E j \in i + 2 .. c : d = p + j /\ s[j] = Newline
      /\ \A j \in i + 2 .. c : s[j] = Newline => p + j \in D \/ (j > i + 2 /\ s[j - 1] = "*")
  <2>1. \A j : j \in i + 2 + 1 .. Len(s) <=> j \in i + 3 .. Len(s)
    OBVIOUS
  <2>2. QED
    BY <2>1, TextKept DEF BlockLines
<1> HIDE DEF c, n
<1>2. c \in i + 1 .. Len(s) /\ \A j \in i .. c : j = i \/ j = i + 1 \/ j \in i + 2 .. c
  BY <1>1
<1>3. \A j \in i + 2 .. c : j \in i .. c /\ j > i
  BY <1>1
<1>4. \A d \in D : \E j \in i .. c : d = p + j /\ s[j] = Newline
  BY <1>1, <1>3
<1>5. \A j \in i .. c : s[j] = Newline => p + j \in D \/ (j > i /\ s[j - 1] = "*")
  <2>1. s[i] # Newline
    BY NewlineApart
  <2>2. \A j : j = i + 1 => j > i /\ s[j - 1] = "*"
    OBVIOUS
  <2>3. QED
    BY <1>1, <1>2, <1>3, <2>1, <2>2
<1>6. QED
  BY <1>1, <1>2, <1>4, <1>5 DEF BlockLines, c, n

(* The two characters that close a comment. *)
LEMMA BlockLinesEnd ==
  ASSUME NEW s \in Text, NEW p \in Nat, NEW i \in 1 .. Len(s), s[i] = "*", Peek(After(s, i)) = "/"
  PROVE  BlockLines(s, p, i, [close |-> i + 1, eols |-> 0], {})
<1>1. Len(s) \in Nat /\ i \in Nat
  BY TextKept
<1>2. "/" # Eof
  BY DEF Eof
<1>3. i < Len(s) /\ s[i + 1] = "/"
  BY <1>1, <1>2, AfterText
<1> DEFINE x == [close |-> i + 1, eols |-> 0]
<1>4. x.close = i + 1 /\ x.eols = 0
  OBVIOUS
<1>5. i + 1 \in i + 1 .. Len(s) /\ i + 1 - 1 = i
  BY <1>1, <1>3
<1>6. \A j \in i .. i + 1 : s[j] # Newline
  <2>1. \A j \in i .. i + 1 : j = i \/ j = i + 1
    BY <1>1
  <2>2. QED
    BY <1>3, <2>1, NewlineApart
<1>7. IsFiniteSet({}) /\ Cardinality({}) = 0
  BY FS_EmptySet
<1> HIDE DEF x
<1>8. BlockLines(s, p, i, x, {})
  BY <1>3, <1>4, <1>5, <1>6, <1>7 DEF BlockLines
<1>9. QED
  BY <1>8 DEF x

(* The newlines of a comment that is closed: by descent over its characters.*)
LEMMA BlockRead ==
  ASSUME NEW s \in Text, NEW p \in Nat, BlockComment(s).close # 0
  PROVE  \E D : BlockLines(s, p, 1, BlockComment(s), D)
<1> DEFINE n == Len(s)
<1>1. n \in Nat
  BY TextKept
<1>2. PICK f \in [1 .. n + 2 -> CommentRead] :
         (\A i \in 1 .. n + 2 : f[i] = CommentAt(s, f, i)) /\ BlockComment(s) = f[1]
  BY CommentRecursion
<1> DEFINE Right(i) == f[i].close = 0 \/ \E D : BlockLines(s, p, i, f[i], D)
           P == {i \in 1 .. n + 2 : Right(i)}
<1>3. ASSUME NEW i \in 1 .. n + 2, i > n PROVE Right(i)
  <2>1. f[i] = [close |-> 0, eols |-> 0]
    BY <1>2, <1>3 DEF CommentAt
  <2>2. QED
    BY <2>1
<1>4. ASSUME NEW i \in 1 .. n, Right(i + 1), Right(i + 2) PROVE Right(i)
  <2>1. /\ i \in 1 .. n + 2 /\ i + 1 \in 1 .. n + 2 /\ i + 2 \in 1 .. n + 2
        /\ ~(i > n) /\ i \in Nat
    BY <1>1
  <2>2. f[i] = CommentAt(s, f, i) /\ f[i + 1] \in CommentRead
    BY <1>2, <2>1
  <2>3. CASE s[i] = Newline
    <3> DEFINE r == f[i + 1]
               x == [close |-> r.close, eols |-> r.eols + 1]
    <3>1. f[i] = [r EXCEPT !.eols = @ + 1]
      BY <2>1, <2>2, <2>3 DEF CommentAt
    <3>2. r \in CommentRead
      BY <2>2
    <3> HIDE DEF r
    <3>3. f[i] = x
      BY <3>1, <3>2 DEF CommentRead
    <3>4. x.close = r.close
      OBVIOUS
    <3>5. CASE r.close = 0
      BY <3>3, <3>4, <3>5
    <3>6. CASE r.close # 0
      <4>1. PICK D : BlockLines(s, p, i + 1, r, D)
        BY <1>4, <3>6 DEF r
      <4>2. BlockLines(s, p, i, x, D \union {p + i})
        BY <2>1, <2>3, <4>1, BlockLinesNext
      <4> HIDE DEF x
      <4>3. QED
        BY <3>3, <4>2
    <3>7. QED
      BY <3>5, <3>6
  <2>4. CASE s[i] # Newline /\ s[i] # "*"
    <3>1. f[i] = f[i + 1]
      BY <2>1, <2>2, <2>4 DEF CommentAt
    <3>2. CASE f[i + 1].close = 0
      BY <3>1, <3>2
    <3>3. CASE f[i + 1].close # 0
      <4>1. PICK D : BlockLines(s, p, i + 1, f[i + 1], D)
        BY <1>4, <3>3
      <4>2. BlockLines(s, p, i, f[i + 1], D)
        BY <2>1, <2>4, <4>1, BlockLinesNext
      <4>3. QED
        BY <3>1, <4>2
    <3>4. QED
      BY <3>2, <3>3
  <2>5. CASE s[i] = "*" /\ Peek(After(s, i)) = "/"
    <3> DEFINE x == [close |-> i + 1, eols |-> 0]
    <3>1. f[i] = x
      BY <2>1, <2>2, <2>5, NewlineApart DEF CommentAt
    <3>2. BlockLines(s, p, i, x, {})
      BY <2>5, BlockLinesEnd
    <3> HIDE DEF x
    <3>3. QED
      BY <3>1, <3>2
  <2>6. CASE s[i] = "*" /\ Peek(After(s, i)) # "/"
    <3>1. f[i] = f[i + 2]
      BY <2>1, <2>2, <2>6, NewlineApart DEF CommentAt
    <3>2. CASE f[i + 2].close = 0
      BY <3>1, <3>2
    <3>3. CASE f[i + 2].close # 0
      <4>1. PICK D : BlockLines(s, p, i + 2, f[i + 2], D)
        BY <1>4, <3>3
      <4>2. BlockLines(s, p, i, f[i + 2], D)
        BY <2>1, <2>6, <4>1, BlockLinesSkip
      <4>3. QED
        BY <3>1, <4>2
    <3>4. QED
      BY <3>2, <3>3
  <2>7. QED
    BY <2>3, <2>4, <2>5, <2>6
<1>5. EndsIn(n, P)
  <2> HIDE DEF Right
  <2>1. QED
    BY <1>3 DEF EndsIn
<1>6. Backward(n, P)
  <2> HIDE DEF Right
  <2>1. \A i \in 1 .. n : i \in 1 .. n + 2
    BY <1>1
  <2>2. QED
    BY <1>4, <2>1 DEF Backward
<1>7. 1 \in P
  <2> HIDE DEF P, n
  <2>1. \A i \in 1 .. n + 2 : i \in P
    BY <1>1, <1>5, <1>6, DescendingHolds
  <2>2. 1 \in 1 .. n + 2
    BY <1>1
  <2>3. QED
    BY <2>1, <2>2
<1>8. Right(1)
  BY <1>7
<1>9. QED
  BY <1>2, <1>8

(* The characters that a token other than a newline or a quoted text reads.   *)
LEMMA QuietRead ==
  ASSUME NEW c \in Characters, NEW kind, kind = KindOf(c), kind \in ClassKinds,
         kind \notin {"eol", "literal", "const_literal"},
         NEW s \in Text, NEW t, t = parse_token(kind, c, s)
  PROVE  t.read \in 0 .. Len(s) /\ \A i \in 1 .. t.read : s[i] # Newline
<1>1. Newline \notin Letters \union Digits /\ Newline \notin Blank
  BY Zenon DEF Newline, Letters, Digits, Blank
<1>2. CASE kind = "symbol"
  <2> DEFINE n == Run(s, Letters \union Digits)
             x == <<c>> \o SubSeq(s, 1, n)
  <2>1. n \in 0 .. Len(s) /\ \A i \in 1 .. n : s[i] \in Letters \union Digits
    BY RunRead
  <2>2. t = Parsed(x, n)
    BY <1>2 DEF parse_token, symbol_token
  <2> HIDE DEF n, x
  <2>3. t.read = n
    BY <2>2 DEF Parsed
  <2>4. QED
    BY <1>1, <2>1, <2>3
<1>3. CASE kind = "integer"
  <2> DEFINE n == IntegerLength(c, s)
             x == <<c>> \o SubSeq(s, 1, n)
  <2>1. n \in 0 .. Len(s) /\ \A i \in 1 .. n : s[i] \in Letters \union Digits
    BY IntegerRead
  <2>2. t = Parsed(x, n)
    BY <1>3 DEF parse_token, integer_token
  <2> HIDE DEF n, x
  <2>3. t.read = n
    BY <2>2 DEF Parsed
  <2>4. QED
    BY <1>1, <2>1, <2>3
<1>4. CASE kind = "punctuation"
  <2> DEFINE n == PunctuationLength(c, s)
             x == <<c>> \o SubSeq(s, 1, n)
  <2>1. n \in 0 .. Len(s) /\ \A i \in 1 .. n : s[i] \in FollowSigns
    BY PunctuationRead
  <2>2. t = Parsed(x, n)
    BY <1>4 DEF parse_token, punctuation_token
  <2> HIDE DEF n, x
  <2>3. t.read = n
    BY <2>2 DEF Parsed
  <2>4. Newline \notin FollowSigns
    BY FollowApart
  <2>5. QED
    BY <2>1, <2>3, <2>4
<1>5. CASE kind = "whitespace"
  <2> DEFINE n == Run(s, Blank)
  <2>1. n \in 0 .. Len(s) /\ \A i \in 1 .. n : s[i] \in Blank
    BY RunRead
  <2>2. t = Parsed(<<>>, n)
    BY <1>5 DEF parse_token, whitespace_token
  <2> HIDE DEF n
  <2>3. t.read = n
    BY <2>2 DEF Parsed
  <2>4. QED
    BY <1>1, <2>1, <2>3
<1>6. QED
  BY <1>2, <1>3, <1>4, <1>5 DEF ClassKinds

(* No newline is among the blanks that are read together.                   *)
LEMMA BlanksRead ==
  ASSUME NEW s \in Text, NEW t, t = whitespace_token(s)
  PROVE  t.read \in 0 .. Len(s) /\ \A i \in 1 .. t.read : s[i] # Newline
<1> DEFINE n == Run(s, Blank)
<1>1. n \in 0 .. Len(s) /\ \A i \in 1 .. n : s[i] \in Blank
  BY RunRead
<1>2. t = Parsed(<<>>, n)
  BY DEF whitespace_token
<1> HIDE DEF n
<1>3. t.read = n
  BY <1>2 DEF Parsed
<1>4. Newline \notin Blank
  BY Zenon DEF Newline, Blank
<1>5. QED
  BY <1>1, <1>3, <1>4

(* The newline objects, and those of one object more.                         *)
EolsOf(objs) == {i \in 1 .. Len(objs) : objs[i].kind = "eol"}

(* The newline objects can be counted.                                      *)
LEMMA EolsFinite ==
  ASSUME NEW S, NEW objs \in Seq(S)
  PROVE  IsFiniteSet(EolsOf(objs)) /\ Cardinality(EolsOf(objs)) \in Nat
<1>1. Len(objs) \in Nat
  BY LenProperties
<1>2. IsFiniteSet(1 .. Len(objs))
  BY <1>1, FS_Interval
<1>3. EolsOf(objs) \in SUBSET (1 .. Len(objs))
  BY DEF EolsOf
<1>4. IsFiniteSet(EolsOf(objs))
  BY <1>2, <1>3, FS_Subset
<1>5. QED
  BY <1>4, FS_CardinalityType

(* k newlines more, and one object more of another kind or a newline too.     *)
LEMMA EolsNext ==
  ASSUME NEW S, NEW objs \in Seq(S), NEW new, NEW k \in Nat,
         Len(new) = Len(objs) + k + 1,
         \A i \in 1 .. Len(objs) : new[i] = objs[i],
         \A i \in 1 .. k : new[Len(objs) + i].kind = "eol"
  PROVE  Cardinality(EolsOf(new)) = Cardinality(EolsOf(objs)) + k
                                      + IF new[Len(objs) + k + 1].kind = "eol" THEN 1 ELSE 0
<1> DEFINE n == Len(objs)
           A == EolsOf(objs)
           B == n + 1 .. n + k
           o == n + k + 1
           C == A \union B
<1>1. n \in Nat /\ n + 1 \in Int /\ n + k \in Int /\ o \in Int
  BY LenProperties
<1>2. IsFiniteSet(A) /\ Cardinality(A) \in Nat
  BY EolsFinite
<1>3. IsFiniteSet(B) /\ Cardinality(B) = k
  <2> DEFINE lo == n + 1
             hi == n + k
  <2>1. lo \in Int /\ hi \in Int /\ (IF lo > hi THEN 0 ELSE hi - lo + 1) = k /\ B = lo .. hi
    BY <1>1
  <2> HIDE DEF lo, hi
  <2>2. IsFiniteSet(lo .. hi) /\ Cardinality(lo .. hi) = IF lo > hi THEN 0 ELSE hi - lo + 1
    BY <2>1, FS_Interval
  <2>3. QED
    BY <2>1, <2>2
<1>4. A \subseteq 1 .. n
  BY DEF EolsOf
<1>5. A \cap B = {} /\ o \notin C
  BY <1>1, <1>4
<1> HIDE DEF B
<1>6. IsFiniteSet(C) /\ Cardinality(C) = Cardinality(A) + k
  <2>1. IsFiniteSet(C) /\ Cardinality(C) = Cardinality(A) + Cardinality(B) - Cardinality(A \cap B)
    BY <1>2, <1>3, FS_Union
  <2>2. Cardinality(A \cap B) = 0
    BY <1>5, FS_EmptySet
  <2>3. QED
    BY <1>2, <1>3, <2>1, <2>2
<1>7. \A i \in 1 .. o - 1 : i \in EolsOf(new) <=> i \in C
  <2>1. ASSUME NEW i \in 1 .. o - 1 PROVE i \in EolsOf(new) <=> i \in C
    <3>1. i \in 1 .. o
      BY <1>1
    <3>2. i \in EolsOf(new) <=> new[i].kind = "eol"
      BY <3>1 DEF EolsOf
    <3>3. CASE i <= n
      <4>1. i \in 1 .. n /\ i \notin B
        BY <1>1, <3>3 DEF B
      <4>2. i \in A <=> objs[i].kind = "eol"
        BY <4>1 DEF EolsOf
      <4>3. QED
        BY <3>2, <4>1, <4>2
    <3>4. CASE ~(i <= n)
      <4> DEFINE j == i - n
      <4>1. j \in 1 .. k /\ n + j = i /\ i \in B
        BY <1>1, <3>4 DEF B
      <4> HIDE DEF j
      <4>2. new[n + j].kind = "eol"
        BY <4>1
      <4>3. QED
        BY <3>2, <4>1, <4>2
    <3>5. QED
      BY <3>3, <3>4
  <2>2. QED
    BY <2>1
<1>8. C \subseteq 1 .. o - 1
  BY <1>1, <1>4 DEF B
<1>9. EolsOf(new) \subseteq 1 .. o /\ (o \in EolsOf(new) <=> new[o].kind = "eol")
  <2>1. o \in 1 .. o
    BY <1>1
  <2>2. QED
    BY <2>1 DEF EolsOf
<1>10. \A i \in 1 .. o : i = o \/ i \in 1 .. o - 1
  BY <1>1
<1> HIDE DEF A, C, o
<1>11. CASE new[o].kind = "eol"
  <2>1. EolsOf(new) = C \union {o}
    BY <1>7, <1>8, <1>9, <1>10, <1>11
  <2>2. Cardinality(C \union {o}) = Cardinality(C) + 1
    BY <1>5, <1>6, FS_AddElement
  <2>3. QED
    BY <1>2, <1>6, <1>11, <2>1, <2>2 DEF A, o
<1>12. CASE new[o].kind # "eol"
  <2>1. EolsOf(new) = C
    BY <1>7, <1>8, <1>9, <1>10, <1>12
  <2>2. QED
    BY <1>2, <1>6, <1>12, <2>1 DEF A, o
<1>13. QED
  BY <1>11, <1>12

(* n newlines are listed for the characters before the place p: those of C;   *)
(* one more at the end of the source at most, and the others are at a star.   *)
Counted(s, p, C, n) ==
  /\ C \subseteq {i \in Newlines(s) : i < p}
  /\ \A i \in Newlines(s) : i < p => i \in C \union NewlinesAtStar(s)
  /\ n = Cardinality(C) \/ (n = Cardinality(C) + 1 /\ ~(p <= Len(s)))

(* The newlines from p to q: k of D, and one more at the end at most.         *)
CountedFrom(s, p, q, D, k) ==
  /\ D \subseteq {i \in Newlines(s) : p <= i /\ i < q} /\ Cardinality(D) = k
  /\ \A i \in Newlines(s) : p <= i /\ i < q => i \in D \union NewlinesAtStar(s)

(* So can the newlines of a source.                                         *)
LEMMA NewlinesFinite ==
  ASSUME NEW s \in Text
  PROVE  /\ Len(s) \in Nat /\ Newlines(s) \subseteq 1 .. Len(s) /\ NewlinesAtStar(s) \subseteq Newlines(s)
         /\ \A C : C \subseteq Newlines(s) => IsFiniteSet(C) /\ Cardinality(C) \in Nat
<1>1. Len(s) \in Nat
  BY TextKept
<1>2. Newlines(s) \subseteq 1 .. Len(s) /\ NewlinesAtStar(s) \subseteq Newlines(s)
  BY DEF Newlines, NewlinesAtStar
<1>3. IsFiniteSet(1 .. Len(s))
  BY <1>1, FS_Interval
<1>4. ASSUME NEW C, C \subseteq Newlines(s) PROVE IsFiniteSet(C) /\ Cardinality(C) \in Nat
  <2>1. C \in SUBSET (1 .. Len(s))
    BY <1>2, <1>4
  <2>2. IsFiniteSet(C)
    BY <1>3, <2>1, FS_Subset
  <2>3. QED
    BY <2>2, FS_CardinalityType
<1>5. QED
  BY <1>1, <1>2, <1>4

(* The newlines up to p, and those from p to q.                             *)
LEMMA CountedMore ==
  ASSUME NEW s \in Text, NEW p \in Nat, NEW q \in Nat, p < q, p <= Len(s),
         NEW C, NEW n, Counted(s, p, C, n), NEW D, NEW k, CountedFrom(s, p, q, D, k),
         NEW m, m = n + k \/ (m = n + k + 1 /\ ~(q <= Len(s)))
  PROVE  Counted(s, q, C \union D, m)
<1>1. /\ Len(s) \in Nat /\ Newlines(s) \subseteq 1 .. Len(s)
      /\ \A E : E \subseteq Newlines(s) => IsFiniteSet(E) /\ Cardinality(E) \in Nat
  BY NewlinesFinite
<1>2. /\ C \subseteq {i \in Newlines(s) : i < p}
      /\ \A i \in Newlines(s) : i < p => i \in C \union NewlinesAtStar(s)
      /\ n = Cardinality(C)
  BY DEF Counted
<1>3. /\ D \subseteq {i \in Newlines(s) : p <= i /\ i < q} /\ Cardinality(D) = k
      /\ \A i \in Newlines(s) : p <= i /\ i < q => i \in D \union NewlinesAtStar(s)
  BY DEF CountedFrom
<1>4. IsFiniteSet(C) /\ IsFiniteSet(D) /\ Cardinality(C) \in Nat /\ Cardinality(D) \in Nat
  <2>1. C \subseteq Newlines(s) /\ D \subseteq Newlines(s)
    BY <1>2, <1>3
  <2>2. QED
    BY <1>1, <2>1
<1>5. \A i \in Newlines(s) : i \in Nat
  BY <1>1
<1>6. C \cap D = {}
  BY <1>2, <1>3, <1>5
<1>7. Cardinality(C \union D) = n + k
  <2>1. Cardinality(C \union D) = Cardinality(C) + Cardinality(D) - Cardinality(C \cap D)
    BY <1>4, FS_Union
  <2>2. Cardinality(C \cap D) = 0
    BY <1>6, FS_EmptySet
  <2>3. QED
    BY <1>2, <1>3, <1>4, <2>1, <2>2
<1>8. C \union D \subseteq {i \in Newlines(s) : i < q}
  BY <1>2, <1>3, <1>5
<1>9. \A i \in Newlines(s) : i < q => i \in (C \union D) \union NewlinesAtStar(s)
  <2>1. \A i \in Newlines(s) : i < p \/ p <= i
    BY <1>5
  <2>2. QED
    BY <1>2, <1>3, <2>1
<1>10. QED
  BY <1>7, <1>8, <1>9 DEF Counted

(* None is read between p and q.                                            *)
LEMMA CountedNone ==
  ASSUME NEW s \in Text, NEW p \in Nat, NEW q \in Nat,
         \A i \in p .. q - 1 : i <= Len(s) => s[i] # Newline
  PROVE  CountedFrom(s, p, q, {}, 0)
<1>1. Len(s) \in Nat /\ Newlines(s) \subseteq 1 .. Len(s) /\ \A i \in Newlines(s) : s[i] = Newline
  BY NewlinesFinite DEF Newlines
<1>2. \A i \in Newlines(s) : ~(p <= i /\ i < q)
  <2>1. ASSUME NEW i \in Newlines(s), p <= i, i < q PROVE FALSE
    <3>1. i \in p .. q - 1 /\ i <= Len(s) /\ s[i] = Newline
      BY <1>1, <2>1
    <3>2. QED
      BY <3>1
  <2>2. QED
    BY <2>1
<1>3. QED
  BY <1>2, FS_EmptySet DEF CountedFrom

(* One is, the last character before q.                                     *)
LEMMA CountedOne ==
  ASSUME NEW s \in Text, NEW p \in Nat, NEW l \in 1 .. Len(s), p <= l, s[l] = Newline,
         \A i \in p .. l - 1 : s[i] # Newline
  PROVE  CountedFrom(s, p, l + 1, {l}, 1)
<1>1. Len(s) \in Nat /\ Newlines(s) \subseteq 1 .. Len(s) /\ \A i \in Newlines(s) : s[i] = Newline
  BY NewlinesFinite DEF Newlines
<1>2. l \in Newlines(s) /\ l < l + 1 /\ l \in Nat
  BY <1>1 DEF Newlines
<1>3. ASSUME NEW i \in Newlines(s), p <= i, i < l + 1 PROVE i = l
  <2>1. i = l \/ i \in p .. l - 1
    BY <1>1, <1>3
  <2>2. QED
    BY <1>1, <2>1
<1>4. Cardinality({l}) = 1
  BY FS_Singleton
<1>5. QED
  BY <1>2, <1>3, <1>4 DEF CountedFrom

(* A comment, the character after it and the blanks that follow.              *)
LEMMA CountedBlock ==
  ASSUME source \in Text, NEW p, Reading(p), p <= Len(source), source[p] # Newline,
         NEW c, NEW D, BlockLines(rest, p, 1, c, D), NEW r \in Nat,
         \A i \in 1 .. r : p + c.close + 1 + i <= Len(source) => source[p + c.close + 1 + i] # Newline
  PROVE  CountedFrom(source, p, p + c.close + 1 + r + 1, D, c.eols)
<1> DEFINE close == c.close
           q == p + close + 1 + r + 1
           k == c.eols
           s == source
<1>1. p \in Nat /\ p > 0 /\ Len(s) \in Nat /\ Newlines(s) \subseteq 1 .. Len(s)
      /\ \A i \in Newlines(s) : s[i] = Newline
  BY NewlinesFinite DEF Reading, Newlines
<1>2. /\ rest \in Text /\ Len(rest) = IF p < Len(s) THEN Len(s) - p ELSE 0
      /\ \A i \in 1 .. Len(rest) : rest[i] = s[p + i]
  BY ReadingTyped
<1>3. /\ close \in 2 .. Len(rest) /\ rest[close] = "/" /\ rest[close - 1] = "*"
      /\ Cardinality(D) = k
      /\ \A d \in D : \E j \in 1 .. close : d = p + j /\ rest[j] = Newline
      /\ \A j \in 1 .. close : rest[j] = Newline => p + j \in D \/ (j > 1 /\ rest[j - 1] = "*")
  <2>1. 1 + 1 = 2
    OBVIOUS
  <2>2. QED
    BY <2>1 DEF BlockLines
<1> HIDE DEF k, close
<1>4. Len(rest) \in Nat /\ close \in Nat /\ p + Len(rest) <= Len(s) /\ \A j \in 1 .. close : j \in 1 .. Len(rest)
  BY <1>1, <1>2, <1>3
<1>5. D \subseteq {i \in Newlines(s) : p <= i /\ i < q}
  <2>1. ASSUME NEW d \in D PROVE d \in Newlines(s) /\ p <= d /\ d < q
    <3>1. PICK j \in 1 .. close : d = p + j /\ rest[j] = Newline
      BY <1>3
    <3>2. d \in 1 .. Len(s) /\ p <= d /\ d < q
      BY <1>1, <1>4, <3>1
    <3>3. s[d] = Newline
      BY <1>2, <1>4, <3>1
    <3>4. QED
      BY <3>2, <3>3 DEF Newlines
  <2>2. QED
    BY <2>1
<1>6. ASSUME NEW i \in Newlines(s), p <= i, i < q PROVE i \in D \union NewlinesAtStar(s)
  <2>1. i \in 1 .. Len(s) /\ s[i] = Newline
    BY <1>1
  <2>2. i # p
    BY <2>1
  <2> DEFINE j == i - p
  <2>3. j \in Nat /\ p + j = i /\ j > 0
    BY <1>1, <1>6, <2>1, <2>2
  <2>4. CASE j <= close
    <3>1. j \in 1 .. close
      BY <1>4, <2>3, <2>4
    <3>2. rest[j] = Newline
      BY <1>2, <1>4, <2>1, <2>3, <3>1
    <3>3. CASE p + j \in D
      BY <2>3, <3>3
    <3>4. CASE p + j \notin D
      <4>1. j > 1 /\ rest[j - 1] = "*"
        BY <1>3, <3>1, <3>2, <3>4
      <4> DEFINE h == j - 1
      <4>2. h \in 1 .. Len(rest) /\ rest[h] = "*" /\ p + h = i - 1
        BY <1>1, <1>4, <2>1, <2>3, <3>1, <4>1
      <4> HIDE DEF h, j
      <4>3. s[i - 1] = "*"
        BY <1>2, <4>2
      <4>4. i > 1
        BY <1>1, <2>1, <2>3, <4>1
      <4>5. QED
        BY <4>3, <4>4 DEF NewlinesAtStar
    <3>5. QED
      BY <3>3, <3>4
  <2>5. CASE j = close + 1
    <3> DEFINE h == close - 1
    <3>1. h \in 1 .. Len(rest) /\ close \in 1 .. Len(rest) /\ p + close = i - 1 /\ p + h = i - 2 /\ i > 2
      BY <1>1, <1>3, <1>4, <2>3, <2>5
    <3>2. rest[h] = "*"
      BY <1>3
    <3> HIDE DEF h, j
    <3>3. s[i - 1] = "/" /\ s[i - 2] = "*"
      BY <1>2, <1>3, <3>1, <3>2
    <3>4. QED
      BY <3>1, <3>3 DEF NewlinesAtStar
  <2>6. CASE j > close + 1
    <3> DEFINE h == j - (close + 1)
    <3>1. h \in 1 .. r /\ p + close + 1 + h = i /\ i <= Len(s)
      BY <1>1, <1>4, <1>6, <2>1, <2>3, <2>6
    <3> HIDE DEF h, j
    <3>2. s[i] # Newline
      BY <3>1 DEF close
    <3>3. QED
      BY <2>1, <3>2
  <2>7. QED
    BY <1>4, <2>3, <2>4, <2>5, <2>6
<1>7. QED
  BY <1>3, <1>5, <1>6 DEF CountedFrom, k, close

Unquoted(s) == ~Has(s, {Quote, Apostrophe, "other"})

(* The newlines of the source that were read are those that are listed.       *)
LinesCounted ==
  outcome \in {"tokenising", "printed"} /\ Unquoted(source) =>
     /\ \E p, C : Reading(p) /\ Counted(source, p, C, Cardinality(EolsOf(objects)))
     /\ outcome = "printed" => input_char = Eof

(* No quote and no character of no class is read of a source without them.  *)
LEMMA UnquotedRead ==
  ASSUME source \in Text, NEW p, Reading(p), Unquoted(source)
  PROVE  input_char \notin {Quote, Apostrophe, "other"}
<1>1. p \in Nat \ {0} /\ Len(source) \in Nat
  BY TextKept DEF Reading
<1>2. Quote # Eof /\ Apostrophe # Eof /\ "other" # Eof
  BY Zenon DEF Quote, Apostrophe, Eof
<1>3. ASSUME input_char \in {Quote, Apostrophe, "other"} PROVE FALSE
  <2>1. p <= Len(source) /\ source[p] = input_char
    BY <1>2, <1>3, ReadingTyped
  <2>2. p \in 1 .. Len(source)
    BY <1>1, <2>1
  <2>3. QED
    BY <1>3, <2>1, <2>2 DEF Has, Unquoted
<1>4. QED
  BY <1>3

(* A step that counts the newlines it reads keeps LinesCounted.             *)
LEMMA LinesNext ==
  ASSUME NEW q, ReadingNext(q), NEW C, Counted(source', q, C, Cardinality(EolsOf(objects'))),
         outcome' # "printed"
  PROVE  LinesCounted'
<1>1. /\ input_char' = Peek(After(source', q - 1)) /\ rest' = After(source', q) /\ q \in Nat \ {0}
  BY DEF ReadingNext
<1>2. Reading(q)'
  BY <1>1 DEF Reading
<1>3. Counted(source, q, C, Cardinality(EolsOf(objects)))'
  BY DEF Counted, EolsOf, Newlines, NewlinesAtStar
<1>4. QED
  BY <1>2, <1>3 DEF LinesCounted

(* Where input_char stands when a token is parsed.                            *)
LEMMA PlaceRead ==
  ASSUME source \in Text, NEW p, Reading(p), Tokenising
  PROVE  /\ p \in Nat /\ p > 0 /\ Len(source) \in Nat /\ p <= Len(source) /\ source[p] = input_char
         /\ input_char \in Characters /\ rest \in Text /\ Len(rest) = Len(source) - p
         /\ \A i \in 1 .. Len(rest) : rest[i] = source[p + i]
<1>1. p \in Nat /\ p > 0 /\ Len(source) \in Nat
  BY TextKept DEF Reading
<1>2. input_char # Eof
  BY DEF Tokenising
<1>3. /\ rest \in Text /\ input_char \in Characters \union {Eof}
      /\ input_char = IF p <= Len(source) THEN source[p] ELSE Eof
      /\ Len(rest) = IF p < Len(source) THEN Len(source) - p ELSE 0
      /\ \A i \in 1 .. Len(rest) : rest[i] = source[p + i]
  BY ReadingTyped
<1>4. p <= Len(source)
  BY <1>2, <1>3
<1>5. QED
  BY <1>1, <1>2, <1>3, <1>4

(* A Token step counts a newline, if it reads one.                          *)
LEMMA TokenLines ==
  ASSUME TokenizerTypeOK, NEW p, Reading(p), NEW C, Counted(source, p, C, Cardinality(EolsOf(objects))),
         Unquoted(source), Token
  PROVE  LinesCounted'
<1> DEFINE t == parse_token(KindOf(input_char), input_char, rest)
           c == input_char
           kind == KindOf(c)
           o == Len(objects) + 1
           x == [kind |-> kind, text |-> t.text]
           q == p + t.read + 1
           n == Cardinality(EolsOf(objects))
           s == source
<1>1. source \in Text
  BY DEF TokenizerTypeOK
<1>2. Tokenising
  BY DEF Token
<1>3. /\ p \in Nat /\ p > 0 /\ Len(s) \in Nat /\ p <= Len(s) /\ s[p] = c
      /\ c \in Characters /\ rest \in Text /\ Len(rest) = Len(s) - p
      /\ \A i \in 1 .. Len(rest) : rest[i] = s[p + i]
  BY <1>1, <1>2, PlaceRead
<1>4. c \notin {Quote, Apostrophe, "other"}
  BY <1>1, UnquotedRead
<1>5. TokenReads(p, t)
  BY TokenStepReads
<1>6. t = parse_token(kind, c, rest)
  OBVIOUS
<1> HIDE DEF t
<1>7. /\ kind \in ClassKinds /\ t \in ParsedToken
      /\ objects \in Seq(TokenObject) /\ Classed(objects) /\ o \in 1 .. Len(objects) + 1
      /\ Push(kind, o, t, After(rest, 0), objects)
      /\ ReadingNext(q)
  BY <1>5 DEF TokenReads
<1>8. kind = KindOf(c) /\ kind # "literal" /\ kind # "const_literal" /\ (kind = "eol" <=> c = Newline)
  BY <1>3, <1>4, KindValue
<1>9. x = [kind |-> kind, text |-> t.text] /\ o = Len(objects) + 1
  OBVIOUS
<1> HIDE DEF kind, o, x, c
<1>10. /\ Len(objects') = IF o > Len(objects) THEN o ELSE Len(objects)
       /\ objects'[o] = [kind |-> kind, text |-> t.text]
       /\ \A i \in 1 .. Len(objects) : i # o => objects'[i] = objects[i]
       /\ outcome' \in {"tokenising", "unterminated", "spinning"}
  BY <1>7, PushTyped
<1>11. objects'[o].kind = kind
  BY <1>10
<1>12. Len(objects) \in Nat
  BY <1>7, LenProperties
<1>13. Cardinality(EolsOf(objects')) = n + IF kind = "eol" THEN 1 ELSE 0
  <2> DEFINE k == 0
             new == objects'
  <2>1. k \in Nat /\ Len(new) = Len(objects) + k + 1 /\ Len(objects) + k + 1 = o
    BY <1>9, <1>10, <1>12
  <2>2. /\ \A i \in 1 .. Len(objects) : new[i] = objects[i]
        /\ \A i \in 1 .. k : new[Len(objects) + i].kind = "eol"
    BY <1>9, <1>10, <1>12
  <2>3. k = 0 /\ new = objects' /\ n \in Nat
    BY <1>7, EolsFinite
  <2> HIDE DEF k, new, n
  <2>4. Cardinality(EolsOf(new)) = Cardinality(EolsOf(objects)) + k
                                      + IF new[Len(objects) + k + 1].kind = "eol" THEN 1 ELSE 0
    BY <1>7, <2>1, <2>2, EolsNext
  <2>5. new[Len(objects) + k + 1].kind = kind
    BY <1>11, <2>1, <2>3
  <2>6. QED
    BY <2>3, <2>4, <2>5 DEF n
<1>14. n \in Nat
  BY <1>7, EolsFinite
<1>15. source' = source /\ outcome' # "printed"
  BY <1>7, <1>10 DEF ReadingNext
<1> HIDE DEF n
<1>16. CASE kind = "eol"
  <2>1. t.read = 0
    <3>1. t = eol_token
      BY <1>6, <1>16 DEF parse_token
    <3>2. QED
      BY <3>1, EolTyped
  <2>2. q = p + 1 /\ p < q /\ q \in Nat
    BY <1>3, <2>1
  <2>3. CountedFrom(s, p, p + 1, {p}, 1)
    <3>1. p \in 1 .. Len(s) /\ s[p] = Newline /\ \A i \in p .. p - 1 : s[i] # Newline
      BY <1>3, <1>8, <1>16
    <3>2. QED
      BY <1>1, <1>3, <3>1, CountedOne
  <2> DEFINE k == 1
             D == {p}
  <2>4. CountedFrom(s, p, q, D, k) /\ Cardinality(EolsOf(objects')) = n + k
    BY <1>13, <1>16, <2>2, <2>3
  <2> HIDE DEF k, D, q
  <2>5. Counted(s, q, C \union D, Cardinality(EolsOf(objects')))
    BY <1>1, <1>3, <2>2, <2>4, CountedMore DEF n
  <2>6. QED
    BY <1>7, <1>15, <2>5, LinesNext DEF q
<1>17. CASE kind # "eol"
  <2>1. t.read \in 0 .. Len(rest) /\ \A i \in 1 .. t.read : rest[i] # Newline
    BY <1>3, <1>6, <1>7, <1>8, <1>17, QuietRead
  <2>2. p < q /\ q \in Nat
    BY <1>3, <2>1
  <2>3. CountedFrom(s, p, q, {}, 0)
    <3>1. ASSUME NEW i \in p .. q - 1, i <= Len(s) PROVE s[i] # Newline
      <4>1. CASE i = p
        BY <1>3, <1>8, <1>17, <4>1
      <4>2. CASE i # p
        <5> DEFINE j == i - p
        <5>1. j \in 1 .. t.read /\ j \in 1 .. Len(rest) /\ p + j = i
          BY <1>3, <2>1, <4>2
        <5> HIDE DEF j
        <5>2. QED
          BY <1>3, <2>1, <5>1
      <4>3. QED
        BY <4>1, <4>2
    <3> HIDE DEF q
    <3>2. QED
      BY <1>1, <1>3, <2>2, <3>1, CountedNone
  <2> DEFINE k == 0
             D == {}
  <2>4. CountedFrom(s, p, q, D, k) /\ Cardinality(EolsOf(objects')) = n + k
    BY <1>13, <1>14, <1>17, <2>3
  <2> HIDE DEF k, D, q
  <2>5. Counted(s, q, C \union D, Cardinality(EolsOf(objects')))
    BY <1>1, <1>3, <2>2, <2>4, CountedMore DEF n
  <2>6. QED
    BY <1>7, <1>15, <2>5, LinesNext DEF q
<1>18. QED
  BY <1>16, <1>17

(* A LineComment step counts the newline that ends it, or one more at the   *)
(* end of the source.                                                       *)
LEMMA LineLines ==
  ASSUME TokenizerTypeOK, NEW p, Reading(p), NEW C, Counted(source, p, C, Cardinality(EolsOf(objects))),
         Unquoted(source), LineComment
  PROVE  LinesCounted'
<1> DEFINE r == Run(rest, Unended(rest))
           o == Len(objects) + 1
           kind == "eol"
           q == p + r + 2
           n == Cardinality(EolsOf(objects))
           s == source
<1>1. source \in Text
  BY DEF TokenizerTypeOK
<1>2. Tokenising
  BY DEF LineComment
<1>3. /\ p \in Nat /\ p > 0 /\ Len(s) \in Nat /\ p <= Len(s) /\ s[p] = input_char
      /\ rest \in Text /\ Len(rest) = Len(s) - p
      /\ \A i \in 1 .. Len(rest) : rest[i] = s[p + i]
  BY <1>1, <1>2, PlaceRead
<1>4. s[p] # Newline
  BY <1>3, NewlineApart DEF LineComment, InLineComment
<1>5. LineReads(p, r)
  BY LineStepReads
<1>6. /\ r \in 0 .. Len(rest) /\ \A i \in 1 .. r : rest[i] # Newline
      /\ r < Len(rest) => rest[r + 1] = Newline
  <2>1. /\ r \in 0 .. Len(rest) /\ \A i \in 1 .. r : rest[i] \in Unended(rest)
        /\ r < Len(rest) => rest[r + 1] \notin Unended(rest)
    BY <1>3, RunRead
  <2> HIDE DEF r
  <2>2. \A i \in 1 .. r : rest[i] # Newline
    BY <2>1 DEF Unended
  <2>3. r < Len(rest) => rest[r + 1] \in Range(rest)
    <3>1. Len(rest) \in Nat /\ DOMAIN rest = 1 .. Len(rest)
      BY <1>3, LenProperties DEF Text
    <3>2. r < Len(rest) => r + 1 \in DOMAIN rest
      BY <2>1, <3>1
    <3>3. QED
      BY <3>2 DEF Range
  <2>4. QED
    BY <2>1, <2>2, <2>3 DEF Unended
<1> HIDE DEF r
<1>7. /\ eol_token \in ParsedToken
      /\ objects \in Seq(TokenObject) /\ Classed(objects) /\ o \in 1 .. Len(objects) + 1
      /\ Push(kind, o, eol_token, After(rest, r + 1), objects)
      /\ ReadingNext(q)
  BY <1>5 DEF LineReads
<1>8. kind \in ClassKinds /\ kind = "eol" /\ o = Len(objects) + 1
  BY DEF ClassKinds
<1> HIDE DEF kind, o
<1>9. /\ Len(objects') = IF o > Len(objects) THEN o ELSE Len(objects)
      /\ objects'[o] = [kind |-> kind, text |-> eol_token.text]
      /\ \A i \in 1 .. Len(objects) : i # o => objects'[i] = objects[i]
      /\ outcome' \in {"tokenising", "unterminated", "spinning"}
  BY <1>7, <1>8, PushTyped
<1>10. objects'[o].kind = "eol"
  BY <1>8, <1>9
<1>11. Len(objects) \in Nat
  BY <1>7, LenProperties
<1>12. n \in Nat
  BY <1>7, EolsFinite
<1>13. Cardinality(EolsOf(objects')) = n + 1
  <2> DEFINE k == 0
             new == objects'
  <2>1. k \in Nat /\ Len(new) = Len(objects) + k + 1 /\ Len(objects) + k + 1 = o
    BY <1>8, <1>9, <1>11
  <2>2. /\ \A i \in 1 .. Len(objects) : new[i] = objects[i]
        /\ \A i \in 1 .. k : new[Len(objects) + i].kind = "eol"
    BY <1>8, <1>9, <1>11
  <2>3. k = 0 /\ new = objects'
    OBVIOUS
  <2> HIDE DEF k, new, n
  <2>4. Cardinality(EolsOf(new)) = Cardinality(EolsOf(objects)) + k
                                      + IF new[Len(objects) + k + 1].kind = "eol" THEN 1 ELSE 0
    BY <1>7, <2>1, <2>2, EolsNext
  <2>5. new[Len(objects) + k + 1].kind = "eol"
    BY <1>10, <2>1, <2>3
  <2>6. QED
    BY <1>12, <2>3, <2>4, <2>5 DEF n
<1>14. source' = source /\ outcome' # "printed"
  BY <1>7, <1>9 DEF ReadingNext
<1>15. p < q /\ q \in Nat
  <2> DEFINE m == Len(rest)
  <2>1. m \in Nat
    BY <1>3
  <2>2. r \in 0 .. m
    BY <1>6
  <2> HIDE DEF m
  <2>3. r \in Nat
    BY <2>1, <2>2
  <2>4. QED
    BY <1>3, <2>3
<1> HIDE DEF n
<1>16. ASSUME NEW i \in p .. p + r, i <= Len(s) PROVE s[i] # Newline
  <2>1. CASE i = p
    BY <1>4, <2>1
  <2>2. CASE i # p
    <3> DEFINE j == i - p
    <3>1. j \in 1 .. r /\ j \in 1 .. Len(rest) /\ p + j = i
      BY <1>3, <1>6, <1>16, <2>2
    <3> HIDE DEF j
    <3>2. QED
      BY <1>3, <1>6, <3>1
  <2>3. QED
    BY <2>1, <2>2
<1>17. CASE r < Len(rest)
  <2> DEFINE l == p + r + 1
             h == r + 1
             k == 1
             D == {l}
  <2>1. h \in 1 .. Len(rest) /\ p + h = l /\ l \in 1 .. Len(s) /\ l + 1 = q /\ p <= l /\ l - 1 = p + r
    BY <1>3, <1>6, <1>17
  <2>2. rest[h] = Newline
    BY <1>6, <1>17
  <2> HIDE DEF h
  <2>3. s[l] = Newline
    BY <1>3, <2>1, <2>2
  <2>4. \A i \in p .. l - 1 : s[i] # Newline
    <3>1. \A i \in p .. p + r : i <= Len(s)
      BY <1>3, <1>6, <1>17
    <3>2. QED
      BY <1>16, <2>1, <3>1
  <2> HIDE DEF l
  <2>5. CountedFrom(s, p, l + 1, {l}, 1)
    BY <1>1, <1>3, <2>1, <2>3, <2>4, CountedOne
  <2>6. CountedFrom(s, p, q, D, k) /\ Cardinality(EolsOf(objects')) = n + k
    BY <1>13, <2>1, <2>5
  <2> HIDE DEF k, D, q
  <2>7. Counted(s, q, C \union D, Cardinality(EolsOf(objects')))
    BY <1>1, <1>3, <1>15, <2>6, CountedMore DEF n
  <2>8. QED
    BY <1>7, <1>14, <2>7, LinesNext DEF q
<1>18. CASE ~(r < Len(rest))
  <2> DEFINE k == 0
             D == {}
  <2>1. p + r = Len(s) /\ ~(q <= Len(s))
    <3> DEFINE m == Len(rest)
    <3>1. m \in Int /\ p + m = Len(s)
      BY <1>3
    <3>2. r \in 0 .. m /\ ~(r < m)
      BY <1>6, <1>18
    <3> HIDE DEF m
    <3>3. r = m
      BY <3>1, <3>2
    <3>4. r \in Nat /\ p + r = Len(s)
      BY <3>1, <3>2, <3>3
    <3>5. ~(p + r + 2 <= Len(s))
      BY <1>3, <3>4
    <3>6. QED
      BY <3>4, <3>5
  <2>2. CountedFrom(s, p, q, {}, 0)
    <3>1. \A i \in p .. q - 1 : i <= Len(s) => s[i] # Newline
      <4>1. \A i \in p .. q - 1 : i <= Len(s) => i \in p .. p + r
        BY <1>3, <1>6, <2>1
      <4>2. QED
        BY <1>16, <4>1
    <3> HIDE DEF q
    <3>2. QED
      BY <1>1, <1>3, <1>15, <3>1, CountedNone
  <2>3. CountedFrom(s, p, q, D, k) /\ Cardinality(EolsOf(objects')) = n + k + 1
    BY <1>12, <1>13, <2>2
  <2> HIDE DEF k, D, q
  <2>4. Counted(s, q, C \union D, Cardinality(EolsOf(objects')))
    BY <1>1, <1>3, <1>15, <2>1, <2>3, CountedMore DEF n
  <2>5. QED
    BY <1>7, <1>14, <2>4, LinesNext DEF q
<1>19. QED
  BY <1>17, <1>18

(* A CloseBlockComment step counts the newlines of the comment, but for     *)
(* those at a star; the character it drops after the comment is at one.     *)
LEMMA BlockStepLines ==
  ASSUME TokenizerTypeOK, NEW p, Reading(p), NEW C, Counted(source, p, C, Cardinality(EolsOf(objects))),
         Unquoted(source), CloseBlockComment
  PROVE  LinesCounted'
<1> DEFINE c == BlockComment(rest)
           t == Blanks(c)
           k == c.eols
           before == objects \o EolObjects(k)
           o == Len(objects) + k + 1
           kind == "whitespace"
           a == c.close + 1
           r == t.read
           q == p + c.close + 1 + r + 1
           n == Cardinality(EolsOf(objects))
           s == source
<1>1. source \in Text
  BY DEF TokenizerTypeOK
<1>2. Tokenising
  BY DEF CloseBlockComment
<1>3. /\ p \in Nat /\ p > 0 /\ Len(s) \in Nat /\ p <= Len(s) /\ s[p] = input_char
      /\ rest \in Text /\ Len(rest) = Len(s) - p
      /\ \A i \in 1 .. Len(rest) : rest[i] = s[p + i]
  BY <1>1, <1>2, PlaceRead
<1>4. s[p] # Newline
  BY <1>3, NewlineApart DEF CloseBlockComment, InBlockComment
<1>5. BlockReads(p, c, t)
  BY BlockStepReads
<1>6. PICK D : BlockLines(rest, p, 1, c, D)
  BY <1>3, <1>5, BlockRead DEF BlockReads
<1> HIDE DEF c
<1>7. t = whitespace_token(After(rest, a))
  BY DEF Blanks
<1> HIDE DEF t
<1>8. /\ t \in ParsedToken /\ k \in Nat /\ c.close \in Nat \ {0}
      /\ objects \in Seq(TokenObject)
      /\ before \in Seq(TokenObject) /\ Classed(before) /\ o \in 1 .. Len(before) + 1
      /\ Len(before) = Len(objects) + k
      /\ \A i \in 1 .. Len(objects) : before[i] = objects[i]
      /\ \A i \in 1 .. k : before[Len(objects) + i].kind = "eol"
      /\ Push(kind, o, t, After(rest, a), before)
      /\ ReadingNext(q)
  BY <1>5 DEF BlockReads
<1>9. kind \in ClassKinds /\ kind = "whitespace" /\ o = Len(objects) + k + 1
  BY DEF ClassKinds
<1> HIDE DEF kind, o, k, before
<1>10. /\ Len(objects') = IF o > Len(before) THEN o ELSE Len(before)
       /\ objects'[o] = [kind |-> kind, text |-> t.text]
       /\ \A i \in 1 .. Len(before) : i # o => objects'[i] = before[i]
       /\ outcome' \in {"tokenising", "unterminated", "spinning"}
  BY <1>8, <1>9, PushTyped
<1>11. objects'[o].kind = kind
  BY <1>10
<1>12. Len(objects) \in Nat /\ n \in Nat
  BY <1>8, LenProperties, EolsFinite
<1> HIDE DEF n
<1>13. Cardinality(EolsOf(objects')) = n + k
  <2> DEFINE new == objects'
  <2>1. Len(new) = Len(objects) + k + 1 /\ Len(before) \in Nat
    BY <1>8, <1>9, <1>10, <1>12
  <2>2. \A i \in 1 .. Len(before) : new[i] = before[i]
    BY <1>8, <1>9, <1>10, <1>12
  <2>3. \A i \in 1 .. Len(objects) : i \in 1 .. Len(before)
    BY <1>8, <1>12
  <2>4. \A i \in 1 .. k : Len(objects) + i \in 1 .. Len(before)
    BY <1>8, <1>12
  <2>5. new[o].kind # "eol"
    BY <1>9, <1>11
  <2> HIDE DEF new
  <2>6. /\ \A i \in 1 .. Len(objects) : new[i] = objects[i]
        /\ \A i \in 1 .. k : new[Len(objects) + i].kind = "eol"
    BY <1>8, <2>2, <2>3, <2>4
  <2>7. Cardinality(EolsOf(new)) = Cardinality(EolsOf(objects)) + k
                                      + IF new[Len(objects) + k + 1].kind = "eol" THEN 1 ELSE 0
    BY <1>8, <2>1, <2>6, EolsNext
  <2>8. QED
    BY <1>8, <1>9, <1>12, <2>5, <2>7 DEF n, new
<1>14. source' = source /\ outcome' # "printed"
  BY <1>8, <1>10 DEF ReadingNext
<1>15. r \in Nat /\ \A i \in 1 .. r : p + c.close + 1 + i <= Len(s) => s[p + c.close + 1 + i] # Newline
  <2> DEFINE u == After(rest, a)
  <2>1. a \in Nat
    BY <1>8
  <2>2. u \in Text /\ Len(u) \in Nat
    BY <1>3, <2>1, AfterText, TextKept
  <2>3. r \in 0 .. Len(u) /\ \A i \in 1 .. r : u[i] # Newline
    <3> HIDE DEF u
    <3>1. QED
      BY <1>7, <2>2, BlanksRead DEF u
  <2>4. /\ \A i \in 1 .. Len(rest) - a : u[i] = rest[a + i]
        /\ Len(u) = IF a < Len(rest) THEN Len(rest) - a ELSE 0
    <3> HIDE DEF a
    <3>1. QED
      BY <1>3, <2>1, AfterValue DEF Text
  <2> HIDE DEF r, u
  <2>5. ASSUME NEW i \in 1 .. r, p + c.close + 1 + i <= Len(s) PROVE s[p + c.close + 1 + i] # Newline
    <3>1. i \in 1 .. Len(rest) - a /\ a + i \in 1 .. Len(rest) /\ p + (a + i) = p + c.close + 1 + i
      <4> DEFINE m == Len(rest)
                 l == Len(u)
                 b == c.close
      <4>1. m \in Int /\ b \in Nat /\ a = b + 1 /\ l \in Nat /\ i \in 1 .. r /\ r \in 0 .. l
            /\ l = IF a < m THEN m - a ELSE 0
        BY <1>3, <1>8, <2>2, <2>3, <2>4
      <4> HIDE DEF m, l, b, a
      <4>2. i \in 1 .. m - a /\ a + i \in 1 .. m /\ p + (a + i) = p + b + 1 + i
        BY <1>3, <4>1
      <4>3. QED
        BY <4>2 DEF m, b
    <3> HIDE DEF a
    <3>2. u[i] = s[p + (a + i)]
      BY <1>3, <2>4, <3>1
    <3>3. QED
      BY <2>3, <3>1, <3>2
  <2>6. QED
    BY <2>2, <2>3, <2>5
<1> HIDE DEF r
<1>16. CountedFrom(s, p, p + c.close + 1 + r + 1, D, c.eols)
  BY <1>1, <1>3, <1>4, <1>6, <1>15, CountedBlock
<1>17. p + c.close + 1 + r + 1 = q /\ p < q /\ q \in Nat
  <2> DEFINE m == c.close
  <2>1. m \in Nat
    BY <1>8
  <2> HIDE DEF m
  <2>2. p + m + 1 + r + 1 \in Nat /\ p < p + m + 1 + r + 1
    BY <1>3, <1>15, <2>1
  <2>3. QED
    BY <2>2 DEF m
<1>18. CountedFrom(s, p, q, D, k)
  BY <1>16, <1>17 DEF k
<1> HIDE DEF q
<1>19. Counted(s, q, C \union D, Cardinality(EolsOf(objects')))
  BY <1>1, <1>3, <1>13, <1>17, <1>18, CountedMore DEF n
<1>20. QED
  BY <1>8, <1>14, <1>19, LinesNext DEF q

(* Nothing is counted of a source just opened.                              *)
LEMMA OpenLines ==
  ASSUME TokenizerTypeOK, OpenSource
  PROVE  LinesCounted'
<1>1. Reading(1)' /\ source' \in Text
  BY OpenTypes DEF TokenizerTypeOK
<1>2. objects' = <<>> /\ outcome' = "tokenising"
  BY DEF OpenSource, TokenizerTypeOK
<1>3. Cardinality(EolsOf(objects')) = 0
  <2>1. EolsOf(objects') = {}
    BY <1>2 DEF EolsOf
  <2>2. QED
    BY <2>1, FS_EmptySet
<1>4. Counted(source', 1, {}, 0)
  <2> DEFINE s == source'
  <2>1. Len(s) \in Nat /\ Newlines(s) \subseteq 1 .. Len(s)
    BY <1>1, NewlinesFinite
  <2>2. \A i \in Newlines(s) : ~(i < 1)
    BY <2>1
  <2>3. QED
    BY <2>2, FS_EmptySet DEF Counted
<1>5. Counted(source, 1, {}, Cardinality(EolsOf(objects)))'
  BY <1>3, <1>4 DEF Counted, EolsOf, Newlines, NewlinesAtStar
<1>6. QED
  BY <1>1, <1>2, <1>5 DEF LinesCounted

(* The end of the file is no newline.                                       *)
LEMMA EndLines ==
  ASSUME TokenizerTypeOK, LinesCounted, EndOfFile
  PROVE  LinesCounted'
<1> SUFFICES ASSUME Unquoted(source') PROVE LinesCounted'
  BY DEF LinesCounted
<1> DEFINE x == [kind |-> "eof", text |-> <<>>]
           new == Append(objects, x)
           n == Cardinality(EolsOf(objects))
<1>1. /\ objects' = new /\ source' = source /\ input_char' = input_char /\ rest' = rest
      /\ input_char = Eof /\ outcome = "tokenising"
  BY DEF EndOfFile
<1>2. PICK p, C : Reading(p) /\ Counted(source, p, C, n)
  BY <1>1 DEF LinesCounted
<1>3. objects \in Seq(TokenObject) /\ Len(objects) \in Nat /\ n \in Nat
  BY LenProperties, EolsFinite DEF TokenizerTypeOK
<1>4. x \in TokenObject /\ x.kind # "eol"
  <2>1. <<>> \in KeptText
    BY EmptySeq DEF KeptText
  <2>2. QED
    BY <2>1 DEF TokenObject
<1> HIDE DEF x, n
<1>5. /\ Len(new) = Len(objects) + 1 /\ new[Len(objects) + 1] = x
      /\ \A i \in 1 .. Len(objects) : new[i] = objects[i]
  BY <1>3, <1>4, AppendProperties
<1> HIDE DEF new
<1>6. Cardinality(EolsOf(new)) = n
  <2> DEFINE k == 0
  <2>1. k \in Nat /\ k = 0 /\ Len(new) = Len(objects) + k + 1 /\ Len(objects) + k + 1 = Len(objects) + 1
    BY <1>3, <1>5
  <2>2. \A i \in 1 .. k : new[Len(objects) + i].kind = "eol"
    OBVIOUS
  <2> HIDE DEF k
  <2>3. Cardinality(EolsOf(new)) = Cardinality(EolsOf(objects)) + k
                                      + IF new[Len(objects) + k + 1].kind = "eol" THEN 1 ELSE 0
    BY <1>3, <1>5, <2>1, <2>2, EolsNext
  <2>4. QED
    BY <1>3, <1>4, <1>5, <2>1, <2>3 DEF n
<1>7. Reading(p)'
  BY <1>1, <1>2 DEF Reading
<1>8. Counted(source', p, C, Cardinality(EolsOf(objects')))
  BY <1>1, <1>2, <1>6
<1>9. Counted(source, p, C, Cardinality(EolsOf(objects)))'
  BY <1>8 DEF Counted, EolsOf, Newlines, NewlinesAtStar
<1>10. QED
  BY <1>1, <1>7, <1>9 DEF LinesCounted

(* Each step counts the newlines it reads.                                  *)
LEMMA LinesStep ==
  ASSUME TokenizerTypeOK, LinesCounted, TokenizerNext
  PROVE  LinesCounted'
<1>1. source \in Text
  BY DEF TokenizerTypeOK
<1>2. CASE OpenSource
  BY <1>2, OpenLines
<1>3. CASE EndOfFile
  BY <1>3, EndLines
<1>4. CASE UnterminatedComment
  BY <1>4 DEF UnterminatedComment, LinesCounted
<1>5. CASE Token \/ StaleToken \/ LineComment \/ CloseBlockComment \/ RejectFirstCharacter
  <2>1. outcome = "tokenising" /\ source' = source /\ Tokenising
    BY <1>5 DEF Token, StaleToken, LineComment, CloseBlockComment, RejectFirstCharacter, Tokenising, Push
  <2>2. CASE ~Unquoted(source)
    BY <2>1, <2>2 DEF LinesCounted
  <2>3. CASE Unquoted(source)
    <3>1. PICK p, C : Reading(p) /\ Counted(source, p, C, Cardinality(EolsOf(objects)))
      BY <2>1, <2>3 DEF LinesCounted
    <3>2. input_char # "other" /\ input_char \in Characters
      BY <1>1, <2>1, <2>3, <3>1, UnquotedRead, PlaceRead
    <3>3. KindOf(input_char) # "none"
      BY <3>2, KindValue
    <3>4. CASE Token
      BY <2>3, <3>1, <3>4, TokenLines
    <3>5. CASE LineComment
      BY <2>3, <3>1, <3>5, LineLines
    <3>6. CASE CloseBlockComment
      BY <2>3, <3>1, <3>6, BlockStepLines
    <3>7. CASE StaleToken \/ RejectFirstCharacter
      BY <3>3, <3>7 DEF StaleToken, RejectFirstCharacter
    <3>8. QED
      BY <1>5, <3>4, <3>5, <3>6, <3>7
  <2>4. QED
    BY <2>2, <2>3
<1>6. QED
  BY <1>2, <1>3, <1>4, <1>5 DEF TokenizerNext

(* At the end of the file all were read, so LinesCounted implies LinesKept. *)
LEMMA CountedKept ==
  ASSUME TokenizerTypeOK, ListedInOrder, LinesCounted
  PROVE  LinesKept
<1> SUFFICES ASSUME outcome = "printed", Unquoted(source)
             PROVE  LET eols == Cardinality({i \in 1 .. Len(token_list) : objects[token_list[i]].kind = "eol"})
                        lines == Cardinality(Newlines(source))
                    IN /\ eols <= lines + 1
                       /\ eols + Cardinality(NewlinesAtStar(source)) >= lines
  BY DEF LinesKept, Unquoted
<1> DEFINE listed == {i \in 1 .. Len(token_list) : objects[token_list[i]].kind = "eol"}
           n == Cardinality(EolsOf(objects))
           N == Newlines(source)
           A == NewlinesAtStar(source)
<1>1. source \in Text /\ objects \in Seq(TokenObject)
  BY DEF TokenizerTypeOK
<1>2. ListedOnce
  BY DEF ListedInOrder, Unquoted, Has
<1>3. listed = EolsOf(objects)
  BY <1>2 DEF ListedOnce, EolsOf
<1>4. PICK p, C : Reading(p) /\ Counted(source, p, C, n)
  BY DEF LinesCounted
<1>5. input_char = Eof
  BY DEF LinesCounted
<1>6. p \in Nat /\ ~(p <= Len(source))
  BY <1>1, <1>4, <1>5, ReadingTyped DEF Reading
<1>7. /\ Len(source) \in Nat /\ N \subseteq 1 .. Len(source) /\ A \subseteq N
      /\ \A E : E \subseteq N => IsFiniteSet(E) /\ Cardinality(E) \in Nat
  BY <1>1, NewlinesFinite
<1>8. C \subseteq N /\ \A i \in N : i < p => i \in C \union A
  BY <1>4 DEF Counted
<1>9. n = Cardinality(C) \/ n = Cardinality(C) + 1
  BY <1>4 DEF Counted
<1> HIDE DEF N, A, n
<1>10. N = C \union A
  <2>1. \A i \in N : i < p
    BY <1>6, <1>7
  <2>2. QED
    BY <1>7, <1>8, <2>1
<1>11. /\ IsFiniteSet(C) /\ IsFiniteSet(A) /\ IsFiniteSet(N)
       /\ Cardinality(C) \in Nat /\ Cardinality(A) \in Nat /\ Cardinality(N) \in Nat
  BY <1>7, <1>8
<1>12. Cardinality(C) <= Cardinality(N)
  BY <1>8, <1>11, FS_Subset
<1>13. Cardinality(N) <= Cardinality(C) + Cardinality(A)
  <2>1. Cardinality(C \union A) = Cardinality(C) + Cardinality(A) - Cardinality(C \cap A)
    BY <1>11, FS_Union
  <2>2. C \cap A \subseteq N
    BY <1>8
  <2>3. Cardinality(C \cap A) \in Nat
    BY <1>7, <2>2
  <2>4. QED
    BY <1>10, <1>11, <2>1, <2>3
<1>14. n <= Cardinality(N) + 1 /\ n + Cardinality(A) >= Cardinality(N)
  BY <1>9, <1>11, <1>12, <1>13
<1>15. QED
  BY <1>3, <1>14 DEF n, N, A

(* For every set of sources: of one without quotes and characters of no     *)
(* class, the EOL tokens at the end are as many as its newlines, but for one*)
(* more and for those that follow a star (parser.cpp:381-417).              *)
THEOREM LinesAreKept == TokenizerSpec => []LinesKept
<1>1. TokenizerInit => LinesCounted
  BY DEF TokenizerInit, LinesCounted
<1>2. TokenizerTypeOK /\ LinesCounted /\ [TokenizerNext]_tokenizerVars => LinesCounted'
  <2>1. ASSUME LinesCounted, UNCHANGED tokenizerVars PROVE LinesCounted'
    BY <2>1 DEF LinesCounted, Unquoted, Has, Reading, Counted, EolsOf, Newlines, NewlinesAtStar, tokenizerVars
  <2>2. QED
    BY <2>1, LinesStep
<1>3. TokenizerTypeOK /\ ListedInOrder /\ LinesCounted => LinesKept
  BY CountedKept
<1>4. QED
  BY <1>1, <1>2, <1>3, TokenizerTypes, TokensInOrder, PTL DEF TokenizerSpec
=============================================================================
