------------------------- MODULE HttpRequestProofs --------------------------
(* Proofs about the rewriting of a request, for every first segment, every *)
(* list of headers to remove and every setting.                            *)
EXTENDS HttpRequest, SequenceTheorems, WellFoundedInduction, TLAPS

-----------------------------------------------------------------------------
(* Induction, with a set in place of a predicate.                          *)

(* A set of numbers has a least one.                                       *)
LEMMA LeastNat ==
    ASSUME NEW S \in SUBSET Nat, S # {}
    PROVE  \E m \in S : \A k \in S : m <= k
  <1> DEFINE R == OpToRel(<, Nat)
  <1>1. IsWellFoundedOn(R, Nat)
    BY NatLessThanWellFounded, Zenon
  <1>2. \A x, y \in Nat : x < y => <<x, y>> \in R
    BY DEF OpToRel
  <1> HIDE DEF R
  <1>3. PICK x \in S : \A y \in S : ~ (<<y, x>> \in R)
    BY <1>1, WFMin
  <1>4. \A y \in S : ~(y < x)
    BY <1>2, <1>3
  <1>5. QED
    BY <1>3, <1>4

(* Induction over the numbers,                                             *)
LEMMA NatSetInduction ==
    ASSUME NEW S, 0 \in S, \A n \in Nat : n \in S => n + 1 \in S
    PROVE  Nat \subseteq S
  <1>1. SUFFICES ASSUME Nat \ S # {} PROVE FALSE
    OBVIOUS
  <1>2. PICK m \in Nat \ S : \A k \in Nat \ S : m <= k
    BY <1>1, LeastNat
  <1>3. m # 0 /\ m - 1 \in Nat
    BY <1>2
  <1>4. m - 1 \in S
    BY <1>2, <1>3
  <1>5. QED
    BY <1>2, <1>3, <1>4

(* and over sequences, by what is appended to them.                        *)
LEMMA SeqSetInduction ==
    ASSUME NEW S, NEW T, << >> \in T,
           \A s \in Seq(S) : \A x \in S : s \in T => Append(s, x) \in T
    PROVE  Seq(S) \subseteq T
  <1> DEFINE N == {n \in Nat : \A s \in Seq(S) : Len(s) = n => s \in T}
  <1>1. 0 \in N
    <2>1. \A s \in Seq(S) : Len(s) = 0 => s = << >>
      OBVIOUS
    <2>2. QED
      BY <2>1
  <1>2. ASSUME NEW n \in Nat, n \in N PROVE n + 1 \in N
    <2> SUFFICES ASSUME NEW s \in Seq(S), Len(s) = n + 1 PROVE s \in T
      OBVIOUS
    <2> DEFINE u == SubSeq(s, 1, n)
    <2>1. u \in Seq(S) /\ Len(u) = n /\ s[n + 1] \in S
      OBVIOUS
    <2>2. s = Append(u, s[n + 1])
      OBVIOUS
    <2>3. u \in T
      BY <1>2, <2>1
    <2> HIDE DEF u
    <2>4. QED
      BY <2>1, <2>2, <2>3
  <1> HIDE DEF N
  <1>3. Nat \subseteq N
    BY <1>1, <1>2, NatSetInduction
  <1>4. QED
    BY <1>3 DEF N

(* The least of a set of numbers.                                          *)
LEMMA MinIsLeast ==
    ASSUME NEW S \in SUBSET Nat, S # {}
    PROVE  Min(S) \in S /\ \A k \in S : Min(S) <= k
  BY LeastNat DEF Min

-----------------------------------------------------------------------------
(* FlattenSeq.                                                             *)

(* The equation of its recursive function.                                 *)
Flattens(c, f, n) == f = [i \in 1 .. n |-> IF i = 1 THEN c[i] ELSE f[i - 1] \o c[i]]

(* It has a solution.                                                      *)
LEMMA FlattensExists ==
    ASSUME NEW c, NEW n \in Nat
    PROVE  \E f : Flattens(c, f, n)
  <1> DEFINE N == {k \in Nat : \E f : Flattens(c, f, k)}
  <1>1. 0 \in N
    <2>1. Flattens(c, [i \in 1 .. 0 |-> c], 0)
      <3>1. 1 .. 0 = {}
        OBVIOUS
      <3>2. QED
        BY <3>1 DEF Flattens
    <2>2. QED
      BY <2>1
  <1>2. ASSUME NEW k \in Nat, NEW f, Flattens(c, f, k)
        PROVE  \E g : Flattens(c, g, k + 1)
    <2> DEFINE g == [i \in 1 .. k + 1 |-> IF i <= k THEN f[i]
                                          ELSE IF k = 0 THEN c[1] ELSE f[k] \o c[k + 1]]
    <2>1. ASSUME NEW i \in 1 .. k + 1
          PROVE  g[i] = IF i = 1 THEN c[i] ELSE g[i - 1] \o c[i]
      <3>1. CASE i <= k
        <4>1. i \in 1 .. k
          BY <3>1
        <4>2. f[i] = IF i = 1 THEN c[i] ELSE f[i - 1] \o c[i]
          BY <1>2, <4>1 DEF Flattens
        <4>3. i # 1 => g[i - 1] = f[i - 1]
          BY <4>1
        <4>4. g[i] = f[i]
          BY <4>1
        <4> HIDE DEF g
        <4>5. QED
          BY <4>2, <4>3, <4>4
      <3>2. CASE i = k + 1
        <4>1. g[i] = IF k = 0 THEN c[1] ELSE f[k] \o c[k + 1]
          BY <3>2
        <4>2. k # 0 => g[i - 1] = f[k]
          BY <3>2
        <4> HIDE DEF g
        <4>3. QED
          BY <3>2, <4>1, <4>2
      <3>3. QED
        BY <3>1, <3>2
    <2>2. g = [i \in 1 .. k + 1 |-> IF i = 1 THEN c[i] ELSE g[i - 1] \o c[i]]
      BY <2>1, Zenon
    <2>3. QED
      BY <2>2, Zenon DEF Flattens
  <1>3. \A k \in Nat : k \in N => k + 1 \in N
    BY <1>2
  <1> HIDE DEF N
  <1>4. Nat \subseteq N
    BY <1>1, <1>3, NatSetInduction
  <1>5. QED
    BY <1>4 DEF N

(* FlattenSeq takes the last value of it.                                  *)
LEMMA FlattenIs ==
    ASSUME NEW c, Len(c) \in Nat, Len(c) # 0
    PROVE  \E f : Flattens(c, f, Len(c)) /\ FlattenSeq(c) = f[Len(c)]
  <1> DEFINE f == CHOOSE f : Flattens(c, f, Len(c))
  <1>1. Flattens(c, f, Len(c))
    BY FlattensExists
  <1>2. FlattenSeq(c) = f[Len(c)]
    BY Zenon DEF FlattenSeq, Flattens
  <1>3. QED
    BY <1>1, <1>2, Zenon

(* What is flattened last stands at the end.                               *)
LEMMA FlattenAppend ==
    ASSUME NEW S, NEW c \in Seq(Seq(S)), NEW x \in Seq(S)
    PROVE  FlattenSeq(Append(c, x)) = FlattenSeq(c) \o x
  <1> DEFINE d == Append(c, x)
             n == Len(c)
  <1>1. /\ n \in Nat /\ Len(d) = n + 1 /\ d[n + 1] = x
        /\ \A i \in 1 .. n : d[i] = c[i]
    OBVIOUS
  <1> HIDE DEF d
  <1>2. PICK g : Flattens(d, g, n + 1) /\ FlattenSeq(d) = g[n + 1]
    <2>1. Len(d) \in Nat /\ Len(d) # 0
      BY <1>1
    <2>2. \E g : Flattens(d, g, Len(d)) /\ FlattenSeq(d) = g[Len(d)]
      BY <2>1, FlattenIs, Zenon
    <2>3. QED
      BY <1>1, <2>2
  <1>3. \A i \in 1 .. n + 1 : g[i] = IF i = 1 THEN d[i] ELSE g[i - 1] \o d[i]
    BY <1>2 DEF Flattens
  <1>4. CASE n = 0
    <2>1. FlattenSeq(d) = x
      BY <1>1, <1>2, <1>3, <1>4
    <2>2. FlattenSeq(c) = << >>
      BY <1>4 DEF FlattenSeq
    <2>3. QED
      BY <2>1, <2>2 DEF d
  <1>5. CASE n # 0
    <2>1. PICK f : Flattens(c, f, n) /\ FlattenSeq(c) = f[n]
      BY <1>1, <1>5, FlattenIs
    <2>2. \A i \in 1 .. n : f[i] = IF i = 1 THEN c[i] ELSE f[i - 1] \o c[i]
      BY <2>1 DEF Flattens
    <2> DEFINE N == {k \in Nat : k \in 1 .. n => g[k] = f[k]}
    <2>3. 0 \in N
      BY <1>1
    <2>4. ASSUME NEW k \in Nat, k \in N PROVE k + 1 \in N
      <3> SUFFICES ASSUME k + 1 \in 1 .. n PROVE g[k + 1] = f[k + 1]
        OBVIOUS
      <3>1. /\ g[k + 1] = IF k + 1 = 1 THEN d[k + 1] ELSE g[(k + 1) - 1] \o d[k + 1]
            /\ f[k + 1] = IF k + 1 = 1 THEN c[k + 1] ELSE f[(k + 1) - 1] \o c[k + 1]
            /\ d[k + 1] = c[k + 1]
        BY <1>1, <1>3, <2>2
      <3>2. (k + 1) - 1 = k /\ (k + 1 = 1 \/ g[k] = f[k])
        BY <1>1, <2>4
      <3>3. QED
        BY <3>1, <3>2
    <2> HIDE DEF N
    <2>5. n \in N
      BY <1>1, <2>3, <2>4, NatSetInduction
    <2>6. g[n] = f[n]
      BY <1>1, <1>5, <2>5 DEF N
    <2>7. g[n + 1] = g[n] \o x
      <3>1. g[n + 1] = g[(n + 1) - 1] \o d[n + 1]
        <4>1. n + 1 \in 1 .. n + 1 /\ n + 1 # 1
          BY <1>1, <1>5
        <4>2. QED
          BY <1>3, <4>1, Zenon
      <3>2. (n + 1) - 1 = n
        BY <1>1
      <3>3. QED
        BY <1>1, <3>1, <3>2
    <2>8. QED
      BY <1>2, <2>1, <2>6, <2>7 DEF d
  <1>6. QED
    BY <1>4, <1>5

(* Flattening gives a sequence, which starts as the first one does.        *)
LEMMA FlattenStart ==
    ASSUME NEW S, NEW c \in Seq(Seq(S))
    PROVE  /\ FlattenSeq(c) \in Seq(S)
           /\ c # << >> /\ c[1] # << >> =>
                 FlattenSeq(c) # << >> /\ FlattenSeq(c)[1] = c[1][1]
  <1> DEFINE Good(b) == /\ FlattenSeq(b) \in Seq(S)
                        /\ Len(b) # 0 /\ Len(b[1]) # 0 =>
                              Len(FlattenSeq(b)) # 0 /\ FlattenSeq(b)[1] = b[1][1]
             T == {b \in Seq(Seq(S)) : Good(b)}
  <1>1. << >> \in T
    BY DEF FlattenSeq
  <1>2. ASSUME NEW b \in Seq(Seq(S)), NEW x \in Seq(S), Good(b)
        PROVE  Good(Append(b, x))
    <2> DEFINE F == FlattenSeq(b)
               a == Append(b, x)
               G == FlattenSeq(a)
    <2>1. G = F \o x /\ F \in Seq(S)
      BY <1>2, FlattenAppend
    <2>2. Len(a) # 0 /\ Len(b) \in Nat
      OBVIOUS
    <2>3. CASE Len(b) = 0
      <3>1. F = << >>
        BY <2>3 DEF FlattenSeq
      <3> HIDE DEF F
      <3>2. a[1] = x
        BY <2>3
      <3>3. G = x
        BY <2>1, <3>1
      <3> HIDE DEF G, a
      <3>4. QED
        BY <3>2, <3>3 DEF G, a
    <2>4. CASE Len(b) # 0
      <3>1. a[1] = b[1]
        BY <2>4
      <3>2. Len(b[1]) # 0 => Len(F) # 0 /\ F[1] = b[1][1]
        BY <1>2, <2>4
      <3> HIDE DEF F, G, a
      <3>3. G \in Seq(S) /\ (Len(F) # 0 => Len(G) # 0 /\ G[1] = F[1])
        BY <2>1
      <3>4. QED
        BY <3>1, <3>2, <3>3 DEF G, a
    <2>5. QED
      BY <2>3, <2>4
  <1>3. \A b \in Seq(Seq(S)) : \A x \in Seq(S) : b \in T => Append(b, x) \in T
    <2> SUFFICES ASSUME NEW b \in Seq(Seq(S)), NEW x \in Seq(S), b \in T
                 PROVE  Append(b, x) \in T
      OBVIOUS
    <2>1. Append(b, x) \in Seq(Seq(S))
      OBVIOUS
    <2>2. Good(Append(b, x))
      BY <1>2
    <2> HIDE DEF Good
    <2>3. QED
      BY <2>1, <2>2
  <1> HIDE DEF T
  <1>4. c \in T
    BY <1>1, <1>3, SeqSetInduction
  <1>5. Good(c) /\ (c # << >> => Len(c) # 0)
    BY <1>4 DEF T
  <1>6. c # << >> /\ c[1] # << >> => Len(c[1]) # 0
    <2>1. c # << >> => c[1] \in Seq(S)
      OBVIOUS
    <2>2. QED
      BY <2>1
  <1>7. QED
    BY <1>5, <1>6

-----------------------------------------------------------------------------
(* Sifted.                                                                 *)

(* The same with a set for the test, and the sequences that are flattened. *)
Pieces(s, D) == [j \in 1 .. Len(s) |-> IF s[j] \in D THEN <<s[j]>> ELSE << >>]
Pick(s, D)   == FlattenSeq(Pieces(s, D))

(* The pieces are sequences over the same set.                             *)
LEMMA PiecesType ==
    ASSUME NEW S, NEW s \in Seq(S), NEW D
    PROVE  Pieces(s, D) \in Seq(Seq(S))
  <1>1. \A j \in 1 .. Len(s) : (IF s[j] \in D THEN <<s[j]>> ELSE << >>) \in Seq(S)
    OBVIOUS
  <1>2. Len(s) \in Nat
    OBVIOUS
  <1>3. QED
    BY <1>1, <1>2 DEF Pieces

(* What is sifted last stands at the end, if it passes.                    *)
LEMMA PickAppend ==
    ASSUME NEW S, NEW s \in Seq(S), NEW x \in S, NEW D
    PROVE  /\ Pick(s, D) \in Seq(S)
           /\ Pick(Append(s, x), D) = IF x \in D THEN Append(Pick(s, D), x) ELSE Pick(s, D)
  <1> DEFINE piece == IF x \in D THEN <<x>> ELSE << >>
  <1>1. piece \in Seq(S)
    OBVIOUS
  <1>2. Pieces(s, D) \in Seq(Seq(S))
    BY PiecesType
  <1>3. Pick(s, D) \in Seq(S)
    BY <1>2, FlattenStart DEF Pick
  <1>4. Pieces(Append(s, x), D) = Append(Pieces(s, D), piece)
    <2> DEFINE a == Append(s, x)
               p == Pieces(a, D)
               v == Pieces(s, D)
               q == Append(v, piece)
    <2>1. /\ Len(s) \in Nat /\ Len(a) = Len(s) + 1 /\ a[Len(s) + 1] = x /\ a \in Seq(S)
          /\ \A j \in 1 .. Len(s) : a[j] = s[j]
      OBVIOUS
    <2> HIDE DEF a, piece
    <2>2. /\ p \in Seq(Seq(S)) /\ Len(p) = Len(s) + 1
          /\ \A j \in 1 .. Len(s) + 1 : p[j] = IF a[j] \in D THEN <<a[j]>> ELSE << >>
      <3>1. p \in Seq(Seq(S))
        BY <2>1, PiecesType
      <3>2. QED
        BY <2>1, <3>1 DEF Pieces
    <2>3. /\ v \in Seq(Seq(S)) /\ Len(v) = Len(s)
          /\ \A j \in 1 .. Len(s) : v[j] = IF s[j] \in D THEN <<s[j]>> ELSE << >>
      BY <1>2, <2>1 DEF Pieces
    <2> HIDE DEF p, v
    <2>4. /\ q \in Seq(Seq(S)) /\ Len(q) = Len(s) + 1 /\ q[Len(s) + 1] = piece
          /\ \A j \in 1 .. Len(s) : q[j] = v[j]
      BY <1>1, <2>1, <2>3
    <2> HIDE DEF q
    <2>5. ASSUME NEW j \in 1 .. Len(p) PROVE p[j] = q[j]
      <3>1. CASE j \in 1 .. Len(s)
        BY <2>1, <2>2, <2>3, <2>4, <2>5, <3>1
      <3>2. CASE j = Len(s) + 1
        BY <2>1, <2>2, <2>4, <3>2 DEF piece
      <3>3. QED
        BY <2>1, <2>2, <2>5, <3>1, <3>2
    <2>6. p = q
      BY <2>2, <2>4, <2>5, SeqEqual, Zenon
    <2>7. QED
      BY <2>6 DEF p, q, a, v
  <1>5. Pick(Append(s, x), D) = Pick(s, D) \o piece
    BY <1>1, <1>2, <1>4, FlattenAppend, Zenon DEF Pick
  <1>6. QED
    BY <1>3, <1>5

(* What is picked is a sequence over the same set.                         *)
LEMMA PickType ==
    ASSUME NEW S, NEW s \in Seq(S), NEW D
    PROVE  Pick(s, D) \in Seq(S)
  <1>1. Pieces(s, D) \in Seq(Seq(S))
    BY PiecesType
  <1>2. QED
    BY <1>1, FlattenStart DEF Pick

(* Of nothing, nothing passes.                                             *)
LEMMA PickNothing == \A D : Pick(<< >>, D) = << >>
  <1> TAKE D
  <1>1. Len(Pieces(<< >>, D)) = 0 /\ Pieces(<< >>, D) = << >>
    BY DEF Pieces
  <1>2. QED
    BY <1>1 DEF Pick, FlattenSeq

(* The four tests of the module.                                           *)
LEMMA SiftedIsPick ==
    ASSUME NEW S, NEW s \in Seq(S)
    PROVE  /\ Sifted(s, IsText) = Pick(s, {y \in S : IsText(y)})
           /\ Sifted(s, HasKey) = Pick(s, {y \in S : HasKey(y)})
           /\ Sifted(s, Keep) = Pick(s, {y \in S : Keep(y)})
           /\ Sifted(s, Stays) = Pick(s, {y \in S : Stays(y)})
  <1>1. \A j \in 1 .. Len(s) : s[j] \in S
    OBVIOUS
  <1>2. Sifted(s, IsText) = Pick(s, {y \in S : IsText(y)})
    BY <1>1 DEF Sifted, Pick, Pieces
  <1>3. Sifted(s, HasKey) = Pick(s, {y \in S : HasKey(y)})
    BY <1>1 DEF Sifted, Pick, Pieces
  <1>4. Sifted(s, Keep) = Pick(s, {y \in S : Keep(y)})
    BY <1>1 DEF Sifted, Pick, Pieces
  <1>5. Sifted(s, Stays) = Pick(s, {y \in S : Stays(y)})
    BY <1>1 DEF Sifted, Pick, Pieces
  <1>6. QED
    BY <1>2, <1>3, <1>4, <1>5

(* Of nothing, nothing passes any test.                                    *)
LEMMA SiftedNothing ==
    /\ Sifted(<< >>, IsText) = << >> /\ Sifted(<< >>, HasKey) = << >>
    /\ Sifted(<< >>, Keep) = << >> /\ Sifted(<< >>, Stays) = << >>
  <1>1. << >> \in Seq({})
    OBVIOUS
  <1>2. QED
    BY <1>1, SiftedIsPick, PickNothing

(* One element more, for each of the tests.                                *)
LEMMA TextAppend ==
    ASSUME NEW S, NEW s \in Seq(S), NEW x \in S
    PROVE  /\ Sifted(s, IsText) \in Seq(S)
           /\ Sifted(Append(s, x), IsText)
                 = IF IsText(x) THEN Append(Sifted(s, IsText), x) ELSE Sifted(s, IsText)
  <1> DEFINE D == {y \in S : IsText(y)}
  <1>1. Append(s, x) \in Seq(S) /\ (x \in D <=> IsText(x))
    OBVIOUS
  <1> HIDE DEF D
  <1>2. /\ Pick(s, D) \in Seq(S)
        /\ Pick(Append(s, x), D) = IF x \in D THEN Append(Pick(s, D), x) ELSE Pick(s, D)
    BY PickAppend
  <1>3. Sifted(s, IsText) = Pick(s, D) /\ Sifted(Append(s, x), IsText) = Pick(Append(s, x), D)
    BY <1>1, SiftedIsPick, Zenon DEF D
  <1>4. QED
    BY <1>1, <1>2, <1>3, Zenon

(* Sifting for lines with a colon, one line more.                          *)
LEMMA HeadersAppend ==
    ASSUME NEW S, NEW s \in Seq(S), NEW x \in S
    PROVE  /\ Sifted(s, HasKey) \in Seq(S)
           /\ Sifted(Append(s, x), HasKey)
                 = IF HasKey(x) THEN Append(Sifted(s, HasKey), x) ELSE Sifted(s, HasKey)
  <1> DEFINE D == {y \in S : HasKey(y)}
  <1>1. Append(s, x) \in Seq(S) /\ (x \in D <=> HasKey(x))
    OBVIOUS
  <1> HIDE DEF D
  <1>2. /\ Pick(s, D) \in Seq(S)
        /\ Pick(Append(s, x), D) = IF x \in D THEN Append(Pick(s, D), x) ELSE Pick(s, D)
    BY PickAppend
  <1>3. Sifted(s, HasKey) = Pick(s, D) /\ Sifted(Append(s, x), HasKey) = Pick(Append(s, x), D)
    BY <1>1, SiftedIsPick, Zenon DEF D
  <1>4. QED
    BY <1>1, <1>2, <1>3, Zenon

(* Sifting for lines that stay, one line more.                             *)
LEMMA KeepAppend ==
    ASSUME NEW S, NEW s \in Seq(S), NEW x \in S
    PROVE  /\ Sifted(s, Keep) \in Seq(S)
           /\ Sifted(Append(s, x), Keep)
                 = IF Keep(x) THEN Append(Sifted(s, Keep), x) ELSE Sifted(s, Keep)
  <1> DEFINE D == {y \in S : Keep(y)}
  <1>1. Append(s, x) \in Seq(S) /\ (x \in D <=> Keep(x))
    OBVIOUS
  <1> HIDE DEF D
  <1>2. /\ Pick(s, D) \in Seq(S)
        /\ Pick(Append(s, x), D) = IF x \in D THEN Append(Pick(s, D), x) ELSE Pick(s, D)
    BY PickAppend
  <1>3. Sifted(s, Keep) = Pick(s, D) /\ Sifted(Append(s, x), Keep) = Pick(Append(s, x), D)
    BY <1>1, SiftedIsPick, Zenon DEF D
  <1>4. QED
    BY <1>1, <1>2, <1>3, Zenon

(* Sifting for keys that stay, one key more.                               *)
LEMMA StaysAppend ==
    ASSUME NEW S, NEW s \in Seq(S), NEW x \in S
    PROVE  /\ Sifted(s, Stays) \in Seq(S)
           /\ Sifted(Append(s, x), Stays)
                 = IF Stays(x) THEN Append(Sifted(s, Stays), x) ELSE Sifted(s, Stays)
  <1> DEFINE D == {y \in S : Stays(y)}
  <1>1. Append(s, x) \in Seq(S) /\ (x \in D <=> Stays(x))
    OBVIOUS
  <1> HIDE DEF D
  <1>2. /\ Pick(s, D) \in Seq(S)
        /\ Pick(Append(s, x), D) = IF x \in D THEN Append(Pick(s, D), x) ELSE Pick(s, D)
    BY PickAppend
  <1>3. Sifted(s, Stays) = Pick(s, D) /\ Sifted(Append(s, x), Stays) = Pick(Append(s, x), D)
    BY <1>1, SiftedIsPick, Zenon DEF D
  <1>4. QED
    BY <1>1, <1>2, <1>3, Zenon

-----------------------------------------------------------------------------
(* Keys.                                                                   *)

(* No lines, no keys.                                                      *)
LEMMA KeysNothing == Keys(<< >>) = << >>
  <1>1. Headers(<< >>) = << >>
    BY SiftedNothing DEF Headers
  <1>2. QED
    BY <1>1 DEF Keys

(* The key of a line that is appended comes last.                          *)
LEMMA KeysAppend ==
    ASSUME NEW S, NEW s \in Seq(S), NEW x \in S
    PROVE  /\ Keys(s) \in Seq({Key(y) : y \in S})
           /\ Keys(Append(s, x)) = IF HasKey(x) THEN Append(Keys(s), Key(x)) ELSE Keys(s)
  <1> DEFINE K == {Key(y) : y \in S}
             h == Headers(s)
             g == Headers(Append(s, x))
  <1>1. h \in Seq(S) /\ g = IF HasKey(x) THEN Append(h, x) ELSE h
    BY HeadersAppend, Zenon DEF Headers
  <1> HIDE DEF h, g
  <1>2. Len(h) \in Nat /\ \A j \in 1 .. Len(h) : h[j] \in S
    BY <1>1
  <1>3. Keys(s) = [j \in 1 .. Len(h) |-> Key(h[j])]
    BY DEF Keys, h
  <1>4. Keys(s) \in Seq(K) /\ Len(Keys(s)) = Len(h)
    BY <1>2, <1>3
  <1>5. Keys(Append(s, x)) = [j \in 1 .. Len(g) |-> Key(g[j])]
    BY DEF Keys, g
  <1>6. CASE ~HasKey(x)
    BY <1>1, <1>3, <1>4, <1>5, <1>6
  <1>7. CASE HasKey(x)
    <2> DEFINE p == Keys(Append(s, x))
               q == Append(Keys(s), Key(x))
    <2>1. /\ g = Append(h, x) /\ Len(g) = Len(h) + 1 /\ g[Len(h) + 1] = x
          /\ \A j \in 1 .. Len(h) : g[j] = h[j]
      BY <1>1, <1>7
    <2>2. \A j \in 1 .. Len(h) + 1 : g[j] \in S
      BY <1>2, <2>1
    <2>3. Key(x) \in K
      OBVIOUS
    <2> HIDE DEF K
    <2>4. /\ q \in Seq(K) /\ Len(q) = Len(h) + 1 /\ q[Len(h) + 1] = Key(x)
          /\ \A j \in 1 .. Len(h) : q[j] = Key(h[j])
      <3>1. \A j \in 1 .. Len(h) : Keys(s)[j] = Key(h[j])
        BY <1>3
      <3>2. QED
        BY <1>2, <1>4, <2>3, <3>1
    <2>5. p \in Seq(K) /\ Len(p) = Len(h) + 1 /\ \A j \in 1 .. Len(h) + 1 : p[j] = Key(g[j])
      <3>1. \A j \in 1 .. Len(h) + 1 : Key(g[j]) \in K
        BY <2>2 DEF K
      <3>2. QED
        BY <1>2, <1>5, <2>1, <3>1
    <2> HIDE DEF p, q
    <2>6. ASSUME NEW j \in 1 .. Len(p) PROVE p[j] = q[j]
      <3>1. j \in 1 .. Len(h) \/ j = Len(h) + 1
        BY <1>2, <2>5
      <3>2. CASE j \in 1 .. Len(h)
        BY <2>1, <2>4, <2>5, <2>6, <3>2
      <3>3. CASE j = Len(h) + 1
        BY <2>1, <2>4, <2>5, <2>6, <3>3
      <3>4. QED
        BY <3>1, <3>2, <3>3
    <2>7. p = q
      BY <2>4, <2>5, <2>6, SeqEqual, Zenon
    <2>8. QED
      BY <1>4, <1>7, <2>7 DEF p, q, K
  <1>8. QED
    BY <1>6, <1>7

(* To keep the lines whose header is not listed is to keep the keys that   *)
(* are not.                                                                *)
LEMMA KeepingKeys ==
    ASSUME NEW S, NEW s \in Seq(S)
    PROVE  Keys(Sifted(s, Keep)) = Sifted(Keys(s), Stays)
  <1> DEFINE T == {u \in Seq(S) : Keys(Sifted(u, Keep)) = Sifted(Keys(u), Stays)}
  <1>1. << >> \in T
    BY SiftedNothing, KeysNothing
  <1>2. ASSUME NEW u \in Seq(S), NEW x \in S, u \in T
        PROVE  Append(u, x) \in T
    <2> DEFINE a == Append(u, x)
               k == Sifted(u, Keep)
    <2>1. /\ a \in Seq(S) /\ k \in Seq(S) /\ Keys(k) = Sifted(Keys(u), Stays)
          /\ Sifted(a, Keep) = IF Keep(x) THEN Append(k, x) ELSE k
      <3>1. Append(u, x) \in Seq(S)
        OBVIOUS
      <3>2. Keys(Sifted(u, Keep)) = Sifted(Keys(u), Stays)
        BY <1>2, Zenon
      <3>3. /\ Sifted(u, Keep) \in Seq(S)
            /\ Sifted(Append(u, x), Keep)
                  = IF Keep(x) THEN Append(Sifted(u, Keep), x) ELSE Sifted(u, Keep)
        BY KeepAppend, Zenon
      <3>4. QED
        BY <3>1, <3>2, <3>3, Zenon
    <2>2. Keep(x) <=> (HasKey(x) => Stays(Key(x)))
      BY DEF Keep, IsProxyHeader, Stays
    <2>3. Keys(a) = IF HasKey(x) THEN Append(Keys(u), Key(x)) ELSE Keys(u)
      BY KeysAppend
    <2> HIDE DEF k
    <2>4. Keys(Append(k, x)) = IF HasKey(x) THEN Append(Keys(k), Key(x)) ELSE Keys(k)
      BY <2>1, KeysAppend
    <2>5. Sifted(Append(Keys(u), Key(x)), Stays)
            = IF Stays(Key(x)) THEN Append(Sifted(Keys(u), Stays), Key(x)) ELSE Sifted(Keys(u), Stays)
      <3>1. Keys(u) \in Seq({Key(y) : y \in S}) /\ Key(x) \in {Key(y) : y \in S}
        BY KeysAppend
      <3> DEFINE K == {Key(y) : y \in S}
                 v == Keys(u)
                 y == Key(x)
      <3> HIDE DEF K, v, y
      <3>2. v \in Seq(K) /\ y \in K
        BY <3>1 DEF K, v, y
      <3>3. Sifted(Append(v, y), Stays)
              = IF Stays(y) THEN Append(Sifted(v, Stays), y) ELSE Sifted(v, Stays)
        BY <3>2, StaysAppend, Zenon
      <3>4. QED
        BY <3>3 DEF v, y
    <2>6. Keys(Sifted(a, Keep)) = Sifted(Keys(a), Stays)
      <3>1. CASE ~HasKey(x)
        BY <2>1, <2>2, <2>3, <2>4, <3>1, Zenon
      <3>2. CASE HasKey(x) /\ Stays(Key(x))
        BY <2>1, <2>2, <2>3, <2>4, <2>5, <3>2, Zenon
      <3>3. CASE HasKey(x) /\ ~Stays(Key(x))
        BY <2>1, <2>2, <2>3, <2>4, <2>5, <3>3, Zenon
      <3>4. QED
        BY <3>1, <3>2, <3>3
    <2>7. QED
      BY <2>1, <2>6
  <1> HIDE DEF T
  <1>3. s \in T
    BY <1>1, <1>2, SeqSetInduction
  <1>4. QED
    BY <1>3 DEF T

-----------------------------------------------------------------------------
(* Header case mixing leaves the keys alone.                               *)

(* The first colon of a line that has one.                                 *)
LEMMA FirstColon ==
    ASSUME NEW line, line.words \in Seq(Word), HasKey(line)
    PROVE  LET n == Min(Colons(line))
           IN  /\ n \in 1 .. Len(line.words) /\ line.words[n].colon # "none"
               /\ \A k \in 1 .. n - 1 : line.words[k].colon = "none"
  <1> DEFINE C == Colons(line)
  <1>1. C \in SUBSET Nat /\ C # {}
    BY DEF Colons, HasKey
  <1>2. Min(C) \in C /\ \A k \in C : Min(C) <= k
    BY <1>1, MinIsLeast
  <1>3. \A k : k \in C <=> k \in 1 .. Len(line.words) /\ line.words[k].colon # "none"
    BY DEF Colons
  <1> DEFINE n == Min(C)
  <1> HIDE DEF C, n
  <1>4. n \in 1 .. Len(line.words) /\ line.words[n].colon # "none"
    BY <1>2, <1>3 DEF n
  <1>5. Len(line.words) \in Nat
    OBVIOUS
  <1>6. ASSUME NEW k \in 1 .. n - 1 PROVE line.words[k].colon = "none"
    <2>1. k \in 1 .. Len(line.words) /\ ~(n <= k)
      BY <1>4, <1>5
    <2>2. k \notin C
      BY <1>2, <2>1 DEF n
    <2>3. QED
      BY <1>3, <2>1, <2>2
  <1>7. QED
    BY <1>4, <1>6 DEF n, C

(* and what makes a position the first one.                                *)
LEMMA IsFirstColon ==
    ASSUME NEW line, line.words \in Seq(Word), NEW n \in 1 .. Len(line.words),
           line.words[n].colon # "none", \A k \in 1 .. n - 1 : line.words[k].colon = "none"
    PROVE  HasKey(line) /\ Min(Colons(line)) = n
  <1>1. n \in Colons(line)
    BY DEF Colons
  <1>2. HasKey(line)
    BY <1>1 DEF HasKey
  <1> DEFINE m == Min(Colons(line))
  <1>3. m \in 1 .. Len(line.words) /\ line.words[m].colon # "none"
        /\ \A k \in 1 .. m - 1 : line.words[k].colon = "none"
    BY <1>2, FirstColon
  <1> HIDE DEF m
  <1>4. m \in Nat /\ n \in Nat
    BY <1>3
  <1>5. ~(m < n) /\ ~(n < m)
    BY <1>3, <1>4
  <1>6. m = n
    BY <1>4, <1>5
  <1>7. QED
    BY <1>2, <1>6 DEF m

(* A word without text that comes last in a key leaves no trace.           *)
LEMMA SameKey ==
    ASSUME NEW W \in Seq(Word), NEW n \in 1 .. Len(W), NEW p \in 1 .. n,
           p = n \/ (p = n - 1 /\ ~IsText(W[n].name))
    PROVE  Sifted([k \in 1 .. p |-> W[k].name], IsText) = Sifted([k \in 1 .. n |-> W[k].name], IsText)
  <1>1. CASE p = n
    BY <1>1
  <1>2. CASE p = n - 1 /\ ~IsText(W[n].name)
    <2> DEFINE a == [k \in 1 .. p |-> W[k].name]
               b == [k \in 1 .. n |-> W[k].name]
               x == W[n].name
    <2>0. n \in Nat /\ p \in Nat /\ n = p + 1 /\ Len(W) \in Nat /\ n <= Len(W)
      BY <1>2
    <2>1. \A k \in 1 .. n : W[k].name \in Names
      <3>1. \A k \in 1 .. n : W[k] \in Word
        BY <2>0
      <3>2. QED
        BY <3>1 DEF Word
    <2>2. a \in Seq(Names) /\ Len(a) = p /\ \A k \in 1 .. p : a[k] = W[k].name
      BY <2>0, <2>1
    <2>3. b \in Seq(Names) /\ Len(b) = n /\ \A k \in 1 .. n : b[k] = W[k].name
      BY <2>0, <2>1
    <2>4. x \in Names
      BY <2>0, <2>1
    <2> HIDE DEF a, b
    <2>5. /\ Append(a, x) \in Seq(Names) /\ Len(Append(a, x)) = n
          /\ \A k \in 1 .. n : Append(a, x)[k] = W[k].name
      BY <2>0, <2>2, <2>4
    <2>6. b = Append(a, x)
      <3> DEFINE c == Append(a, x)
      <3> HIDE DEF c
      <3>1. c \in Seq(Names) /\ Len(b) = Len(c) /\ \A k \in 1 .. Len(b) : b[k] = c[k]
        BY <2>3, <2>5 DEF c
      <3>2. b = c
        BY <2>3, <3>1, SeqEqual, Zenon
      <3>3. QED
        BY <3>2 DEF c
    <2>7. Sifted(Append(a, x), IsText) = Sifted(a, IsText)
      BY <1>2, <2>2, <2>4, TextAppend, Zenon
    <2>8. QED
      BY <2>6, <2>7, Zenon DEF a, b
  <1>3. QED
    BY <1>1, <1>2

(* The words of a mixed line: those up to the colon, with one fewer if the *)
(* colon stood alone, and the rest.                                        *)
LEMMA MixedWords ==
    ASSUME NEW line \in Line, HasKey(line)
    PROVE  \E P \in Seq(Word), R \in Seq(Word) :
             LET W == line.words
                 n == Min(Colons(line))
                 p == Len(P)
             IN  /\ MixKey(line) = [lead |-> FALSE, words |-> P \o R]
                 /\ p \in 1 .. n
                 /\ p = n \/ (p = n - 1 /\ ~IsText(W[n].name))
                 /\ \A k \in 1 .. p : P[k].name = W[k].name
                 /\ \A k \in 1 .. p - 1 : P[k].colon = "none"
                 /\ P[p].colon # "none"
  <1> DEFINE W == line.words
             n == Min(Colons(line))
             key == [k \in 1 .. n |-> mix_case(W[k])]
             alone == ~IsText(W[n].name) /\ n > 1
             P == IF alone THEN [SubSeq(key, 1, n - 1) EXCEPT ![n - 1].colon = W[n].colon] ELSE key
             R == SubSeq(W, n + 1, Len(W))
  <1>1. W \in Seq(Word)
    BY DEF Line
  <1>2. /\ n \in 1 .. Len(W) /\ W[n].colon # "none"
        /\ \A k \in 1 .. n - 1 : W[k].colon = "none"
    BY <1>1, FirstColon
  <1>3. MixKey(line) = [lead |-> FALSE, words |-> P \o R]
    BY DEF MixKey
  <1> HIDE DEF W, n
  <1>4. \A k \in 1 .. Len(W) : W[k] \in Word
    BY <1>1
  <1>5. Len(W) \in Nat /\ n \in Nat /\ n >= 1 /\ n <= Len(W)
    BY <1>1, <1>2
  <1>6. R \in Seq(Word)
    BY <1>1, <1>5
  <1>7. \A k \in 1 .. n : /\ mix_case(W[k]) \in Word
                        /\ mix_case(W[k]).name = W[k].name /\ mix_case(W[k]).colon = W[k].colon
    <2> TAKE k \in 1 .. n
    <2>1. W[k] \in Word
      BY <1>4, <1>5
    <2>2. QED
      BY <2>1 DEF mix_case, Word
  <1>8. /\ key \in Seq(Word) /\ Len(key) = n
        /\ \A k \in 1 .. n : key[k].name = W[k].name /\ key[k].colon = W[k].colon
    <2>1. \A k \in 1 .. n : key[k] = mix_case(W[k])
      OBVIOUS
    <2>2. key \in Seq(Word) /\ Len(key) = n
      BY <1>5, <1>7
    <2>3. QED
      BY <1>7, <2>1, <2>2
  <1> HIDE DEF key, R
  <1> DEFINE Goal == /\ P \in Seq(Word)
                     /\ Len(P) \in 1 .. n
                     /\ Len(P) = n \/ (Len(P) = n - 1 /\ ~IsText(W[n].name))
                     /\ \A k \in 1 .. Len(P) : P[k].name = W[k].name
                     /\ \A k \in 1 .. Len(P) - 1 : P[k].colon = "none"
                     /\ P[Len(P)].colon # "none"
  <1>9. CASE ~alone
    <2>1. P = key
      BY <1>9
    <2>2. n \in 1 .. n
      BY <1>5
    <2> HIDE DEF P
    <2>3. Goal
      BY <1>2, <1>5, <1>8, <2>1, <2>2
    <2>4. QED
      BY <1>3, <1>6, <2>3 DEF W, n
  <1>10. CASE alone
    <2> DEFINE s == SubSeq(key, 1, n - 1)
    <2>1. /\ s \in Seq(Word) /\ Len(s) = n - 1 /\ n - 1 \in Nat /\ n - 1 >= 1
          /\ \A k \in 1 .. n - 1 : s[k] = key[k]
      BY <1>5, <1>8, <1>10
    <2> HIDE DEF s
    <2> DEFINE l == [s[n - 1] EXCEPT !.colon = W[n].colon]
    <2>2. P = [s EXCEPT ![n - 1] = l]
      BY <1>10 DEF s
    <2>3. s[n - 1] \in Word /\ W[n] \in Word
      BY <1>4, <1>5, <2>1
    <2>4. l \in Word /\ l.name = s[n - 1].name /\ l.colon = W[n].colon
      BY <2>3 DEF Word
    <2> HIDE DEF P, l
    <2>5. /\ P \in Seq(Word) /\ Len(P) = n - 1 /\ P[n - 1] = l
          /\ \A k \in 1 .. n - 2 : P[k] = s[k]
      <3> DEFINE i == n - 1
      <3>1. i \in 1 .. Len(s)
        BY <2>1
      <3> HIDE DEF i
      <3>2. /\ [s EXCEPT ![i] = l] \in Seq(Word) /\ Len([s EXCEPT ![i] = l]) = Len(s)
            /\ \A j \in 1 .. Len(s) : [s EXCEPT ![i] = l][j] = IF j = i THEN l ELSE s[j]
        <4>1. s \in Seq(Word) /\ l \in Word
          BY <2>1, <2>4
        <4>2. QED
          BY <3>1, <4>1, ExceptSeq
      <3>3. P = [s EXCEPT ![i] = l]
        BY <2>2 DEF i
      <3>4. /\ P \in Seq(Word) /\ Len(P) = Len(s)
            /\ \A j \in 1 .. Len(s) : P[j] = IF j = i THEN l ELSE s[j]
        BY <3>2, <3>3, Zenon
      <3>5. \A k \in 1 .. n - 2 : k \in 1 .. Len(s) /\ k # i
        BY <1>5, <2>1 DEF i
      <3>6. P[i] = l
        BY <3>1, <3>4, Zenon
      <3>7. \A k \in 1 .. n - 2 : P[k] = s[k]
        BY <3>4, <3>5, Zenon
      <3>8. QED
        BY <2>1, <3>4, <3>6, <3>7 DEF i
    <2>6. \A k \in 1 .. n - 1 : s[k].name = W[k].name /\ s[k].colon = "none"
      BY <1>2, <1>5, <1>8, <2>1
    <2>7. \A k \in 1 .. n - 1 : P[k].name = W[k].name
      <3> TAKE k \in 1 .. n - 1
      <3>1. CASE k = n - 1
        BY <2>4, <2>5, <2>6, <3>1
      <3>2. CASE k \in 1 .. n - 2
        BY <2>5, <2>6, <3>2
      <3>3. QED
        BY <1>5, <3>1, <3>2
    <2>8. \A k \in 1 .. n - 2 : P[k].colon = "none"
      BY <1>5, <2>5, <2>6
    <2>9. Goal
      <3>1. n - 1 \in 1 .. n /\ (n - 1) - 1 = n - 2
        BY <1>5, <2>1
      <3>2. QED
        BY <1>2, <1>10, <2>4, <2>5, <2>7, <2>8, <3>1
    <2>10. QED
      BY <1>3, <1>6, <2>9 DEF W, n
  <1>11. QED
    BY <1>9, <1>10

(* So the line has the key it had.                                         *)
LEMMA MixedLine ==
    ASSUME NEW line \in Line
    PROVE  /\ MixKey(line) \in Line
           /\ HasKey(MixKey(line)) <=> HasKey(line)
           /\ HasKey(line) => Key(MixKey(line)) = Key(line)
           /\ MixKey(line) = EmptyLine => line = EmptyLine
  <1>1. CASE ~HasKey(line)
    BY <1>1 DEF MixKey
  <1>2. CASE HasKey(line)
    <2> DEFINE W == line.words
               n == Min(Colons(line))
    <2>1. W \in Seq(Word)
      BY DEF Line
    <2>2. n \in 1 .. Len(W)
      BY <1>2, <2>1, FirstColon
    <2>3. PICK P \in Seq(Word), R \in Seq(Word) :
             /\ MixKey(line) = [lead |-> FALSE, words |-> P \o R]
             /\ Len(P) \in 1 .. n
             /\ Len(P) = n \/ (Len(P) = n - 1 /\ ~IsText(W[n].name))
             /\ \A k \in 1 .. Len(P) : P[k].name = W[k].name
             /\ \A k \in 1 .. Len(P) - 1 : P[k].colon = "none"
             /\ P[Len(P)].colon # "none"
      BY <1>2, MixedWords, Zenon
    <2> DEFINE m == MixKey(line)
               V == P \o R
               p == Len(P)
    <2>4. /\ V \in Seq(Word) /\ Len(V) \in Nat /\ p <= Len(V)
          /\ \A k \in 1 .. p : V[k] = P[k]
      OBVIOUS
    <2>5. p \in Nat /\ p >= 1 /\ p \in 1 .. n
      BY <2>3
    <2>6. m \in Line /\ m.words = V
      BY <2>3, <2>4 DEF Line
    <2> HIDE DEF m, V, p, n, W
    <2>7. HasKey(m) /\ Min(Colons(m)) = p
      <3>1. p \in 1 .. Len(V) /\ V[p] = P[p]
        BY <2>4, <2>5
      <3>2. V[p].colon # "none"
        BY <2>3, <3>1 DEF p
      <3>3. \A k \in 1 .. p - 1 : V[k].colon = "none"
        <4>1. \A k \in 1 .. p - 1 : k \in 1 .. p /\ P[k].colon = "none"
          BY <2>3, <2>5 DEF p
        <4>2. QED
          BY <2>4, <4>1 DEF p
      <3>4. QED
        BY <2>4, <2>6, <3>1, <3>2, <3>3, IsFirstColon
    <2>8. [k \in 1 .. p |-> V[k].name] = [k \in 1 .. p |-> W[k].name]
      BY <2>3, <2>4 DEF p
    <2>9. Key(m) = Sifted([k \in 1 .. p |-> W[k].name], IsText)
      BY <2>6, <2>7, <2>8, Zenon DEF Key
    <2>10. p = n \/ (p = n - 1 /\ ~IsText(W[n].name))
      BY <2>3 DEF p
    <2>11. Key(line) = Sifted([k \in 1 .. n |-> W[k].name], IsText)
      BY Zenon DEF Key, n, W
    <2>12. Key(m) = Key(line)
      BY <2>1, <2>2, <2>5, <2>9, <2>10, <2>11, SameKey, Zenon
    <2>13. m # EmptyLine
      <3>1. Len(V) # 0
        BY <2>4, <2>5
      <3>2. EmptyLine.words = << >>
        BY DEF EmptyLine
      <3>3. QED
        BY <2>6, <3>1, <3>2
    <2>14. QED
      BY <1>2, <2>6, <2>7, <2>12, <2>13 DEF m
  <1>3. QED
    BY <1>1, <1>2

(* A header block in mixed case has the keys it had.                       *)
Header == Line \ {EmptyLine}
Mixed(s) == [j \in 1 .. Len(s) |-> MixKey(s[j])]

(* Mixing keeps headers headers, and their number.                         *)
LEMMA MixedType ==
    ASSUME NEW s \in Seq(Header)
    PROVE  Mixed(s) \in Seq(Header) /\ Len(Mixed(s)) = Len(s)
  <1>1. \A j \in 1 .. Len(s) : MixKey(s[j]) \in Header
    <2> TAKE j \in 1 .. Len(s)
    <2>1. s[j] \in Header
      OBVIOUS
    <2>2. QED
      BY <2>1, MixedLine DEF Header
  <1>2. Len(s) \in Nat
    OBVIOUS
  <1>3. QED
    BY <1>1, <1>2 DEF Mixed

(* Mixing goes line by line.                                               *)
LEMMA MixedAppend ==
    ASSUME NEW s \in Seq(Header), NEW x \in Header
    PROVE  Mixed(Append(s, x)) = Append(Mixed(s), MixKey(x))
  <1> DEFINE a == Append(s, x)
             p == Mixed(a)
             v == Mixed(s)
             q == Append(v, MixKey(x))
             n == Len(s)
  <1>1. /\ n \in Nat /\ a \in Seq(Header) /\ Len(a) = n + 1 /\ a[n + 1] = x
        /\ \A j \in 1 .. n : a[j] = s[j]
    OBVIOUS
  <1>2. MixKey(x) \in Header
    BY MixedLine DEF Header
  <1> HIDE DEF a
  <1>3. v \in Seq(Header) /\ Len(v) = n /\ \A j \in 1 .. n : v[j] = MixKey(s[j])
    BY MixedType DEF Mixed
  <1>4. p \in Seq(Header) /\ Len(p) = n + 1 /\ \A j \in 1 .. n + 1 : p[j] = MixKey(a[j])
    BY <1>1, MixedType DEF Mixed
  <1> HIDE DEF p, v, n
  <1>5. /\ q \in Seq(Header) /\ Len(q) = n + 1 /\ q[n + 1] = MixKey(x)
        /\ \A j \in 1 .. n : q[j] = v[j]
    BY <1>1, <1>2, <1>3
  <1> HIDE DEF q
  <1>6. ASSUME NEW j \in 1 .. Len(p) PROVE p[j] = q[j]
    <2>1. CASE j \in 1 .. n
      BY <1>1, <1>3, <1>4, <1>5, <1>6, <2>1
    <2>2. CASE j = n + 1
      BY <1>1, <1>4, <1>5, <2>2
    <2>3. QED
      BY <1>1, <1>4, <2>1, <2>2
  <1>7. p = q
    BY <1>4, <1>5, <1>6, SeqEqual, Zenon
  <1>8. QED
    BY <1>7 DEF p, q, a, v

(* apply_header_case_mixing rewrites keys without changing them.           *)
LEMMA MixingKeys ==
    ASSUME NEW s \in Seq(Header)
    PROVE  Keys(Mixed(s)) = Keys(s)
  <1> DEFINE T == {u \in Seq(Header) : Keys(Mixed(u)) = Keys(u)}
  <1>1. << >> \in T
    <2>1. Mixed(<< >>) = << >>
      BY DEF Mixed
    <2>2. QED
      BY <2>1
  <1>2. ASSUME NEW u \in Seq(Header), NEW x \in Header, u \in T
        PROVE  Append(u, x) \in T
    <2> DEFINE v == Mixed(u)
               y == MixKey(x)
    <2>1. v \in Seq(Header) /\ Keys(v) = Keys(u)
      BY <1>2, MixedType
    <2>2. y \in Header /\ (HasKey(y) <=> HasKey(x)) /\ (HasKey(x) => Key(y) = Key(x))
      BY MixedLine DEF Header
    <2>3. Mixed(Append(u, x)) = Append(v, y)
      BY MixedAppend
    <2> HIDE DEF v, y
    <2>4. Keys(Append(v, y)) = IF HasKey(y) THEN Append(Keys(v), Key(y)) ELSE Keys(v)
      BY <2>1, <2>2, KeysAppend
    <2>5. Keys(Append(u, x)) = IF HasKey(x) THEN Append(Keys(u), Key(x)) ELSE Keys(u)
      BY KeysAppend
    <2>6. Keys(Mixed(Append(u, x))) = Keys(Append(u, x))
      BY <2>1, <2>2, <2>3, <2>4, <2>5, Zenon
    <2>7. QED
      BY <2>6
  <1> HIDE DEF T
  <1>3. s \in T
    BY <1>1, <1>2, SeqSetInduction
  <1>4. QED
    BY <1>3 DEF T

-----------------------------------------------------------------------------
(* The header block of a text.                                             *)

(* A text that is a first line, a header block and perhaps an empty line.  *)
Shaped(t, f, M) == t = <<f>> \o M \/ t = Append(<<f>> \o M, EmptyLine)

(* Its lines stand where one expects them,                                 *)
LEMMA StartOf ==
    ASSUME NEW f \in Line, NEW M \in Seq(Header)
    PROVE  LET b == <<f>> \o M
           IN  /\ b \in Seq(Line) /\ Len(b) = Len(M) + 1 /\ b[1] = f /\ Tail(b) = M
               /\ \A j \in 2 .. Len(b) : b[j] # EmptyLine
  <1>1. M \in Seq(Line)
    BY SeqMonotonic DEF Header
  <1> DEFINE b == <<f>> \o M
  <1>2. /\ b \in Seq(Line) /\ Len(b) = Len(M) + 1 /\ b[1] = f /\ Len(M) \in Nat
        /\ \A j \in 1 .. Len(M) : b[j + 1] = M[j]
    BY <1>1
  <1> HIDE DEF b
  <1>3. Tail(b) = M
    <2> DEFINE v == Tail(b)
    <2>1. v \in Seq(Line) /\ Len(v) = Len(M) /\ \A j \in 1 .. Len(M) : v[j] = M[j]
      BY <1>2
    <2> HIDE DEF v
    <2>2. v = M
      BY <1>1, <2>1, SeqEqual, Zenon
    <2>3. QED
      BY <2>2 DEF v
  <1>4. ASSUME NEW j \in 2 .. Len(b) PROVE b[j] # EmptyLine
    <2>1. j - 1 \in 1 .. Len(M) /\ (j - 1) + 1 = j
      BY <1>2
    <2>2. M[j - 1] \in Header
      BY <2>1
    <2>3. QED
      BY <1>2, <2>1, <2>2 DEF Header
  <1>5. QED
    BY <1>2, <1>3, <1>4 DEF b

(* and its header block is that block.                                     *)
LEMMA ShapedText ==
    ASSUME NEW t, NEW f \in Line, NEW M \in Seq(Header), Shaped(t, f, M)
    PROVE  /\ t \in Seq(Line) \ {<< >>} /\ t[1] = f /\ HeaderBlock(t) = M
           /\ Tail(t) = M \/ Tail(t) = Append(M, EmptyLine)
           /\ \/ lines(t) = <<f>> \o M /\ HeadLines(lines(t)) = <<f>> \o M
              \/ lines(t) = << >> /\ t = <<EmptyLine>> /\ M = << >>
  <1> DEFINE b == <<f>> \o M
  <1>0. EmptyLine \in Line
    BY DEF EmptyLine, Line
  <1>1. /\ b \in Seq(Line) /\ Len(b) = Len(M) + 1 /\ b[1] = f /\ Tail(b) = M
        /\ \A j \in 2 .. Len(b) : b[j] # EmptyLine
    BY StartOf
  <1>2. t = b \/ t = Append(b, EmptyLine)
    BY DEF Shaped
  <1>3. Len(M) \in Nat
    OBVIOUS
  <1>4. b # << >> /\ Len(b) \in Nat /\ Len(b) >= 1
    BY <1>1, <1>3
  <1> HIDE DEF b
  <1>5. ASSUME lines(t) = b PROVE HeaderBlock(t) = M /\ HeadLines(lines(t)) = b
    <2>1. HeadLines(b) = b
      BY <1>1 DEF HeadLines
    <2>2. QED
      BY <1>1, <1>4, <1>5, <2>1 DEF HeaderBlock
  <1> DEFINE Ls == \/ lines(t) = b /\ HeadLines(lines(t)) = b
                   \/ lines(t) = << >> /\ t = <<EmptyLine>> /\ M = << >>
  <1>6. CASE t = b
    <2>1. HeaderBlock(t) = M /\ Ls
      <3>1. CASE Len(M) = 0 /\ f = EmptyLine
        <4>1. Last(b) = EmptyLine /\ Front(b) = << >>
          BY <1>1, <3>1 DEF Last, Front
        <4>2. HeaderBlock(t) = << >>
          BY <1>6, <4>1 DEF HeaderBlock, lines
        <4>3. M = << >>
          BY <3>1
        <4>4. lines(t) = << >> /\ t = <<EmptyLine>>
          <5>1. b = <<EmptyLine>>
            BY <1>1, <3>1
          <5>2. QED
            BY <1>6, <4>1, <5>1 DEF lines
        <4>5. QED
          BY <4>2, <4>3, <4>4
      <3>2. CASE ~(Len(M) = 0 /\ f = EmptyLine)
        <4>1. Last(b) # EmptyLine
          BY <1>1, <1>3, <3>2 DEF Last
        <4>2. lines(t) = b
          BY <1>6, <4>1 DEF lines
        <4>3. QED
          BY <1>5, <4>2
      <3>3. QED
        BY <3>1, <3>2
    <2>2. QED
      BY <1>1, <1>4, <1>6, <2>1 DEF b
  <1>7. CASE t = Append(b, EmptyLine)
    <2>1. /\ t \in Seq(Line) /\ t # << >> /\ Len(t) = Len(b) + 1 /\ t[1] = f
          /\ Last(t) = EmptyLine /\ Front(t) = b
      BY <1>0, <1>1, <1>4, <1>7 DEF Last, Front
    <2>2. lines(t) = b
      BY <2>1 DEF lines
    <2>3. Tail(t) = Append(M, EmptyLine)
      BY <1>0, <1>1, <1>4, <1>7, HeadTailAppend, Zenon
    <2>4. QED
      BY <1>5, <2>1, <2>2, <2>3 DEF b
  <1>8. QED
    BY <1>2, <1>6, <1>7

(* Any text's header block ends with its only empty line, if it has one.   *)
LEMMA BlockOf ==
    ASSUME NEW t \in Seq(Line) \ {<< >>}
    PROVE  LET ls == lines(t)
               B  == HeaderBlock(t)
           IN  /\ ls = << >> => t = <<EmptyLine>> /\ B = << >>
               /\ ls # << >> => ls[1] = t[1] /\ B = Tail(HeadLines(ls))
               /\ \E M \in Seq(Header) : B = M \/ B = Append(M, EmptyLine)
  <1> DEFINE ls == lines(t)
             B  == HeaderBlock(t)
  <1>1. Len(t) \in Nat /\ Len(t) >= 1 /\ t \in Seq(Line)
    OBVIOUS
  <1>2. /\ ls \in Seq(Line)
        /\ ls = << >> => t = <<EmptyLine>>
        /\ ls # << >> => ls[1] = t[1]
    <2>1. CASE Last(t) = EmptyLine
      <3>1. ls = SubSeq(t, 1, Len(t) - 1)
        BY <2>1 DEF lines, Front
      <3>2. ls \in Seq(Line) /\ Len(ls) = Len(t) - 1 /\ (Len(t) > 1 => ls[1] = t[1])
        <4> DEFINE n == Len(t) - 1
                   s == SubSeq(t, 1, n)
        <4>1. n \in Nat /\ n <= Len(t) /\ t \in Seq(Line)
          BY <1>1
        <4> HIDE DEF n
        <4>2. s \in Seq(Line) /\ Len(s) = n /\ (n > 0 => s[1] = t[1])
          BY <4>1
        <4>3. ls = s
          BY <3>1 DEF n
        <4> HIDE DEF s, ls
        <4>4. ls \in Seq(Line) /\ Len(ls) = n /\ (n > 0 => ls[1] = t[1])
          BY <4>2, <4>3
        <4>5. Len(t) > 1 => n > 0
          BY <1>1 DEF n
        <4>6. QED
          BY <4>4, <4>5 DEF n
      <3>3. CASE Len(t) = 1
        <4>1. t[1] = EmptyLine
          BY <2>1, <3>3 DEF Last
        <4>2. t = <<EmptyLine>>
          BY <1>1, <3>3, <4>1
        <4>3. ls = << >>
          BY <3>2, <3>3
        <4>4. QED
          BY <3>2, <4>2, <4>3
      <3>4. CASE Len(t) > 1
        BY <1>1, <3>2, <3>4
      <3>5. QED
        <4>1. \A k \in Nat : k >= 1 => k = 1 \/ k > 1
          OBVIOUS
        <4>2. Len(t) = 1 \/ Len(t) > 1
          BY <1>1, <4>1, Zenon
        <4>3. QED
          BY <3>3, <3>4, <4>2, Zenon
    <2>2. CASE Last(t) # EmptyLine
      BY <1>1, <2>2 DEF lines
    <2>3. QED
      BY <2>1, <2>2
  <1> HIDE DEF ls
  <1>3. B = IF ls = << >> THEN << >> ELSE Tail(HeadLines(ls))
    BY DEF HeaderBlock, ls
  <1>4. \E M \in Seq(Header) : B = M \/ B = Append(M, EmptyLine)
    <2>1. CASE ls = << >>
      <3>1. B = << >> /\ << >> \in Seq(Header)
        BY <1>3, <2>1
      <3>2. QED
        BY <3>1, Zenon
    <2>2. CASE ls # << >>
      <3> DEFINE ends == {j \in 2 .. Len(ls) : ls[j] = EmptyLine}
      <3>1. Len(ls) \in Nat /\ Len(ls) >= 1
        BY <1>2, <2>2
      <3>2. CASE ends = {}
        <4> DEFINE M == Tail(ls)
        <4>1. HeadLines(ls) = ls
          BY <3>2 DEF HeadLines
        <4>2. /\ M \in Seq(Line) /\ Len(M) \in Nat
              /\ \A j \in 1 .. Len(M) : M[j] = ls[j + 1] /\ j + 1 \in 2 .. Len(ls)
          BY <1>2, <3>1
        <4>3. \A j \in 1 .. Len(M) : M[j] \in Header
          BY <3>2, <4>2 DEF Header
        <4>4. B = M
          BY <1>3, <2>2, <4>1
        <4> HIDE DEF M
        <4>5. M \in Seq(Header)
          BY <4>2, <4>3
        <4>6. QED
          BY <4>4, <4>5
      <3>3. CASE ends # {}
        <4> DEFINE e == Min(ends)
                   M == SubSeq(ls, 2, e - 1)
        <4>1. ends \in SUBSET Nat
          BY <3>1
        <4>2. e \in ends /\ \A k \in ends : e <= k
          BY <3>3, <4>1, MinIsLeast
        <4>3. HeadLines(ls) = SubSeq(ls, 1, e)
          BY <3>3 DEF HeadLines
        <4> HIDE DEF e
        <4>4. e \in 2 .. Len(ls) /\ ls[e] = EmptyLine
          BY <4>2
        <4>5. \A j \in 2 .. e - 1 : ls[j] # EmptyLine
          <5> SUFFICES ASSUME NEW j \in 2 .. e - 1, ls[j] = EmptyLine PROVE FALSE
            OBVIOUS
          <5>1. j \in ends
            BY <3>1, <4>4
          <5>2. QED
            BY <4>2, <4>4, <5>1
        <4> HIDE DEF ends
        <4>6. /\ M \in Seq(Line) /\ Len(M) = e - 2
              /\ \A j \in 1 .. e - 2 : M[j] = ls[j + 1] /\ j + 1 \in 2 .. e - 1
          BY <1>2, <3>1, <4>4
        <4> HIDE DEF M
        <4>7. M \in Seq(Header)
          <5>1. \A j \in 1 .. e - 2 : M[j] \in Header
            BY <4>5, <4>6 DEF Header
          <5>2. e - 2 \in Nat
            BY <4>4
          <5>3. QED
            BY <4>6, <5>1, <5>2
        <4> DEFINE p == Tail(SubSeq(ls, 1, e))
                   q == Append(M, EmptyLine)
        <4>8. /\ p \in Seq(Line) /\ Len(p) = e - 1
              /\ \A j \in 1 .. e - 1 : p[j] = ls[j + 1]
          <5> DEFINE s == SubSeq(ls, 1, e)
          <5>1. /\ s \in Seq(Line) /\ Len(s) = e /\ s # << >>
                /\ \A j \in 1 .. e : s[j] = ls[j]
            BY <1>2, <3>1, <4>4
          <5> HIDE DEF s
          <5>2. /\ Tail(s) \in Seq(Line) /\ Len(Tail(s)) = e - 1
                /\ \A j \in 1 .. e - 1 : Tail(s)[j] = s[j + 1] /\ j + 1 \in 1 .. e
            BY <4>4, <5>1
          <5>3. QED
            BY <5>1, <5>2 DEF s
        <4>9. /\ q \in Seq(Line) /\ Len(q) = e - 1 /\ q[e - 1] = EmptyLine
              /\ \A j \in 1 .. e - 2 : q[j] = M[j]
          <5>1. EmptyLine \in Line
            BY DEF EmptyLine, Line
          <5>2. QED
            BY <4>4, <4>6, <5>1
        <4>10. B = p
          BY <1>3, <2>2, <4>3
        <4> HIDE DEF p, q
        <4>11. ASSUME NEW j \in 1 .. Len(p) PROVE p[j] = q[j]
          <5>1. CASE j \in 1 .. e - 2
            BY <4>6, <4>8, <4>9, <4>11, <5>1
          <5>2. CASE j = e - 1
            <6>1. p[j] = ls[j + 1] /\ j + 1 = e
              BY <4>4, <4>8, <4>11, <5>2
            <6>2. QED
              BY <4>4, <4>9, <5>2, <6>1
          <5>3. QED
            BY <4>4, <4>8, <4>11, <5>1, <5>2
        <4>12. p = q
          BY <4>8, <4>9, <4>11, SeqEqual, Zenon
        <4>13. QED
          BY <4>7, <4>10, <4>12 DEF q
      <3>4. QED
        BY <3>2, <3>3
    <2>3. QED
      BY <2>1, <2>2
  <1>5. QED
    BY <1>2, <1>3, <1>4 DEF ls

(* What is appended stays last.                                            *)
LEMMA ConcatOfAppend ==
    ASSUME NEW f \in Line, NEW M \in Seq(Line), NEW x \in Line
    PROVE  <<f>> \o Append(M, x) = Append(<<f>> \o M, x)
  <1>1. <<f>> \in Seq(Line) /\ <<x>> \in Seq(Line) /\ <<f>> \o M \in Seq(Line)
    OBVIOUS
  <1>2. Append(M, x) = M \o <<x>> /\ Append(<<f>> \o M, x) = (<<f>> \o M) \o <<x>>
    BY <1>1, AppendIsConcat, Zenon
  <1>3. (<<f>> \o M) \o <<x>> = <<f>> \o (M \o <<x>>)
    <2> DEFINE s == <<f>>
               u == <<x>>
    <2>1. s \in Seq(Line) /\ u \in Seq(Line)
      BY <1>1
    <2> HIDE DEF s, u
    <2>2. (s \o M) \o u = s \o (M \o u)
      BY <2>1, ConcatAssociative
    <2>3. QED
      BY <2>2 DEF s, u
  <1>4. QED
    BY <1>2, <1>3, Zenon

-----------------------------------------------------------------------------
(* The stages.                                                             *)

(* The client's text, and the keys of its headers.                         *)
LEMMA RequestIsText ==
    ASSUME IInv
    PROVE  request \in Seq(Line) \ {<< >>} /\ request[1] \in Line
  <1>1. request \in Seq(Line) \ {<< >>}
    BY HttpRequestAssumption DEF IInv
  <1>2. QED
    BY <1>1

(* What a stage has to leave behind.                                       *)
LEMMA StageDone ==
    ASSUME IInv, NEW f \in Line, NEW M \in Seq(Header), Shaped(text', f, M),
           SameStart(f.words, request[1].words),
           Keys(M) = Sifted(Keys(HeaderBlock(request)), Stays),
           request' = request, stage' \in {"space", "mix", "dispatch"}
    PROVE  IInv'
  <1>1. text' \in Seq(Line) \ {<< >>} /\ text'[1] = f /\ HeaderBlock(text') = M
    BY ShapedText
  <1>2. FirstLineKept'
    BY <1>1 DEF FirstLineKept
  <1>3. OnlyHeadersLeft'
    BY <1>1 DEF OnlyHeadersLeft, Shaped, Header
  <1>4. OnlyListedHeadersGo'
    BY <1>1 DEF OnlyListedHeadersGo
  <1>5. DispatchedAsAsked'
    BY DEF DispatchedAsAsked
  <1>6. QED
    BY <1>1, <1>2, <1>3, <1>4, <1>5 DEF IInv

(* What it finds.                                                          *)
LEMMA StageStarts ==
    ASSUME IInv, stage # "strip"
    PROVE  LET M == HeaderBlock(text)
           IN  /\ text[1] \in Line /\ M \in Seq(Header) /\ Shaped(text, text[1], M)
               /\ SameStart(text[1].words, request[1].words)
               /\ Keys(M) = Sifted(Keys(HeaderBlock(request)), Stays)
  <1>1. text \in Seq(Line) \ {<< >>}
    BY DEF IInv
  <1>2. text[1] \in Line
    BY <1>1
  <1>3. HeaderBlock(text) \in Seq(Header) /\ Shaped(text, text[1], HeaderBlock(text))
    BY DEF IInv, OnlyHeadersLeft, Shaped, Header
  <1>4. QED
    BY <1>2, <1>3 DEF IInv, FirstLineKept, OnlyListedHeadersGo

(* Two texts that start alike.                                             *)
LEMMA StartsAlike ==
    ASSUME NEW line \in Line, NEW old, SameStart(line.words, old)
    PROVE  /\ apply_connect_space_insertion(line) \in Line
           /\ SameStart(apply_connect_space_insertion(line).words, old)
  <1> DEFINE W == line.words
             n == IF Len(W) = 2 THEN 2 ELSE 3
             V == SubSeq(W, 1, n)
  <1>1. W \in Seq(Word) /\ Len(W) \in Nat
    BY DEF Line
  <1>2. CASE Len(W) < 2
    BY <1>2 DEF apply_connect_space_insertion
  <1>3. CASE ~(Len(W) < 2)
    <2>1. apply_connect_space_insertion(line) = [lead |-> FALSE, words |-> V]
      BY <1>3 DEF apply_connect_space_insertion
    <2> HIDE DEF W
    <2>2. n \in Nat /\ n >= 2 /\ n <= Len(W)
      <3>1. \A k \in Nat : ~(k < 2) => LET m == IF k = 2 THEN 2 ELSE 3
                                       IN  m \in Nat /\ m >= 2 /\ m <= k
        OBVIOUS
      <3>2. QED
        BY <1>1, <1>3, <3>1, Zenon
    <2> HIDE DEF n
    <2>3. V \in Seq(Word) /\ Len(V) = n /\ \A k \in 1 .. n : V[k] = W[k]
      BY <1>1, <2>2
    <2> HIDE DEF V
    <2>4. V # << >> /\ W # << >> /\ Len(V) >= 2 /\ Len(W) >= 2 /\ V[1] = W[1] /\ V[2] = W[2]
      BY <1>1, <1>3, <2>2, <2>3
    <2>5. SameStart(W, old)
      BY DEF W
    <2>6. SameStart(V, old)
      BY <2>4, <2>5 DEF SameStart
    <2>7. QED
      BY <2>1, <2>3, <2>6 DEF Line
  <1>4. QED
    BY <1>2, <1>3

(* strip_proxy_headers                                                     *)
LEMMA StripStep == IInv /\ StripHeaders => IInv'
  <1> SUFFICES ASSUME IInv, StripHeaders PROVE IInv'
    OBVIOUS
  <1> DEFINE ls == lines(request)
             B  == HeaderBlock(request)
  <1>1. /\ text' = join(strip_proxy_headers(ls)) /\ request' = request /\ stage' = "space"
        /\ FirstLineKept
    BY DEF IInv, StripHeaders
  <1>2. request \in Seq(Line) \ {<< >>} /\ request[1] \in Line
    BY RequestIsText
  <1>3. /\ ls = << >> => request = <<EmptyLine>> /\ B = << >>
        /\ ls # << >> => ls[1] = request[1] /\ B = Tail(HeadLines(ls))
        /\ \E M \in Seq(Header) : B = M \/ B = Append(M, EmptyLine)
    BY <1>2, BlockOf
  <1>4. SameStart(request[1].words, request[1].words)
    BY DEF SameStart
  <1>5. EmptyLine \in Line /\ ~HasKey(EmptyLine) /\ Keep(EmptyLine)
    BY DEF EmptyLine, Line, HasKey, Colons, Keep, IsProxyHeader
  <1> HIDE DEF ls, B
  <1>6. CASE ls = << >>
    <2>1. text' = <<EmptyLine>>
      BY <1>1, <1>6 DEF strip_proxy_headers, join
    <2> DEFINE M == << >>
    <2>2. M \in Seq(Header)
      OBVIOUS
    <2>3. Shaped(text', request[1], M)
      BY <1>3, <1>6, <2>1 DEF Shaped
    <2>4. Keys(M) = Sifted(Keys(B), Stays)
      BY <1>3, <1>6, KeysNothing, SiftedNothing
    <2> HIDE DEF M
    <2>5. QED
      BY <1>1, <1>2, <1>4, <2>2, <2>3, <2>4, StageDone DEF B
  <1>7. CASE ls # << >>
    <2>1. PICK H \in Seq(Header) : B = H \/ B = Append(H, EmptyLine)
      BY <1>3
    <2> DEFINE M == Sifted(H, Keep)
    <2>2. M \in Seq(Header)
      <3>1. Sifted(H, Keep) = Pick(H, {y \in Header : Keep(y)})
        BY SiftedIsPick, Zenon
      <3>2. QED
        BY <3>1, PickType, Zenon
    <2>3. H \in Seq(Line)
      BY SeqMonotonic DEF Header
    <2>4. Keys(B) = Keys(H)
      BY <1>5, <2>1, <2>3, KeysAppend
    <2>5. Keys(M) = Sifted(Keys(B), Stays)
      BY <2>4, KeepingKeys
    <2>6. Sifted(B, Keep) = M \/ Sifted(B, Keep) = Append(M, EmptyLine)
      BY <1>5, <2>1, <2>3, KeepAppend, Zenon
    <2>7. text' = <<request[1]>> \o Sifted(B, Keep)
      <3>1. strip_proxy_headers(ls) = <<request[1]>> \o Sifted(B, Keep)
        BY <1>3, <1>7 DEF strip_proxy_headers
      <3> DEFINE G == Sifted(B, Keep)
      <3>2. G \in Seq(Line)
        <4>1. M \in Seq(Line)
          BY <2>2, SeqMonotonic DEF Header
        <4> HIDE DEF M
        <4>2. Append(M, EmptyLine) \in Seq(Line)
          BY <1>5, <4>1
        <4>3. QED
          BY <2>6, <4>1, <4>2
      <3> HIDE DEF G
      <3>3. <<request[1]>> \o G # << >>
        BY <1>2, <3>2
      <3>4. QED
        BY <1>1, <3>1, <3>3 DEF join, G
    <2>8. Shaped(text', request[1], M)
      <3> HIDE DEF M
      <3>1. CASE Sifted(B, Keep) = M
        BY <2>7, <3>1 DEF Shaped
      <3>2. CASE Sifted(B, Keep) = Append(M, EmptyLine)
        <4>1. M \in Seq(Line)
          BY <2>2, SeqMonotonic DEF Header
        <4>2. <<request[1]>> \o Append(M, EmptyLine) = Append(<<request[1]>> \o M, EmptyLine)
          BY <1>2, <1>5, <4>1, ConcatOfAppend
        <4>3. QED
          BY <2>7, <3>2, <4>2 DEF Shaped
      <3>3. QED
        BY <2>6, <3>1, <3>2
    <2> HIDE DEF M
    <2>9. QED
      BY <1>1, <1>2, <1>4, <2>2, <2>5, <2>8, StageDone DEF B
  <1>8. QED
    BY <1>6, <1>7

(* apply_connect_space_insertion                                           *)
LEMMA SpaceStep == IInv /\ InsertSpaces => IInv'
  <1> SUFFICES ASSUME IInv, InsertSpaces PROVE IInv'
    OBVIOUS
  <1> DEFINE f == text[1]
             M == HeaderBlock(text)
             g == apply_connect_space_insertion(f)
             R == Tail(text)
  <1>1. /\ request' = request /\ stage' = "mix"
        /\ text' = IF ~http_space THEN text
                   ELSE <<g>> \o (IF R = <<EmptyLine>> THEN << >> ELSE R)
    BY DEF InsertSpaces
  <1>2. /\ f \in Line /\ M \in Seq(Header) /\ Shaped(text, f, M)
        /\ SameStart(f.words, request[1].words)
        /\ Keys(M) = Sifted(Keys(HeaderBlock(request)), Stays)
    BY StageStarts DEF InsertSpaces
  <1>3. g \in Line /\ SameStart(g.words, request[1].words)
    BY <1>2, StartsAlike
  <1>4. R = M \/ R = Append(M, EmptyLine)
    BY <1>2, ShapedText
  <1>5. M \in Seq(Line) /\ EmptyLine \in Line
    <2>1. Header \subseteq Line
      BY DEF Header
    <2>2. M \in Seq(Line)
      BY <1>2, <2>1, SeqMonotonic
    <2>3. EmptyLine \in Line
      BY DEF EmptyLine, Line
    <2>4. QED
      BY <2>2, <2>3
  <1> HIDE DEF f, M, g, R
  <1>6. CASE ~http_space
    BY <1>1, <1>2, <1>6, StageDone DEF M
  <1>7. CASE http_space
    <2>1. Shaped(text', g, M)
      <3>1. CASE R = <<EmptyLine>>
        <4>1. text' = <<g>> \o << >>
          BY <1>1, <1>7, <3>1
        <4>2. M = << >>
          <5>1. CASE M = <<EmptyLine>>
            <6>1. M[1] \in Header /\ M[1] = EmptyLine
              BY <1>2, <5>1
            <6>2. QED
              BY <6>1 DEF Header
          <5>2. CASE Append(M, EmptyLine) = <<EmptyLine>>
            <6>1. Len(M) + 1 = 1 /\ Len(M) \in Nat
              BY <1>5, <5>2
            <6>2. Len(M) = 0
              BY <6>1
            <6>3. QED
              BY <1>5, <6>2
          <5>3. QED
            BY <1>4, <3>1, <5>1, <5>2
        <4>3. QED
          BY <4>1, <4>2 DEF Shaped
      <3>2. CASE R # <<EmptyLine>>
        <4>1. text' = <<g>> \o R
          BY <1>1, <1>7, <3>2
        <4>2. <<g>> \o Append(M, EmptyLine) = Append(<<g>> \o M, EmptyLine)
          BY <1>3, <1>5, ConcatOfAppend
        <4>3. QED
          BY <1>4, <4>1, <4>2, Zenon DEF Shaped
      <3>3. QED
        BY <3>1, <3>2
    <2>2. QED
      BY <1>1, <1>2, <1>3, <2>1, StageDone DEF M
  <1>8. QED
    BY <1>6, <1>7

(* apply_header_case_mixing                                                *)
LEMMA MixStep == IInv /\ MixHeaderCase => IInv'
  <1> SUFFICES ASSUME IInv, MixHeaderCase PROVE IInv'
    OBVIOUS
  <1> DEFINE f  == text[1]
             M  == HeaderBlock(text)
             ls == lines(text)
             b  == <<f>> \o M
  <1>1. /\ request' = request /\ stage' = "dispatch"
        /\ text' = IF mix_header_case THEN join(apply_header_case_mixing(ls)) ELSE text
    BY DEF MixHeaderCase
  <1>2. /\ f \in Line /\ M \in Seq(Header) /\ Shaped(text, f, M)
        /\ SameStart(f.words, request[1].words)
        /\ Keys(M) = Sifted(Keys(HeaderBlock(request)), Stays)
    BY StageStarts DEF MixHeaderCase
  <1>3. \/ ls = b /\ HeadLines(ls) = b
        \/ ls = << >> /\ text = <<EmptyLine>> /\ M = << >>
    BY <1>2, ShapedText
  <1>4. b \in Seq(Line) /\ Len(b) = Len(M) + 1 /\ b[1] = f /\ Tail(b) = M
    BY <1>2, StartOf
  <1> HIDE DEF f, M, ls, b
  <1>5. CASE ~mix_header_case
    BY <1>1, <1>2, <1>5, StageDone DEF M
  <1>6. CASE mix_header_case /\ ls = << >> /\ text = <<EmptyLine>> /\ M = << >>
    <2>1. HeadLines(<< >>) = << >>
      BY DEF HeadLines
    <2>2. apply_header_case_mixing(ls) = << >>
      BY <1>6, <2>1 DEF apply_header_case_mixing
    <2>3. text' = text
      BY <1>1, <1>6, <2>2 DEF join
    <2>4. QED
      BY <1>1, <1>2, <2>3, StageDone DEF M
  <1>7. CASE mix_header_case /\ ls = b /\ HeadLines(ls) = b
    <2> DEFINE N == Mixed(M)
               p == apply_header_case_mixing(ls)
               q == <<f>> \o N
    <2>1. N \in Seq(Header) /\ Len(N) = Len(M) /\ Keys(N) = Keys(M)
      BY <1>2, MixedType, MixingKeys
    <2>2. \A j \in 1 .. Len(M) : N[j] = MixKey(M[j]) /\ b[j + 1] = M[j]
      <3>1. \A j \in 1 .. Len(M) : Tail(b)[j] = b[j + 1]
        BY <1>2, <1>4
      <3>2. QED
        BY <1>4, <3>1 DEF Mixed
    <2>3. p = [j \in 1 .. Len(b) |-> IF j = 1 THEN b[j] ELSE MixKey(b[j])]
      BY <1>7 DEF apply_header_case_mixing
    <2> HIDE DEF N, p
    <2>4. Len(M) \in Nat
      BY <1>2
    <2>5. \A j \in 1 .. Len(b) : (IF j = 1 THEN b[j] ELSE MixKey(b[j])) \in Line
      <3>1. \A j \in 1 .. Len(b) : b[j] \in Line
        BY <1>4
      <3>2. QED
        BY <3>1, MixedLine
    <2>6. /\ p \in Seq(Line) /\ Len(p) = Len(M) + 1 /\ p[1] = f
          /\ \A j \in 1 .. Len(M) : p[j + 1] = MixKey(b[j + 1])
      BY <1>4, <2>3, <2>4, <2>5
    <2>7. /\ q \in Seq(Line) /\ Len(q) = Len(M) + 1 /\ q[1] = f
          /\ \A j \in 1 .. Len(M) : q[j + 1] = N[j]
      <3>1. N \in Seq(Line)
        BY <2>1, SeqMonotonic DEF Header
      <3>2. QED
        BY <1>2, <2>1, <2>4, <3>1
    <2> HIDE DEF q
    <2>8. ASSUME NEW j \in 1 .. Len(p) PROVE p[j] = q[j]
      <3>1. CASE j = 1
        BY <2>6, <2>7, <3>1
      <3>2. CASE j # 1
        <4> DEFINE k == j - 1
        <4>1. k \in 1 .. Len(M) /\ j = k + 1
          BY <2>4, <2>6, <2>8, <3>2
        <4> HIDE DEF k
        <4>2. p[k + 1] = q[k + 1]
          BY <2>2, <2>6, <2>7, <4>1
        <4>3. QED
          BY <4>1, <4>2
      <3>3. QED
        BY <3>1, <3>2
    <2>9. p = q
      BY <2>6, <2>7, <2>8, SeqEqual, Zenon
    <2>10. p # << >>
      BY <2>4, <2>6
    <2>11. text' = <<f>> \o N
      BY <1>1, <1>7, <2>9, <2>10 DEF join, q, p
    <2>12. Shaped(text', f, N)
      BY <2>11 DEF Shaped
    <2>13. QED
      BY <1>1, <1>2, <2>1, <2>12, StageDone
  <1>8. QED
    BY <1>3, <1>5, <1>6, <1>7

(* The first word of a text, if its first line has one.                    *)
LEMMA FirstWord ==
    ASSUME NEW t \in Seq(Line) \ {<< >>}, t[1].words # << >>
    PROVE  is_http_connect(t) <=> IsConnect(t[1].words[1])
  <1> DEFINE c == [j \in 1 .. Len(t) |-> t[j].words]
  <1>1. \A j \in 1 .. Len(t) : t[j].words \in Seq(Word)
    <2>1. \A j \in 1 .. Len(t) : t[j] \in Line
      OBVIOUS
    <2>2. QED
      BY <2>1 DEF Line
  <1>2. Len(t) \in Nat /\ Len(t) >= 1
    OBVIOUS
  <1>3. c \in Seq(Seq(Word)) /\ c # << >> /\ c[1] = t[1].words
    BY <1>1, <1>2
  <1>4. AllWords(t) = FlattenSeq(c)
    BY DEF AllWords
  <1> HIDE DEF c
  <1>5. AllWords(t) # << >> /\ AllWords(t)[1] = t[1].words[1]
    BY <1>3, <1>4, FlattenStart
  <1>6. QED
    BY <1>5 DEF is_http_connect

(* The handler chosen is the one the client's own text would have had.     *)
LEMMA DispatchStep == IInv /\ Dispatch => IInv'
  <1> SUFFICES ASSUME IInv, Dispatch PROVE IInv'
    OBVIOUS
  <1>1. /\ request' = request /\ literal' = literal /\ text' = text
        /\ stage = "dispatch" /\ stage' = "handled"
    BY DEF Dispatch
  <1>2. FirstLineKept' /\ OnlyHeadersLeft' /\ OnlyListedHeadersGo'
    BY <1>1 DEF IInv, FirstLineKept, OnlyHeadersLeft, OnlyListedHeadersGo
  <1> DEFINE new == text[1].words
             old == request[1].words
  <1>3. text \in Seq(Line) \ {<< >>}
    BY DEF IInv
  <1>4. SameStart(new, old) /\ new \in Seq(Word) /\ old \in Seq(Word)
    <2>1. text[1] \in Line /\ request[1] \in Line
      BY <1>3, RequestIsText
    <2>2. QED
      BY <2>1 DEF IInv, FirstLineKept, Line
  <1>5. new # << >> => (is_http_connect(text) <=> IsConnect(new[1]))
    BY <1>3, FirstWord
  <1> DEFINE target == parse_connect_target(text)
             asked  == parse_connect_target(request)
  <1>6. /\ Len(new) >= 2 <=> Len(old) >= 2
        /\ new = << >> <=> old = << >>
        /\ new # << >> => old[1] = new[1]
        /\ Len(new) >= 2 => old[2] = new[2] /\ new # << >>
    <2> HIDE DEF new, old
    <2>1. Len(new) \in Nat /\ (new # << >> => Len(new) >= 1)
      BY <1>4
    <2>2. QED
      BY <1>4, <2>1 DEF SameStart
  <1>7. /\ target = IF Len(new) >= 2 /\ IsConnect(new[1]) /\ new[2].colon # "text"
                    THEN new[2].name ELSE "none"
        /\ asked = IF Len(old) >= 2 /\ IsConnect(old[1]) /\ old[2].colon # "text"
                   THEN old[2].name ELSE "none"
    BY DEF parse_connect_target
  <1>8. StartsGetOrPost(request) => old # << >>
    BY DEF StartsGetOrPost
  <1>9. old # << >> => (is_http_connect(request) <=> IsConnect(old[1]))
    BY RequestIsText, FirstWord
  <1> DEFINE Chosen(c, g) == IF c THEN [kind |-> IF g = "none" THEN "bad_request" ELSE "tunnel",
                                        target |-> g]
                             ELSE [kind |-> IF StartsGetOrPost(request)
                                            THEN "redirect" ELSE "not_found",
                                   target |-> "none"]
  <1>10. /\ handler' = Chosen(is_http_connect(text), target)
         /\ HandlerOf(request) = Chosen(is_http_connect(request), asked)
    BY DEF Dispatch, HandlerOf
  <1>11. HandlerOf(request)' = HandlerOf(request)
    BY <1>1 DEF HandlerOf, StartsGetOrPost
  <1> HIDE DEF new, old, target, asked
  <1>12. target = asked
    BY <1>6, <1>7
  <1>13. old # << >> => handler' = HandlerOf(request)
    BY <1>5, <1>6, <1>9, <1>10, <1>12
  <1>14. ASSUME old = << >>
         PROVE  \/ handler' = HandlerOf(request)
                \/ /\ handler'.target = HandlerOf(request).target
                   /\ {handler'.kind, HandlerOf(request).kind}
                          = {"bad_request", "not_found"}
    <2>1. Len(old) = 0
      BY <1>14
    <2>2. target = "none" /\ asked = "none" /\ ~StartsGetOrPost(request)
      BY <1>7, <1>8, <1>12, <1>14, <2>1
    <2> DEFINE bad  == [kind |-> "bad_request", target |-> "none"]
               none == [kind |-> "not_found", target |-> "none"]
    <2>3. handler' \in {bad, none} /\ HandlerOf(request) \in {bad, none}
      BY <1>10, <2>2
    <2>4. bad.kind = "bad_request" /\ none.kind = "not_found" /\ bad.target = none.target
      OBVIOUS
    <2> HIDE DEF bad, none
    <2>5. QED
      BY <2>3, <2>4
  <1>15. DispatchedAsAsked'
    BY <1>1, <1>11, <1>13, <1>14 DEF DispatchedAsAsked, old
  <1>16. QED
    BY <1>1, <1>2, <1>15 DEF IInv

(* Rewriting and dispatch keep the invariant, in every order of stages the *)
(* settings allow.                                                         *)
THEOREM Inductive == Spec => []IInv
  <1>1. Init => IInv
    <2> SUFFICES ASSUME Init PROVE IInv
      OBVIOUS
    <2>1. request \in Requests /\ text = request /\ stage = "strip"
      BY DEF Init
    <2>2. text \in Seq(Line) \ {<< >>}
      BY <2>1, HttpRequestAssumption
    <2>3. FirstLineKept
      BY <2>1 DEF FirstLineKept, SameStart
    <2>4. QED
      BY <2>1, <2>2, <2>3 DEF IInv, OnlyHeadersLeft, DispatchedAsAsked, OnlyListedHeadersGo
  <1>2. IInv /\ [Next]_vars => IInv'
    <2> SUFFICES ASSUME IInv, [Next]_vars PROVE IInv'
      OBVIOUS
    <2>1. CASE StripHeaders
      BY <2>1, StripStep
    <2>2. CASE InsertSpaces
      BY <2>2, SpaceStep
    <2>3. CASE MixHeaderCase
      BY <2>3, MixStep
    <2>4. CASE Dispatch
      BY <2>4, DispatchStep
    <2>5. CASE UNCHANGED vars
      BY <2>5 DEF IInv, FirstLineKept, OnlyHeadersLeft, DispatchedAsAsked,
                  HandlerOf, StartsGetOrPost, OnlyListedHeadersGo, vars
    <2>6. QED
      BY <2>1, <2>2, <2>3, <2>4, <2>5 DEF Next, Handled
  <1>3. QED
    BY <1>1, <1>2, PTL DEF Spec

(* Whatever the settings and the request, the rewritten text has the       *)
(* handler, and a tunnel the target, of the text the client sent, but for  *)
(* the choice between 400 and 404 behind a blank first line.               *)
THEOREM AnswersAsAsked == Spec => []DispatchedAsAsked
  <1>1. IInv => DispatchedAsAsked
    BY DEF IInv
  <1>2. QED
    BY <1>1, Inductive, PTL

(* Of any header block, rewriting takes away exactly the listed headers,   *)
(* and keeps the order of the others.                                      *)
THEOREM OnlyListedGo == Spec => []OnlyListedHeadersGo
  <1>1. IInv => OnlyListedHeadersGo
    BY DEF IInv
  <1>2. QED
    BY <1>1, Inductive, PTL
=============================================================================
