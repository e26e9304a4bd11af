---------------------------- MODULE FoldTheorems ----------------------------
(***************************************************************************)
(* What FoldLeft computes, for one operator Op: the last of the values     *)
(* that Op yields one after the other.  A module that folds instantiates   *)
(* this one with its operator.  The facts about pieces of sequences and    *)
(* about SumFunction that several proofs need are here too.                *)
(***************************************************************************)
EXTENDS Integers, SequencesExt, WellFoundedInduction, FiniteSetTheorems, TLAPS

CONSTANT Op(_, _)

Fold(b, s) == FoldLeft(Op, b, s)

\* The values a fold over s passes through, from b on.
Passes(b, s, h) ==
  /\ h[0] = b
  /\ \A k \in 1 .. Len(s) : h[k] = Op(h[k - 1], s[k])

(* Induction over the naturals, for a set instead of a predicate: the      *)
(* provers find the instance themselves.                                   *)
LEMMA NatSetInduction ==
  ASSUME NEW S, 0 \in S, \A n \in Nat : n \in S => n + 1 \in S
  PROVE  Nat \subseteq S
<1> DEFINE T == Nat \ S
           R == {ss \in Nat \X Nat : ss[1] < ss[2]}
<1>1. SUFFICES ASSUME T # {} PROVE FALSE
  OBVIOUS
<1>2. IsWellFoundedOn(R, Nat)
  BY NatLessThanWellFounded DEF OpToRel
<1>3. PICK x \in T : \A y \in T : ~(<<y, x>> \in R)
  <2>1. T \subseteq Nat
    OBVIOUS
  <2> HIDE DEF T, R
  <2> QED BY <1>1, <1>2, <2>1, WFMin
<1>4. x # 0 /\ x - 1 \in Nat /\ x - 1 + 1 = x
  OBVIOUS
<1>5. x - 1 \in T /\ <<x - 1, x>> \in R
  BY <1>4
<1> QED BY <1>3, <1>5

\* The same up to a bound.
LEMMA BoundedInduction ==
  ASSUME NEW m \in Nat, NEW S, 0 \in S, \A n \in 0 .. m - 1 : n \in S => n + 1 \in S
  PROVE  0 .. m \subseteq S
<1> DEFINE T == {n \in Nat : n <= m => n \in S}
<1>1. 0 \in T
  OBVIOUS
<1>2. \A n \in Nat : n \in T => n + 1 \in T
  OBVIOUS
<1>3. Nat \subseteq T
  <2> HIDE DEF T
  <2> QED BY <1>1, <1>2, NatSetInduction
<1> QED BY <1>3

\* A set of positions has a last one.
LEMMA MaxOfPositions ==
  ASSUME NEW n \in Nat, NEW S \in SUBSET (1 .. n), S # {}
  PROVE  Max(S) \in S /\ \A y \in S : Max(S) >= y
<1> DEFINE T == {m \in Nat : \A U \in SUBSET (1 .. m) : U # {} => \E x \in U : \A y \in U : x >= y}
<1>1. 0 \in T
  <2>1. 1 .. 0 = {}
    OBVIOUS
  <2> QED BY <2>1
<1>2. ASSUME NEW m \in Nat, m \in T PROVE m + 1 \in T
  <2> SUFFICES ASSUME NEW U \in SUBSET (1 .. m + 1), U # {}
               PROVE  \E x \in U : \A y \in U : x >= y
    OBVIOUS
  <2>1. CASE m + 1 \in U
    BY <2>1
  <2>2. CASE m + 1 \notin U
    <3>1. U \in SUBSET (1 .. m)
      BY <2>2
    <3> QED BY <1>2, <3>1
  <2> QED BY <2>1, <2>2
<1>3. n \in T
  <2> HIDE DEF T
  <2> QED BY <1>1, <1>2, NatSetInduction
<1>4. \E x \in S : \A y \in S : x >= y
  BY <1>3
<1> QED BY <1>4 DEF Max

\* A set of naturals has a least element.
LEMMA MinOfNaturals ==
  ASSUME NEW S \in SUBSET Nat, S # {}
  PROVE  Min(S) \in S /\ \A y \in S : Min(S) <= y
<1> DEFINE R == {ss \in Nat \X Nat : ss[1] < ss[2]}
<1>1. IsWellFoundedOn(R, Nat)
  BY NatLessThanWellFounded DEF OpToRel
<1>2. PICK x \in S : \A y \in S : ~(<<y, x>> \in R)
  <2>1. S \subseteq Nat
    OBVIOUS
  <2> HIDE DEF R
  <2> QED BY <1>1, <2>1, WFMin
<1>3. \A y \in S : x <= y
  <2> SUFFICES ASSUME NEW y \in S, y < x PROVE FALSE
    OBVIOUS
  <2>1. <<y, x>> \in R
    OBVIOUS
  <2> QED BY <1>2, <2>1
<1> HIDE DEF R
<1> QED BY <1>3 DEF Min

\* The last position of a prefix is its length.
LEMMA MaxOfPrefix ==
  ASSUME NEW n \in Nat \ {0}
  PROVE  Max(1 .. n) = n /\ (1 .. n) \ {n} = 1 .. n - 1
<1>1. (1 .. n) # {} /\ n \in 1 .. n
  OBVIOUS
<1>2. Max(1 .. n) \in 1 .. n /\ Max(1 .. n) >= n
  BY <1>1, MaxOfPositions
<1> QED BY <1>2

(* FoldLeft takes the last element off the set of positions; the function  *)
(* it is defined by exists.                                                *)
Body(b, s, g, D) == IF D = {} THEN b ELSE Op(g[D \ {Max(D)}], s[Max(D)])

Iterates(b, s, n, g) == g = [D \in SUBSET (1 .. n) |-> Body(b, s, g, D)]

\* The recursion behind MapThenFoldSet has a solution.
LEMMA IterationExists ==
  ASSUME NEW b, NEW s, NEW n \in Nat
  PROVE  \E g : Iterates(b, s, n, g)
<1> DEFINE T == {m \in Nat : \E g : Iterates(b, s, m, g)}
<1>1. 0 \in T
  <2> DEFINE g == [D \in SUBSET (1 .. 0) |-> b]
  <2>1. \A D \in SUBSET (1 .. 0) : Body(b, s, g, D) = b
    BY DEF Body
  <2>2. Iterates(b, s, 0, g)
    <3> HIDE DEF g
    <3>1. g = [D \in SUBSET (1 .. 0) |-> b]
      BY DEF g
    <3> QED BY <2>1, <3>1 DEF Iterates
  <2> QED BY <2>2
<1>2. ASSUME NEW m \in Nat, m \in T PROVE m + 1 \in T
  <2>1. PICK g : Iterates(b, s, m, g)
    BY <1>2
  <2> DEFINE h == [D \in SUBSET (1 .. m + 1) |->
                     IF m + 1 \in D THEN Op(g[D \ {m + 1}], s[m + 1]) ELSE g[D]]
  <2>2. ASSUME NEW D \in SUBSET (1 .. m + 1) PROVE h[D] = Body(b, s, h, D)
    <3>1. CASE D = {}
      <4>1. h[D] = g[D] /\ D \in SUBSET (1 .. m)
        BY <3>1
      <4>2. g[D] = Body(b, s, g, D)
        BY <2>1, <4>1 DEF Iterates
      <4> QED BY <3>1, <4>1, <4>2 DEF Body
    <3>2. CASE D # {} /\ m + 1 \in D
      <4>1. Max(D) \in D /\ Max(D) >= m + 1
        BY <3>2, MaxOfPositions
      <4>2. Max(D) = m + 1
        <5> HIDE DEF h, T
        <5>1. Max(D) \in 1 .. m + 1
          BY <4>1
        <5> QED BY <4>1, <5>1
      <4>3. h[D \ {m + 1}] = g[D \ {m + 1}]
        OBVIOUS
      <4>4. h[D] = Op(g[D \ {m + 1}], s[m + 1])
        BY <3>2
      <4> HIDE DEF h
      <4> QED BY <3>2, <4>2, <4>3, <4>4 DEF Body
    <3>3. CASE D # {} /\ m + 1 \notin D
      <4>1. D \in SUBSET (1 .. m)
        BY <3>3
      <4>2. Max(D) \in D
        BY <3>3, MaxOfPositions
      <4>3. D \ {Max(D)} \in SUBSET (1 .. m) /\ D \ {Max(D)} \in SUBSET (1 .. m + 1) /\ m + 1 \notin D \ {Max(D)}
        BY <4>1, <3>3
      <4>4. h[D \ {Max(D)}] = g[D \ {Max(D)}] /\ h[D] = g[D]
        BY <4>3, <3>3
      <4>5. g[D] = Body(b, s, g, D)
        BY <2>1, <4>1 DEF Iterates
      <4> HIDE DEF h
      <4> QED BY <3>3, <4>4, <4>5 DEF Body
    <3> QED BY <3>1, <3>2, <3>3
  <2>3. h = [D \in SUBSET (1 .. m + 1) |-> h[D]]
    OBVIOUS
  <2> HIDE DEF h
  <2>4. h = [D \in SUBSET (1 .. m + 1) |-> Body(b, s, h, D)]
    BY <2>2, <2>3
  <2> QED BY <2>4 DEF Iterates
<1>3. n \in T
  <2> HIDE DEF T
  <2> QED BY <1>1, <1>2, NatSetInduction
<1> QED BY <1>3

\* A fold is defined by that solution.
LEMMA FoldDef ==
  ASSUME NEW b, NEW T, NEW s \in Seq(T)
  PROVE  Fold(b, s) = (CHOOSE g : Iterates(b, s, Len(s), g))[1 .. Len(s)]
<1>1. DOMAIN s = 1 .. Len(s)
  OBVIOUS
<1>2. Fold(b, s) = (CHOOSE g : g = [D \in SUBSET (DOMAIN s) |-> Body(b, s, g, D)])[DOMAIN s]
  BY DEF Fold, FoldLeft, MapThenFoldSet, Body
<1> QED BY <1>1, <1>2 DEF Iterates

\* A fold passes through Len(s) + 1 values and ends at the last of them.
LEMMA FoldPasses ==
  ASSUME NEW b, NEW T, NEW s \in Seq(T)
  PROVE  \E h : Passes(b, s, h) /\ h[Len(s)] = Fold(b, s)
<1> DEFINE g == CHOOSE g : Iterates(b, s, Len(s), g)
           h == [k \in 0 .. Len(s) |-> g[1 .. k]]
<1>1. Len(s) \in Nat
  OBVIOUS
<1>2. Iterates(b, s, Len(s), g)
  BY <1>1, IterationExists
<1> HIDE DEF g
<1>3. \A k \in 0 .. Len(s) : g[1 .. k] = Body(b, s, g, 1 .. k)
  <2> SUFFICES ASSUME NEW k \in 0 .. Len(s) PROVE g[1 .. k] = Body(b, s, g, 1 .. k)
    OBVIOUS
  <2>1. 1 .. k \in SUBSET (1 .. Len(s))
    BY <1>1
  <2> QED BY <1>2, <2>1 DEF Iterates
<1>4. h[0] = b
  <2>1. 1 .. 0 = {} /\ 0 \in 0 .. Len(s)
    BY <1>1
  <2> QED BY <1>3, <2>1 DEF Body
<1>5. ASSUME NEW k \in 1 .. Len(s) PROVE h[k] = Op(h[k - 1], s[k])
  <2>1. k \in Nat \ {0} /\ k - 1 \in 0 .. Len(s) /\ k \in 0 .. Len(s)
    BY <1>1
  <2>2. Max(1 .. k) = k /\ (1 .. k) \ {k} = 1 .. k - 1 /\ 1 .. k # {}
    BY <2>1, MaxOfPrefix
  <2> QED BY <1>3, <2>1, <2>2 DEF Body
<1>6. h[Len(s)] = Fold(b, s)
  BY <1>1, FoldDef DEF g
<1> HIDE DEF h
<1> QED BY <1>4, <1>5, <1>6 DEF Passes

\* Whatever passes through the same values ends where the fold ends.
LEMMA PassesFold ==
  ASSUME NEW b, NEW T, NEW s \in Seq(T), NEW h, Passes(b, s, h)
  PROVE  Fold(b, s) = h[Len(s)]
<1>1. PICK f : Passes(b, s, f) /\ f[Len(s)] = Fold(b, s)
  BY FoldPasses
<1> DEFINE S == {k \in 0 .. Len(s) : f[k] = h[k]}
<1>2. Len(s) \in Nat
  OBVIOUS
<1>3. 0 \in S
  BY <1>1, <1>2 DEF Passes
<1>4. ASSUME NEW k \in 0 .. Len(s) - 1, k \in S PROVE k + 1 \in S
  <2>1. k + 1 \in 1 .. Len(s) /\ k + 1 - 1 = k /\ k + 1 \in 0 .. Len(s)
    BY <1>2
  <2>2. f[k + 1] = Op(f[k], s[k + 1]) /\ h[k + 1] = Op(h[k], s[k + 1])
    BY <1>1, <2>1 DEF Passes
  <2> QED BY <1>4, <2>1, <2>2
<1>5. 0 .. Len(s) \subseteq S
  <2> HIDE DEF S
  <2> QED BY <1>2, <1>3, <1>4, BoundedInduction
<1> QED BY <1>1, <1>2, <1>5

\* A fold over the empty sequence is its base.
LEMMA FoldEmpty ==
  ASSUME NEW b
  PROVE  Fold(b, <<>>) = b
<1>1. Passes(b, <<>>, [k \in 0 .. 0 |-> b]) /\ <<>> \in Seq({})
  BY DEF Passes
<1> QED BY <1>1, PassesFold

\* A fold over a concatenation goes on where the fold over its first part ended.
LEMMA FoldConcat ==
  ASSUME NEW b, NEW T, NEW s \in Seq(T), NEW t \in Seq(T)
  PROVE  Fold(b, s \o t) = Fold(Fold(b, s), t)
<1>1. PICK f : Passes(b, s, f) /\ f[Len(s)] = Fold(b, s)
  BY FoldPasses
<1>2. PICK g : Passes(Fold(b, s), t, g) /\ g[Len(t)] = Fold(Fold(b, s), t)
  BY FoldPasses
<1> DEFINE h == [k \in 0 .. Len(s) + Len(t) |-> IF k <= Len(s) THEN f[k] ELSE g[k - Len(s)]]
<1>3. /\ s \o t \in Seq(T) /\ Len(s \o t) = Len(s) + Len(t) /\ Len(s) \in Nat /\ Len(t) \in Nat
      /\ \A k \in 1 .. Len(s) : (s \o t)[k] = s[k]
      /\ \A k \in Len(s) + 1 .. Len(s) + Len(t) : (s \o t)[k] = t[k - Len(s)]
  OBVIOUS
<1>4. h[0] = b
  BY <1>1, <1>3 DEF Passes
<1>5. ASSUME NEW k \in 1 .. Len(s) + Len(t) PROVE h[k] = Op(h[k - 1], (s \o t)[k])
  <2>1. CASE k <= Len(s)
    <3>1. k \in 1 .. Len(s)
      BY <1>3, <2>1
    <3>2. f[k] = Op(f[k - 1], s[k]) /\ (s \o t)[k] = s[k]
      BY <1>1, <1>3, <3>1 DEF Passes
    <3>3. h[k] = f[k] /\ h[k - 1] = f[k - 1]
      BY <1>3, <2>1
    <3> QED BY <3>2, <3>3
  <2>2. CASE k = Len(s) + 1
    <3>1. g[1] = Op(g[0], t[1]) /\ g[0] = f[Len(s)]
      BY <1>1, <1>2, <1>3, <2>2 DEF Passes
    <3>2. h[k] = g[1] /\ h[k - 1] = f[Len(s)] /\ (s \o t)[k] = t[1]
      BY <1>3, <2>2
    <3> QED BY <3>1, <3>2
  <2>3. CASE k > Len(s) + 1
    <3>1. k - Len(s) \in 1 .. Len(t) /\ k \in Len(s) + 1 .. Len(s) + Len(t)
      BY <1>3, <2>3
    <3>2. g[k - Len(s)] = Op(g[k - Len(s) - 1], t[k - Len(s)])
      BY <1>2, <3>1 DEF Passes
    <3>3. h[k] = g[k - Len(s)] /\ h[k - 1] = g[k - 1 - Len(s)] /\ k - 1 - Len(s) = k - Len(s) - 1
      BY <1>3, <2>3
    <3>4. (s \o t)[k] = t[k - Len(s)]
      BY <1>3, <3>1
    <3> HIDE DEF h
    <3> QED BY <3>2, <3>3, <3>4
  <2> QED BY <1>3, <2>1, <2>2, <2>3
<1>6. h[Len(s) + Len(t)] = Fold(Fold(b, s), t)
  <2>1. CASE Len(t) = 0
    BY <1>1, <1>2, <1>3, <2>1 DEF Passes
  <2>2. CASE Len(t) > 0
    BY <1>2, <1>3, <2>2
  <2> QED BY <1>3, <2>1, <2>2
<1> HIDE DEF h
<1>7. Passes(b, s \o t, h)
  BY <1>3, <1>4, <1>5 DEF Passes
<1>8. Fold(b, s \o t) = h[Len(s \o t)]
  BY <1>3, <1>7, PassesFold
<1> QED BY <1>3, <1>6, <1>8

\* A fold over one more element is one more application of Op.
LEMMA FoldAppend ==
  ASSUME NEW b, NEW T, NEW s \in Seq(T), NEW x \in T
  PROVE  Fold(b, Append(s, x)) = Op(Fold(b, s), x)
<1> DEFINE t == <<x>>
<1>1. t \in Seq(T) /\ Append(s, x) = s \o t /\ Len(t) = 1 /\ t[1] = x
  OBVIOUS
<1> HIDE DEF t
<1>2. PICK h : Passes(Fold(b, s), t, h) /\ h[1] = Fold(Fold(b, s), t)
  BY <1>1, FoldPasses
<1>3. h[1] = Op(h[0], x) /\ h[0] = Fold(b, s)
  BY <1>1, <1>2 DEF Passes
<1>4. Fold(b, s \o t) = Fold(Fold(b, s), t)
  BY <1>1, FoldConcat
<1> QED BY <1>1, <1>2, <1>3, <1>4
-----------------------------------------------------------------------------
(* Pieces of sequences.                                                    *)
\* Sequences are equal element by element.
LEMMA SameSequence ==
  ASSUME NEW T, NEW s \in Seq(T), NEW t \in Seq(T), Len(s) = Len(t),
         \A i \in 1 .. Len(s) : s[i] = t[i]
  PROVE  s = t
OBVIOUS

\* A piece from position a to position b.
LEMMA Piece ==
  ASSUME NEW T, NEW s \in Seq(T), NEW a \in Nat \ {0}, NEW b \in 0 .. Len(s), a <= b + 1
  PROVE  /\ SubSeq(s, a, b) \in Seq(T) /\ Len(SubSeq(s, a, b)) = b - a + 1
         /\ \A i \in 1 .. b - a + 1 : SubSeq(s, a, b)[i] = s[a + i - 1]
OBVIOUS

\* The elements of a concatenation.
LEMMA Joined ==
  ASSUME NEW T, NEW s \in Seq(T), NEW t \in Seq(T)
  PROVE  /\ s \o t \in Seq(T) /\ Len(s \o t) = Len(s) + Len(t)
         /\ Len(s) \in Nat /\ Len(t) \in Nat
         /\ \A i \in 1 .. Len(s) : (s \o t)[i] = s[i]
         /\ \A i \in 1 .. Len(t) : (s \o t)[Len(s) + i] = t[i]
OBVIOUS

\* Concatenation and Append.
LEMMA JoinedAppend ==
  ASSUME NEW T, NEW s \in Seq(T), NEW t \in Seq(T), NEW x \in T
  PROVE  s \o Append(t, x) = Append(s \o t, x)
OBVIOUS

\* Append is concatenation with a sequence of one.
LEMMA AppendJoins ==
  ASSUME NEW T, NEW s \in Seq(T), NEW x \in T
  PROVE  <<x>> \in Seq(T) /\ Append(s, x) = s \o <<x>>
OBVIOUS

\* A piece of the first part of a concatenation.
LEMMA PieceOfJoined ==
  ASSUME NEW T, NEW s \in Seq(T), NEW t \in Seq(T), NEW a \in Nat \ {0}, NEW b \in 0 .. Len(s)
  PROVE  SubSeq(s \o t, a, b) = SubSeq(s, a, b)
OBVIOUS

\* What a prefix leaves.
LEMMA Rest ==
  ASSUME NEW T, NEW s \in Seq(T), NEW m \in 0 .. Len(s)
  PROVE  /\ SubSeq(s, m + 1, Len(s)) \in Seq(T) /\ Len(SubSeq(s, m + 1, Len(s))) = Len(s) - m
         /\ \A i \in 1 .. Len(s) - m : SubSeq(s, m + 1, Len(s))[i] = s[m + i]
OBVIOUS

\* What a prefix of the first part leaves of a concatenation.
LEMMA RestOfJoined ==
  ASSUME NEW T, NEW s \in Seq(T), NEW t \in Seq(T), NEW m \in 0 .. Len(s)
  PROVE  SubSeq(s \o t, m + 1, Len(s \o t)) = SubSeq(s, m + 1, Len(s)) \o t
<1> DEFINE u == s \o t
           v == SubSeq(s, m + 1, Len(s))
           x == SubSeq(u, m + 1, Len(u))
           y == v \o t
<1>1. /\ u \in Seq(T) /\ Len(u) = Len(s) + Len(t) /\ Len(s) \in Nat /\ Len(t) \in Nat
      /\ \A i \in 1 .. Len(s) : u[i] = s[i]
      /\ \A i \in 1 .. Len(t) : u[Len(s) + i] = t[i]
  BY Joined
<1>2. /\ v \in Seq(T) /\ Len(v) = Len(s) - m
      /\ \A i \in 1 .. Len(s) - m : v[i] = s[m + i]
  BY Rest
<1> HIDE DEF u, v
<1>3. /\ x \in Seq(T) /\ Len(x) = Len(u) - m
      /\ \A i \in 1 .. Len(u) - m : x[i] = u[m + i]
  <2>1. m \in 0 .. Len(u)
    BY <1>1
  <2> QED BY <1>1, <2>1, Rest
<1>4. /\ y \in Seq(T) /\ Len(y) = Len(v) + Len(t)
      /\ \A i \in 1 .. Len(v) : y[i] = v[i]
      /\ \A i \in 1 .. Len(t) : y[Len(v) + i] = t[i]
  <2>1. v \in Seq(T)
    BY <1>2
  <2> HIDE DEF x
  <2> QED BY <2>1, Joined
<1> HIDE DEF x, y
<1>5. ASSUME NEW i \in 1 .. Len(x) PROVE x[i] = y[i]
  <2>1. CASE i <= Len(v)
    <3>1. i \in 1 .. Len(v) /\ m + i \in 1 .. Len(s)
      BY <1>1, <1>2, <2>1
    <3> QED BY <1>1, <1>2, <1>3, <1>4, <3>1
  <2>2. CASE i > Len(v)
    <3>1. i - Len(v) \in 1 .. Len(t) /\ Len(v) + (i - Len(v)) = i /\ m + i = Len(s) + (i - Len(v))
      BY <1>1, <1>2, <1>3, <2>2
    <3>2. y[i] = t[i - Len(v)]
      BY <1>4, <3>1
    <3>3. u[m + i] = t[i - Len(v)]
      BY <1>1, <3>1
    <3>4. i \in 1 .. Len(u) - m
      BY <1>3
    <3> QED BY <1>3, <3>2, <3>3, <3>4
  <2> QED BY <1>1, <1>2, <1>3, <2>1, <2>2
<1>6. Len(x) = Len(y)
  BY <1>1, <1>2, <1>3, <1>4
<1>7. x = y
  BY <1>3, <1>4, <1>5, <1>6, SameSequence, Zenon
<1> QED BY <1>7 DEF x, y, u, v

\* What is left after two prefixes are taken away.
LEMMA RestOfRest ==
  ASSUME NEW T, NEW s \in Seq(T), NEW g \in 0 .. Len(s), NEW r, r = SubSeq(s, g + 1, Len(s)),
         NEW n \in 0 .. Len(r)
  PROVE  SubSeq(r, n + 1, Len(r)) = SubSeq(s, (g + n) + 1, Len(s)) /\ g + n \in 0 .. Len(s)
<1> DEFINE u == SubSeq(s, (g + n) + 1, Len(s))
           v == SubSeq(r, n + 1, Len(r))
<1>1. /\ r \in Seq(T) /\ Len(r) = Len(s) - g /\ Len(s) \in Nat
      /\ \A i \in 1 .. Len(s) - g : r[i] = s[g + i]
  BY Rest
<1>2. g + n \in 0 .. Len(s)
  BY <1>1
<1>3. /\ u \in Seq(T) /\ Len(u) = Len(s) - (g + n)
      /\ \A i \in 1 .. Len(s) - (g + n) : u[i] = s[(g + n) + i]
  BY <1>2, Rest
<1>4. /\ v \in Seq(T) /\ Len(v) = Len(r) - n
      /\ \A i \in 1 .. Len(r) - n : v[i] = r[n + i]
  BY <1>1, Rest
<1> HIDE DEF u, v
<1>5. Len(v) = Len(u)
  BY <1>1, <1>3, <1>4
<1>6. ASSUME NEW i \in 1 .. Len(v) PROVE v[i] = u[i]
  <2>1. /\ i \in 1 .. Len(r) - n /\ n + i \in 1 .. Len(s) - g
        /\ i \in 1 .. Len(s) - (g + n) /\ g + (n + i) = (g + n) + i
    BY <1>1, <1>4
  <2> QED BY <1>1, <1>3, <1>4, <2>1
<1>7. v = u
  BY <1>3, <1>4, <1>5, <1>6, SameSequence
<1> QED BY <1>2, <1>7 DEF u, v

\* A tail with one more element.
LEMMA TailAppend ==
  ASSUME NEW T, NEW s \in Seq(T), Len(s) > 0, NEW x \in T
  PROVE  /\ Append(Tail(s), x) = SubSeq(Append(s, x), 2, Len(s) + 1)
         /\ Append(Tail(s), x) \in Seq(T) /\ Len(Append(Tail(s), x)) = Len(s)
         /\ Tail(s) = SubSeq(s, 2, Len(s)) /\ Tail(s) \in Seq(T)
         /\ Head(s) = s[1] /\ Head(s) \in T
OBVIOUS

\* A prefix split in two.
LEMMA SplitPrefix ==
  ASSUME NEW T, NEW s \in Seq(T), NEW m \in 0 .. Len(s), NEW n \in 0 .. m
  PROVE  SubSeq(s, 1, m) = SubSeq(s, 1, n) \o SubSeq(s, n + 1, m)
OBVIOUS

\* A prefix with one more element.
LEMMA PrefixGrows ==
  ASSUME NEW T, NEW s \in Seq(T), NEW n \in 0 .. Len(s) - 1
  PROVE  /\ SubSeq(s, 1, n) \in Seq(T) /\ s[n + 1] \in T
         /\ SubSeq(s, 1, n + 1) = Append(SubSeq(s, 1, n), s[n + 1])
OBVIOUS

\* The whole sequence as a prefix.
LEMMA WholePrefix ==
  ASSUME NEW T, NEW s \in Seq(T)
  PROVE  SubSeq(s, 1, 0) = <<>> /\ SubSeq(s, 1, Len(s)) = s /\ Len(s) \in Nat
OBVIOUS

(* Induction over sequences, again for a set: what holds of the empty      *)
(* sequence and survives one more element holds of every sequence.         *)
LEMMA SeqSetInduction ==
  ASSUME NEW T, NEW Good, <<>> \in Good,
         \A s \in Seq(T), x \in T : s \in Good => Append(s, x) \in Good
  PROVE  Seq(T) \subseteq Good
<1> SUFFICES ASSUME NEW s \in Seq(T) PROVE s \in Good
  OBVIOUS
<1> DEFINE pre(n) == SubSeq(s, 1, n)
           S == {n \in 0 .. Len(s) : pre(n) \in Good}
<1>1. Len(s) \in Nat /\ pre(0) = <<>> /\ pre(Len(s)) = s
  BY WholePrefix
<1>2. ASSUME NEW n \in 0 .. Len(s) - 1
      PROVE  pre(n) \in Seq(T) /\ s[n + 1] \in T /\ pre(n + 1) = Append(pre(n), s[n + 1])
  BY PrefixGrows
<1> HIDE DEF pre
<1>3. 0 \in S
  BY <1>1
<1>4. ASSUME NEW n \in 0 .. Len(s) - 1, n \in S PROVE n + 1 \in S
  <2>1. n + 1 \in 0 .. Len(s)
    BY <1>1
  <2>2. Append(pre(n), s[n + 1]) \in Good
    BY <1>2, <1>4
  <2> QED BY <1>2, <2>1, <2>2
<1>5. 0 .. Len(s) \subseteq S
  <2> HIDE DEF S
  <2> QED BY <1>1, <1>3, <1>4, BoundedInduction
<1>6. Len(s) \in S
  BY <1>1, <1>5
<1> QED BY <1>1, <1>6
(* A fold that adds the weight of each element: the weights of a           *)
(* concatenation are those of its parts.                                   *)
Adds(T, W) == W \in [T -> Int] /\ \A a \in Int, x \in T : Op(a, x) = a + W[x]

\* Such a fold is an integer, and one more element adds its weight.
LEMMA AddsAppend ==
  ASSUME NEW T, NEW W, Adds(T, W), NEW s \in Seq(T)
  PROVE  /\ Fold(0, <<>>) = 0 /\ Fold(0, s) \in Int
         /\ \A x \in T : W[x] \in Int /\ Fold(0, Append(s, x)) = Fold(0, s) + W[x]
<1> DEFINE Good == {r \in Seq(T) : Fold(0, r) \in Int}
<1>1. Fold(0, <<>>) = 0 /\ <<>> \in Good
  BY FoldEmpty
<1>2. \A x \in T : W[x] \in Int
  BY DEF Adds
<1>3. ASSUME NEW r \in Seq(T), NEW x \in T, r \in Good
      PROVE  Append(r, x) \in Good /\ Fold(0, Append(r, x)) = Fold(0, r) + W[x]
  <2>1. Fold(0, r) \in Int /\ Append(r, x) \in Seq(T)
    BY <1>3
  <2>2. Fold(0, Append(r, x)) = Op(Fold(0, r), x)
    BY FoldAppend
  <2>3. Fold(0, Append(r, x)) = Fold(0, r) + W[x]
    BY <2>1, <2>2 DEF Adds
  <2> QED BY <1>2, <2>1, <2>3
<1>4. Seq(T) \subseteq Good
  <2> HIDE DEF Good
  <2> QED BY <1>1, <1>3, SeqSetInduction
<1> QED BY <1>1, <1>2, <1>3, <1>4

\* And a concatenation adds what its parts add.
LEMMA AddsConcat ==
  ASSUME NEW T, NEW W, Adds(T, W), NEW s \in Seq(T), NEW t \in Seq(T)
  PROVE  Fold(0, s \o t) = Fold(0, s) + Fold(0, t)
<1> DEFINE Good == {r \in Seq(T) : Fold(0, s \o r) = Fold(0, s) + Fold(0, r)}
<1>1. <<>> \in Good
  <2>1. s \o <<>> = s /\ Fold(0, <<>>) = 0 /\ Fold(0, s) \in Int
    BY AddsAppend
  <2>2. Fold(0, s \o <<>>) = Fold(0, s) + Fold(0, <<>>)
    BY <2>1
  <2> QED BY <2>2
<1>2. ASSUME NEW r \in Seq(T), NEW x \in T, r \in Good PROVE Append(r, x) \in Good
  <2> DEFINE u == s \o r
  <2>1. u \in Seq(T) /\ s \o Append(r, x) = Append(u, x) /\ Append(r, x) \in Seq(T)
    BY JoinedAppend
  <2>2. Fold(0, u) = Fold(0, s) + Fold(0, r)
    BY <1>2
  <2> HIDE DEF u
  <2>3. /\ Fold(0, Append(u, x)) = Fold(0, u) + W[x]
        /\ Fold(0, Append(r, x)) = Fold(0, r) + W[x]
        /\ Fold(0, s) \in Int /\ Fold(0, r) \in Int /\ W[x] \in Int
    BY <2>1, AddsAppend
  <2>4. Fold(0, s \o Append(r, x)) = Fold(0, s) + Fold(0, Append(r, x))
    BY <2>1, <2>2, <2>3
  <2> QED BY <2>1, <2>4
<1>3. Seq(T) \subseteq Good
  <2> HIDE DEF Good
  <2> QED BY <1>1, <1>2, SeqSetInduction
<1> QED BY <1>3

\* What an additive fold is without a prefix.
LEMMA AddsRest ==
  ASSUME NEW T, NEW W, Adds(T, W), NEW s \in Seq(T), NEW n \in 0 .. Len(s)
  PROVE  /\ Fold(0, SubSeq(s, n + 1, Len(s))) = Fold(0, s) - Fold(0, SubSeq(s, 1, n))
         /\ Fold(0, SubSeq(s, 1, n)) \in Int /\ Fold(0, s) \in Int
<1> DEFINE a == SubSeq(s, 1, n)
           b == SubSeq(s, n + 1, Len(s))
<1>1. Len(s) \in 0 .. Len(s) /\ n \in 0 .. Len(s) /\ SubSeq(s, 1, Len(s)) = s
  BY WholePrefix, SMTT(30)
<1>2. s = a \o b
  BY <1>1, SplitPrefix
<1>3. a \in Seq(T) /\ b \in Seq(T)
  BY Rest
<1> HIDE DEF a, b
<1>4. Fold(0, s) = Fold(0, a) + Fold(0, b)
  BY <1>2, <1>3, AddsConcat
<1>5. Fold(0, a) \in Int /\ Fold(0, b) \in Int /\ Fold(0, s) \in Int
  BY <1>3, AddsAppend
<1> QED BY <1>4, <1>5 DEF a, b
-----------------------------------------------------------------------------
(* SumFunction takes the elements of the domain in an order of its own; on *)
(* a finite domain the order makes no difference.                          *)
Pick(S) == CHOOSE x \in S : TRUE

SumBody(f, g, D) == IF D = {} THEN 0 ELSE f[Pick(D)] + g[D \ {Pick(D)}]

Small(S, n) == {D \in SUBSET S : IsFiniteSet(D) /\ Cardinality(D) <= n}

Sums(f, S, g) == g = [D \in SUBSET S |-> SumBody(f, g, D)]

\* CHOOSE picks an element.
LEMMA PickFacts ==
  ASSUME NEW S, S # {}
  PROVE  Pick(S) \in S
BY DEF Pick

\* A set without one element is smaller.
LEMMA OneLess ==
  ASSUME NEW S, NEW n \in Nat, NEW D \in Small(S, n + 1), NEW x \in D
  PROVE  /\ D \ {x} \in Small(S, n)
<1>1. IsFiniteSet(D) /\ Cardinality(D) <= n + 1 /\ D \subseteq S
  BY DEF Small
<1>2. /\ IsFiniteSet(D \ {x}) /\ Cardinality(D \ {x}) = Cardinality(D) - 1
      /\ Cardinality(D) \in Nat
  BY <1>1, FS_RemoveElement, FS_CardinalityType
<1> QED BY <1>1, <1>2 DEF Small

\* Only the empty set is that small.
LEMMA SmallZero ==
  ASSUME NEW S, NEW D \in Small(S, 0)
  PROVE  D = {}
BY FS_EmptySet, FS_CardinalityType DEF Small

\* The recursion behind SumFunction has a solution.
LEMMA SumsExist ==
  ASSUME NEW f, NEW S, IsFiniteSet(S)
  PROVE  \E g : Sums(f, S, g)
<1> DEFINE Upto(n, g) == g = [D \in Small(S, n) |-> SumBody(f, g, D)]
           T == {n \in Nat : \E g : Upto(n, g)}
<1>1. 0 \in T
  <2> DEFINE g == [D \in Small(S, 0) |-> 0]
  <2>1. \A D \in Small(S, 0) : SumBody(f, g, D) = 0
    BY SmallZero DEF SumBody
  <2>2. Upto(0, g)
    <3>1. g = [D \in Small(S, 0) |-> 0]
      OBVIOUS
    <3> HIDE DEF g
    <3> QED BY <2>1, <3>1
  <2> QED BY <2>2
<1>2. ASSUME NEW n \in Nat, n \in T PROVE n + 1 \in T
  <2>1. PICK g : Upto(n, g)
    BY <1>2
  <2> DEFINE h == [D \in Small(S, n + 1) |-> SumBody(f, g, D)]
  <2>2. ASSUME NEW D \in Small(S, n + 1) PROVE SumBody(f, g, D) = SumBody(f, h, D)
    <3>1. CASE D = {}
      BY <3>1 DEF SumBody
    <3>2. CASE D # {}
      <4> DEFINE E == D \ {Pick(D)}
      <4>1. E \in Small(S, n)
        BY <3>2, PickFacts, OneLess
      <4>2. E \in Small(S, n + 1)
        <5>1. E \subseteq S /\ IsFiniteSet(E) /\ Cardinality(E) <= n /\ Cardinality(E) \in Nat
          BY <4>1, FS_CardinalityType DEF Small
        <5> QED BY <5>1 DEF Small
      <4> HIDE DEF E
      <4>3. g[E] = SumBody(f, g, E)
        BY <2>1, <4>1
      <4>4. h[E] = SumBody(f, g, E)
        BY <4>2
      <4> HIDE DEF h
      <4> QED BY <3>2, <4>3, <4>4 DEF SumBody, E
    <3> QED BY <3>1, <3>2
  <2>3. h = [D \in Small(S, n + 1) |-> SumBody(f, g, D)]
    OBVIOUS
  <2> HIDE DEF h
  <2>4. Upto(n + 1, h)
    BY <2>2, <2>3
  <2> QED BY <2>4
<1>3. Cardinality(S) \in T
  <2>1. Cardinality(S) \in Nat
    BY FS_CardinalityType
  <2> HIDE DEF T
  <2> QED BY <1>1, <1>2, <2>1, NatSetInduction
<1>4. Small(S, Cardinality(S)) = SUBSET S
  BY FS_Subset DEF Small
<1> QED BY <1>3, <1>4 DEF Sums

\* Two such functions agree where what they sum agrees.
LEMMA SumsAgree ==
  ASSUME NEW f1, NEW S1, NEW g1, Sums(f1, S1, g1),
         NEW f2, NEW S2, NEW g2, Sums(f2, S2, g2),
         NEW D, D \subseteq S1, D \subseteq S2, IsFiniteSet(D), \A x \in D : f1[x] = f2[x]
  PROVE  g1[D] = g2[D]
<1> DEFINE T == {n \in Nat : \A E \in Small(D, n) : g1[E] = g2[E]}
<1>0. ASSUME NEW E \in SUBSET D PROVE g1[E] = SumBody(f1, g1, E) /\ g2[E] = SumBody(f2, g2, E)
  <2>1. E \in SUBSET S1 /\ E \in SUBSET S2
    OBVIOUS
  <2>2. g1[E] = SumBody(f1, g1, E)
    BY <2>1 DEF Sums
  <2>3. g2[E] = SumBody(f2, g2, E)
    BY <2>1 DEF Sums
  <2> QED BY <2>2, <2>3
<1>1. 0 \in T
  <2>1. g1[{}] = g2[{}]
    BY <1>0 DEF SumBody
  <2> QED BY <2>1, SmallZero
<1>2. ASSUME NEW n \in Nat, n \in T PROVE n + 1 \in T
  <2> SUFFICES ASSUME NEW E \in Small(D, n + 1) PROVE g1[E] = g2[E]
    OBVIOUS
  <2>1. E \in SUBSET D
    BY DEF Small
  <2>2. CASE E = {}
    BY <1>0, <2>1, <2>2 DEF SumBody
  <2>3. CASE E # {}
    <3>1. Pick(E) \in E
      BY <2>3, PickFacts
    <3>2. E \ {Pick(E)} \in Small(D, n)
      BY <3>1, OneLess
    <3>3. g1[E \ {Pick(E)}] = g2[E \ {Pick(E)}]
      BY <1>2, <3>2
    <3>4. f1[Pick(E)] = f2[Pick(E)]
      BY <2>1, <3>1
    <3>5. g1[E] = SumBody(f1, g1, E) /\ g2[E] = SumBody(f2, g2, E)
      BY <1>0, <2>1
    <3> QED BY <2>3, <3>3, <3>4, <3>5 DEF SumBody
  <2> QED BY <2>2, <2>3
<1>3. Cardinality(D) \in T
  <2>1. Cardinality(D) \in Nat
    BY FS_CardinalityType
  <2> HIDE DEF T
  <2> QED BY <1>1, <1>2, <2>1, NatSetInduction
<1>4. D \in Small(D, Cardinality(D))
  BY FS_CardinalityType DEF Small
<1> QED BY <1>3, <1>4

\* Whichever element is taken first.
LEMMA AnyOrder ==
  ASSUME NEW S, NEW f \in [S -> Nat], IsFiniteSet(S), NEW g, Sums(f, S, g)
  PROVE  /\ g[S] \in Nat
         /\ \A x \in S : g[S] = f[x] + g[S \ {x}]
<1> DEFINE Good(E) == g[E] \in Nat /\ \A x \in E : g[E] = f[x] + g[E \ {x}]
           T == {n \in Nat : \A E \in Small(S, n) : Good(E)}
<1>0. ASSUME NEW E \in SUBSET S PROVE g[E] = SumBody(f, g, E)
  BY DEF Sums
<1>1. 0 \in T
  <2>1. g[{}] = 0
    BY <1>0 DEF SumBody
  <2> QED BY <2>1, SmallZero
<1>2. ASSUME NEW n \in Nat, n \in T PROVE n + 1 \in T
  <2> SUFFICES ASSUME NEW E \in Small(S, n + 1) PROVE Good(E)
    OBVIOUS
  <2>1. E \in SUBSET S
    BY DEF Small
  <2>2. CASE E = {}
    <3>1. g[E] = 0
      BY <1>0, <2>1, <2>2 DEF SumBody
    <3> QED BY <2>2, <3>1
  <2>3. CASE E # {}
    <3> DEFINE y == Pick(E)
    <3>1. y \in E
      BY <2>3, PickFacts
    <3> HIDE DEF y
    <3>2. ASSUME NEW x \in E PROVE Good(E \ {x})
      BY <1>2, OneLess
    <3>3. g[E] = f[y] + g[E \ {y}]
      BY <1>0, <2>1, <2>3 DEF SumBody, y
    <3>4. g[E \ {y}] \in Nat /\ f[y] \in Nat
      BY <2>1, <3>1, <3>2
    <3>5. ASSUME NEW x \in E PROVE g[E] = f[x] + g[E \ {x}]
      <4>1. CASE x = y
        BY <3>3, <4>1
      <4>2. CASE x # y
        <5> DEFINE R == (E \ {y}) \ {x}
        <5>1. (E \ {x}) \ {y} = R /\ x \in E \ {y} /\ y \in E \ {x}
          BY <3>1, <4>2
        <5> HIDE DEF R
        <5>2. g[E \ {y}] = f[x] + g[R]
          BY <3>1, <3>2, <5>1 DEF R
        <5>3. g[E \ {x}] = f[y] + g[R]
          BY <3>2, <5>1
        <5>4. Good((E \ {y}) \ {x}) \/ g[R] \in Nat
          <6>1. E \ {y} \in Small(S, n)
            BY <3>1, OneLess
          <6>2. R \in Small(S, n)
            <7>1. /\ E \ {y} \subseteq S /\ IsFiniteSet(E \ {y}) /\ Cardinality(E \ {y}) <= n
                  /\ Cardinality(E \ {y}) \in Nat
              BY <6>1, FS_CardinalityType DEF Small
            <7>2. IsFiniteSet(R) /\ Cardinality(R) <= Cardinality(E \ {y}) /\ Cardinality(R) \in Nat
              BY <7>1, FS_Subset, FS_CardinalityType DEF R
            <7> QED BY <7>1, <7>2 DEF Small, R
          <6> QED BY <1>2, <6>2
        <5>5. g[R] \in Nat /\ f[x] \in Nat
          BY <2>1, <5>4 DEF R
        <5> QED BY <3>3, <3>4, <5>2, <5>3, <5>5
      <4> QED BY <4>1, <4>2
    <3>6. g[E] \in Nat
      <4> HIDE DEF Good
      <4> QED BY <3>3, <3>4
    <3> QED BY <3>5, <3>6
  <2> QED BY <2>2, <2>3
<1>3. Cardinality(S) \in T
  <2>1. Cardinality(S) \in Nat
    BY FS_CardinalityType
  <2> HIDE DEF T
  <2> QED BY <1>1, <1>2, <2>1, NatSetInduction
<1>4. S \in Small(S, Cardinality(S))
  BY FS_CardinalityType DEF Small
<1> QED BY <1>3, <1>4

\* SumFunction is defined by that solution.
LEMMA SumDef ==
  ASSUME NEW S, NEW V, NEW f \in [S -> V]
  PROVE  SumFunction(f) = (CHOOSE g : Sums(f, S, g))[S]
<1>1. DOMAIN f = S
  OBVIOUS
<1>2. SumFunction(f) = (CHOOSE g : g = [D \in SUBSET (DOMAIN f) |-> SumBody(f, g, D)])[DOMAIN f]
  BY DEF SumFunction, SumFunctionOnSet, FoldFunctionOnSet, MapThenFoldSet, SumBody, Pick
<1> QED BY <1>1, <1>2 DEF Sums

(* What a sum loses when it loses one summand.                             *)
LEMMA SumSplit ==
  ASSUME NEW S, NEW f \in [S -> Nat], IsFiniteSet(S)
  PROVE  /\ SumFunction(f) \in Nat
         /\ \A x \in S : SumFunction(f) = f[x] + SumFunction([y \in S \ {x} |-> f[y]])
<1> DEFINE g == CHOOSE g : Sums(f, S, g)
<1>1. Sums(f, S, g) /\ SumFunction(f) = g[S]
  BY SumsExist, SumDef
<1> HIDE DEF g
<1>2. g[S] \in Nat /\ \A x \in S : g[S] = f[x] + g[S \ {x}]
  BY <1>1, AnyOrder
<1>3. ASSUME NEW x \in S PROVE g[S \ {x}] = SumFunction([y \in S \ {x} |-> f[y]])
  <2> DEFINE R == S \ {x}
             e == [y \in R |-> f[y]]
             k == CHOOSE k : Sums(e, R, k)
  <2>1. IsFiniteSet(R) /\ R \subseteq S
    BY FS_RemoveElement
  <2>2. e \in [R -> Nat] /\ \A y \in R : f[y] = e[y]
    OBVIOUS
  <2> HIDE DEF R, e
  <2>3. Sums(e, R, k) /\ SumFunction(e) = k[R]
    BY <2>1, <2>2, SumsExist, SumDef
  <2> HIDE DEF k
  <2>4. g[R] = k[R]
    BY <1>1, <2>1, <2>2, <2>3, SumsAgree
  <2> QED BY <2>3, <2>4 DEF R, e
<1> QED BY <1>1, <1>2, <1>3

(* One summand more.                                                       *)
LEMMA SumAdd ==
  ASSUME NEW S, NEW x, x \notin S, IsFiniteSet(S), NEW f \in [S -> Nat],
         NEW e \in [S \cup {x} -> Nat], \A y \in S : e[y] = f[y]
  PROVE  SumFunction(e) = SumFunction(f) + e[x] /\ SumFunction(f) \in Nat /\ IsFiniteSet(S \cup {x})
<1>1. IsFiniteSet(S \cup {x}) /\ (S \cup {x}) \ {x} = S /\ x \in S \cup {x}
  BY FS_AddElement
<1>2. [y \in S |-> e[y]] = f
  OBVIOUS
<1>3. SumFunction(e) = e[x] + SumFunction([y \in (S \cup {x}) \ {x} |-> e[y]])
  BY <1>1, SumSplit
<1>4. SumFunction(f) \in Nat /\ e[x] \in Nat
  BY SumSplit
<1> QED BY <1>1, <1>2, <1>3, <1>4

(* One summand changed.                                                    *)
LEMMA SumChange ==
  ASSUME NEW S, NEW x \in S, IsFiniteSet(S), NEW f \in [S -> Nat],
         NEW e \in [S -> Nat], \A y \in S \ {x} : e[y] = f[y]
  PROVE  /\ SumFunction(e) + f[x] = SumFunction(f) + e[x]
         /\ SumFunction(e) \in Nat /\ SumFunction(f) \in Nat
<1> DEFINE r == [y \in S \ {x} |-> f[y]]
<1>1. [y \in S \ {x} |-> e[y]] = r
  OBVIOUS
<1>2. SumFunction(e) = e[x] + SumFunction(r) /\ SumFunction(e) \in Nat
  BY <1>1, SumSplit
<1>3. SumFunction(f) = f[x] + SumFunction(r) /\ SumFunction(f) \in Nat
  BY SumSplit
<1>4. r \in [S \ {x} -> Nat] /\ IsFiniteSet(S \ {x})
  BY FS_RemoveElement
<1> HIDE DEF r
<1>5. SumFunction(r) \in Nat /\ e[x] \in Nat /\ f[x] \in Nat
  BY <1>4, SumSplit
<1> QED BY <1>2, <1>3, <1>5
=============================================================================
