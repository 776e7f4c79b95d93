----------------------------- MODULE Induction -----------------------------
(***************************************************************************)
(* Induction for facts about recursive definitions, in a form that first-  *)
(* order provers can use: over a set instead of a predicate, and with      *)
(* functions for the operators that are folded; and what follows for       *)
(* sequences of sequences.                                                 *)
(***************************************************************************)
EXTENDS Integers, FiniteSets, SequencesExt, WellFoundedInduction, TLAPS

(* A set of numbers that has 0 and with every number the next has them all.*)
LEMMA NatSetInduction ==
    ASSUME NEW S, 0 \in S, \A n \in Nat : n \in S => n + 1 \in S
    PROVE  Nat \subseteq S
  <1> DEFINE T == Nat \ S
             R == {ss \in Nat \X Nat : ss[1] < ss[2]}
  <1>1. IsWellFoundedOn(R, Nat)
    BY NatLessThanWellFounded DEF OpToRel
  <1>2. SUFFICES ASSUME T # {} PROVE FALSE
    OBVIOUS
  <1>3. PICK x \in T : \A y \in T : ~(<<y, x>> \in R)
    <2>1. T \subseteq Nat
      OBVIOUS
    <2> HIDE DEF T, R
    <2>2. QED
      BY <1>1, <1>2, <2>1, WFMin
  <1>4. x \in Nat /\ x # 0 /\ x \notin S
    OBVIOUS
  <1>5. x - 1 \in T /\ <<x - 1, x>> \in R
    BY <1>4
  <1>6. QED
    BY <1>3, <1>5

(* Every set of numbers that is not empty has a smallest one.              *)
LEMMA SmallestOf ==
    ASSUME NEW S, S \subseteq Nat, S # {}
    PROVE  \E x \in S : \A y \in S : x <= y
  <1> DEFINE Below == {n \in Nat : \A y \in S : n <= y}
  <1>1. SUFFICES ASSUME \A x \in S : \E y \in S : y < x PROVE FALSE
    OBVIOUS
  <1>2. 0 \in Below
    OBVIOUS
  <1>3. \A n \in Nat : n \in Below => n + 1 \in Below
    BY <1>1
  <1>4. Nat \subseteq Below
    <2> HIDE DEF Below
    <2>1. QED
      BY <1>2, <1>3, NatSetInduction
  <1>5. PICK y \in S : TRUE
    OBVIOUS
  <1>6. y + 1 \in Below
    BY <1>4, <1>5
  <1>7. QED
    BY <1>5, <1>6

(* ... and up to a bound, a greatest one.                                  *)
LEMMA GreatestOf ==
    ASSUME NEW n \in Nat, NEW T, T \subseteq 1 .. n, T # {}
    PROVE  Max(T) \in T /\ \A y \in T : Max(T) >= y
  <1> DEFINE S == {n - x : x \in T}
  <1>1. S \subseteq Nat /\ S # {}
    <2>1. \A x \in 1 .. n : n - x \in Nat
      OBVIOUS
    <2>2. QED
      BY <2>1
  <1>2. PICK d \in S : \A e \in S : d <= e
    BY <1>1, SmallestOf
  <1>3. PICK x \in T : d = n - x
    BY <1>2
  <1>4. ASSUME NEW y \in T PROVE x >= y
    <2>1. n - y \in S
      OBVIOUS
    <2>2. n - x <= n - y
      BY <1>2, <1>3, <2>1
    <2>3. QED
      BY <2>2
  <1>5. QED
    BY <1>3, <1>4 DEF Max

(* The greatest of a set of numbers up to n that has n.                    *)
LEMMA MaxIs ==
    ASSUME NEW n \in Nat, NEW T, T \subseteq 0 .. n, n \in T
    PROVE  Max(T) = n
  <1>1. \A x \in T : (\A y \in T : x >= y) <=> x = n
    OBVIOUS
  <1>2. QED
    BY <1>1 DEF Max

-----------------------------------------------------------------------------
(* H, a function of a partial result and a position, is a step of a loop   *)
(* over n positions whose partial results are in A ...                     *)
StepIn(H, n, A) == \A a \in A, i \in 1 .. n : H[<<a, i>>] \in A

(* ... and g is what FoldLeft makes of it: a function on the sets of the   *)
(* positions that have been taken.                                         *)
FoldOf(H, n, base, g) ==
    \A T \in SUBSET (1 .. n) : g[T] = IF T = {} THEN base ELSE H[<<g[T \ {Max(T)}], Max(T)>>]

(* There is such a function ...                                           *)
LEMMA FoldExists ==
    ASSUME NEW n \in Nat, NEW A, NEW base \in A, NEW H, StepIn(H, n, A)
    PROVE  \E g \in [SUBSET (1 .. n) -> A] : FoldOf(H, n, base, g)
  <1> DEFINE Good(k, g) == FoldOf(H, k, base, g)
             Has(k) == k <= n => \E g \in [SUBSET (1 .. k) -> A] : Good(k, g)
             K == {k \in Nat : Has(k)}
  <1>1. Has(0)
    <2> DEFINE g == [T \in SUBSET (1 .. 0) |-> base]
    <2>1. g \in [SUBSET (1 .. 0) -> A] /\ Good(0, g)
      BY DEF FoldOf
    <2>2. QED
      BY <2>1
  <1>2. ASSUME NEW k \in Nat, Has(k)
        PROVE  Has(k + 1)
    <2>1. SUFFICES ASSUME k + 1 <= n
                   PROVE  \E h \in [SUBSET (1 .. k + 1) -> A] : Good(k + 1, h)
      OBVIOUS
    <2>2. PICK g \in [SUBSET (1 .. k) -> A] : Good(k, g)
      <3>1. k <= n
        BY <2>1
      <3> HIDE DEF Good
      <3>2. QED
        BY <1>2, <3>1
    <2> DEFINE h == [T \in SUBSET (1 .. k + 1) |->
                        IF k + 1 \in T THEN H[<<g[T \ {k + 1}], k + 1>>] ELSE g[T]]
    <2>3. ASSUME NEW T \in SUBSET (1 .. k + 1)
          PROVE  T \ {k + 1} \in SUBSET (1 .. k)
      <3>1. \A x \in 1 .. k + 1 : x # k + 1 => x \in 1 .. k
        OBVIOUS
      <3>2. QED
        BY <3>1
    <2>4. ASSUME NEW T \in SUBSET (1 .. k + 1), k + 1 \notin T
          PROVE  T \in SUBSET (1 .. k) /\ T \ {Max(T)} \in SUBSET (1 .. k)
                 /\ T \ {Max(T)} \in SUBSET (1 .. k + 1) /\ k + 1 \notin T \ {Max(T)}
      BY <2>3, <2>4
    <2>5. h \in [SUBSET (1 .. k + 1) -> A]
      <3>1. k + 1 \in 1 .. n
        BY <2>1
      <3>2. ASSUME NEW T \in SUBSET (1 .. k + 1) PROVE h[T] \in A
        <4>1. g[T \ {k + 1}] \in A
          BY <2>2, <2>3
        <4>2. k + 1 \notin T => g[T] \in A
          BY <2>2, <2>4
        <4>3. QED
          BY <3>1, <4>1, <4>2 DEF StepIn
      <3>3. QED
        BY <3>2
    <2>6. ASSUME NEW T \in SUBSET (1 .. k + 1)
          PROVE  h[T] = IF T = {} THEN base ELSE H[<<h[T \ {Max(T)}], Max(T)>>]
      <3>1. CASE k + 1 \in T
        <4>1. Max(T) = k + 1
          <5>1. k + 1 \in Nat /\ T \subseteq 0 .. k + 1
            OBVIOUS
          <5>2. QED
            BY <3>1, <5>1, MaxIs
        <4>2. h[T \ {k + 1}] = g[T \ {k + 1}]
          BY <2>3
        <4>3. h[T] = H[<<g[T \ {k + 1}], k + 1>>] /\ T # {}
          BY <3>1
        <4> HIDE DEF h
        <4>4. QED
          BY <4>1, <4>2, <4>3
      <3>2. CASE k + 1 \notin T
        <4>1. T \in SUBSET (1 .. k) /\ h[T] = g[T]
          BY <2>4, <3>2
        <4>2. h[T \ {Max(T)}] = g[T \ {Max(T)}]
          BY <2>4, <3>2
        <4>3. g[T] = IF T = {} THEN base ELSE H[<<g[T \ {Max(T)}], Max(T)>>]
          BY <2>2, <4>1 DEF FoldOf
        <4> HIDE DEF h
        <4>4. QED
          BY <4>1, <4>2, <4>3
      <3>3. QED
        BY <3>1, <3>2
    <2>7. Good(k + 1, h)
      <3> HIDE DEF h
      <3>1. QED
        BY <2>6 DEF FoldOf
    <2>8. QED
      <3> HIDE DEF h, Good
      <3>1. QED
        BY <2>5, <2>7
  <1>3. Has(n)
    <2> HIDE DEF Has
    <2>1. 0 \in K /\ \A k \in Nat : k \in K => k + 1 \in K
      BY <1>1, <1>2
    <2> HIDE DEF K
    <2>2. Nat \subseteq K
      BY <2>1, NatSetInduction
    <2>3. QED
      BY <2>2 DEF K
  <1>4. n <= n
    OBVIOUS
  <1>5. QED
    BY <1>3, <1>4, Zenon

(* ... and any that does gives the values a loop over the sequence has.    *)
LEMMA FoldSteps ==
    ASSUME NEW n \in Nat, NEW A, NEW base \in A, NEW H, StepIn(H, n, A),
           NEW g, FoldOf(H, n, base, g)
    PROVE  \E F \in [0 .. n -> A] :
              F[0] = base /\ F[n] = g[1 .. n] /\ \A i \in 1 .. n : F[i] = H[<<F[i - 1], i>>]
  <1> DEFINE F == [k \in 0 .. n |-> g[1 .. k]]
             K == {k \in Nat : k <= n => F[k] \in A}
  <1>1. F[0] = base
    <2>1. 1 .. 0 = {} /\ 0 \in 0 .. n
      OBVIOUS
    <2>2. {} \in SUBSET (1 .. n)
      OBVIOUS
    <2>3. g[{}] = base
      BY <2>2 DEF FoldOf
    <2>4. QED
      BY <2>1, <2>3
  <1>2. ASSUME NEW i \in 1 .. n
        PROVE  F[i] = H[<<F[i - 1], i>>]
    <2>1. Max(1 .. i) = i /\ (1 .. i) \ {i} = 1 .. i - 1
      BY MaxIs
    <2>2. 1 .. i \in SUBSET (1 .. n) /\ 1 .. i # {}
      OBVIOUS
    <2>3. g[1 .. i] = H[<<g[1 .. i - 1], i>>]
      BY <2>1, <2>2 DEF FoldOf
    <2>4. QED
      BY <2>3
  <1>3. 0 \in K
    BY <1>1
  <1>4. ASSUME NEW k \in Nat, k \in K
        PROVE  k + 1 \in K
    <2>1. k + 1 <= n => F[k + 1] = H[<<F[k], k + 1>>]
      BY <1>2
    <2> HIDE DEF F
    <2>2. QED
      BY <1>4, <2>1 DEF StepIn
  <1>5. Nat \subseteq K
    <2> HIDE DEF K
    <2>1. QED
      BY <1>3, <1>4, NatSetInduction
  <1>6. ASSUME NEW k \in 0 .. n PROVE F[k] \in A
    <2> HIDE DEF F
    <2>1. k \in Nat /\ k <= n
      OBVIOUS
    <2>2. QED
      BY <1>5, <2>1
  <1>7. F \in [0 .. n -> A] /\ F[n] = g[1 .. n]
    BY <1>6
  <1>8. QED
    <2> HIDE DEF F
    <2>1. QED
      BY <1>1, <1>2, <1>7

-----------------------------------------------------------------------------
(* Sequences of sequences, one after the other: FlattenSeq of the library. *)

\* f \o g, under a name that the provers do not look into.
Joined(f, g) == f \o g

\* Its items are those of f and then those of g.
JoinedOf(h, f, l, g, m) == h = [i \in 1 .. l + m |-> IF i <= l THEN f[i] ELSE g[i - l]]

(* Two sequences together are the items of the first, then of the second.  *)
LEMMA ConcatAt ==
    ASSUME NEW S, NEW f \in Seq(S), NEW g \in Seq(S)
    PROVE  Joined(f, g) \in Seq(S) /\ JoinedOf(Joined(f, g), f, Len(f), g, Len(g))
  <1> DEFINE h == f \o g
             l == Len(f)
             m == Len(g)
  <1>1. /\ h \in Seq(S) /\ DOMAIN h = 1 .. l + m
        /\ \A i \in 1 .. l : h[i] = f[i]
        /\ \A i \in 1 .. m : h[l + i] = g[i]
        /\ l \in Nat /\ m \in Nat
    OBVIOUS
  <1> HIDE DEF l, m
  <1>2. h = [i \in 1 .. l + m |-> h[i]]
    <2> HIDE DEF h
    <2>1. QED
      BY <1>1
  <1> HIDE DEF h
  <1>3. ASSUME NEW i \in 1 .. l + m
        PROVE  h[i] = IF i <= l THEN f[i] ELSE g[i - l]
    <2>1. CASE i <= l
      BY <1>1, <2>1
    <2>2. CASE ~(i <= l)
      <3>1. i - l \in 1 .. m /\ l + (i - l) = i
        BY <1>1, <2>2
      <3>2. QED
        BY <1>1, <2>2, <3>1
    <2>3. QED
      BY <2>1, <2>2
  <1>4. JoinedOf(h, f, l, g, m)
    BY <1>2, <1>3 DEF JoinedOf
  <1>5. QED
    BY <1>1, <1>4 DEF h, l, m, Joined

(* What two sequences have together.                                       *)
LEMMA ConcatIs ==
    ASSUME NEW S, NEW f \in Seq(S), NEW g \in Seq(S)
    PROVE  f \o g \in Seq(S) /\ \A x : x \in ToSet(f \o g) <=> x \in ToSet(f) \/ x \in ToSet(g)
  <1> DEFINE l == Len(f)
             m == Len(g)
             h == f \o g
  <1>1. /\ l \in Nat /\ m \in Nat /\ DOMAIN f = 1 .. l /\ DOMAIN g = 1 .. m
        /\ h \in Seq(S) /\ DOMAIN h = 1 .. l + m
        /\ \A i \in 1 .. l : h[i] = f[i]
        /\ \A i \in 1 .. m : h[l + i] = g[i]
    OBVIOUS
  <1> HIDE DEF l, m, h
  <1>2. \A i \in 1 .. l : i \in 1 .. l + m
    BY <1>1
  <1>3. \A i \in 1 .. m : l + i \in 1 .. l + m
    BY <1>1
  <1>4. \A i \in 1 .. l + m : i \in 1 .. l \/ (i - l \in 1 .. m /\ l + (i - l) = i)
    BY <1>1
  <1>5. ASSUME NEW x
        PROVE  x \in ToSet(h) <=> x \in ToSet(f) \/ x \in ToSet(g)
    <2>1. /\ x \in ToSet(f) <=> \E i \in 1 .. l : f[i] = x
          /\ x \in ToSet(g) <=> \E i \in 1 .. m : g[i] = x
          /\ x \in ToSet(h) <=> \E i \in 1 .. l + m : h[i] = x
      BY <1>1 DEF ToSet
    <2>2. ASSUME NEW i \in 1 .. l + m, h[i] = x
          PROVE  (\E j \in 1 .. l : f[j] = x) \/ \E j \in 1 .. m : g[j] = x
      <3>1. CASE i \in 1 .. l
        BY <1>1, <2>2, <3>1
      <3>2. CASE i - l \in 1 .. m /\ l + (i - l) = i
        BY <1>1, <2>2, <3>2
      <3>3. QED
        BY <1>4, <3>1, <3>2
    <2>3. QED
      BY <1>1, <1>2, <1>3, <2>1, <2>2
  <1>6. QED
    BY <1>1, <1>5 DEF h

(* F holds the sequences that FlattenSeq goes through. *)
Flattens(F, ss, n, S) ==
    /\ F[0] = <<>> /\ F[n] = FlattenSeq(ss)
    /\ \A i \in 1 .. n : F[i] = Joined(F[i - 1], ss[i])
    /\ \A i \in 0 .. n : F[i] \in Seq(S)

(* FlattenSeq goes through the sequences one after the other.              *)
LEMMA FlattenSteps ==
    ASSUME NEW S, NEW n \in Nat, NEW ss \in [1 .. n -> Seq(S)]
    PROVE  \E F : Flattens(F, ss, n, S)
  <1> DEFINE A == Seq(S)
             h == [p \in A \X (1 .. n) |-> p[1] \o ss[p[2]]]
             Iter(f) == [i \in 1 .. n |-> IF i = 1 THEN ss[i] ELSE f[i - 1] \o ss[i]]
  <1> <<>> \in A /\ \A i \in 1 .. n : ss[i] \in A
    OBVIOUS
  <1>1. ASSUME NEW a \in A, NEW i \in 1 .. n
        PROVE  h[<<a, i>>] = a \o ss[i] /\ h[<<a, i>>] \in A
    <2>1. a \o ss[i] \in A
      BY ConcatIs
    <2> HIDE DEF A
    <2>2. h[<<a, i>>] = a \o ss[i]
      OBVIOUS
    <2> HIDE DEF h
    <2>3. QED
      BY <2>1, <2>2
  <1>2. PICK F \in [0 .. n -> A] : F[0] = <<>> /\ \A i \in 1 .. n : F[i] = h[<<F[i - 1], i>>]
    <2> HIDE DEF h, A
    <2>1. StepIn(h, n, A)
      BY <1>1 DEF StepIn
    <2>2. PICK g \in [SUBSET (1 .. n) -> A] : FoldOf(h, n, <<>>, g)
      BY <2>1, FoldExists
    <2>3. QED
      BY <2>1, <2>2, FoldSteps
  <1>3. ASSUME NEW i \in 1 .. n
        PROVE  F[i] = F[i - 1] \o ss[i] /\ F[i - 1] \in A /\ F[i] \in A
    <2>1. i \in 0 .. n /\ i - 1 \in 0 .. n
      OBVIOUS
    <2>2. F[i - 1] \in A /\ F[i] \in A
      BY <2>1
    <2> HIDE DEF h, A
    <2>3. QED
      BY <1>1, <1>2, <2>2
  <1>4. ASSUME NEW i \in 1 .. n, i = 1 PROVE F[i] = ss[i]
    <2>1. F[1] = <<>> \o ss[1] /\ ss[1] \in Seq(S)
      <3> HIDE DEF h
      <3>1. F[i] = F[i - 1] \o ss[i] /\ i - 1 = 0
        BY <1>3, <1>4
      <3>2. QED
        BY <1>2, <1>4, <3>1
    <2> HIDE DEF A, h
    <2>2. QED
      BY <1>4, <2>1
  <1>7. Len(ss) = n
    OBVIOUS
  <1>8. CASE n = 0
    <2>1. FlattenSeq(ss) = ss /\ ss = <<>>
      BY <1>7, <1>8 DEF FlattenSeq
    <2>2. Flattens(F, ss, n, S)
      BY <1>2, <1>8, <2>1 DEF Flattens
    <2>3. QED
      BY <2>2
  <1>9. CASE n # 0
    <2> HIDE DEF A
    <2>1. \E f : f = Iter(f)
      <3> DEFINE f == [i \in 1 .. n |-> F[i]]
      <3>1. ASSUME NEW i \in 1 .. n PROVE f[i] = Iter(f)[i]
        <4>1. i # 1 => i - 1 \in 1 .. n
          OBVIOUS
        <4>2. QED
          BY <1>3, <1>4, <4>1
      <3>2. f = Iter(f)
        BY <3>1
      <3> HIDE DEF f
      <3>3. QED
        BY <3>2
    <2> DEFINE it == CHOOSE f : f = Iter(f)
    <2>2. it = Iter(it)
      BY <2>1
    <2>3. FlattenSeq(ss) = it[n]
      BY <1>7, <1>9 DEF FlattenSeq
    <2>4. ASSUME NEW i \in 1 .. n
          PROVE  it[i] = IF i = 1 THEN ss[i] ELSE it[i - 1] \o ss[i]
      <3> HIDE DEF it
      <3>1. it[i] = Iter(it)[i]
        BY <2>2
      <3>2. QED
        BY <3>1
    <2> HIDE DEF it
    <2> DEFINE M == {k \in Nat : k + 1 <= n => it[k + 1] = F[k + 1]}
    <2>5. 0 \in M
      <3>1. 1 \in 1 .. n
        BY <1>9
      <3>2. QED
        BY <1>4, <2>4, <3>1
    <2>6. ASSUME NEW k \in Nat, k \in M PROVE k + 1 \in M
      <3>1. SUFFICES ASSUME k + 2 <= n PROVE it[k + 2] = F[k + 2]
        OBVIOUS
      <3>2. k + 2 \in 1 .. n /\ k + 2 # 1 /\ k + 2 - 1 = k + 1
        BY <3>1
      <3>3. it[k + 1] = F[k + 1]
        BY <2>6, <3>1
      <3> DEFINE i == k + 2
      <3>4. i \in 1 .. n /\ i # 1 /\ i - 1 = k + 1
        BY <3>2
      <3> HIDE DEF i
      <3>5. it[i] = it[i - 1] \o ss[i] /\ F[i] = F[i - 1] \o ss[i]
        BY <1>3, <2>4, <3>4
      <3>6. QED
        BY <3>3, <3>4, <3>5 DEF i
    <2>7. Nat \subseteq M
      <3> HIDE DEF M
      <3>1. QED
        BY <2>5, <2>6, NatSetInduction
    <2>8. n - 1 \in Nat /\ n - 1 + 1 = n
      BY <1>9
    <2>9. n - 1 \in M
      BY <2>7, <2>8
    <2>10. it[n] = F[n]
      BY <2>8, <2>9
    <2>11. \A i \in 0 .. n : F[i] \in A
      BY <1>2
    <2>12. Flattens(F, ss, n, S)
      <3>1. \A i \in 1 .. n : F[i] = Joined(F[i - 1], ss[i])
        BY <1>3 DEF Joined
      <3>2. QED
        BY <1>2, <2>3, <2>10, <2>11, <3>1 DEF Flattens, A
    <2>13. QED
      BY <2>12
  <1>10. QED
    BY <1>8, <1>9

(* ... adding the next of them at every step.                              *)
LEMMA NextFlattened ==
    ASSUME NEW S, NEW n \in Nat, NEW ss \in [1 .. n -> Seq(S)], NEW F, Flattens(F, ss, n, S),
           NEW k \in Nat, k + 1 <= n
    PROVE  F[k + 1] = Joined(F[k], ss[k + 1]) /\ F[k] \in Seq(S) /\ ss[k + 1] \in Seq(S)
  <1> DEFINE A == Seq(S)
             i == k + 1
  <1>1. i \in 1 .. n /\ i - 1 = k /\ k \in 0 .. n
    OBVIOUS
  <1>2. /\ \A j \in 1 .. n : F[j] = Joined(F[j - 1], ss[j])
        /\ \A j \in 0 .. n : F[j] \in A
        /\ \A j \in 1 .. n : ss[j] \in A
    BY DEF Flattens
  <1> HIDE DEF A, i
  <1>3. F[i] = Joined(F[i - 1], ss[i]) /\ F[k] \in A /\ ss[i] \in A
    BY <1>1, <1>2
  <1>4. QED
    BY <1>1, <1>3 DEF A, i

(* A flattened sequence of sequences has what they have.                   *)
LEMMA FlattenIs ==
    ASSUME NEW S, NEW n \in Nat, NEW ss \in [1 .. n -> Seq(S)]
    PROVE  /\ FlattenSeq(ss) \in Seq(S)
           /\ \A x : x \in ToSet(FlattenSeq(ss)) <=> \E i \in 1 .. n : x \in ToSet(ss[i])
  <1>1. PICK F : Flattens(F, ss, n, S)
    BY FlattenSteps
  <1> DEFINE K == {k \in Nat : k <= n => \A x : x \in ToSet(F[k]) <=> \E i \in 1 .. k : x \in ToSet(ss[i])}
  <1>2. 0 \in K
    BY <1>1 DEF Flattens, ToSet
  <1>3. ASSUME NEW k \in Nat, k \in K PROVE k + 1 \in K
    <2>1. SUFFICES ASSUME k + 1 <= n, NEW x
                   PROVE  x \in ToSet(F[k + 1]) <=> \E i \in 1 .. k + 1 : x \in ToSet(ss[i])
      OBVIOUS
    <2>2. F[k + 1] = Joined(F[k], ss[k + 1]) /\ F[k] \in Seq(S) /\ ss[k + 1] \in Seq(S)
      BY <1>1, <2>1, NextFlattened
    <2>3. x \in ToSet(F[k + 1]) <=> x \in ToSet(F[k]) \/ x \in ToSet(ss[k + 1])
      BY <2>2, ConcatIs DEF Joined
    <2>4. x \in ToSet(F[k]) <=> \E i \in 1 .. k : x \in ToSet(ss[i])
      BY <1>3, <2>1
    <2>5. \A i : i \in 1 .. k + 1 <=> i \in 1 .. k \/ i = k + 1
      OBVIOUS
    <2>6. QED
      BY <2>3, <2>4, <2>5
  <1> HIDE DEF K
  <1>4. Nat \subseteq K
    BY <1>2, <1>3, NatSetInduction
  <1>5. n \in K
    BY <1>4
  <1>6. \A x : x \in ToSet(F[n]) <=> \E i \in 1 .. n : x \in ToSet(ss[i])
    BY <1>5 DEF K
  <1>7. F[n] = FlattenSeq(ss) /\ F[n] \in Seq(S)
    <2> DEFINE A == Seq(S)
    <2>1. F[n] = FlattenSeq(ss) /\ \A i \in 0 .. n : F[i] \in A
      BY <1>1 DEF Flattens
    <2> HIDE DEF A
    <2>2. F[n] \in A
      BY <2>1
    <2>3. QED
      BY <2>1, <2>2 DEF A
  <1>8. QED
    BY <1>6, <1>7

(* ... and changes item by item.                                           *)
Image(g, S) == {g[x] : x \in S}
Through(g, s) == [j \in DOMAIN s |-> g[s[j]]]

(* Two sequences together change item by item as each does alone.          *)
LEMMA ConcatThrough ==
    ASSUME NEW S, NEW g, NEW a \in Seq(S), NEW b \in Seq(S)
    PROVE  /\ Through(g, a) \in Seq(Image(g, S)) /\ Through(g, b) \in Seq(Image(g, S))
           /\ Through(g, Joined(a, b)) = Joined(Through(g, a), Through(g, b))
  <1> DEFINE l == Len(a)
             m == Len(b)
             u == Through(g, a)
             v == Through(g, b)
             h == a \o b
  <1>1. /\ l \in Nat /\ m \in Nat /\ DOMAIN a = 1 .. l /\ DOMAIN b = 1 .. m
        /\ \A i \in 1 .. l : a[i] \in S
        /\ \A i \in 1 .. m : b[i] \in S
    OBVIOUS
  <1>2. /\ u = [j \in 1 .. l |-> g[a[j]]] /\ v = [j \in 1 .. m |-> g[b[j]]]
    BY <1>1 DEF Through
  <1> DEFINE T == Image(g, S)
  <1>3. \A x \in S : g[x] \in T
    BY DEF Image
  <1> HIDE DEF l, m, u, v, T
  <1>4. u \in [1 .. l -> T] /\ v \in [1 .. m -> T]
    BY <1>1, <1>2, <1>3
  <1>5. u \in Seq(T) /\ v \in Seq(T) /\ Len(u) = l /\ Len(v) = m
    <2>1. u \in Seq(T) /\ Len(u) = l
      BY <1>1, <1>4
    <2>2. v \in Seq(T) /\ Len(v) = m
      BY <1>1, <1>4
    <2>3. QED
      BY <2>1, <2>2
  <1>6. h = [i \in 1 .. l + m |-> IF i <= l THEN a[i] ELSE b[i - l]]
    <2>1. Joined(a, b) \in Seq(S) /\ JoinedOf(Joined(a, b), a, l, b, m)
      BY ConcatAt DEF l, m
    <2>2. QED
      BY <2>1 DEF JoinedOf, Joined
  <1>7. u \o v = [i \in 1 .. l + m |-> IF i <= l THEN u[i] ELSE v[i - l]]
    <2>1. Joined(u, v) \in Seq(T) /\ JoinedOf(Joined(u, v), u, Len(u), v, Len(v))
      BY <1>5, ConcatAt
    <2>2. QED
      BY <1>5, <2>1 DEF JoinedOf, Joined
  <1>8. ASSUME NEW i \in 1 .. l + m
        PROVE  g[h[i]] = IF i <= l THEN u[i] ELSE v[i - l]
    <2>1. CASE i <= l
      <3>1. h[i] = a[i] /\ i \in 1 .. l
        BY <1>1, <1>6, <2>1
      <3>2. QED
        BY <1>2, <2>1, <3>1
    <2>2. CASE ~(i <= l)
      <3>1. h[i] = b[i - l] /\ i - l \in 1 .. m
        BY <1>1, <1>6, <2>2
      <3>2. QED
        BY <1>2, <2>2, <3>1
    <2>3. QED
      BY <2>1, <2>2
  <1>9. Through(g, h) = [i \in 1 .. l + m |-> g[h[i]]]
    BY <1>6 DEF Through
  <1>10. Through(g, h) = u \o v
    <2> HIDE DEF h
    <2>1. QED
      BY <1>7, <1>8, <1>9
  <1>11. QED
    BY <1>5, <1>10 DEF u, v, h, T, Joined

(* ... and so do all of them flattened.                                    *)
LEMMA FlattenThrough ==
    ASSUME NEW S, NEW n \in Nat, NEW ss \in [1 .. n -> Seq(S)], NEW g
    PROVE  FlattenSeq([i \in 1 .. n |-> Through(g, ss[i])]) = Through(g, FlattenSeq(ss))
  <1> DEFINE tt == [i \in 1 .. n |-> Through(g, ss[i])]
             T == Image(g, S)
  <1>1. tt \in [1 .. n -> Seq(T)]
    <2>1. ASSUME NEW i \in 1 .. n PROVE Through(g, ss[i]) \in Seq(T)
      <3>1. ss[i] \in Seq(S)
        OBVIOUS
      <3>2. QED
        BY <3>1, ConcatThrough
    <2> HIDE DEF T
    <2>2. QED
      BY <2>1
  <1>2. PICK F : Flattens(F, ss, n, S)
    BY FlattenSteps
  <1>3. PICK G : Flattens(G, tt, n, T)
    <2> HIDE DEF tt
    <2>1. QED
      BY <1>1, FlattenSteps
  <1>4. \A i \in 1 .. n : tt[i] = Through(g, ss[i])
    OBVIOUS
  <1> HIDE DEF tt, T
  <1> DEFINE K == {k \in Nat : k <= n => G[k] = Through(g, F[k])}
  <1>5. 0 \in K
    <2>1. F[0] = <<>> /\ G[0] = <<>>
      BY <1>2, <1>3 DEF Flattens
    <2>2. QED
      BY <2>1 DEF Through
  <1>6. ASSUME NEW k \in Nat, k \in K PROVE k + 1 \in K
    <2>1. SUFFICES ASSUME k + 1 <= n PROVE G[k + 1] = Through(g, F[k + 1])
      OBVIOUS
    <2>2. F[k + 1] = Joined(F[k], ss[k + 1]) /\ F[k] \in Seq(S) /\ ss[k + 1] \in Seq(S)
      BY <1>2, <2>1, NextFlattened
    <2>3. G[k + 1] = Joined(G[k], tt[k + 1]) /\ G[k] \in Seq(T) /\ tt[k + 1] \in Seq(T)
      BY <1>1, <1>3, <2>1, NextFlattened
    <2> DEFINE x == F[k]
               y == ss[k + 1]
    <2>4. /\ Through(g, x) \in Seq(Image(g, S)) /\ Through(g, y) \in Seq(Image(g, S))
          /\ Through(g, Joined(x, y)) = Joined(Through(g, x), Through(g, y))
      <3> HIDE DEF x, y
      <3>1. x \in Seq(S) /\ y \in Seq(S)
        BY <2>2 DEF x, y
      <3>2. QED
        BY <3>1, ConcatThrough
    <2>5. G[k] = Through(g, F[k])
      BY <1>6, <2>1
    <2>6. tt[k + 1] = Through(g, ss[k + 1])
      BY <1>4, <2>1
    <2>7. QED
      BY <2>2, <2>3, <2>4, <2>5, <2>6
  <1> HIDE DEF K
  <1>7. Nat \subseteq K
    BY <1>5, <1>6, NatSetInduction
  <1>8. n \in K
    BY <1>7
  <1>9. G[n] = Through(g, F[n])
    BY <1>8 DEF K
  <1>10. QED
    BY <1>2, <1>3, <1>9 DEF Flattens, tt

(* A sequence of tuples of one item each is that of the items.             *)
LEMMA FlattenSingles ==
    ASSUME NEW S, NEW n \in Nat, NEW s \in [1 .. n -> S]
    PROVE  FlattenSeq([i \in 1 .. n |-> <<s[i]>>]) = s
  <1> DEFINE tt == [i \in 1 .. n |-> <<s[i]>>]
  <1>1. tt \in [1 .. n -> Seq(S)] /\ \A i \in 1 .. n : tt[i] = <<s[i]>> /\ s[i] \in S
    OBVIOUS
  <1> HIDE DEF tt
  <1>2. PICK G : Flattens(G, tt, n, S)
    BY <1>1, FlattenSteps
  <1> DEFINE K == {k \in Nat : k <= n => G[k] = [i \in 1 .. k |-> s[i]]}
  <1>3. 0 \in K
    <2>1. G[0] = <<>>
      BY <1>2 DEF Flattens
    <2>2. QED
      BY <2>1
  <1>4. ASSUME NEW k \in Nat, k \in K PROVE k + 1 \in K
    <2> DEFINE p == [i \in 1 .. k |-> s[i]]
               q == [i \in 1 .. k + 1 |-> s[i]]
    <2>1. SUFFICES ASSUME k + 1 <= n PROVE G[k + 1] = q
      OBVIOUS
    <2>2. G[k + 1] = Joined(G[k], tt[k + 1]) /\ G[k] \in Seq(S) /\ tt[k + 1] \in Seq(S)
      BY <1>1, <1>2, <2>1, NextFlattened
    <2>3. G[k] = p
      BY <1>4, <2>1
    <2>4. tt[k + 1] = <<s[k + 1]>> /\ s[k + 1] \in S
      BY <1>1, <2>1
    <2>5. p \in Seq(S) /\ Len(p) = k
      <3>1. p \in [1 .. k -> S]
        BY <2>1
      <3>2. QED
        BY <3>1
    <2> DEFINE v == <<s[k + 1]>>
    <2>6. v \in Seq(S) /\ Len(v) = 1 /\ v[1] = s[k + 1]
      BY <2>4
    <2>7. Joined(p, v) = [i \in 1 .. k + 1 |-> IF i <= k THEN p[i] ELSE v[i - k]]
      <3>1. p \in Seq(S) /\ v \in Seq(S)
        BY <2>5, <2>6
      <3> HIDE DEF p, v
      <3>2. Joined(p, v) \in Seq(S) /\ JoinedOf(Joined(p, v), p, Len(p), v, Len(v))
        BY <3>1, ConcatAt
      <3>3. Len(p) = k /\ Len(v) = 1
        BY <2>5, <2>6
      <3>4. QED
        BY <3>2, <3>3 DEF JoinedOf
    <2>8. ASSUME NEW i \in 1 .. k + 1
          PROVE  (IF i <= k THEN p[i] ELSE v[i - k]) = s[i]
      <3>1. CASE i <= k
        BY <3>1
      <3>2. CASE ~(i <= k)
        <4>1. i = k + 1 /\ i - k = 1
          BY <3>2
        <4> HIDE DEF v, p
        <4>2. QED
          BY <2>6, <3>2, <4>1
      <3>3. QED
        BY <3>1, <3>2
    <2>9. QED
      <3> HIDE DEF p, v
      <3>1. Joined(p, v) = q
        BY <2>7, <2>8
      <3>2. QED
        BY <2>2, <2>3, <2>4, <3>1 DEF v
  <1> HIDE DEF K
  <1>5. Nat \subseteq K
    BY <1>3, <1>4, NatSetInduction
  <1>6. n \in K
    BY <1>5
  <1>7. G[n] = [i \in 1 .. n |-> s[i]]
    BY <1>6 DEF K
  <1>8. QED
    BY <1>2, <1>7 DEF Flattens, tt

\* A sequence of whatever it has.
IsTuple(f) == f \in Seq(ToSet(f))

(* A function over 1 .. n is such a sequence.                              *)
LEMMA TupleIs ==
    ASSUME NEW n \in Nat, NEW f, f = [i \in 1 .. n |-> f[i]]
    PROVE  IsTuple(f)
  <1> DEFINE S == ToSet(f)
  <1>1. f \in [1 .. n -> S]
    BY DEF ToSet
  <1> HIDE DEF S
  <1>2. f \in Seq(S)
    BY <1>1
  <1>3. QED
    BY <1>2 DEF IsTuple, S

(* Tuples have their items in a set.                                       *)
LEMMA TuplesAre ==
    ASSUME NEW n \in Nat, NEW ss, ss = [i \in 1 .. n |-> ss[i]], \A i \in 1 .. n : IsTuple(ss[i])
    PROVE  ss \in [1 .. n -> Seq(UNION {ToSet(ss[i]) : i \in 1 .. n})]
  <1> DEFINE S == UNION {ToSet(ss[i]) : i \in 1 .. n}
  <1>1. ASSUME NEW i \in 1 .. n PROVE ss[i] \in Seq(S)
    <2> DEFINE f == ss[i]
    <2>1. f \in Seq(ToSet(f)) /\ ToSet(f) \subseteq S
      BY DEF IsTuple
    <2> HIDE DEF f, S
    <2>2. f \in [1 .. Len(f) -> S] /\ Len(f) \in Nat
      BY <2>1
    <2>3. f \in Seq(S)
      BY <2>2
    <2>4. QED
      BY <2>3 DEF f
  <1> HIDE DEF S
  <1>2. ss \in [1 .. n -> Seq(S)]
    BY <1>1
  <1>3. QED
    BY <1>2 DEF S

(* The tuples of a sequence, one after the other.                          *)
LEMMA FlattenTuples ==
    ASSUME NEW n \in Nat, NEW ss, ss = [i \in 1 .. n |-> ss[i]], \A i \in 1 .. n : IsTuple(ss[i])
    PROVE  /\ IsTuple(FlattenSeq(ss))
           /\ \A x : x \in ToSet(FlattenSeq(ss)) <=> \E i \in 1 .. n : x \in ToSet(ss[i])
  <1> DEFINE S == UNION {ToSet(ss[i]) : i \in 1 .. n}
             flat == FlattenSeq(ss)
  <1>1. ss \in [1 .. n -> Seq(S)]
    BY TuplesAre
  <1> HIDE DEF S
  <1>2. flat \in Seq(S) /\ \A x : x \in ToSet(flat) <=> \E i \in 1 .. n : x \in ToSet(ss[i])
    BY <1>1, FlattenIs
  <1> HIDE DEF flat
  <1>3. Len(flat) \in Nat /\ flat = [i \in 1 .. Len(flat) |-> flat[i]]
    BY <1>2
  <1>4. IsTuple(flat)
    BY <1>3, TupleIs
  <1>5. QED
    BY <1>2, <1>4 DEF flat

\* Every sequence of tt is one of ss with its items changed.
EachThrough(tt, n, g, ss) == tt = [i \in 1 .. n |-> Through(g, ss[i])]

(* ... and what becomes of them when every item is changed.                *)
LEMMA FlattenMapped ==
    ASSUME NEW n \in Nat, NEW ss, ss = [i \in 1 .. n |-> ss[i]], \A i \in 1 .. n : IsTuple(ss[i]),
           NEW g, NEW tt, EachThrough(tt, n, g, ss)
    PROVE  FlattenSeq(tt) = Through(g, FlattenSeq(ss))
  <1> DEFINE S == UNION {ToSet(ss[i]) : i \in 1 .. n}
  <1>1. ss \in [1 .. n -> Seq(S)]
    BY TuplesAre
  <1> HIDE DEF S
  <1>2. QED
    BY <1>1, FlattenThrough DEF EachThrough
=============================================================================
