-------------------------- MODULE StackFileProofs --------------------------
(***************************************************************************)
(* Theorems about StackFile, for every file: the typing of what a file     *)
(* becomes, the names of replicas, the layers of an environment, the       *)
(* volumes that `down --volumes` removes, the ports that are published,    *)
(* and the short and the long spelling of a service.                       *)
(***************************************************************************)
EXTENDS StackFile, Induction, FiniteSetTheorems, SequenceTheorems, TLAPS

-----------------------------------------------------------------------------
(* Maps over maps.                                                         *)

(* F holds the maps that Layered goes through. *)
Layers(F, maps, n) ==
    F[0] = <<>> /\ F[n] = Layered(maps) /\ \A i \in 1 .. n : F[i] = maps[i] ++ F[i - 1]

LEMMA LayerSteps ==
    ASSUME NEW n \in Nat, NEW maps, DOMAIN maps = 1 .. n
    PROVE  \E F : Layers(F, maps, n)
  <1> DEFINE V == UNION {{maps[i][k] : k \in DOMAIN maps[i]} : i \in 1 .. n}
             D == UNION {DOMAIN maps[i] : i \in 1 .. n}
             A == UNION {[X -> V] : X \in SUBSET D}
             Iter(g) == [T \in SUBSET (1 .. n) |-> IF T = {} THEN <<>>
                             ELSE maps[Max(T)] ++ g[T \ {Max(T)}]]
             h == [p \in A \X (1 .. n) |-> maps[p[2]] ++ p[1]]
  <1>1. ASSUME NEW T \in SUBSET (1 .. n), T # {} PROVE Max(T) \in T
    <2>1. n \in Nat /\ T \subseteq Nat
      OBVIOUS
    <2>2. QED
      BY <2>1, <1>1, GreatestOf
  <1>2. ASSUME NEW a \in A, NEW i \in 1 .. n PROVE maps[i] ++ a \in A
    <2>1. PICK X \in SUBSET D : a \in [X -> V]
      OBVIOUS
    <2>2. DOMAIN maps[i] \cup X \in SUBSET D
      OBVIOUS
    <2>3. maps[i] ++ a \in [DOMAIN maps[i] \cup X -> V]
      BY <2>1 DEF ++
    <2>4. QED
      BY <2>2, <2>3
  <1>3. <<>> \in A
    <2>1. <<>> \in [{} -> V] /\ {} \in SUBSET D
      OBVIOUS
    <2>2. QED
      BY <2>1
  <1> HIDE DEF A
  <1>4. \E g : g = Iter(g)
    <2>1. StepIn(h, n, A)
      BY <1>2 DEF StepIn
    <2>2. PICK g \in [SUBSET (1 .. n) -> A] : FoldOf(h, n, <<>>, g)
      <3> HIDE DEF h
      <3>1. QED
        BY <2>1, <1>3, FoldExists
    <2>3. ASSUME NEW T \in SUBSET (1 .. n) PROVE g[T] = Iter(g)[T]
      <3>1. T # {} => Max(T) \in 1 .. n /\ g[T \ {Max(T)}] \in A
        BY <1>1
      <3>2. QED
        BY <2>2, <3>1 DEF FoldOf
    <2>4. QED
      BY <2>3
  <1> DEFINE it == CHOOSE g : g = Iter(g)
  <1>5. it = Iter(it)
    BY <1>4
  <1>6. Layered(maps) = it[1 .. n]
    BY DEF Layered, FoldLeft, MapThenFoldSet
  <1> DEFINE B == A \cup {it[T] : T \in SUBSET (1 .. n)}
             H == [p \in B \X (1 .. n) |-> maps[p[2]] ++ p[1]]
  <1>7. FoldOf(H, n, <<>>, it) /\ \A a \in A, i \in 1 .. n : H[<<a, i>>] = maps[i] ++ a
    <2> HIDE DEF it
    <2>1. ASSUME NEW T \in SUBSET (1 .. n), T # {}
          PROVE  it[T] = H[<<it[T \ {Max(T)}], Max(T)>>]
      <3>1. Max(T) \in 1 .. n /\ it[T \ {Max(T)}] \in B
        BY <1>1, <2>1
      <3>2. it[T] = Iter(it)[T]
        BY <1>5
      <3>3. QED
        BY <2>1, <3>1, <3>2
    <2>2. it[{}] = Iter(it)[{}] /\ {} \in SUBSET (1 .. n)
      BY <1>5
    <2>3. QED
      BY <2>1, <2>2 DEF FoldOf
  <1> HIDE DEF it, H
  <1>8. PICK F \in [0 .. n -> A] : F[0] = <<>> /\ F[n] = it[1 .. n]
                                   /\ \A i \in 1 .. n : F[i] = H[<<F[i - 1], i>>]
    <2>1. StepIn(H, n, A)
      BY <1>2, <1>7 DEF StepIn
    <2>2. QED
      BY <1>3, <1>7, <2>1, FoldSteps
  <1>9. ASSUME NEW i \in 1 .. n PROVE F[i] = maps[i] ++ F[i - 1]
    <2>1. F[i - 1] \in A
      OBVIOUS
    <2>2. QED
      BY <1>7, <1>8, <2>1
  <1>10. Layers(F, maps, n)
    BY <1>6, <1>8, <1>9 DEF Layers
  <1>11. QED
    BY <1>10

(* A key has the value of the last map that has it. *)
LEMMA LayeredIs ==
    ASSUME NEW n \in Nat, NEW maps, DOMAIN maps = 1 .. n, NEW k
    PROVE  /\ k \in DOMAIN Layered(maps) <=> \E i \in 1 .. n : k \in DOMAIN maps[i]
           /\ \A i \in 1 .. n : k \in DOMAIN maps[i]
                  /\ (\A j \in i + 1 .. n : k \notin DOMAIN maps[j])
                => Layered(maps)[k] = maps[i][k]
  <1>1. PICK F : Layers(F, maps, n)
    BY LayerSteps, Zenon
  <1> DEFINE P(m) == m <= n =>
                 /\ k \in DOMAIN F[m] <=> \E i \in 1 .. m : k \in DOMAIN maps[i]
                 /\ \A i \in 1 .. m : k \in DOMAIN maps[i]
                        /\ (\A j \in i + 1 .. m : k \notin DOMAIN maps[j])
                      => F[m][k] = maps[i][k]
             K == {m \in Nat : P(m)}
  <1>2. P(0)
    <2>1. DOMAIN F[0] = {}
      BY <1>1 DEF Layers
    <2>2. QED
      BY <2>1
  <1>3. ASSUME NEW m \in Nat, P(m) PROVE P(m + 1)
    <2>1. SUFFICES ASSUME m + 1 <= n PROVE
                 /\ k \in DOMAIN F[m + 1] <=> \E i \in 1 .. m + 1 : k \in DOMAIN maps[i]
                 /\ \A i \in 1 .. m + 1 : k \in DOMAIN maps[i]
                        /\ (\A j \in i + 1 .. m + 1 : k \notin DOMAIN maps[j])
                      => F[m + 1][k] = maps[i][k]
      OBVIOUS
    <2>2. F[m + 1] = maps[m + 1] ++ F[m]
      BY <1>1, <2>1 DEF Layers
    <2>3. k \in DOMAIN F[m + 1] <=> k \in DOMAIN maps[m + 1] \/ k \in DOMAIN F[m]
      BY <2>2 DEF ++
    <2>4. k \in DOMAIN F[m + 1] =>
             F[m + 1][k] = IF k \in DOMAIN maps[m + 1] THEN maps[m + 1][k] ELSE F[m][k]
      BY <2>2 DEF ++
    <2>5. \A i \in 1 .. m + 1 : i = m + 1 \/ i \in 1 .. m
      OBVIOUS
    <2>6. \A i \in 1 .. m : i \in 1 .. m + 1 /\ m + 1 \in i + 1 .. m + 1
                            /\ \A j \in i + 1 .. m : j \in i + 1 .. m + 1
      OBVIOUS
    <2>7. m <= n /\ m + 1 \in 1 .. m + 1
      BY <2>1
    <2>8. k \in DOMAIN F[m + 1] <=> \E i \in 1 .. m + 1 : k \in DOMAIN maps[i]
      BY <1>3, <2>3, <2>5, <2>6, <2>7
    <2>9. ASSUME NEW i \in 1 .. m + 1, k \in DOMAIN maps[i],
                 \A j \in i + 1 .. m + 1 : k \notin DOMAIN maps[j]
          PROVE  F[m + 1][k] = maps[i][k]
      <3>1. k \in DOMAIN F[m + 1]
        BY <2>8, <2>9
      <3>2. CASE i = m + 1
        BY <2>4, <2>9, <3>1, <3>2
      <3>3. CASE i \in 1 .. m
        <4>1. k \notin DOMAIN maps[m + 1] /\ \A j \in i + 1 .. m : k \notin DOMAIN maps[j]
          BY <2>6, <2>9, <3>3
        <4>2. F[m][k] = maps[i][k]
          BY <1>3, <2>7, <2>9, <3>3, <4>1
        <4>3. QED
          BY <2>4, <3>1, <4>1, <4>2
      <3>4. QED
        BY <2>5, <3>2, <3>3
    <2>10. QED
      BY <2>8, <2>9
  <1>4. P(n)
    <2> HIDE DEF P
    <2>1. 0 \in K /\ \A m \in Nat : m \in K => m + 1 \in K
      BY <1>2, <1>3
    <2> HIDE DEF K
    <2>2. Nat \subseteq K
      BY <2>1, NatSetInduction
    <2>3. QED
      BY <2>2 DEF K
  <1>5. F[n] = Layered(maps) /\ n <= n
    BY <1>1 DEF Layers
  <1>6. QED
    BY <1>4, <1>5

\* The places at which a sequence of n values has one.
Naming(offers, n) == {i \in 1 .. n : offers[i] # Absent}

(* ... and none if all are without it.                                     *)
LEMMA LastLayer ==
    ASSUME NEW n \in Nat, NEW maps, DOMAIN maps = 1 .. n, NEW k, NEW offers,
           \A i \in 1 .. n : offers[i] = Get(maps[i], k) /\ (k \in DOMAIN maps[i] => maps[i][k] # Absent)
    PROVE  Get(Layered(maps), k) =
              IF Naming(offers, n) = {} THEN Absent ELSE offers[Max(Naming(offers, n))]
  <1> DEFINE T == Naming(offers, n)
  <1>1. \A i \in 1 .. n : i \in T <=> k \in DOMAIN maps[i]
    BY DEF Naming, Get
  <1>2. T \subseteq 1 .. n
    BY DEF Naming
  <1>3. k \in DOMAIN Layered(maps) <=> \E i \in 1 .. n : k \in DOMAIN maps[i]
    BY LayeredIs
  <1> HIDE DEF T
  <1>4. CASE T = {}
    BY <1>1, <1>3, <1>4 DEF Get, T
  <1>5. CASE T # {}
    <2>1. Max(T) \in T /\ \A i \in T : Max(T) >= i
      BY <1>2, <1>5, GreatestOf
    <2>2. \A j \in Max(T) + 1 .. n : k \notin DOMAIN maps[j]
      <3>1. Max(T) \in 1 .. n
        BY <1>2, <2>1
      <3>2. \A j \in Max(T) + 1 .. n : j \in 1 .. n /\ ~(Max(T) >= j)
        BY <1>2, <2>1, <3>1
      <3>3. QED
        BY <1>1, <2>1, <3>2
    <2>3. Layered(maps)[k] = maps[Max(T)][k]
      BY <1>1, <1>2, <2>1, <2>2, LayeredIs
    <2>4. QED
      BY <1>1, <1>2, <1>3, <1>5, <2>1, <2>3 DEF Get, T
  <1>6. QED
    BY <1>4, <1>5

(* The values of a map are those of its pairs.                             *)
LEMMA PairsValues ==
    ASSUME NEW s, IsSeq(s), \A i \in DOMAIN s : s[i][2] # Absent
    PROVE  \A k \in DOMAIN Pairs(s) : Pairs(s)[k] # Absent
  <1> DEFINE n == Len(s)
             maps == Mapped(s, LAMBDA p : One(p[1], p[2]))
  <1>1. n \in Nat /\ DOMAIN maps = 1 .. n
    BY DEF IsSeq, Mapped
  <1>2. \A i \in 1 .. n : maps[i] = One(s[i][1], s[i][2])
    BY <1>1 DEF IsSeq, Mapped
  <1>3. ASSUME NEW i \in 1 .. n, NEW k \in DOMAIN maps[i] PROVE maps[i][k] # Absent
    <2>1. i \in DOMAIN s
      BY DEF IsSeq
    <2>2. s[i][2] # Absent
      BY <2>1
    <2>3. maps[i] = One(s[i][1], s[i][2])
      BY <1>2
    <2> HIDE DEF maps
    <2>4. QED
      BY <2>2, <2>3 DEF One
  <1>4. Pairs(s) = Layered(maps)
    BY DEF Pairs
  <1> HIDE DEF n, maps
  <1>5. TAKE k \in DOMAIN Pairs(s)
  <1> DEFINE T == {i \in 1 .. n : k \in DOMAIN maps[i]}
  <1>6. T # {} /\ T \subseteq 1 .. n
    BY <1>1, <1>4, LayeredIs
  <1>7. Max(T) \in T /\ \A i \in T : Max(T) >= i
    <2> HIDE DEF T
    <2>1. QED
      BY <1>1, <1>6, GreatestOf
  <1>8. \A j \in Max(T) + 1 .. n : k \notin DOMAIN maps[j]
    <2>1. \A j \in Max(T) + 1 .. n : j \in 1 .. n /\ ~(Max(T) >= j)
      BY <1>1, <1>6, <1>7
    <2>2. QED
      BY <1>7, <2>1
  <1>9. Layered(maps)[k] = maps[Max(T)][k]
    BY <1>1, <1>7, <1>8, LayeredIs
  <1>10. QED
    BY <1>3, <1>4, <1>7, <1>9

(* The last pair of a key counts.                                          *)
LEMMA PairsAre ==
    ASSUME NEW s, IsSeq(s), NEW k
    PROVE  /\ k \in DOMAIN Pairs(s) <=> \E i \in DOMAIN s : s[i][1] = k
           /\ Get(Pairs(s), k) = LastOf(s, k)
  <1> DEFINE n == Len(s)
             maps == Mapped(s, LAMBDA p : One(p[1], p[2]))
             T == {i \in DOMAIN s : s[i][1] = k}
  <1>1. n \in Nat /\ DOMAIN s = 1 .. n /\ DOMAIN maps = 1 .. n
    BY DEF IsSeq, Mapped
  <1>2. \A i \in 1 .. n : maps[i] = One(s[i][1], s[i][2])
    BY <1>1 DEF Mapped
  <1>3. Pairs(s) = Layered(maps)
    BY DEF Pairs
  <1> HIDE DEF n, maps
  <1>4. ASSUME NEW i \in 1 .. n
        PROVE  (k \in DOMAIN maps[i] <=> s[i][1] = k) /\ (s[i][1] = k => maps[i][k] = s[i][2])
    <2> DEFINE key == s[i][1]
               v == s[i][2]
    <2>1. maps[i] = One(key, v)
      BY <1>2
    <2> HIDE DEF key, v
    <2>2. DOMAIN maps[i] = {key} /\ maps[i][key] = v
      BY <2>1 DEF One
    <2>3. QED
      BY <2>2 DEF key, v
  <1>5. k \in DOMAIN Pairs(s) <=> \E i \in DOMAIN s : s[i][1] = k
    <2>1. k \in DOMAIN Layered(maps) <=> \E i \in 1 .. n : k \in DOMAIN maps[i]
      BY <1>1, LayeredIs
    <2>2. QED
      BY <1>1, <1>3, <1>4, <2>1
  <1>6. T \subseteq 1 .. n /\ \A i \in T : s[i][1] = k
    BY <1>1
  <1>7. LastOf(s, k) = IF T = {} THEN Absent ELSE s[Max(T)][2]
    BY DEF LastOf
  <1> HIDE DEF T
  <1>8. CASE T = {}
    <2>1. k \notin DOMAIN Pairs(s)
      BY <1>5, <1>8 DEF T
    <2>2. QED
      BY <1>5, <1>7, <1>8, <2>1 DEF Get
  <1>9. CASE T # {}
    <2>1. Max(T) \in T /\ \A i \in T : Max(T) >= i
      BY <1>1, <1>6, <1>9, GreatestOf
    <2>2. \A j \in Max(T) + 1 .. n : k \notin DOMAIN maps[j]
      <3>1. T \subseteq 1 .. n /\ Max(T) \in 1 .. n
        BY <1>6, <2>1
      <3>2. \A j \in Max(T) + 1 .. n : j \in 1 .. n /\ ~(Max(T) >= j)
        BY <1>1, <3>1
      <3>3. \A j \in Max(T) + 1 .. n : j \notin T
        BY <2>1, <3>2
      <3>4. \A j \in 1 .. n : j \notin T => s[j][1] # k
        BY <1>1 DEF T
      <3>5. QED
        BY <1>4, <3>2, <3>3, <3>4
    <2> DEFINE m == Max(T)
    <2>3. m \in 1 .. n /\ s[m][1] = k /\ k \in DOMAIN maps[m]
      BY <1>4, <1>6, <2>1
    <2>4. Layered(maps)[k] = maps[m][k]
      <3>1. \A j \in m + 1 .. n : k \notin DOMAIN maps[j]
        BY <2>2
      <3> HIDE DEF m
      <3>2. QED
        BY <1>1, <2>3, <3>1, LayeredIs
    <2>5. QED
      BY <1>1, <1>3, <1>4, <1>5, <1>7, <1>9, <2>3, <2>4 DEF Get
  <1>10. QED
    BY <1>5, <1>8, <1>9

-----------------------------------------------------------------------------
(* Durations.                                                              *)

MaxOfTwo == \A a, b \in Int : Max({a, b}) \in {a, b} /\ Max({a, b}) >= a /\ Max({a, b}) >= b

LEMMA MaxTwo == MaxOfTwo
  <1>1. SUFFICES ASSUME NEW a \in Int, NEW b \in Int
                 PROVE  Max({a, b}) \in {a, b} /\ Max({a, b}) >= a /\ Max({a, b}) >= b
    BY DEF MaxOfTwo
  <1>2. \E x \in {a, b} : \A y \in {a, b} : x >= y
    OBVIOUS
  <1>3. Max({a, b}) \in {a, b} /\ \A y \in {a, b} : Max({a, b}) >= y
    BY <1>2 DEF Max
  <1>4. QED
    BY <1>3

LEMMA UnitsAreNumbers == \A unit \in DOMAIN Milliseconds : Milliseconds[unit] \in Int
  <1> DEFINE Of(unit) ==
        CASE unit = "ms" -> 1 [] unit = "m" -> 60000 [] unit = "h" -> 3600000 [] OTHER -> 1000
  <1>1. \A unit : Of(unit) \in Int
    OBVIOUS
  <1>2. Milliseconds = [unit \in {"ms", "s", "", "m", "h"} |-> Of(unit)]
    BY DEF Milliseconds
  <1> HIDE DEF Of
  <1>3. QED
    BY <1>1, <1>2

(* The sum of a duration's parts is a number.                              *)
LEMMA TotalIs ==
    ASSUME NEW parts, IsSeq(parts),
           \A i \in DOMAIN parts : parts[i][1] \in Int /\ parts[i][2] \in DOMAIN Milliseconds
    PROVE  Total(parts) \in Int
  <1> DEFINE n == Len(parts)
             Iter(g) == [T \in SUBSET (1 .. n) |-> IF T = {} THEN 0
                 ELSE g[T \ {Max(T)}] + parts[Max(T)][1] * Milliseconds[parts[Max(T)][2]]]
             h == [p \in Int \X (1 .. n) |-> p[1] + parts[p[2]][1] * Milliseconds[parts[p[2]][2]]]
  <1>1. n \in Nat /\ DOMAIN parts = 1 .. n
    BY DEF IsSeq
  <1> HIDE DEF n
  <1>2. ASSUME NEW T \in SUBSET (1 .. n), T # {} PROVE Max(T) \in T
    BY <1>1, <1>2, GreatestOf
  <1>3. ASSUME NEW t \in Int, NEW i \in 1 .. n
        PROVE  t + parts[i][1] * Milliseconds[parts[i][2]] \in Int
    <2>1. parts[i][1] \in Int /\ Milliseconds[parts[i][2]] \in Int
      BY <1>1, UnitsAreNumbers
    <2>2. QED
      BY <2>1
  <1>4. \E g : g = Iter(g)
    <2>1. StepIn(h, n, Int)
      BY <1>3 DEF StepIn
    <2>2. PICK g \in [SUBSET (1 .. n) -> Int] : FoldOf(h, n, 0, g)
      <3> DEFINE A == Int
      <3>1. 0 \in A /\ StepIn(h, n, A)
        BY <2>1
      <3> HIDE DEF h, A
      <3>2. \E g \in [SUBSET (1 .. n) -> A] : FoldOf(h, n, 0, g)
        BY <1>1, <3>1, FoldExists
      <3>3. QED
        BY <3>2 DEF A
    <2>3. ASSUME NEW T \in SUBSET (1 .. n) PROVE g[T] = Iter(g)[T]
      <3>1. T # {} => Max(T) \in 1 .. n /\ g[T \ {Max(T)}] \in Int
        BY <1>2
      <3>2. QED
        BY <2>2, <3>1 DEF FoldOf
    <2>4. QED
      BY <2>3
  <1> DEFINE it == CHOOSE g : g = Iter(g)
  <1>5. it = Iter(it)
    BY <1>4
  <1>6. Total(parts) = it[1 .. n]
    BY <1>1 DEF Total, FoldLeft, MapThenFoldSet
  <1> DEFINE B == Int \cup {it[T] : T \in SUBSET (1 .. n)}
             H == [p \in B \X (1 .. n) |-> p[1] + parts[p[2]][1] * Milliseconds[parts[p[2]][2]]]
  <1>7. FoldOf(H, n, 0, it) /\ StepIn(H, n, Int)
    <2>1. StepIn(H, n, Int)
      BY <1>3 DEF StepIn
    <2> HIDE DEF it
    <2>2. ASSUME NEW T \in SUBSET (1 .. n), T # {}
          PROVE  it[T] = H[<<it[T \ {Max(T)}], Max(T)>>]
      <3>1. Max(T) \in 1 .. n /\ it[T \ {Max(T)}] \in B
        BY <1>2, <2>2
      <3>2. it[T] = Iter(it)[T]
        BY <1>5
      <3>3. QED
        BY <2>2, <3>1, <3>2
    <2>3. it[{}] = Iter(it)[{}] /\ {} \in SUBSET (1 .. n)
      BY <1>5
    <2>4. QED
      BY <2>1, <2>2, <2>3 DEF FoldOf
  <1> HIDE DEF it, H
  <1>8. PICK F \in [0 .. n -> Int] : F[n] = it[1 .. n]
    <2> DEFINE A == Int
    <2>1. 0 \in A /\ StepIn(H, n, A)
      BY <1>7
    <2> HIDE DEF A
    <2>2. \E F \in [0 .. n -> A] : F[n] = it[1 .. n]
      BY <1>1, <1>7, <2>1, FoldSteps
    <2>3. QED
      BY <2>2 DEF A
  <1>9. n \in 0 .. n
    BY <1>1
  <1>10. QED
    BY <1>6, <1>8, <1>9

(* A duration that is read is a number of whole seconds.                   *)
LEMMA SecondsAreNatural ==
    ASSUME NEW parts, parts = Absent \/ (IsSeq(parts) /\ \A i \in DOMAIN parts : parts[i][1] \in Int),
           NEW default \in Nat
    PROVE  Or(parse_duration_seconds(parts), default) \in Nat
  <1>1. CASE parts = Absent \/ \E i \in DOMAIN parts : parts[i][2] \notin DOMAIN Milliseconds
    BY <1>1 DEF Or, parse_duration_seconds
  <1>2. CASE ~(parts = Absent \/ \E i \in DOMAIN parts : parts[i][2] \notin DOMAIN Milliseconds)
    <2> DEFINE t == (Total(parts) + 999) \div 1000
    <2>1. Total(parts) \in Int
      BY <1>2, TotalIs
    <2>2. t \in Int
      BY <2>1
    <2>3. parse_duration_seconds(parts) = Max({0, t})
      BY <1>2 DEF parse_duration_seconds
    <2> HIDE DEF t
    <2>4. Max({0, t}) \in Nat
      BY <2>2, MaxTwo DEF MaxOfTwo
    <2>5. QED
      BY <2>3, <2>4 DEF Or
  <1>3. QED
    BY <1>1, <1>2

-----------------------------------------------------------------------------
(* Names of replicas.                                                      *)

(* Numbers that fit into the count of replicas have different numerals.    *)
LEMMA NumeralsDiffer ==
    ASSUME NEW a \in 1 .. U32 - 1, NEW b \in 1 .. U32 - 1, Numeral(a) = Numeral(b)
    PROVE  a = b
  <1> DEFINE S == 1 .. U32 - 1
             T == {Numeral(n) : n \in S}
             f == [n \in S |-> Numeral(n)]
  <1>1. IsFiniteSet(S) /\ Cardinality(S) = U32 - 1
    BY FS_Interval, ComposeFileAssumption
  <1>2. Cardinality(T) = U32 - 1
    BY StackFileAssumption
  <1>3. f \in Surjection(S, T)
    BY DEF Surjection
  <1>4. f \in Injection(S, T)
    <2> HIDE DEF S, T, f
    <2>1. QED
      BY <1>1, <1>2, <1>3, FS_SurjSameCardinalityImpliesInj
  <1>5. f[a] = f[b]
    OBVIOUS
  <1>6. QED
    <2> HIDE DEF f, T
    <2>1. \A x, y \in S : f[x] = f[y] => x = y
      BY <1>4 DEF Injection, IsInjective
    <2>2. QED
      BY <1>5, <2>1

LEMMA NumeralIsLonger ==
    ASSUME NEW name \in Seq(STRING), NEW part
    PROVE  Append(name, part) # name
  <1>1. Len(Append(name, part)) = Len(name) + 1 /\ Len(name) \in Nat
    OBVIOUS
  <1>2. QED
    BY <1>1

LEMMA AppendTellsApart ==
    ASSUME NEW s \in Seq(STRING), NEW t \in Seq(STRING), NEW a, NEW b,
           Append(s, a) = Append(t, b)
    PROVE  s = t /\ a = b
  <1> DEFINE S == STRING \cup {a, b}
  <1>1. s \in Seq(S) /\ t \in Seq(S) /\ a \in S /\ b \in S
    BY SeqMonotonic
  <1>2. QED
    <2> HIDE DEF S
    <2>1. QED
      BY <1>1, AppendInjective

\* Services are finitely many, with names and numbers of replicas.
Scaled(p) ==
    /\ IsFiniteSet(DOMAIN p.services)
    /\ \A s \in DOMAIN p.services : s \in Seq(STRING) /\ p.services[s].replicas \in 1 .. U32 - 1

Clash(p) == \E s, t \in DOMAIN p.services : s # t /\
    \E r \in 2 .. p.services[s].replicas : Instance(s, r) = t

(* No two replicas have one name, if no service is named like a replica.   *)
LEMMA InstancesDiffer ==
    ASSUME NEW p, Scaled(p), ~Clash(p),
           NEW s \in DOMAIN p.services, NEW t \in DOMAIN p.services,
           NEW a \in 1 .. p.services[s].replicas, NEW b \in 1 .. p.services[t].replicas,
           Instance(s, a) = Instance(t, b)
    PROVE  s = t /\ a = b
  <1>1. s \in Seq(STRING) /\ t \in Seq(STRING) /\ a \in 1 .. U32 - 1 /\ b \in 1 .. U32 - 1
    BY ComposeFileAssumption DEF Scaled
  <1>2. a = 1 \/ a \in 2 .. p.services[s].replicas
    BY DEF Scaled
  <1>3. b = 1 \/ b \in 2 .. p.services[t].replicas
    BY DEF Scaled
  <1>4. \A r : Instance(s, r) = IF r = 1 THEN s ELSE Append(s, Numeral(r))
    BY DEF Instance
  <1>5. \A r : Instance(t, r) = IF r = 1 THEN t ELSE Append(t, Numeral(r))
    BY DEF Instance
  <1>6. CASE a = 1 /\ b = 1
    BY <1>4, <1>5, <1>6
  <1>7. CASE a = 1 /\ b # 1
    <2>1. s = Append(t, Numeral(b))
      BY <1>4, <1>5, <1>7
    <2>2. s # t
      BY <1>1, <2>1, NumeralIsLonger
    <2>3. Instance(t, b) = s /\ b \in 2 .. p.services[t].replicas
      BY <1>3, <1>4, <1>7
    <2>4. QED
      BY <2>2, <2>3 DEF Clash
  <1>8. CASE a # 1 /\ b = 1
    <2>1. t = Append(s, Numeral(a))
      BY <1>4, <1>5, <1>8
    <2>2. s # t
      BY <1>1, <2>1, NumeralIsLonger
    <2>3. Instance(s, a) = t /\ a \in 2 .. p.services[s].replicas
      BY <1>2, <1>5, <1>8
    <2>4. QED
      BY <2>2, <2>3 DEF Clash
  <1>9. CASE a # 1 /\ b # 1
    <2>1. Append(s, Numeral(a)) = Append(t, Numeral(b))
      BY <1>4, <1>5, <1>9
    <2>2. s = t /\ Numeral(a) = Numeral(b)
      BY <1>1, <2>1, AppendTellsApart
    <2>3. QED
      BY <1>1, <2>2, NumeralsDiffer
  <1>10. QED
    BY <1>6, <1>7, <1>8, <1>9

Replicas(p, s) == {Instance(s, r) : r \in 1 .. p.services[s].replicas}
Instances(p) == UNION {Replicas(p, s) : s \in DOMAIN p.services}
Wanted(p) == UNION {{s} \X (1 .. p.services[s].replicas) : s \in DOMAIN p.services}

LEMMA InstancesAreCounted ==
    ASSUME NEW p, Scaled(p), ~Clash(p)
    PROVE  Cardinality(Instances(p)) = Cardinality(Wanted(p))
  <1> DEFINE f == [w \in Wanted(p) |-> Instance(w[1], w[2])]
             Of == {{s} \X (1 .. p.services[s].replicas) : s \in DOMAIN p.services}
  <1>1. IsFiniteSet(Wanted(p))
    <2>1. \A s \in DOMAIN p.services : IsFiniteSet({s} \X (1 .. p.services[s].replicas))
      <3>1. TAKE s \in DOMAIN p.services
      <3>2. p.services[s].replicas \in Int
        BY ComposeFileAssumption DEF Scaled
      <3>3. IsFiniteSet(1 .. p.services[s].replicas)
        BY <3>2, FS_Interval
      <3>4. IsFiniteSet({s})
        BY FS_Singleton
      <3>5. QED
        BY <3>3, <3>4, FS_Product
    <2>2. IsFiniteSet(Of)
      <3> DEFINE g == [s \in DOMAIN p.services |-> {s} \X (1 .. p.services[s].replicas)]
      <3>1. g \in Surjection(DOMAIN p.services, Of)
        BY DEF Surjection
      <3> HIDE DEF g, Of
      <3>2. QED
        BY <3>1, FS_Surjection DEF Scaled
    <2>3. \A T \in Of : IsFiniteSet(T)
      BY <2>1
    <2>4. Wanted(p) = UNION Of
      BY DEF Wanted
    <2> HIDE DEF Of
    <2>5. QED
      BY <2>2, <2>3, <2>4, FS_UNION
  <1>2. \A w \in Wanted(p) : w = <<w[1], w[2]>> /\ w[1] \in DOMAIN p.services
                               /\ w[2] \in 1 .. p.services[w[1]].replicas
    BY DEF Wanted
  <1>3. \A s \in DOMAIN p.services : \A r \in 1 .. p.services[s].replicas : <<s, r>> \in Wanted(p)
    BY DEF Wanted
  <1>4. \A w \in Wanted(p) : f[w] \in Instances(p)
    BY <1>2 DEF Instances, Replicas
  <1>5. ASSUME NEW i \in Instances(p) PROVE \E w \in Wanted(p) : f[w] = i
    <2>1. PICK s \in DOMAIN p.services : \E r \in 1 .. p.services[s].replicas : i = Instance(s, r)
      BY DEF Instances, Replicas
    <2>2. PICK r \in 1 .. p.services[s].replicas : i = Instance(s, r)
      BY <2>1
    <2>3. <<s, r>> \in Wanted(p) /\ f[<<s, r>>] = i
      BY <1>3, <2>2
    <2>4. QED
      BY <2>3
  <1>6. ASSUME NEW v \in Wanted(p), NEW w \in Wanted(p), f[v] = f[w] PROVE v = w
    <2>1. Instance(v[1], v[2]) = Instance(w[1], w[2])
      BY <1>6
    <2>2. v[1] = w[1] /\ v[2] = w[2]
      BY <1>2, <2>1, InstancesDiffer
    <2>3. QED
      BY <1>2, <2>2
  <1>7. f \in Bijection(Wanted(p), Instances(p))
    <2>1. f \in [Wanted(p) -> Instances(p)]
      BY <1>4
    <2> HIDE DEF f
    <2>2. QED
      BY <1>5, <1>6, <2>1 DEF Bijection, Injection, Surjection, IsInjective
  <1>8. QED
    <2> HIDE DEF f
    <2>1. ExistsBijection(Wanted(p), Instances(p))
      BY <1>7 DEF ExistsBijection
    <2>2. QED
      BY <1>1, <2>1, FS_Bijection

-----------------------------------------------------------------------------
(* What the loader and the conversion return.                              *)

LEMMA ServiceIs ==
    ASSUME NEW name, NEW raw, NEW known, NEW os
    PROVE  LET svc == normalize_service(name, raw, known, os)
           IN  /\ svc.image = Get(raw, "image")
               /\ svc.env_file = Node(raw, "env_file")
               /\ svc.environment = normalize_environment(Node(raw, "environment"), os)
               /\ svc.ports = normalize_ports(Node(raw, "ports"))
               /\ svc.healthcheck = normalize_healthcheck(Node(raw, "healthcheck"))
               /\ svc.restart = normalize_restart(Node(raw, "restart"), Node(raw, "deploy"))
               /\ svc.replicas = normalize_replicas(raw)
  BY DEF normalize_service

\* The networks of a project, with the one that is always there.
NetworksOf(file) ==
    normalize_resources(file.networks, file.name) ++
        One("default", [name |-> <<file.name, "default">>, external |-> FALSE,
                        driver |-> Absent, options |-> FALSE])
RawOf(file, s) == expand_yaml_merge_keys(file.services[s])
Chosen(file, profiles) == {s \in DOMAIN file.services : InProfile(RawOf(file, s), profiles)}
ServiceOf(file, os, s) == normalize_service(s, RawOf(file, s), NetworksOf(file), os)
TextOf(file, os) == interpolate_compose_text(file.references,
                        build_interpolation_env(file.dotenv, os, <<>>))

LEMMA ProjectIs ==
    ASSUME NEW file, NEW profiles, NEW os
    PROVE  LET whole == [name |-> file.name,
                           services |-> [s \in Chosen(file, profiles) |-> ServiceOf(file, os, s)],
                           networks |-> NetworksOf(file),
                           volumes |-> normalize_resources(file.volumes, file.name)]
           IN  load_compose_file(file, profiles, os) =
                  IF \/ TextOf(file, os) = Invalid
                     \/ \E s \in Chosen(file, profiles) : ServiceRefused(ServiceOf(file, os, s))
                  THEN {} ELSE {whole}
  <1> DEFINE raw == [n \in DOMAIN file.services |-> expand_yaml_merge_keys(file.services[n])]
             chosen == {n \in DOMAIN raw : InProfile(raw[n], profiles)}
             services == [n \in chosen |-> normalize_service(n, raw[n], NetworksOf(file), os)]
             made == [s \in Chosen(file, profiles) |-> ServiceOf(file, os, s)]
  <1>1. chosen = Chosen(file, profiles)
    BY DEF Chosen, RawOf
  <1>2. \A n \in chosen : services[n] = ServiceOf(file, os, n)
    BY DEF ServiceOf, RawOf
  <1>3. services = made
    BY <1>1 DEF ServiceOf, RawOf, Chosen
  <1>4. normalize_compose_project(file, profiles, os) =
           IF \E n \in chosen : ServiceRefused(services[n]) THEN {}
           ELSE {[name |-> file.name, services |-> services, networks |-> NetworksOf(file),
                  volumes |-> normalize_resources(file.volumes, file.name)]}
    BY DEF normalize_compose_project, NetworksOf
  <1> HIDE DEF chosen, services, made
  <1>5. QED
    BY <1>1, <1>2, <1>3, <1>4 DEF load_compose_file, TextOf, made

LEMMA ProjectHas ==
    ASSUME NEW file, NEW profiles, NEW os, NEW p \in load_compose_file(file, profiles, os)
    PROVE  /\ load_compose_file(file, profiles, os) = {p}
           /\ DOMAIN p.services \subseteq DOMAIN file.services
           /\ p.volumes = normalize_resources(file.volumes, file.name)
           /\ \A s \in DOMAIN p.services :
                 /\ p.services[s] = normalize_service(s, RawOf(file, s), p.networks, os)
                 /\ ~ServiceRefused(p.services[s])
  <1> DEFINE services == [s \in Chosen(file, profiles) |-> ServiceOf(file, os, s)]
             volumes == normalize_resources(file.volumes, file.name)
             networks == NetworksOf(file)
  <1>1. /\ load_compose_file(file, profiles, os) = {p}
        /\ p = [name |-> file.name, services |-> services, networks |-> networks, volumes |-> volumes]
        /\ \A s \in Chosen(file, profiles) : ~ServiceRefused(ServiceOf(file, os, s))
    BY ProjectIs
  <1>2. DOMAIN services = Chosen(file, profiles)
        /\ \A s \in Chosen(file, profiles) : services[s] = ServiceOf(file, os, s)
    OBVIOUS
  <1> HIDE DEF services, volumes, networks
  <1>3. p.services = services /\ p.networks = networks /\ p.volumes = volumes
    BY <1>1
  <1>4. QED
    BY <1>1, <1>2, <1>3 DEF ServiceOf, Chosen, volumes, networks

Config(p, file, os, backend, s) ==
    compose_service_to_stack_service(p.services[s], p.volumes,
        compose_environment(file, os, p.services[s]), backend)

LEMMA StackIs ==
    ASSUME NEW p, NEW file, NEW os, NEW backend,
           NEW st \in compose_project_to_stack(p, file, os, backend)
    PROVE  /\ ~UnsupportedProject(p)
           /\ \A s \in DOMAIN p.services : Config(p, file, os, backend, s) # Invalid
           /\ DOMAIN st = Instances(p)
           /\ \A i \in Instances(p) : \E s \in DOMAIN p.services :
                 i \in Replicas(p, s) /\ st[i] = Config(p, file, os, backend, s)
  <1> DEFINE config == [s \in DOMAIN p.services |-> Config(p, file, os, backend, s)]
             owners == {o \in [Instances(p) -> DOMAIN p.services] :
                           \A i \in Instances(p) : i \in Replicas(p, o[i])}
             stacks == {[i \in Instances(p) |-> config[o[i]]] : o \in owners}
  <1>1. st \in IF UnsupportedProject(p) \/ \E s \in DOMAIN config : config[s] = Invalid
               THEN {} ELSE stacks
    BY DEF compose_project_to_stack, Config, Instances, Replicas
  <1>2. ~UnsupportedProject(p) /\ (\A s \in DOMAIN p.services : config[s] # Invalid) /\ st \in stacks
    BY <1>1
  <1>3. PICK o \in owners : st = [i \in Instances(p) |-> config[o[i]]]
    BY <1>2
  <1>4. QED
    BY <1>2, <1>3

LEMMA ConfigIs ==
    ASSUME NEW svc, NEW volumes, NEW env, NEW backend,
           compose_service_to_stack_service(svc, volumes, env, backend) # Invalid
    PROVE  LET c == compose_service_to_stack_service(svc, volumes, env, backend)
           IN  /\ env # Invalid
               /\ DOMAIN c = DOMAIN DerivedDefault
               /\ c.env = env
               /\ c.image = svc.image
               /\ c.replicas = 1
               /\ c.max_restarts = Or(svc.restart.maximum_retry_count, 5)
               /\ c.healthcheck = compose_healthcheck(svc.healthcheck)
               /\ c.ports = compose_port_strings(svc.ports)
  BY DEF compose_service_to_stack_service, DerivedDefault

LEMMA MountsAre ==
    ASSUME NEW svc, NEW volumes, NEW env, NEW backend,
           compose_service_to_stack_service(svc, volumes, env, backend) # Invalid,
           NEW i \in DOMAIN svc.volumes
    PROVE  compose_service_to_stack_service(svc, volumes, env, backend).volumes[i]
              = compose_volume_string(volumes, svc.volumes[i])
  <1>1. compose_service_to_stack_service(svc, volumes, env, backend).volumes
            = Mapped(svc.volumes, LAMBDA m : compose_volume_string(volumes, m))
    BY DEF compose_service_to_stack_service, DerivedDefault
  <1>2. QED
    BY <1>1 DEF Mapped

-----------------------------------------------------------------------------
(* The inductive invariant: what is there is what came of the input.       *)

ProjectsOf(in) == load_compose_file(in.file, in.profiles, in.os)
StacksOf(p, in) == compose_project_to_stack(p, in.file, in.os,
                       effective_backend(in.backend, "native"))
StackOf(in) == [s \in DOMAIN in.file.services |->
                    normalize_stack_service(in.file.services[s], in.file.defaults)]

Flow ==
    /\ input \in Inputs
    /\ stage \in {"given", "parsed", "unreadable", "converted", "valid", "refused"}
    /\ input.kind = "stack" \/ stage = "given" => project = Absent
    /\ stage \in {"given", "parsed", "unreadable"} => stack = Absent
    /\ stage \in {"parsed", "unreadable"} => input.kind = "compose"
    /\ stage = "unreadable" => \A p \in ProjectsOf(input) : StacksOf(p, input) = {}
    /\ input.kind = "compose" /\ stage \in {"parsed", "converted", "valid", "refused"}
          => project \in ProjectsOf(input)
    /\ input.kind = "compose" /\ stage \in {"converted", "valid", "refused"}
          => stack \in StacksOf(project, input)
    /\ input.kind # "compose" /\ stack # Absent => stack = StackOf(input)

LEMMA InitFlow == Init => Flow
  BY DEF Init, Flow

LEMMA NextFlow == Flow /\ [Next]_vars => Flow'
  <1>1. SUFFICES ASSUME Flow, [Next]_vars PROVE Flow'
    OBVIOUS
  <1>2. CASE Parse
    <2>1. input' = input /\ stack' = Absent /\ input.kind = "compose" /\ stage = "given"
      BY <1>1, <1>2 DEF Parse, Flow
    <2>2. \/ ProjectsOf(input) = {} /\ stage' = "unreadable" /\ project' = project
          \/ project' \in ProjectsOf(input) /\ stage' = "parsed"
      BY <1>2 DEF Parse, ProjectsOf
    <2>3. QED
      BY <1>1, <2>1, <2>2 DEF Flow
  <1>3. CASE Convert
    <2>1. /\ input' = input /\ project' = project /\ stage = "parsed"
          /\ input.kind = "compose" /\ project \in ProjectsOf(input) /\ stack = Absent
      BY <1>1, <1>3 DEF Convert, Flow
    <2>2. \/ StacksOf(project, input) = {} /\ stage' = "unreadable" /\ stack' = stack
          \/ stack' \in StacksOf(project, input) /\ stage' = "converted"
      BY <1>3 DEF Convert, StacksOf
    <2>3. ProjectsOf(input) = {project}
      BY <2>1, ProjectHas DEF ProjectsOf
    <2>4. QED
      BY <1>1, <2>1, <2>2, <2>3 DEF Flow
  <1>4. CASE ReadStack
    <2>1. stack' = StackOf(input) /\ stage' = "converted" /\ input' = input /\ project' = project
          /\ input.kind = "stack"
      BY <1>4 DEF ReadStack, StackOf
    <2>2. QED
      BY <1>1, <2>1 DEF Flow
  <1>5. CASE Validate
    <2>1. stage = "converted" /\ stage' \in {"valid", "refused"}
          /\ input' = input /\ project' = project /\ stack' = stack
      BY <1>5 DEF Validate
    <2>2. QED
      BY <1>1, <2>1 DEF Flow
  <1>6. CASE UNCHANGED vars
    BY <1>1, <1>6 DEF Flow, vars
  <1>7. QED
    BY <1>1, <1>2, <1>3, <1>4, <1>5, <1>6 DEF Next

LEMMA FlowHolds == Spec => []Flow
  BY InitFlow, NextFlow, PTL DEF Spec

-----------------------------------------------------------------------------
(* Typing.                                                                 *)

LEMMA ReplicasAreCounts ==
    ASSUME NEW raw, ServiceTyped(raw)
    PROVE  normalize_replicas(raw) \in 0 .. U32 - 1
  <1> DEFINE deploy == Node(raw, "deploy")
             count == Or(Get(raw, "scale"), Or(Get(deploy, "replicas"), 1))
             n == Max({0, count})
  <1>1. Get(raw, "scale") \in Int \cup {Absent}
    BY DEF ServiceTyped, Get
  <1>2. Get(deploy, "replicas") \in Int \cup {Absent}
    BY DEF ServiceTyped, FieldIn
  <1>4. count \in Int
    BY <1>1, <1>2 DEF Or
  <1>5. n \in Int
    <2> HIDE DEF count
    <2>1. 0 \in Int
      OBVIOUS
    <2>2. Max({0, count}) \in {0, count}
      BY <1>4, <2>1, MaxTwo DEF MaxOfTwo
    <2>3. QED
      BY <1>4, <2>2
  <1>6. n % U32 \in 0 .. U32 - 1
    <2> HIDE DEF n
    <2>1. QED
      BY <1>5, ComposeFileAssumption
  <1>7. normalize_replicas(raw) = n % U32
    BY DEF normalize_replicas
  <1>8. QED
    BY <1>6, <1>7

LEMMA RetriesAreCounts ==
    ASSUME NEW raw, ServiceTyped(raw)
    PROVE  Or(normalize_restart(Node(raw, "restart"), Node(raw, "deploy")).maximum_retry_count, 5)
              \in 0 .. U32 - 1
  <1> DEFINE deploy == Node(raw, "deploy")
             restart == Node(raw, "restart")
             attempts == Get(Node(deploy, "restart_policy"), "max_attempts")
             R == normalize_restart(restart, deploy)
             plain == restart = <<>> \/ Has(restart, "flag")
  <1>1. attempts \in 0 .. U32 - 1 \cup {Absent}
    BY DEF ServiceTyped, FieldIn
  <1>2. plain \/ restart.count \in 0 .. U32 - 1 \cup {Absent}
    BY DEF ServiceTyped, RestartTyped
  <1>3. R.maximum_retry_count \in {attempts, Absent} \cup (IF plain THEN {} ELSE {restart.count})
    BY DEF normalize_restart, Restart
  <1>4. R.maximum_retry_count \in 0 .. U32 - 1 \cup {Absent}
    <2> HIDE DEF R, attempts, plain
    <2>1. QED
      BY <1>1, <1>2, <1>3
  <1>5. 5 \in 0 .. U32 - 1
    BY ComposeFileAssumption
  <1> HIDE DEF R
  <1>6. Or(R.maximum_retry_count, 5) \in 0 .. U32 - 1
    BY <1>4, <1>5 DEF Or
  <1>7. QED
    BY <1>6 DEF R

LEMMA DurationIsTyped ==
    ASSUME NEW raw, DurationTyped(raw)
    PROVE  LET parts == normalize_duration(raw)
           IN  parts = Absent \/ (IsSeq(parts) /\ \A i \in DOMAIN parts : parts[i][1] \in Int)
  <1>1. CASE Has(raw, "number")
    <2>1. normalize_duration(raw) = << <<raw.number, "s">> >>
          \/ (Has(raw, "text") /\ normalize_duration(raw) = raw.text)
      BY <1>1 DEF normalize_duration
    <2>2. raw.number \in Int
      BY <1>1 DEF DurationTyped
    <2>3. CASE normalize_duration(raw) = << <<raw.number, "s">> >>
      BY <2>2, <2>3 DEF IsSeq
    <2>4. QED
      BY <2>1, <2>3 DEF DurationTyped
  <1>2. CASE ~Has(raw, "number") /\ Has(raw, "text")
    <2>1. normalize_duration(raw) = raw.text
      BY <1>2 DEF normalize_duration
    <2>2. QED
      BY <1>2, <2>1 DEF DurationTyped
  <1>3. CASE ~Has(raw, "number") /\ ~Has(raw, "text")
    BY <1>3 DEF normalize_duration
  <1>4. QED
    BY <1>1, <1>2, <1>3

LEMMA HealthIsTyped ==
    ASSUME NEW raw, ServiceTyped(raw), normalize_healthcheck(Node(raw, "healthcheck")) # Invalid
    PROVE  LET check == compose_healthcheck(normalize_healthcheck(Node(raw, "healthcheck")))
           IN  check.timeout \in Nat /\ check.interval \in Nat
  <1> DEFINE node == Node(raw, "healthcheck")
             h == normalize_healthcheck(node)
             c == compose_healthcheck(h)
  <1>1. CASE h = Absent \/ (h # Absent /\ h.disable)
    BY <1>1 DEF compose_healthcheck, DerivedDefault
  <1>2. CASE ~(h = Absent \/ (h # Absent /\ h.disable))
    <2>1. c.timeout = Or(parse_duration_seconds(h.timeout), 20)
          /\ c.interval = Or(parse_duration_seconds(h.interval), 2)
      <3> HIDE DEF h
      <3>1. QED
        BY <1>2 DEF compose_healthcheck
    <2>2. Has(node, "map")
      BY <1>2 DEF normalize_healthcheck
    <2>3. h.timeout = normalize_duration(Node(node.map, "timeout"))
          /\ h.interval = normalize_duration(Node(node.map, "interval"))
      BY <1>2, <2>2 DEF normalize_healthcheck
    <2>4. DurationTyped(Node(node.map, "timeout")) /\ DurationTyped(Node(node.map, "interval"))
      BY <2>2 DEF ServiceTyped
    <2> HIDE DEF h, c
    <2>5. c.timeout \in Nat
      BY <2>1, <2>3, <2>4, DurationIsTyped, SecondsAreNatural
    <2>6. c.interval \in Nat
      BY <2>1, <2>3, <2>4, DurationIsTyped, SecondsAreNatural
    <2>7. QED
      BY <2>5, <2>6 DEF c, h
  <1>3. QED
    BY <1>1, <1>2

LEMMA ServicesAreTyped ==
    ASSUME NEW in \in Inputs, in.kind = "compose", NEW p \in ProjectsOf(in), NEW s \in DOMAIN p.services
    PROVE  /\ ServiceTyped(RawOf(in.file, s)) /\ s \in Seq(STRING) /\ s \in DOMAIN in.file.services
           /\ ~ServiceRefused(p.services[s])
           /\ p.services[s] = normalize_service(s, RawOf(in.file, s), p.networks, in.os)
  <1>1. ComposeTyped(in.file)
    BY StackFileAssumption
  <1>2. s \in DOMAIN in.file.services
    BY ProjectHas DEF ProjectsOf
  <1>3. QED
    BY <1>1, <1>2, ProjectHas DEF ProjectsOf, RawOf, ComposeTyped

LEMMA ProjectIsScaled ==
    ASSUME NEW in \in Inputs, in.kind = "compose", NEW p \in ProjectsOf(in), ~UnsupportedProject(p)
    PROVE  Scaled(p)
  <1>1. IsFiniteSet(DOMAIN p.services)
    <2>1. DOMAIN p.services \in SUBSET DOMAIN in.file.services
      BY ProjectHas DEF ProjectsOf
    <2>2. IsFiniteSet(DOMAIN in.file.services)
      BY StackFileAssumption DEF ComposeTyped
    <2>3. QED
      BY <2>1, <2>2, FS_Subset
  <1>2. ASSUME NEW s \in DOMAIN p.services
        PROVE  s \in Seq(STRING) /\ p.services[s].replicas \in 1 .. U32 - 1
    <2>1. /\ ServiceTyped(RawOf(in.file, s)) /\ s \in Seq(STRING)
          /\ p.services[s] = normalize_service(s, RawOf(in.file, s), p.networks, in.os)
      BY ServicesAreTyped
    <2>2. p.services[s].replicas = normalize_replicas(RawOf(in.file, s))
      BY <2>1, ServiceIs
    <2>3. p.services[s].replicas \in 0 .. U32 - 1
      BY <2>1, <2>2, ReplicasAreCounts
    <2>4. p.services[s].replicas # 0
      BY DEF UnsupportedProject
    <2>5. QED
      BY <2>1, <2>3, <2>4, ComposeFileAssumption
  <1>3. QED
    BY <1>1, <1>2 DEF Scaled

(* Every instance runs with the configuration of its service.              *)
LEMMA InstanceRuns ==
    ASSUME NEW p, Scaled(p), ~Clash(p), NEW file, NEW os, NEW backend,
           NEW st \in compose_project_to_stack(p, file, os, backend),
           NEW s \in DOMAIN p.services, NEW r \in 1 .. p.services[s].replicas
    PROVE  Instance(s, r) \in DOMAIN st /\ st[Instance(s, r)] = Config(p, file, os, backend, s)
  <1>1. Instance(s, r) \in Instances(p) /\ DOMAIN st = Instances(p)
    <2>1. DOMAIN st = Instances(p)
      BY StackIs
    <2>2. Instance(s, r) \in Instances(p)
      BY DEF Instances, Replicas
    <2>3. QED
      BY <2>1, <2>2
  <1>2. PICK t \in DOMAIN p.services : Instance(s, r) \in Replicas(p, t)
                    /\ st[Instance(s, r)] = Config(p, file, os, backend, t)
    BY <1>1, StackIs
  <1>3. PICK b \in 1 .. p.services[t].replicas : Instance(s, r) = Instance(t, b)
    BY <1>2 DEF Replicas
  <1>4. s = t
    BY <1>3, InstancesDiffer
  <1>5. QED
    BY <1>1, <1>2, <1>4

LEMMA ServiceRuns ==
    ASSUME NEW p, Scaled(p), ~Clash(p), NEW file, NEW os, NEW backend,
           NEW st \in compose_project_to_stack(p, file, os, backend), NEW s \in DOMAIN p.services
    PROVE  s \in DOMAIN st /\ st[s] = Config(p, file, os, backend, s)
  <1>1. 1 \in 1 .. p.services[s].replicas /\ Instance(s, 1) = s
    BY DEF Scaled, Instance
  <1>2. QED
    BY <1>1, InstanceRuns

LEMMA StackServiceIs ==
    ASSUME NEW raw, NEW defaults,
           LET check == Node(raw, "healthcheck")
           IN  FieldIn(check, "timeout_seconds", Nat) /\ FieldIn(check, "interval_seconds", Nat)
    PROVE  LET c == normalize_stack_service(raw, defaults)
           IN  /\ DOMAIN c = DOMAIN DerivedDefault
               /\ c.replicas = 0 /\ c.max_restarts = 0
               /\ c.healthcheck.timeout \in Nat /\ c.healthcheck.interval \in Nat
  <1> DEFINE check == Node(raw, "healthcheck")
             c == normalize_stack_service(raw, defaults)
  <1>1. Or(Get(check, "timeout_seconds"), 20) \in Nat /\ Or(Get(check, "interval_seconds"), 2) \in Nat
    BY DEF FieldIn, Or
  <1>2. /\ DOMAIN c = DOMAIN DerivedDefault
        /\ c.replicas = 0 /\ c.max_restarts = 0
        /\ c.healthcheck.timeout = Or(Get(check, "timeout_seconds"), 20)
        /\ c.healthcheck.interval = Or(Get(check, "interval_seconds"), 2)
    BY DEF normalize_stack_service, DerivedDefault
  <1> HIDE DEF c
  <1>3. QED
    BY <1>1, <1>2 DEF c

\* What TypeOK says of the services of a stack.
Runnable(st) == \A s \in DOMAIN st :
    /\ DOMAIN st[s] = DOMAIN DerivedDefault
    /\ st[s].replicas \in Nat /\ st[s].max_restarts \in 0 .. U32 - 1
    /\ st[s].healthcheck.timeout \in Nat /\ st[s].healthcheck.interval \in Nat

LEMMA StacksAreTyped ==
    ASSUME NEW in \in Inputs, in.kind = "compose", NEW p \in ProjectsOf(in), NEW st \in StacksOf(p, in)
    PROVE  Runnable(st)
  <1> DEFINE backend == effective_backend(in.backend, "native")
  <1>1. SUFFICES ASSUME NEW i \in DOMAIN st
                 PROVE  /\ DOMAIN st[i] = DOMAIN DerivedDefault
                        /\ st[i].replicas \in Nat /\ st[i].max_restarts \in 0 .. U32 - 1
                        /\ st[i].healthcheck.timeout \in Nat /\ st[i].healthcheck.interval \in Nat
    BY DEF Runnable
  <1> HIDE DEF backend
  <1>2. st \in compose_project_to_stack(p, in.file, in.os, backend)
    BY DEF StacksOf, backend
  <1>3. PICK s \in DOMAIN p.services : st[i] = Config(p, in.file, in.os, backend, s)
                                      /\ st[i] # Invalid
    BY <1>2, StackIs
  <1> DEFINE svc == p.services[s]
             env == compose_environment(in.file, in.os, svc)
  <1>4. st[i] = compose_service_to_stack_service(svc, p.volumes, env, backend) /\ st[i] # Invalid
    BY <1>3 DEF Config
  <1> DEFINE raw == RawOf(in.file, s)
  <1>5. ServiceTyped(raw) /\ ~ServiceRefused(svc) /\ svc = normalize_service(s, raw, p.networks, in.os)
    BY ServicesAreTyped
  <1> HIDE DEF svc, env, raw
  <1>6. /\ DOMAIN st[i] = DOMAIN DerivedDefault /\ st[i].replicas = 1
        /\ st[i].max_restarts = Or(svc.restart.maximum_retry_count, 5)
        /\ st[i].healthcheck = compose_healthcheck(svc.healthcheck)
    BY <1>4, ConfigIs
  <1>7. /\ svc.restart = normalize_restart(Node(raw, "restart"), Node(raw, "deploy"))
        /\ svc.healthcheck = normalize_healthcheck(Node(raw, "healthcheck"))
        /\ svc.healthcheck # Invalid
    BY <1>5, ServiceIs DEF ServiceRefused
  <1>8. st[i].max_restarts \in 0 .. U32 - 1
    BY <1>5, <1>6, <1>7, RetriesAreCounts
  <1>9. st[i].healthcheck.timeout \in Nat /\ st[i].healthcheck.interval \in Nat
    BY <1>5, <1>6, <1>7, HealthIsTyped
  <1>10. QED
    BY <1>6, <1>8, <1>9

LEMMA FlowIsTyped == Flow => TypeOK
  <1>1. SUFFICES ASSUME Flow, stack # Absent PROVE Runnable(stack)
    BY DEF Flow, TypeOK, Runnable
  <1>2. CASE input.kind = "compose"
    <2>1. input \in Inputs /\ project \in ProjectsOf(input) /\ stack \in StacksOf(project, input)
      BY <1>1, <1>2 DEF Flow
    <2>2. QED
      BY <1>2, <2>1, StacksAreTyped
  <1>3. CASE input.kind # "compose"
    <2>1. stack = StackOf(input) /\ input \in Inputs
      BY <1>1, <1>3 DEF Flow
    <2>2. StackTyped(input.file)
      BY <1>3, <2>1, StackFileAssumption
    <2>3. SUFFICES ASSUME NEW s \in DOMAIN input.file.services
                   PROVE  LET c == normalize_stack_service(input.file.services[s], input.file.defaults)
                          IN  /\ DOMAIN c = DOMAIN DerivedDefault
                              /\ c.replicas \in Nat /\ c.max_restarts \in 0 .. U32 - 1
                              /\ c.healthcheck.timeout \in Nat /\ c.healthcheck.interval \in Nat
      BY <2>1 DEF Runnable, StackOf
    <2>4. QED
      BY <2>2, StackServiceIs, ComposeFileAssumption DEF StackTyped
  <1>4. QED
    BY <1>2, <1>3

(* Every file that is read becomes a stack of the type that `up` runs:     *)
(* restart limits and the times of healthchecks are numbers, whatever the  *)
(* spelling of the file (cli, 781-968).                                    *)
THEOREM TypeCorrect == Spec => []TypeOK
  BY FlowHolds, FlowIsTyped, PTL

-----------------------------------------------------------------------------
(* What holds of a stack that has been loaded.                             *)

LEMMA LoadedIs ==
    ASSUME Flow, Loaded, ~NamesClash
    PROVE  /\ input \in Inputs /\ input.kind = "compose"
           /\ project \in ProjectsOf(input)
           /\ stack \in compose_project_to_stack(project, input.file, input.os,
                            effective_backend(input.backend, "native"))
           /\ Scaled(project) /\ ~Clash(project)
  <1>1. /\ input \in Inputs /\ input.kind = "compose"
        /\ project \in ProjectsOf(input) /\ stack \in StacksOf(project, input)
    BY DEF Flow, Loaded
  <1>2. stack \in compose_project_to_stack(project, input.file, input.os,
                            effective_backend(input.backend, "native"))
    BY <1>1 DEF StacksOf
  <1>3. ~UnsupportedProject(project)
    BY <1>2, StackIs
  <1>4. Scaled(project)
    BY <1>1, <1>3, ProjectIsScaled
  <1>5. QED
    BY <1>1, <1>2, <1>4 DEF NamesClash, Clash

LEMMA FlowReplicas == Flow => ReplicasAreDistinct
  <1>1. SUFFICES ASSUME Flow, Loaded, ~NamesClash
                 PROVE  /\ Cardinality(DOMAIN stack) = Cardinality(Wanted(project))
                        /\ \A w \in Wanted(project) :
                              stack[Instance(w[1], w[2])].image = project.services[w[1]].image
                        /\ \A i \in DOMAIN stack : stack[i].replicas = 1
    BY DEF ReplicasAreDistinct, Wanted
  <1> DEFINE backend == effective_backend(input.backend, "native")
             Of(s) == Config(project, input.file, input.os, backend, s)
  <1>2. /\ stack \in compose_project_to_stack(project, input.file, input.os, backend)
        /\ Scaled(project) /\ ~Clash(project)
    BY <1>1, LoadedIs
  <1> HIDE DEF backend
  <1>3. /\ DOMAIN stack = Instances(project)
        /\ \A i \in Instances(project) : \E s \in DOMAIN project.services : stack[i] = Of(s)
        /\ \A s \in DOMAIN project.services : Of(s) # Invalid
    BY <1>2, StackIs
  <1>4. ASSUME NEW s \in DOMAIN project.services
        PROVE  Of(s).replicas = 1 /\ Of(s).image = project.services[s].image
    BY <1>3, ConfigIs DEF Config
  <1>5. ASSUME NEW w \in Wanted(project)
        PROVE  stack[Instance(w[1], w[2])].image = project.services[w[1]].image
    <2>1. w[1] \in DOMAIN project.services /\ w[2] \in 1 .. project.services[w[1]].replicas
      BY DEF Wanted
    <2>2. stack[Instance(w[1], w[2])] = Of(w[1])
      BY <1>2, <2>1, InstanceRuns
    <2>3. QED
      BY <1>4, <2>1, <2>2
  <1>6. QED
    BY <1>2, <1>3, <1>4, <1>5, InstancesAreCounted

(* Every replica has a name of its own and runs what its service says      *)
(* (cli, 722-740), however many replicas there are.                        *)
THEOREM ReplicasStayDistinct == Spec => []ReplicasAreDistinct
  BY FlowHolds, FlowReplicas, PTL

LEMMA FlowVolumes == Flow => DownVolumesAreOwn
  <1>1. SUFFICES ASSUME Flow, Loaded, ~NamesClash,
                        NEW s \in DOMAIN project.services,
                        NEW i \in DOMAIN project.services[s].volumes,
                        NEW mount, mount = project.services[s].volumes[i],
                        NEW mounted, mounted = stack[s].volumes[i].source,
                        mount.source # Absent,
                        \A v \in DOMAIN input.file.volumes :
                           project.volumes[v].name = mounted.key =>
                              mount.type = "volume" /\ mount.source.key = v
                 PROVE  (\E v \in DOMAIN input.file.volumes :
                            /\ mount.type = "volume" /\ mount.source.key = v
                            /\ ~project.volumes[v].external)
                        <=> (mounted.form = "name"
                             /\ mounted.key \in removable_hyperv_volume_names(project))
    BY DEF DownVolumesAreOwn
  <1> DEFINE backend == effective_backend(input.backend, "native")
             Of == Config(project, input.file, input.os, backend, s)
             volumes == project.volumes
             declared == DOMAIN input.file.volumes
             key == mount.source.key
  <1>2. /\ project \in ProjectsOf(input)
        /\ stack \in compose_project_to_stack(project, input.file, input.os, backend)
        /\ Scaled(project) /\ ~Clash(project)
    BY <1>1, LoadedIs
  <1>3. DOMAIN volumes = declared
    <2>1. volumes = normalize_resources(input.file.volumes, input.file.name)
      BY <1>2, ProjectHas DEF ProjectsOf
    <2>2. QED
      BY <2>1 DEF normalize_resources
  <1> HIDE DEF backend
  <1>4. stack[s] = Of /\ Of # Invalid
    BY <1>2, ServiceRuns, StackIs
  <1>5. stack[s].volumes[i] = compose_volume_string(volumes, mount)
    BY <1>1, <1>4, MountsAre DEF Config
  <1>6. ASSUME mount.type = "volume", key \in declared
        PROVE  mounted.form = "name" /\ mounted.key = volumes[key].name
    <2>1. key \in DOMAIN volumes /\ mount.source # Absent
      BY <1>1, <1>3, <1>6
    <2>2. compose_volume_string(volumes, mount).source = [form |-> "name", key |-> volumes[key].name]
      BY <1>6, <2>1 DEF compose_volume_string
    <2>3. mounted = compose_volume_string(volumes, mount).source
      BY <1>1, <1>5
    <2>4. QED
      BY <2>2, <2>3
  <1>7. \A n : n \in removable_hyperv_volume_names(project)
                <=> \E v \in declared : ~volumes[v].external /\ volumes[v].name = n
    BY <1>3 DEF removable_hyperv_volume_names
  <1> HIDE DEF volumes, declared, key
  <1>8. CASE mount.type = "volume" /\ key \in declared
    <2>1. mounted.form = "name" /\ mounted.key = volumes[key].name
      BY <1>6, <1>8
    <2>2. \A v \in declared : volumes[v].name = mounted.key => key = v
      BY <1>1 DEF volumes, declared, key
    <2>3. (\E v \in declared : mount.type = "volume" /\ key = v /\ ~volumes[v].external)
            <=> (mounted.form = "name" /\ mounted.key \in removable_hyperv_volume_names(project))
      BY <1>7, <1>8, <2>1, <2>2
    <2>4. QED
      BY <2>3 DEF volumes, declared, key
  <1>9. CASE ~(mount.type = "volume" /\ key \in declared)
    BY <1>1, <1>7, <1>9 DEF volumes, declared, key
  <1>10. QED
    BY <1>8, <1>9

(* `down --volumes` removes the volumes of this project that its services  *)
(* mount, under the names they are mounted by, and spares external ones.   *)
THEOREM VolumesAreOwn == Spec => []DownVolumesAreOwn
  BY FlowHolds, FlowVolumes, PTL

-----------------------------------------------------------------------------
(* Environments.                                                           *)

\* What counts of the offers in a sequence.
Named(offers) == {i \in DOMAIN offers : offers[i] # Absent}
Strongest(offers) == IF Named(offers) = {} THEN Absent ELSE offers[Max(Named(offers))]

IsList(f, n) == n \in Nat /\ f = [i \in 1 .. n |-> f[i]]

(* Of two sequences of offers the second counts, if it offers anything.    *)
LEMMA StrongestOfTwo ==
    ASSUME NEW n, NEW f, IsList(f, n), NEW m, NEW g, IsList(g, m)
    PROVE  /\ Named(g) = {} => Strongest(f \o g) = Strongest(f)
           /\ \A j \in 1 .. m : g[j] # Absent /\ (\A i \in j + 1 .. m : g[i] = Absent)
                => Strongest(f \o g) = g[j]
  <1> DEFINE S == ToSet(f) \cup ToSet(g)
             h == f \o g
  <1> n \in Nat /\ m \in Nat
    BY DEF IsList
  <1>1. /\ f \in Seq(S) /\ g \in Seq(S) /\ Len(f) = n /\ Len(g) = m
        /\ DOMAIN f = 1 .. n /\ DOMAIN g = 1 .. m
    <2>1. f \in [1 .. n -> S] /\ g \in [1 .. m -> S]
      BY DEF IsList, ToSet
    <2> HIDE DEF S
    <2>2. QED
      BY <2>1
  <1> HIDE DEF S
  <1>2. DOMAIN h = 1 .. n + m /\ (\A i \in 1 .. n : h[i] = f[i])
        /\ \A i \in 1 .. m : n + i \in 1 .. n + m /\ h[n + i] = g[i]
    BY <1>1
  <1> HIDE DEF h
  <1>3. \A i \in 1 .. n + m : i \in 1 .. n \/ \E j \in 1 .. m : i = n + j
    <2>1. TAKE i \in 1 .. n + m
    <2>2. i \in 1 .. n \/ (i - n \in 1 .. m /\ i = n + (i - n))
      OBVIOUS
    <2>3. QED
      BY <2>2
  <1>4. ASSUME Named(g) = {} PROVE Strongest(h) = Strongest(f)
    <2>1. \A j \in 1 .. m : g[j] = Absent
      BY <1>1, <1>4 DEF Named
    <2>2. \A i \in 1 .. n : i \in 1 .. n + m
      OBVIOUS
    <2>3. \A i \in 1 .. n + m : h[i] # Absent => i \in 1 .. n /\ f[i] # Absent
      BY <1>2, <1>3, <2>1
    <2>4. \A i \in 1 .. n : f[i] # Absent => h[i] # Absent
      BY <1>2
    <2>5. Named(h) = Named(f)
      BY <1>1, <1>2, <2>2, <2>3, <2>4 DEF Named
    <2>6. CASE Named(f) # {}
      <3>1. Named(f) \subseteq 1 .. n
        BY <1>1 DEF Named
      <3>2. Max(Named(f)) \in 1 .. n
        BY <2>6, <3>1, GreatestOf
      <3>3. QED
        BY <1>2, <2>5, <3>2 DEF Strongest
    <2>7. CASE Named(f) = {}
      BY <2>5, <2>7 DEF Strongest
    <2>8. QED
      BY <2>6, <2>7
  <1>5. ASSUME NEW j \in 1 .. m, g[j] # Absent, \A i \in j + 1 .. m : g[i] = Absent
        PROVE  Strongest(h) = g[j]
    <2>1. n + j \in Named(h) /\ h[n + j] = g[j]
      BY <1>2, <1>5 DEF Named
    <2>2. ASSUME NEW i \in Named(h) PROVE i \in 0 .. n + j
      <3>1. i \in 1 .. n + m /\ h[i] # Absent
        BY <1>2 DEF Named
      <3>2. CASE i \in 1 .. n
        BY <3>2
      <3>3. CASE \E b \in 1 .. m : i = n + b
        <4>1. PICK b \in 1 .. m : i = n + b
          BY <3>3
        <4>2. b \notin j + 1 .. m
          BY <1>2, <1>5, <3>1, <4>1
        <4>3. QED
          BY <4>1, <4>2
      <3>4. QED
        BY <1>3, <3>1, <3>2, <3>3
    <2>3. Max(Named(h)) = n + j
      <3>1. n + j \in Nat /\ Named(h) \subseteq 0 .. n + j
        BY <2>2
      <3>2. QED
        BY <2>1, <3>1, MaxIs
    <2>4. QED
      BY <2>1, <2>3 DEF Strongest
  <1>6. QED
    BY <1>4, <1>5 DEF h

LEMMA NotEmpty ==
    ASSUME NEW node, NEW shape, Has(node, shape)
    PROVE  node # <<>>
  BY DEF Has

\* The value a service's own entries give a variable, before .env is read.
OwnValue(os, raw, k) ==
    IF LastOf(OwnEntries(raw), k) # Absent THEN LastOf(OwnEntries(raw), k)
    ELSE IF Has(Node(raw, "environment"), "list") THEN Get(os, k) ELSE Absent

OwnNames(raw, k) == \E i \in DOMAIN OwnEntries(raw) : OwnEntries(raw)[i][1] = k

(* normalize_environment: the last entry of a key counts; in a list, one   *)
(* without a value has that of the process.                                *)
LEMMA OwnEntriesAre ==
    ASSUME NEW raw, ServiceTyped(raw), NEW os, NEW k
    PROVE  LET own == normalize_environment(Node(raw, "environment"), os)
           IN  /\ k \in DOMAIN own <=> OwnNames(raw, k)
               /\ k \in DOMAIN own => own[k] = OwnValue(os, raw, k)
  <1> DEFINE node == Node(raw, "environment")
             own == normalize_environment(node, os)
             t == OwnEntries(raw)
  <1>0. OneShape(node)
    BY DEF ServiceTyped
  <1>1. /\ Has(node, "list") => IsSeq(node.list)
        /\ Has(node, "map") => IsSeq(node.map)
    BY DEF ServiceTyped
  <1>2. CASE Has(node, "list")
    <2> DEFINE Value(e) == IF e[2] = Absent THEN Get(os, e[1]) ELSE e[2]
               s == Mapped(node.list, LAMBDA e : <<e[1], Value(e)>>)
    <2>1. own = Pairs(s) /\ t = node.list /\ IsSeq(t)
      <3>1. ~Has(node, "map") /\ node # <<>>
        BY <1>0, <1>2, NotEmpty DEF OneShape
      <3>2. own = Pairs(s)
        BY <1>2, <3>1 DEF normalize_environment
      <3>3. QED
        BY <1>1, <1>2, <3>2 DEF OwnEntries
    <2>2. DOMAIN s = DOMAIN t /\ \A i \in DOMAIN t : s[i][1] = t[i][1] /\ s[i][2] = Value(t[i])
      <3>1. DOMAIN s = DOMAIN t /\ \A i \in DOMAIN t : s[i] = <<t[i][1], Value(t[i])>>
        BY <2>1 DEF Mapped
      <3> HIDE DEF s, t, Value
      <3>2. QED
        BY <3>1
    <2>3. IsSeq(s)
      <3>1. s = [i \in 1 .. Len(t) |-> s[i]]
        BY <2>1 DEF Mapped, IsSeq
      <3>2. Len(t) \in Nat
        BY <2>1 DEF IsSeq
      <3> HIDE DEF s, t
      <3>3. IsTuple(s)
        BY <3>1, <3>2, TupleIs
      <3>4. QED
        BY <3>3 DEF IsTuple, IsSeq
    <2> HIDE DEF own, s
    <2>4. /\ k \in DOMAIN own <=> \E i \in DOMAIN s : s[i][1] = k
          /\ Get(own, k) = LastOf(s, k)
      BY <2>1, <2>3, PairsAre
    <2> DEFINE T == {i \in DOMAIN t : t[i][1] = k}
    <2>5. T = {i \in DOMAIN s : s[i][1] = k}
      BY <2>2
    <2>6. /\ LastOf(t, k) = IF T = {} THEN Absent ELSE t[Max(T)][2]
          /\ LastOf(s, k) = IF T = {} THEN Absent ELSE s[Max(T)][2]
      BY <2>5 DEF LastOf
    <2>7. k \in DOMAIN own <=> T # {}
      BY <2>4, <2>5
    <2>8. k \in DOMAIN own <=> OwnNames(raw, k)
      BY <2>7 DEF OwnNames
    <2>9. ASSUME k \in DOMAIN own PROVE own[k] = OwnValue(os, raw, k)
      <3>1. Max(T) \in T
        <4>1. Len(t) \in Nat /\ T \subseteq 1 .. Len(t) /\ T # {}
          BY <2>1, <2>7, <2>9 DEF IsSeq
        <4> HIDE DEF T
        <4>2. QED
          BY <4>1, GreatestOf
      <3> DEFINE m == Max(T)
      <3>2. m \in DOMAIN t /\ t[m][1] = k
        BY <3>1
      <3> HIDE DEF m, T, t
      <3>3. own[k] = s[m][2] /\ LastOf(t, k) = t[m][2]
        BY <2>4, <2>6, <2>7, <2>9 DEF Get, m
      <3>4. s[m][2] = IF t[m][2] = Absent THEN Get(os, k) ELSE t[m][2]
        BY <2>2, <3>2
      <3>5. QED
        BY <1>2, <3>3, <3>4 DEF OwnValue, t
    <2>10. QED
      BY <2>8, <2>9 DEF own
  <1>3. CASE ~Has(node, "list") /\ Has(node, "map")
    <2>1. own = Pairs(t) /\ IsSeq(t)
      BY <1>1, <1>3, NotEmpty DEF normalize_environment, OwnEntries
    <2> HIDE DEF own, t
    <2>2. (k \in DOMAIN own <=> \E i \in DOMAIN t : t[i][1] = k) /\ Get(own, k) = LastOf(t, k)
      BY <2>1, PairsAre
    <2>3. QED
      BY <1>3, <2>2 DEF OwnNames, OwnValue, Get, own, t
  <1>4. CASE ~Has(node, "list") /\ ~Has(node, "map")
    <2>1. own = <<>> /\ t = <<>>
      BY <1>4 DEF normalize_environment, OwnEntries
    <2> HIDE DEF own, t
    <2>2. k \notin DOMAIN own /\ DOMAIN t = {}
      BY <2>1
    <2>3. QED
      BY <2>2 DEF OwnNames, own, t
  <1>5. QED
    BY <1>2, <1>3, <1>4

LEMMA EnvironmentIs ==
    ASSUME NEW file, NEW os, NEW svc, NEW k, NEW raw, ServiceTyped(raw),
           svc.env_file = Node(raw, "env_file"),
           svc.environment = normalize_environment(Node(raw, "environment"), os),
           EnvFileTyped(file.dotenv),
           \A f \in DOMAIN file.env_files : EnvFileTyped(file.env_files[f]),
           compose_environment(file, os, svc) # Invalid
    PROVE  Get(compose_environment(file, os, svc), k) = Strongest(Offers(file, os, raw, k))
  <1> DEFINE n == Len(svc.env_file)
             files == [i \in DOMAIN svc.env_file |->
                          parse_env_file(Get(file.env_files, svc.env_file[i]))]
             base == Layered(files)
             dot == IF file.dotenv = Absent THEN <<>> ELSE parse_env_file(file.dotenv)
             found == [v \in DOMAIN svc.environment |->
                          Or(svc.environment[v], Or(Get(dot, v), Get(os, v)))]
             own == {v \in DOMAIN found : found[v] # Absent}
             env == Restrict(found, own) ++ base
             offers == [i \in DOMAIN svc.env_file |-> LastOf(file.env_files[svc.env_file[i]], k)]
             dotk == IF file.dotenv = Absent THEN Absent ELSE LastOf(file.dotenv, k)
             value == OwnValue(os, raw, k)
             last == LastOf(OwnEntries(raw), k)
             list == Has(Node(raw, "environment"), "list")
  <1>1. n \in Nat /\ DOMAIN svc.env_file = 1 .. n
    BY DEF ServiceTyped, IsSeq
  <1>2. Invalid \notin ToSet(files) /\ compose_environment(file, os, svc) = env
    BY DEF compose_environment
  <1>3. ASSUME NEW i \in 1 .. n
        PROVE  /\ svc.env_file[i] \in DOMAIN file.env_files
               /\ file.env_files[svc.env_file[i]] # Absent
               /\ files[i] = Pairs(file.env_files[svc.env_file[i]])
    <2> DEFINE node == Get(file.env_files, svc.env_file[i])
    <2>1. files[i] = parse_env_file(node) /\ files[i] # Invalid
      BY <1>1, <1>2 DEF ToSet
    <2>2. node # Absent /\ files[i] = Pairs(node)
      BY <2>1 DEF parse_env_file
    <2>3. QED
      BY <2>2 DEF Get
  <1>4. ASSUME NEW i \in 1 .. n
        PROVE  offers[i] = Get(files[i], k) /\ (k \in DOMAIN files[i] => files[i][k] # Absent)
    <2> DEFINE node == file.env_files[svc.env_file[i]]
    <2>2. IsSeq(node) /\ \A j \in DOMAIN node : node[j][2] # Absent
      BY <1>3 DEF EnvFileTyped
    <2>1. offers[i] = Get(files[i], k)
      <3>1. offers[i] = LastOf(node, k) /\ files[i] = Pairs(node)
        BY <1>1, <1>3
      <3> HIDE DEF node, offers, files
      <3>2. QED
        BY <2>2, <3>1, PairsAre
    <2>3. k \in DOMAIN Pairs(node) => Pairs(node)[k] # Absent
      <3> HIDE DEF node
      <3>1. QED
        BY <2>2, PairsValues
    <2>4. QED
      BY <1>3, <2>1, <2>3
  <1>5. Get(base, k) = Strongest(offers)
    <2>1. DOMAIN files = 1 .. n /\ DOMAIN offers = 1 .. n
      BY <1>1
    <2> HIDE DEF files, offers, n
    <2>2. Named(offers) = Naming(offers, n)
      BY <2>1 DEF Named, Naming
    <2>3. QED
      BY <1>1, <1>4, <2>1, <2>2, LastLayer DEF Strongest
  <1>6. Get(dot, k) = dotk
    <2>1. DOMAIN <<>> = {}
      OBVIOUS
    <2>2. file.dotenv # Absent => Get(Pairs(file.dotenv), k) = LastOf(file.dotenv, k)
      BY PairsAre DEF EnvFileTyped
    <2>3. QED
      BY <2>1, <2>2 DEF Get, parse_env_file
  <1>0. /\ k \in DOMAIN svc.environment <=> OwnNames(raw, k)
        /\ k \in DOMAIN svc.environment => svc.environment[k] = value
    BY OwnEntriesAre
  <1>7. k \in DOMAIN svc.environment => found[k] = Or(value, Or(dotk, Get(os, k)))
    BY <1>6, <1>0
  <1>8. Get(env, k) = IF k \in DOMAIN svc.environment /\ found[k] # Absent THEN found[k] ELSE Get(base, k)
    <2>1. DOMAIN Restrict(found, own) = own /\ \A v \in own : Restrict(found, own)[v] = found[v]
      BY DEF Restrict
    <2>2. k \in own <=> k \in DOMAIN svc.environment /\ found[k] # Absent
      OBVIOUS
    <2> HIDE DEF found, own, base
    <2>3. QED
      BY <2>1, <2>2 DEF Get, ++
  <1>9. IsList(offers, n)
    BY <1>1 DEF IsList
  <1>10. Offers(file, os, raw, k) =
            offers \o (IF ~OwnNames(raw, k) THEN <<>> ELSE IF last # Absent THEN << last >>
                       ELSE IF list THEN << dotk, Get(os, k) >> ELSE << Get(os, k), dotk >>)
    BY DEF Offers, OwnNames
  <1>11. value = IF last # Absent THEN last ELSE IF list THEN Get(os, k) ELSE Absent
    BY DEF OwnValue
  <1> HIDE DEF files, base, dot, found, own, env, offers, dotk, n, value, last, list
  <1>12. CASE ~OwnNames(raw, k)
    <2> DEFINE g == <<>>
    <2>1. IsList(g, 0) /\ Named(g) = {}
      BY DEF Named, IsList
    <2>2. Offers(file, os, raw, k) = offers \o g
      BY <1>10, <1>12
    <2> HIDE DEF g
    <2>3. Strongest(offers \o g) = Strongest(offers)
      BY <1>9, <2>1, StrongestOfTwo
    <2>4. QED
      BY <1>0, <1>2, <1>5, <1>8, <1>12, <2>2, <2>3
  <1>13. CASE OwnNames(raw, k) /\ last # Absent
    <2> DEFINE g == << last >>
    <2>1. Offers(file, os, raw, k) = offers \o g
      BY <1>10, <1>13
    <2>2. IsList(g, 1) /\ g[1] = last /\ 1 \in 1 .. 1 /\ 1 + 1 .. 1 = {}
      BY DEF IsList
    <2> HIDE DEF g
    <2>3. Strongest(offers \o g) = last
      BY <1>9, <1>13, <2>2, StrongestOfTwo
    <2>4. found[k] = last
      BY <1>0, <1>7, <1>11, <1>13 DEF Or
    <2>5. QED
      BY <1>0, <1>2, <1>8, <1>13, <2>1, <2>3, <2>4
  <1>14. ASSUME NEW a, NEW b, OwnNames(raw, k), found[k] = Or(b, a),
                Offers(file, os, raw, k) = offers \o << a, b >>
         PROVE  Get(env, k) = Strongest(Offers(file, os, raw, k))
    <2> DEFINE g == << a, b >>
    <2>1. IsList(g, 2) /\ g[1] = a /\ g[2] = b /\ DOMAIN g = {1, 2}
          /\ 1 \in 1 .. 2 /\ 2 \in 1 .. 2 /\ 1 + 1 .. 2 = {2} /\ 2 + 1 .. 2 = {}
      BY DEF IsList
    <2>2. Offers(file, os, raw, k) = offers \o g
      BY <1>14
    <2> HIDE DEF g
    <2>3. CASE b # Absent
      <3>1. Strongest(offers \o g) = b
        BY <1>9, <2>1, <2>3, StrongestOfTwo
      <3>2. QED
        BY <1>0, <1>8, <1>14, <2>2, <2>3, <3>1 DEF Or
    <2>4. CASE b = Absent /\ a # Absent
      <3>1. Strongest(offers \o g) = a
        BY <1>9, <2>1, <2>4, StrongestOfTwo
      <3>2. QED
        BY <1>0, <1>8, <1>14, <2>2, <2>4, <3>1 DEF Or
    <2>5. CASE b = Absent /\ a = Absent
      <3>1. Named(g) = {}
        BY <2>1, <2>5 DEF Named
      <3>2. Strongest(offers \o g) = Strongest(offers)
        BY <1>9, <2>1, <3>1, StrongestOfTwo
      <3>3. QED
        BY <1>5, <1>8, <1>14, <2>2, <2>5, <3>2 DEF Or
    <2>6. QED
      BY <2>3, <2>4, <2>5
  <1>15. CASE OwnNames(raw, k) /\ last = Absent /\ list
    <2>1. value = Get(os, k)
      BY <1>11, <1>15
    <2>2. found[k] = Or(Get(os, k), dotk)
      BY <1>0, <1>7, <1>15, <2>1 DEF Or
    <2>3. Offers(file, os, raw, k) = offers \o << dotk, Get(os, k) >>
      BY <1>10, <1>15
    <2>4. QED
      BY <1>2, <1>14, <1>15, <2>2, <2>3
  <1>16. CASE OwnNames(raw, k) /\ last = Absent /\ ~list
    <2>1. value = Absent
      BY <1>11, <1>16
    <2>2. found[k] = Or(dotk, Get(os, k))
      BY <1>0, <1>7, <1>16, <2>1 DEF Or
    <2>3. Offers(file, os, raw, k) = offers \o << Get(os, k), dotk >>
      BY <1>10, <1>16
    <2>4. QED
      BY <1>2, <1>14, <1>16, <2>2, <2>3
  <1>17. QED
    BY <1>12, <1>13, <1>15, <1>16

LEMMA FlowEnvironment == Flow => EnvironmentIsLayered
  <1>1. SUFFICES ASSUME Flow, Loaded, ~NamesClash, NEW s \in DOMAIN project.services, NEW k
                 PROVE  Get(stack[s].env, k)
                          = Strongest(Offers(input.file, input.os, RawOf(input.file, s), k))
    BY DEF EnvironmentIsLayered, Strongest, Named, RawOf
  <1> DEFINE backend == effective_backend(input.backend, "native")
             svc == project.services[s]
             raw == RawOf(input.file, s)
             env == compose_environment(input.file, input.os, svc)
  <1>2. /\ input \in Inputs /\ input.kind = "compose"
        /\ project \in ProjectsOf(input)
        /\ stack \in compose_project_to_stack(project, input.file, input.os, backend)
        /\ Scaled(project) /\ ~Clash(project)
    BY <1>1, LoadedIs
  <1> HIDE DEF backend
  <1>3. stack[s] = Config(project, input.file, input.os, backend, s) /\ stack[s] # Invalid
    BY <1>2, ServiceRuns, StackIs
  <1>4. env # Invalid /\ stack[s].env = env
    BY <1>3, ConfigIs DEF Config
  <1>5. ServiceTyped(raw) /\ svc = normalize_service(s, raw, project.networks, input.os)
    BY <1>2, ServicesAreTyped
  <1> HIDE DEF svc, raw, env
  <1>6. svc.env_file = Node(raw, "env_file")
        /\ svc.environment = normalize_environment(Node(raw, "environment"), input.os)
    BY <1>5, ServiceIs
  <1>7. EnvFileTyped(input.file.dotenv)
        /\ \A f \in DOMAIN input.file.env_files : EnvFileTyped(input.file.env_files[f])
    BY <1>2, StackFileAssumption DEF ComposeTyped
  <1>8. Get(env, k) = Strongest(Offers(input.file, input.os, raw, k))
    BY <1>4, <1>5, <1>6, <1>7, EnvironmentIs DEF env
  <1>9. QED
    BY <1>4, <1>8 DEF raw

(* The value of every variable of a service is that of the strongest layer *)
(* of its file that has one (cli, 868-896): its own entry, with the        *)
(* process before .env in a list (compose, 1177) and after it in a         *)
(* mapping, and under it any number of env files.                          *)
THEOREM EnvironmentStaysLayered == Spec => []EnvironmentIsLayered
  BY FlowHolds, FlowEnvironment, PTL

-----------------------------------------------------------------------------
(* Ports: a text and its entries in the long spelling.                     *)

\* Said once for all pairs of numbers, as their smaller one is used in a function.
MinOfTwo == \A a, b \in Int : Min({a, b}) \in {a, b} /\ Min({a, b}) <= a /\ Min({a, b}) <= b

LEMMA MinTwo == MinOfTwo
  <1>1. ASSUME NEW a \in Int, NEW b \in Int
        PROVE  Min({a, b}) \in {a, b} /\ Min({a, b}) <= a /\ Min({a, b}) <= b
    <2>1. \E x \in {a, b} : \A y \in {a, b} : x <= y
      OBVIOUS
    <2>2. Min({a, b}) \in {a, b} /\ \A y \in {a, b} : Min({a, b}) <= y
      BY <2>1 DEF Min
    <2>3. QED
      BY <2>2
  <1>2. QED
    BY <1>1 DEF MinOfTwo

\* The port a mapping of the long spelling stands for.
PortOf(m) == Port(Get(m, "host_ip"), as_i64(Node(m, "published")), as_i64(Node(m, "target")),
                  Or(Get(m, "protocol"), "tcp"))

\* The ports an item stands for.
ItemPorts(item) ==
    IF Has(item, "text") THEN parse_port_string(item.text) ELSE PortMapping(item.map)

\* An entry of the long form, with plain numbers.
IsEntry(e) ==
    /\ ~Has(e, "text") /\ Has(e, "map")
    /\ "published" \in DOMAIN e.map =>
          Has(e.map.published, "number") /\ e.map.published.number \in Int

\* The entries of the long spelling stand for the same ports, or are refused too.
SamePorts(item, long) ==
    /\ IsTuple(long) /\ \A i \in DOMAIN long : IsEntry(long[i])
    /\ PortRefused(item) <=> \E i \in DOMAIN long : PortRefused(long[i])
    /\ ~PortRefused(item) => ItemPorts(item) = [i \in DOMAIN long |-> PortOf(long[i].map)]

(* A text of a port says what its entries in the long spelling say.        *)
LEMMA TextPorts ==
    ASSUME NEW item, Has(item, "text"), PortTextTyped(item.text), ~BadRange(item.text)
    PROVE  SamePorts(item, LongPort(item.text))
  <1> DEFINE s == item.text
             t == s.target.range
             h == s.published.range
             n == t[2] - t[1] + 1
             host(i) == IF s.published = Absent THEN Absent ELSE Min({h[1] + (i - 1), h[2]})
             P == parse_port_string(s)
             L == LongPort(s)
  <1>1. CASE parse_port_range(s.target) = Absent
    <2> DEFINE e == [map |-> <<>>]
    <2>1. PortStringRefused(s) /\ L = <<e>>
      BY <1>1 DEF PortStringRefused, LongPort
    <2>2. IsEntry(e) /\ PortRefused(e)
      BY DEF Has, PortRefused, PortMappingRefused, IsEntry, as_i64, Node
    <2> HIDE DEF e
    <2>3. IsTuple(<<e>>) /\ DOMAIN <<e>> = {1} /\ <<e>>[1] = e
      BY DEF IsTuple, ToSet
    <2>4. PortRefused(item)
      BY <2>1 DEF PortRefused
    <2>5. QED
      BY <2>1, <2>2, <2>3, <2>4 DEF SamePorts
  <1>2. CASE parse_port_range(s.target) # Absent
    <2>1. /\ t \in Int \X Int /\ t[1] <= t[2] /\ parse_port_range(s.target) = t
          /\ t[1] \in 0 .. MaxU16 /\ t[2] \in 0 .. MaxU16
      <3>1. Has(s.target, "range") /\ t[1] <= t[2] /\ parse_port_range(s.target) = t
            /\ t[1] \in 0 .. MaxU16 /\ t[2] \in 0 .. MaxU16
        BY <1>2 DEF parse_port_range
      <3>2. QED
        BY <3>1 DEF PortTextTyped, PartTyped
    <2>2. n \in Nat
      BY <2>1
    <2>3. s.published # Absent =>
             /\ parse_port_range(s.published) = h /\ parse_port_range(s.published) # Absent
             /\ h \in Int \X Int /\ h[2] - h[1] = t[2] - t[1]
             /\ h[1] \in 0 .. MaxU16 /\ h[2] \in 0 .. MaxU16
      <3>1. ASSUME s.published # Absent PROVE parse_port_range(s.published) # Absent
        BY <1>2, <3>1 DEF BadRange
      <3>2. ASSUME s.published # Absent
            PROVE  Has(s.published, "range") /\ parse_port_range(s.published) = h
                   /\ h[1] \in 0 .. MaxU16 /\ h[2] \in 0 .. MaxU16
        BY <3>1, <3>2 DEF parse_port_range
      <3>3. ASSUME s.published # Absent PROVE h[2] - h[1] = t[2] - t[1]
        BY <1>2, <3>3 DEF BadRange
      <3>4. QED
        BY <3>1, <3>2, <3>3 DEF PortTextTyped, PartTyped
    <2> HIDE DEF s, t, h
    <2>4. ~PortStringRefused(s)
      BY <1>2, <2>1, <2>3 DEF PortStringRefused, PublishedRange
    <2>5. P = [i \in 1 .. n |-> Port(s.ip, host(i), t[1] + (i - 1), s.protocol)]
      <3>1. \A i \in 1 .. n : t[1] + i - 1 = t[1] + (i - 1)
        BY <2>1
      <3>2. CASE s.published = Absent
        <4>1. P = [i \in 1 .. n |-> Port(s.ip, Absent, t[1] + i - 1, s.protocol)]
          BY <2>1, <3>2 DEF parse_port_string, PublishedRange
        <4> HIDE DEF P, n
        <4>2. QED
          BY <3>1, <3>2, <4>1
      <3>3. CASE s.published # Absent
        <4>1. P = [i \in 1 .. n |-> Port(s.ip, Min({h[1] + i - 1, h[2]}), t[1] + i - 1, s.protocol)]
          BY <2>1, <2>3, <3>3 DEF parse_port_string, PublishedRange
        <4>2. \A i \in 1 .. n : h[1] + i - 1 = h[1] + (i - 1)
          BY <2>2, <2>3, <3>3
        <4> HIDE DEF P, n
        <4>3. QED
          BY <3>1, <3>3, <4>1, <4>2
      <3>4. QED
        BY <3>2, <3>3
    <2> DEFINE Entry(i) == [target |-> [number |-> t[1] + (i - 1)], protocol |-> s.protocol,
                            host_ip |-> s.ip] ++
                           (IF s.published = Absent THEN <<>> ELSE [published |-> [number |-> host(i)]])
    <2>6. L = [i \in 1 .. n |-> [map |-> Entry(i)]]
      BY <1>2 DEF LongPort, t, h
    <2>7. ASSUME NEW i \in 1 .. n
          PROVE  /\ as_i64(Node(Entry(i), "published")) = host(i) /\ Get(Entry(i), "host_ip") = s.ip
                 /\ as_i64(Node(Entry(i), "target")) = t[1] + (i - 1)
                 /\ Get(Entry(i), "protocol") = s.protocol
                 /\ "published" \in DOMAIN Entry(i) =>
                       s.published # Absent /\ Has(Entry(i).published, "number")
                       /\ Entry(i).published.number = host(i)
      <3> DEFINE target == [number |-> t[1] + (i - 1)]
                 published == [number |-> host(i)]
      <3>0. as_i64(target) = t[1] + (i - 1) /\ as_i64(published) = host(i)
            /\ Has(published, "number") /\ published.number = host(i)
        BY DEF as_i64, Has
      <3>1. CASE s.published = Absent
        <4>1. as_i64(<<>>) = Absent /\ host(i) = Absent
          BY <3>1 DEF as_i64, Has
        <4> HIDE DEF n, host, target, published
        <4>2. Entry(i) = [target |-> target, protocol |-> s.protocol, host_ip |-> s.ip] ++ <<>>
          BY <3>1 DEF target
        <4> HIDE DEF Entry
        <4>3. QED
          BY <3>0, <4>1, <4>2 DEF ++, Get, Node
      <3>2. CASE s.published # Absent
        <4> HIDE DEF n, host, target, published
        <4>2. Entry(i) = [target |-> target, protocol |-> s.protocol, host_ip |-> s.ip]
                            ++ [published |-> published]
          BY <3>2 DEF target, published
        <4> HIDE DEF Entry
        <4>3. QED
          BY <3>0, <3>2, <4>2 DEF ++, Get, Node
      <3>3. QED
        BY <3>1, <3>2
    <2>8. ASSUME NEW i \in 1 .. n
          PROVE  /\ t[1] + (i - 1) \in 0 .. MaxU16
                 /\ s.published # Absent => host(i) \in 0 .. MaxU16
                 /\ host(i) # Absent => host(i) \in 0 .. MaxU16
      <3>1. t[1] + (i - 1) \in 0 .. MaxU16
        BY <2>1, ComposeFileAssumption
      <3>2. ASSUME s.published # Absent PROVE host(i) \in 0 .. MaxU16
        <4> DEFINE x == h[1] + (i - 1)
        <4>1. x \in 0 .. MaxU16 /\ h[2] \in 0 .. MaxU16
          BY <2>1, <2>3, <3>2, ComposeFileAssumption
        <4>2. x \in Int /\ h[2] \in Int
          BY <4>1, ComposeFileAssumption
        <4>3. host(i) = Min({x, h[2]})
          BY <3>2
        <4> HIDE DEF x, host
        <4>4. host(i) \in {x, h[2]}
          BY <4>2, <4>3, MinTwo DEF MinOfTwo
        <4>5. QED
          BY <4>1, <4>4
      <3>3. QED
        BY <3>1, <3>2
    <2> HIDE DEF P, L, n, host, Entry
    <2>9. DOMAIN L = 1 .. n /\ \A i \in 1 .. n : L[i] = [map |-> Entry(i)]
      BY <2>6
    <2>10. ASSUME NEW i \in 1 .. n
           PROVE  /\ PortOf(L[i].map) = Port(s.ip, host(i), t[1] + (i - 1), s.protocol)
                  /\ IsEntry(L[i]) /\ ~PortRefused(L[i])
      <3>1. L[i].map = Entry(i) /\ ~Has(L[i], "text") /\ Has(L[i], "map")
        BY <2>9 DEF Has
      <3>2. Or(s.protocol, "tcp") = s.protocol
        BY DEF Or, PortTextTyped, s
      <3>3. ~PortMappingRefused(Entry(i))
        BY <2>7, <2>8, ComposeFileAssumption DEF PortMappingRefused, checked_u16
      <3>4. IsEntry(L[i])
        BY <2>7, <2>8, <3>1, ComposeFileAssumption DEF IsEntry
      <3>5. QED
        BY <2>7, <3>1, <3>2, <3>3, <3>4 DEF PortOf, PortRefused
    <2>11. P = [i \in DOMAIN L |-> PortOf(L[i].map)]
      BY <2>5, <2>9, <2>10
    <2>12. IsTuple(L)
      <3>1. L = [i \in 1 .. n |-> L[i]]
        BY <2>6
      <3>2. QED
        BY <2>2, <3>1, TupleIs
    <2>13. ItemPorts(item) = P /\ ~PortRefused(item)
      BY <2>4 DEF ItemPorts, PortRefused, P, s
    <2>14. SamePorts(item, L)
      BY <2>9, <2>10, <2>11, <2>12, <2>13 DEF SamePorts
    <2>15. QED
      BY <2>14 DEF L, s
  <1>3. QED
    BY <1>1, <1>2

(* An item that is not odd says what its entries do.                       *)
LEMMA PlainPorts ==
    ASSUME NEW item, PortItemTyped(item), ~OddPort(item)
    PROVE  SamePorts(item, LongEntries(item))
  <1>1. CASE Has(item, "text")
    BY <1>1, TextPorts DEF LongEntries, PortItemTyped, OddPort
  <1>2. CASE ~Has(item, "text")
    <2> DEFINE m == item.map
               l == [key \in DOMAIN m |->
                        IF key \in {"target", "published"} THEN Unquoted(m[key]) ELSE m[key]]
               e == [map |-> l]
    <2>1. Has(item, "map") /\ LongEntries(item) = <<e>>
      BY <1>2 DEF OddPort, LongEntries
    <2>2. ASSUME NEW key \in {"target", "published"}, key \in DOMAIN m
          PROVE  Has(m[key], "number") /\ m[key].number \in Int /\ Unquoted(m[key]) = m[key]
      <3>1. Has(m[key], "number")
        BY <1>2, <2>1, <2>2 DEF OddPort
      <3>2. m[key].number \in Int /\ ~Has(m[key], "text")
        BY <2>1, <2>2, <3>1 DEF PortItemTyped, PortNodeTyped, Node
      <3>3. QED
        BY <3>1, <3>2 DEF Unquoted
    <2>3. DOMAIN l = DOMAIN m /\ \A key \in DOMAIN m : l[key] = m[key]
      BY <2>2
    <2> HIDE DEF m, l
    <2>4. Has(e, "map") /\ ~Has(e, "text") /\ e.map = l
      BY DEF Has
    <2> HIDE DEF e
    <2>5. /\ Get(l, "host_ip") = Get(m, "host_ip") /\ Get(l, "protocol") = Get(m, "protocol")
          /\ Node(l, "target") = Node(m, "target") /\ Node(l, "published") = Node(m, "published")
      BY <2>3 DEF Get, Node
    <2>6. IsEntry(e)
      BY <2>2, <2>3, <2>4 DEF IsEntry
    <2>7. PortOf(l) = PortOf(m) /\ (PortMappingRefused(l) <=> PortMappingRefused(m))
      BY <2>5 DEF PortOf, PortMappingRefused
    <2>8. PortRefused(item) <=> PortRefused(e)
      BY <1>2, <2>1, <2>4, <2>7 DEF PortRefused, m
    <2>9. ItemPorts(item) = <<PortOf(e.map)>>
      BY <1>2, <2>4, <2>7 DEF ItemPorts, PortMapping, PortOf, m
    <2> DEFINE p == PortOf(e.map)
               f == <<e>>
    <2>10. IsTuple(f) /\ DOMAIN f = {1} /\ f[1] = e
      BY DEF IsTuple, ToSet
    <2>11. \A i \in {1} : PortOf(f[i].map) = p
      BY <2>10
    <2>12. ItemPorts(item) = <<p>>
      BY <2>9
    <2>13. LongEntries(item) = f
      BY <2>1
    <2> HIDE DEF p, f
    <2>14. ItemPorts(item) = [i \in DOMAIN f |-> PortOf(f[i].map)]
      BY <2>10, <2>11, <2>12
    <2>15. SamePorts(item, f)
      BY <2>6, <2>8, <2>10, <2>14 DEF SamePorts
    <2>16. QED
      BY <2>13, <2>15
  <1>3. QED
    BY <1>1, <1>2

(* ... and those of the stack the published ones among them.               *)
LEMMA PublishedAre ==
    ASSUME NEW ports, IsTuple(ports)
    PROVE  /\ IsTuple(compose_port_strings(ports))
           /\ \A p : p \in ToSet(compose_port_strings(ports))
                       <=> p \in ToSet(ports) /\ p.published # Absent
  <1> DEFINE n == Len(ports)
             Kept(p) == IF p.published = Absent THEN <<>> ELSE <<p>>
             ss == [i \in 1 .. n |-> Kept(ports[i])]
  <1>1. n \in Nat /\ DOMAIN ports = 1 .. n
    BY DEF IsTuple
  <1>2. compose_port_strings(ports) = FlattenSeq(ss)
    BY <1>1 DEF compose_port_strings, Mapped
  <1>3. ASSUME NEW p
        PROVE  IsTuple(Kept(p)) /\ \A q : q \in ToSet(Kept(p)) <=> q = p /\ p.published # Absent
    <2>1. IsTuple(<<>>) /\ IsTuple(<<p>>) /\ ToSet(<<>>) = {} /\ ToSet(<<p>>) = {p}
      BY DEF IsTuple, ToSet
    <2>2. QED
      BY <2>1
  <1>4. \A i \in 1 .. n : ss[i] = Kept(ports[i])
    OBVIOUS
  <1>5. ss = [i \in 1 .. n |-> ss[i]]
    OBVIOUS
  <1> HIDE DEF n, ss, Kept
  <1>6. /\ IsTuple(FlattenSeq(ss))
        /\ \A p : p \in ToSet(FlattenSeq(ss)) <=> \E i \in 1 .. n : p \in ToSet(ss[i])
    BY <1>1, <1>3, <1>4, <1>5, FlattenTuples
  <1>7. ASSUME NEW p
        PROVE  (\E i \in 1 .. n : p \in ToSet(ss[i])) <=> p \in ToSet(ports) /\ p.published # Absent
    <2>1. \A i \in 1 .. n : p \in ToSet(ss[i]) <=> p = ports[i] /\ ports[i].published # Absent
      BY <1>3, <1>4
    <2>2. p \in ToSet(ports) <=> \E i \in 1 .. n : p = ports[i]
      BY <1>1 DEF ToSet
    <2>3. QED
      BY <2>1, <2>2
  <1>8. QED
    BY <1>2, <1>6, <1>7

\* The entries of the long spelling of them all.
LongOf(items) == FlattenSeq([i \in DOMAIN items |-> LongEntries(items[i])])

\* One that is refused has them all refused.
Refusal(items) == \E i \in DOMAIN items : PortRefused(items[i])

(* normalize_ports, with the names used here.                              *)
LEMMA NormalizedPorts ==
    ASSUME NEW items
    PROVE  normalize_ports(items) = IF Refusal(items) THEN Invalid
                                    ELSE FlattenSeq([i \in DOMAIN items |-> ItemPorts(items[i])])
  BY DEF normalize_ports, Refusal, ItemPorts, Mapped

(* The ports a service has, as the entries of its long spelling say.       *)
LEMMA PortListIs ==
    ASSUME NEW items, IsSeq(items),
           \A i \in DOMAIN items : PortItemTyped(items[i]) /\ ~OddPort(items[i])
    PROVE  normalize_ports(LongOf(items)) = normalize_ports(items)
  <1> DEFINE long == LongOf(items)
             n == Len(items)
             m == Len(long)
             ss == [i \in 1 .. n |-> LongEntries(items[i])]
             tt == [i \in 1 .. n |-> ItemPorts(items[i])]
             ports == [i \in DOMAIN long |-> PortOf(long[i].map)]
  <1>1. n \in Nat /\ DOMAIN items = 1 .. n
    BY DEF IsSeq
  <1>2. /\ \A i \in 1 .. n : ss[i] = LongEntries(items[i]) /\ tt[i] = ItemPorts(items[i])
        /\ ss = [i \in 1 .. n |-> ss[i]] /\ tt = [i \in 1 .. n |-> tt[i]]
        /\ long = FlattenSeq(ss)
    BY <1>1 DEF LongOf
  <1>3. Refusal(items) = \E i \in 1 .. n : PortRefused(items[i])
    BY <1>1 DEF Refusal
  <1>4. normalize_ports(items) = IF Refusal(items) THEN Invalid ELSE FlattenSeq(tt)
    BY <1>1, NormalizedPorts
  <1> HIDE DEF n, ss, tt, long
  <1>5. ASSUME NEW i \in 1 .. n PROVE SamePorts(items[i], ss[i])
    BY <1>1, <1>2, PlainPorts
  <1>6. \A i \in 1 .. n : IsTuple(ss[i])
    BY <1>5 DEF SamePorts
  <1>7. IsTuple(long) /\ \A x : x \in ToSet(long) <=> \E i \in 1 .. n : x \in ToSet(ss[i])
    BY <1>1, <1>2, <1>6, FlattenTuples
  <1>8. m \in Nat /\ DOMAIN long = 1 .. m
    BY <1>7 DEF IsTuple
  <1> HIDE DEF m
  <1>9. \A e \in ToSet(long) : ~Has(e, "text")
    BY <1>5, <1>7 DEF SamePorts, IsEntry, ToSet
  <1>10. Refusal(items) <=> \E e \in ToSet(long) : PortRefused(e)
    <2>1. ASSUME NEW i \in 1 .. n
          PROVE  PortRefused(items[i]) <=> \E e \in ToSet(ss[i]) : PortRefused(e)
      <3> DEFINE s == ss[i]
      <3>1. PortRefused(items[i]) <=> \E j \in DOMAIN s : PortRefused(s[j])
        BY <1>5 DEF SamePorts
      <3> HIDE DEF s
      <3>2. (\E j \in DOMAIN s : PortRefused(s[j])) <=> \E e \in ToSet(s) : PortRefused(e)
        BY DEF ToSet
      <3>3. QED
        BY <3>1, <3>2 DEF s
    <2>2. QED
      BY <1>3, <1>7, <2>1
  <1>11. Refusal(long) <=> Refusal(items)
    BY <1>10 DEF Refusal, ToSet
  <1>12. ~Refusal(items) => FlattenSeq(tt) = ports
    <2> DEFINE S == ToSet(long)
               g == [e \in S |-> PortOf(e.map)]
    <2>1. ASSUME ~Refusal(items), NEW i \in 1 .. n PROVE tt[i] = Through(g, ss[i])
      <3>1. tt[i] = [j \in DOMAIN ss[i] |-> PortOf(ss[i][j].map)]
        BY <1>2, <1>3, <1>5, <2>1 DEF SamePorts
      <3>2. \A j \in DOMAIN ss[i] : ss[i][j] \in S
        BY <1>7 DEF ToSet
      <3> HIDE DEF S
      <3>3. \A j \in DOMAIN ss[i] : g[ss[i][j]] = PortOf(ss[i][j].map)
        BY <3>2
      <3> HIDE DEF g
      <3>4. QED
        BY <3>1, <3>3 DEF Through
    <2>2. ports = Through(g, long)
      <3>1. \A j \in DOMAIN long : long[j] \in S
        BY DEF ToSet
      <3> HIDE DEF S
      <3>2. \A j \in DOMAIN long : g[long[j]] = PortOf(long[j].map)
        BY <3>1
      <3> HIDE DEF g
      <3>3. QED
        BY <3>2 DEF Through
    <2> HIDE DEF g, ports
    <2>3. ASSUME ~Refusal(items) PROVE FlattenSeq(tt) = Through(g, FlattenSeq(ss))
      <3>1. EachThrough(tt, n, g, ss)
        BY <1>2, <2>1, <2>3 DEF EachThrough
      <3>2. QED
        BY <1>1, <1>2, <1>6, <3>1, FlattenMapped
    <2>4. QED
      BY <1>2, <2>2, <2>3
  <1>13. normalize_ports(long) = IF Refusal(long) THEN Invalid ELSE ports
    <2> DEFINE oo == [i \in 1 .. m |-> ItemPorts(long[i])]
               P == ToSet(ports)
    <2>1. normalize_ports(long) = IF Refusal(long) THEN Invalid ELSE FlattenSeq(oo)
      BY <1>8, NormalizedPorts
    <2>2. ports \in [1 .. m -> P]
      BY <1>8 DEF ToSet
    <2>3. ASSUME NEW i \in 1 .. m PROVE oo[i] = <<ports[i]>>
      <3>1. long[i] \in ToSet(long)
        BY <1>8 DEF ToSet
      <3>2. ItemPorts(long[i]) = <<PortOf(long[i].map)>>
        BY <1>9, <3>1 DEF ItemPorts, PortMapping, PortOf
      <3>3. QED
        BY <1>8, <3>2
    <2>4. oo = [i \in 1 .. m |-> <<ports[i]>>]
      <3> HIDE DEF ports
      <3>1. oo = [i \in 1 .. m |-> oo[i]]
        OBVIOUS
      <3> HIDE DEF oo
      <3>2. QED
        BY <2>3, <3>1
    <2> HIDE DEF oo, P, ports
    <2>5. FlattenSeq(oo) = ports
      BY <1>8, <2>2, <2>4, FlattenSingles
    <2>6. QED
      BY <2>1, <2>5
  <1> HIDE DEF ports
  <1>14. QED
    BY <1>4, <1>11, <1>12, <1>13 DEF long

-----------------------------------------------------------------------------
(* The long spelling, field by field.                                      *)

\* The keys that the long spelling puts under deploy.
Moved == {"restart", "scale", "deploy"}

(* A service in its long spelling, key by key ...                          *)
LEMMA LongFieldsAre ==
    ASSUME NEW raw
    PROVE  LET long == Longhand(raw)
           IN  /\ DOMAIN long = (DOMAIN raw \ Moved) \cup {"deploy"}
               /\ \A key \in DOMAIN raw \ Moved : long[key] = LongField(key, raw[key])
               /\ long.deploy = LongDeploy(raw)
  <1> DEFINE own == [k \in DOMAIN raw \ Moved |-> raw[k]]
             f == LongFields(own)
             g == [deploy |-> LongDeploy(raw)]
  <1>1. Longhand(raw) = f ++ g
    BY DEF Longhand, Moved
  <1>2. DOMAIN f = DOMAIN raw \ Moved /\ \A key \in DOMAIN f : f[key] = LongField(key, raw[key])
    BY DEF LongFields
  <1>3. DOMAIN g = {"deploy"} /\ "deploy" \notin DOMAIN f /\ g["deploy"] = LongDeploy(raw)
    BY <1>2 DEF Moved
  <1> HIDE DEF f, g
  <1>4. QED
    BY <1>1, <1>2, <1>3 DEF ++

(* ... and what the code gets when it asks for a key ...                   *)
LEMMA LongNodeIs ==
    ASSUME NEW raw, NEW key, key \notin Moved
    PROVE  /\ key \in DOMAIN Longhand(raw) <=> key \in DOMAIN raw
           /\ Get(Longhand(raw), key) = IF key \in DOMAIN raw THEN LongField(key, raw[key]) ELSE Absent
           /\ Node(Longhand(raw), key) = IF key \in DOMAIN raw THEN LongField(key, raw[key]) ELSE <<>>
  BY LongFieldsAre DEF Get, Node, Moved

(* ... such as its ports ...                                               *)
LEMMA LongPortsAre ==
    ASSUME NEW raw
    PROVE  Node(Longhand(raw), "ports") = LongOf(Node(raw, "ports"))
  <1> DEFINE items == Node(raw, "ports")
             key == "ports"
  <1>1. LongField("ports", items) = LongOf(items) /\ key \notin Moved
    BY DEF LongField, LongOf, Mapped, Moved
  <1> HIDE DEF key
  <1>2. Node(Longhand(raw), key) = IF key \in DOMAIN raw THEN LongField(key, raw[key]) ELSE <<>>
    BY <1>1, LongNodeIs
  <1>3. CASE key \in DOMAIN raw
    BY <1>1, <1>2, <1>3 DEF Node, key
  <1>4. CASE key \notin DOMAIN raw
    <2>1. items = <<>> /\ Node(Longhand(raw), "ports") = <<>>
      BY <1>2, <1>4 DEF Node, key
    <2>2. LongOf(<<>>) = <<>>
      <3>1. [i \in DOMAIN <<>> |-> LongEntries(<<>>[i])] = <<>>
        OBVIOUS
      <3>2. FlattenSeq(<<>>) = <<>>
        BY DEF FlattenSeq
      <3>3. QED
        BY <3>1, <3>2 DEF LongOf
    <2>3. QED
      BY <2>1, <2>2
  <1>5. QED
    BY <1>3, <1>4

(* ... which are the same in both spellings.                               *)
LEMMA PortsAre ==
    ASSUME NEW raw, ServiceTyped(raw), ~HasOddPort(raw)
    PROVE  normalize_ports(Node(Longhand(raw), "ports")) = normalize_ports(Node(raw, "ports"))
  <1> DEFINE items == Node(raw, "ports")
  <1>1. IsSeq(items) /\ \A i \in DOMAIN items : PortItemTyped(items[i]) /\ ~OddPort(items[i])
    BY DEF ServiceTyped, HasOddPort
  <1> HIDE DEF items
  <1>2. normalize_ports(LongOf(items)) = normalize_ports(items)
    BY <1>1, PortListIs
  <1>3. QED
    BY <1>2, LongPortsAre DEF items

(* What the long spelling leaves as it is.                                 *)
LEMMA SameKey ==
    ASSUME NEW raw, NEW key,
           key \notin {"restart", "scale", "deploy", "depends_on", "environment", "networks", "build",
                       "ports", "volumes"}
    PROVE  Get(Longhand(raw), key) = Get(raw, key) /\ Node(Longhand(raw), key) = Node(raw, key)
  <1>1. key \notin Moved
    BY DEF Moved
  <1>2. LongField(key, raw[key]) = raw[key]
    BY DEF LongField
  <1>3. QED
    BY <1>1, <1>2, LongNodeIs DEF Get, Node

LEMMA SecondIs ==
    ASSUME NEW x, NEW y, NEW m, m = <<x, y>>
    PROVE  m[1] = x /\ m[2] = y
  OBVIOUS

(* A text of build is a mapping with this context.                         *)
LEMMA BuildAgrees ==
    ASSUME NEW raw, OneShape(Node(raw, "build"))
    PROVE  normalize_build(Node(Longhand(raw), "build")) = normalize_build(Node(raw, "build"))
  <1> DEFINE key == "build"
             node == raw.build
             long == LongField("build", node)
  <1>1. Node(Longhand(raw), "build") = IF "build" \in DOMAIN raw THEN long ELSE <<>>
    <2>1. key \notin Moved
      BY DEF Moved
    <2> HIDE DEF key
    <2>2. Node(Longhand(raw), key) = IF key \in DOMAIN raw THEN LongField(key, raw[key]) ELSE <<>>
      BY <2>1, LongNodeIs
    <2>3. QED
      BY <2>2 DEF key
  <1>2. long = IF Has(node, "text") THEN [map |-> [context |-> node.text]] ELSE node
    BY DEF LongField
  <1> HIDE DEF long, key
  <1>3. ASSUME "build" \in DOMAIN raw
        PROVE  normalize_build(long) = normalize_build(node)
    <2>0. OneShape(node)
      BY <1>3 DEF Node
    <2>1. CASE Has(node, "text")
      <3> DEFINE m == [context |-> node.text]
      <3>1. long = [map |-> m] /\ Get(m, "context") = node.text /\ Get(m, "extra") = Absent
        BY <1>2, <2>1 DEF Get
      <3> HIDE DEF m
      <3>2. normalize_build(long) = [context |-> node.text, extra |-> FALSE]
        <4>1. Has(long, "map") /\ ~Has(long, "text") /\ long # <<>> /\ long.map = m
          BY <3>1 DEF Has
        <4>2. QED
          BY <3>1, <4>1 DEF normalize_build, Or
      <3>3. normalize_build(node) = [context |-> node.text, extra |-> FALSE]
        <4>1. ~Has(node, "map") /\ node # <<>>
          BY <2>0, <2>1, NotEmpty DEF OneShape
        <4>2. QED
          BY <2>1, <4>1 DEF normalize_build
      <3>4. QED
        BY <3>2, <3>3
    <2>2. CASE ~Has(node, "text")
      BY <1>2, <2>2
    <2>3. QED
      BY <2>1, <2>2
  <1>4. QED
    BY <1>1, <1>3 DEF Node

(* A list of dependencies is a mapping to service_started.                 *)
LEMMA DependenciesAgree ==
    ASSUME NEW raw, OneShape(Node(raw, "depends_on"))
    PROVE  normalize_depends_on(Node(Longhand(raw), "depends_on"))
              = normalize_depends_on(Node(raw, "depends_on"))
  <1> DEFINE key == "depends_on"
             node == raw.depends_on
             long == LongField("depends_on", node)
  <1>1. Node(Longhand(raw), "depends_on") = IF "depends_on" \in DOMAIN raw THEN long ELSE <<>>
    <2>1. key \notin Moved
      BY DEF Moved
    <2> HIDE DEF key
    <2>2. Node(Longhand(raw), key) = IF key \in DOMAIN raw THEN LongField(key, raw[key]) ELSE <<>>
      BY <2>1, LongNodeIs
    <2>3. QED
      BY <2>2 DEF key
  <1> DEFINE m == Mapped(node.list, LAMBDA s : <<s, [text |-> "service_started"]>>)
             d == [i \in DOMAIN node.list |-> DependsOn(node.list[i], "service_started", TRUE)]
  <1>2. long = IF Has(node, "list") THEN [map |-> m] ELSE node
    BY DEF LongField
  <1> HIDE DEF long, key
  <1>3. ASSUME "depends_on" \in DOMAIN raw
        PROVE  normalize_depends_on(long) = normalize_depends_on(node)
    <2>0. OneShape(node)
      BY <1>3 DEF Node
    <2>1. CASE Has(node, "list")
      <3>1. DOMAIN m = DOMAIN node.list
            /\ \A i \in DOMAIN m : m[i] = <<node.list[i], [text |-> "service_started"]>>
        BY DEF Mapped
      <3> HIDE DEF m
      <3>2. \A i \in DOMAIN m : Has(m[i][2], "text") /\ m[i][2].text = "service_started" /\ m[i][1] = node.list[i]
        BY <3>1 DEF Has
      <3>3. long = [map |-> m]
        BY <1>2, <2>1
      <3>4. normalize_depends_on(long) =
               Mapped(m, LAMBDA e :
                  CASE Has(e[2], "text") -> DependsOn(e[1], e[2].text, TRUE)
                    [] Has(e[2], "map")  -> DependsOn(e[1],
                                               Or(Get(e[2].map, "condition"), "service_started"),
                                               Or(Get(e[2].map, "required"), TRUE))
                    [] OTHER             -> DependsOn(e[1], "service_started", TRUE))
        <4>1. Has(long, "map") /\ ~Has(long, "list") /\ long # <<>> /\ long.map = m
          BY <3>3 DEF Has
        <4>2. QED
          BY <4>1 DEF normalize_depends_on
      <3>5. normalize_depends_on(long) = d
        <4>1. ASSUME NEW i \in DOMAIN m
              PROVE  (CASE Has(m[i][2], "text") -> DependsOn(m[i][1], m[i][2].text, TRUE)
                        [] Has(m[i][2], "map")  -> DependsOn(m[i][1],
                                               Or(Get(m[i][2].map, "condition"), "service_started"),
                                               Or(Get(m[i][2].map, "required"), TRUE))
                        [] OTHER             -> DependsOn(m[i][1], "service_started", TRUE))
                     = DependsOn(node.list[i], "service_started", TRUE)
          <5>1. ~Has(m[i][2], "map")
            BY <3>1 DEF Has
          <5>2. QED
            BY <3>2, <5>1
        <4>2. QED
          BY <3>1, <3>4, <4>1 DEF Mapped
      <3>6. normalize_depends_on(node) = d
        <4>1. ~Has(node, "map") /\ node # <<>>
          BY <2>0, <2>1, NotEmpty DEF OneShape
        <4>2. QED
          BY <2>1, <4>1 DEF normalize_depends_on, Mapped
      <3>7. QED
        BY <3>5, <3>6
    <2>2. CASE ~Has(node, "list")
      BY <1>2, <2>2
    <2>3. QED
      BY <2>1, <2>2
  <1>4. QED
    BY <1>1, <1>3 DEF Node

(* A list of networks is a mapping to no settings.                         *)
LEMMA NetworksAgree ==
    ASSUME NEW raw, NEW known, OneShape(Node(raw, "networks"))
    PROVE  normalize_network_attachments(Node(Longhand(raw), "networks"), known)
              = normalize_network_attachments(Node(raw, "networks"), known)
  <1> DEFINE key == "networks"
             node == raw.networks
             long == LongField("networks", node)
  <1>1. Node(Longhand(raw), "networks") = IF "networks" \in DOMAIN raw THEN long ELSE <<>>
    <2>1. key \notin Moved
      BY DEF Moved
    <2> HIDE DEF key
    <2>2. Node(Longhand(raw), key) = IF key \in DOMAIN raw THEN LongField(key, raw[key]) ELSE <<>>
      BY <2>1, LongNodeIs
    <2>3. QED
      BY <2>2 DEF key
  <1> DEFINE NameOf(k) == IF k \in DOMAIN known THEN known[k].name ELSE <<k>>
             m == Mapped(node.list, LAMBDA k : <<k, FALSE>>)
             d == [i \in DOMAIN node.list |-> [name |-> NameOf(node.list[i]), settings |-> FALSE]]
  <1>2. long = IF Has(node, "list") THEN [map |-> m] ELSE node
    BY DEF LongField
  <1> HIDE DEF long, key
  <1>3. ASSUME "networks" \in DOMAIN raw
        PROVE  normalize_network_attachments(long, known) = normalize_network_attachments(node, known)
    <2>0. OneShape(node)
      BY <1>3 DEF Node
    <2>1. CASE Has(node, "list")
      <3>1. DOMAIN m = DOMAIN node.list /\ \A i \in DOMAIN m : m[i] = <<node.list[i], FALSE>>
        BY DEF Mapped
      <3> HIDE DEF m
      <3>2. \A i \in DOMAIN m : m[i][1] = node.list[i] /\ m[i][2] = FALSE
        <4>1. TAKE i \in DOMAIN m
        <4> DEFINE e == m[i]
                   x == node.list[i]
        <4>2. e = <<x, FALSE>>
          BY <3>1
        <4> HIDE DEF e, x
        <4>3. e[1] = x /\ e[2] = FALSE
          BY <4>2, SecondIs
        <4>4. QED
          BY <4>3 DEF e, x
      <3>3. long = [map |-> m]
        BY <1>2, <2>1
      <3>4. normalize_network_attachments(long, known) =
               Mapped(m, LAMBDA e : [name |-> NameOf(e[1]), settings |-> e[2]])
        <4>1. Has(long, "map") /\ ~Has(long, "list") /\ long # <<>> /\ long.map = m
          BY <3>3 DEF Has
        <4>2. QED
          BY <4>1 DEF normalize_network_attachments
      <3>5. normalize_network_attachments(long, known) = d
        BY <3>1, <3>2, <3>4 DEF Mapped
      <3>6. normalize_network_attachments(node, known) = d
        <4>1. ~Has(node, "map") /\ node # <<>>
          BY <2>0, <2>1, NotEmpty DEF OneShape
        <4>2. QED
          BY <2>1, <4>1 DEF normalize_network_attachments, Mapped
      <3>7. QED
        BY <3>5, <3>6
    <2>2. CASE ~Has(node, "list")
      BY <1>2, <2>2
    <2>3. QED
      BY <2>1, <2>2
  <1>4. QED
    BY <1>1, <1>3 DEF Node

(* A text of a volume is a mapping: its source says of which type.         *)
LEMMA VolumesAgree ==
    ASSUME NEW raw, ServiceTyped(raw)
    PROVE  normalize_volume_mounts(Node(Longhand(raw), "volumes"))
              = normalize_volume_mounts(Node(raw, "volumes"))
  <1> DEFINE key == "volumes"
             node == raw.volumes
             long == LongField("volumes", node)
             Mounted(item) ==
                IF Has(item, "text") THEN parse_volume_string(item.text)
                ELSE Mount(Or(Get(item.map, "type"), "volume"), Get(item.map, "source"), item.map.target,
                           Or(Or(Get(item.map, "read_only"), Get(item.map, "readonly")), FALSE))
             Spelled(item) ==
                IF ~Has(item, "text") THEN item
                ELSE [map |-> [type |-> IF item.text.source # Absent
                                           /\ item.text.source.form # "name"
                                        THEN "bind" ELSE "volume",
                               source |-> item.text.source, target |-> item.text.target,
                               read_only |-> "ro" \in item.text.mode]]
  <1>1. Node(Longhand(raw), "volumes") = IF "volumes" \in DOMAIN raw THEN long ELSE <<>>
    <2>1. key \notin Moved
      BY DEF Moved
    <2> HIDE DEF key
    <2>2. Node(Longhand(raw), key) = IF key \in DOMAIN raw THEN LongField(key, raw[key]) ELSE <<>>
      BY <2>1, LongNodeIs
    <2>3. QED
      BY <2>2 DEF key
  <1>2. long = [i \in DOMAIN node |-> Spelled(node[i])]
    BY DEF LongField, Mapped
  <1>3. \A s : normalize_volume_mounts(s) = [i \in DOMAIN s |-> Mounted(s[i])]
    BY DEF normalize_volume_mounts, Mapped
  <1> HIDE DEF long, key
  <1>4. ASSUME NEW item, Has(item, "text"), VolumeTextTyped(item.text)
        PROVE  Mounted(Spelled(item)) = Mounted(item)
    <2> DEFINE v == item.text
               ro == "ro" \in v.mode
               type == IF v.source # Absent /\ v.source.form # "name" THEN "bind" ELSE "volume"
               m == [type |-> type, source |-> v.source, target |-> v.target, read_only |-> ro]
    <2>1. Spelled(item) = [map |-> m]
      BY <1>4
    <2>2. Mounted(item) = parse_volume_string(v)
      BY <1>4
    <2>3. type = IF v.source # Absent /\ looks_like_path(v.source) THEN "bind" ELSE "volume"
      <3>1. v.source # Absent => (v.source.form # "name" <=> v.source.form \in PathForms)
        BY <1>4 DEF VolumeTextTyped, PathForms
      <3>2. QED
        BY <3>1 DEF looks_like_path
    <2>4. parse_volume_string(v) = Mount(type, v.source, v.target, ro)
      BY <2>3 DEF parse_volume_string
    <2>5. Or(type, "volume") = type
      BY ComposeFileAssumption DEF Or, Words
    <2>6. ro \in BOOLEAN /\ ro # Absent
      <3>1. ro \in BOOLEAN
        OBVIOUS
      <3> HIDE DEF ro
      <3>2. QED
        BY <3>1, ComposeFileAssumption
    <2> HIDE DEF v, type, ro
    <2>7. /\ Get(m, "type") = type /\ Get(m, "source") = v.source /\ m.target = v.target
          /\ Get(m, "read_only") = ro /\ Get(m, "readonly") = Absent
      BY DEF Get
    <2>8. Or(Or(ro, Absent), FALSE) = ro
      BY <2>6 DEF Or
    <2>9. Mounted([map |-> m]) = Mount(type, v.source, v.target, ro)
      <3> DEFINE e == [map |-> m]
      <3>1. ~Has(e, "text") /\ e.map = m
        BY DEF Has
      <3> HIDE DEF e
      <3>2. QED
        BY <2>5, <2>7, <2>8, <3>1 DEF e
    <2>10. QED
      BY <2>1, <2>2, <2>4, <2>9
  <1>5. ASSUME "volumes" \in DOMAIN raw PROVE normalize_volume_mounts(long) = normalize_volume_mounts(node)
    <2>1. \A i \in DOMAIN node : Has(node[i], "text") => VolumeTextTyped(node[i].text)
      BY <1>5 DEF ServiceTyped, Node
    <2>2. ASSUME NEW i \in DOMAIN node PROVE Mounted(Spelled(node[i])) = Mounted(node[i])
      <3>1. CASE Has(node[i], "text")
        <4> HIDE DEF Mounted, Spelled
        <4>1. QED
          BY <1>4, <2>1, <3>1
      <3>2. CASE ~Has(node[i], "text")
        BY <3>2
      <3>3. QED
        BY <3>1, <3>2
    <2> HIDE DEF Mounted, Spelled
    <2>3. DOMAIN long = DOMAIN node /\ \A i \in DOMAIN node : long[i] = Spelled(node[i])
      BY <1>2
    <2>4. [i \in DOMAIN long |-> Mounted(long[i])] = [i \in DOMAIN node |-> Mounted(node[i])]
      BY <2>2, <2>3
    <2>5. QED
      BY <1>3, <2>4
  <1>6. QED
    <2> HIDE DEF Mounted, Spelled
    <2>1. QED
      BY <1>1, <1>5 DEF Node

(* restart and scale say the same under deploy.                            *)
LEMMA PolicyIs ==
    ASSUME NEW raw
    PROVE  /\ Node(Longhand(raw), "deploy") = LongDeploy(raw)
           /\ Node(Longhand(raw), "restart") = <<>> /\ Get(Longhand(raw), "scale") = Absent
  <1> DEFINE long == Longhand(raw)
  <1>1. DOMAIN long = (DOMAIN raw \ Moved) \cup {"deploy"} /\ long.deploy = LongDeploy(raw)
    BY LongFieldsAre
  <1> HIDE DEF long
  <1>2. "deploy" \in DOMAIN long /\ "restart" \notin DOMAIN long /\ "scale" \notin DOMAIN long
    BY <1>1 DEF Moved
  <1>3. Node(long, "deploy") = LongDeploy(raw)
    BY <1>1, <1>2 DEF Node
  <1>4. Node(long, "restart") = <<>> /\ Get(long, "scale") = Absent
    BY <1>2 DEF Node, Get
  <1>5. QED
    BY <1>3, <1>4 DEF long

(* A scale goes before replicas in both spellings.                         *)
LEMMA ReplicasAgree ==
    ASSUME NEW raw, ServiceTyped(raw)
    PROVE  normalize_replicas(Longhand(raw)) = normalize_replicas(raw)
  <1> DEFINE old == Node(raw, "deploy")
             long == LongDeploy(raw)
  <1>1. Get(long, "replicas") = IF "scale" \in DOMAIN raw THEN raw.scale ELSE Get(old, "replicas")
    BY DEF LongDeploy, ++, Get
  <1>2. "scale" \in DOMAIN raw => Get(raw, "scale") = raw.scale /\ raw.scale # Absent
    BY ComposeFileAssumption DEF ServiceTyped, Get
  <1>3. Or(Get(raw, "scale"), Or(Get(old, "replicas"), 1)) = Or(Absent, Or(Get(long, "replicas"), 1))
    BY <1>1, <1>2 DEF Or, Get
  <1>4. Node(Longhand(raw), "deploy") = long /\ Get(Longhand(raw), "scale") = Absent
    BY PolicyIs
  <1> HIDE DEF long
  <1>5. QED
    BY <1>3, <1>4 DEF normalize_replicas

(* A policy that says nothing leaves the word to restart in both spellings.*)
LEMMA RestartAgrees ==
    ASSUME NEW raw, ServiceTyped(raw), ~Underscored(raw)
    PROVE  normalize_restart(Node(Longhand(raw), "restart"), Node(Longhand(raw), "deploy"))
              = normalize_restart(Node(raw, "restart"), Node(raw, "deploy"))
  <1> DEFINE restart == Node(raw, "restart")
             deploy  == Node(raw, "deploy")
             written == Node(deploy, "restart_policy")
             says    == Get(written, "condition") # Absent \/ Get(written, "max_attempts") # Absent
             policy  == IF Has(restart, "flag")
                        THEN [condition |-> IF restart.flag THEN "always" ELSE "no"]
                        ELSE IF restart.count # Absent
                        THEN [condition |-> "on-failure", max_attempts |-> restart.count]
                        ELSE [condition |-> restart.text]
             long    == LongDeploy(raw)
  <1>1. Node(long, "restart_policy") = IF restart = <<>> \/ says THEN written ELSE policy
    BY DEF LongDeploy, ++, Node
  <1>2. Node(Longhand(raw), "deploy") = long /\ Node(Longhand(raw), "restart") = <<>>
    BY PolicyIs
  <1>3. RestartTyped(restart)
    BY DEF ServiceTyped
  <1>4. /\ hyphened("always") = "always" /\ hyphened("no") = "no"
        /\ hyphened("on-failure") = "on-failure" /\ hyphened(Absent) = Absent
        /\ "always" # Absent /\ "no" # Absent /\ "on-failure" # Absent
        /\ \A x : x # Absent => hyphened(x) # Absent
    BY ComposeFileAssumption DEF hyphened, Hyphened, Words
  <1>5. Has(restart, "text") /\ restart.count = Absent => hyphened(restart.text) = restart.text
    BY DEF Underscored, hyphened
  <1> HIDE DEF long, restart
  <1>6. CASE restart = <<>> \/ says
    <2>1. Node(long, "restart_policy") = written
      BY <1>1, <1>6
    <2>2. CASE says
      BY <1>2, <1>4, <2>1, <2>2 DEF normalize_restart
    <2>3. CASE restart = <<>>
      BY <1>2, <2>1, <2>3 DEF normalize_restart, restart
    <2>4. QED
      BY <1>6, <2>2, <2>3 DEF restart
  <1>7. CASE restart # <<>> /\ ~says
    <2>1. Node(long, "restart_policy") = policy
      BY <1>1, <1>7
    <2>2. Get(written, "condition") = Absent /\ Get(written, "max_attempts") = Absent
      BY <1>7
    <2> HIDE DEF written
    <2>3. normalize_restart(restart, deploy) =
             IF Has(restart, "flag")
             THEN Restart(IF restart.flag THEN "always" ELSE "no", Absent)
             ELSE IF restart.count # Absent THEN Restart("on-failure", restart.count)
             ELSE Restart(restart.text, Absent)
      BY <1>4, <1>7, <2>2 DEF normalize_restart, written
    <2>4. normalize_restart(<<>>, long) =
             IF hyphened(Get(policy, "condition")) # Absent
             THEN Restart(hyphened(Get(policy, "condition")), Get(policy, "max_attempts"))
             ELSE normalize_restart(<<>>, long)
      <3> HIDE DEF policy
      <3>1. QED
        BY <2>1 DEF normalize_restart
    <2>5. CASE Has(restart, "flag")
      <3> DEFINE word == IF restart.flag THEN "always" ELSE "no"
      <3>1. Get(policy, "condition") = word /\ Get(policy, "max_attempts") = Absent
        BY <2>5 DEF Get
      <3>2. hyphened(word) = word /\ word # Absent
        BY <1>4
      <3> HIDE DEF policy, word
      <3>3. normalize_restart(<<>>, long) = Restart(word, Absent)
        BY <2>4, <3>1, <3>2
      <3>4. QED
        BY <1>2, <2>3, <2>5, <3>3 DEF word, restart
    <2>6. CASE ~Has(restart, "flag") /\ restart.count # Absent
      <3>1. Get(policy, "condition") = "on-failure" /\ Get(policy, "max_attempts") = restart.count
        BY <2>6 DEF Get
      <3> HIDE DEF policy
      <3>2. QED
        BY <1>2, <1>4, <2>3, <2>4, <2>6, <3>1 DEF restart
    <2>7. CASE ~Has(restart, "flag") /\ restart.count = Absent
      <3>1. Get(policy, "condition") = restart.text /\ Get(policy, "max_attempts") = Absent
        BY <2>7 DEF Get
      <3>2. Has(restart, "text") /\ restart.text # Absent
        BY <1>3, <1>7, <2>7 DEF RestartTyped
      <3> HIDE DEF policy
      <3>3. QED
        BY <1>2, <1>5, <2>3, <2>4, <2>7, <3>1, <3>2 DEF restart
    <2>8. QED
      BY <2>5, <2>6, <2>7
  <1>8. QED
    BY <1>6, <1>7

-----------------------------------------------------------------------------
(* Environments in both spellings.                                         *)

(* Pairs that name the same keys: the last pair of a key counts in both.   *)
LEMMA PairsAlike ==
    ASSUME NEW s, IsSeq(s), NEW t, DOMAIN t = DOMAIN s, \A i \in DOMAIN s : t[i][1] = s[i][1]
    PROVE  /\ DOMAIN Pairs(s) = DOMAIN Pairs(t)
           /\ \A k \in DOMAIN Pairs(s) : \E i \in DOMAIN s :
                 s[i][1] = k /\ Pairs(s)[k] = s[i][2] /\ Pairs(t)[k] = t[i][2]
  <1> DEFINE n == Len(s)
             a == Mapped(s, LAMBDA p : One(p[1], p[2]))
             b == Mapped(t, LAMBDA p : One(p[1], p[2]))
  <1>1. n \in Nat /\ DOMAIN s = 1 .. n /\ DOMAIN a = 1 .. n /\ DOMAIN b = 1 .. n
    BY DEF IsSeq, Mapped
  <1>2. \A i \in 1 .. n : a[i] = One(s[i][1], s[i][2]) /\ b[i] = One(t[i][1], t[i][2])
    BY <1>1 DEF Mapped
  <1>3. Pairs(s) = Layered(a) /\ Pairs(t) = Layered(b)
    BY DEF Pairs
  <1> HIDE DEF n, a, b
  <1>4. ASSUME NEW i \in 1 .. n
        PROVE  /\ DOMAIN a[i] = {s[i][1]} /\ DOMAIN b[i] = {s[i][1]}
               /\ a[i][s[i][1]] = s[i][2] /\ b[i][s[i][1]] = t[i][2]
    <2>1. t[i][1] = s[i][1]
      BY <1>1
    <2>2. a[i] = One(s[i][1], s[i][2]) /\ b[i] = One(s[i][1], t[i][2])
      BY <1>2, <2>1
    <2> DEFINE k == s[i][1]
               v == s[i][2]
               w == t[i][2]
    <2>3. a[i] = One(k, v) /\ b[i] = One(k, w)
      BY <2>2
    <2> HIDE DEF k, v, w
    <2>4. /\ DOMAIN One(k, v) = {k} /\ One(k, v)[k] = v
          /\ DOMAIN One(k, w) = {k} /\ One(k, w)[k] = w
      BY DEF One
    <2>5. /\ DOMAIN a[i] = {k} /\ DOMAIN b[i] = {k}
          /\ a[i][k] = v /\ b[i][k] = w
      BY <2>3, <2>4
    <2>6. QED
      BY <2>5 DEF k, v, w
  <1>5. ASSUME NEW k PROVE k \in DOMAIN Layered(a) <=> k \in DOMAIN Layered(b)
    <2>1. k \in DOMAIN Layered(a) <=> \E i \in 1 .. n : k \in DOMAIN a[i]
      BY <1>1, LayeredIs
    <2>2. k \in DOMAIN Layered(b) <=> \E i \in 1 .. n : k \in DOMAIN b[i]
      BY <1>1, LayeredIs
    <2>3. QED
      BY <1>4, <2>1, <2>2
  <1>6. ASSUME NEW k \in DOMAIN Layered(a)
        PROVE  \E i \in 1 .. n : s[i][1] = k /\ Layered(a)[k] = s[i][2] /\ Layered(b)[k] = t[i][2]
    <2> DEFINE T == {i \in 1 .. n : k \in DOMAIN a[i]}
    <2>1. T # {} /\ T \subseteq 1 .. n
      BY <1>1, LayeredIs
    <2>2. Max(T) \in T /\ \A i \in T : Max(T) >= i
      <3> HIDE DEF T
      <3>1. QED
        BY <1>1, <2>1, GreatestOf
    <2>3. \A j \in Max(T) + 1 .. n : k \notin DOMAIN a[j] /\ k \notin DOMAIN b[j]
      <3>1. \A j \in Max(T) + 1 .. n : j \in 1 .. n /\ ~(Max(T) >= j)
        BY <1>1, <2>1, <2>2
      <3>2. QED
        BY <1>4, <2>2, <3>1
    <2> DEFINE m == Max(T)
    <2>4. m \in 1 .. n /\ k \in DOMAIN a[m] /\ k \in DOMAIN b[m] /\ s[m][1] = k
      BY <1>4, <2>2
    <2> HIDE DEF T
    <2>5. Layered(a)[k] = a[m][k] /\ Layered(b)[k] = b[m][k]
      BY <1>1, <2>3, <2>4, LayeredIs
    <2> HIDE DEF m
    <2>6. QED
      BY <1>4, <2>4, <2>5
  <1>7. DOMAIN Layered(a) = DOMAIN Layered(b)
    BY <1>5
  <1>8. QED
    BY <1>1, <1>3, <1>6, <1>7

\* The entries of a service with what is found for those without a value.
Found(dot, os, own) == [k \in DOMAIN own |-> Or(own[k], Or(Get(dot, k), Get(os, k)))]

DotOf(file) == IF file.dotenv = Absent THEN <<>> ELSE parse_env_file(file.dotenv)

EnvOf(env_files, names, found) ==
    LET files == [i \in DOMAIN names |-> parse_env_file(Get(env_files, names[i]))]
        own   == {k \in DOMAIN found : found[k] # Absent}
    IN  IF Invalid \in ToSet(files) THEN Invalid ELSE Restrict(found, own) ++ Layered(files)

(* compose_environment, with the names used here.                          *)
LEMMA ComposedEnvironment ==
    ASSUME NEW file, NEW os, NEW svc
    PROVE  compose_environment(file, os, svc)
              = EnvOf(file.env_files, svc.env_file, Found(DotOf(file), os, svc.environment))
  BY DEF compose_environment, EnvOf, Found, DotOf

(* A list of variables finds what a mapping finds, if none is set twice.   *)
LEMMA FoundAgrees ==
    ASSUME NEW in, NEW raw, ServiceTyped(raw), ~TwiceSet(in, raw)
    PROVE  Found(DotOf(in.file), in.os, normalize_environment(Node(raw, "environment"), in.os))
              = Found(DotOf(in.file), in.os,
                      normalize_environment(Node(Longhand(raw), "environment"), in.os))
  <1> DEFINE key == "environment"
             node == Node(raw, "environment")
             long == LongField("environment", node)
             dot == DotOf(in.file)
             os == in.os
             Value(e) == IF e[2] = Absent THEN Get(os, e[1]) ELSE e[2]
             s == Mapped(node.list, LAMBDA e : <<e[1], Value(e)>>)
             t == node.list
  <1>1. Node(Longhand(raw), "environment") = long
    <2>1. key \notin Moved
      BY DEF Moved
    <2> HIDE DEF key
    <2>2. Node(Longhand(raw), key) = IF key \in DOMAIN raw THEN LongField(key, raw[key]) ELSE <<>>
      BY <2>1, LongNodeIs
    <2>3. key \notin DOMAIN raw => node = <<>> /\ ~Has(node, "list")
      BY DEF Node, Has, key
    <2>4. ~Has(node, "list") => long = node
      BY DEF LongField
    <2>5. "environment" \in DOMAIN raw => node = raw["environment"]
      BY DEF Node
    <2>6. QED
      BY <2>2, <2>3, <2>4, <2>5 DEF key
  <1>2. long = IF Has(node, "list") THEN [map |-> t] ELSE node
    BY DEF LongField
  <1>3. CASE ~Has(node, "list")
    BY <1>1, <1>2, <1>3
  <1>4. CASE Has(node, "list")
    <2>1. IsSeq(t) /\ OneShape(node)
      BY <1>4 DEF ServiceTyped
    <2>2. normalize_environment(node, os) = Pairs(s)
      <3>1. ~Has(node, "map") /\ node # <<>>
        BY <1>4, <2>1, NotEmpty DEF OneShape
      <3>2. QED
        BY <1>4, <3>1 DEF normalize_environment
    <2>3. normalize_environment(long, os) = Pairs(t)
      <3>1. long = [map |-> t]
        BY <1>2, <1>4
      <3> HIDE DEF long
      <3>2. Has(long, "map") /\ ~Has(long, "list") /\ long # <<>> /\ long.map = t
        BY <3>1 DEF Has
      <3>3. QED
        BY <3>2 DEF normalize_environment
    <2>4. DOMAIN s = DOMAIN t /\ \A i \in DOMAIN t : s[i][1] = t[i][1] /\ s[i][2] = Value(t[i])
      <3>1. DOMAIN s = DOMAIN t /\ \A i \in DOMAIN t : s[i] = <<t[i][1], Value(t[i])>>
        BY DEF Mapped
      <3> HIDE DEF s, t, Value
      <3>2. QED
        BY <3>1
    <2>5. \A i \in DOMAIN t : t[i][2] = Absent /\ t[i][1] \in DOMAIN os => Get(dot, t[i][1]) = Absent
      <3>1. \A i \in DOMAIN t : t[i][2] = Absent /\ t[i][1] \in DOMAIN os =>
                in.file.dotenv = Absent \/ t[i][1] \notin DOMAIN Pairs(in.file.dotenv)
        BY <1>4 DEF TwiceSet
      <3>2. in.file.dotenv # Absent => dot = Pairs(in.file.dotenv)
        BY DEF DotOf, parse_env_file
      <3>3. in.file.dotenv = Absent => dot = <<>>
        BY DEF DotOf
      <3> HIDE DEF dot, t
      <3>4. QED
        BY <3>1, <3>2, <3>3 DEF Get
    <2> HIDE DEF s, t, dot, long, node, os
    <2>6. /\ DOMAIN Pairs(s) = DOMAIN Pairs(t)
          /\ \A k \in DOMAIN Pairs(t) : \E i \in DOMAIN t :
                t[i][1] = k /\ Pairs(t)[k] = t[i][2] /\ Pairs(s)[k] = s[i][2]
      BY <2>1, <2>4, PairsAlike
    <2>7. ASSUME NEW k \in DOMAIN Pairs(t)
          PROVE  Or(Pairs(s)[k], Or(Get(dot, k), Get(os, k))) = Or(Pairs(t)[k], Or(Get(dot, k), Get(os, k)))
      <3>1. PICK i \in DOMAIN t : t[i][1] = k /\ Pairs(t)[k] = t[i][2] /\ Pairs(s)[k] = s[i][2]
        BY <2>6
      <3> DEFINE v == t[i][2]
      <3>2. Pairs(s)[k] = IF v = Absent THEN Get(os, k) ELSE v
        BY <2>4, <3>1
      <3>3. v = Absent /\ k \in DOMAIN os => Get(dot, k) = Absent
        BY <2>5, <3>1
      <3>4. Pairs(t)[k] = v
        BY <3>1
      <3> HIDE DEF v
      <3>5. k \notin DOMAIN os => Get(os, k) = Absent
        BY DEF Get
      <3>6. QED
        BY <3>2, <3>3, <3>4, <3>5 DEF Or
    <2>8. Found(dot, os, Pairs(s)) = Found(dot, os, Pairs(t))
      BY <2>6, <2>7 DEF Found
    <2>9. QED
      BY <1>1, <2>2, <2>3, <2>8 DEF dot, os, node
  <1>5. QED
    BY <1>3, <1>4

-----------------------------------------------------------------------------
(* Services, projects and stacks in both spellings.                        *)

(* What normalize_service reads of a service.                              *)
LEMMA FieldsAre ==
    ASSUME NEW name, NEW raw, NEW known, NEW os
    PROVE  LET svc == normalize_service(name, raw, known, os)
           IN  /\ svc.image = Get(raw, "image") /\ svc.command = Get(raw, "command")
               /\ svc.entrypoint = Get(raw, "entrypoint")
               /\ svc.env_file = Node(raw, "env_file")
               /\ svc.container_name = Get(raw, "container_name")
               /\ svc.build = normalize_build(Node(raw, "build"))
               /\ svc.depends_on = normalize_depends_on(Node(raw, "depends_on"))
               /\ svc.ports = normalize_ports(Node(raw, "ports"))
               /\ svc.volumes = normalize_volume_mounts(Node(raw, "volumes"))
               /\ svc.networks = normalize_network_attachments(Node(raw, "networks"), known)
               /\ svc.secrets = normalize_service_resources(Node(raw, "secrets"))
               /\ svc.configs = normalize_service_resources(Node(raw, "configs"))
               /\ svc.healthcheck = normalize_healthcheck(Node(raw, "healthcheck"))
               /\ svc.restart = normalize_restart(Node(raw, "restart"), Node(raw, "deploy"))
               /\ svc.replicas = normalize_replicas(raw)
               /\ svc.extra = DOMAIN raw \ KnownKeys
  BY DEF normalize_service

\* Services that differ in their environments at most.
Alike(a, b) ==
    /\ a.image = b.image /\ a.command = b.command /\ a.entrypoint = b.entrypoint
    /\ a.env_file = b.env_file /\ a.container_name = b.container_name /\ a.build = b.build
    /\ a.depends_on = b.depends_on /\ a.ports = b.ports /\ a.volumes = b.volumes
    /\ a.networks = b.networks /\ a.secrets = b.secrets /\ a.configs = b.configs
    /\ a.healthcheck = b.healthcheck /\ a.restart = b.restart /\ a.replicas = b.replicas
    /\ a.extra = b.extra

(* The keys that it does not know.                                         *)
LEMMA ExtraIs ==
    ASSUME NEW name, NEW raw, NEW known, NEW os
    PROVE  normalize_service(name, raw, known, os).extra = DOMAIN raw \ KnownKeys
  BY DEF normalize_service

(* The spellings of a service differ in its environment at most.           *)
LEMMA ServiceAgrees ==
    ASSUME NEW name, NEW raw, NEW known, NEW os,
           ServiceTyped(raw), ~HasOddPort(raw), ~Underscored(raw)
    PROVE  Alike(normalize_service(name, raw, known, os),
                 normalize_service(name, Longhand(raw), known, os))
  <1> DEFINE long == Longhand(raw)
             a == normalize_service(name, raw, known, os)
             b == normalize_service(name, long, known, os)
  <1>1. /\ Get(long, "image") = Get(raw, "image") /\ Get(long, "command") = Get(raw, "command")
        /\ Get(long, "entrypoint") = Get(raw, "entrypoint")
        /\ Get(long, "container_name") = Get(raw, "container_name")
    BY SameKey
  <1>2. /\ Node(long, "env_file") = Node(raw, "env_file") /\ Node(long, "secrets") = Node(raw, "secrets")
        /\ Node(long, "configs") = Node(raw, "configs")
        /\ Node(long, "healthcheck") = Node(raw, "healthcheck")
    BY SameKey
  <1>3. OneShape(Node(raw, "build")) /\ OneShape(Node(raw, "depends_on")) /\ OneShape(Node(raw, "networks"))
    BY DEF ServiceTyped
  <1>4. normalize_build(Node(long, "build")) = normalize_build(Node(raw, "build"))
    BY <1>3, BuildAgrees
  <1>5. normalize_depends_on(Node(long, "depends_on")) = normalize_depends_on(Node(raw, "depends_on"))
    BY <1>3, DependenciesAgree
  <1>6. normalize_ports(Node(long, "ports")) = normalize_ports(Node(raw, "ports"))
    BY PortsAre
  <1>7. normalize_volume_mounts(Node(long, "volumes")) = normalize_volume_mounts(Node(raw, "volumes"))
    BY VolumesAgree
  <1>8. normalize_network_attachments(Node(long, "networks"), known)
           = normalize_network_attachments(Node(raw, "networks"), known)
    BY <1>3, NetworksAgree
  <1>9. normalize_restart(Node(long, "restart"), Node(long, "deploy"))
           = normalize_restart(Node(raw, "restart"), Node(raw, "deploy"))
    BY RestartAgrees
  <1>10. normalize_replicas(long) = normalize_replicas(raw)
    BY ReplicasAgree
  <1>11. DOMAIN long \ KnownKeys = DOMAIN raw \ KnownKeys
    <2>1. DOMAIN long = (DOMAIN raw \ Moved) \cup {"deploy"}
      BY LongFieldsAre
    <2>2. Moved \subseteq KnownKeys /\ "deploy" \in KnownKeys
      BY DEF Moved, KnownKeys
    <2> HIDE DEF long
    <2>3. QED
      BY <2>1, <2>2
  <1> HIDE DEF long, a, b
  <1>12. /\ a.image = b.image /\ a.command = b.command /\ a.entrypoint = b.entrypoint
         /\ a.env_file = b.env_file /\ a.container_name = b.container_name
    BY <1>1, <1>2, FieldsAre DEF a, b
  <1>13. a.build = b.build /\ a.depends_on = b.depends_on /\ a.ports = b.ports /\ a.volumes = b.volumes
    BY <1>4, <1>5, <1>6, <1>7, FieldsAre DEF a, b
  <1>14. /\ a.networks = b.networks /\ a.secrets = b.secrets /\ a.configs = b.configs
         /\ a.healthcheck = b.healthcheck
    BY <1>2, <1>8, FieldsAre DEF a, b
  <1>15. a.restart = b.restart /\ a.replicas = b.replicas /\ a.extra = b.extra
    <2>1. a.restart = b.restart
      BY <1>9, FieldsAre DEF a, b
    <2>2. a.replicas = b.replicas
      BY <1>10, FieldsAre DEF a, b
    <2>3. a.extra = DOMAIN raw \ KnownKeys /\ b.extra = DOMAIN long \ KnownKeys
      BY ExtraIs DEF a, b
    <2>4. QED
      BY <1>11, <2>1, <2>2, <2>3
  <1>16. QED
    BY <1>12, <1>13, <1>14, <1>15 DEF Alike, a, b, long

(* Such services are refused together ...                                  *)
LEMMA AlikeRefused ==
    ASSUME NEW a, NEW b, Alike(a, b)
    PROVE  ServiceRefused(a) <=> ServiceRefused(b)
  BY DEF Alike, ServiceRefused

(* ... and converted to the same configuration.                            *)
LEMMA AlikeConverted ==
    ASSUME NEW a, NEW b, Alike(a, b), NEW volumes, NEW env, NEW backend
    PROVE  compose_service_to_stack_service(a, volumes, env, backend)
              = compose_service_to_stack_service(b, volumes, env, backend)
  BY DEF Alike, compose_service_to_stack_service

\* The stacks that services become: an instance has one of those that have its name.
Outcome(config, replicas) ==
    LET names  == UNION {replicas[s] : s \in DOMAIN config}
        owners == {o \in [names -> DOMAIN config] : \A i \in names : i \in replicas[o[i]]}
    IN  IF \E s \in DOMAIN config : config[s] = Invalid THEN {}
        ELSE {[i \in names |-> config[o[i]]] : o \in owners}

(* compose_project_to_stack is a matter of configurations and replicas.    *)
LEMMA StacksAre ==
    ASSUME NEW p, NEW file, NEW os, NEW backend
    PROVE  compose_project_to_stack(p, file, os, backend) =
              IF UnsupportedProject(p) THEN {}
              ELSE Outcome([s \in DOMAIN p.services |-> Config(p, file, os, backend, s)],
                           [s \in DOMAIN p.services |-> Replicas(p, s)])
  <1> DEFINE D == DOMAIN p.services
             config == [s \in D |-> Config(p, file, os, backend, s)]
             replicas == [s \in D |-> Replicas(p, s)]
             names == Instances(p)
             owners == {o \in [names -> D] : \A i \in names : i \in Replicas(p, o[i])}
             others == {o \in [names -> D] : \A i \in names : i \in replicas[o[i]]}
  <1>1. compose_project_to_stack(p, file, os, backend) =
           IF UnsupportedProject(p) \/ \E s \in DOMAIN config : config[s] = Invalid
           THEN {} ELSE {[i \in names |-> config[o[i]]] : o \in owners}
    BY DEF compose_project_to_stack, Config, Instances, Replicas
  <1>2. names = UNION {replicas[s] : s \in D} /\ DOMAIN config = D
    BY DEF Instances
  <1>3. \A s \in D : replicas[s] = Replicas(p, s)
    OBVIOUS
  <1> HIDE DEF D, names, replicas
  <1>4. owners = others
    BY <1>3
  <1> HIDE DEF config
  <1>5. Outcome(config, replicas) =
           IF \E s \in DOMAIN config : config[s] = Invalid THEN {}
           ELSE {[i \in names |-> config[o[i]]] : o \in others}
    BY <1>2 DEF Outcome
  <1> HIDE DEF owners, others
  <1>6. QED
    BY <1>1, <1>4, <1>5 DEF config, replicas, D

(* Projects of such services become the same stacks.                       *)
LEMMA StacksAgree ==
    ASSUME NEW p, NEW q, NEW file, NEW other, NEW os, NEW backend,
           DOMAIN q.services = DOMAIN p.services, q.networks = p.networks, q.volumes = p.volumes,
           \A s \in DOMAIN p.services :
              /\ Alike(p.services[s], q.services[s])
              /\ compose_environment(file, os, p.services[s])
                    = compose_environment(other, os, q.services[s])
    PROVE  compose_project_to_stack(p, file, os, backend)
              = compose_project_to_stack(q, other, os, backend)
  <1> DEFINE D == DOMAIN p.services
  <1>1. ASSUME NEW s \in D PROVE Config(p, file, os, backend, s) = Config(q, other, os, backend, s)
    BY AlikeConverted DEF Config
  <1>2. ASSUME NEW s \in D PROVE Replicas(p, s) = Replicas(q, s)
    BY DEF Replicas, Alike
  <1>3. UnsupportedProject(p) <=> UnsupportedProject(q)
    <2> DEFINE Bad(svc) == \/ svc.replicas = 0
                           \/ svc.replicas > 1 /\ compose_port_strings(svc.ports) # <<>>
                           \/ svc.replicas > 1 /\ svc.container_name # Absent
    <2>1. ASSUME NEW s \in D PROVE Bad(p.services[s]) <=> Bad(q.services[s])
      BY DEF Alike
    <2>2. QED
      BY <2>1 DEF UnsupportedProject
  <1>4. [s \in DOMAIN p.services |-> Config(p, file, os, backend, s)]
           = [s \in DOMAIN q.services |-> Config(q, other, os, backend, s)]
    BY <1>1
  <1>5. [s \in DOMAIN p.services |-> Replicas(p, s)] = [s \in DOMAIN q.services |-> Replicas(q, s)]
    BY <1>2
  <1>6. QED
    BY <1>3, <1>4, <1>5, StacksAre

\* The file in its long spelling.
LongFile(in) == [in.file EXCEPT !.services =
                    [n \in DOMAIN in.file.services |-> Longhand(RawOf(in.file, n))]]

(* The long file differs from the file in the spelling of its services.    *)
LEMMA LongFileIs ==
    ASSUME NEW in \in Inputs, in.kind = "compose"
    PROVE  LET file == in.file
               long == LongFile(in)
           IN  /\ long.name = file.name /\ long.references = file.references
               /\ long.dotenv = file.dotenv /\ long.env_files = file.env_files
               /\ long.networks = file.networks /\ long.volumes = file.volumes
               /\ DOMAIN long.services = DOMAIN file.services
               /\ \A s \in DOMAIN file.services :
                     /\ ServiceTyped(RawOf(file, s))
                     /\ RawOf(long, s) = Longhand(RawOf(file, s))
  <1> DEFINE file == in.file
             long == LongFile(in)
             services == [n \in DOMAIN file.services |-> Longhand(RawOf(file, n))]
  <1>1. FileKeys \subseteq DOMAIN file /\ \A s \in DOMAIN file.services : ServiceTyped(RawOf(file, s))
    BY StackFileAssumption DEF ComposeTyped, RawOf
  <1>2. long = [file EXCEPT !.services = services]
    BY DEF LongFile
  <1> HIDE DEF services
  <1>3. /\ long.name = file.name /\ long.references = file.references
        /\ long.dotenv = file.dotenv /\ long.env_files = file.env_files
        /\ long.networks = file.networks /\ long.volumes = file.volumes
        /\ long.services = services
    <2>1. /\ "name" \in DOMAIN file /\ "references" \in DOMAIN file /\ "dotenv" \in DOMAIN file
          /\ "env_files" \in DOMAIN file /\ "networks" \in DOMAIN file
          /\ "volumes" \in DOMAIN file /\ "services" \in DOMAIN file
      BY <1>1 DEF FileKeys
    <2> HIDE DEF long, file
    <2>2. QED
      BY <1>2, <2>1
  <1> HIDE DEF long
  <1>4. ASSUME NEW s \in DOMAIN file.services
        PROVE  RawOf(long, s) = Longhand(RawOf(file, s))
    <2> DEFINE raw == RawOf(file, s)
    <2>1. long.services[s] = Longhand(raw)
      BY <1>3, <1>4 DEF services
    <2>2. "<<" \notin DOMAIN raw
      BY <1>1, <1>4 DEF ServiceTyped
    <2>3. "<<" \notin DOMAIN Longhand(raw)
      <3> HIDE DEF raw
      <3>1. DOMAIN Longhand(raw) = (DOMAIN raw \ Moved) \cup {"deploy"}
        BY LongFieldsAre
      <3>2. QED
        BY <2>2, <3>1
    <2>4. RawOf(long, s) = expand_yaml_merge_keys(Longhand(raw))
      <3> HIDE DEF raw
      <3>1. QED
        BY <2>1 DEF RawOf
    <2> HIDE DEF raw
    <2>5. expand_yaml_merge_keys(Longhand(raw)) = Longhand(raw)
      BY <2>3 DEF expand_yaml_merge_keys
    <2>6. QED
      BY <2>4, <2>5 DEF raw
  <1>5. DOMAIN long.services = DOMAIN file.services
    BY <1>3 DEF services
  <1>6. QED
    BY <1>1, <1>3, <1>4, <1>5 DEF long

(* The meaning of a file is what it becomes.                               *)
LEMMA MeaningIs ==
    ASSUME NEW in \in Inputs, in.kind = "compose", ~KnownDifference(in)
    PROVE  Meaning(in) = UNION {StacksOf(p, in) : p \in ProjectsOf(in)}
  <1> DEFINE file == in.file
             os == in.os
             C == Chosen(file, in.profiles)
             backend == effective_backend(in.backend, "native")
             long == LongFile(in)
             A(s) == ServiceOf(file, os, s)
             B(s) == ServiceOf(long, os, s)
             p == [name |-> file.name, services |-> [s \in C |-> A(s)],
                   networks |-> NetworksOf(file),
                   volumes |-> normalize_resources(file.volumes, file.name)]
             q == [name |-> file.name, services |-> [s \in C |-> B(s)],
                   networks |-> NetworksOf(file),
                   volumes |-> normalize_resources(file.volumes, file.name)]
  <1>1. Meaning(in) = UNION {compose_project_to_stack(r, long, os, backend) :
                                r \in load_compose_file(long, in.profiles, os)}
    BY DEF Meaning, LongFile, RawOf
  <1>2. /\ long.name = file.name /\ long.references = file.references
        /\ long.dotenv = file.dotenv /\ long.env_files = file.env_files
        /\ long.networks = file.networks /\ long.volumes = file.volumes
        /\ DOMAIN long.services = DOMAIN file.services
        /\ \A s \in DOMAIN file.services :
              /\ ServiceTyped(RawOf(file, s)) /\ RawOf(long, s) = Longhand(RawOf(file, s))
    BY LongFileIs
  <1>3. \A s \in DOMAIN file.services : LET raw == RawOf(file, s)
           IN  ~TwiceSet(in, raw) /\ ~HasOddPort(raw) /\ ~Underscored(raw)
    BY DEF KnownDifference, RawOf
  <1> HIDE DEF long
  <1>4. NetworksOf(long) = NetworksOf(file) /\ TextOf(long, os) = TextOf(file, os)
    BY <1>2 DEF NetworksOf, TextOf
  <1>5. Chosen(long, in.profiles) = C
    <2>1. ASSUME NEW s \in DOMAIN file.services
          PROVE  InProfile(RawOf(long, s), in.profiles) <=> InProfile(RawOf(file, s), in.profiles)
      <3> DEFINE raw == RawOf(file, s)
      <3>1. RawOf(long, s) = Longhand(raw)
        BY <1>2
      <3> HIDE DEF raw
      <3>2. Get(Longhand(raw), "profiles") = Get(raw, "profiles")
        BY SameKey
      <3>3. QED
        BY <3>1, <3>2 DEF InProfile, raw
    <2>2. QED
      BY <1>2, <2>1 DEF Chosen
  <1>6. ASSUME NEW s \in C PROVE Alike(A(s), B(s))
    <2> DEFINE raw == RawOf(file, s)
    <2>1. s \in DOMAIN file.services
      BY DEF Chosen
    <2>2. ServiceTyped(raw) /\ RawOf(long, s) = Longhand(raw) /\ ~HasOddPort(raw) /\ ~Underscored(raw)
      BY <1>2, <1>3, <2>1
    <2>3. A(s) = normalize_service(s, raw, NetworksOf(file), os)
          /\ B(s) = normalize_service(s, Longhand(raw), NetworksOf(file), os)
      BY <1>4, <2>2 DEF ServiceOf
    <2> HIDE DEF raw, A, B
    <2>4. QED
      BY <2>2, <2>3, ServiceAgrees
  <1>7. ASSUME NEW s \in C
        PROVE  compose_environment(file, os, A(s)) = compose_environment(long, os, B(s))
    <2> DEFINE raw == RawOf(file, s)
               a == A(s)
               b == B(s)
               dot == DotOf(file)
    <2>1. s \in DOMAIN file.services
      BY DEF Chosen
    <2>2. ServiceTyped(raw) /\ RawOf(long, s) = Longhand(raw) /\ ~TwiceSet(in, raw)
      BY <1>2, <1>3, <2>1
    <2>3. a = normalize_service(s, raw, NetworksOf(file), os)
          /\ b = normalize_service(s, Longhand(raw), NetworksOf(file), os)
      BY <1>4, <2>2 DEF ServiceOf
    <2>4. a.env_file = b.env_file
      BY <1>6 DEF Alike
    <2>5. DotOf(long) = dot /\ long.env_files = file.env_files
      BY <1>2 DEF DotOf
    <2>6. Found(dot, os, normalize_environment(Node(raw, "environment"), os))
             = Found(dot, os, normalize_environment(Node(Longhand(raw), "environment"), os))
      BY <2>2, FoundAgrees
    <2> HIDE DEF raw, a, b, A, B, dot
    <2>7. a.environment = normalize_environment(Node(raw, "environment"), os)
          /\ b.environment = normalize_environment(Node(Longhand(raw), "environment"), os)
      BY <2>3, ServiceIs
    <2>8. compose_environment(file, os, a) = EnvOf(file.env_files, a.env_file, Found(dot, os, a.environment))
      BY ComposedEnvironment DEF dot
    <2>9. compose_environment(long, os, b) = EnvOf(file.env_files, b.env_file, Found(dot, os, b.environment))
      BY <2>5, ComposedEnvironment
    <2>10. QED
      BY <2>4, <2>6, <2>7, <2>8, <2>9 DEF a, b
  <1>8. compose_project_to_stack(p, file, os, backend) = compose_project_to_stack(q, long, os, backend)
    <2>1. DOMAIN p.services = C /\ DOMAIN q.services = C
          /\ \A s \in C : p.services[s] = A(s) /\ q.services[s] = B(s)
      OBVIOUS
    <2>2. q.networks = p.networks /\ q.volumes = p.volumes
      OBVIOUS
    <2> HIDE DEF p, q, A, B, C, backend
    <2>3. \A s \in DOMAIN p.services :
              /\ Alike(p.services[s], q.services[s])
              /\ compose_environment(file, os, p.services[s])
                    = compose_environment(long, os, q.services[s])
      BY <1>6, <1>7, <2>1
    <2>4. QED
      BY <2>1, <2>2, <2>3, StacksAgree
  <1>9. ProjectsOf(in) = IF \/ TextOf(file, os) = Invalid
                            \/ \E s \in C : ServiceRefused(A(s))
                         THEN {} ELSE {p}
    BY ProjectIs DEF ProjectsOf
  <1>10. load_compose_file(long, in.profiles, os) =
            IF \/ TextOf(file, os) = Invalid
               \/ \E s \in C : ServiceRefused(B(s))
            THEN {} ELSE {q}
    <2>1. load_compose_file(long, in.profiles, os) =
             IF \/ TextOf(long, os) = Invalid
                \/ \E s \in Chosen(long, in.profiles) : ServiceRefused(ServiceOf(long, os, s))
             THEN {} ELSE {[name |-> long.name,
                            services |-> [s \in Chosen(long, in.profiles) |-> ServiceOf(long, os, s)],
                            networks |-> NetworksOf(long),
                            volumes |-> normalize_resources(long.volumes, long.name)]}
      BY ProjectIs
    <2>2. QED
      BY <1>2, <1>4, <1>5, <2>1
  <1>11. \A s \in C : ServiceRefused(A(s)) <=> ServiceRefused(B(s))
    <2> HIDE DEF A, B, C
    <2>1. QED
      BY <1>6, AlikeRefused
  <1> HIDE DEF p, q, A, B, C
  <1>12. StacksOf(p, in) = compose_project_to_stack(p, file, os, backend)
    BY DEF StacksOf
  <1> HIDE DEF backend
  <1>13. QED
    BY <1>1, <1>8, <1>9, <1>10, <1>11, <1>12

LEMMA FlowSpellings == Flow => SpellingsAgree
  <1>1. SUFFICES ASSUME Flow, input.kind = "compose", ~KnownDifference(input)
                 PROVE  /\ stage \in {"converted", "valid", "refused"} => stack \in Meaning(input)
                        /\ stage = "unreadable" => Meaning(input) = {}
    BY DEF SpellingsAgree
  <1>2. input \in Inputs
    BY <1>1 DEF Flow
  <1>3. Meaning(input) = UNION {StacksOf(p, input) : p \in ProjectsOf(input)}
    BY <1>1, <1>2, MeaningIs
  <1>4. stage \in {"converted", "valid", "refused"} =>
           project \in ProjectsOf(input) /\ stack \in StacksOf(project, input)
    BY <1>1 DEF Flow
  <1>5. stage = "unreadable" => \A p \in ProjectsOf(input) : StacksOf(p, input) = {}
    BY <1>1 DEF Flow
  <1>6. QED
    BY <1>3, <1>4, <1>5

(* The short and the long spelling of a file mean the same to the code     *)
(* (compose, 440-1090), or both are refused, for files of any size; but    *)
(* for the differences that are known.                                     *)
THEOREM SpellingsStayAgreed == Spec => []SpellingsAgree
  BY FlowHolds, FlowSpellings, PTL

-----------------------------------------------------------------------------
(* What is published.                                                      *)

(* The ports of an item are those it writes ...                            *)
LEMMA ItemWrites ==
    ASSUME NEW item, PortItemTyped(item), ~PortRefused(item)
    PROVE  /\ IsTuple(ItemPorts(item))
           /\ \A p \in ToSet(ItemPorts(item)) : p.published # Absent /\ p.protocol # "udp"
                  => Writes(item, p.published, p.target)
  <1>1. CASE Has(item, "text")
    <2> DEFINE s == item.text
               t == s.target.range
               h == s.published.range
               n == t[2] - t[1] + 1
               found == PublishedRange(s)
               host(i) == IF found = Absent THEN Absent ELSE Min({found[1] + i - 1, found[2]})
               P == [i \in 1 .. n |-> Port(s.ip, host(i), t[1] + i - 1, s.protocol)]
    <2>1. PortTextTyped(s) /\ ~PortStringRefused(s)
      BY <1>1 DEF PortItemTyped, PortRefused
    <2> HIDE DEF s
    <2>2. /\ Has(s.target, "range") /\ t \in Int \X Int /\ t[1] <= t[2]
          /\ parse_port_range(s.target) = t
      BY <2>1 DEF PortStringRefused, parse_port_range, PortTextTyped, PartTyped
    <2>3. n \in Nat
      BY <2>2
    <2>4. found # Absent => /\ s.published # Absent /\ Has(s.published, "range") /\ found = h
                            /\ h \in Int \X Int /\ h[1] <= h[2]
      BY <2>1 DEF PublishedRange, parse_port_range, PortTextTyped, PartTyped
    <2>5. ItemPorts(item) = P
      BY <1>1, <2>2 DEF ItemPorts, parse_port_string, s
    <2> HIDE DEF t, h, found
    <2>6. ASSUME NEW i \in 1 .. n, host(i) # Absent, s.protocol # "udp"
          PROVE  Writes(item, host(i), t[1] + i - 1)
      <3>1. found # Absent
        BY <2>6
      <3> DEFINE x == found[1] + i - 1
                 y == found[2]
                 z == t[1] + i - 1
      <3>2. x \in Int /\ y \in Int /\ h[1] <= x /\ h[1] <= y /\ y = h[2]
        BY <2>3, <2>4, <3>1
      <3>3. host(i) = Min({x, y})
        BY <3>1
      <3>4. t[1] <= z /\ z <= t[2]
        BY <2>2
      <3> HIDE DEF x, y, z, host
      <3>5. host(i) \in {x, y} /\ host(i) <= y
        BY <3>2, <3>3, MinTwo DEF MinOfTwo
      <3>6. h[1] <= host(i) /\ host(i) <= h[2]
        BY <3>2, <3>5
      <3>7. s.published # Absent /\ Has(s.published, "range")
        BY <2>4, <3>1
      <3>8. Writes(item, host(i), z)
        BY <1>1, <2>2, <2>6, <3>4, <3>6, <3>7 DEF Writes, s, t, h
      <3>9. QED
        BY <3>8 DEF z
    <2>7. P = [i \in 1 .. n |-> P[i]]
      OBVIOUS
    <2>8. ASSUME NEW p \in ToSet(P), p.published # Absent, p.protocol # "udp"
          PROVE  Writes(item, p.published, p.target)
      <3>1. PICK i \in 1 .. n : p = Port(s.ip, host(i), t[1] + i - 1, s.protocol)
        BY DEF ToSet
      <3> HIDE DEF host, n, P
      <3>2. p.published = host(i) /\ p.target = t[1] + i - 1 /\ p.protocol = s.protocol
        BY <3>1 DEF Port
      <3>3. QED
        BY <2>6, <2>8, <3>2
    <2> HIDE DEF P, n
    <2>9. IsTuple(P)
      BY <2>3, <2>7, TupleIs
    <2>10. QED
      BY <2>5, <2>8, <2>9
  <1>2. CASE ~Has(item, "text")
    <2> DEFINE m == item.map
               q == Port(Get(m, "host_ip"), as_i64(Node(m, "published")), as_i64(Node(m, "target")),
                         Or(Get(m, "protocol"), "tcp"))
    <2>1. Has(item, "map") /\ ~PortMappingRefused(m) /\ ItemPorts(item) = <<q>>
      BY <1>2 DEF PortRefused, ItemPorts, PortMapping
    <2>2. /\ q.published = as_i64(Node(m, "published")) /\ q.target = as_i64(Node(m, "target"))
          /\ q.protocol = Or(Get(m, "protocol"), "tcp")
      BY DEF Port
    <2>3. q.target # Absent
      BY <2>1, <2>2 DEF PortMappingRefused
    <2> HIDE DEF q
    <2>4. IsTuple(<<q>>) /\ ToSet(<<q>>) = {q}
      BY DEF IsTuple, ToSet
    <2>5. q.published # Absent /\ q.protocol # "udp" => Writes(item, q.published, q.target)
      BY <1>2, <2>1, <2>2, <2>3 DEF Writes, as_i64
    <2>6. QED
      BY <2>1, <2>4, <2>5
  <1>3. QED
    BY <1>1, <1>2

(* ... and those of one that is not odd are the ones of its entries.       *)
LEMMA EntriesAre ==
    ASSUME NEW item, PortItemTyped(item), ~PortRefused(item), ~OddPort(item),
           NEW e \in PublishedEntries(item)
    PROVE  \E p \in ToSet(ItemPorts(item)) :
              /\ p.published = e.map.published.number /\ p.published # Absent
              /\ p.target = e.map.target.number
              /\ p.protocol = Or(Get(e.map, "protocol"), "tcp")
  <1> DEFINE long == LongEntries(item)
             p == PortOf(e.map)
             published == Node(e.map, "published")
             target == Node(e.map, "target")
  <1>1. SamePorts(item, long)
    BY PlainPorts
  <1>2. e \in ToSet(long) /\ "published" \in DOMAIN e.map
    BY DEF PublishedEntries
  <1> HIDE DEF long
  <1>3. PICK j \in DOMAIN long : e = long[j]
    BY <1>2 DEF ToSet
  <1>4. IsEntry(e) /\ ~PortRefused(e)
    BY <1>1, <1>3 DEF SamePorts
  <1>5. p \in ToSet(ItemPorts(item))
    <2>1. ItemPorts(item) = [k \in DOMAIN long |-> PortOf(long[k].map)]
      BY <1>1 DEF SamePorts
    <2>2. QED
      BY <1>3, <2>1 DEF ToSet
  <1>6. published = e.map.published /\ as_i64(published) = e.map.published.number
        /\ as_i64(published) # Absent
    BY <1>2, <1>4, ComposeFileAssumption DEF IsEntry, Node, as_i64
  <1>7. as_i64(target) # Absent
    BY <1>4 DEF IsEntry, PortRefused, PortMappingRefused
  <1>8. as_i64(target) = e.map.target.number
    BY <1>7 DEF as_i64, Node, Has
  <1>9. /\ p.published = as_i64(published) /\ p.target = as_i64(target)
        /\ p.protocol = Or(Get(e.map, "protocol"), "tcp")
    BY DEF PortOf, Port
  <1> HIDE DEF p, published, target
  <1>10. QED
    BY <1>5, <1>6, <1>8, <1>9

(* The ports of a service are those of its items.                          *)
LEMMA NormalizedAre ==
    ASSUME NEW items, IsSeq(items), \A i \in DOMAIN items : PortItemTyped(items[i]),
           normalize_ports(items) # Invalid
    PROVE  LET ports == normalize_ports(items)
           IN  /\ IsTuple(ports) /\ \A i \in DOMAIN items : ~PortRefused(items[i])
               /\ \A p : p \in ToSet(ports) <=> \E i \in DOMAIN items : p \in ToSet(ItemPorts(items[i]))
  <1> DEFINE n == Len(items)
             tt == [i \in 1 .. n |-> ItemPorts(items[i])]
  <1>1. n \in Nat /\ DOMAIN items = 1 .. n
    BY DEF IsSeq
  <1>2. ~Refusal(items) /\ normalize_ports(items) = FlattenSeq(tt)
    BY <1>1, NormalizedPorts
  <1>3. \A i \in 1 .. n : ~PortRefused(items[i]) /\ tt[i] = ItemPorts(items[i])
    BY <1>1, <1>2 DEF Refusal
  <1>4. tt = [i \in 1 .. n |-> tt[i]]
    OBVIOUS
  <1> HIDE DEF n, tt
  <1>5. \A i \in 1 .. n : IsTuple(tt[i])
    BY <1>1, <1>3, ItemWrites
  <1>6. /\ IsTuple(FlattenSeq(tt))
        /\ \A p : p \in ToSet(FlattenSeq(tt)) <=> \E i \in 1 .. n : p \in ToSet(tt[i])
    BY <1>1, <1>4, <1>5, FlattenTuples
  <1>7. QED
    BY <1>1, <1>2, <1>3, <1>6

LEMMA FlowPorts == Flow => PublishedAsWritten
  <1> DEFINE listeners(s) == Listeners(stack[s])
             itemsOf(s) == Node(RawOf(input.file, s), "ports")
             opened(s) == {<<l.host_port, l.container_port>> : l \in ToSet(listeners(s))}
  <1>1. SUFFICES ASSUME Flow, Loaded, ~NamesClash, NEW s \in DOMAIN project.services,
                        listeners(s) # Invalid
                 PROVE  /\ \A i \in DOMAIN itemsOf(s) : ~OddPort(itemsOf(s)[i]) =>
                              \A e \in PublishedEntries(itemsOf(s)[i]) :
                                  /\ <<e.map.published.number, e.map.target.number>> \in opened(s)
                                  /\ Or(Get(e.map, "protocol"), "tcp") # "udp"
                        /\ \A o \in opened(s) : \E i \in DOMAIN itemsOf(s) :
                              Writes(itemsOf(s)[i], o[1], o[2])
    BY DEF PublishedAsWritten, RawOf
  <1> DEFINE backend == effective_backend(input.backend, "native")
             svc == project.services[s]
             raw == RawOf(input.file, s)
             items == itemsOf(s)
             ports == stack[s].ports
             mappings == Mapped(ports, parse_port_mapping)
  <1>2. /\ input \in Inputs /\ input.kind = "compose"
        /\ project \in ProjectsOf(input)
        /\ stack \in compose_project_to_stack(project, input.file, input.os, backend)
        /\ Scaled(project) /\ ~Clash(project)
    BY <1>1, LoadedIs
  <1> HIDE DEF backend
  <1>3. ports = compose_port_strings(svc.ports)
    <2>1. stack[s] = Config(project, input.file, input.os, backend, s) /\ stack[s] # Invalid
      BY <1>2, ServiceRuns, StackIs
    <2>2. QED
      BY <2>1, ConfigIs DEF Config
  <1>4. ServiceTyped(raw) /\ svc.ports = normalize_ports(items) /\ svc.ports # Invalid
    <2>1. /\ ServiceTyped(raw) /\ ~ServiceRefused(svc)
          /\ svc = normalize_service(s, raw, project.networks, input.os)
      BY <1>2, ServicesAreTyped
    <2> HIDE DEF svc, raw
    <2>2. svc.ports = normalize_ports(Node(raw, "ports"))
      BY <2>1, FieldsAre
    <2>3. QED
      BY <2>1, <2>2 DEF ServiceRefused, raw
  <1>5. IsSeq(items) /\ \A i \in DOMAIN items : PortItemTyped(items[i])
    BY <1>4 DEF ServiceTyped
  <1>6. /\ IsTuple(svc.ports) /\ \A i \in DOMAIN items : ~PortRefused(items[i])
        /\ \A p : p \in ToSet(svc.ports) <=> \E i \in DOMAIN items : p \in ToSet(ItemPorts(items[i]))
    <2> HIDE DEF svc, items
    <2>1. QED
      BY <1>4, <1>5, NormalizedAre
  <1>7. IsTuple(ports) /\ \A p : p \in ToSet(ports) <=> p \in ToSet(svc.ports) /\ p.published # Absent
    BY <1>3, <1>6, PublishedAre
  <1>8. /\ listeners(s) = mappings /\ Invalid \notin ToSet(mappings)
        /\ \A i \in DOMAIN ports : ~is_udp_port(ports[i])
    BY <1>1 DEF Listeners
  <1> HIDE DEF svc, raw, ports, listeners
  <1>9. ASSUME NEW p \in ToSet(ports)
        PROVE  /\ parse_port_mapping(p) \in ToSet(mappings)
               /\ parse_port_mapping(p).host_port = p.published
               /\ parse_port_mapping(p).container_port = p.target
               /\ p.protocol # "udp"
    <2>1. PICK i \in DOMAIN ports : p = ports[i]
      BY DEF ToSet
    <2>2. parse_port_mapping(p) \in ToSet(mappings) /\ parse_port_mapping(p) # Invalid
      BY <1>8, <2>1 DEF Mapped, ToSet
    <2>3. QED
      BY <1>8, <2>1, <2>2 DEF parse_port_mapping, is_udp_port
  <1>10. ASSUME NEW l \in ToSet(mappings)
         PROVE  \E p \in ToSet(ports) : l = parse_port_mapping(p)
    BY DEF Mapped, ToSet
  <1> HIDE DEF mappings, items
  <1>11. ASSUME NEW i \in DOMAIN items, ~OddPort(items[i]), NEW e \in PublishedEntries(items[i])
         PROVE  /\ <<e.map.published.number, e.map.target.number>> \in opened(s)
                /\ Or(Get(e.map, "protocol"), "tcp") # "udp"
    <2>1. PICK p \in ToSet(ItemPorts(items[i])) :
             /\ p.published = e.map.published.number /\ p.published # Absent
             /\ p.target = e.map.target.number
             /\ p.protocol = Or(Get(e.map, "protocol"), "tcp")
      BY <1>5, <1>6, <1>11, EntriesAre
    <2>2. p \in ToSet(ports)
      BY <1>6, <1>7, <2>1
    <2> DEFINE l == parse_port_mapping(p)
    <2>3. l \in ToSet(listeners(s)) /\ l.host_port = p.published /\ l.container_port = p.target
          /\ p.protocol # "udp"
      BY <1>8, <1>9, <2>2
    <2> HIDE DEF l
    <2>4. QED
      BY <2>1, <2>3
  <1>12. ASSUME NEW o \in opened(s) PROVE \E i \in DOMAIN items : Writes(items[i], o[1], o[2])
    <2>1. PICK l \in ToSet(listeners(s)) : o = <<l.host_port, l.container_port>>
      OBVIOUS
    <2>2. PICK p \in ToSet(ports) : l = parse_port_mapping(p)
      BY <1>8, <1>10, <2>1
    <2>3. o[1] = p.published /\ o[2] = p.target /\ p.protocol # "udp"
      BY <1>9, <2>1, <2>2
    <2>4. p.published # Absent
      BY <1>7, <2>2
    <2>5. PICK i \in DOMAIN items : p \in ToSet(ItemPorts(items[i]))
      BY <1>6, <1>7, <2>2
    <2>6. Writes(items[i], p.published, p.target)
      BY <1>5, <1>6, <2>3, <2>4, <2>5, ItemWrites
    <2>7. QED
      BY <2>3, <2>6
  <1>13. QED
    BY <1>11, <1>12 DEF items

(* Every published port of a file has a listener in a service that starts, *)
(* and none is a UDP port, unless its item is odd; and no other port is    *)
(* opened, whatever the items are (hyperv, 3329-3380).                     *)
THEOREM PublishedStaysAsWritten == Spec => []PublishedAsWritten
  BY FlowHolds, FlowPorts, PTL
=============================================================================
