--------------------------- MODULE StackRunProofs ---------------------------
(* Theorems about StackRun, for all stacks, commands and services. *)
EXTENDS StackRun, FiniteSetTheorems, Induction, TLAPS

-----------------------------------------------------------------------------
(* Sequences, dependencies and delays. *)

LEMMA HeadAndTail ==
    ASSUME NEW S, NEW q \in Seq(S), q # <<>>
    PROVE  /\ Head(q) \in S /\ Tail(q) \in Seq(S)
           /\ ToSet(q) = {Head(q)} \cup ToSet(Tail(q))
  <1>1. Len(q) \in Nat \ {0} /\ q = [i \in 1 .. Len(q) |-> q[i]]
    OBVIOUS
  <1>2. Head(q) \in S /\ Tail(q) \in Seq(S)
    OBVIOUS
  <1>3. /\ Head(q) = q[1]
        /\ Len(Tail(q)) = Len(q) - 1
        /\ \A i \in 1 .. Len(q) - 1 : Tail(q)[i] = q[i + 1]
        /\ DOMAIN q = 1 .. Len(q) /\ DOMAIN Tail(q) = 1 .. Len(q) - 1
    BY <1>1
  <1>4. ASSUME NEW x \in ToSet(q) PROVE x = Head(q) \/ x \in ToSet(Tail(q))
    <2>1. PICK i \in 1 .. Len(q) : x = q[i]
      BY <1>3, <1>4 DEF ToSet
    <2>2. CASE i = 1
      BY <2>1, <2>2, <1>3
    <2>3. CASE i # 1
      <3>1. i - 1 \in 1 .. Len(q) - 1 /\ Tail(q)[i - 1] = x
        BY <2>1, <2>3, <1>1, <1>3
      <3>2. QED
        BY <3>1, <1>3 DEF ToSet
    <2>4. QED
      BY <2>2, <2>3
  <1>5. Head(q) \in ToSet(q)
    <2>1. 1 \in DOMAIN q
      BY <1>1, <1>3
    <2>2. QED
      BY <2>1, <1>3 DEF ToSet
  <1>6. ASSUME NEW x \in ToSet(Tail(q)) PROVE x \in ToSet(q)
    <2>1. PICK i \in 1 .. Len(q) - 1 : x = Tail(q)[i]
      BY <1>3, <1>6 DEF ToSet
    <2>2. i + 1 \in DOMAIN q /\ x = q[i + 1]
      BY <2>1, <1>1, <1>3
    <2>3. QED
      BY <2>2 DEF ToSet
  <1>7. QED
    BY <1>2, <1>4, <1>5, <1>6

LEMMA EmptyToSet == ToSet(<<>>) = {}
  BY DEF ToSet

LEMMA StackTyped ==
    ASSUME NEW st \in Stacks
    PROVE  DOMAIN st \subseteq Services /\ \A s \in DOMAIN st : st[s] \in Service
  BY StackRunAssumption DEF Stacks

LEMMA PollsTyped == 0 \in 0 .. Polls
  BY StackRunAssumption

LEMMA CommandTyped == Commands \subseteq Command
  BY StackRunAssumption DEF Commands

LEMMA TargetsTyped == \A cmd \in Commands : cmd.targets \in Seq(Services)
  BY CommandTyped DEF Command

LEMMA SpecsTyped ==
    ASSUME NEW st \in Stacks, NEW s \in DOMAIN st
    PROVE  dependency_specs(st[s]) \in Seq(Dependency)
  <1>1. st[s] \in Service
    BY StackTyped
  <1>2. CASE st[s].depends_on_conditions # <<>>
    BY <1>1, <1>2 DEF dependency_specs, Service
  <1>3. CASE st[s].depends_on_conditions = <<>>
    <2> DEFINE list == st[s].depends_on
               specs == [i \in DOMAIN list |-> [service |-> list[i],
                            condition |-> "service_started", required |-> TRUE]]
    <2>1. list \in Seq(Services) /\ dependency_specs(st[s]) = specs
      BY <1>1, <1>3 DEF dependency_specs, Service
    <2>2. \A i \in 1 .. Len(list) : specs[i] \in Dependency
      BY <2>1 DEF Dependency, Conditions
    <2>3. DOMAIN list = 1 .. Len(list) /\ Len(list) \in Nat
      BY <2>1
    <2>4. specs \in [1 .. Len(list) -> Dependency]
      BY <2>2, <2>3
    <2>5. QED
      BY <2>1, <2>3, <2>4
  <1>4. QED
    BY <1>2, <1>3

LEMMA DelayTyped ==
    ASSUME NEW svc \in Service, NEW n \in Nat \ {0}
    PROVE  RestartDelay(svc, n) \in 0 .. 300
  <1>1. AtMost(n, 9) \in 1 .. 9
    BY DEF AtMost
  <1>2. Shift[AtMost(n, 9)] \in Nat
    BY <1>1 DEF Shift
  <1>3. svc.restart_backoff_seconds \in Nat
    BY DEF Service
  <1>4. ASSUME NEW p \in Nat, NEW q \in Nat PROVE AtMost(p * q, 300) \in 0 .. 300
    BY DEF AtMost
  <1>5. QED
    BY <1>2, <1>3, <1>4 DEF RestartDelay

-----------------------------------------------------------------------------
(* The order of the services. *)

\* What a visit answers.
Answers == Seq(Services) \cup {Invalid}

Specs(st, name) == IF name \in DOMAIN st THEN dependency_specs(st[name]) ELSE <<>>

\* The body of a visit, with v for the visits it makes itself.
Below(st, v, visiting, acc, dep) ==
    IF acc = Invalid THEN Invalid
    ELSE IF dep.service \in DOMAIN st THEN v[Call(dep.service, acc, visiting)]
    ELSE IF dep.required THEN Invalid ELSE acc

Loop(st, v, visiting, seen, deps) ==
    FoldLeft(LAMBDA acc, dep : Below(st, v, visiting, acc, dep), seen, deps)

Result(st, v, call) == Loop(st, v, call.visiting \cup {call.name}, call.seen, Specs(st, call.name))

Body(st, v, call) ==
    IF call.seen = Invalid THEN Invalid
    ELSE IF call.name \in ToSet(call.seen) THEN call.seen
    ELSE IF call.name \in call.visiting \/ Result(st, v, call) = Invalid THEN Invalid
    ELSE Append(Result(st, v, call), call.name)

\* The loop over n dependencies of a service, step by step.
Keeps(st, v, visiting, deps, n) ==
    \A acc \in Answers, i \in 1 .. n : Below(st, v, visiting, acc, deps[i]) \in Answers
Runs(F, st, v, visiting, seen, deps, n) ==
    /\ F[0] = seen /\ F[n] = Loop(st, v, visiting, seen, deps)
    /\ \A i \in 1 .. n : F[i] = Below(st, v, visiting, F[i - 1], deps[i])

LEMMA LoopSteps ==
    ASSUME NEW st, NEW v, NEW visiting, NEW deps, NEW n \in Nat, DOMAIN deps = 1 .. n,
           NEW seen \in Answers, Keeps(st, v, visiting, deps, n)
    PROVE  \E F \in [0 .. n -> Answers] : Runs(F, st, v, visiting, seen, deps, n)
  <1> DEFINE A == Answers
             Iter(g) == [T \in SUBSET (1 .. n) |-> IF T = {} THEN seen
                 ELSE Below(st, v, visiting, g[T \ {Max(T)}], deps[Max(T)])]
             h == [p \in A \X (1 .. n) |-> Below(st, v, visiting, p[1], deps[p[2]])]
  <1>1. ASSUME NEW T \in SUBSET (1 .. n), T # {} PROVE Max(T) \in T
    <2>1. n \in Nat /\ T \subseteq Nat
      OBVIOUS
    <2>2. QED
      BY <2>1, <1>1, GreatestOf
  <1>2. \E g : g = Iter(g)
    <2>1. StepIn(h, n, A)
      BY DEF StepIn, Keeps
    <2>2. PICK g \in [SUBSET (1 .. n) -> A] : FoldOf(h, n, seen, g)
      <3> HIDE DEF h
      <3>1. QED
        BY <2>1, FoldExists
    <2>3. ASSUME NEW T \in SUBSET (1 .. n) PROVE g[T] = Iter(g)[T]
      <3>1. T # {} => Max(T) \in 1 .. n /\ g[T \ {Max(T)}] \in A
        BY <1>1
      <3>2. QED
        BY <2>2, <3>1 DEF FoldOf
    <2>4. QED
      BY <2>3
  <1> DEFINE it == CHOOSE g : g = Iter(g)
  <1>3. it = Iter(it)
    BY <1>2
  <1>4. Loop(st, v, visiting, seen, deps) = it[1 .. n]
    BY DEF Loop, FoldLeft, MapThenFoldSet
  <1> DEFINE B == A \cup {it[T] : T \in SUBSET (1 .. n)}
             H == [p \in B \X (1 .. n) |-> Below(st, v, visiting, p[1], deps[p[2]])]
  <1>5. FoldOf(H, n, seen, it) /\ \A a \in A, i \in 1 .. n : H[<<a, i>>] = Below(st, v, visiting, a, deps[i])
    <2> HIDE DEF it
    <2>1. ASSUME NEW T \in SUBSET (1 .. n), T # {}
          PROVE  it[T] = H[<<it[T \ {Max(T)}], Max(T)>>]
      <3>1. Max(T) \in 1 .. n /\ it[T \ {Max(T)}] \in B
        BY <1>1, <2>1
      <3>2. it[T] = Iter(it)[T]
        BY <1>3
      <3>3. QED
        BY <2>1, <3>1, <3>2
    <2>2. it[{}] = Iter(it)[{}] /\ {} \in SUBSET (1 .. n)
      BY <1>3
    <2>3. QED
      BY <2>1, <2>2 DEF FoldOf
  <1> HIDE DEF it, H
  <1>6. PICK F \in [0 .. n -> A] : F[0] = seen /\ F[n] = it[1 .. n]
                                   /\ \A i \in 1 .. n : F[i] = H[<<F[i - 1], i>>]
    <2>1. StepIn(H, n, A)
      BY <1>5 DEF StepIn, Keeps
    <2>2. QED
      BY <1>5, <2>1, FoldSteps
  <1>7. ASSUME NEW i \in 1 .. n PROVE F[i] = Below(st, v, visiting, F[i - 1], deps[i])
    <2>1. F[i - 1] \in A
      OBVIOUS
    <2>2. QED
      BY <1>5, <1>6, <2>1
  <1>8. QED
    BY <1>4, <1>6, <1>7 DEF Runs

\* Visits with fewer than k services off the path to them.
Near(k) == {call \in Calls : Cardinality(Services \ call.visiting) < k}

LEMMA CallIs ==
    ASSUME NEW name \in Services, NEW seen \in Answers, NEW visiting \in SUBSET Services
    PROVE  /\ Call(name, seen, visiting) \in Calls
           /\ Call(name, seen, visiting).name = name
           /\ Call(name, seen, visiting).seen = seen
           /\ Call(name, seen, visiting).visiting = visiting
  BY DEF Call, Calls, Answers

LEMMA CallHas ==
    ASSUME NEW call \in Calls
    PROVE  call.name \in Services /\ call.seen \in Answers /\ call.visiting \in SUBSET Services
  BY DEF Calls, Answers

LEMMA SpecsAre ==
    ASSUME NEW st \in Stacks, NEW name
    PROVE  /\ Specs(st, name) \in Seq(Dependency)
           /\ Len(Specs(st, name)) \in Nat /\ DOMAIN Specs(st, name) = 1 .. Len(Specs(st, name))
           /\ \A i \in 1 .. Len(Specs(st, name)) :
                 Specs(st, name)[i] \in Dependency /\ Specs(st, name)[i].service \in Services
  <1>1. Specs(st, name) \in Seq(Dependency)
    BY SpecsTyped DEF Specs
  <1>2. \A dep \in Dependency : dep.service \in Services
    BY DEF Dependency
  <1>3. QED
    BY <1>1, <1>2

\* A visit makes its own visits with one service more on the path.
LEMMA Nearer ==
    ASSUME NEW k \in Nat, NEW call \in Near(k + 1), call.name \notin call.visiting,
           NEW name \in Services, NEW seen \in Answers
    PROVE  Call(name, seen, call.visiting \cup {call.name}) \in Near(k)
  <1>1. call.name \in Services /\ call.visiting \in SUBSET Services
        /\ Cardinality(Services \ call.visiting) < k + 1
    BY CallHas DEF Near
  <1> DEFINE far == Services \ call.visiting
             below == call.visiting \cup {call.name}
  <1>2. IsFiniteSet(far) /\ Cardinality(far) \in Nat
    BY StackRunAssumption, FS_Subset, FS_CardinalityType
  <1>3. Services \ below = far \ {call.name} /\ call.name \in far
    BY <1>1
  <1>4. Cardinality(Services \ below) = Cardinality(far) - 1
    BY <1>2, <1>3, FS_RemoveElement
  <1>5. Cardinality(Services \ below) < k
    BY <1>1, <1>2, <1>4
  <1>6. below \in SUBSET Services
    BY <1>1
  <1> HIDE DEF below
  <1>7. Call(name, seen, below) \in Calls /\ Call(name, seen, below).visiting = below
    BY <1>6, CallIs
  <1>8. Call(name, seen, below) \in Near(k)
    BY <1>5, <1>7 DEF Near
  <1>9. QED
    BY <1>8 DEF below

\* What the visits nearby say decides what the next ones do.
LEMMA BodyDepends ==
    ASSUME NEW st \in Stacks, NEW k \in Nat, NEW v, NEW w,
           \A call \in Near(k) : v[call] = w[call] /\ v[call] \in Answers,
           NEW call \in Near(k + 1)
    PROVE  Body(st, v, call) = Body(st, w, call) /\ Body(st, v, call) \in Answers
  <1>1. call \in Calls
    BY DEF Near
  <1>2. CASE call.seen = Invalid \/ call.name \in ToSet(call.seen) \/ call.name \in call.visiting
    BY <1>1, <1>2, CallHas DEF Body, Answers
  <1>3. CASE call.seen # Invalid /\ call.name \notin call.visiting
    <2> DEFINE deps == Specs(st, call.name)
               n == Len(deps)
               below == call.visiting \cup {call.name}
    <2>1. n \in Nat /\ DOMAIN deps = 1 .. n /\ \A i \in 1 .. n : deps[i].service \in Services
      BY SpecsAre
    <2>2. call.seen \in Answers
      BY <1>1, CallHas
    <2>3. ASSUME NEW acc \in Answers, NEW i \in 1 .. n
          PROVE  /\ Below(st, v, below, acc, deps[i]) = Below(st, w, below, acc, deps[i])
                 /\ Below(st, v, below, acc, deps[i]) \in Answers
      <3>1. Call(deps[i].service, acc, below) \in Near(k)
        BY <1>3, <2>1, Nearer
      <3>2. Invalid \in Answers
        BY DEF Answers
      <3>3. QED
        BY <3>1, <3>2 DEF Below
    <2> HIDE DEF deps, n, below
    <2>4. PICK F \in [0 .. n -> Answers] : Runs(F, st, v, below, call.seen, deps, n)
      <3>1. Keeps(st, v, below, deps, n)
        BY <2>3 DEF Keeps
      <3>2. QED
        BY <2>1, <2>2, <3>1, LoopSteps
    <2>5. PICK G \in [0 .. n -> Answers] : Runs(G, st, w, below, call.seen, deps, n)
      <3>1. Keeps(st, w, below, deps, n)
        BY <2>3 DEF Keeps
      <3>2. QED
        BY <2>1, <2>2, <3>1, LoopSteps
    <2> DEFINE Same == {i \in Nat : i <= n => F[i] = G[i]}
    <2>6. 0 \in Same
      BY <2>4, <2>5 DEF Runs
    <2>7. ASSUME NEW i \in Nat, i \in Same PROVE i + 1 \in Same
      <3>1. SUFFICES ASSUME i + 1 <= n PROVE F[i + 1] = G[i + 1]
        OBVIOUS
      <3>2. i + 1 \in 1 .. n /\ (i + 1) - 1 = i /\ F[i] \in Answers /\ F[i] = G[i]
        BY <2>1, <2>7, <3>1
      <3>3. QED
        BY <2>3, <2>4, <2>5, <3>2 DEF Runs
    <2>8. n \in Same
      <3> HIDE DEF Same
      <3>1. QED
        BY <2>1, <2>6, <2>7, NatSetInduction
    <2>9. Result(st, v, call) = Result(st, w, call) /\ Result(st, v, call) \in Answers
      BY <2>1, <2>4, <2>5, <2>8 DEF Runs, Result, deps, below
    <2>10. Result(st, v, call) # Invalid => Append(Result(st, v, call), call.name) \in Answers
      BY <1>1, <2>9, CallHas DEF Answers
    <2>11. QED
      BY <2>2, <2>9, <2>10 DEF Body, Answers
  <1>4. QED
    BY <1>2, <1>3

\* Every visit is near enough.
LEMMA AllNear == \E k \in Nat : Calls \subseteq Near(k)
  <1>1. Cardinality(Services) \in Nat
    BY StackRunAssumption, FS_CardinalityType
  <1>2. ASSUME NEW call \in Calls PROVE Cardinality(Services \ call.visiting) < Cardinality(Services) + 1
    <2>1. IsFiniteSet(Services) /\ Services \ call.visiting \subseteq Services
      BY StackRunAssumption
    <2>2. Cardinality(Services \ call.visiting) <= Cardinality(Services)
      BY <2>1, FS_Subset
    <2>3. Cardinality(Services \ call.visiting) \in Nat
      BY <2>1, FS_Subset, FS_CardinalityType
    <2>4. QED
      BY <1>1, <2>2, <2>3
  <1>3. QED
    BY <1>1, <1>2 DEF Near

\* The recursion of a visit ends: there are answers that satisfy its equation,
LEMMA VisitExists ==
    ASSUME NEW st \in Stacks
    PROVE  \E v : v = [call \in Calls |-> Body(st, v, call)]
  <1> DEFINE Has(k) == \E v : \A call \in Near(k) :
                             v[call] = Body(st, v, call) /\ v[call] \in Answers
             K == {k \in Nat : Has(k)}
  <1>1. 0 \in K
    <2>1. Near(0) = {}
      <3>1. ASSUME NEW call \in Calls PROVE Cardinality(Services \ call.visiting) \in Nat
        BY StackRunAssumption, FS_Subset, FS_CardinalityType
      <3>2. QED
        BY <3>1 DEF Near
    <2>2. QED
      BY <2>1
  <1>2. ASSUME NEW k \in Nat, k \in K PROVE k + 1 \in K
    <2>1. PICK v : \A call \in Near(k) : v[call] = Body(st, v, call) /\ v[call] \in Answers
      BY <1>2
    <2> DEFINE w == [call \in Calls |-> Body(st, v, call)]
    <2>2. \A call \in Near(k) : v[call] = w[call]
      BY <2>1 DEF Near
    <2>3. \A call \in Near(k + 1) : w[call] = Body(st, v, call)
      BY DEF Near
    <2> HIDE DEF w
    <2>4. ASSUME NEW call \in Near(k + 1)
          PROVE  w[call] = Body(st, w, call) /\ w[call] \in Answers
      BY <2>1, <2>2, <2>3, BodyDepends
    <2>5. QED
      BY <2>4
  <1>3. Nat \subseteq K
    <2> HIDE DEF K
    <2>1. QED
      BY <1>1, <1>2, NatSetInduction
  <1>4. PICK v : \A call \in Calls : v[call] = Body(st, v, call) /\ v[call] \in Answers
    BY <1>3, AllNear
  <1> DEFINE w == [call \in Calls |-> Body(st, v, call)]
  <1>5. ASSUME NEW call \in Calls PROVE w[call] = Body(st, w, call)
    <2>1. PICK k \in Nat : Calls \subseteq Near(k)
      BY AllNear
    <2>2. call \in Near(k + 1)
      <3>1. Cardinality(Services \ call.visiting) \in Nat
        BY StackRunAssumption, FS_Subset, FS_CardinalityType
      <3>2. QED
        BY <2>1, <3>1 DEF Near
    <2>3. \A c \in Near(k) : v[c] = w[c] /\ v[c] \in Answers
      BY <1>4 DEF Near
    <2>4. w[call] = Body(st, v, call)
      OBVIOUS
    <2> HIDE DEF w
    <2>5. QED
      BY <2>2, <2>3, <2>4, BodyDepends
  <1>6. w = [call \in Calls |-> Body(st, w, call)]
    BY <1>5
  <1>7. QED
    BY <1>6

\* so a visit is what its body says, and answers with a list or the error.
LEMMA VisitIs ==
    ASSUME NEW st \in Stacks, NEW call \in Calls
    PROVE  Visit(st)[call] = Body(st, Visit(st), call) /\ Visit(st)[call] \in Answers
  <1> DEFINE u == Visit(st)
  <1>1. u = CHOOSE v : v = [c \in Calls |-> Body(st, v, c)]
    BY DEF Visit, Body, Result, Loop, Below, Specs
  <1>2. u = [c \in Calls |-> Body(st, u, c)]
    <2> HIDE DEF u
    <2>1. QED
      BY <1>1, VisitExists
  <1>3. \A c \in Calls : u[c] = Body(st, u, c)
    BY <1>2
  <1> HIDE DEF u
  <1> DEFINE K == {k \in Nat : \A c \in Near(k) : u[c] \in Answers}
  <1>4. 0 \in K
    <2>1. ASSUME NEW c \in Near(0) PROVE FALSE
      <3>1. Cardinality(Services \ c.visiting) \in Nat /\ Cardinality(Services \ c.visiting) < 0
        BY StackRunAssumption, FS_Subset, FS_CardinalityType DEF Near
      <3>2. QED
        BY <3>1
    <2>2. QED
      BY <2>1
  <1>5. ASSUME NEW k \in Nat, k \in K PROVE k + 1 \in K
    <2>1. ASSUME NEW c \in Near(k + 1) PROVE u[c] \in Answers
      <3>1. \A d \in Near(k) : u[d] = u[d] /\ u[d] \in Answers
        BY <1>5
      <3>2. Body(st, u, c) \in Answers
        BY <3>1, BodyDepends
      <3>3. QED
        BY <1>3, <3>2 DEF Near
    <2>2. QED
      BY <2>1
  <1>6. Nat \subseteq K
    <2> HIDE DEF K
    <2>1. QED
      BY <1>4, <1>5, NatSetInduction
  <1>7. u[call] \in Answers
    BY <1>6, AllNear
  <1>8. QED
    BY <1>3, <1>7 DEF u

\* A list is in order: each service once, after what it depends on, and all of
\* them wanted; none of them waits for a service that is not there.
InOrder(st, T, q) ==
    /\ q \in Seq(Services) /\ IsInjective(q)
    /\ \A i \in 1 .. Len(q) :
            /\ q[i] \in Reachable(st, T)
            /\ q[i] \in DOMAIN st =>
                  /\ \A dep \in Needs(st, q[i]) : \E j \in 1 .. i - 1 : q[j] = dep.service
                  /\ \A dep \in ToSet(dependency_specs(st[q[i]])) :
                        dep.required => dep.service \in DOMAIN st

\* An answer, given the services that had been placed and those on the path.
Sound(st, T, seen, visiting, answer) ==
    IF answer = Invalid THEN Unsortable(st, T)
    ELSE /\ InOrder(st, T, answer)
         /\ ToSet(seen) \subseteq ToSet(answer)
         /\ ToSet(answer) \cap visiting \subseteq ToSet(seen)

\* The path to a visit: each service on it depends on another of it, or on name.
Path(st, T, visiting, name) ==
    /\ name \in Reachable(st, T)
    /\ visiting \subseteq Reachable(st, T) \cap DOMAIN st
    /\ \A s \in visiting : \E dep \in Needs(st, s) : dep.service \in visiting \cup {name}

\* Everything that is wanted has all it depends on wanted.
LEMMA ReachableIsClosed ==
    ASSUME NEW st \in Stacks, NEW T \in SUBSET Services
    PROVE  /\ T \subseteq Reachable(st, T) /\ Reachable(st, T) \subseteq Services
           /\ \A s \in Reachable(st, T) \cap DOMAIN st : \A dep \in Needs(st, s) :
                  dep.service \in Reachable(st, T)
  <1>1. ASSUME NEW s \in Reachable(st, T) \cap DOMAIN st, NEW dep \in Needs(st, s)
        PROVE  dep.service \in Reachable(st, T)
    <2>1. dep.service \in Services
      BY StackTyped DEF Needs
    <2>2. ASSUME NEW S \in SUBSET Services, T \subseteq S, Closed(st, S) PROVE dep.service \in S
      BY <2>2 DEF Reachable, Closed
    <2>3. QED
      BY <2>1, <2>2 DEF Reachable
  <1>2. QED
    BY <1>1 DEF Reachable

\* The dependencies of a service, by their place.
LEMMA SpecsOf ==
    ASSUME NEW st \in Stacks, NEW s \in DOMAIN st
    PROVE  ToSet(dependency_specs(st[s])) = {Specs(st, s)[i] : i \in 1 .. Len(Specs(st, s))}
  BY SpecsAre DEF Specs, ToSet

\* One more service at the end.
LEMMA AppendInOrder ==
    ASSUME NEW st \in Stacks, NEW T, NEW q, InOrder(st, T, q),
           NEW name \in Services, name \in Reachable(st, T), name \notin ToSet(q),
           name \in DOMAIN st => \A dep \in ToSet(dependency_specs(st[name])) :
               /\ dep.required => dep.service \in DOMAIN st
               /\ dep.service \in DOMAIN st => dep.service \in ToSet(q)
    PROVE  InOrder(st, T, Append(q, name)) /\ ToSet(Append(q, name)) = ToSet(q) \cup {name}
  <1> DEFINE r == Append(q, name)
             n == Len(q)
  <1>1. q \in Seq(Services) /\ n \in Nat /\ DOMAIN q = 1 .. n
    BY DEF InOrder
  <1>2. /\ r \in Seq(Services) /\ Len(r) = n + 1 /\ DOMAIN r = 1 .. n + 1
        /\ r[n + 1] = name /\ \A i \in 1 .. n : r[i] = q[i]
    BY <1>1
  <1>3. ToSet(q) = {q[i] : i \in 1 .. n} /\ ToSet(r) = {r[i] : i \in 1 .. n + 1}
    BY <1>1, <1>2 DEF ToSet
  <1>4. \A i \in 1 .. n + 1 : i \in 1 .. n \/ i = n + 1
    BY <1>1
  <1>5. ToSet(r) = ToSet(q) \cup {name}
    <2>1. n + 1 \in 1 .. n + 1 /\ \A i \in 1 .. n : i \in 1 .. n + 1
      BY <1>1
    <2> HIDE DEF r, n
    <2>2. QED
      BY <1>2, <1>3, <1>4, <2>1
  <1> HIDE DEF r, n
  <1>6. IsInjective(r)
    <2>1. \A i, j \in 1 .. n : q[i] = q[j] => i = j
      BY <1>1 DEF InOrder, IsInjective
    <2>2. \A i \in 1 .. n : q[i] # name
      BY <1>3
    <2>3. \A i, j \in 1 .. n + 1 : r[i] = r[j] => i = j
      BY <1>2, <1>4, <2>1, <2>2
    <2>4. QED
      BY <1>2, <2>3 DEF IsInjective
  <1>7. ASSUME NEW i \in 1 .. n + 1
        PROVE  /\ r[i] \in Reachable(st, T)
               /\ r[i] \in DOMAIN st =>
                    /\ \A dep \in Needs(st, r[i]) : \E j \in 1 .. i - 1 : r[j] = dep.service
                    /\ \A dep \in ToSet(dependency_specs(st[r[i]])) :
                          dep.required => dep.service \in DOMAIN st
    <2>1. CASE i \in 1 .. n
      <3>1. r[i] = q[i] /\ \A j \in 1 .. i - 1 : r[j] = q[j]
        BY <1>1, <1>2, <2>1
      <3>2. /\ q[i] \in Reachable(st, T)
            /\ q[i] \in DOMAIN st =>
                  /\ \A dep \in Needs(st, q[i]) : \E j \in 1 .. i - 1 : q[j] = dep.service
                  /\ \A dep \in ToSet(dependency_specs(st[q[i]])) :
                        dep.required => dep.service \in DOMAIN st
        BY <2>1 DEF InOrder, n
      <3>3. QED
        BY <3>1, <3>2
    <2>2. CASE i = n + 1
      <3>1. r[i] = name /\ 1 .. i - 1 = 1 .. n
        BY <1>1, <1>2, <2>2
      <3>2. ASSUME name \in DOMAIN st, NEW dep \in Needs(st, name)
            PROVE  \E j \in 1 .. n : r[j] = dep.service
        <4>1. dep.service \in ToSet(q)
          BY <3>2 DEF Needs
        <4>2. QED
          BY <1>2, <1>3, <4>1
      <3>3. QED
        BY <3>1, <3>2
    <2>3. QED
      BY <1>4, <2>1, <2>2
  <1>8. InOrder(st, T, r)
    BY <1>2, <1>6, <1>7 DEF InOrder
  <1>9. QED
    BY <1>5, <1>8 DEF r

\* A visit is sound if the visits it makes are: the step of the induction.
LEMMA VisitIsSoundStep ==
    ASSUME NEW st \in Stacks, NEW T \in SUBSET Services, NEW k \in Nat,
           \A c \in Near(k) : c.seen # Invalid /\ InOrder(st, T, c.seen) /\ Path(st, T, c.visiting, c.name) =>
               /\ Sound(st, T, c.seen, c.visiting, Visit(st)[c])
               /\ Visit(st)[c] # Invalid => c.name \in ToSet(Visit(st)[c]),
           NEW call \in Near(k + 1), call.seen # Invalid, InOrder(st, T, call.seen),
           Path(st, T, call.visiting, call.name)
    PROVE  /\ Sound(st, T, call.seen, call.visiting, Visit(st)[call])
           /\ Visit(st)[call] # Invalid => call.name \in ToSet(Visit(st)[call])
  <1> DEFINE v == Visit(st)
             name == call.name
             seen == call.seen
             visiting == call.visiting
             below == visiting \cup {name}
             deps == Specs(st, name)
             n == Len(deps)
  <1>1. call \in Calls /\ name \in Services /\ seen \in Seq(Services) /\ visiting \subseteq Services
    BY CallHas DEF Near, Answers
  <1>2. v[call] = Body(st, v, call)
    BY <1>1, VisitIs
  <1>3. CASE name \in ToSet(seen)
    BY <1>2, <1>3 DEF Body, Sound
  <1>4. CASE name \notin ToSet(seen) /\ name \in visiting
    <2>1. v[call] = Invalid
      BY <1>2, <1>4 DEF Body
    <2>2. visiting # {} /\ visiting \subseteq Reachable(st, T) \cap DOMAIN st
          /\ \A s \in visiting : \E dep \in Needs(st, s) : dep.service \in visiting
      BY <1>4 DEF Path
    <2>3. Unsortable(st, T)
      BY <2>2 DEF Unsortable
    <2>4. QED
      BY <2>1, <2>3 DEF Sound
  <1>5. CASE name \notin ToSet(seen) /\ name \notin visiting
    <2>1. /\ n \in Nat /\ DOMAIN deps = 1 .. n
          /\ \A i \in 1 .. n : deps[i] \in Dependency /\ deps[i].service \in Services
      BY SpecsAre
    <2>2. seen \in Answers
      BY <1>1 DEF Answers
    <2>3. ASSUME NEW acc \in Answers, NEW i \in 1 .. n
          PROVE  /\ Call(deps[i].service, acc, below) \in Near(k)
                 /\ Below(st, v, below, acc, deps[i]) \in Answers
      <3>1. Call(deps[i].service, acc, below) \in Near(k)
        BY <1>5, <2>1, Nearer
      <3>2. v[Call(deps[i].service, acc, below)] \in Answers
        BY <3>1, VisitIs DEF Near
      <3>3. QED
        BY <3>1, <3>2 DEF Below, Answers
    <2> DEFINE path == below
    <2> HIDE DEF path
    <2>4. PICK F \in [0 .. n -> Answers] : Runs(F, st, v, below, seen, deps, n)
      <3>1. Keeps(st, v, below, deps, n)
        BY <2>3 DEF Keeps
      <3> HIDE DEF v, below, seen, deps, n
      <3>2. QED
        BY <2>1, <2>2, <3>1, LoopSteps
    <2>5. ASSUME NEW i \in 1 .. n
          PROVE  name \in DOMAIN st /\ name \in Reachable(st, T) /\ deps[i] \in ToSet(dependency_specs(st[name]))
      <3>1. name \in DOMAIN st
        BY <2>1 DEF Specs
      <3>2. QED
        BY <3>1, SpecsOf DEF Path
    <2> DEFINE Done(i) ==
            /\ Sound(st, T, seen, below, F[i])
            /\ F[i] # Invalid => \A j \in 1 .. i :
                  /\ deps[j].required => deps[j].service \in DOMAIN st
                  /\ deps[j].service \in DOMAIN st => deps[j].service \in ToSet(F[i])
    <2>6. Done(0)
      BY <2>4 DEF Runs, Sound
    <2>7. ASSUME NEW i \in 1 .. n, Done(i - 1) PROVE Done(i)
      <3>1. F[i] = Below(st, v, below, F[i - 1], deps[i]) /\ F[i - 1] \in Answers
        <4>1. i - 1 \in 0 .. n
          BY <2>1
        <4> HIDE DEF v, below, deps, n
        <4>2. QED
          BY <2>4, <4>1 DEF Runs
      <3>2. CASE F[i - 1] = Invalid
        BY <2>7, <3>1, <3>2 DEF Below, Sound
      <3>3. CASE F[i - 1] # Invalid /\ deps[i].service \notin DOMAIN st /\ deps[i].required
        <4>1. F[i] = Invalid
          BY <3>1, <3>3 DEF Below
        <4>2. Unsortable(st, T)
          BY <2>5, <3>3 DEF Unsortable
        <4>3. QED
          BY <4>1, <4>2 DEF Sound
      <3>4. CASE F[i - 1] # Invalid /\ deps[i].service \notin DOMAIN st /\ ~deps[i].required
        <4>1. F[i] = F[i - 1]
          BY <3>1, <3>4 DEF Below
        <4>2. \A j \in 1 .. i : j \in 1 .. i - 1 \/ j = i
          BY <2>1
        <4>3. QED
          BY <2>7, <3>4, <4>1, <4>2
      <3>5. CASE F[i - 1] # Invalid /\ deps[i].service \in DOMAIN st
        <4> DEFINE next == Call(deps[i].service, F[i - 1], below)
        <4>1. F[i] = v[next] /\ next \in Near(k)
          BY <2>3, <3>1, <3>5 DEF Below
        <4>2. next.name = deps[i].service /\ next.seen = F[i - 1] /\ next.visiting = below
          BY <1>1, <2>1, <3>1, CallIs
        <4>3. Path(st, T, below, deps[i].service)
          <5>1. deps[i] \in Needs(st, name)
            BY <2>5, <3>5 DEF Needs
          <5>2. deps[i].service \in Reachable(st, T)
            BY <2>5, <5>1, ReachableIsClosed
          <5>3. QED
            BY <2>5, <5>1, <5>2 DEF Path
        <4>4. /\ InOrder(st, T, F[i - 1]) /\ ToSet(seen) \subseteq ToSet(F[i - 1])
              /\ ToSet(F[i - 1]) \cap below \subseteq ToSet(seen)
          BY <2>7, <3>5 DEF Sound
        <4>5. /\ Sound(st, T, F[i - 1], below, F[i])
              /\ F[i] # Invalid => deps[i].service \in ToSet(F[i])
          BY <3>5, <4>1, <4>2, <4>3, <4>4
        <4>6. Sound(st, T, seen, below, F[i])
          BY <4>4, <4>5 DEF Sound
        <4>7. \A j \in 1 .. i : j \in 1 .. i - 1 \/ j = i
          BY <2>1
        <4>8. ASSUME F[i] # Invalid, NEW j \in 1 .. i
              PROVE  /\ deps[j].required => deps[j].service \in DOMAIN st
                     /\ deps[j].service \in DOMAIN st => deps[j].service \in ToSet(F[i])
          <5>1. ToSet(F[i - 1]) \subseteq ToSet(F[i])
            BY <4>5, <4>8 DEF Sound
          <5>2. QED
            BY <2>7, <3>5, <4>5, <4>7, <4>8, <5>1
        <4>9. QED
          BY <4>6, <4>8
      <3>6. QED
        BY <3>2, <3>3, <3>4, <3>5
    <2>8. Done(n)
      <3> DEFINE K == {i \in Nat : i <= n => Done(i)}
      <3> HIDE DEF Done
      <3>1. 0 \in K
        BY <2>6
      <3>2. ASSUME NEW i \in Nat, i \in K PROVE i + 1 \in K
        <4>1. i + 1 <= n => i + 1 \in 1 .. n /\ (i + 1) - 1 = i /\ Done(i)
          BY <2>1, <3>2
        <4>2. QED
          BY <2>7, <4>1
      <3>3. Nat \subseteq K
        <4> HIDE DEF K
        <4>1. QED
          BY <3>1, <3>2, NatSetInduction
      <3>4. n <= n
        BY <2>1
      <3>5. QED
        BY <2>1, <3>3, <3>4
    <2>9. F[n] = Result(st, v, call)
      BY <2>4 DEF Runs, Result
    <2>10. CASE F[n] = Invalid
      <3>1. v[call] = Invalid
        BY <1>2, <1>5, <2>9, <2>10 DEF Body
      <3>2. QED
        BY <2>8, <2>10, <3>1 DEF Sound
    <2>11. CASE F[n] # Invalid
      <3>1. v[call] = Append(F[n], name)
        BY <1>2, <1>5, <2>9, <2>11 DEF Body
      <3>2. /\ InOrder(st, T, F[n]) /\ ToSet(seen) \subseteq ToSet(F[n])
            /\ ToSet(F[n]) \cap below \subseteq ToSet(seen)
        BY <2>8, <2>11 DEF Sound
      <3>3. name \notin ToSet(F[n])
        BY <1>5, <3>2
      <3>4. ASSUME name \in DOMAIN st, NEW dep \in ToSet(dependency_specs(st[name]))
            PROVE  /\ dep.required => dep.service \in DOMAIN st
                   /\ dep.service \in DOMAIN st => dep.service \in ToSet(F[n])
        <4>1. PICK j \in 1 .. n : dep = deps[j]
          BY <3>4, SpecsOf
        <4>2. QED
          BY <2>8, <2>11, <4>1
      <3>5. /\ InOrder(st, T, Append(F[n], name))
            /\ ToSet(Append(F[n], name)) = ToSet(F[n]) \cup {name}
        <4>1. name \in Reachable(st, T)
          BY DEF Path
        <4> HIDE DEF name
        <4>2. QED
          BY <1>1, <3>2, <3>3, <3>4, <4>1, AppendInOrder
      <3>6. Append(F[n], name) # Invalid
        <4>1. Append(F[n], name) \in Seq(Services)
          BY <3>5 DEF InOrder
        <4>2. QED
          BY <4>1, StackRunAssumption
      <3>7. QED
        BY <1>5, <3>1, <3>2, <3>5, <3>6 DEF Sound
    <2>12. QED
      BY <2>10, <2>11
  <1>6. QED
    BY <1>3, <1>4, <1>5

\* A visit on a path finds the services in order, or a reason why there is none.
LEMMA VisitIsSound ==
    ASSUME NEW st \in Stacks, NEW T \in SUBSET Services,
           NEW call \in Calls, call.seen # Invalid, InOrder(st, T, call.seen),
           Path(st, T, call.visiting, call.name)
    PROVE  /\ Sound(st, T, call.seen, call.visiting, Visit(st)[call])
           /\ Visit(st)[call] # Invalid => call.name \in ToSet(Visit(st)[call])
  <1> DEFINE Holds(c) == c.seen # Invalid /\ InOrder(st, T, c.seen) /\ Path(st, T, c.visiting, c.name) =>
                  /\ Sound(st, T, c.seen, c.visiting, Visit(st)[c])
                  /\ Visit(st)[c] # Invalid => c.name \in ToSet(Visit(st)[c])
             K == {k \in Nat : \A c \in Near(k) : Holds(c)}
  <1>1. 0 \in K
    <2>1. ASSUME NEW c \in Near(0) PROVE FALSE
      <3>1. Cardinality(Services \ c.visiting) \in Nat /\ Cardinality(Services \ c.visiting) < 0
        BY StackRunAssumption, FS_Subset, FS_CardinalityType DEF Near
      <3>2. QED
        BY <3>1
    <2>2. QED
      BY <2>1
  <1>2. ASSUME NEW k \in Nat, k \in K PROVE k + 1 \in K
    <2>1. \A c \in Near(k) : Holds(c)
      BY <1>2
    <2>2. ASSUME NEW c \in Near(k + 1) PROVE Holds(c)
      BY <2>1, VisitIsSoundStep
    <2>3. QED
      BY <2>2
  <1>3. Nat \subseteq K
    <2> HIDE DEF K
    <2>1. QED
      BY <1>1, <1>2, NatSetInduction
  <1>4. PICK k \in Nat : call \in Near(k)
    BY AllNear
  <1>5. Holds(call)
    BY <1>3, <1>4
  <1>6. QED
    BY <1>5

\* The loop over the targets, step by step.
VisitNext(st, acc, name) == Visit(st)[Call(name, acc, {})]

LEMMA TargetSteps ==
    ASSUME NEW st \in Stacks, NEW targets \in Seq(Services)
    PROVE  \E F \in [0 .. Len(targets) -> Answers] :
              /\ F[0] = <<>> /\ F[Len(targets)] = OrderOf(st, targets)
              /\ \A i \in 1 .. Len(targets) : F[i] = Visit(st)[Call(targets[i], F[i - 1], {})]
  <1> DEFINE n == Len(targets)
             A == Answers
             Iter(g) == [T \in SUBSET (1 .. n) |-> IF T = {} THEN <<>>
                 ELSE VisitNext(st, g[T \ {Max(T)}], targets[Max(T)])]
             h == [p \in A \X (1 .. n) |-> VisitNext(st, p[1], targets[p[2]])]
  <1>0. n \in Nat /\ DOMAIN targets = 1 .. n /\ \A i \in 1 .. n : targets[i] \in Services
    OBVIOUS
  <1> HIDE DEF n
  <1>1. ASSUME NEW T \in SUBSET (1 .. n), T # {} PROVE Max(T) \in T
    <2>1. T \subseteq Nat
      OBVIOUS
    <2>2. QED
      BY <1>0, <2>1, <1>1, GreatestOf
  <1>2. \A a \in A, i \in 1 .. n : VisitNext(st, a, targets[i]) \in A
    BY <1>0, CallIs, VisitIs DEF VisitNext
  <1>3. <<>> \in A
    BY DEF Answers
  <1>4. \E g : g = Iter(g)
    <2>1. StepIn(h, n, A)
      BY <1>2 DEF StepIn
    <2>2. PICK g \in [SUBSET (1 .. n) -> A] : FoldOf(h, n, <<>>, g)
      <3> HIDE DEF h
      <3>1. QED
        BY <1>0, <1>3, <2>1, FoldExists
    <2>3. ASSUME NEW T \in SUBSET (1 .. n) PROVE g[T] = Iter(g)[T]
      <3>1. T # {} => Max(T) \in 1 .. n /\ g[T \ {Max(T)}] \in A
        BY <1>1
      <3>2. QED
        BY <2>2, <3>1 DEF FoldOf
    <2>4. QED
      BY <2>3
  <1> DEFINE it == CHOOSE g : g = Iter(g)
  <1>5. it = Iter(it)
    BY <1>4
  <1>6. OrderOf(st, targets) = it[1 .. n]
    BY <1>0 DEF OrderOf, FoldLeft, MapThenFoldSet, VisitNext
  <1> DEFINE B == A \cup {it[T] : T \in SUBSET (1 .. n)}
             H == [p \in B \X (1 .. n) |-> VisitNext(st, p[1], targets[p[2]])]
  <1>7. FoldOf(H, n, <<>>, it) /\ \A a \in A, i \in 1 .. n : H[<<a, i>>] = VisitNext(st, a, targets[i])
    <2> HIDE DEF it
    <2>1. ASSUME NEW T \in SUBSET (1 .. n), T # {}
          PROVE  it[T] = H[<<it[T \ {Max(T)}], Max(T)>>]
      <3>1. Max(T) \in 1 .. n /\ it[T \ {Max(T)}] \in B
        BY <1>1, <2>1
      <3>2. it[T] = Iter(it)[T]
        BY <1>5
      <3>3. QED
        BY <2>1, <3>1, <3>2
    <2>2. it[{}] = Iter(it)[{}] /\ {} \in SUBSET (1 .. n)
      BY <1>5
    <2>3. QED
      BY <2>1, <2>2 DEF FoldOf
  <1> HIDE DEF it, H
  <1>8. PICK F \in [0 .. n -> A] : F[0] = <<>> /\ F[n] = it[1 .. n]
                                   /\ \A i \in 1 .. n : F[i] = H[<<F[i - 1], i>>]
    <2>1. StepIn(H, n, A)
      BY <1>2, <1>7 DEF StepIn
    <2> DEFINE base == <<>>
    <2>2. base \in A /\ FoldOf(H, n, base, it)
      BY <1>3, <1>7
    <2> HIDE DEF base
    <2>3. \E F \in [0 .. n -> A] : F[0] = base /\ F[n] = it[1 .. n]
                                   /\ \A i \in 1 .. n : F[i] = H[<<F[i - 1], i>>]
      BY <1>0, <2>1, <2>2, FoldSteps
    <2>4. QED
      BY <2>3 DEF base
  <1>9. ASSUME NEW i \in 1 .. n PROVE F[i] = Visit(st)[Call(targets[i], F[i - 1], {})]
    <2>1. F[i - 1] \in A
      BY <1>0
    <2>2. QED
      BY <1>7, <1>8, <2>1 DEF VisitNext
  <1>10. QED
    BY <1>6, <1>8, <1>9 DEF n

\* The order of the targets is a list of names, or the error.
LEMMA OrderIsTyped ==
    ASSUME NEW st \in Stacks, NEW targets \in Seq(Services)
    PROVE  OrderOf(st, targets) \in Seq(Services) \cup {Invalid}
  <1>1. PICK F \in [0 .. Len(targets) -> Answers] : F[Len(targets)] = OrderOf(st, targets)
    BY TargetSteps
  <1>2. Len(targets) \in 0 .. Len(targets)
    OBVIOUS
  <1>3. QED
    BY <1>1, <1>2 DEF Answers

\* A list in order that has all targets has just what they depend on, and shows
\* that an order exists.
LEMMA InOrderIsEnough ==
    ASSUME NEW st \in Stacks, NEW T \in SUBSET Services, NEW q, InOrder(st, T, q), T \subseteq ToSet(q)
    PROVE  ToSet(q) = Reachable(st, T) /\ ~Unsortable(st, T)
  <1>1. q \in Seq(Services) /\ Len(q) \in Nat /\ ToSet(q) = {q[i] : i \in 1 .. Len(q)}
    BY DEF InOrder, ToSet
  <1>2. Closed(st, ToSet(q))
    <2>1. ASSUME NEW s \in ToSet(q) \cap DOMAIN st, NEW dep \in Needs(st, s)
          PROVE  dep.service \in ToSet(q)
      <3>1. PICK i \in 1 .. Len(q) : s = q[i]
        BY <1>1
      <3>2. PICK j \in 1 .. i - 1 : q[j] = dep.service
        BY <3>1 DEF InOrder
      <3>3. j \in 1 .. Len(q)
        BY <1>1, <3>2
      <3>4. QED
        BY <1>1, <3>2, <3>3
    <2>2. QED
      BY <2>1 DEF Closed
  <1>3. ToSet(q) = Reachable(st, T)
    <2>1. ToSet(q) \subseteq Reachable(st, T)
      BY <1>1 DEF InOrder
    <2>2. ToSet(q) \in SUBSET Services
      BY <2>1, ReachableIsClosed
    <2>3. QED
      BY <1>2, <2>1, <2>2 DEF Reachable
  <1>4. ASSUME NEW S \in SUBSET (Reachable(st, T) \cap DOMAIN st), S # {}
        PROVE  \E s \in S : \A dep \in Needs(st, s) : dep.service \notin S
    <2> DEFINE At == {i \in 1 .. Len(q) : q[i] \in S}
    <2>1. At \subseteq Nat /\ At # {}
      BY <1>1, <1>3, <1>4
    <2>2. PICK i \in At : \A j \in At : i <= j
      <3> HIDE DEF At
      <3>1. QED
        BY <2>1, SmallestOf
    <2>3. ASSUME NEW dep \in Needs(st, q[i]) PROVE dep.service \notin S
      <3>1. PICK j \in 1 .. i - 1 : q[j] = dep.service
        BY DEF InOrder
      <3>2. j \in 1 .. Len(q) /\ ~(i <= j)
        BY <1>1, <3>1
      <3>3. QED
        BY <2>2, <3>1, <3>2
    <2>4. QED
      BY <2>3
  <1>5. ASSUME NEW s \in Reachable(st, T) \cap DOMAIN st,
               NEW dep \in ToSet(dependency_specs(st[s])), dep.required
        PROVE  dep.service \in DOMAIN st
    BY <1>1, <1>3, <1>5 DEF InOrder
  <1>6. QED
    BY <1>3, <1>4, <1>5 DEF Unsortable

\* An order is found just where one exists, and it is one.
LEMMA OrderIs ==
    ASSUME NEW st \in Stacks, NEW targets \in Seq(Services)
    PROVE  IF OrderOf(st, targets) = Invalid THEN Unsortable(st, ToSet(targets))
           ELSE /\ InOrder(st, ToSet(targets), OrderOf(st, targets))
                /\ ToSet(targets) \subseteq ToSet(OrderOf(st, targets))
  <1> DEFINE n == Len(targets)
             T == ToSet(targets)
  <1>1. n \in Nat /\ T = {targets[i] : i \in 1 .. n} /\ T \in SUBSET Services
    BY DEF ToSet
  <1>2. PICK F \in [0 .. n -> Answers] :
              /\ F[0] = <<>> /\ F[n] = OrderOf(st, targets)
              /\ \A i \in 1 .. n : F[i] = Visit(st)[Call(targets[i], F[i - 1], {})]
    BY TargetSteps
  <1> HIDE DEF n, T
  <1> DEFINE Done(i) ==
            IF F[i] = Invalid THEN Unsortable(st, T)
            ELSE InOrder(st, T, F[i]) /\ \A j \in 1 .. i : targets[j] \in ToSet(F[i])
             K == {i \in Nat : i <= n => Done(i)}
  <1>3. Done(0)
    <2>1. InOrder(st, T, <<>>)
      BY DEF InOrder, IsInjective
    <2>2. <<>> # Invalid
      <3>1. <<>> \in Seq(Services)
        OBVIOUS
      <3>2. QED
        BY <3>1, StackRunAssumption
    <2>3. QED
      BY <1>2, <2>1, <2>2
  <1>4. ASSUME NEW i \in 1 .. n, Done(i - 1) PROVE Done(i)
    <2> DEFINE call == Call(targets[i], F[i - 1], {})
    <2>1. i - 1 \in 0 .. n /\ F[i - 1] \in Answers /\ targets[i] \in Services /\ targets[i] \in T
      BY <1>1, <1>2
    <2>2. /\ call \in Calls /\ call.name = targets[i] /\ call.seen = F[i - 1] /\ call.visiting = {}
          /\ F[i] = Visit(st)[call]
      BY <1>2, <2>1, CallIs
    <2> HIDE DEF call
    <2>3. CASE F[i - 1] = Invalid
      <3>1. F[i] = Invalid
        BY <2>2, <2>3, VisitIs DEF Body
      <3>2. QED
        BY <1>4, <2>3, <3>1
    <2>4. CASE F[i - 1] # Invalid
      <3>1. Path(st, T, {}, targets[i])
        BY <1>1, <2>1, ReachableIsClosed DEF Path
      <3>2. /\ Sound(st, T, F[i - 1], {}, F[i])
            /\ F[i] # Invalid => targets[i] \in ToSet(F[i])
        BY <1>1, <1>4, <2>2, <2>4, <3>1, VisitIsSound
      <3>3. \A j \in 1 .. i : j \in 1 .. i - 1 \/ j = i
        BY <1>1
      <3>4. QED
        BY <1>4, <2>4, <3>2, <3>3 DEF Sound
    <2>5. QED
      BY <2>3, <2>4
  <1>5. n \in K
    <2> HIDE DEF Done
    <2>1. 0 \in K
      BY <1>3
    <2>2. ASSUME NEW i \in Nat, i \in K PROVE i + 1 \in K
      <3>1. i + 1 <= n => i + 1 \in 1 .. n /\ (i + 1) - 1 = i /\ Done(i)
        BY <1>1, <2>2
      <3>2. QED
        BY <1>4, <3>1
    <2> HIDE DEF K
    <2>3. QED
      BY <1>1, <2>1, <2>2, NatSetInduction
  <1>6. Done(n)
    <2> HIDE DEF Done
    <2>1. n <= n
      BY <1>1
    <2>2. QED
      BY <1>5, <2>1
  <1>7. QED
    BY <1>1, <1>2, <1>6 DEF T

-----------------------------------------------------------------------------
(* Type correctness. *)

\* What the points of a command say of its loop.
Positions ==
    /\ pc \in {"await", "revive", "relaunch"} => todo # <<>>
    /\ pc = "await" => Current \in DOMAIN stack

WorldTyped == status \in [Services -> Statuses] /\ held \subseteq Services \X Conditions
LoopTyped ==
    order \in Seq(Services) /\ todo \in Seq(Services) /\ waiting \in Seq(Dependency) /\ polls \in 0 .. Polls
SupervisionTyped ==
    /\ attempts \in [Services -> Nat] /\ restart_after \in [Services -> 0 .. 300]
    /\ streak \in [Services -> Nat] /\ quiet \in [Services -> 0 .. 300]

LEMMA HoldingTyped ==
    ASSUME NEW st \in Stacks, NEW state
    PROVE  Holding(st, state) \subseteq Services \X Conditions
  <1>1. ASSUME NEW s \in DOMAIN st, NEW dep \in Needs(st, s) PROVE dep \in Dependency
    <2>1. dependency_specs(st[s]) \in Seq(Dependency)
      BY SpecsTyped
    <2>2. \A q \in Seq(Dependency) : ToSet(q) \subseteq Dependency
      BY DEF ToSet
    <2>3. QED
      BY <2>1, <2>2 DEF Needs
  <1>2. QED
    BY <1>1 DEF Holding, Dependency

LEMMA BecomesTyped ==
    ASSUME stack \in Stacks, WorldTyped, NEW s, NEW state \in Statuses, Becomes(s, state)
    PROVE  WorldTyped'
  <1>1. Holding(stack, status') \subseteq Services \X Conditions
    BY HoldingTyped
  <1>2. QED
    BY <1>1 DEF Becomes, WorldTyped

LEMMA NextServiceTyped ==
    ASSUME LoopTyped, NEW rest \in Seq(Services), NextService(rest), order' = order
    PROVE  LoopTyped' /\ Positions' /\ pc' = "service"
  BY PollsTyped DEF LoopTyped, NextService, Positions

LEMMA WaitTyped ==
    ASSUME NEW n \in Nat, NEW k \in Nat
    PROVE  (IF k = 0 THEN 0 ELSE AtMost(300, n * Shift[AtMost(9, k)])) \in 0 .. 300
  <1>1. CASE k = 0
    BY <1>1
  <1>2. CASE k # 0
    <2>1. AtMost(9, k) \in 1 .. 9
      BY <1>2 DEF AtMost
    <2>2. Shift[AtMost(9, k)] \in Nat
      BY <2>1 DEF Shift
    <2>3. ASSUME NEW p \in Nat, NEW q \in Nat PROVE AtMost(300, p * q) \in 0 .. 300
      BY DEF AtMost
    <2>4. QED
      BY <1>2, <2>2, <2>3
  <1>3. QED
    BY <1>1, <1>2

LEMMA OwedTyped ==
    ASSUME stack \in Stacks, SupervisionTyped, NEW s \in Services
    PROVE  Owed(s) \in 0 .. 300
  <1> SUFFICES ASSUME s \in DOMAIN stack PROVE Owed(s) \in 0 .. 300
    BY SMTT(40) DEF Owed
  <1>1. streak[s] \in Nat /\ stack[s].restart_backoff_seconds \in Nat
    BY StackTyped DEF SupervisionTyped, Service
  <1>2. QED
    BY <1>1, WaitTyped, ZenonT(60) DEF Owed

LEMMA TypesHold == Init => TypeOK /\ Positions
  <1> SUFFICES ASSUME Init PROVE TypeOK /\ Positions
    OBVIOUS
  <1>1. PICK case \in Cases : stack = case.stack /\ command = case.command /\ status = case.status
    BY DEF Init
  <1>2. stack \in Stacks /\ command \in Commands /\ status \in [Services -> Statuses]
    BY <1>1, StackRunAssumption DEF Stacks, Commands
  <1>3. held \subseteq Services \X Conditions
    BY <1>2, HoldingTyped DEF Init
  <1>4. [s \in Services |-> 0] \in [Services -> Nat] /\ [s \in Services |-> 0] \in [Services -> 0 .. 300]
    OBVIOUS
  <1>5. <<>> \in Seq(Services) /\ <<>> \in Seq(Dependency)
    OBVIOUS
  <1>6. TypeOK
    BY <1>2, <1>3, <1>4, <1>5, PollsTyped DEF Init, TypeOK
  <1>7. QED
    BY <1>6 DEF Init, Positions

Typed == TypeOK /\ Positions

FlagsTyped ==
    /\ stack \in Stacks /\ command \in Commands
    /\ failed \in BOOLEAN /\ volumes \in {"kept", "gone"}
    /\ started \subseteq Services /\ stopped \subseteq Services
PcTyped ==
    pc \in Ended \cup {"begin", "sort", "service", "await", "sleep", "poll", "revive", "relaunch", "stop"}

LEMMA Bounded ==
    ASSUME NEW n \in Nat, NEW x \in 0 .. 300, NEW y \in 0 .. 300
    PROVE  /\ AtMost(y + n, x) \in 0 .. 300
           /\ (IF n < x THEN x - n ELSE 0) \in 0 .. 300
  BY DEF AtMost

LEMMA Updated ==
    ASSUME NEW S, NEW T, NEW f \in [S -> T], NEW x, NEW y \in T
    PROVE  [f EXCEPT ![x] = y] \in [S -> T]
  OBVIOUS

LEMMA TypesKept == Typed /\ [Next]_vars => Typed'
  <1> SUFFICES ASSUME FlagsTyped, PcTyped, WorldTyped, LoopTyped, SupervisionTyped, Positions, [Next]_vars
               PROVE  (FlagsTyped /\ PcTyped /\ WorldTyped /\ LoopTyped /\ SupervisionTyped /\ Positions)'
    <2>1. Typed => FlagsTyped /\ PcTyped /\ WorldTyped /\ LoopTyped /\ SupervisionTyped /\ Positions
      BY DEF Typed, TypeOK, FlagsTyped, PcTyped, WorldTyped, LoopTyped, SupervisionTyped
    <2>2. (FlagsTyped /\ PcTyped /\ WorldTyped /\ LoopTyped /\ SupervisionTyped)' => TypeOK'
      BY DEF TypeOK, FlagsTyped, PcTyped, WorldTyped, LoopTyped, SupervisionTyped
    <2>3. QED
      BY <2>1, <2>2 DEF Typed
  <1>w. UNCHANGED world => WorldTyped'
    BY DEF world, WorldTyped
  <1>l. UNCHANGED loop => LoopTyped'
    BY DEF loop, LoopTyped
  <1>v. UNCHANGED supervision => SupervisionTyped'
    BY DEF supervision, SupervisionTyped
  <1>f. UNCHANGED <<stack, command, failed, volumes, started, stopped>> => FlagsTyped'
    BY DEF FlagsTyped
  <1>p. pc' \notin {"await", "revive", "relaunch"} => Positions'
    BY DEF Positions
  <1>q. UNCHANGED <<pc, todo, stack>> => Positions' /\ PcTyped'
    BY DEF Positions, Current, PcTyped
  <1>e. \A label \in {"begin", "sort", "service", "await", "sleep", "poll", "revive", "relaunch", "stop",
                     "done", "failed", "refused", "killed"} : pc' = label => PcTyped'
    BY DEF PcTyped, Ended
  <1>s. stack \in Stacks /\ DOMAIN stack \subseteq Services /\ \A s \in DOMAIN stack : stack[s] \in Service
    BY StackTyped DEF FlagsTyped
  <1>h. /\ todo # <<>> => Current \in Services /\ Tail(todo) \in Seq(Services)
        /\ waiting # <<>> => Head(waiting) \in Dependency /\ Tail(waiting) \in Seq(Dependency)
    BY HeadAndTail DEF LoopTyped, Current
  <1>b. \A s : \A state \in Statuses : Becomes(s, state) => WorldTyped'
    BY <1>s, BecomesTyped
  <1>n. \A rest \in Seq(Services) : NextService(rest) /\ UNCHANGED order => LoopTyped' /\ Positions' /\ PcTyped'
    BY NextServiceTyped, <1>e
  <1>0. CASE UNCHANGED vars
    BY <1>0, <1>w, <1>l, <1>v, <1>f, <1>q DEF vars, loop
  <1>1. CASE SortTargets
    <2> DEFINE sorted == OrderOf(stack, command.targets)
    <2>1. CASE sorted = Invalid
      BY <1>1, <2>1, <1>w, <1>l, <1>v, <1>f, <1>p, <1>e DEF SortTargets
    <2>2. CASE sorted # Invalid
      <3>1. command.targets \in Seq(Services)
        BY TargetsTyped DEF FlagsTyped
      <3>2. sorted \in Seq(Services)
        BY <2>2, <3>1, <1>s, OrderIsTyped
      <3>3. LoopTyped' /\ pc' = "service"
        BY <1>1, <2>2, <3>2, PollsTyped DEF SortTargets, NextService, LoopTyped
      <3>4. QED
        BY <1>1, <2>2, <3>3, <1>w, <1>v, <1>f, <1>p, <1>e DEF SortTargets
    <2>3. QED
      BY <2>1, <2>2
  <1>2. CASE TakeService
    <2>1. CASE Current \in DOMAIN stack
      <3>1. dependency_specs(stack[Current]) \in Seq(Dependency)
        BY <2>1, <1>s, SpecsTyped
      <3>2. LoopTyped' /\ Positions'
        BY <1>2, <2>1, <3>1 DEF TakeService, LoopTyped, Positions, Current
      <3>3. QED
        BY <1>2, <2>1, <3>2, <1>w, <1>v, <1>f, <1>e DEF TakeService
    <2>2. CASE Current \notin DOMAIN stack
      <3>1. FlagsTyped'
        BY <1>2, <2>2 DEF TakeService, FlagsTyped
      <3>2. QED
        BY <1>2, <2>2, <3>1, <1>h, <1>n, <1>w, <1>v DEF TakeService
    <2>3. QED
      BY <2>1, <2>2
  <1>3. CASE SkipAbsent
    <2>1. LoopTyped'
      BY <1>3, <1>h DEF SkipAbsent, LoopTyped
    <2>2. QED
      BY <1>3, <2>1, <1>w, <1>v, <1>f, <1>q DEF SkipAbsent
  <1>4. CASE WaitForDependency
    <2>1. todo # <<>> /\ waiting # <<>>
      BY <1>4 DEF WaitForDependency, Positions
    <2>2. /\ UNCHANGED <<stack, command, world, volumes, supervision, started, stopped>>
          /\ \/ /\ waiting' = Tail(waiting) /\ polls' = 0 /\ UNCHANGED <<pc, order, todo, failed>>
             \/ polls < Polls /\ polls' = polls + 1 /\ UNCHANGED <<pc, order, todo, waiting, failed>>
             \/ failed' = TRUE /\ NextService(Tail(todo)) /\ UNCHANGED order
      BY <1>4 DEF WaitForDependency
    <2>3. FlagsTyped'
      BY <2>2 DEF FlagsTyped
    <2>4. LoopTyped' /\ Positions' /\ PcTyped'
      <3>1. CASE waiting' = Tail(waiting) /\ polls' = 0 /\ UNCHANGED <<pc, order, todo, failed>>
        BY <2>1, <2>2, <3>1, <1>h, <1>q, PollsTyped DEF LoopTyped
      <3>2. CASE polls < Polls /\ polls' = polls + 1 /\ UNCHANGED <<pc, order, todo, waiting, failed>>
        <4>1. polls' \in 0 .. Polls
          BY <3>2, StackRunAssumption DEF LoopTyped
        <4>2. QED
          BY <2>2, <3>2, <4>1, <1>q DEF LoopTyped
      <3>3. CASE NextService(Tail(todo)) /\ UNCHANGED order
        BY <2>1, <3>3, <1>h, <1>n
      <3>4. QED
        BY <2>2, <3>1, <3>2, <3>3
    <2>5. QED
      BY <2>2, <2>3, <2>4, <1>w, <1>v
  <1>5. CASE StartService
    <2>1. todo # <<>> /\ Current \in DOMAIN stack
      BY <1>5 DEF StartService, Positions
    <2>2. status[Current] \in Statuses /\ "missing" \in Statuses /\ "exited1" \in Statuses
      BY <2>1, <1>s DEF WorldTyped, Statuses
    <2>3. WorldTyped'
      BY <1>5, <2>2, <1>b DEF StartService
    <2>4. FlagsTyped'
      BY <1>5, <2>1, <1>s DEF StartService, FlagsTyped
    <2>5. QED
      BY <1>5, <2>1, <2>3, <2>4, <1>h, <1>n, <1>v DEF StartService
  <1>6. CASE EndUp
    BY <1>6, <1>w, <1>l, <1>v, <1>f, <1>p, <1>e DEF EndUp
  <1>7. CASE BeginWatch
    <2>1. Cardinality(DOMAIN stack) \in Nat
      BY <1>s, StackRunAssumption, FS_Subset, FS_CardinalityType
    <2>2. LoopTyped'
      BY <1>7, <2>1, <1>s DEF BeginWatch, LoopTyped
    <2>3. QED
      BY <1>7, <2>2, <1>w, <1>v, <1>f, <1>p, <1>e DEF BeginWatch
  <1>8. CASE Sleep
    <2>1. PICK n \in Elapsed :
              /\ restart_after' = [s \in Services |-> IF n < restart_after[s] THEN restart_after[s] - n ELSE 0]
              /\ quiet' = [s \in Services |-> AtMost(quiet[s] + n, Owed(s))]
      BY <1>8 DEF Sleep
    <2>2. n \in Nat
      BY StackRunAssumption
    <2>3. ASSUME NEW s \in Services PROVE AtMost(quiet[s] + n, Owed(s)) \in 0 .. 300
      <3>1. Owed(s) \in 0 .. 300 /\ quiet[s] \in 0 .. 300
        BY <1>s, OwedTyped DEF SupervisionTyped
      <3>2. QED
        BY <2>2, <3>1, Bounded, ZenonT(60)
    <2>4. ASSUME NEW s \in Services
          PROVE  (IF n < restart_after[s] THEN restart_after[s] - n ELSE 0) \in 0 .. 300
      <3>1. restart_after[s] \in 0 .. 300
        BY DEF SupervisionTyped
      <3>2. QED
        BY <2>2, <3>1, Bounded, ZenonT(60)
    <2>5. SupervisionTyped'
      BY <1>8, <2>1, <2>3, <2>4 DEF Sleep, SupervisionTyped
    <2>6. LoopTyped'
      BY <1>8 DEF Sleep, LoopTyped
    <2>7. QED
      BY <1>8, <2>5, <2>6, <1>w, <1>f, <1>p, <1>e DEF Sleep
  <1>9. CASE SeenGood
    <2>1. LoopTyped'
      BY <1>9, <1>h DEF SeenGood, LoopTyped
    <2>2. SupervisionTyped'
      <3>1. 0 \in Nat /\ 0 \in 0 .. 300
        OBVIOUS
      <3>2. QED
        BY <1>9, <3>1, Updated DEF SeenGood, SupervisionTyped
    <2>3. QED
      BY <1>9, <2>1, <2>2, <1>w, <1>f, <1>p, <1>e DEF SeenGood
  <1>10. CASE SeenBad
    <2>1. CASE CountAttempt(Current) /\ pc' = "revive" /\ UNCHANGED todo /\ Current \in DOMAIN stack
      <3>1. attempts[Current] + 1 \in Nat \ {0} /\ attempts' \in [Services -> Nat]
        BY <2>1, <1>s DEF CountAttempt, SupervisionTyped
      <3>2. RestartDelay(stack[Current], attempts[Current] + 1) \in 0 .. 300
        BY <2>1, <3>1, <1>s, DelayTyped
      <3>3. restart_after' \in [Services -> 0 .. 300]
        BY <2>1, <3>2 DEF CountAttempt, SupervisionTyped
      <3>4. SupervisionTyped'
        BY <1>10, <3>1, <3>3 DEF SeenBad, SupervisionTyped
      <3>5. LoopTyped' /\ Positions'
        BY <1>10, <2>1 DEF SeenBad, LoopTyped, Positions
      <3>6. QED
        BY <1>10, <2>1, <3>4, <3>5, <1>w, <1>f, <1>e DEF SeenBad
    <2>2. CASE todo' = Tail(todo) /\ UNCHANGED <<pc, attempts, restart_after>>
      <3>1. LoopTyped'
        BY <1>10, <2>2, <1>h DEF SeenBad, LoopTyped
      <3>2. SupervisionTyped'
        BY <1>10, <2>2 DEF SeenBad, SupervisionTyped
      <3>3. QED
        BY <1>10, <2>2, <3>1, <3>2, <1>w, <1>f, <1>p, <1>e DEF SeenBad
    <2>3. QED
      BY <1>10, <2>1, <2>2 DEF SeenBad
  <1>11. CASE ReviveStops
    <2>1. todo # <<>> /\ Current \in Services
      BY <1>11, <1>h DEF ReviveStops, Positions
    <2>2. status[Current] \in Statuses /\ "missing" \in Statuses
      BY <2>1 DEF WorldTyped, Statuses
    <2>3. WorldTyped'
      BY <1>11, <2>2, <1>b DEF ReviveStops
    <2>4. SupervisionTyped'
      BY <1>11, <2>1, SMTT(40) DEF ReviveStops, SupervisionTyped
    <2>5. Positions'
      BY <1>11, <2>1 DEF ReviveStops, Positions, loop
    <2>6. QED
      BY <1>11, <2>3, <2>4, <2>5, <1>l, <1>f, <1>e DEF ReviveStops
  <1>12. CASE Relaunch
    <2>1. WorldTyped'
      BY <1>12, <1>b DEF Relaunch
    <2>2. LoopTyped'
      BY <1>12, <1>h DEF Relaunch, LoopTyped, Positions
    <2>3. QED
      BY <1>12, <2>1, <2>2, <1>v, <1>f, <1>p, <1>e DEF Relaunch
  <1>13. CASE EndRound
    BY <1>13, <1>w, <1>l, <1>v, <1>f, <1>p, <1>e DEF EndRound
  <1>14. CASE BeginDown
    <2>1. command.targets \in Seq(Services)
      BY CommandTyped DEF FlagsTyped, Command
    <2>2. LoopTyped'
      BY <1>14, <2>1 DEF BeginDown, LoopTyped
    <2>3. QED
      BY <1>14, <2>2, <1>w, <1>v, <1>f, <1>p, <1>e DEF BeginDown
  <1>15. CASE StopService
    <2>1. WorldTyped'
      BY <1>15, <1>b, <1>w DEF StopService, Statuses
    <2>2. LoopTyped'
      BY <1>15, <1>h DEF StopService, LoopTyped
    <2>3. FlagsTyped'
      BY <1>15, <1>s DEF StopService, FlagsTyped
    <2>4. QED
      BY <1>15, <2>1, <2>2, <2>3, <1>v, <1>p, <1>e DEF StopService
  <1>16. CASE EndDown
    <2>1. FlagsTyped'
      BY <1>16 DEF EndDown, FlagsTyped
    <2>2. QED
      BY <1>16, <2>1, <1>w, <1>l, <1>v, <1>p, <1>e DEF EndDown
  <1>17. CASE Killed
    BY <1>17, <1>w, <1>l, <1>v, <1>f, <1>p, <1>e DEF Killed
  <1>18. ASSUME NEW s \in DOMAIN stack, Turn(s)
         PROVE  (FlagsTyped /\ PcTyped /\ WorldTyped /\ LoopTyped /\ SupervisionTyped /\ Positions)'
    <2>1. WorldTyped'
      BY <1>18, <1>b DEF Turn, Statuses
    <2>2. QED
      BY <1>18, <2>1, <1>l, <1>v, <1>f, <1>q DEF Turn, loop
  <1>19. QED
    BY <1>0, <1>1, <1>2, <1>3, <1>4, <1>5, <1>6, <1>7, <1>8, <1>9, <1>10, <1>11, <1>12, <1>13,
       <1>14, <1>15, <1>16, <1>17, <1>18 DEF Next, Step

\* The types of all that a command keeps, whatever the stack.
THEOREM TypeCorrect == Spec => []TypeOK
  <1>1. Typed => TypeOK
    BY DEF Typed
  <1>2. QED
    BY <1>1, TypesHold, TypesKept, PTL DEF Spec, Typed

-----------------------------------------------------------------------------
(* Dependencies first. *)

Awaited ==
    pc = "await" => \A dep \in Needs(stack, Current) :
        dep.required => dep \in ToSet(waiting) \/ <<dep.service, dep.condition>> \in held

Informed == Holding(stack, status) \subseteq held

LEMMA WorldStep ==
    ASSUME [Next]_vars
    PROVE  /\ stack' = stack /\ command' = command
           /\ held \subseteq held'
           /\ Informed => Informed'
  <1> DEFINE Observed == (\E s, state : Becomes(s, state)) \/ UNCHANGED world
  <1>1. stack' = stack /\ command' = command /\ Observed
    <2>1. CASE UNCHANGED vars
      BY <2>1 DEF vars, world
    <2>2. CASE Step
      BY <2>2 DEF Step, SortTargets, TakeService, SkipAbsent, WaitForDependency, StartService, EndUp,
         BeginWatch, Sleep, SeenGood, SeenBad, ReviveStops, Relaunch, EndRound, BeginDown,
         StopService, EndDown
    <2>3. CASE Killed
      BY <2>3 DEF Killed
    <2>4. CASE \E s \in DOMAIN stack : Turn(s)
      BY <2>4 DEF Turn
    <2>5. QED
      BY <2>1, <2>2, <2>3, <2>4 DEF Next
  <1>2. QED
    BY <1>1 DEF Becomes, world, Informed

DepInv == Informed /\ Awaited /\ DependenciesFirst

LEMMA DependenciesKept == Typed /\ DepInv /\ [Next]_vars => DepInv'
  <1> SUFFICES ASSUME Typed, DepInv, [Next]_vars PROVE DepInv'
    OBVIOUS
  <1>w. stack' = stack /\ held \subseteq held' /\ Informed'
    BY WorldStep DEF DepInv
  <1>a. UNCHANGED <<pc, todo, waiting>> => Awaited'
    BY <1>w DEF DepInv, Awaited, Current
  <1>b. pc' # "await" => Awaited'
    BY DEF Awaited
  <1>d. started' = started => DependenciesFirst'
    BY <1>w DEF DepInv, DependenciesFirst
  <1>h. waiting # <<>> => ToSet(waiting) = {Head(waiting)} \cup ToSet(Tail(waiting))
    BY HeadAndTail DEF Typed, TypeOK
  <1>0. CASE UNCHANGED vars
    BY <1>0, <1>w, <1>a, <1>d DEF vars, loop, DepInv
  <1>1. CASE TakeService
    <2>1. CASE Current \in DOMAIN stack
      <3>1. waiting' = dependency_specs(stack[Current]) /\ todo' = todo
        BY <1>1, <2>1 DEF TakeService
      <3>2. Needs(stack, Current) \subseteq ToSet(waiting')
        BY <3>1 DEF Needs
      <3>3. Awaited'
        BY <1>w, <3>1, <3>2 DEF Awaited, Current
      <3>4. QED
        BY <1>1, <3>3, <1>w, <1>d DEF TakeService, DepInv
    <2>2. CASE Current \notin DOMAIN stack
      BY <1>1, <2>2, <1>w, <1>b, <1>d DEF TakeService, NextService, DepInv
    <2>3. QED
      BY <2>1, <2>2
  <1>2. CASE SkipAbsent
    <2>1. \A dep \in Needs(stack, Current) : dep # Head(waiting)
      BY <1>2 DEF SkipAbsent, Needs
    <2>2. Awaited'
      BY <1>2, <2>1, <1>w, <1>h DEF SkipAbsent, DepInv, Awaited, Current
    <2>3. QED
      BY <1>2, <2>2, <1>w, <1>d DEF SkipAbsent, DepInv
  <1>3. CASE WaitForDependency
    <2> DEFINE first == Head(waiting)
    <2>1. /\ waiting # <<>> /\ pc = "await" /\ started' = started /\ Current \in DOMAIN stack
          /\ \/ /\ Met(stack[first.service], status[first.service], first.condition)
                /\ waiting' = Tail(waiting) /\ UNCHANGED <<pc, todo>>
             \/ UNCHANGED <<pc, todo, waiting>>
             \/ ~first.required /\ waiting' = Tail(waiting) /\ UNCHANGED <<pc, todo>>
             \/ pc' = "service"
      BY <1>3 DEF WaitForDependency, NextService, Typed, Positions
    <2>2. CASE /\ Met(stack[first.service], status[first.service], first.condition)
               /\ waiting' = Tail(waiting) /\ UNCHANGED <<pc, todo>>
      <3>1. first \in Needs(stack, Current) => <<first.service, first.condition>> \in held
        BY <2>1, <2>2 DEF DepInv, Informed, Holding
      <3>2. Awaited'
        BY <2>1, <2>2, <3>1, <1>w, <1>h DEF DepInv, Awaited, Current
      <3>3. QED
        BY <2>1, <3>2, <1>w, <1>d DEF DepInv
    <2>3. CASE ~first.required /\ waiting' = Tail(waiting) /\ UNCHANGED <<pc, todo>>
      <3>1. Awaited'
        BY <2>1, <2>3, <1>w, <1>h DEF DepInv, Awaited, Current
      <3>2. QED
        BY <2>1, <3>1, <1>w, <1>d DEF DepInv
    <2>4. CASE UNCHANGED <<pc, todo, waiting>> \/ pc' = "service"
      BY <2>1, <2>4, <1>a, <1>b, <1>d, <1>w DEF DepInv
    <2>5. QED
      BY <2>1, <2>2, <2>3, <2>4
  <1>4. CASE StartService
    <2>1. \A dep \in Needs(stack, Current) : dep.required => <<dep.service, dep.condition>> \in held
      BY <1>4, EmptyToSet DEF StartService, DepInv, Awaited
    <2>2. started' \subseteq started \cup {Current}
      BY <1>4 DEF StartService
    <2>3. DependenciesFirst'
      BY <2>1, <2>2, <1>w DEF DepInv, DependenciesFirst
    <2>4. QED
      BY <1>4, <2>3, <1>b, <1>w DEF StartService, NextService, DepInv
  <1>5. CASE SortTargets \/ EndUp \/ BeginWatch \/ Sleep \/ SeenGood \/ SeenBad \/ ReviveStops
             \/ Relaunch \/ EndRound \/ BeginDown \/ StopService \/ EndDown \/ Killed
    <2>1. started' = started /\ pc' # "await"
      BY <1>5 DEF SortTargets, NextService, EndUp, BeginWatch, Sleep, SeenGood, SeenBad, ReviveStops,
         Relaunch, EndRound, BeginDown, StopService, EndDown, Killed
    <2>2. QED
      BY <2>1, <1>b, <1>d, <1>w DEF DepInv
  <1>6. CASE \E s \in DOMAIN stack : Turn(s)
    BY <1>6, <1>a, <1>d, <1>w DEF Turn, loop, DepInv
  <1>7. QED
    BY <1>0, <1>1, <1>2, <1>3, <1>4, <1>5, <1>6 DEF Next, Step

\* For all stacks: what a service needs was seen to hold before it was started.
THEOREM DependenciesComeFirst == Spec => []DependenciesFirst
  <1>1. Init => DepInv
    BY DEF Init, DepInv, Informed, Awaited, DependenciesFirst
  <1>2. DepInv => DependenciesFirst
    BY DEF DepInv
  <1>3. QED
    BY <1>1, <1>2, TypesHold, TypesKept, DependenciesKept, PTL DEF Spec, Typed

-----------------------------------------------------------------------------
(* The order of a command. *)

\* What has been sorted: the order of the targets, from then on.
Sorted ==
    command.name # "watch" =>
        /\ pc \in {"service", "await", "sleep", "poll", "revive", "relaunch"}
            => order = OrderOf(stack, command.targets) /\ order # Invalid
        /\ pc = "refused" => OrderOf(stack, command.targets) = Invalid

LEMMA SortedKept == Typed /\ Sorted /\ [Next]_vars => Sorted'
  <1> SUFFICES ASSUME Typed, Sorted, [Next]_vars PROVE Sorted'
    OBVIOUS
  <1>w. stack' = stack /\ command' = command
    BY WorldStep
  <1>0. CASE UNCHANGED vars
    BY <1>0, <1>w DEF vars, loop, Sorted
  <1>1. CASE SortTargets
    BY <1>1, <1>w DEF SortTargets, NextService, Sorted
  <1>2. CASE BeginWatch
    BY <1>2, <1>w DEF BeginWatch, Sorted
  <1>3. CASE BeginDown \/ StopService \/ EndDown \/ Killed
    BY <1>3, <1>w DEF BeginDown, StopService, EndDown, Killed, Sorted
  <1>4. CASE TakeService \/ SkipAbsent \/ WaitForDependency \/ StartService \/ EndUp
             \/ Sleep \/ SeenGood \/ SeenBad \/ ReviveStops \/ Relaunch \/ EndRound
    <2> DEFINE After == {"service", "await", "sleep", "poll", "revive", "relaunch"}
    <2>1. order' = order /\ pc \in After /\ pc' \in After \cup {"done", "failed"}
      BY <1>4 DEF TakeService, SkipAbsent, WaitForDependency, StartService, EndUp, NextService, loop,
         Sleep, SeenGood, SeenBad, ReviveStops, Relaunch, EndRound
    <2>2. QED
      BY <2>1, <1>w DEF Sorted
  <1>5. CASE \E s \in DOMAIN stack : Turn(s)
    BY <1>5, <1>w DEF Turn, loop, Sorted
  <1>6. QED
    BY <1>0, <1>1, <1>2, <1>3, <1>4, <1>5 DEF Next, Step

\* For all stacks and targets: `up` finds an order just where one exists, and
\* the one it finds has each service once, after what it depends on, and no other.
THEOREM OrderComesSound == Spec => []OrderIsSound
  <1>1. Init => Sorted
    BY DEF Init, Sorted
  <1>2. Typed /\ Sorted => OrderIsSound
    <2> SUFFICES ASSUME Typed, Sorted, command.name # "watch" PROVE OrderIsSound
      BY DEF OrderIsSound
    <2> DEFINE targets == command.targets
    <2>1. stack \in Stacks /\ targets \in Seq(Services)
      BY TargetsTyped DEF Typed, TypeOK
    <2>2. IF OrderOf(stack, targets) = Invalid THEN Unsortable(stack, ToSet(targets))
          ELSE /\ InOrder(stack, ToSet(targets), OrderOf(stack, targets))
               /\ ToSet(targets) \subseteq ToSet(OrderOf(stack, targets))
      BY <2>1, OrderIs
    <2>3. CASE pc \in {"service", "await"}
      <3>1. InOrder(stack, ToSet(targets), order) /\ ToSet(targets) \subseteq ToSet(order)
        BY <2>2, <2>3 DEF Sorted
      <3>2. ToSet(targets) \in SUBSET Services
        BY <2>1 DEF ToSet
      <3>3. ToSet(order) = Reachable(stack, ToSet(targets)) /\ ~Unsortable(stack, ToSet(targets))
        BY <2>1, <3>1, <3>2, InOrderIsEnough
      <3>4. DOMAIN order = 1 .. Len(order)
        BY <3>1 DEF InOrder
      <3>5. QED
        BY <2>3, <3>1, <3>3, <3>4 DEF OrderIsSound, InOrder
    <2>4. CASE pc \notin {"service", "await"}
      BY <2>2, <2>4 DEF Sorted, OrderIsSound
    <2>5. QED
      BY <2>3, <2>4
  <1>3. QED
    BY <1>1, <1>2, TypesHold, TypesKept, SortedKept, PTL DEF Spec, Typed

-----------------------------------------------------------------------------
(* Restarts. *)

Reviving(s) == pc = "revive" /\ s = Current

\* The attempts a service has used, and how far the next one is away.
Counted(s) ==
    /\ pc # "killed" => attempts[s] = streak[s] + IF Reviving(s) THEN 1 ELSE 0
    /\ streak[s] <= attempts[s] /\ attempts[s] <= stack[s].max_restarts
    /\ stack[s].restart = "no" => attempts[s] = 0
    /\ Reviving(s) => quiet[s] >= Owed(s) /\ restart_after[s] = RestartDelay(stack[s], attempts[s])
    /\ ~Reviving(s) /\ pc # "killed" => restart_after[s] + quiet[s] >= Owed(s)

RestartInv == \A s \in DOMAIN stack : Counted(s)

LEMMA DeadlineNears ==
    ASSUME NEW n \in Nat, NEW r \in 0 .. 300, NEW q \in 0 .. 300, NEW o \in 0 .. 300, r + q >= o
    PROVE  (IF n < r THEN r - n ELSE 0) + AtMost(q + n, o) >= o
  <1>1. CASE n < r
    BY <1>1 DEF AtMost
  <1>2. CASE ~(n < r)
    BY <1>2 DEF AtMost
  <1>3. QED
    BY <1>1, <1>2

LEMMA RestartsKept == Typed /\ RestartInv /\ [Next]_vars => RestartInv'
  <1> SUFFICES ASSUME Typed, RestartInv, [Next]_vars, NEW s \in DOMAIN stack'
               PROVE  Counted(s)'
    BY DEF RestartInv
  <1>w. stack' = stack /\ s \in DOMAIN stack /\ Counted(s)
    BY WorldStep DEF RestartInv
  <1>t. /\ s \in Services /\ stack[s] \in Service /\ SupervisionTyped /\ SupervisionTyped'
        /\ Owed(s) \in 0 .. 300 /\ Owed(s)' \in 0 .. 300
    <2>1. Typed' /\ stack \in Stacks
      BY TypesKept DEF Typed, TypeOK
    <2>2. SupervisionTyped /\ SupervisionTyped'
      BY <2>1 DEF Typed, TypeOK, SupervisionTyped
    <2>3. s \in Services /\ stack[s] \in Service
      BY <1>w, <2>1, StackTyped
    <2>4. Owed(s) \in 0 .. 300 /\ Owed(s)' \in 0 .. 300
      <3>1. streak'[s] \in Nat /\ stack[s].restart_backoff_seconds \in Nat
        BY <2>2, <2>3 DEF SupervisionTyped, Service
      <3>2. Owed(s)' \in 0 .. 300
        BY <3>1, <1>w, WaitTyped, ZenonT(60) DEF Owed
      <3>3. QED
        BY <2>1, <2>2, <2>3, <3>2, OwedTyped
    <2>5. QED
      BY <2>2, <2>3, <2>4
  <1>n. /\ attempts[s] \in Nat /\ streak[s] \in Nat /\ stack[s].max_restarts \in Nat
        /\ restart_after[s] \in 0 .. 300 /\ quiet[s] \in 0 .. 300
    BY <1>t DEF SupervisionTyped, Service
  <1>k. pc = "killed" => pc' = "killed"
    BY DEF Next, Step, vars, SortTargets, TakeService, SkipAbsent, WaitForDependency, StartService,
       EndUp, BeginWatch, Sleep, SeenGood, SeenBad, ReviveStops, Relaunch, EndRound, BeginDown,
       StopService, EndDown, Killed, Ended, Turn
  <1>o. streak'[s] = streak[s] => Owed(s)' = Owed(s)
    BY <1>w DEF Owed
  <1>u. (attempts'[s] = attempts[s] /\ streak'[s] = streak[s] /\ quiet'[s] = quiet[s]
         /\ restart_after'[s] = restart_after[s] /\ Reviving(s)' = Reviving(s)) => Counted(s)'
    BY <1>w, <1>k, <1>o DEF Counted
  <1>z. (attempts'[s] = 0 /\ streak'[s] = 0 /\ quiet'[s] = 0 /\ restart_after'[s] = 0
         /\ ~Reviving(s)') => Counted(s)'
    BY <1>w, <1>n DEF Counted, Owed
  <1>1. CASE UNCHANGED <<supervision, pc, todo>>
    BY <1>1, <1>u DEF supervision, Reviving, Current
  <1>2. CASE UNCHANGED supervision /\ pc # "revive" /\ pc' # "revive"
    BY <1>2, <1>u DEF supervision, Reviving
  <1>3. CASE Sleep
    <2>1. PICK n \in Elapsed :
              /\ restart_after' = [t \in Services |-> IF n < restart_after[t] THEN restart_after[t] - n ELSE 0]
              /\ quiet' = [t \in Services |-> AtMost(quiet[t] + n, Owed(t))]
      BY <1>3 DEF Sleep
    <2>2. n \in Nat
      BY StackRunAssumption
    <2>3. /\ restart_after'[s] = IF n < restart_after[s] THEN restart_after[s] - n ELSE 0
          /\ quiet'[s] = AtMost(quiet[s] + n, Owed(s))
      BY <2>1, <1>t
    <2>4. attempts' = attempts /\ streak' = streak /\ ~Reviving(s) /\ ~Reviving(s)'
      BY <1>3 DEF Sleep, Reviving
    <2>5. pc = "sleep" /\ restart_after[s] + quiet[s] >= Owed(s)
      BY <1>3, <1>w, <2>4 DEF Counted, Sleep
    <2>6. restart_after'[s] + quiet'[s] >= Owed(s)
      BY <2>2, <2>3, <2>5, <1>n, <1>t, DeadlineNears, ZenonT(60)
    <2>7. QED
      BY <2>4, <2>5, <2>6, <1>w, <1>o DEF Counted
  <1>4. CASE SeenGood
    <2>1. CASE s = Current
      BY <1>4, <2>1, <1>t, <1>z DEF SeenGood, SupervisionTyped, Reviving
    <2>2. CASE s # Current
      BY <1>4, <2>2, <1>t, <1>u DEF SeenGood, SupervisionTyped, Reviving
    <2>3. QED
      BY <2>1, <2>2
  <1>5. CASE SeenBad
    <2>0. pc = "poll" /\ ~Reviving(s) /\ streak' = streak /\ quiet' = quiet
      BY <1>5 DEF SeenBad, Reviving
    <2>1. CASE todo' = Tail(todo) /\ UNCHANGED <<pc, attempts, restart_after>>
      BY <1>5, <2>0, <2>1, <1>u DEF SeenBad, Reviving
    <2>2. CASE CountAttempt(Current) /\ pc' = "revive" /\ todo' = todo /\ s # Current
      BY <1>5, <2>0, <2>2, <1>t, <1>u, ZenonT(60) DEF SeenBad, CountAttempt, SupervisionTyped, Reviving, Current
    <2>3. CASE /\ CountAttempt(Current) /\ pc' = "revive" /\ todo' = todo /\ s = Current
               /\ stack[s].restart # "no" /\ restart_is_due(s)
      <3>1. /\ Reviving(s)' /\ attempts'[s] = attempts[s] + 1
            /\ restart_after'[s] = RestartDelay(stack[s], attempts[s] + 1)
        BY <2>3, <1>t DEF CountAttempt, SupervisionTyped, Reviving, Current
      <3>2. restart_after[s] = 0 /\ attempts[s] < stack[s].max_restarts
        BY <2>3 DEF restart_is_due
      <3>3. quiet[s] >= Owed(s) /\ attempts[s] = streak[s]
        BY <2>0, <3>2, <1>w, <1>n, <1>t DEF Counted
      <3>4. QED
        BY <2>0, <2>3, <3>1, <3>2, <3>3, <1>w, <1>n, <1>o DEF Counted
    <2>4. QED
      BY <1>5, <2>1, <2>2, <2>3 DEF SeenBad
  <1>6. CASE ReviveStops
    <2>1. CASE s = Current
      <3>1. /\ Reviving(s) /\ ~Reviving(s)' /\ attempts' = attempts /\ restart_after' = restart_after
            /\ streak'[s] = streak[s] + 1 /\ quiet'[s] = 0
        BY <1>6, <2>1, <1>t DEF ReviveStops, Reviving, SupervisionTyped
      <3>2. attempts[s] = streak'[s] /\ restart_after[s] = RestartDelay(stack[s], attempts[s])
        BY <1>6, <3>1, <1>w DEF Counted, ReviveStops
      <3>3. Owed(s)' = RestartDelay(stack[s], attempts[s])
        <4>1. streak'[s] # 0
          BY <3>1, <1>n
        <4>2. Owed(s)' = AtMost(300, stack[s].restart_backoff_seconds * Shift[AtMost(9, streak'[s])])
          BY <4>1, <1>w DEF Owed
        <4>3. AtMost(9, attempts[s]) = AtMost(attempts[s], 9)
          BY <1>n DEF AtMost
        <4>4. Shift[AtMost(9, attempts[s])] \in Nat
          <5>1. AtMost(9, attempts[s]) \in 1 .. 9
            BY <3>2, <4>1, <1>n DEF AtMost
          <5>2. QED
            BY <5>1 DEF Shift
        <4>5. \A p, q \in Nat : AtMost(300, p * q) = AtMost(p * q, 300)
          BY DEF AtMost
        <4>6. QED
          BY <3>2, <4>2, <4>3, <4>4, <4>5, <1>t DEF RestartDelay, Service
      <3>4. QED
        BY <3>1, <3>2, <3>3, <1>w, <1>n, <1>t DEF Counted
    <2>2. CASE s # Current
      BY <1>6, <2>2, <1>t, <1>u DEF ReviveStops, SupervisionTyped, Reviving
    <2>3. QED
      BY <2>1, <2>2
  <1>7. QED
    <2>1. CASE UNCHANGED vars
      BY <2>1, <1>1 DEF vars, loop
    <2>2. CASE SortTargets \/ TakeService \/ SkipAbsent \/ WaitForDependency \/ StartService \/ EndUp
               \/ BeginWatch \/ Relaunch \/ EndRound \/ BeginDown \/ StopService \/ EndDown
      <3>1. UNCHANGED supervision /\ pc # "revive" /\ pc' # "revive"
        BY <2>2 DEF SortTargets, NextService, TakeService, SkipAbsent, WaitForDependency, StartService,
           EndUp, BeginWatch, Relaunch, EndRound, BeginDown, StopService, EndDown
      <3>2. QED
        BY <3>1, <1>2
    <2>3. CASE Killed
      <3>1. CASE pc = "revive"
        <4>1. pc' = "killed" /\ ~Reviving(s)' /\ UNCHANGED supervision
          BY <2>3 DEF Killed, Reviving
        <4>2. QED
          BY <4>1, <1>w, <1>n DEF Counted, supervision
      <3>2. QED
        BY <2>3, <3>1, <1>2 DEF Killed
    <2>4. CASE \E t \in DOMAIN stack : Turn(t)
      BY <2>4, <1>1 DEF Turn, loop
    <2>5. QED
      BY <2>1, <2>2, <2>3, <2>4, <1>3, <1>4, <1>5, <1>6 DEF Next, Step

LEMMA RestartsHold == Init => RestartInv
  <1> SUFFICES ASSUME Init, NEW s \in DOMAIN stack PROVE Counted(s)
    BY DEF RestartInv
  <1>1. s \in Services /\ stack[s].max_restarts \in Nat
    BY TypesHold, StackTyped DEF TypeOK, Service
  <1>2. attempts[s] = 0 /\ streak[s] = 0 /\ restart_after[s] = 0 /\ quiet[s] = 0 /\ pc = "begin"
    BY <1>1 DEF Init
  <1>3. Owed(s) = 0
    BY <1>2 DEF Owed
  <1>4. QED
    BY <1>1, <1>2, <1>3 DEF Counted, Reviving

\* For all stacks: a service has at most its max_restarts in a row.
THEOREM RestartsAreFew == Spec => []RestartsAreBounded
  <1>1. Typed /\ RestartInv => RestartsAreBounded
    <2> SUFFICES ASSUME Typed, RestartInv, NEW s \in DOMAIN stack
                 PROVE  streak[s] <= IF stack[s].restart = "no" THEN 0 ELSE stack[s].max_restarts
      BY DEF RestartsAreBounded
    <2>1. attempts[s] \in Nat /\ streak[s] \in Nat /\ stack[s].max_restarts \in Nat
      BY StackTyped DEF Typed, TypeOK, Service
    <2>2. QED
      BY <2>1 DEF RestartInv, Counted
  <1>2. QED
    BY <1>1, RestartsHold, TypesHold, TypesKept, RestartsKept, PTL DEF Spec, Typed

\* For all stacks, and all times between two polls: restarts in a row are
\* further apart each time, up to five minutes.
THEOREM RestartsComeSpaced == Spec => RestartsAreSpaced
  <1>1. Typed /\ RestartInv /\ [Next]_vars
        => [\A s \in DOMAIN stack : streak'[s] > streak[s] => quiet[s] >= Owed(s)]_vars
    <2> SUFFICES ASSUME Typed, RestartInv, Next, NEW s \in DOMAIN stack, streak'[s] > streak[s]
                 PROVE  quiet[s] >= Owed(s)
      OBVIOUS
    <2>1. s \in Services /\ streak \in [Services -> Nat]
      BY StackTyped DEF Typed, TypeOK
    <2>2. streak' # streak
      BY <2>1
    <2>3. CASE ReviveStops
      BY <2>1, <2>3 DEF ReviveStops, RestartInv, Counted, Reviving
    <2>4. CASE SeenGood
      BY <2>1, <2>4 DEF SeenGood
    <2>5. QED
      BY <2>2, <2>3, <2>4 DEF Next, Step, SortTargets, TakeService, SkipAbsent, WaitForDependency,
         StartService, EndUp, BeginWatch, Sleep, SeenBad, Relaunch, EndRound, BeginDown,
         StopService, EndDown, Killed, Turn, supervision
  <1>2. QED
    BY <1>1, RestartsHold, TypesHold, TypesKept, RestartsKept, PTL DEF Spec, Typed, RestartsAreSpaced

-----------------------------------------------------------------------------
(* Success. *)

Supervising == {"sleep", "poll", "revive", "relaunch"}

\* Which part of the command runs where.
Stage ==
    /\ pc = "begin" => ~failed
    /\ pc \in {"service", "await"} => command.name \in {"up", "restart"}
    /\ pc = "sort" => command.name = "restart"
    /\ pc = "stop" => command.name \in {"down", "restart"}
    /\ pc \in Supervising => command.name # "down"
    /\ pc = "done" => command.name # "watch"

\* What is not started or stopped yet is still to come, or has failed.
Progress ==
    /\ pc \in {"service", "await"} /\ ~failed => ToSet(order) \subseteq started \cup ToSet(todo)
    /\ pc \in Supervising \cup {"done"} /\ command.name \in {"up", "restart"}
        => ToSet(order) \subseteq started
    /\ pc = "stop" /\ ~failed => ToSet(command.targets) \subseteq stopped \cup ToSet(todo)
    /\ pc = "done" /\ command.name = "down"
        => ToSet(command.targets) \subseteq stopped /\ (command.volumes => volumes = "gone")

Stopped ==
    command.name = "restart" =>
        /\ pc \in {"begin", "stop"} => started = {}
        /\ pc \in {"sort", "service", "await"} \/ started # {}
            => ToSet(command.targets) \subseteq stopped

SuccessInv == Stage /\ Progress /\ Stopped

LEMMA SuccessKept == Typed /\ SuccessInv /\ [Next]_vars => SuccessInv'
  <1> SUFFICES ASSUME Typed, SuccessInv, [Next]_vars PROVE SuccessInv'
    OBVIOUS
  <1> USE DEF SuccessInv, Stage, Progress, Stopped, Supervising
  <1>w. command' = command
    BY WorldStep
  <1>h. todo # <<>> => ToSet(todo) = {Current} \cup ToSet(Tail(todo))
    BY HeadAndTail DEF Typed, TypeOK, Current
  <1>u. UNCHANGED <<pc, order, todo, failed, volumes, started, stopped>> => SuccessInv'
    BY <1>w
  <1>0. CASE UNCHANGED vars
    BY <1>0, <1>u DEF vars, loop
  <1>1. CASE SortTargets
    BY <1>1, <1>w DEF SortTargets, NextService, loop
  <1>2. CASE TakeService
    BY <1>2, <1>w DEF TakeService, NextService
  <1>3. CASE SkipAbsent
    BY <1>3, <1>u DEF SkipAbsent
  <1>4. CASE WaitForDependency
    BY <1>4, <1>w DEF WaitForDependency, NextService
  <1>5. CASE StartService
    <2>1. /\ pc = "await" /\ pc' = "service" /\ todo' = Tail(todo)
          /\ UNCHANGED <<order, volumes, stopped>>
          /\ \/ started' = started \cup {Current} /\ failed' = failed
             \/ failed' = TRUE /\ started' = started
      BY <1>5 DEF StartService, NextService
    <2>2. todo # <<>>
      BY <2>1 DEF Typed, Positions
    <2>3. QED
      BY <2>1, <2>2, <1>w, <1>h
  <1>6. CASE EndUp
    BY <1>6, <1>w, EmptyToSet DEF EndUp, loop
  <1>7. CASE BeginWatch \/ BeginDown
    BY <1>7, <1>w, CommandTyped DEF BeginWatch, BeginDown
  <1>8. CASE Sleep \/ SeenGood \/ SeenBad \/ ReviveStops \/ Relaunch \/ EndRound
    <2>1. /\ pc \in Supervising /\ pc' \in Supervising
          /\ UNCHANGED <<order, failed, volumes, started, stopped>>
      BY <1>8 DEF Sleep, SeenGood, SeenBad, ReviveStops, Relaunch, EndRound, loop
    <2>2. QED
      BY <2>1, <1>w
  <1>9. CASE StopService
    BY <1>9, <1>w, <1>h DEF StopService
  <1>10. CASE EndDown
    BY <1>10, <1>w, EmptyToSet DEF EndDown, loop
  <1>11. CASE Killed
    BY <1>11, <1>w DEF Killed, loop
  <1>12. CASE \E s \in DOMAIN stack : Turn(s)
    BY <1>12, <1>u DEF Turn, loop
  <1>13. QED
    BY <1>0, <1>1, <1>2, <1>3, <1>4, <1>5, <1>6, <1>7, <1>8, <1>9, <1>10, <1>11, <1>12 DEF Next, Step

\* For all stacks and commands: none reports success of what has not been done.
THEOREM SuccessIsWhole == Spec => []SuccessIsComplete
  <1>1. Init => SuccessInv
    BY DEF Init, SuccessInv, Stage, Progress, Stopped, Supervising
  <1>2. SuccessInv => SuccessIsComplete
    BY DEF SuccessInv, Stage, Progress, Stopped, Supervising, SuccessIsComplete
  <1>3. QED
    BY <1>1, <1>2, TypesHold, TypesKept, SuccessKept, PTL DEF Spec, Typed
=============================================================================
