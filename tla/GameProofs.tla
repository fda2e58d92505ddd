------------------------------- MODULE GameProofs -------------------------------
(***************************************************************************)
(* What a game is started with, proved for any manifests, documents, rules  *)
(* and arguments (LaunchArguments), and for any instances and options that  *)
(* are kept in sync (Syncing); and what is shown of its output, for any     *)
(* texts, files, searches and sizes (FenwickTree, GameOutput, LogPage).     *)
(*                                                                          *)
(* Many operators of the models are recursive functions over a sequence.    *)
(* Such a function exists because the one that is unrolled step by step     *)
(* does (Recursion), and what it computes is proved by induction on a set   *)
(* of numbers, which needs no theorem with an operator for a parameter.     *)
(***************************************************************************)
EXTENDS LaunchArguments, Syncing, LogPage, SequenceTheorems, WellFoundedInduction, TLAPS

-----------------------------------------------------------------------------
(* Induction and recursion over numbers.                                     *)

LEMMA NatSetInduction ==
  ASSUME NEW S, 0 \in S, \A n \in Nat : n \in S => n + 1 \in S
  PROVE  Nat \subseteq S
<1> DEFINE R == {p \in Nat \X Nat : p[1] < p[2]}
           T == Nat \ S
<1>1. SUFFICES ASSUME T # {} PROVE FALSE
  OBVIOUS
<1>2. PICK x \in T : \A y \in T : ~ (<<y, x>> \in R)
  <2>1. IsWellFoundedOn(R, Nat)
    BY NatLessThanWellFounded DEF OpToRel
  <2>2. T \subseteq Nat
    OBVIOUS
  <2> QED BY <2>1, <2>2, <1>1, WFMin
<1>3. x - 1 \in Nat /\ x - 1 \notin S
  BY <1>2
<1>4. <<x - 1, x>> \in R
  BY <1>3, <1>2
<1> QED BY <1>2, <1>3, <1>4

LEMMA UpToInduction ==
  ASSUME NEW N \in Nat, NEW S, 0 \in S, \A n \in 0..(N - 1) : n \in S => n + 1 \in S
  PROVE  0..N \subseteq S
<1> DEFINE T == S \cup {n \in Nat : n > N}
<1>1. 0 \in T
  OBVIOUS
<1>2. ASSUME NEW n \in Nat, n \in T PROVE n + 1 \in T
  <2>1. CASE n \in S /\ n < N
    <3>1. n \in 0..(N - 1)
      BY <2>1
    <3> QED BY <3>1, <2>1
  <2>2. CASE n >= N
    BY <2>2
  <2> QED BY <1>2, <2>1, <2>2
<1>3. Nat \subseteq T
  <2> HIDE DEF T
  <2> QED BY <1>1, <1>2, NatSetInduction
<1> QED BY <1>3

IsStep(step, V, N) == step \in [V \X (1..N) -> V]
Unrolls(g, V, N, base, step) ==
    /\ g \in [0..N -> V] /\ g[0] = base
    /\ \A n \in 1..N : g[n] = step[<<g[n - 1], n>>]

LEMMA Recursion ==
  ASSUME NEW N \in Nat, NEW V, NEW base \in V, NEW step, IsStep(step, V, N)
  PROVE  \E g : Unrolls(g, V, N, base, step)
<1> USE DEF IsStep, Unrolls
<1> DEFINE Good(g, m) == /\ g \in [0..m -> V] /\ g[0] = base
                         /\ \A n \in 1..m : g[n] = step[<<g[n - 1], n>>]
           S == {m \in Nat : \E g : Good(g, m)}
<1>1. 0 \in S
  <2>1. Good([n \in 0..0 |-> base], 0)
    OBVIOUS
  <2> QED BY <2>1
<1>2. ASSUME NEW m \in 0..(N - 1), m \in S PROVE m + 1 \in S
  <2>2. PICK g : Good(g, m)
    BY <1>2
  <2>3. m \in Nat /\ g[m] \in V /\ step[<<g[m], m + 1>>] \in V
    <3>1. m + 1 \in 1..N /\ g[m] \in V
      BY <2>2
    <3>2. <<g[m], m + 1>> \in V \X (1..N)
      BY <3>1
    <3> QED BY <3>1, <3>2
  <2> DEFINE h == [n \in 0..(m + 1) |-> IF n <= m THEN g[n] ELSE step[<<g[m], m + 1>>]]
  <2>4. h \in [0..(m + 1) -> V]
    BY <2>2, <2>3
  <2>5. ASSUME NEW n \in 1..(m + 1) PROVE h[n] = step[<<h[n - 1], n>>]
    <3>1. CASE n <= m
      BY <3>1, <2>2
    <3>2. CASE n = m + 1
      <4>1. h[m] = g[m]
        BY <2>3
      <4>2. h[m + 1] = step[<<g[m], m + 1>>]
        BY <2>3
      <4> HIDE DEF h
      <4> QED BY <3>2, <4>1, <4>2, <2>3, (m + 1) - 1 = m
    <3> QED BY <3>1, <3>2
  <2>6. h[0] = base
    BY <2>2
  <2>7. Good(h, m + 1)
    BY <2>4, <2>5, <2>6
  <2>8. \E f : Good(f, m + 1)
    <3> HIDE DEF h, Good
    <3> QED BY <2>7
  <2> QED BY <2>8, <2>3
<1> HIDE DEF S
<1>3. 0..N \subseteq S
  BY <1>1, <1>2, UpToInduction
<1>4. PICK g : Good(g, N)
  BY <1>3, N \in 0..N DEF S
<1> QED BY <1>4

-----------------------------------------------------------------------------
(* Sequences put together.                                                   *)

LEMMA FlattenIs ==
  ASSUME NEW A, NEW s \in Seq(Seq(A)), s # <<>>
  PROVE  \E f \in [1..Len(s) -> Seq(A)] :
            /\ \A i \in 1..Len(s) : f[i] = IF i = 1 THEN s[i] ELSE f[i - 1] \o s[i]
            /\ FlattenSeq(s) = f[Len(s)]
<1> DEFINE N == Len(s)
           step == [p \in Seq(A) \X (1..N) |-> p[1] \o s[p[2]]]
           Body(f) == [i \in 1..N |-> IF i = 1 THEN s[i] ELSE f[i - 1] \o s[i]]
           flatten[i \in 1..N] == IF i = 1 THEN s[i] ELSE flatten[i-1] \o s[i]
<1>0. N \in Nat \ {0} /\ \A i \in 1..N : s[i] \in Seq(A)
  OBVIOUS
<1>1. \A n \in 1..N, v \in Seq(A) : step[<<v, n>>] = v \o s[n] /\ step[<<v, n>>] \in Seq(A)
  <2> TAKE n \in 1..N, v \in Seq(A)
  <2>1. <<v, n>> \in Seq(A) \X (1..N)
    OBVIOUS
  <2>2. step[<<v, n>>] = v \o s[n]
    <3> HIDE DEF N
    <3> QED BY <2>1
  <2>3. v \o s[n] \in Seq(A)
    BY <1>0
  <2> HIDE DEF step
  <2> QED BY <2>2, <2>3
<1>2. PICK g \in [0..N -> Seq(A)] : /\ g[0] = <<>>
                                /\ \A n \in 1..N : g[n] = step[<<g[n - 1], n>>]
  <2> DEFINE V == Seq(A)
             base == <<>>
  <2>1. N \in Nat /\ base \in V
    BY <1>0
  <2>2. IsStep(step, V, N)
    <3>1. \A p \in V \X (1..N) : p[1] \o s[p[2]] \in V
      BY <1>0
    <3> HIDE DEF N
    <3> QED BY <3>1 DEF IsStep
  <2>3. \E g : Unrolls(g, V, N, base, step)
    <3> HIDE DEF step, N, V, base
    <3> QED BY <2>1, <2>2, Recursion
  <2> HIDE DEF step, N
  <2> QED BY <2>3 DEF Unrolls
<1> DEFINE f == [i \in 1..N |-> g[i]]
<1>3. \A i \in 1..N : /\ g[i] = g[i - 1] \o s[i]
                      /\ g[i] = IF i = 1 THEN s[i] ELSE g[i - 1] \o s[i]
  <2> HIDE DEF step, N
  <2> TAKE i \in 1..N
  <2>1. g[i - 1] \in Seq(A) /\ s[i] \in Seq(A)
    BY <1>0
  <2>2. g[i] = g[i - 1] \o s[i]
    BY <1>2, <2>1, <1>1
  <2>3. i = 1 => g[i - 1] = <<>>
    BY <1>2
  <2>4. <<>> \o s[i] = s[i]
    BY <2>1
  <2> QED BY <2>2, <2>3, <2>4
<1>4. f = Body(f)
  <2> HIDE DEF N
  <2>1. \A i \in 1..N : i # 1 => f[i - 1] = g[i - 1]
    BY <1>0
  <2> QED BY <1>3, <2>1
<1>5. flatten = Body(flatten)
  <2> HIDE DEF f, N
  <2> QED BY <1>4 DEF flatten
<1>6. FlattenSeq(s) = flatten[N]
  BY <1>0 DEF FlattenSeq, flatten
<1> HIDE DEF flatten, N
<1>7. \A i \in 1..N : flatten[i] = IF i = 1 THEN s[i] ELSE flatten[i - 1] \o s[i]
  BY <1>5
<1> DEFINE T == {n \in Nat : n \in 1..N => flatten[n] \in Seq(A)}
<1>8. 0..N \subseteq T
  <2>1. 0 \in T
    OBVIOUS
  <2>2. ASSUME NEW n \in 0..(N - 1), n \in T PROVE n + 1 \in T
    <3>1. n + 1 \in 1..N /\ (n + 1) - 1 = n /\ s[n + 1] \in Seq(A)
      BY <1>0
    <3>2. CASE n = 0
      BY <3>1, <3>2, <1>7
    <3>3. CASE n > 0
      <4>1. flatten[n] \in Seq(A)
        BY <2>2, <3>3, <1>0
      <4>2. flatten[n + 1] = flatten[n] \o s[n + 1]
        BY <1>7, <3>1, <3>3, n + 1 # 1
      <4>3. flatten[n] \o s[n + 1] \in Seq(A)
        BY <4>1, <3>1
      <4> QED BY <4>2, <4>3, n + 1 \in Nat
    <3> QED BY <3>2, <3>3
  <2> HIDE DEF T
  <2> QED BY <1>0, <2>1, <2>2, UpToInduction
<1>9. flatten \in [1..N -> Seq(A)]
  <2>1. \A i \in 1..N : flatten[i] \in Seq(A)
    BY <1>8, <1>0
  <2> QED BY <1>5, <2>1
<1> QED BY <1>7, <1>9, <1>6 DEF N

LEMMA FlattenEmpty == FlattenSeq(<<>>) = <<>>
  BY DEF FlattenSeq

LEMMA FlattenType ==
  ASSUME NEW A, NEW s \in Seq(Seq(A))
  PROVE  FlattenSeq(s) \in Seq(A)
<1>1. CASE s = <<>>
  <2>1. <<>> \in Seq(A)
    OBVIOUS
  <2> QED BY <1>1, <2>1, FlattenEmpty, Zenon
<1>2. CASE s # <<>>
  <2>1. Len(s) \in 1..Len(s)
    BY <1>2
  <2> QED BY <2>1, <1>2, FlattenIs
<1> QED BY <1>1, <1>2

LEMMA FlattenAppend ==
  ASSUME NEW A, NEW s \in Seq(Seq(A)), NEW x \in Seq(A)
  PROVE  FlattenSeq(Append(s, x)) = FlattenSeq(s) \o x
<1> DEFINE t == Append(s, x)
<1>a. Len(s) \in Nat /\ t \in Seq(Seq(A)) /\ Len(t) = Len(s) + 1
  OBVIOUS
<1>b. t[Len(s) + 1] = x /\ \A i \in 1..Len(s) : t[i] = s[i]
  OBVIOUS
<1>c. t # <<>>
  <2>1. Len(t) # 0
    BY <1>a
  <2> HIDE DEF t
  <2> QED BY <2>1, <1>a
<1>0. t \in Seq(Seq(A)) /\ t # <<>> /\ Len(t) = Len(s) + 1 /\ t[Len(t)] = x
      /\ Len(s) \in Nat /\ \A i \in 1..Len(s) : t[i] = s[i]
  <2> HIDE DEF t
  <2> QED BY <1>a, <1>b, <1>c
<1>1. PICK f \in [1..Len(t) -> Seq(A)] :
            /\ \A i \in 1..Len(t) : f[i] = IF i = 1 THEN t[i] ELSE f[i - 1] \o t[i]
            /\ FlattenSeq(t) = f[Len(t)]
  <2> HIDE DEF t
  <2> QED BY <1>0, FlattenIs
<1> HIDE DEF t
<1>2. CASE s = <<>>
  <2>1. Len(t) = 1
    BY <1>2, <1>0
  <2>2. FlattenSeq(t) = x
    <3>1. f[1] = t[1] /\ 1 \in 1..Len(t)
      BY <2>1, <1>1
    <3> QED BY <3>1, <2>1, <1>0, <1>1
  <2>3. <<>> \o x = x
    OBVIOUS
  <2> QED BY <2>2, <2>3, <1>2, FlattenEmpty DEF t
<1>3. CASE s # <<>>
  <2>1. PICK g \in [1..Len(s) -> Seq(A)] :
            /\ \A i \in 1..Len(s) : g[i] = IF i = 1 THEN s[i] ELSE g[i - 1] \o s[i]
            /\ FlattenSeq(s) = g[Len(s)]
    BY <1>3, FlattenIs
  <2> DEFINE T == {n \in Nat : n \in 1..Len(s) => f[n] = g[n]}
  <2>2. 0 \in T
    OBVIOUS
  <2>3. ASSUME NEW n \in 0..(Len(s) - 1), n \in T PROVE n + 1 \in T
    <3>1. n + 1 \in 1..Len(s) /\ n + 1 \in 1..Len(t) /\ (n + 1) - 1 = n
      BY <1>0
    <3>2. f[n + 1] = IF n + 1 = 1 THEN t[n + 1] ELSE f[n] \o t[n + 1]
      BY <3>1, <1>1
    <3>3. g[n + 1] = IF n + 1 = 1 THEN s[n + 1] ELSE g[n] \o s[n + 1]
      BY <3>1, <2>1
    <3>4. t[n + 1] = s[n + 1]
      BY <3>1, <1>0
    <3>5. n # 0 => f[n] = g[n]
      BY <2>3, <1>0
    <3> QED BY <3>1, <3>2, <3>3, <3>4, <3>5
  <2> HIDE DEF T
  <2>4. 0..Len(s) \subseteq T
    BY <1>0, <2>2, <2>3, UpToInduction
  <2>5. f[Len(s)] = g[Len(s)] /\ Len(s) # 0
    <3>1. Len(s) # 0
      BY <1>3
    <3>2. Len(s) \in T
      BY <2>4, <1>0, Len(s) \in 0..Len(s)
    <3> QED BY <3>1, <3>2, <1>0 DEF T
  <2>6. f[Len(t)] = f[Len(s)] \o x
    <3>1. Len(t) \in 1..Len(t) /\ Len(t) # 1 /\ Len(t) - 1 = Len(s)
      BY <1>0, <2>5
    <3> QED BY <1>1, <1>0, <3>1
  <2> QED BY <2>1, <2>5, <2>6, <1>1 DEF t
<1> QED BY <1>2, <1>3

Flat(f, n) == FlattenSeq([i \in 1..n |-> f[i]])

LEMMA FlatEmpty == ASSUME NEW f PROVE Flat(f, 0) = <<>>
<1>1. [i \in 1..0 |-> f[i]] = <<>>
  OBVIOUS
<1> QED BY <1>1, FlattenEmpty DEF Flat

LEMMA FlatWhole ==
  ASSUME NEW A, NEW s \in Seq(Seq(A))
  PROVE  Flat(s, Len(s)) = FlattenSeq(s)
<1>1. [i \in 1..Len(s) |-> s[i]] = s
  OBVIOUS
<1> QED BY <1>1 DEF Flat

LEMMA FlatType ==
  ASSUME NEW A, NEW f, NEW n \in Nat, \A i \in 1..n : f[i] \in Seq(A)
  PROVE  Flat(f, n) \in Seq(A)
<1> DEFINE s == [i \in 1..n |-> f[i]]
<1>1. s \in Seq(Seq(A))
  OBVIOUS
<1> HIDE DEF s
<1>2. FlattenSeq(s) \in Seq(A)
  BY <1>1, FlattenType
<1> QED BY <1>2 DEF Flat, s

LEMMA FlatNext ==
  ASSUME NEW A, NEW f, NEW n \in Nat, \A i \in 1..(n + 1) : f[i] \in Seq(A)
  PROVE  Flat(f, n + 1) = Flat(f, n) \o f[n + 1]
<1> DEFINE s == [i \in 1..n |-> f[i]]
           t == [i \in 1..(n + 1) |-> f[i]]
<1>1. s \in Seq(Seq(A)) /\ Len(s) = n
  OBVIOUS
<1>2. f[n + 1] \in Seq(A)
  OBVIOUS
<1>3. t = Append(s, f[n + 1])
  <2>1. t \in Seq(Seq(A)) /\ Len(t) = n + 1 /\ t[n + 1] = f[n + 1] /\ \A i \in 1..n : t[i] = f[i]
    OBVIOUS
  <2>2. \A i \in 1..n : s[i] = f[i]
    OBVIOUS
  <2>3. \A i \in 1..(n + 1) : t[i] = Append(s, f[n + 1])[i]
    <3> HIDE DEF s, t
    <3> QED BY <1>1, <1>2, <2>1, <2>2, SMTT(30)
  <2> HIDE DEF s, t
  <2>4. Append(s, f[n + 1]) \in Seq(Seq(A)) /\ Len(Append(s, f[n + 1])) = n + 1
    BY <1>1, <1>2
  <2> QED BY <2>1, <2>3, <2>4
<1> HIDE DEF s, t
<1>4. FlattenSeq(Append(s, f[n + 1])) = FlattenSeq(s) \o f[n + 1]
  BY <1>1, <1>2, FlattenAppend
<1> QED BY <1>3, <1>4 DEF Flat, s, t

-----------------------------------------------------------------------------
(* Arguments: rules.                                                         *)

Actions == {"allow", "disallow"}

LEMMA RuleActions ==
  ASSUME NEW rules \in Rules
  PROVE  Len(rules) \in Nat /\ \A n \in 1..Len(rules) : rules[n].action \in Actions
<1>1. Len(rules) \in Nat /\ \A n \in 1..Len(rules) : rules[n] \in Rule
  BY ElementOfSeq DEF Rules
<1> QED BY <1>1 DEF Rule, Actions

IsDecision(f, rules, play) ==
    /\ f[0] = "disallow"
    /\ \A n \in 1..Len(rules) :
         f[n] = IF Holds(rules[n], play) THEN rules[n].action ELSE f[n - 1]
    /\ CheckRules(rules, play) <=> f[Len(rules)] = "allow"

LEMMA CheckRulesUnrolls ==
  ASSUME NEW rules \in Rules, NEW play
  PROVE  \E f : IsDecision(f, rules, play)
<1> DEFINE N == Len(rules)
           step == [p \in Actions \X (1..N) |->
                      IF Holds(rules[p[2]], play) THEN rules[p[2]].action ELSE p[1]]
           Body(f) == [n \in 0..N |->
                         IF n = 0 THEN "disallow"
                         ELSE IF Holds(rules[n], play) THEN rules[n].action ELSE f[n - 1]]
           action[n \in 0..N] ==
             IF n = 0 THEN "disallow"
             ELSE IF Holds(rules[n], play) THEN rules[n].action ELSE action[n - 1]
<1>1. N \in Nat /\ \A n \in 1..N : rules[n].action \in Actions
  BY RuleActions
<1>2. PICK g : Unrolls(g, Actions, N, "disallow", step)
  <2>1. IsStep(step, Actions, N)
    <3> HIDE DEF N
    <3> QED BY <1>1 DEF IsStep
  <2>2. "disallow" \in Actions
    BY DEF Actions
  <2> HIDE DEF step, N
  <2> QED BY <1>1, <2>1, <2>2, Recursion
<1>3. \A n \in 1..N : g[n] = IF Holds(rules[n], play) THEN rules[n].action ELSE g[n - 1]
  <2> TAKE n \in 1..N
  <2>1. g[n - 1] \in Actions /\ g[n] = step[<<g[n - 1], n>>]
    <3> HIDE DEF N, step
    <3> QED BY <1>1, <1>2 DEF Unrolls
  <2> HIDE DEF N
  <2> QED BY <2>1
<1>4. g = Body(g)
  <2> HIDE DEF N, step
  <2>1. g = [n \in 0..N |-> g[n]] /\ g[0] = "disallow"
    BY <1>2 DEF Unrolls
  <2>2. \A n \in 0..N : g[n] = IF n = 0 THEN "disallow"
                         ELSE IF Holds(rules[n], play) THEN rules[n].action ELSE g[n - 1]
    <3> TAKE n \in 0..N
    <3>1. CASE n = 0
      BY <3>1, <2>1
    <3>2. CASE n # 0
      <4>1. n \in 1..N
        BY <3>2, <1>1
      <4> QED BY <3>2, <4>1, <1>3
    <3> QED BY <3>1, <3>2
  <2> QED BY <2>1, <2>2
<1>5. action = Body(action)
  <2> HIDE DEF N
  <2> QED BY <1>4 DEF action
<1>6. CheckRules(rules, play) <=> action[N] = "allow"
  BY DEF CheckRules, action
<1> HIDE DEF action, N
<1>7. action[0] = "disallow"
  BY <1>5, <1>1
<1>8. \A n \in 1..N : action[n] = IF Holds(rules[n], play) THEN rules[n].action ELSE action[n - 1]
  BY <1>5, <1>1
<1>9. IsDecision(action, rules, play)
  BY <1>6, <1>7, <1>8 DEF N, IsDecision
<1> QED BY <1>9

LEMMA CheckRulesIs ==
  ASSUME NEW rules \in Rules, NEW play
  PROVE  CheckRules(rules, play) <=> RulesSayYes({rules}, play)
<1>0. PICK f : IsDecision(f, rules, play)
  BY CheckRulesUnrolls
<1>1. /\ f[0] = "disallow"
      /\ \A n \in 1..Len(rules) :
           f[n] = IF Holds(rules[n], play) THEN rules[n].action ELSE f[n - 1]
      /\ CheckRules(rules, play) <=> f[Len(rules)] = "allow"
  BY <1>0 DEF IsDecision
<1> DEFINE Decides(n, i) == Holds(rules[i], play) /\ \A j \in 1..n : Holds(rules[j], play) => j <= i
           S == {n \in Nat : n <= Len(rules) =>
                   /\ f[n] \in Actions
                   /\ f[n] = "allow" <=> \E i \in 1..n : rules[i].action = "allow" /\ Decides(n, i)}
<1>2. Len(rules) \in Nat /\ \A n \in 1..Len(rules) : rules[n].action \in Actions
  BY RuleActions
<1>3. 0 \in S
  BY <1>1 DEF Actions
<1>4. ASSUME NEW n \in 0..(Len(rules) - 1), n \in S PROVE n + 1 \in S
  <2>1. n \in Nat /\ n + 1 \in 1..Len(rules) /\ (n + 1) - 1 = n
    BY <1>2
  <2>2. f[n + 1] = IF Holds(rules[n + 1], play) THEN rules[n + 1].action ELSE f[n]
    BY <1>1, <2>1
  <2>3. f[n] \in Actions /\ (f[n] = "allow" <=> \E i \in 1..n : rules[i].action = "allow" /\ Decides(n, i))
    BY <1>4, <2>1
  <2>4. CASE Holds(rules[n + 1], play)
    <3>1. \A i \in 1..(n + 1) : Decides(n + 1, i) <=> i = n + 1
      BY <2>4, <2>1
    <3>2. \E i \in 1..(n + 1) : i = n + 1
      BY <2>1
    <3> HIDE DEF Decides
    <3> QED BY <2>2, <2>4, <3>1, <3>2, <1>2, <2>1
  <2>5. CASE ~Holds(rules[n + 1], play)
    <3>1. \A i \in 1..n : Decides(n + 1, i) <=> Decides(n, i)
      BY <2>5, <2>1
    <3>2. ~Decides(n + 1, n + 1)
      BY <2>5
    <3>3. \A i \in 1..(n + 1) : i \in 1..n \/ i = n + 1
      BY <2>1
    <3>4. \A i \in 1..n : i \in 1..(n + 1)
      BY <2>1
    <3> HIDE DEF Decides
    <3> QED BY <2>2, <2>5, <3>1, <3>2, <3>3, <3>4, <2>3, <2>1
  <2> QED BY <2>4, <2>5
<1> HIDE DEF S
<1>5. 0..Len(rules) \subseteq S
  BY <1>2, <1>3, <1>4, UpToInduction
<1>6. f[Len(rules)] = "allow" <=> \E i \in 1..Len(rules) : rules[i].action = "allow" /\ Decides(Len(rules), i)
  BY <1>5, <1>2 DEF S
<1>7. DOMAIN rules = 1..Len(rules)
  BY DEF Rules
<1> QED BY <1>1, <1>6, <1>7 DEF RulesSayYes

LEMMA AllowedIs ==
  ASSUME NEW given \in SUBSET Rules, NEW play
  PROVE  Allowed(given, play) <=> RulesSayYes(given, play)
<1>1. RulesSayYes(given, play) <=> \A rules \in given : RulesSayYes({rules}, play)
  BY DEF RulesSayYes
<1>2. \A rules \in given : CheckRules(rules, play) <=> RulesSayYes({rules}, play)
  BY CheckRulesIs
<1> QED BY <1>1, <1>2 DEF Allowed

-----------------------------------------------------------------------------
(* Arguments: versions.                                                      *)

LEMMA LeastNumber ==
  ASSUME NEW S, S \subseteq Nat, S # {}
  PROVE  \E x \in S : \A y \in S : x <= y
<1> DEFINE R == {p \in Nat \X Nat : p[1] < p[2]}
<1>1. IsWellFoundedOn(R, Nat)
  BY NatLessThanWellFounded DEF OpToRel
<1>2. PICK x \in S : \A y \in S : ~ (<<y, x>> \in R)
  BY <1>1, WFMin
<1>3. \A y \in S : x <= y
  <2> TAKE y \in S
  <2>1. ~ (<<y, x>> \in R) /\ x \in Nat /\ y \in Nat
    BY <1>2
  <2>2. ~ (y < x)
    BY <2>1
  <2> QED BY <2>1, <2>2
<1> QED BY <1>3

LEMMA NewerThanItself ==
  ASSUME NEW a \in Seq(Int) PROVE ~Newer(a, a)
BY DEF Newer

LEMMA NewerThanNewer ==
  ASSUME NEW a \in Seq(Int), NEW b \in Seq(Int), NEW c \in Seq(Int), Newer(a, b), Newer(b, c)
  PROVE  Newer(a, c)
<1>0. Len(a) \in Nat /\ Len(b) \in Nat /\ Len(c) \in Nat
      /\ (\A i \in 1..Len(a) : a[i] \in Int) /\ (\A i \in 1..Len(b) : b[i] \in Int)
      /\ (\A i \in 1..Len(c) : c[i] \in Int)
  OBVIOUS
<1>1. PICK k \in 1..Len(a) :
        /\ \A i \in 1..(k - 1) : i <= Len(b) /\ a[i] = b[i]
        /\ k > Len(b) \/ a[k] > b[k]
  BY DEF Newer
<1>2. PICK l \in 1..Len(b) :
        /\ \A i \in 1..(l - 1) : i <= Len(c) /\ b[i] = c[i]
        /\ l > Len(c) \/ b[l] > c[l]
  BY DEF Newer
<1>3. CASE k <= l
  <2>1. \A i \in 1..(k - 1) : i <= Len(c) /\ a[i] = c[i]
    BY <1>0, <1>1, <1>2, <1>3
  <2>2. k > Len(c) \/ a[k] > c[k]
    <3>1. k \in 1..Len(b) /\ a[k] > b[k]
      BY <1>0, <1>1, <1>2, <1>3
    <3>2. CASE k < l
      <4>1. k <= Len(c) /\ b[k] = c[k]
        BY <1>0, <1>2, <3>2
      <4> QED BY <3>1, <4>1
    <3>3. CASE k = l
      <4>1. CASE l > Len(c)
        BY <3>3, <4>1
      <4>2. CASE l <= Len(c)
        <5>1. a[k] \in Int /\ b[k] \in Int /\ c[k] \in Int
          BY <1>0, <3>1, <4>2, <3>3
        <5> QED BY <5>1, <3>1, <3>3, <4>2, <1>2, <1>0
      <4> QED BY <4>1, <4>2, <1>0
    <3> QED BY <3>2, <3>3, <1>3
  <2> QED BY <2>1, <2>2 DEF Newer
<1>4. CASE k > l
  <2>1. \A i \in 1..(l - 1) : i <= Len(c) /\ a[i] = c[i]
    BY <1>0, <1>1, <1>2, <1>4
  <2>2. l \in 1..Len(a) /\ a[l] = b[l]
    BY <1>0, <1>1, <1>2, <1>4
  <2>3. l > Len(c) \/ a[l] > c[l]
    BY <2>2, <1>2
  <2> QED BY <2>1, <2>2, <2>3 DEF Newer
<1> QED BY <1>3, <1>4

LEMMA NewerIsTotal ==
  ASSUME NEW a \in Seq(Int), NEW b \in Seq(Int), a # b
  PROVE  Newer(a, b) \/ Newer(b, a)
<1>0. Len(a) \in Nat /\ Len(b) \in Nat
      /\ (\A i \in 1..Len(a) : a[i] \in Int) /\ (\A i \in 1..Len(b) : b[i] \in Int)
  OBVIOUS
<1> DEFINE D == {i \in 1..Len(a) : i <= Len(b) /\ a[i] # b[i]}
<1>1. CASE D = {}
  <2>1. \A i \in 1..Len(a) : i <= Len(b) => a[i] = b[i]
    BY <1>1
  <2>2. CASE Len(a) = Len(b)
    BY <2>1, <2>2, <1>0
  <2>3. CASE Len(a) > Len(b)
    <3>1. Len(b) + 1 \in 1..Len(a) /\ Len(b) + 1 > Len(b)
          /\ \A i \in 1..((Len(b) + 1) - 1) : i <= Len(b) /\ a[i] = b[i]
      BY <2>1, <2>3, <1>0
    <3> QED BY <3>1 DEF Newer
  <2>4. CASE Len(a) < Len(b)
    <3>1. Len(a) + 1 \in 1..Len(b) /\ Len(a) + 1 > Len(a)
          /\ \A i \in 1..((Len(a) + 1) - 1) : i <= Len(a) /\ b[i] = a[i]
      BY <2>1, <2>4, <1>0
    <3> QED BY <3>1 DEF Newer
  <2> QED BY <2>2, <2>3, <2>4, <1>0
<1>2. CASE D # {}
  <2>1. PICK k \in D : \A y \in D : k <= y
    <3>1. D \subseteq Nat
      BY <1>0
    <3> HIDE DEF D
    <3> QED BY <3>1, <1>2, LeastNumber
  <2>2. k \in 1..Len(a) /\ k \in 1..Len(b) /\ a[k] # b[k]
    BY <1>0
  <2>3. \A i \in 1..(k - 1) : i <= Len(b) /\ i <= Len(a) /\ a[i] = b[i]
    BY <2>1, <2>2, <1>0
  <2>4. a[k] > b[k] \/ b[k] > a[k]
    <3>1. a[k] \in Int /\ b[k] \in Int
      BY <2>2, <1>0
    <3> QED BY <3>1, <2>2
  <2> HIDE DEF D
  <2> QED BY <2>2, <2>3, <2>4 DEF Newer
<1> QED BY <1>1, <1>2

LEMMA NotNewerThanNotNewer ==
  ASSUME NEW a \in Seq(Int), NEW b \in Seq(Int), NEW c \in Seq(Int), ~Newer(a, b), ~Newer(b, c)
  PROVE  ~Newer(a, c)
<1> SUFFICES ASSUME Newer(a, c) PROVE FALSE
  OBVIOUS
<1>1. a # b
  OBVIOUS
<1>2. Newer(b, a)
  BY <1>1, NewerIsTotal
<1> QED BY <1>2, NewerThanNewer

LEMMA OlderIsNotNewer ==
  ASSUME NEW a \in Seq(Int), NEW b \in Seq(Int)
  PROVE  Older(a, b) <=> Newer(b, a)
<1>0. Len(a) \in Nat /\ Len(b) \in Nat /\ DOMAIN a = 1..Len(a) /\ DOMAIN b = 1..Len(b)
      /\ (\A i \in 1..Len(a) : a[i] \in Int) /\ (\A i \in 1..Len(b) : b[i] \in Int)
  OBVIOUS
<1> DEFINE D == {i \in DOMAIN a \cap DOMAIN b : a[i] # b[i]}
<1>1. CASE D = {}
  <2>1. \A i \in 1..Len(a) : i <= Len(b) => a[i] = b[i]
    BY <1>1, <1>0
  <2>2. Older(a, b) <=> Len(a) < Len(b)
    BY <1>1 DEF Older
  <2>3. ASSUME Len(a) < Len(b) PROVE Newer(b, a)
    <3>1. Len(a) + 1 \in 1..Len(b) /\ Len(a) + 1 > Len(a)
          /\ \A i \in 1..((Len(a) + 1) - 1) : i <= Len(a) /\ b[i] = a[i]
      BY <2>1, <2>3, <1>0
    <3> QED BY <3>1 DEF Newer
  <2>4. ASSUME Newer(b, a) PROVE Len(a) < Len(b)
    <3>1. PICK k \in 1..Len(b) : k > Len(a) \/ b[k] > a[k]
      BY <2>4 DEF Newer
    <3>2. k <= Len(a) => b[k] = a[k]
      BY <2>1, <1>0
    <3>3. b[k] \in Int
      BY <1>0
    <3> QED BY <3>1, <3>2, <3>3, <1>0
  <2> QED BY <2>2, <2>3, <2>4
<1>2. CASE D # {}
  <2>1. Older(a, b) <=> \E i \in D : a[i] < b[i] /\ \A j \in D : i <= j
    BY <1>2 DEF Older
  <2>2. ASSUME NEW i \in D, a[i] < b[i], \A j \in D : i <= j PROVE Newer(b, a)
    <3>1. i \in 1..Len(b) /\ i \in 1..Len(a) /\ b[i] > a[i]
      BY <2>2, <1>0
    <3>2. \A j \in 1..(i - 1) : j <= Len(a) /\ b[j] = a[j]
      <4> TAKE j \in 1..(i - 1)
      <4>1. j \in 1..Len(a) /\ j \in 1..Len(b) /\ ~(i <= j)
        BY <3>1, <1>0
      <4>2. j \notin D
        BY <2>2, <4>1
      <4> QED BY <4>1, <4>2, <1>0
    <3> QED BY <3>1, <3>2 DEF Newer
  <2>3. ASSUME Newer(b, a) PROVE \E i \in D : a[i] < b[i] /\ \A j \in D : i <= j
    <3>1. PICK k \in 1..Len(b) : /\ \A i \in 1..(k - 1) : i <= Len(a) /\ b[i] = a[i]
                                 /\ k > Len(a) \/ b[k] > a[k]
      BY <2>3 DEF Newer
    <3>2. \A j \in D : k <= j
      <4> TAKE j \in D
      <4>1. j \in 1..Len(a) /\ j \in 1..Len(b) /\ a[j] # b[j]
        BY <1>0
      <4> HIDE DEF D
      <4> QED BY <4>1, <3>1, <1>0
    <3>3. PICK j : j \in D
      BY <1>2
    <3>4. k <= Len(a)
      <4>1. j \in 1..Len(a)
        BY <3>3, <1>0
      <4>2. k <= j
        BY <3>2, <3>3
      <4> HIDE DEF D
      <4> QED BY <4>1, <4>2, <1>0
    <3>5. a[k] \in Int /\ b[k] \in Int /\ a[k] < b[k]
      BY <3>1, <3>4, <1>0
    <3>6. k \in D
      BY <3>5, <3>4, <1>0
    <3> QED BY <3>2, <3>5, <3>6
  <2> HIDE DEF D
  <2> QED BY <2>1, <2>2, <2>3
<1> QED BY <1>1, <1>2

NewestVersions(asked) ==
  {v \in Matching(asked) : \A w \in Matching(asked) : ~Newer(w.parts, v.parts)}

LEMMA NewestExists ==
  ASSUME NEW asked \in Launches, Matching(asked) # {}
  PROVE  NewestVersions(asked) # {}
<1> DEFINE manifest == asked.manifest
           Is(i) == manifest[i] \in Matching(asked)
           Best(n, i) == \A j \in 1..n : Is(j) => ~Newer(manifest[j].parts, manifest[i].parts)
           S == {n \in Nat : n <= Len(manifest) =>
                    ((\E i \in 1..n : Is(i)) => \E i \in 1..n : Is(i) /\ Best(n, i))}
<1>0. Len(manifest) \in Nat /\ Range(manifest) = {manifest[i] : i \in 1..Len(manifest)}
      /\ \A i \in 1..Len(manifest) : manifest[i].parts \in Seq(Int)
  <2>1. manifest \in Seq(LoaderVersion)
    BY LaunchArgumentsAssumption
  <2>2. Len(manifest) \in Nat /\ DOMAIN manifest = 1..Len(manifest)
        /\ \A i \in 1..Len(manifest) : manifest[i] \in LoaderVersion
    <3> HIDE DEF manifest
    <3>1. Len(manifest) \in Nat /\ DOMAIN manifest = 1..Len(manifest)
        /\ \A i \in 1..Len(manifest) : manifest[i] \in LoaderVersion
      BY <2>1, ElementOfSeq
    <3> QED BY <3>1
  <2> HIDE DEF manifest
  <2>3. \A i \in 1..Len(manifest) : manifest[i].parts \in Seq(Int)
    BY <2>2 DEF LoaderVersion
  <2> QED BY <2>2, <2>3 DEF Range
<1>m. \A v : v \in Matching(asked) => v \in Range(manifest)
  BY DEF Matching
<1> HIDE DEF manifest
<1>1. 0 \in S
  OBVIOUS
<1>2. ASSUME NEW n \in 0..(Len(manifest) - 1), n \in S PROVE n + 1 \in S
  <2>1. n \in Nat /\ n + 1 \in 1..Len(manifest) /\ n <= Len(manifest)
    BY <1>0
  <2>2. \A i \in 1..(n + 1) : i \in 1..n \/ i = n + 1
    BY <2>1
  <2>3. \A i \in 1..n : i \in 1..(n + 1) /\ i \in 1..Len(manifest)
    BY <2>1, <1>0
  <2>a. n + 1 \in 1..(n + 1)
    BY <2>1
  <2>b. (\E i \in 1..n : Is(i)) => \E i \in 1..n : Is(i) /\ Best(n, i)
    BY <1>2, <2>1
  <2> SUFFICES ASSUME \E i \in 1..(n + 1) : Is(i) PROVE \E i \in 1..(n + 1) : Is(i) /\ Best(n + 1, i)
    BY <2>1
  <2>4. CASE ~Is(n + 1)
    <3>1. PICK i \in 1..n : Is(i) /\ Best(n, i)
      <4> HIDE DEF Is, Best
      <4> QED BY <2>2, <2>4, <2>b
    <3>2. Best(n + 1, i)
      <4> HIDE DEF Is
      <4> QED BY <3>1, <2>4, <2>2
    <3> QED BY <3>1, <3>2, <2>3
  <2>5. CASE Is(n + 1) /\ ~\E i \in 1..n : Is(i)
    <3>1. ~Newer(manifest[n + 1].parts, manifest[n + 1].parts)
      BY NewerThanItself, <1>0, <2>1
    <3>2. Best(n + 1, n + 1)
      <4> HIDE DEF Is
      <4> QED BY <3>1, <2>5, <2>2
    <3> QED BY <2>5, <3>2, <2>a
  <2>6. CASE Is(n + 1) /\ \E i \in 1..n : Is(i)
    <3>1. PICK i \in 1..n : Is(i) /\ Best(n, i)
      BY <2>6, <2>b
    <3>2. CASE ~Newer(manifest[n + 1].parts, manifest[i].parts)
      <4>1. Best(n + 1, i)
        <5> HIDE DEF Is
        <5> QED BY <3>1, <3>2, <2>2
      <4> QED BY <4>1, <3>1, <2>3
    <3>3. CASE Newer(manifest[n + 1].parts, manifest[i].parts)
      <4>1. ASSUME NEW j \in 1..(n + 1), Is(j) PROVE ~Newer(manifest[j].parts, manifest[n + 1].parts)
        <5>1. manifest[j].parts \in Seq(Int) /\ manifest[n + 1].parts \in Seq(Int)
              /\ manifest[i].parts \in Seq(Int)
          BY <1>0, <2>1, <2>2, <2>3
        <5>2. CASE j = n + 1
          BY <5>1, <5>2, NewerThanItself
        <5>3. CASE j \in 1..n
          <6>1. ~Newer(manifest[j].parts, manifest[i].parts)
            BY <3>1, <5>3, <4>1
          <6> QED BY <6>1, <5>1, <3>3, NewerThanNewer
        <5> QED BY <5>2, <5>3, <2>2
      <4>2. Best(n + 1, n + 1)
        BY <4>1
      <4> QED BY <4>2, <2>6, <2>a
    <3> QED BY <3>2, <3>3
  <2> QED BY <2>4, <2>5, <2>6
<1>3. Len(manifest) \in S
  <2> HIDE DEF S
  <2>1. 0..Len(manifest) \subseteq S
    BY <1>0, <1>1, <1>2, UpToInduction
  <2> QED BY <2>1, <1>0
<1>4. \E i \in 1..Len(manifest) : Is(i)
  BY <1>0, <1>m
<1>5. PICK i \in 1..Len(manifest) : Is(i) /\ Best(Len(manifest), i)
  <2> HIDE DEF Is, Best
  <2> QED BY <1>3, <1>4, <1>0
<1>6. \A w \in Matching(asked) : ~Newer(w.parts, manifest[i].parts)
  <2> TAKE w \in Matching(asked)
  <2>1. PICK j \in 1..Len(manifest) : w = manifest[j]
    BY <1>0, <1>m
  <2> QED BY <2>1, <1>5
<1> QED BY <1>5, <1>6 DEF NewestVersions

-----------------------------------------------------------------------------
(* Arguments: libraries.                                                     *)

IsCollection(f, libraries, play) ==
    /\ f[0] = {}
    /\ \A n \in 1..Len(libraries) :
         f[n - 1] \in SUBSET Library /\ f[n] = Collect(f[n - 1], libraries[n], play)
    /\ CollectLibraries(libraries, play) = f[Len(libraries)]

LEMMA CollectType ==
  ASSUME NEW chosen \in SUBSET Library, NEW library \in Library, NEW play
  PROVE  Collect(chosen, library, play) \in SUBSET Library
BY DEF Collect

LEMMA CollectUnrolls ==
  ASSUME NEW libraries \in Seq(Library), NEW play
  PROVE  \E f : IsCollection(f, libraries, play)
<1> DEFINE N == Len(libraries)
           V == SUBSET Library
           step == [p \in V \X (1..N) |-> Collect(p[1], libraries[p[2]], play)]
           Body(f) == [n \in 0..N |-> IF n = 0 THEN {} ELSE Collect(f[n - 1], libraries[n], play)]
           chosen[n \in 0..N] == IF n = 0 THEN {} ELSE Collect(chosen[n - 1], libraries[n], play)
<1>1. N \in Nat /\ \A n \in 1..N : libraries[n] \in Library
  BY ElementOfSeq
<1>2. PICK g : Unrolls(g, V, N, {}, step)
  <2>1. \A p \in V \X (1..N) : Collect(p[1], libraries[p[2]], play) \in V
    <3> TAKE p \in V \X (1..N)
    <3>1. p[1] \in SUBSET Library /\ p[2] \in 1..N
      OBVIOUS
    <3>2. libraries[p[2]] \in Library
      BY <3>1, <1>1
    <3> HIDE DEF N
    <3> QED BY <3>1, <3>2, CollectType
  <2>2. IsStep(step, V, N)
    <3> HIDE DEF N, V
    <3> QED BY <2>1 DEF IsStep
  <2>3. {} \in V
    OBVIOUS
  <2> HIDE DEF step, N, V
  <2> QED BY <1>1, <2>2, <2>3, Recursion
<1>3. \A n \in 1..N : g[n - 1] \in V /\ g[n] = Collect(g[n - 1], libraries[n], play)
  <2> TAKE n \in 1..N
  <2>1. g[n - 1] \in V /\ g[n] = step[<<g[n - 1], n>>]
    <3> HIDE DEF N, step, V
    <3> QED BY <1>1, <1>2 DEF Unrolls
  <2> HIDE DEF N, V
  <2> QED BY <2>1
<1>4. g = Body(g)
  <2> HIDE DEF N, step, V
  <2>1. g = [n \in 0..N |-> g[n]] /\ g[0] = {}
    BY <1>2 DEF Unrolls
  <2>2. \A n \in 0..N : g[n] = IF n = 0 THEN {} ELSE Collect(g[n - 1], libraries[n], play)
    <3> TAKE n \in 0..N
    <3>1. CASE n = 0
      BY <3>1, <2>1
    <3>2. CASE n # 0
      <4>1. n \in 1..N
        BY <3>2, <1>1
      <4> QED BY <3>2, <4>1, <1>3
    <3> QED BY <3>1, <3>2
  <2> QED BY <2>1, <2>2
<1>5. chosen = Body(chosen)
  <2> HIDE DEF N
  <2> QED BY <1>4 DEF chosen
<1>6. CollectLibraries(libraries, play) = chosen[N]
  BY DEF CollectLibraries, chosen
<1> HIDE DEF chosen, N
<1>7. chosen[0] = {}
  BY <1>5, <1>1
<1>8. \A n \in 1..N : chosen[n] = Collect(chosen[n - 1], libraries[n], play)
  <2> TAKE n \in 1..N
  <2>1. n \in 0..N /\ n # 0
    BY <1>1
  <2> QED BY <2>1, <1>5
<1> DEFINE T == {n \in Nat : n <= N => chosen[n] \in V}
<1>9. 0..N \subseteq T
  <2>1. 0 \in T
    BY <1>7
  <2>2. ASSUME NEW n \in 0..(N - 1), n \in T PROVE n + 1 \in T
    <3>1. n + 1 \in 1..N /\ (n + 1) - 1 = n /\ n \in Nat /\ libraries[n + 1] \in Library
      BY <1>1
    <3>2. chosen[n + 1] = Collect(chosen[n], libraries[n + 1], play)
      BY <1>8, <3>1
    <3>3. chosen[n] \in SUBSET Library
      BY <2>2, <1>1
    <3>4. Collect(chosen[n], libraries[n + 1], play) \in SUBSET Library
      BY <3>1, <3>3, CollectType
    <3> QED BY <3>1, <3>2, <3>4
  <2> HIDE DEF T
  <2> QED BY <1>1, <2>1, <2>2, UpToInduction
<1>10. \A n \in 1..N : chosen[n - 1] \in V
  <2> TAKE n \in 1..N
  <2>1. n - 1 \in 0..N
    BY <1>1
  <2> QED BY <2>1, <1>9, <1>1
<1>11. IsCollection(chosen, libraries, play)
  <2> HIDE DEF T
  <2> QED BY <1>6, <1>7, <1>8, <1>10 DEF N, V, IsCollection
<1> QED BY <1>11

\* The classes chosen hold one version of every library that is wanted, and none
\* is newer.
Covers(chosen, wanted) ==
    \E c \in chosen :
        /\ c.id = wanted.id /\ ~Newer(VersionId(wanted), VersionId(c))
        /\ \A d \in chosen : d.id = c.id => d = c

LEMMA VersionIdType ==
  ASSUME NEW library \in Library PROVE VersionId(library) \in Seq(Int)
<1>1. library.version \in Seq(Int)
  BY DEF Library
<1>2. Len(library.version) \in Nat /\ DOMAIN library.version = 1..Len(library.version)
      /\ \A i \in 1..Len(library.version) : library.version[i] \in Int
  BY <1>1
<1>3. \A i \in 1..Len(library.version) :
         (IF library.version[i] < 0 THEN 0 ELSE library.version[i]) \in Int
  BY <1>2
<1> QED BY <1>2, <1>3 DEF VersionId

LEMMA CollectCovers ==
  ASSUME NEW chosen \in SUBSET Library, NEW library \in Library, NEW wanted \in Library, NEW play,
         library.rules \in SUBSET Rules,
         \A c, d \in chosen : c.id = d.id => c = d,
         \/ Covers(chosen, wanted)
         \/ wanted = library /\ RulesSayYes(library.rules, play)
  PROVE  Covers(Collect(chosen, library, play), wanted)
<1> DEFINE same == {c \in chosen : c.id = library.id}
           after == Collect(chosen, library, play)
<1>1. \A l \in Library : VersionId(l) \in Seq(Int)
  BY VersionIdType
<1>2. CASE ~Allowed(library.rules, play)
  <2>1. after = chosen
    BY <1>2 DEF Collect
  <2>2. ~RulesSayYes(library.rules, play)
    BY <1>2, AllowedIs
  <2> QED BY <2>1, <2>2
<1>3. CASE \E c \in same : Older(VersionId(library), VersionId(c))
  <2>1. after = chosen
    BY <1>3 DEF Collect
  <2>2. CASE Covers(chosen, wanted)
    BY <2>1, <2>2
  <2>3. CASE wanted = library
    <3>1. PICK c \in same : Older(VersionId(library), VersionId(c))
      BY <1>3
    <3>2. Newer(VersionId(c), VersionId(library))
      BY <3>1, <1>1, OlderIsNotNewer
    <3>3. ~Newer(VersionId(library), VersionId(c))
      <4>1. ~Newer(VersionId(library), VersionId(library))
        BY <1>1, NewerThanItself
      <4> QED BY <3>2, <4>1, <1>1, NewerThanNewer
    <3>4. Covers(chosen, library)
      BY <3>1, <3>3 DEF Covers
    <3> QED BY <2>1, <2>3, <3>4
  <2> QED BY <2>2, <2>3
<1>4. CASE Allowed(library.rules, play) /\ ~\E c \in same : Older(VersionId(library), VersionId(c))
  <2>1. after = (chosen \ same) \cup {library}
    BY <1>4 DEF Collect
  <2>2. \A d \in after : d.id = library.id => d = library
    BY <2>1
  <2>3. CASE wanted = library
    <3>1. ~Newer(VersionId(library), VersionId(library))
      BY <1>1, NewerThanItself
    <3>2. library \in after
      BY <2>1
    <3> QED BY <3>1, <3>2, <2>2, <2>3 DEF Covers
  <2>4. CASE Covers(chosen, wanted)
    <3>1. PICK c \in chosen :
             /\ c.id = wanted.id /\ ~Newer(VersionId(wanted), VersionId(c))
             /\ \A d \in chosen : d.id = c.id => d = c
      BY <2>4 DEF Covers
    <3>2. CASE c.id = library.id
      <4>1. ~Newer(VersionId(c), VersionId(library))
        BY <3>2, <1>4, <1>1, OlderIsNotNewer
      <4>2. ~Newer(VersionId(wanted), VersionId(library))
        BY <4>1, <3>1, <1>1, NotNewerThanNotNewer
      <4>3. library \in after
        BY <2>1
      <4> QED BY <4>2, <4>3, <2>2, <3>1, <3>2 DEF Covers
    <3>3. CASE c.id # library.id
      <4>1. c \in after /\ \A d \in after : d.id = c.id => d = c
        BY <2>1, <3>3, <3>1
      <4> QED BY <4>1, <3>1 DEF Covers
    <3> QED BY <3>2, <3>3
  <2> QED BY <2>3, <2>4
<1> QED BY <1>2, <1>3, <1>4

LEMMA CollectUnique ==
  ASSUME NEW chosen \in SUBSET Library, NEW library \in Library, NEW play,
         \A c, d \in chosen : c.id = d.id => c = d
  PROVE  \A c, d \in Collect(chosen, library, play) : c.id = d.id => c = d
BY DEF Collect

LEMMA CollectedNewest ==
  ASSUME NEW libraries \in Seq(Library), NEW play, NEW i \in DOMAIN libraries,
         RulesSayYes(libraries[i].rules, play)
  PROVE  Covers(CollectLibraries(libraries, play), libraries[i])
<1> DEFINE N == Len(libraries)
<1>1. N \in Nat /\ i \in 1..N /\ \A n \in 1..N : libraries[n] \in Library
  BY ElementOfSeq
<1>2. PICK f : IsCollection(f, libraries, play)
  BY CollectUnrolls
<1>3. /\ f[0] = {}
      /\ \A n \in 1..N : f[n - 1] \in SUBSET Library /\ f[n] = Collect(f[n - 1], libraries[n], play)
      /\ CollectLibraries(libraries, play) = f[N]
  BY <1>2 DEF IsCollection
<1> HIDE DEF N
<1> DEFINE Unique(s) == \A c, d \in s : c.id = d.id => c = d
           S == {n \in Nat : n <= N => Unique(f[n]) /\ (i <= n => Covers(f[n], libraries[i]))}
<1>4. 0 \in S
  BY <1>1, <1>3
<1>5. ASSUME NEW n \in 0..(N - 1), n \in S PROVE n + 1 \in S
  <2>1. n + 1 \in 1..N /\ (n + 1) - 1 = n /\ n \in Nat /\ n <= N /\ n + 1 \in Nat
    BY <1>1
  <2>2. f[n] \in SUBSET Library /\ f[n + 1] = Collect(f[n], libraries[n + 1], play)
    BY <2>1, <1>3
  <2>3. Unique(f[n]) /\ (i <= n => Covers(f[n], libraries[i]))
    BY <1>5, <2>1
  <2>4. libraries[n + 1] \in Library /\ libraries[i] \in Library /\ libraries[n + 1].rules \in SUBSET Rules
    BY <2>1, <1>1 DEF Library
  <2>5. Unique(f[n + 1])
    BY <2>2, <2>3, <2>4, CollectUnique
  <2>6. ASSUME i <= n + 1 PROVE Covers(f[n + 1], libraries[i])
    <3>1. i <= n \/ i = n + 1
      BY <2>6, <2>1, <1>1
    <3>2. Covers(Collect(f[n], libraries[n + 1], play), libraries[i])
      BY <3>1, <2>2, <2>3, <2>4, CollectCovers
    <3> QED BY <3>2, <2>2
  <2> HIDE DEF Unique
  <2> QED BY <2>1, <2>5, <2>6
<1> HIDE DEF S
<1>6. N \in S
  <2>1. 0..N \subseteq S
    BY <1>1, <1>4, <1>5, UpToInduction
  <2> QED BY <2>1, <1>1
<1>7. Covers(f[N], libraries[i])
  BY <1>6, <1>1 DEF S
<1> QED BY <1>7, <1>3

-----------------------------------------------------------------------------
(* Arguments: keys and values.                                               *)

\* That a literal is in STRING is not known to the provers.
Words == STRING \cup {"target", "arg", "launch"}
AnyPiece == [key : BOOLEAN, text : Words]

Done == [built : Seq(AnyPiece), rest : Seq(AnyPiece)]
NothingDone == [built |-> <<>>, rest |-> <<>>]

LEMMA ConcatAppend ==
  ASSUME NEW S, NEW s \in Seq(S), NEW t \in Seq(S), NEW x \in S
  PROVE  s \o Append(t, x) = (s \o t) \o <<x>>
<1>1. Append(t, x) = t \o <<x>>
  BY AppendIsConcat
<1>2. <<x>> \in Seq(S)
  OBVIOUS
<1>3. ASSUME NEW u \in Seq(S) PROVE (s \o t) \o u = s \o (t \o u)
  BY ConcatAssociative
<1> QED BY <1>1, <1>2, <1>3

LEMMA ValueType ==
  ASSUME NEW key \in Words, NEW play
  PROVE  Value(key, play) \in Seq(AnyPiece)
<1>1. Text("target") \in AnyPiece /\ Text(key) \in AnyPiece
  <2>1. FALSE \in BOOLEAN
    BY Zenon
  <2>2. "target" \in Words
    BY DEF Words
  <2> HIDE DEF Words
  <2> QED BY <2>1, <2>2, Zenon DEF Text, AnyPiece
<1>2. <<>> \in Seq(AnyPiece) /\ <<Text("target")>> \in Seq(AnyPiece) /\ <<Text(key)>> \in Seq(AnyPiece)
  <2> HIDE DEF Text, AnyPiece
  <2> QED BY <1>1
<1> QED BY <1>2, Zenon DEF Value

LEMMA PieceType ==
  ASSUME NEW piece \in AnyPiece
  PROVE  piece.key \in BOOLEAN /\ piece.text \in Words
BY DEF AnyPiece

ReplacedPiece(piece, play) == IF piece.key THEN Value(piece.text, play) ELSE <<piece>>

LEMMA ReplacedPieceType ==
  ASSUME NEW piece \in AnyPiece, NEW play
  PROVE  ReplacedPiece(piece, play) \in Seq(AnyPiece)
<1>1. Value(piece.text, play) \in Seq(AnyPiece)
  BY PieceType, ValueType
<1>2. <<piece>> \in Seq(AnyPiece)
  OBVIOUS
<1> QED BY <1>1, <1>2 DEF ReplacedPiece

LEMMA ExpandPieceType ==
  ASSUME NEW done \in Done, NEW piece \in AnyPiece, NEW play
  PROVE  ExpandPiece(done, piece, play) \in Done
<1>1. Value(piece.text, play) \in Seq(AnyPiece)
  BY PieceType, ValueType
<1>2. done.built \in Seq(AnyPiece) /\ done.rest \in Seq(AnyPiece)
  BY DEF Done
<1>3. done.built \o done.rest \o Value(piece.text, play) \in Seq(AnyPiece)
      /\ Append(done.rest, piece) \in Seq(AnyPiece) /\ <<>> \in Seq(AnyPiece)
  BY <1>1, <1>2
<1> QED BY <1>2, <1>3 DEF ExpandPiece, Done

IsExpansion(f, argument, play) ==
    /\ f[0] = NothingDone
    /\ \A n \in 1..Len(argument) :
         f[n - 1] \in Done /\ f[n] = ExpandPiece(f[n - 1], argument[n], play)
    /\ Expanded(argument, play) = f[Len(argument)]

LEMMA ExpandedUnrolls ==
  ASSUME NEW argument \in Seq(AnyPiece), NEW play
  PROVE  \E f : IsExpansion(f, argument, play)
<1> DEFINE N == Len(argument)
           V == Done
           base == NothingDone
           step == [p \in V \X (1..N) |-> ExpandPiece(p[1], argument[p[2]], play)]
           Body(f) == [n \in 0..N |-> IF n = 0 THEN base ELSE ExpandPiece(f[n - 1], argument[n], play)]
           expanded[n \in 0..N] == IF n = 0 THEN [built |-> <<>>, rest |-> <<>>]
                                   ELSE ExpandPiece(expanded[n - 1], argument[n], play)
<1>1. N \in Nat /\ \A n \in 1..N : argument[n] \in AnyPiece
  BY ElementOfSeq
<1>2. PICK g : Unrolls(g, V, N, base, step)
  <2>1. \A p \in V \X (1..N) : ExpandPiece(p[1], argument[p[2]], play) \in V
    <3> TAKE p \in V \X (1..N)
    <3>1. p[1] \in Done /\ p[2] \in 1..N
      OBVIOUS
    <3>2. argument[p[2]] \in AnyPiece
      BY <3>1, <1>1
    <3> HIDE DEF N
    <3> QED BY <3>1, <3>2, ExpandPieceType
  <2>2. IsStep(step, V, N)
    <3> HIDE DEF N, V
    <3> QED BY <2>1 DEF IsStep
  <2>3. base \in V
    <3>1. <<>> \in Seq(AnyPiece)
      OBVIOUS
    <3> QED BY <3>1 DEF Done, NothingDone
  <2> HIDE DEF step, N, V, base
  <2> QED BY <1>1, <2>2, <2>3, Recursion
<1>3. \A n \in 1..N : g[n - 1] \in V /\ g[n] = ExpandPiece(g[n - 1], argument[n], play)
  <2> TAKE n \in 1..N
  <2>1. g[n - 1] \in V /\ g[n] = step[<<g[n - 1], n>>]
    <3> HIDE DEF N, step, V
    <3>1. n \in 1..N /\ n - 1 \in 0..N
      BY <1>1
    <3> HIDE DEF base
    <3> QED BY <3>1, <1>2 DEF Unrolls
  <2> HIDE DEF N, V
  <2> QED BY <2>1
<1>4. g = Body(g)
  <2> HIDE DEF N, step, V, base
  <2>1. g = [n \in 0..N |-> g[n]] /\ g[0] = base
    BY <1>2 DEF Unrolls
  <2>2. \A n \in 0..N : g[n] = IF n = 0 THEN base ELSE ExpandPiece(g[n - 1], argument[n], play)
    <3> TAKE n \in 0..N
    <3>1. CASE n = 0
      BY <3>1, <2>1
    <3>2. CASE n # 0
      <4>1. n \in 1..N
        BY <3>2, <1>1
      <4> QED BY <3>2, <4>1, <1>3
    <3> QED BY <3>1, <3>2
  <2> QED BY <2>1, <2>2
<1>5. expanded = Body(expanded)
  <2> HIDE DEF N
  <2> QED BY <1>4 DEF expanded, NothingDone
<1>6. Expanded(argument, play) = expanded[N]
  BY DEF Expanded, expanded
<1> HIDE DEF expanded, N, base
<1>7. expanded[0] = base
  BY <1>5, <1>1
<1>8. \A n \in 1..N : expanded[n] = ExpandPiece(expanded[n - 1], argument[n], play)
  <2> TAKE n \in 1..N
  <2>1. n \in 0..N /\ n # 0
    BY <1>1
  <2> QED BY <2>1, <1>5
<1> DEFINE T == {n \in Nat : n <= N => expanded[n] \in V}
<1>9. 0..N \subseteq T
  <2>1. 0 \in T
    <3>1. base \in V
      <4>1. <<>> \in Seq(AnyPiece)
        OBVIOUS
      <4> QED BY <4>1 DEF Done, NothingDone, base
    <3> QED BY <1>7, <3>1
  <2>2. ASSUME NEW n \in 0..(N - 1), n \in T PROVE n + 1 \in T
    <3>1. n + 1 \in 1..N /\ (n + 1) - 1 = n /\ n \in Nat /\ argument[n + 1] \in AnyPiece
      BY <1>1
    <3>2. expanded[n + 1] = ExpandPiece(expanded[n], argument[n + 1], play)
      BY <1>8, <3>1
    <3>3. expanded[n] \in Done
      BY <2>2, <1>1
    <3>4. ExpandPiece(expanded[n], argument[n + 1], play) \in Done
      BY <3>1, <3>3, ExpandPieceType
    <3>5. expanded[n + 1] \in V
      BY <3>2, <3>4
    <3> HIDE DEF V
    <3> QED BY <3>1, <3>5
  <2> HIDE DEF T
  <2> QED BY <1>1, <2>1, <2>2, UpToInduction
<1>10. \A n \in 1..N : expanded[n - 1] \in V
  <2> TAKE n \in 1..N
  <2>1. n - 1 \in 0..N
    BY <1>1
  <2> QED BY <2>1, <1>9, <1>1
<1>11. IsExpansion(expanded, argument, play)
  <2> HIDE DEF T
  <2> QED BY <1>6, <1>7, <1>8, <1>10 DEF N, V, base, IsExpansion
<1> QED BY <1>11

\* The key that is expanded last, if there is one.
LastKey(argument, n, m) ==
    /\ m \in 0..n /\ (m = 0 \/ argument[m].key)
    /\ \A i \in (m + 1)..n : ~argument[i].key

Replacements(argument, play) == [i \in DOMAIN argument |-> ReplacedPiece(argument[i], play)]

LEMMA ReplacementsType ==
  ASSUME NEW argument \in Seq(AnyPiece), NEW play
  PROVE  /\ Len(argument) \in Nat /\ DOMAIN argument = 1..Len(argument)
         /\ \A i \in 1..Len(argument) :
              argument[i] \in AnyPiece /\ Replacements(argument, play)[i] = ReplacedPiece(argument[i], play)
              /\ Replacements(argument, play)[i] \in Seq(AnyPiece)
         /\ Replacements(argument, play) \in Seq(Seq(AnyPiece))
         /\ Len(Replacements(argument, play)) = Len(argument)
<1>1. Len(argument) \in Nat /\ DOMAIN argument = 1..Len(argument)
      /\ \A i \in 1..Len(argument) : argument[i] \in AnyPiece
  BY ElementOfSeq
<1>2. \A i \in 1..Len(argument) : ReplacedPiece(argument[i], play) \in Seq(AnyPiece)
  BY <1>1, ReplacedPieceType
<1> DEFINE r == Replacements(argument, play)
<1>3. r = [i \in 1..Len(argument) |-> ReplacedPiece(argument[i], play)]
  BY <1>1 DEF Replacements
<1>4. r \in [1..Len(argument) -> Seq(AnyPiece)]
  BY <1>2, <1>3
<1>5. \A i \in 1..Len(argument) : r[i] = ReplacedPiece(argument[i], play)
  BY <1>3
<1> HIDE DEF r
<1>6. r \in Seq(Seq(AnyPiece)) /\ Len(r) = Len(argument)
  BY <1>1, <1>4
<1> QED BY <1>1, <1>2, <1>5, <1>6 DEF r

LEMMA ExpandedIs ==
  ASSUME NEW argument \in Seq(AnyPiece), NEW play
  PROVE  \E m \in 0..Len(argument) :
            LET end == Expanded(argument, play)
                r == Replacements(argument, play)
            IN  /\ end \in Done
                /\ LastKey(argument, Len(argument), m)
                /\ end.built = Flat(r, m)
                /\ end.built \o end.rest = Flat(r, Len(argument))
                /\ end.rest = SubSeq(argument, m + 1, Len(argument))
<1> DEFINE N == Len(argument)
           r == Replacements(argument, play)
<1>1. N \in Nat /\ \A n \in 1..N : argument[n] \in AnyPiece /\ r[n] = ReplacedPiece(argument[n], play)
                                   /\ r[n] \in Seq(AnyPiece)
  BY ReplacementsType
<1>2. PICK f : IsExpansion(f, argument, play)
  BY ExpandedUnrolls
<1>3. /\ f[0] = NothingDone
      /\ \A n \in 1..N : f[n - 1] \in Done /\ f[n] = ExpandPiece(f[n - 1], argument[n], play)
      /\ Expanded(argument, play) = f[N]
  BY <1>2 DEF IsExpansion
<1> HIDE DEF N, r
<1> DEFINE Good(n, m) == /\ f[n] \in Done
                         /\ LastKey(argument, n, m)
                         /\ f[n].built = Flat(r, m)
                         /\ f[n].built \o f[n].rest = Flat(r, n)
                         /\ f[n].rest = SubSeq(argument, m + 1, n)
           S == {n \in Nat : n <= N => \E m \in 0..n : Good(n, m)}
<1>4. 0 \in S
  <2>1. f[0] \in Done /\ f[0].built = <<>> /\ f[0].rest = <<>>
    <3>1. <<>> \in Seq(AnyPiece)
      OBVIOUS
    <3> QED BY <1>3, <3>1 DEF NothingDone, Done
  <2>2. Flat(r, 0) = <<>>
    BY FlatEmpty
  <2>3. SubSeq(argument, 0 + 1, 0) = <<>> /\ <<>> \o <<>> = <<>>
    OBVIOUS
  <2>4. LastKey(argument, 0, 0)
    BY DEF LastKey
  <2>5. Good(0, 0)
    BY <2>1, <2>2, <2>3, <2>4
  <2> HIDE DEF Good
  <2> QED BY <2>5, 0 \in 0..0
<1>5. ASSUME NEW n \in 0..(N - 1), n \in S PROVE n + 1 \in S
  <2>1. n + 1 \in 1..N /\ (n + 1) - 1 = n /\ n \in Nat /\ n <= N /\ n + 1 \in Nat
    BY <1>1
  <2>2. PICK m \in 0..n : Good(n, m)
    BY <1>5, <2>1
  <2>3. m \in Nat /\ m <= n
    BY <2>1
  <2>4. argument[n + 1] \in AnyPiece /\ r[n + 1] = ReplacedPiece(argument[n + 1], play) /\ r[n + 1] \in Seq(AnyPiece)
    BY <1>1, <2>1
  <2>5. f[n + 1] = ExpandPiece(f[n], argument[n + 1], play)
    BY <1>3, <2>1
  <2>6. f[n] \in Done /\ f[n].built \in Seq(AnyPiece) /\ f[n].rest \in Seq(AnyPiece)
    BY <2>2 DEF Done
  <2>7. f[n + 1] \in Done
    BY <2>4, <2>5, <2>6, ExpandPieceType
  <2>8. Flat(r, n + 1) = Flat(r, n) \o r[n + 1]
    <3>1. \A i \in 1..(n + 1) : r[i] \in Seq(AnyPiece)
      <4> TAKE i \in 1..(n + 1)
      <4>1. i \in 1..N
        BY <2>1, <1>1
      <4> QED BY <4>1, <1>1
    <3> QED BY <3>1, <2>1, FlatNext
  <2>9. CASE argument[n + 1].key
    <3>1. r[n + 1] = Value(argument[n + 1].text, play)
      BY <2>4, <2>9 DEF ReplacedPiece
    <3>2. f[n + 1].built = f[n].built \o f[n].rest \o r[n + 1] /\ f[n + 1].rest = <<>>
      <4>1. f[n + 1] = [built |-> f[n].built \o f[n].rest \o Value(argument[n + 1].text, play), rest |-> <<>>]
        BY <2>5, <2>9, Zenon DEF ExpandPiece
      <4> DEFINE b == f[n].built \o f[n].rest \o Value(argument[n + 1].text, play)
      <4>2. f[n + 1] = [built |-> b, rest |-> <<>>]
        BY <4>1
      <4> HIDE DEF b
      <4>3. f[n + 1].built = b /\ f[n + 1].rest = <<>>
        BY <4>2
      <4> QED BY <4>3, <3>1 DEF b
    <3>3. f[n + 1].built = Flat(r, n + 1)
      BY <3>2, <2>2, <2>8
    <3>4. f[n + 1].built \o f[n + 1].rest = Flat(r, n + 1)
      <4>1. f[n + 1].built \in Seq(AnyPiece)
        BY <2>7 DEF Done
      <4> QED BY <4>1, <3>2, <3>3
    <3>5. SubSeq(argument, (n + 1) + 1, n + 1) = <<>>
      BY <2>1
    <3>6. LastKey(argument, n + 1, n + 1)
      BY <2>9, <2>1 DEF LastKey
    <3>7. Good(n + 1, n + 1)
      BY <2>7, <3>2, <3>3, <3>4, <3>5, <3>6
    <3> HIDE DEF Good
    <3> QED BY <3>7, <2>1, n + 1 \in 0..(n + 1)
  <2>10. CASE ~argument[n + 1].key
    <3>1. r[n + 1] = <<argument[n + 1]>>
      BY <2>4, <2>10 DEF ReplacedPiece
    <3>2. f[n + 1].built = f[n].built /\ f[n + 1].rest = Append(f[n].rest, argument[n + 1])
      BY <2>5, <2>6, <2>10 DEF ExpandPiece, Done
    <3>3. f[n + 1].built \o f[n + 1].rest = Flat(r, n + 1)
      <4>1. f[n].built \o Append(f[n].rest, argument[n + 1])
              = (f[n].built \o f[n].rest) \o <<argument[n + 1]>>
        <5>1. \A s, t \in Seq(AnyPiece), x \in AnyPiece : s \o Append(t, x) = (s \o t) \o <<x>>
          BY ConcatAppend
        <5> QED BY <5>1, <2>6, <2>4, Zenon
      <4> QED BY <4>1, <3>1, <3>2, <2>2, <2>8
    <3>4. SubSeq(argument, m + 1, n + 1) = Append(SubSeq(argument, m + 1, n), argument[n + 1])
      <4>1. argument \in Seq(AnyPiece) /\ m + 1 \in 1..(n + 1) /\ n + 1 <= Len(argument)
        BY <2>1, <2>3 DEF N
      <4> QED BY <4>1, <2>1, <2>3
    <3>5. LastKey(argument, n + 1, m)
      <4>1. \A i \in (m + 1)..(n + 1) : i \in (m + 1)..n \/ i = n + 1
        BY <2>1, <2>3
      <4>2. m \in 0..(n + 1)
        BY <2>1, <2>3
      <4> QED BY <4>1, <4>2, <2>2, <2>10 DEF LastKey
    <3>6. Good(n + 1, m)
      BY <2>7, <2>2, <3>2, <3>3, <3>4, <3>5
    <3>7. m \in 0..(n + 1)
      BY <2>1, <2>3
    <3> HIDE DEF Good
    <3> QED BY <3>6, <3>7, <2>1
  <2> QED BY <2>9, <2>10
<1> HIDE DEF S
<1>6. N \in S
  <2>1. 0..N \subseteq S
    BY <1>1, <1>4, <1>5, UpToInduction
  <2> QED BY <2>1, <1>1
<1>7. PICK m \in 0..N : Good(N, m)
  <2> HIDE DEF Good
  <2> QED BY <1>6, <1>1 DEF S
<1> QED BY <1>7, <1>3 DEF N, r

LEMMA ReplacedIs ==
  ASSUME NEW argument \in Seq(AnyPiece), NEW play
  PROVE  /\ Replaced(argument, play) = Flat(Replacements(argument, play), Len(argument))
         /\ \A n \in 1..Len(argument) :
              Replaced(SubSeq(argument, 1, n), play) = Flat(Replacements(argument, play), n)
<1> DEFINE r == Replacements(argument, play)
           N == Len(argument)
<1>1. Replaced(argument, play) = FlattenSeq(r)
  BY DEF Replaced, Replacements, ReplacedPiece
<1>2. r \in Seq(Seq(AnyPiece)) /\ Len(r) = N /\ N \in Nat
      /\ \A i \in 1..N : r[i] = ReplacedPiece(argument[i], play)
  BY ReplacementsType
<1>3. Flat(r, N) = FlattenSeq(r)
  BY <1>2, FlatWhole
<1>4. ASSUME NEW n \in 1..N PROVE Replaced(SubSeq(argument, 1, n), play) = Flat(r, n)
  <2>1. DOMAIN SubSeq(argument, 1, n) = 1..n /\ \A i \in 1..n : SubSeq(argument, 1, n)[i] = argument[i]
    BY <1>2
  <2> DEFINE s == SubSeq(argument, 1, n)
  <2>2. [i \in 1..n |-> ReplacedPiece(s[i], play)] = [i \in 1..n |-> r[i]]
    <3>1. \A i \in 1..n : ReplacedPiece(s[i], play) = r[i]
      <4> TAKE i \in 1..n
      <4>1. s[i] = argument[i] /\ i \in 1..N
        <5>1. i \in 1..N
          BY <1>2
        <5> QED BY <5>1, <2>1
      <4> HIDE DEF s, r, N
      <4> QED BY <4>1, <1>2
    <3> HIDE DEF s, r
    <3> QED BY <3>1
  <2>3. Replaced(s, play) = FlattenSeq([i \in DOMAIN s |-> ReplacedPiece(s[i], play)])
    BY DEF Replaced, ReplacedPiece
  <2> HIDE DEF s, r
  <2> QED BY <2>1, <2>2, <2>3 DEF Flat, s
<1> QED BY <1>1, <1>3, <1>4

\* An argument is what it should be, unless it is left alone.
LEMMA ExpandIs ==
  ASSUME NEW argument \in Seq(AnyPiece), NEW play
  PROVE  Expand(argument, play) = IF BeginsEmpty(argument, play) THEN argument ELSE Replaced(argument, play)
<1> DEFINE r == Replacements(argument, play)
           N == Len(argument)
           end == Expanded(argument, play)
<1>0. N \in Nat /\ DOMAIN argument = 1..N
  BY ReplacementsType
<1>1. PICK m \in 0..N : /\ end \in Done
                /\ LastKey(argument, N, m)
                /\ end.built = Flat(r, m)
                /\ end.built \o end.rest = Flat(r, N)
                /\ end.rest = SubSeq(argument, m + 1, N)
  BY ExpandedIs
<1>2. Expand(argument, play) = IF end.built # <<>> THEN end.built \o end.rest ELSE argument
  BY DEF Expand
<1>3. Replaced(argument, play) = end.built \o end.rest
  BY <1>1, ReplacedIs
<1> HIDE DEF end, r
<1>4. BeginsEmpty(argument, play) <=> m # 0 /\ end.built = <<>>
  <2>1. CASE m = 0
    <3>1. \A i \in 1..N : ~argument[i].key
      BY <1>1, <2>1, <1>0 DEF LastKey
    <3> QED BY <3>1, <2>1, <1>0 DEF BeginsEmpty
  <2>2. CASE m # 0
    <3>1. m \in 1..N /\ argument[m].key /\ \A i \in (m + 1)..N : ~argument[i].key
      BY <1>1, <2>2, <1>0 DEF LastKey
    <3>2. \A n \in 1..N : argument[n].key /\ (\A i \in (n + 1)..N : ~argument[i].key) => n = m
      <4> TAKE n \in 1..N
      <4>1. n < m => m \in (n + 1)..N
        BY <3>1, <1>0
      <4>2. m < n => n \in (m + 1)..N
        BY <3>1, <1>0
      <4> QED BY <4>1, <4>2, <3>1, <1>0
    <3>3. Replaced(SubSeq(argument, 1, m), play) = end.built
      BY <3>1, <1>1, ReplacedIs DEF r
    <3> QED BY <3>1, <3>2, <3>3, <2>2, <1>0 DEF BeginsEmpty
  <2> QED BY <2>1, <2>2
<1>5. CASE end.built # <<>>
  BY <1>2, <1>3, <1>4, <1>5
<1>6. CASE end.built = <<>> /\ m # 0
  BY <1>2, <1>4, <1>6
<1>7. CASE end.built = <<>> /\ m = 0
  <2>1. end.rest = argument
    <3>1. SubSeq(argument, 0 + 1, N) = argument
      BY <1>0
    <3> QED BY <3>1, <1>1, <1>7
  <2>2. <<>> \o argument = argument
    OBVIOUS
  <2> QED BY <2>1, <2>2, <1>2, <1>3, <1>4, <1>7
<1> QED BY <1>5, <1>6, <1>7

-----------------------------------------------------------------------------
(* Arguments: commands for the wrapper.                                      *)

Line == Seq(AnyPiece)

LEMMA ConcatOf ==
  ASSUME NEW S, NEW s \in Seq(S), NEW t \in Seq(S)
  PROVE  /\ s \o t \in Seq(S) /\ Len(s \o t) = Len(s) + Len(t)
         /\ \A i \in 1..(Len(s) + Len(t)) : (s \o t)[i] = IF i <= Len(s) THEN s[i] ELSE t[i - Len(s)]
BY ConcatProperties

LEMMA ExpandType ==
  ASSUME NEW argument \in Line, NEW play
  PROVE  Expand(argument, play) \in Line
<1>1. Expanded(argument, play) \in Done
  BY ExpandedIs DEF Line
<1>2. Expanded(argument, play).built \in Line /\ Expanded(argument, play).rest \in Line
  BY <1>1 DEF Done, Line
<1>3. Expanded(argument, play).built \o Expanded(argument, play).rest \in Line
  <2> DEFINE b == Expanded(argument, play).built
             e == Expanded(argument, play).rest
  <2> HIDE DEF b, e
  <2>1. b \o e \in Line
    BY <1>2 DEF Line, b, e
  <2> QED BY <2>1 DEF b, e
<1> QED BY <1>3 DEF Expand

LEMMA WordLine ==
  ASSUME NEW text \in Words PROVE <<Text(text)>> \in Line
<1>1. Text(text) \in AnyPiece
  <2>1. FALSE \in BOOLEAN
    BY Zenon
  <2> HIDE DEF Words
  <2> QED BY <2>1, Zenon DEF Text, AnyPiece
<1> DEFINE t == Text(text)
<1> HIDE DEF t
<1>2. <<t>> \in Line
  BY <1>1 DEF Line, t
<1> QED BY <1>2 DEF t

ArgLine == <<Text("arg")>>
LaunchLine == <<Text("launch")>>

LEMMA LineTypes == ArgLine \in Line /\ LaunchLine \in Line /\ ArgLine # LaunchLine
<1>1. ArgLine \in Line /\ LaunchLine \in Line
  BY WordLine DEF ArgLine, LaunchLine, Words
<1>2. ArgLine[1].text # LaunchLine[1].text
  BY DEF ArgLine, LaunchLine, Text
<1> QED BY <1>1, <1>2

\* A command for every argument that is said.
IsCommands(l, s, play) ==
    /\ l \in Seq(Line) /\ s \in Seq(Line) /\ Len(l) = 2 * Len(s)
    /\ \A k \in 1..Len(s) : l[2 * k - 1] = ArgLine /\ l[2 * k] = Expand(s[k], play)

LEMMA NoCommands ==
  ASSUME NEW play PROVE IsCommands(<<>>, <<>>, play)
<1>1. <<>> \in Seq(Line) /\ Len(<<>>) = 0
  OBVIOUS
<1> QED BY <1>1 DEF IsCommands

LEMMA OneCommand ==
  ASSUME NEW argument \in Line, NEW play
  PROVE  IsCommands(<<ArgLine, Expand(argument, play)>>, <<argument>>, play)
<1> DEFINE e == Expand(argument, play)
           a == ArgLine
<1>1. e \in Line /\ a \in Line
  BY ExpandType, LineTypes
<1> HIDE DEF e, a
<1>2. /\ <<a, e>> \in Seq(Line) /\ Len(<<a, e>>) = 2 /\ <<a, e>>[1] = a /\ <<a, e>>[2] = e
      /\ <<argument>> \in Seq(Line) /\ Len(<<argument>>) = 1 /\ <<argument>>[1] = argument
  BY <1>1
<1> DEFINE l == <<a, e>>
           s == <<argument>>
<1> HIDE DEF l, s
<1>3. /\ l \in Seq(Line) /\ Len(l) = 2 /\ l[1] = a /\ l[2] = Expand(argument, play)
      /\ s \in Seq(Line) /\ Len(s) = 1 /\ s[1] = argument
  BY <1>2 DEF l, s, e
<1>4. IsCommands(l, s, play)
  BY <1>3 DEF IsCommands, a
<1> QED BY <1>4 DEF l, s, e, a

LEMMA CommandsConcat ==
  ASSUME NEW play, NEW l1, NEW l2, NEW s1, NEW s2,
         IsCommands(l1, s1, play), IsCommands(l2, s2, play)
  PROVE  IsCommands(l1 \o l2, s1 \o s2, play)
<1>1. /\ l1 \in Seq(Line) /\ s1 \in Seq(Line) /\ Len(l1) = 2 * Len(s1)
      /\ \A k \in 1..Len(s1) : l1[2 * k - 1] = ArgLine /\ l1[2 * k] = Expand(s1[k], play)
      /\ l2 \in Seq(Line) /\ s2 \in Seq(Line) /\ Len(l2) = 2 * Len(s2)
      /\ \A k \in 1..Len(s2) : l2[2 * k - 1] = ArgLine /\ l2[2 * k] = Expand(s2[k], play)
      /\ Len(s1) \in Nat /\ Len(s2) \in Nat
  BY DEF IsCommands
<1> DEFINE l == l1 \o l2
           s == s1 \o s2
<1>2. /\ l \in Seq(Line) /\ Len(l) = Len(l1) + Len(l2)
      /\ \A i \in 1..(Len(l1) + Len(l2)) : l[i] = IF i <= Len(l1) THEN l1[i] ELSE l2[i - Len(l1)]
      /\ s \in Seq(Line) /\ Len(s) = Len(s1) + Len(s2)
      /\ \A i \in 1..(Len(s1) + Len(s2)) : s[i] = IF i <= Len(s1) THEN s1[i] ELSE s2[i - Len(s1)]
  BY <1>1, ConcatOf
<1> HIDE DEF l, s
<1>3. ASSUME NEW k \in 1..Len(s) PROVE l[2 * k - 1] = ArgLine /\ l[2 * k] = Expand(s[k], play)
  <2>1. CASE k <= Len(s1)
    <3>1. k \in 1..Len(s1) /\ s[k] = s1[k]
      BY <1>1, <1>2, <2>1
    <3>2. l[2 * k - 1] = l1[2 * k - 1] /\ l[2 * k] = l1[2 * k]
      <4>1. /\ 2 * k - 1 \in 1..(Len(l1) + Len(l2)) /\ 2 * k \in 1..(Len(l1) + Len(l2))
            /\ 2 * k - 1 <= Len(l1) /\ 2 * k <= Len(l1)
        BY <1>1, <1>2, <2>1
      <4> QED BY <4>1, <1>2
    <3> QED BY <3>1, <3>2, <1>1
  <2>2. CASE k > Len(s1)
    <3> DEFINE j == k - Len(s1)
    <3>1. j \in 1..Len(s2) /\ s[k] = s2[j]
      BY <1>1, <1>2, <2>2
    <3>2. l[2 * k - 1] = l2[2 * j - 1] /\ l[2 * k] = l2[2 * j]
      <4>1. /\ 2 * k - 1 \in 1..(Len(l1) + Len(l2)) /\ 2 * k \in 1..(Len(l1) + Len(l2))
            /\ ~(2 * k - 1 <= Len(l1)) /\ ~(2 * k <= Len(l1))
            /\ (2 * k - 1) - Len(l1) = 2 * j - 1 /\ 2 * k - Len(l1) = 2 * j
        BY <1>1, <1>2, <2>2
      <4> HIDE DEF j
      <4> QED BY <4>1, <1>2
    <3> HIDE DEF j
    <3> QED BY <3>1, <3>2, <1>1
  <2> QED BY <2>1, <2>2, <1>1, <1>2
<1>4. IsCommands(l, s, play)
  BY <1>1, <1>2, <1>3 DEF IsCommands
<1> QED BY <1>4 DEF l, s

SaidBy(argument, play) == IF RulesSayYes(argument.rules, play) THEN argument.values ELSE <<>>

LEMMA LinesAreLines == Seq(Seq(Piece)) \subseteq Seq(Line)
<1>1. Piece \subseteq AnyPiece
  BY Zenon DEF Piece, AnyPiece, Words
<1>2. Seq(Piece) \subseteq Line
  BY <1>1 DEF Line
<1> DEFINE P == Seq(Piece)
<1> HIDE DEF P
<1>3. Seq(P) \subseteq Seq(Line)
  BY <1>2 DEF P
<1> QED BY <1>3 DEF P

LEMMA CommandsOfValues ==
  ASSUME NEW v \in Seq(Line), NEW play
  PROVE  IsCommands(ValueLines(v, play), v, play)
<1> DEFINE N == Len(v)
           f == [i \in DOMAIN v |-> <<<<Text("arg")>>, Expand(v[i], play)>>]
<1>1. ValueLines(v, play) = FlattenSeq(f)
  BY DEF ValueLines
<1>3. N \in Nat /\ DOMAIN v = 1..N /\ v \in Seq(Line) /\ \A i \in 1..N : v[i] \in Line
  BY ElementOfSeq
<1>4. \A i \in 1..N : f[i] = <<ArgLine, Expand(v[i], play)>>
  BY <1>3 DEF ArgLine
<1>5. f = [i \in 1..N |-> f[i]]
  BY <1>3
<1> HIDE DEF f, N
<1>6. \A i \in 1..N : IsCommands(f[i], <<v[i]>>, play)
  BY <1>3, <1>4, OneCommand
<1>7. \A i \in 1..N : f[i] \in Seq(Line)
  BY <1>6 DEF IsCommands
<1> DEFINE S == {n \in Nat : n <= N => IsCommands(Flat(f, n), SubSeq(v, 1, n), play)}
<1>8. 0 \in S
  <2>1. SubSeq(v, 1, 0) = <<>>
    BY <1>3
  <2>2. IsCommands(Flat(f, 0), SubSeq(v, 1, 0), play)
    BY <2>1, FlatEmpty, NoCommands
  <2> QED BY <2>2
<1>9. ASSUME NEW n \in 0..(N - 1), n \in S PROVE n + 1 \in S
  <2>1. n \in Nat /\ n + 1 \in Nat /\ n <= N /\ n + 1 \in 1..N
    BY <1>3
  <2>2. IsCommands(Flat(f, n), SubSeq(v, 1, n), play)
    BY <1>9, <2>1
  <2>3. SubSeq(v, 1, n + 1) = SubSeq(v, 1, n) \o <<v[n + 1]>>
    <3>1. SubSeq(v, 1, n) \in Seq(Line) /\ SubSeq(v, 1, n + 1) = Append(SubSeq(v, 1, n), v[n + 1]) /\ v[n + 1] \in Line
      BY <2>1, <1>3 DEF N
    <3> QED BY <3>1, AppendIsConcat
  <2>4. Flat(f, n + 1) = Flat(f, n) \o f[n + 1]
    <3>1. \A i \in 1..(n + 1) : f[i] \in Seq(Line)
      <4> TAKE i \in 1..(n + 1)
      <4>1. i \in 1..N
        BY <2>1, <1>3
      <4> QED BY <4>1, <1>7
    <3> QED BY <3>1, <2>1, FlatNext
  <2>5. IsCommands(Flat(f, n + 1), SubSeq(v, 1, n + 1), play)
    BY <2>1, <2>2, <2>3, <2>4, <1>6, CommandsConcat
  <2> QED BY <2>1, <2>5
<1> HIDE DEF S
<1>10. N \in S
  <2>1. 0..N \subseteq S
    BY <1>3, <1>8, <1>9, UpToInduction
  <2> QED BY <2>1, <1>3
<1>11. IsCommands(Flat(f, N), SubSeq(v, 1, N), play)
  BY <1>10, <1>3 DEF S
<1>12. Flat(f, N) = FlattenSeq(f)
  BY <1>5 DEF Flat
<1>13. SubSeq(v, 1, N) = v
  BY <1>3 DEF N
<1> QED BY <1>1, <1>11, <1>12, <1>13

LEMMA CommandsOfArgument ==
  ASSUME NEW argument \in Argument, NEW play
  PROVE  IsCommands(ArgumentLines(argument, play), SaidBy(argument, play), play)
<1>1. argument.rules \in SUBSET Rules /\ argument.values \in Seq(Line)
  BY LinesAreLines DEF Argument
<1>2. CASE ~Allowed(argument.rules, play)
  BY <1>1, <1>2, AllowedIs, NoCommands DEF ArgumentLines, SaidBy
<1>3. CASE Allowed(argument.rules, play)
  <2>1. ArgumentLines(argument, play) = ValueLines(argument.values, play)
    BY <1>3 DEF ArgumentLines
  <2>2. SaidBy(argument, play) = argument.values
    BY <1>1, <1>3, AllowedIs DEF SaidBy
  <2> QED BY <1>1, <2>1, <2>2, CommandsOfValues
<1> QED BY <1>2, <1>3

LEMMA CommandsOfVersion ==
  ASSUME NEW said \in Seq(Argument), NEW play
  PROVE  IsCommands(FlattenSeq([i \in DOMAIN said |-> ArgumentLines(said[i], play)]),
                    FlattenSeq([i \in DOMAIN said |-> SaidBy(said[i], play)]), play)
<1> DEFINE N == Len(said)
           f == [i \in DOMAIN said |-> ArgumentLines(said[i], play)]
           g == [i \in DOMAIN said |-> SaidBy(said[i], play)]
<1>1. N \in Nat /\ DOMAIN said = 1..N /\ \A i \in 1..N : said[i] \in Argument
  BY ElementOfSeq
<1>2. \A i \in 1..N : IsCommands(f[i], g[i], play)
  BY <1>1, CommandsOfArgument
<1>3. f = [i \in 1..N |-> f[i]] /\ g = [i \in 1..N |-> g[i]]
  BY <1>1
<1> HIDE DEF f, g, N
<1>4. \A i \in 1..N : f[i] \in Seq(Line) /\ g[i] \in Seq(Line)
  BY <1>2 DEF IsCommands
<1> DEFINE S == {n \in Nat : n <= N => IsCommands(Flat(f, n), Flat(g, n), play)}
<1>5. 0 \in S
  <2>1. IsCommands(Flat(f, 0), Flat(g, 0), play)
    BY FlatEmpty, NoCommands
  <2> QED BY <2>1
<1>6. ASSUME NEW n \in 0..(N - 1), n \in S PROVE n + 1 \in S
  <2>1. n \in Nat /\ n + 1 \in Nat /\ n <= N /\ n + 1 \in 1..N
    BY <1>1
  <2>2. \A i \in 1..(n + 1) : f[i] \in Seq(Line) /\ g[i] \in Seq(Line)
    <3> TAKE i \in 1..(n + 1)
    <3>1. i \in 1..N
      BY <2>1, <1>1
    <3> QED BY <3>1, <1>4
  <2>3. Flat(f, n + 1) = Flat(f, n) \o f[n + 1] /\ Flat(g, n + 1) = Flat(g, n) \o g[n + 1]
    BY <2>2, <2>1, FlatNext
  <2>4. IsCommands(Flat(f, n), Flat(g, n), play) /\ IsCommands(f[n + 1], g[n + 1], play)
    BY <1>6, <2>1, <1>2
  <2>5. IsCommands(Flat(f, n + 1), Flat(g, n + 1), play)
    BY <2>3, <2>4, CommandsConcat
  <2> QED BY <2>1, <2>5
<1> HIDE DEF S
<1>7. N \in S
  <2>1. 0..N \subseteq S
    BY <1>1, <1>5, <1>6, UpToInduction
  <2> QED BY <2>1, <1>1
<1>8. IsCommands(Flat(f, N), Flat(g, N), play)
  BY <1>7, <1>1 DEF S
<1>9. Flat(f, N) = FlattenSeq(f) /\ Flat(g, N) = FlattenSeq(g)
  BY <1>3 DEF Flat
<1> QED BY <1>8, <1>9 DEF f, g

-----------------------------------------------------------------------------
(* Arguments: the game gets them.                                            *)

\* The lines that are left are those of what is said and not read yet.
LinesFollow ==
    LET read == wrapper.arguments
        left == Len(Said) - Len(read)
    IN  /\ left \in Nat
        /\ \A i \in 1..Len(read) : read[i] = Expand(Said[i], quickPlay)
        /\ Len(lines) = 2 * left + 2
        /\ \A k \in 1..left : /\ lines[2 * k - 1] = ArgLine
                              /\ lines[2 * k] = Expand(Said[Len(read) + k], quickPlay)
        /\ lines[2 * left + 1] = LaunchLine
        /\ lines[2 * left + 2] = <<Text(SaidMain)>>

ArgumentsTyped ==
    /\ Said \in Seq(Line) /\ lines \in Seq(Line)
    /\ wrapper.arguments \in Seq(Line)
    /\ wrapper = [arguments |-> wrapper.arguments, main |-> wrapper.main]

ArgumentsAreRead ==
    /\ phase \in {"version", "installer", "documents"} => wrapper = NothingRead
    /\ phase \in {"running", "launched"} => ArgumentsTyped
    /\ phase = "running" => LinesFollow

\* Until its installer has been read.
LoaderIsChosen ==
    phase = "installer" =>
        /\ loader.asked \in Launches
        /\ loader = [asked |-> loader.asked, found |-> loader.found]
        /\ loader.found # {}
        /\ loader.found = IF loader.asked.preferred # {} THEN loader.asked.preferred
                          ELSE NewestVersions(loader.asked)

ArgumentsInv == ArgumentsAreRead /\ LoaderIsChosen /\ GameIsStartedAsAsked

LEMMA InvInit == ArgumentsInit => ArgumentsInv
BY DEF ArgumentsInit, ArgumentsInv, ArgumentsAreRead, LoaderIsChosen, GameIsStartedAsAsked,
       LoaderIsForTheVersion, NewestLibraries, GameGetsItsArguments

LEMMA InvChooseLoader ==
  ASSUME ArgumentsInv, NEW asked \in Launches, ChooseLoader(asked)
  PROVE  ArgumentsInv'
<1> DEFINE found == IF asked.preferred # {} THEN asked.preferred ELSE NewestVersions(asked)
<1>1. /\ phase = "version" /\ wrapper' = wrapper
      /\ loader' = [asked |-> asked, found |-> found]
      /\ phase' = IF found = {} THEN "failed" ELSE "installer"
  BY DEF ChooseLoader, NewestVersions
<1>2. (loader').asked = asked /\ (loader').found = found
  BY <1>1
<1>3. ArgumentsAreRead' /\ NewestLibraries' /\ GameGetsItsArguments'
  BY <1>1 DEF ArgumentsInv, ArgumentsAreRead, NewestLibraries, GameGetsItsArguments
<1>4. LoaderIsChosen'
  BY <1>1, <1>2 DEF LoaderIsChosen
<1>5. LoaderIsForTheVersion'
  <2>1. CASE found # {}
    BY <1>1, <2>1 DEF LoaderIsForTheVersion
  <2>2. CASE found = {}
    <3>1. asked.preferred = {} /\ Matching(asked) = {} /\ phase' = "failed"
      BY <1>1, <2>2, NewestExists
    <3> QED BY <1>2, <3>1 DEF LoaderIsForTheVersion
  <2> QED BY <2>1, <2>2
<1> QED BY <1>3, <1>4, <1>5 DEF ArgumentsInv, GameIsStartedAsAsked

LEMMA InvReadInstaller ==
  ASSUME ArgumentsInv, ReadInstaller
  PROVE  ArgumentsInv'
<1> DEFINE asked == loader.asked
<1>1. PICK v \in loader.found :
        /\ loader' = [loader EXCEPT !.found = {v}]
        /\ phase' = IF v.for = asked.minecraft THEN "documents" ELSE "failed"
  BY DEF ReadInstaller
<1>2. phase = "installer" /\ wrapper' = wrapper
  BY DEF ReadInstaller
<1>3. /\ loader = [asked |-> asked, found |-> loader.found]
      /\ loader.found = IF asked.preferred # {} THEN asked.preferred ELSE NewestVersions(asked)
  BY <1>2 DEF ArgumentsInv, LoaderIsChosen
<1>4. (loader').asked = asked /\ (loader').found = {v}
  BY <1>1, <1>3
<1>5. IF asked.preferred # {} THEN v \in asked.preferred
      ELSE v \in Matching(asked) /\ \A w \in Matching(asked) : ~Newer(w.parts, v.parts)
  BY <1>1, <1>3 DEF NewestVersions
<1> HIDE DEF asked
<1>6. LoaderIsForTheVersion'
  <2>1. CASE v.for = asked.minecraft
    BY <1>1, <1>4, <1>5, <2>1 DEF LoaderIsForTheVersion
  <2>2. CASE v.for # asked.minecraft
    BY <1>1, <1>4, <1>5, <2>2 DEF LoaderIsForTheVersion
  <2> QED BY <2>1, <2>2
<1>7. ArgumentsAreRead' /\ LoaderIsChosen' /\ NewestLibraries' /\ GameGetsItsArguments'
  BY <1>1, <1>2 DEF ArgumentsInv, ArgumentsAreRead, LoaderIsChosen, NewestLibraries, GameGetsItsArguments
<1> QED BY <1>6, <1>7 DEF ArgumentsInv, GameIsStartedAsAsked

LEMMA GivenType ==
  ASSUME NEW legacy \in SUBSET Seq(Seq(Piece))
  PROVE  Given(legacy) \in Seq(Line)
<1>1. CASE legacy = {}
  <2>1. <<>> \in Seq(Line)
    OBVIOUS
  <2> QED BY <1>1, <2>1 DEF Given
<1>2. CASE legacy # {}
  <2>1. (CHOOSE values \in legacy : TRUE) \in legacy
    BY <1>2
  <2>2. Given(legacy) \in Seq(Seq(Piece))
    BY <1>2, <2>1 DEF Given
  <2> QED BY <2>2, LinesAreLines
<1> QED BY <1>1, <1>2

LEMMA InvStart ==
  ASSUME ArgumentsInv, Start
  PROVE  ArgumentsInv'
<1>1. /\ phase = "documents" /\ phase' = "running" /\ wrapper' = wrapper
  BY DEF Start
<1>2. PICK documents \in Documents, play \in QuickPlays :
         LET whole == ApplyTo(documents.partial, documents.base) IN
         /\ quickPlay' = play
         /\ version' = documents
         /\ classpath' = CollectLibraries(whole.libraries, play)
         /\ lines' = FlattenSeq([i \in DOMAIN whole.game |-> ArgumentLines(whole.game[i], play)])
                     \o ValueLines(Given(whole.legacy), play)
                     \o <<<<Text("launch")>>, <<Text(whole.main)>>>>
  BY DEF Start
<1>3. documents.base \in Document /\ documents.partial \in Document
  BY LaunchArgumentsAssumption
<1> DEFINE asks == documents.base.game \o documents.partial.game
           legacy == IF documents.partial.legacy = {} THEN documents.base.legacy ELSE documents.partial.legacy
           libraries == documents.base.libraries \o documents.partial.libraries
           mainClass == IF documents.partial.main = "none" THEN documents.base.main ELSE documents.partial.main
<1>a. asks \in Seq(Argument) /\ libraries \in Seq(Library)
      /\ legacy \in SUBSET Seq(Seq(Piece)) /\ mainClass \in Words
  <2>1. /\ documents.base.game \in Seq(Argument) /\ documents.partial.game \in Seq(Argument)
        /\ documents.base.libraries \in Seq(Library) /\ documents.partial.libraries \in Seq(Library)
        /\ documents.base.legacy \in SUBSET Seq(Seq(Piece)) /\ documents.partial.legacy \in SUBSET Seq(Seq(Piece))
        /\ documents.base.main \in Words /\ documents.partial.main \in Words
    BY <1>3, Zenon DEF Document, Words
  <2>2. \A A : \A s, t \in Seq(A) : s \o t \in Seq(A)
    OBVIOUS
  <2>3. asks \in Seq(Argument) /\ libraries \in Seq(Library)
    BY <2>1, <2>2
  <2>4. legacy \in SUBSET Seq(Seq(Piece)) /\ mainClass \in Words
    BY <2>1, Zenon
  <2> QED BY <2>3, <2>4
<1> DEFINE whole == [game |-> asks, legacy |-> legacy, libraries |-> libraries, main |-> mainClass]
<1>b. /\ quickPlay' = play /\ version' = documents
      /\ classpath' = CollectLibraries(libraries, play)
      /\ lines' = FlattenSeq([i \in DOMAIN asks |-> ArgumentLines(asks[i], play)])
                  \o ValueLines(Given(legacy), play) \o <<<<Text("launch")>>, <<Text(mainClass)>>>>
  <2>1. ApplyTo(documents.partial, documents.base) = whole
    BY DEF ApplyTo
  <2> HIDE DEF asks, legacy, libraries, mainClass
  <2>2. whole.game = asks /\ whole.legacy = legacy /\ whole.libraries = libraries /\ whole.main = mainClass
    OBVIOUS
  <2> HIDE DEF whole
  <2> QED BY <1>2, <2>1, <2>2
<1>c. SaidGame' = asks /\ SaidLibraries' = libraries
  BY <1>b DEF SaidGame, SaidLibraries
<1>d. SaidLegacy' = Given(legacy)
  <2>1. CASE documents.partial.legacy = {}
    BY <1>b, <2>1 DEF SaidLegacy
  <2>2. CASE documents.partial.legacy # {}
    BY <1>b, <2>2 DEF SaidLegacy
  <2> QED BY <2>1, <2>2
<1>e. SaidMain' = mainClass
  <2>1. CASE documents.partial.main = "none"
    BY <1>b, <2>1 DEF SaidMain
  <2>2. CASE documents.partial.main # "none"
    BY <1>b, <2>2 DEF SaidMain
  <2> QED BY <2>1, <2>2
<1> HIDE DEF asks, legacy, libraries, mainClass, whole
<1> DEFINE said == FlattenSeq([i \in DOMAIN asks |-> SaidBy(asks[i], play)])
           front == FlattenSeq([i \in DOMAIN asks |-> ArgumentLines(asks[i], play)])
                    \o ValueLines(Given(legacy), play)
<1>5. Said' = said \o Given(legacy)
  BY <1>b, <1>c, <1>d DEF Said, SaidBy
<1>6. IsCommands(front, Said', quickPlay')
  <2>1. IsCommands(FlattenSeq([i \in DOMAIN asks |-> ArgumentLines(asks[i], play)]), said, play)
    BY <1>a, CommandsOfVersion
  <2>2. IsCommands(ValueLines(Given(legacy), play), Given(legacy), play)
    BY <1>a, GivenType, CommandsOfValues
  <2> HIDE DEF said
  <2>3. IsCommands(front, said \o Given(legacy), play)
    BY <2>1, <2>2, CommandsConcat
  <2> QED BY <2>3, <1>5, <1>b
<1> DEFINE main == <<Text(mainClass)>>
<1>7. lines' = front \o <<LaunchLine, main>> /\ main \in Line
  BY <1>b, <1>a, WordLine DEF LaunchLine
<1> HIDE DEF front, main, said
<1>8. /\ front \in Seq(Line) /\ Said' \in Seq(Line) /\ Len(front) = 2 * Len(Said') /\ Len(Said') \in Nat
      /\ \A k \in 1..Len(Said') : front[2 * k - 1] = ArgLine /\ front[2 * k] = Expand((Said')[k], quickPlay')
  BY <1>6 DEF IsCommands
<1>9. /\ lines' \in Seq(Line) /\ Len(lines') = 2 * Len(Said') + 2
      /\ \A i \in 1..(2 * Len(Said')) : (lines')[i] = front[i]
      /\ (lines')[2 * Len(Said') + 1] = LaunchLine
      /\ (lines')[2 * Len(Said') + 2] = main
  <2> DEFINE b == LaunchLine
             back == <<b, main>>
  <2>1. b \in Line
    BY LineTypes
  <2> HIDE DEF b
  <2>2. back \in Seq(Line) /\ Len(back) = 2 /\ back[1] = b /\ back[2] = main
    BY <2>1, <1>7
  <2>3. lines' = front \o back
    BY <1>7 DEF b
  <2> HIDE DEF back
  <2>4. front \o back \in Seq(Line) /\ Len(front \o back) = Len(front) + Len(back)
        /\ \A i \in 1..(Len(front) + Len(back)) :
             (front \o back)[i] = IF i <= Len(front) THEN front[i] ELSE back[i - Len(front)]
    BY <1>8, <2>2, ConcatOf
  <2>5. \A i \in 1..(2 * Len(Said')) : i \in 1..(Len(front) + Len(back)) /\ i <= Len(front)
    BY <1>8, <2>2
  <2>6. /\ 2 * Len(Said') + 1 \in 1..(Len(front) + Len(back)) /\ ~(2 * Len(Said') + 1 <= Len(front))
        /\ 2 * Len(Said') + 2 \in 1..(Len(front) + Len(back)) /\ ~(2 * Len(Said') + 2 <= Len(front))
        /\ 2 * Len(Said') + 1 - Len(front) = 1 /\ 2 * Len(Said') + 2 - Len(front) = 2
    BY <1>8, <2>2
  <2>7. \A i \in 1..(2 * Len(Said')) : (lines')[i] = front[i]
    BY <2>3, <2>4, <2>5
  <2>8. (lines')[2 * Len(Said') + 1] = back[1] /\ (lines')[2 * Len(Said') + 2] = back[2]
    BY <2>3, <2>4, <2>6
  <2>9. lines' \in Seq(Line) /\ Len(lines') = 2 * Len(Said') + 2
    BY <1>8, <2>2, <2>3, <2>4
  <2> QED BY <2>2, <2>7, <2>8, <2>9 DEF b
<1>10. wrapper' = NothingRead
  BY <1>1 DEF ArgumentsInv, ArgumentsAreRead
<1>11. /\ (wrapper').arguments = <<>> /\ <<>> \in Seq(Line) /\ Len(<<>>) = 0
       /\ wrapper' = [arguments |-> (wrapper').arguments, main |-> (wrapper').main]
  BY <1>10 DEF NothingRead
<1>12. ArgumentsTyped'
  BY <1>8, <1>9, <1>11 DEF ArgumentsTyped
<1>13. LinesFollow'
  <2>1. Len(Said') - Len((wrapper').arguments) = Len(Said')
    BY <1>8, <1>11
  <2>2. \A k \in 1..Len(Said') : /\ (lines')[2 * k - 1] = ArgLine
                                 /\ (lines')[2 * k] = Expand((Said')[Len((wrapper').arguments) + k], quickPlay')
    <3> TAKE k \in 1..Len(Said')
    <3>1. 2 * k - 1 \in 1..(2 * Len(Said')) /\ 2 * k \in 1..(2 * Len(Said')) /\ 0 + k = k
      BY <1>8
    <3> QED BY <3>1, <1>8, <1>9, <1>11
  <2>3. \A i \in 1..Len((wrapper').arguments) : FALSE
    BY <1>11
  <2>4. (lines')[2 * Len(Said') + 2] = <<Text(SaidMain')>>
    BY <1>9, <1>e DEF main
  <2> QED BY <1>8, <1>9, <2>1, <2>2, <2>3, <2>4 DEF LinesFollow
<1>14. ArgumentsAreRead'
  BY <1>1, <1>12, <1>13 DEF ArgumentsAreRead
<1>15. NewestLibraries'
  <2>1. ASSUME NEW i \in DOMAIN libraries, RulesSayYes(libraries[i].rules, play)
        PROVE  Covers(classpath', libraries[i])
    BY <2>1, <1>b, <1>a, CollectedNewest
  <2> QED BY <2>1, <1>b, <1>c DEF NewestLibraries, Covers
<1>16. LoaderIsForTheVersion' /\ GameGetsItsArguments' /\ LoaderIsChosen'
  BY <1>1 DEF LoaderIsForTheVersion, GameGetsItsArguments, LoaderIsChosen
<1> QED BY <1>14, <1>15, <1>16 DEF ArgumentsInv, GameIsStartedAsAsked

LEMMA InvReadCommand ==
  ASSUME ArgumentsInv, ReadCommand
  PROVE  ArgumentsInv'
<1> DEFINE read == wrapper.arguments
           left == Len(Said) - Len(read)
<1>1. /\ phase = "running" /\ lines' = SubSeq(lines, 3, Len(lines))
      /\ version' = version /\ quickPlay' = quickPlay /\ classpath' = classpath
  BY DEF ReadCommand
<1>2. Said' = Said /\ SaidMain' = SaidMain /\ SaidLibraries' = SaidLibraries
  BY <1>1 DEF Said, SaidGame, SaidLegacy, SaidMain, SaidLibraries
<1>3. ArgumentsTyped /\ LinesFollow
  BY <1>1 DEF ArgumentsInv, ArgumentsAreRead
<1>4. /\ Said \in Seq(Line) /\ lines \in Seq(Line) /\ read \in Seq(Line)
      /\ wrapper = [arguments |-> read, main |-> wrapper.main]
      /\ Len(Said) \in Nat /\ Len(read) \in Nat /\ Len(lines) \in Nat
  BY <1>3 DEF ArgumentsTyped
<1>5. /\ left \in Nat
      /\ \A i \in 1..Len(read) : read[i] = Expand(Said[i], quickPlay)
      /\ Len(lines) = 2 * left + 2
      /\ \A k \in 1..left : /\ lines[2 * k - 1] = ArgLine
                            /\ lines[2 * k] = Expand(Said[Len(read) + k], quickPlay)
      /\ lines[2 * left + 1] = LaunchLine
      /\ lines[2 * left + 2] = <<Text(SaidMain)>>
  BY <1>3 DEF LinesFollow
<1>6. /\ lines' \in Seq(Line) /\ Len(lines') = 2 * left
      /\ \A i \in 1..(2 * left) : (lines')[i] = lines[i + 2]
  <2>1. Len(lines) >= 2
    BY <1>5, <1>4
  <2> QED BY <2>1, <1>1, <1>4, <1>5
<1> HIDE DEF left, read
<1>7. NewestLibraries' \/ phase' # "running"
  BY <1>1, <1>2 DEF ArgumentsInv, GameIsStartedAsAsked, NewestLibraries
<1>8. CASE left = 0
  <2>1. lines[1] = LaunchLine /\ lines[2] = <<Text(SaidMain)>>
    BY <1>5, <1>8
  <2>2. lines[1] # ArgLine
    BY <2>1, LineTypes
  <2>3. wrapper' = [wrapper EXCEPT !.main = lines[2][1].text] /\ phase' = "launched"
    BY <2>1, <2>2 DEF ReadCommand, ArgLine, LaunchLine
  <2>4. lines[2][1].text = SaidMain
    BY <2>1 DEF Text
  <2>5. (wrapper').arguments = read /\ (wrapper').main = SaidMain
        /\ wrapper' = [arguments |-> read, main |-> SaidMain]
    BY <1>4, <2>3, <2>4
  <2>6. ArgumentsTyped'
    BY <1>2, <1>4, <1>6, <2>5 DEF ArgumentsTyped
  <2>7. ArgumentsAreRead'
    BY <2>3, <2>6 DEF ArgumentsAreRead
  <2>8. Len(read) = Len(Said)
    BY <1>8, <1>4 DEF left
  <2>9. \A i \in DOMAIN Said : read[i] = IF BeginsEmpty(Said[i], quickPlay) THEN Said[i] ELSE Replaced(Said[i], quickPlay)
    <3> TAKE i \in DOMAIN Said
    <3>1. i \in 1..Len(read) /\ Said[i] \in Seq(AnyPiece)
      BY <1>4, <2>8 DEF Line
    <3>2. read[i] = Expand(Said[i], quickPlay)
      BY <3>1, <1>5
    <3> QED BY <3>1, <3>2, ExpandIs
  <2>10. GameGetsItsArguments'
    BY <1>1, <1>2, <2>5, <2>8, <2>9 DEF GameGetsItsArguments
  <2>11. NewestLibraries' /\ LoaderIsForTheVersion' /\ LoaderIsChosen'
    BY <2>3 DEF NewestLibraries, LoaderIsForTheVersion, LoaderIsChosen
  <2> QED BY <2>7, <2>10, <2>11 DEF ArgumentsInv, GameIsStartedAsAsked
<1>9. CASE left # 0
  <2>1. 1 \in 1..left /\ 2 * 1 - 1 = 1 /\ 2 * 1 = 2
    BY <1>5, <1>9
  <2>2. lines[1] = ArgLine /\ lines[2] = Expand(Said[Len(read) + 1], quickPlay)
    BY <2>1, <1>5
  <2>3. wrapper' = [wrapper EXCEPT !.arguments = Append(@, lines[2])] /\ phase' = phase
    <3>1. lines[1] = <<Text("arg")>> /\ lines[1] # <<Text("launch")>>
      BY <2>2, LineTypes DEF ArgLine, LaunchLine
    <3> QED BY <3>1 DEF ReadCommand
  <2> DEFINE now == Append(read, lines[2])
  <2>4. lines[2] \in Line
    BY <1>4, <1>5, <1>9
  <2>5. /\ now \in Seq(Line) /\ Len(now) = Len(read) + 1 /\ now[Len(read) + 1] = lines[2]
        /\ \A i \in 1..Len(read) : now[i] = read[i]
    BY <2>4, <1>4
  <2>6. (wrapper').arguments = now /\ wrapper' = [arguments |-> now, main |-> wrapper.main]
        /\ (wrapper').main = wrapper.main
    <3>1. wrapper' = [wrapper EXCEPT !.arguments = now]
      BY <2>3 DEF read
    <3> HIDE DEF now
    <3> QED BY <3>1, <1>4
  <2> HIDE DEF now
  <2>7. ArgumentsTyped'
    BY <1>2, <1>4, <1>6, <2>5, <2>6 DEF ArgumentsTyped
  <2>8. /\ Len(Said') - Len((wrapper').arguments) = left - 1 /\ left - 1 \in Nat /\ left \in Nat
    <3>1. Len(Said') = Len(Said) /\ Len((wrapper').arguments) = Len(read) + 1
      BY <1>2, <2>5, <2>6
    <3>2. left = Len(Said) - Len(read) /\ left \in Nat
      BY <1>5 DEF left
    <3> QED BY <3>1, <3>2, <1>4, <1>9
  <2>9. \A i \in 1..Len(now) : now[i] = Expand(Said[i], quickPlay)
    <3> TAKE i \in 1..Len(now)
    <3>1. i \in 1..Len(read) \/ i = Len(read) + 1
      BY <2>5, <1>4
    <3> QED BY <3>1, <2>5, <2>2, <1>5
  <2>10. Len(lines') = 2 * (left - 1) + 2
    BY <1>6, <2>8
  <2>11. \A k \in 1..(left - 1) : /\ (lines')[2 * k - 1] = ArgLine
                                  /\ (lines')[2 * k] = Expand(Said[Len(now) + k], quickPlay)
    <3> TAKE k \in 1..(left - 1)
    <3>1. /\ 2 * k - 1 \in 1..(2 * left) /\ 2 * k \in 1..(2 * left) /\ k + 1 \in 1..left
          /\ (2 * k - 1) + 2 = 2 * (k + 1) - 1 /\ 2 * k + 2 = 2 * (k + 1)
      BY <2>8
    <3>a. Len(now) + k = Len(read) + (k + 1)
      BY <2>8, <2>5, <1>4
    <3>2. (lines')[2 * k - 1] = lines[2 * (k + 1) - 1] /\ (lines')[2 * k] = lines[2 * (k + 1)]
      BY <3>1, <1>6
    <3> QED BY <3>1, <3>2, <3>a, <1>5
  <2>12. (lines')[2 * (left - 1) + 1] = LaunchLine /\ (lines')[2 * (left - 1) + 2] = <<Text(SaidMain)>>
    <3>1. /\ 2 * (left - 1) + 1 \in 1..(2 * left) /\ 2 * (left - 1) + 2 \in 1..(2 * left)
          /\ (2 * (left - 1) + 1) + 2 = 2 * left + 1 /\ (2 * (left - 1) + 2) + 2 = 2 * left + 2
      BY <2>8
    <3> QED BY <3>1, <1>5, <1>6
  <2>13. LinesFollow'
    BY <1>1, <1>2, <2>6, <2>8, <2>9, <2>10, <2>11, <2>12 DEF LinesFollow
  <2>14. ArgumentsAreRead'
    BY <1>1, <2>3, <2>7, <2>13 DEF ArgumentsAreRead
  <2>15. NewestLibraries' /\ LoaderIsForTheVersion' /\ GameGetsItsArguments' /\ LoaderIsChosen'
    BY <1>1, <1>7, <2>3 DEF LoaderIsForTheVersion, GameGetsItsArguments, LoaderIsChosen
  <2> QED BY <2>14, <2>15 DEF ArgumentsInv, GameIsStartedAsAsked
<1> QED BY <1>8, <1>9

LEMMA InvStutter ==
  ASSUME ArgumentsInv, UNCHANGED argumentVars
  PROVE  ArgumentsInv'
<1>1. /\ phase' = phase /\ loader' = loader /\ version' = version /\ quickPlay' = quickPlay
      /\ classpath' = classpath /\ lines' = lines /\ wrapper' = wrapper
  BY DEF argumentVars
<1>2. Said' = Said /\ SaidMain' = SaidMain /\ SaidLibraries' = SaidLibraries
  BY <1>1 DEF Said, SaidGame, SaidLegacy, SaidMain, SaidLibraries
<1>3. ArgumentsAreRead'
  BY <1>1, <1>2 DEF ArgumentsInv, ArgumentsAreRead, ArgumentsTyped, LinesFollow
<1>4. LoaderIsChosen' /\ LoaderIsForTheVersion'
  BY <1>1 DEF ArgumentsInv, GameIsStartedAsAsked, LoaderIsChosen, LoaderIsForTheVersion
<1>5. NewestLibraries' /\ GameGetsItsArguments'
  BY <1>1, <1>2 DEF ArgumentsInv, GameIsStartedAsAsked, NewestLibraries, GameGetsItsArguments
<1> QED BY <1>3, <1>4, <1>5 DEF ArgumentsInv, GameIsStartedAsAsked

\* The loader is the one for the version asked for or the launch ends, every library
\* that is wanted is there once and in its newest version, and the game gets all its
\* arguments, for any manifests, documents and rules (launch.rs:462-500, 587, 1906-2281).
THEOREM StartedAsAsked == ArgumentsSpec => []GameIsStartedAsAsked
<1>1. ArgumentsInv /\ [ArgumentsNext]_argumentVars => ArgumentsInv'
  BY InvChooseLoader, InvReadInstaller, InvStart, InvReadCommand, InvStutter DEF ArgumentsNext
<1>2. ArgumentsInv => GameIsStartedAsAsked
  BY DEF ArgumentsInv
<1> QED BY InvInit, <1>1, <1>2, PTL DEF ArgumentsSpec

-----------------------------------------------------------------------------
(* What a game starts in sync with.                                          *)

SharedOptions == Options \ LocalOptions

SyncTypeOK ==
    /\ targets \subseteq {"saves", "options", "servers"}
    /\ folder \in [Instances -> {"none", "own", "link", "foreign"}]
    /\ options \in [Instances -> [time : Nat, values : [Options -> Nat]]]
    /\ fallback \in [Options -> Nat]
    /\ servers \in [Instances -> [time : Nat, list : Nat]]
    /\ game \in [Instances -> {<<>>} \cup {<<v>> : v \in [Options -> Nat \ {NotThere}]}]
    /\ clock \in Nat \ {0}
    /\ launching \in {{}} \cup {{i} : i \in Instances}
    /\ lastSet \in [Options -> Nat]
    /\ lastList \in Nat
    /\ stale \in BOOLEAN
    /\ due \in [options : [Options -> Nat], list : Nat, linkable : BOOLEAN]

\* Nothing was written later than now.
Past == \A i \in Instances : options[i].time <= clock /\ servers[i].time <= clock

\* The files that have an option, and the latest of them.
Tellers(k) == {i \in Instances : options[i].values[k] # NotThere}
LatestTeller(k, i) == i \in Tellers(k) /\ \A j \in Tellers(k) : options[j].time <= options[i].time

\* What the fallback has of a shared option a file has, too, and the latest file
\* has what was set last.
OptionFollows(k) ==
    /\ Tellers(k) = {} => fallback[k] = NotThere
    /\ Tellers(k) # {} => \E i \in Instances : LatestTeller(k, i)
    /\ ~stale => /\ Tellers(k) = {} => lastSet[k] = Default
                 /\ \A i \in Instances : LatestTeller(k, i) => options[i].values[k] = lastSet[k]

ServersFollow ==
    /\ Instances # {} => \E i \in Instances : Latest(i)
    /\ \A i \in Instances : Latest(i) => servers[i].list = lastList

\* The files of an instance have what is due to its game.
Prepared(i) ==
    /\ due.linkable => (folder[i] = "link" <=> "saves" \in targets)
    /\ "servers" \in targets => servers[i].list = due.list
    /\ "options" \in targets /\ ~stale =>
           \A k \in SharedOptions :
               due.options[k] = IF options[i].values[k] = NotThere THEN Default ELSE options[i].values[k]
    /\ \A k \in LocalOptions \cap Options : due.options[k] # NotThere => options[i].values[k] = due.options[k]

FilesInv ==
    /\ SyncTypeOK
    /\ Past
    /\ \A k \in SharedOptions : OptionFollows(k)
    /\ ServersFollow

PreparedOK == \A i \in launching : Prepared(i)

SyncInv == FilesInv /\ PreparedOK

-----------------------------------------------------------------------------
(* The operators.                                                           *)

WrittenUpTo(i, v) ==
    /\ v \in [Options -> Nat]
    /\ clock' = clock + 1
    /\ options' = [options EXCEPT ![i] = [time |-> clock', values |-> v]]

\* A file that is written now is the latest of those that have an option it has.
LEMMA WrittenLast ==
    ASSUME SyncTypeOK, Past, NEW i \in Instances, NEW v, WrittenUpTo(i, v), NEW k \in Options
    PROVE  /\ v[k] = NotThere /\ Tellers(k) = {} => Tellers(k)' = {}
           /\ v[k] # NotThere => /\ Tellers(k)' # {}
                                 /\ \A j \in Instances : LatestTeller(k, j)' <=> j = i
           /\ options'[i].values[k] = v[k]
  <1>1. /\ options \in [Instances -> [time : Nat, values : [Options -> Nat]]] /\ clock \in Nat
        /\ options'[i] = [time |-> clock + 1, values |-> v]
        /\ \A j \in Instances \ {i} : options'[j] = options[j] /\ options[j].time <= clock
    BY DEF SyncTypeOK, Past, WrittenUpTo
  <1>2. options'[i].time = clock + 1 /\ options'[i].values = v
    BY <1>1
  <1>3. ASSUME v[k] = NotThere, Tellers(k) = {} PROVE Tellers(k)' = {}
    BY <1>1, <1>2, <1>3 DEF Tellers
  <1>4. ASSUME v[k] # NotThere PROVE i \in Tellers(k)' /\ \A j \in Instances : LatestTeller(k, j)' <=> j = i
    <2>1. i \in Tellers(k)'
      BY <1>2, <1>4 DEF Tellers
    <2>2. \A j \in Instances : j # i => options'[j].time < options'[i].time
      BY <1>1, <1>2
    <2>3. \A j \in Instances : options'[j].time \in Nat
      BY <1>1, <1>2
    <2>4. \A j \in Instances : LatestTeller(k, j)' => j = i
      BY <1>2, <2>1, <2>2, <2>3 DEF LatestTeller
    <2>5. LatestTeller(k, i)'
      <3>1. \A j \in Tellers(k)' : options'[j].time <= options'[i].time
        BY <2>2, <2>3 DEF Tellers
      <3> QED
        BY <2>1, <3>1 DEF LatestTeller
    <2> QED
      BY <2>1, <2>4, <2>5
  <1> QED
    BY <1>2, <1>3, <1>4

\* The merge has a shared option as the latest file has it, and a local one as the
\* instance has it.
LEMMA MergeTakesTheLast ==
    ASSUME FilesInv, NEW i \in Instances
    PROVE  /\ Combined(i) \in [Options -> Nat]
           /\ \A k \in SharedOptions : IF Tellers(k) = {} THEN Combined(i)[k] = NotThere
                                       ELSE \E j \in Instances : LatestTeller(k, j) /\ Combined(i)[k] = options[j].values[k]
           /\ \A k \in LocalOptions \cap Options :
                  options[i].values[k] # NotThere => Combined(i)[k] = options[i].values[k]
  <1>1. \A j \in Instances : options[j].values \in [Options -> Nat] /\ options[j].time \in Nat
    BY DEF FilesInv, SyncTypeOK
  <1> DEFINE T(k) == {j \in Instances : Taken(i, j)[k] # NotThere}
             last(k) == CHOOSE j \in T(k) : \A h \in T(k) : options[h].time <= options[j].time
  <1>2. \A j \in Instances, k \in Options :
            Taken(i, j)[k] = IF j = i \/ k \notin LocalOptions THEN options[j].values[k] ELSE NotThere
    BY <1>1 DEF Taken, Shared
  <1>3. \A k \in Options : Combined(i)[k] = IF T(k) = {} THEN fallback[k] ELSE Taken(i, last(k))[k]
    BY DEF Combined
  <1>4. ASSUME NEW k \in SharedOptions
        PROVE  IF Tellers(k) = {} THEN T(k) = {} ELSE T(k) # {} /\ LatestTeller(k, last(k)) /\ last(k) \in Instances
    <2>1. T(k) = Tellers(k)
      BY <1>2 DEF Tellers, SharedOptions
    <2>2. ASSUME Tellers(k) # {} PROVE LatestTeller(k, last(k)) /\ last(k) \in Instances
      <3>1. PICK j \in Instances : LatestTeller(k, j)
        BY <2>2 DEF FilesInv, OptionFollows
      <3>2. j \in T(k) /\ \A h \in T(k) : options[h].time <= options[j].time
        BY <2>1, <3>1 DEF LatestTeller
      <3>3. last(k) \in T(k) /\ \A h \in T(k) : options[h].time <= options[last(k)].time
        BY <3>2, Zenon
      <3> HIDE DEF T, last
      <3> QED
        BY <2>1, <3>3 DEF LatestTeller, Tellers
    <2> HIDE DEF T, last
    <2> QED
      BY <2>1, <2>2
  <1>5. ASSUME NEW k \in LocalOptions \cap Options, options[i].values[k] # NotThere
        PROVE  Combined(i)[k] = options[i].values[k]
    <2>1. T(k) = {i}
      BY <1>2, <1>5
    <2>2. i \in T(k) /\ \A h \in T(k) : options[h].time <= options[i].time
      BY <1>1, <2>1
    <2>3. last(k) \in T(k)
      BY <2>2, Zenon
    <2>4. last(k) = i
      BY <2>1, <2>3
    <2> HIDE DEF T, last
    <2> QED
      BY <1>2, <1>3, <2>1, <2>4
  <1>6. ASSUME NEW k \in Options PROVE Combined(i)[k] \in Nat
    <2>1. CASE k \in SharedOptions /\ Tellers(k) # {}
      <3> HIDE DEF T, last
      <3> QED
        BY <1>1, <1>2, <1>3, <1>4, <2>1 DEF SharedOptions
    <2>2. CASE T(k) = {}
      BY <1>3, <2>2 DEF FilesInv, SyncTypeOK
    <2>3. CASE k \in LocalOptions /\ T(k) # {}
      <3>1. T(k) = {i} /\ options[i].values[k] # NotThere
        BY <1>2, <2>3
      <3> HIDE DEF T, last
      <3> QED
        BY <1>1, <1>5, <2>3, <3>1
    <2> HIDE DEF T, last
    <2> QED
      BY <1>4, <2>1, <2>2, <2>3 DEF SharedOptions
  <1>7. Combined(i) \in [Options -> Nat]
    <2>1. Combined(i) = [k \in Options |-> Combined(i)[k]]
      BY DEF Combined
    <2> QED
      BY <1>6, <2>1
  <1>8. ASSUME NEW k \in SharedOptions
        PROVE  IF Tellers(k) = {} THEN Combined(i)[k] = NotThere
               ELSE \E j \in Instances : LatestTeller(k, j) /\ Combined(i)[k] = options[j].values[k]
    <2>1. k \in Options /\ k \notin LocalOptions
      BY DEF SharedOptions
    <2>2. CASE Tellers(k) = {}
      <3>1. fallback[k] = NotThere
        BY <2>2 DEF FilesInv, OptionFollows
      <3> HIDE DEF T, last
      <3> QED
        BY <1>3, <1>4, <2>1, <2>2, <3>1
    <2>3. CASE Tellers(k) # {}
      <3> HIDE DEF T, last
      <3> QED
        BY <1>2, <1>3, <1>4, <2>1, <2>3
    <2> QED
      BY <2>2, <2>3
  <1> QED
    BY <1>5, <1>7, <1>8


ListWritten(i, list) ==
    /\ list \in Nat
    /\ clock' = clock + 1
    /\ servers' = [servers EXCEPT ![i] = [time |-> clock', list |-> list]]

\* A list of servers that is written now is the only latest.
LEMMA ListWrittenLast ==
    ASSUME SyncTypeOK, Past, NEW i \in Instances, NEW list, ListWritten(i, list)
    PROVE  /\ \A j \in Instances : Latest(j)' <=> j = i
           /\ servers'[i].list = list
  <1>1. /\ servers \in [Instances -> [time : Nat, list : Nat]] /\ clock \in Nat
        /\ servers'[i] = [time |-> clock + 1, list |-> list]
        /\ \A j \in Instances \ {i} : servers'[j] = servers[j] /\ servers[j].time <= clock
    BY DEF SyncTypeOK, Past, ListWritten
  <1>2. servers'[i].time = clock + 1 /\ servers'[i].list = list
    BY <1>1
  <1>3. \A j \in Instances : servers'[j].time \in Nat /\ (j # i => servers'[j].time < servers'[i].time)
    BY <1>1, <1>2
  <1>4. \A j \in Instances : Latest(j)' => j = i
    BY <1>3 DEF Latest
  <1>5. Latest(i)'
    BY <1>3 DEF Latest
  <1> QED
    BY <1>2, <1>4, <1>5

-----------------------------------------------------------------------------
(* The invariant.                                                           *)

LEMMA SyncInitHolds == SyncInit => SyncInv
  <1> SUFFICES ASSUME SyncInit PROVE SyncInv
    OBVIOUS
  <1>1. PICK played \in SUBSET Instances :
            options = [i \in Instances |->
                         IF i \in played THEN [time |-> Default, values |-> [k \in Options |-> Default]]
                         ELSE [time |-> 0, values |-> [k \in Options |-> NotThere]]]
    BY DEF SyncInit
  <1>2. ASSUME NEW i \in Instances
        PROVE  /\ options[i].time = IF i \in played THEN 1 ELSE 0
               /\ options[i].values = [k \in Options |-> IF i \in played THEN 1 ELSE 0]
    BY <1>1 DEF Default, NotThere
  <1>3. SyncTypeOK
    <2>1. options \in [Instances -> [time : Nat, values : [Options -> Nat]]]
      BY <1>1 DEF Default, NotThere
    <2>2. /\ fallback \in [Options -> Nat] /\ lastSet \in [Options -> Nat]
          /\ servers \in [Instances -> [time : Nat, list : Nat]] /\ lastList \in Nat
      BY DEF SyncInit, Default, NotThere
    <2>3. game \in [Instances -> {<<>>} \cup {<<v>> : v \in [Options -> Nat \ {NotThere}]}]
      BY DEF SyncInit
    <2>4. targets \subseteq {"saves", "options", "servers"} /\ clock \in Nat \ {0}
      BY DEF SyncInit, Default
    <2>5. stale \in BOOLEAN
      BY DEF SyncInit
    <2>6. folder \in [Instances -> {"none", "own", "link", "foreign"}]
      BY DEF SyncInit
    <2>7. /\ launching \in {{}} \cup {{i} : i \in Instances}
          /\ due \in [options : [Options -> Nat], list : Nat, linkable : BOOLEAN]
      BY DEF SyncInit, NothingDue, NotThere
    <2> QED
      BY <2>1, <2>2, <2>3, <2>4, <2>5, <2>6, <2>7 DEF SyncTypeOK
  <1>4. Past
    <2>1. ASSUME NEW i \in Instances PROVE options[i].time <= 1 /\ servers[i].time <= 1
      BY <1>2 DEF SyncInit
    <2> QED
      BY <2>1 DEF SyncInit, Past, Default
  <1>5. ASSUME NEW k \in SharedOptions PROVE OptionFollows(k)
    <2>1. Tellers(k) = played
      <3>1. \A i \in Instances : options[i].values[k] = IF i \in played THEN 1 ELSE 0
        BY <1>2 DEF SharedOptions
      <3> QED
        BY <3>1 DEF Tellers, NotThere
    <2>2. \A i \in played : LatestTeller(k, i)
      <3>1. \A i \in played : options[i].time = 1
        BY <1>2
      <3> QED
        BY <2>1, <3>1 DEF LatestTeller
    <2>3. fallback[k] = NotThere /\ lastSet[k] = Default
      BY DEF SyncInit, SharedOptions
    <2>4. \A i \in Instances : LatestTeller(k, i) => options[i].values[k] = Default
      BY <1>2, <2>1 DEF LatestTeller, Default, SharedOptions
    <2> QED
      BY <2>1, <2>2, <2>3, <2>4 DEF OptionFollows
  <1>6. ServersFollow
    BY DEF SyncInit, ServersFollow, Latest
  <1>7. PreparedOK
    BY DEF SyncInit, PreparedOK
  <1> QED
    BY <1>3, <1>4, <1>5, <1>6, <1>7 DEF FilesInv, SyncInv

\* Where neither options nor what is remembered of them change, they still follow.
LEMMA OptionsStay ==
    ASSUME \A k \in SharedOptions : OptionFollows(k), UNCHANGED <<options, fallback, lastSet, stale>>
    PROVE  \A k \in SharedOptions : OptionFollows(k)'
  <1>1. \A k \in SharedOptions : Tellers(k)' = Tellers(k)
    BY DEF Tellers
  <1>2. \A k \in SharedOptions, i \in Instances : LatestTeller(k, i)' <=> LatestTeller(k, i)
    BY <1>1 DEF LatestTeller
  <1> QED
    BY <1>1, <1>2 DEF OptionFollows

LEMMA ServersStay ==
    ASSUME ServersFollow, UNCHANGED <<servers, lastList>>
    PROVE  ServersFollow'
  BY DEF ServersFollow, Latest

\* Steps of folders, targets and games that end write no file.
LEMMA QuietStep ==
    ASSUME FilesInv, UNCHANGED <<options, fallback, servers, clock, lastSet, lastList, stale>>, SyncTypeOK'
    PROVE  FilesInv'
  <1>1. Past'
    BY DEF FilesInv, Past
  <1> QED
    BY <1>1, OptionsStay, ServersStay DEF FilesInv

\* What ApplyOptions does to the options, and what the game then reads.
LEMMA ApplyOptionsFollows ==
    ASSUME FilesInv, NEW i \in Instances, Prelaunch(i)
    PROVE  /\ \A k \in SharedOptions : OptionFollows(k)'
           /\ options' \in [Instances -> [time : Nat, values : [Options -> Nat]]]
           /\ fallback' \in [Options -> Nat]
           /\ \A j \in Instances : options'[j].time <= clock'
           /\ \A k \in LocalOptions \cap Options :
                  options[i].values[k] # NotThere => options'[i].values[k] = options[i].values[k]
           /\ "options" \in targets =>
                  \A k \in SharedOptions :
                      ~stale => lastSet[k] = IF options'[i].values[k] = NotThere THEN Default
                                             ELSE options'[i].values[k]
  <1>1. /\ clock' = clock + 1 /\ clock \in Nat /\ UNCHANGED <<lastSet, stale>>
        /\ options \in [Instances -> [time : Nat, values : [Options -> Nat]]]
        /\ fallback \in [Options -> Nat]
        /\ \A j \in Instances : options[j].time <= clock
    BY DEF FilesInv, SyncTypeOK, Past, Prelaunch, Tick
  <1>2. CASE "options" \notin targets
    <2>1. UNCHANGED <<options, fallback>>
      BY <1>2 DEF Prelaunch, ApplyOptions
    <2>2. \A j \in Instances : options[j].time \in Nat
      BY <1>1
    <2> QED
      BY <1>1, <1>2, <2>1, <2>2, OptionsStay DEF FilesInv
  <1>3. CASE "options" \in targets
    <2> PICK v : v = Combined(i)
      OBVIOUS
    <2>1. /\ v \in [Options -> Nat]
          /\ \A k \in SharedOptions : IF Tellers(k) = {} THEN v[k] = NotThere
                                      ELSE \E j \in Instances : LatestTeller(k, j) /\ v[k] = options[j].values[k]
          /\ \A k \in LocalOptions \cap Options :
                 options[i].values[k] # NotThere => v[k] = options[i].values[k]
      BY MergeTakesTheLast
    <2>2. options' = [options EXCEPT ![i] = [time |-> clock', values |-> v]] /\ fallback' = v
      BY <1>3 DEF Prelaunch, ApplyOptions
    <2>3. options'[i].values = v /\ \A j \in Instances : options'[j].time <= clock'
      BY <1>1, <2>1, <2>2
    <2>4. options' \in [Instances -> [time : Nat, values : [Options -> Nat]]]
      BY <1>1, <2>1, <2>2
    <2>5. ASSUME NEW k \in SharedOptions
          PROVE  OptionFollows(k)' /\ (~stale => lastSet[k] = IF v[k] = NotThere THEN Default ELSE v[k])
      <3>1. k \in Options /\ (v[k] = NotThere <=> Tellers(k) = {})
        BY <2>1 DEF SharedOptions, LatestTeller, Tellers
      <3>2. /\ v[k] = NotThere => Tellers(k)' = {}
            /\ v[k] # NotThere => /\ Tellers(k)' # {}
                                  /\ \A j \in Instances : LatestTeller(k, j)' <=> j = i
        <4>1. SyncTypeOK /\ Past
          BY DEF FilesInv
        <4>2. WrittenUpTo(i, v)
          BY <1>1, <2>1, <2>2 DEF WrittenUpTo
        <4> QED
          BY <3>1, <4>1, <4>2, WrittenLast
      <3>3. ~stale => lastSet[k] = IF v[k] = NotThere THEN Default ELSE v[k]
        BY <2>1, <3>1 DEF FilesInv, OptionFollows
      <3>4. Tellers(k)' = {} => fallback'[k] = NotThere
        BY <2>2, <3>2
      <3>5. Tellers(k)' # {} => \E j \in Instances : LatestTeller(k, j)'
        BY <3>2
      <3>6. ASSUME ~stale'
            PROVE  /\ Tellers(k)' = {} => lastSet'[k] = Default
                   /\ \A j \in Instances : LatestTeller(k, j)' => options'[j].values[k] = lastSet'[k]
        <4>1. CASE v[k] = NotThere
          <5>1. \A j \in Instances : ~LatestTeller(k, j)'
            BY <3>2, <4>1 DEF LatestTeller
          <5> QED
            BY <1>1, <3>3, <3>6, <4>1, <5>1
        <4>2. CASE v[k] # NotThere
          BY <1>1, <2>3, <3>2, <3>3, <3>6, <4>2
        <4> QED
          BY <4>1, <4>2
      <3> QED
        BY <3>3, <3>4, <3>5, <3>6 DEF OptionFollows
    <2> QED
      BY <2>1, <2>2, <2>3, <2>4, <2>5
  <1> QED
    BY <1>2, <1>3


\* What ApplyServers does.
LEMMA ApplyServersFollows ==
    ASSUME FilesInv, NEW i \in Instances, Prelaunch(i)
    PROVE  /\ ServersFollow'
           /\ servers' \in [Instances -> [time : Nat, list : Nat]]
           /\ \A j \in Instances : servers'[j].time <= clock'
           /\ "servers" \in targets => servers'[i].list = lastList
  <1>1. /\ clock' = clock + 1 /\ clock \in Nat /\ lastList' = lastList
        /\ servers \in [Instances -> [time : Nat, list : Nat]]
        /\ \A j \in Instances : servers[j].time <= clock /\ servers[j].time \in Nat
    BY DEF FilesInv, SyncTypeOK, Past, Prelaunch, Tick
  <1>2. CASE "servers" \notin targets \/ Latest(i)
    <2>1. servers' = servers
      BY <1>2 DEF Prelaunch, ApplyServers
    <2>2. "servers" \in targets => servers'[i].list = lastList
      BY <1>2, <2>1 DEF FilesInv, ServersFollow
    <2> QED
      BY <1>1, <2>1, <2>2, ServersStay DEF FilesInv
  <1>3. CASE ~("servers" \notin targets \/ Latest(i))
    <2>1. PICK j \in Instances : /\ Latest(j)
                                 /\ servers' = [servers EXCEPT ![i] = [servers[j] EXCEPT !.time = clock']]
      BY <1>3 DEF Prelaunch, ApplyServers
    <2>2. servers[j].list = lastList /\ lastList \in Nat
      BY <2>1 DEF FilesInv, ServersFollow, SyncTypeOK
    <2>3. [servers[j] EXCEPT !.time = clock'] = [time |-> clock', list |-> lastList]
      BY <1>1, <2>2
    <2>4. PICK list \in Nat : list = lastList
      BY <2>2
    <2>5. servers' = [servers EXCEPT ![i] = [time |-> clock', list |-> list]]
      BY <2>1, <2>3, <2>4
    <2>6. /\ \A h \in Instances : Latest(h)' <=> h = i
          /\ servers'[i].list = list
      <3>1. SyncTypeOK /\ Past
        BY DEF FilesInv
      <3>2. ListWritten(i, list)
        BY <1>1, <2>5 DEF ListWritten
      <3> QED
        BY <3>1, <3>2, ListWrittenLast
    <2>7. servers' \in [Instances -> [time : Nat, list : Nat]]
      BY <1>1, <2>5
    <2>8. \A h \in Instances : servers'[h].time <= clock'
      BY <1>1, <2>5
    <2> QED
      BY <1>1, <2>4, <2>6, <2>7, <2>8 DEF ServersFollow
  <1> QED
    BY <1>2, <1>3

\* The options that a game reads are all there.
LEMMA GameReads ==
    ASSUME NEW v \in [Options -> Nat]
    PROVE  /\ Merged([k \in Options |-> Default], v) \in [Options -> Nat \ {NotThere}]
           /\ \A k \in Options : Merged([l \in Options |-> Default], v)[k] = IF v[k] = NotThere THEN Default ELSE v[k]
  BY DEF Merged, Default, NotThere

\* What is due to the game of an instance has its type.
LEMMA DueIsTyped ==
    ASSUME SyncTypeOK, NEW i \in Instances
    PROVE  DueTo(i) \in [options : [Options -> Nat], list : Nat, linkable : BOOLEAN]
  <1>1. options[i].values \in [Options -> Nat] /\ lastSet \in [Options -> Nat] /\ lastList \in Nat
    BY DEF SyncTypeOK
  <1>2. [k \in Options |-> IF k \in LocalOptions THEN options[i].values[k] ELSE lastSet[k]] \in [Options -> Nat]
    BY <1>1
  <1> QED
    BY <1>1, <1>2 DEF DueTo

LEMMA PrelaunchStep ==
    ASSUME FilesInv, NEW i \in Instances, Prelaunch(i)
    PROVE  FilesInv' /\ PreparedOK'
  <1>1. SyncTypeOK
    BY DEF FilesInv
  <1>2. /\ clock' = clock + 1 /\ clock \in Nat \ {0}
        /\ UNCHANGED <<targets, game, lastSet, lastList, stale>>
        /\ launching' = {i} /\ due' = DueTo(i)
    BY <1>1 DEF SyncTypeOK, Prelaunch, Tick
  <1>3. folder' \in [Instances -> {"none", "own", "link", "foreign"}]
    BY <1>1 DEF SyncTypeOK, Prelaunch, ApplyFolder, Unlinked
  <1>4. /\ launching' \in {{}} \cup {{j} : j \in Instances}
        /\ due' \in [options : [Options -> Nat], list : Nat, linkable : BOOLEAN]
    <2>1. DueTo(i) \in [options : [Options -> Nat], list : Nat, linkable : BOOLEAN]
      BY <1>1, DueIsTyped
    <2> QED
      BY <1>2, <2>1
  <1>5. SyncTypeOK'
    <2>1. /\ targets' \subseteq {"saves", "options", "servers"}
          /\ game' \in [Instances -> {<<>>} \cup {<<v>> : v \in [Options -> Nat \ {NotThere}]}]
          /\ clock' \in Nat \ {0}
          /\ lastSet' \in [Options -> Nat] /\ lastList' \in Nat /\ stale' \in BOOLEAN
      BY <1>1, <1>2 DEF SyncTypeOK
    <2>2. /\ options' \in [Instances -> [time : Nat, values : [Options -> Nat]]]
          /\ fallback' \in [Options -> Nat]
          /\ servers' \in [Instances -> [time : Nat, list : Nat]]
      BY ApplyOptionsFollows, ApplyServersFollows
    <2> QED
      BY <1>3, <1>4, <2>1, <2>2 DEF SyncTypeOK
  <1>6. Past'
    BY ApplyOptionsFollows, ApplyServersFollows DEF Past
  <1>7. Prepared(i)'
    <2>1. /\ due'.list = lastList /\ (due'.linkable <=> folder[i] \in {"none", "link"})
          /\ \A k \in Options : due'.options[k] = IF k \in LocalOptions THEN options[i].values[k] ELSE lastSet[k]
      BY <1>2 DEF DueTo
    <2>2. due'.linkable => (folder'[i] = "link" <=> "saves" \in targets)
      BY <1>1, <2>1 DEF SyncTypeOK, Prelaunch, ApplyFolder, Unlinked
    <2>3. "servers" \in targets => servers'[i].list = due'.list
      BY <2>1, ApplyServersFollows
    <2>4. "options" \in targets /\ ~stale => \A k \in SharedOptions :
              due'.options[k] = IF options'[i].values[k] = NotThere THEN Default ELSE options'[i].values[k]
      BY <2>1, ApplyOptionsFollows DEF SharedOptions
    <2>5. \A k \in LocalOptions \cap Options :
              due'.options[k] # NotThere => options'[i].values[k] = due'.options[k]
      BY <2>1, ApplyOptionsFollows
    <2> QED
      BY <1>2, <2>2, <2>3, <2>4, <2>5 DEF Prepared
  <1> QED
    BY <1>2, <1>5, <1>6, <1>7, ApplyOptionsFollows, ApplyServersFollows DEF FilesInv, PreparedOK

LEMMA StartGameStep ==
    ASSUME FilesInv, NEW i \in Instances, StartGame(i)
    PROVE  FilesInv'
  <1>1. SyncTypeOK
    BY DEF FilesInv
  <1>2. game' \in [Instances -> {<<>>} \cup {<<v>> : v \in [Options -> Nat \ {NotThere}]}]
    <2>1. options[i].values \in [Options -> Nat]
      BY <1>1 DEF SyncTypeOK
    <2>2. Merged([k \in Options |-> Default], options[i].values) \in [Options -> Nat \ {NotThere}]
      BY <2>1, GameReads
    <2>3. game' = [game EXCEPT ![i] = <<Merged([k \in Options |-> Default], options[i].values)>>]
      BY DEF StartGame
    <2> QED
      BY <1>1, <2>2, <2>3 DEF SyncTypeOK
  <1>3. /\ UNCHANGED <<targets, folder, options, fallback, servers, clock, lastSet, lastList, stale>>
        /\ launching' = {} /\ due' = NothingDue
    BY DEF StartGame, fileVars
  <1>4. NothingDue \in [options : [Options -> Nat], list : Nat, linkable : BOOLEAN]
    BY DEF NothingDue, NotThere
  <1>5. SyncTypeOK'
    BY <1>1, <1>2, <1>3, <1>4 DEF SyncTypeOK
  <1> QED
    BY <1>3, <1>5, QuietStep

LEMMA WriteOptionsStep ==
    ASSUME FilesInv, NEW i \in Instances, NEW changed \in SUBSET Options, WriteOptions(i, changed)
    PROVE  FilesInv'
  <1>1. SyncTypeOK /\ Past /\ ServersFollow
    BY DEF FilesInv
  <1>2. /\ clock' = clock + 1 /\ clock \in Nat \ {0}
        /\ UNCHANGED <<targets, folder, fallback, servers, launching, lastList>>
        /\ game[i] # <<>>
    BY <1>1 DEF SyncTypeOK, WriteOptions, Tick, Running
  <1>3. PICK old \in [Options -> Nat \ {NotThere}] : game[i] = <<old>>
    BY <1>1, <1>2 DEF SyncTypeOK
  <1>4. PICK v : v = [k \in Options |-> IF k \in changed THEN clock' ELSE game[i][1][k]]
    OBVIOUS
  <1>5. /\ v \in [Options -> Nat \ {NotThere}]
        /\ \A k \in Options : v[k] = IF k \in changed THEN clock' ELSE old[k]
    BY <1>2, <1>3, <1>4 DEF NotThere
  <1>6. /\ game' = [game EXCEPT ![i] = <<v>>]
        /\ options' = [options EXCEPT ![i] = [time |-> clock', values |-> v]]
        /\ lastSet' = [k \in Options |-> IF k \in changed THEN clock' ELSE lastSet[k]]
        /\ stale' = (stale \/ Shared(old) # Shared(lastSet))
        /\ due' = [due EXCEPT !.options = IF i \in launching THEN v ELSE @]
    BY <1>3, <1>4 DEF WriteOptions
  <1>7. SyncTypeOK'
    <2>0. v \in [Options -> Nat] /\ clock' \in Nat \ {0}
      BY <1>2, <1>5
    <2>1. options' \in [Instances -> [time : Nat, values : [Options -> Nat]]]
      <3>1. options \in [Instances -> [time : Nat, values : [Options -> Nat]]]
        BY <1>1 DEF SyncTypeOK
      <3>2. [time |-> clock', values |-> v] \in [time : Nat, values : [Options -> Nat]]
        BY <2>0
      <3> QED
        BY <1>6, <3>1, <3>2
    <2>2. game' \in [Instances -> {<<>>} \cup {<<w>> : w \in [Options -> Nat \ {NotThere}]}]
      <3>1. game \in [Instances -> {<<>>} \cup {<<w>> : w \in [Options -> Nat \ {NotThere}]}]
        BY <1>1 DEF SyncTypeOK
      <3> QED
        BY <1>5, <1>6, <3>1
    <2>3. lastSet' \in [Options -> Nat] /\ clock' \in Nat \ {0}
      <3>1. lastSet \in [Options -> Nat]
        BY <1>1 DEF SyncTypeOK
      <3> QED
        BY <1>6, <2>0, <3>1
    <2>4. stale' \in BOOLEAN
      BY <1>6
    <2>5. due' \in [options : [Options -> Nat], list : Nat, linkable : BOOLEAN]
      <3>1. due \in [options : [Options -> Nat], list : Nat, linkable : BOOLEAN]
        BY <1>1 DEF SyncTypeOK
      <3> QED
        BY <1>6, <2>0, <3>1
    <2> QED
      BY <1>1, <1>2, <2>1, <2>2, <2>3, <2>4, <2>5 DEF SyncTypeOK
  <1>8. Past'
    BY <1>1, <1>2, <1>6 DEF Past, SyncTypeOK
  <1>9. ASSUME NEW k \in SharedOptions PROVE OptionFollows(k)'
    <2>1. k \in Options /\ v \in [Options -> Nat] /\ v[k] # NotThere
      BY <1>5 DEF SharedOptions
    <2>2. /\ Tellers(k)' # {} /\ (\A j \in Instances : LatestTeller(k, j)' <=> j = i)
          /\ options'[i].values[k] = v[k]
      <3>1. WrittenUpTo(i, v)
        BY <1>2, <1>6, <2>1 DEF WrittenUpTo
      <3> QED
        BY <1>1, <2>1, <3>1, WrittenLast
    <2>3. ASSUME ~stale' PROVE v[k] = lastSet'[k]
      <3>1. Shared(old) = Shared(lastSet)
        BY <1>6, <2>3
      <3>2. Shared(old)[k] = old[k] /\ Shared(lastSet)[k] = lastSet[k]
        BY DEF Shared, SharedOptions
      <3> QED
        BY <1>5, <1>6, <2>1, <3>1, <3>2
    <2> QED
      BY <2>2, <2>3 DEF OptionFollows
  <1>10. ServersFollow'
    BY <1>1, <1>2, ServersStay
  <1> QED
    BY <1>7, <1>8, <1>9, <1>10 DEF FilesInv

LEMMA SaveServersStep ==
    ASSUME FilesInv, NEW i \in Instances, SaveServers(i)
    PROVE  FilesInv'
  <1>1. SyncTypeOK /\ Past
    BY DEF FilesInv
  <1>2. /\ clock' = clock + 1 /\ clock \in Nat \ {0}
        /\ servers' = [servers EXCEPT ![i] = [time |-> clock', list |-> clock']]
        /\ lastList' = clock'
        /\ due' = [due EXCEPT !.list = IF i \in launching THEN clock' ELSE @]
        /\ UNCHANGED <<targets, folder, options, fallback, game, launching, lastSet, stale>>
    BY <1>1 DEF SyncTypeOK, SaveServers, Tick
  <1>3. SyncTypeOK'
    <2>1. due' \in [options : [Options -> Nat], list : Nat, linkable : BOOLEAN]
      <3>1. due \in [options : [Options -> Nat], list : Nat, linkable : BOOLEAN] /\ clock' \in Nat
        BY <1>1, <1>2 DEF SyncTypeOK
      <3>2. PICK list \in Nat : due' = [due EXCEPT !.list = list]
        BY <1>2, <3>1
      <3> QED
        BY <3>1, <3>2
    <2>2. servers' \in [Instances -> [time : Nat, list : Nat]] /\ clock' \in Nat \ {0}
      BY <1>1, <1>2 DEF SyncTypeOK
    <2>3. /\ targets \subseteq {"saves", "options", "servers"}
          /\ folder \in [Instances -> {"none", "own", "link", "foreign"}]
          /\ options \in [Instances -> [time : Nat, values : [Options -> Nat]]]
          /\ fallback \in [Options -> Nat]
          /\ game \in [Instances -> {<<>>} \cup {<<v>> : v \in [Options -> Nat \ {NotThere}]}]
          /\ launching \in {{}} \cup {{j} : j \in Instances}
          /\ lastSet \in [Options -> Nat] /\ lastList' \in Nat /\ stale \in BOOLEAN
      BY <1>1, <1>2, <2>2 DEF SyncTypeOK
    <2> QED
      BY <1>2, <2>1, <2>2, <2>3 DEF SyncTypeOK
  <1>4. Past'
    BY <1>1, <1>2 DEF Past, SyncTypeOK
  <1>5. PICK list \in Nat : list = clock'
    BY <1>2
  <1>6. (\A j \in Instances : Latest(j)' <=> j = i) /\ servers'[i].list = list
    <2>1. ListWritten(i, list)
      BY <1>2, <1>5 DEF ListWritten
    <2> QED
      BY <1>1, <2>1, ListWrittenLast
  <1>7. ServersFollow'
    BY <1>2, <1>5, <1>6 DEF ServersFollow
  <1> QED
    BY <1>2, <1>3, <1>4, <1>7, OptionsStay DEF FilesInv

\* Every other step leaves the files and their history as they are.
LEMMA OtherSyncSteps ==
    ASSUME FilesInv,
           \/ \E t \in {"options", "servers"} : WantFile(t)
           \/ EnableFolder \/ EnableFails \/ DisableFolder \/ EndLaunch
           \/ \E i \in Instances : SaveWorld(i) \/ MoveFolderAway(i) \/ Exit(i)
    PROVE  FilesInv' /\ \A i \in Instances : Running(i)' => Running(i)
  <1>1. SyncTypeOK
    BY DEF FilesInv
  <1>2. UNCHANGED <<options, fallback, servers, clock, lastSet, lastList, stale>>
    BY DEF WantFile, EnableFolder, EnableFails, DisableFolder, EndLaunch, SaveWorld, MoveFolderAway, Exit, fileVars, history
  <1>3. targets' \subseteq {"saves", "options", "servers"}
    BY <1>1 DEF SyncTypeOK, WantFile, EnableFolder, EnableFails, DisableFolder, EndLaunch, SaveWorld, MoveFolderAway, Exit
  <1>4. folder' \in [Instances -> {"none", "own", "link", "foreign"}]
    BY <1>1, ZenonT(60) DEF SyncTypeOK, WantFile, EnableFolder, EnableFails, DisableFolder, EndLaunch, SaveWorld, MoveFolderAway, Exit,
                Unlinked
  <1>5. game' = game \/ \E i \in Instances : game' = [game EXCEPT ![i] = <<>>]
    BY DEF WantFile, EnableFolder, EnableFails, DisableFolder, EndLaunch, SaveWorld, MoveFolderAway, Exit
  <1>6. /\ game' \in [Instances -> {<<>>} \cup {<<v>> : v \in [Options -> Nat \ {NotThere}]}]
        /\ \A i \in Instances : game'[i] \in {game[i], <<>>}
    BY <1>1, <1>5 DEF SyncTypeOK
  <1>7. (launching' = launching /\ due' = due) \/ (launching' = {} /\ due' = NothingDue)
    <2>1. CASE EndLaunch
      BY <2>1 DEF EndLaunch
    <2>2. CASE EnableFolder \/ EnableFails \/ DisableFolder
      BY <2>2 DEF EnableFolder, EnableFails, DisableFolder, history
    <2>3. ASSUME NEW t, WantFile(t) PROVE launching' = launching /\ due' = due
      BY <2>3 DEF WantFile, history
    <2>4. ASSUME NEW i, SaveWorld(i) \/ MoveFolderAway(i) \/ Exit(i) PROVE launching' = launching /\ due' = due
      BY <2>4 DEF SaveWorld, MoveFolderAway, Exit, history
    <2> QED
      BY <2>1, <2>2, <2>3, <2>4
  <1>8. /\ launching' \in {{}} \cup {{j} : j \in Instances}
        /\ due' \in [options : [Options -> Nat], list : Nat, linkable : BOOLEAN]
    <2>1. NothingDue \in [options : [Options -> Nat], list : Nat, linkable : BOOLEAN]
      BY DEF NothingDue, NotThere
    <2>2. /\ launching \in {{}} \cup {{j} : j \in Instances}
          /\ due \in [options : [Options -> Nat], list : Nat, linkable : BOOLEAN]
      BY <1>1 DEF SyncTypeOK
    <2> QED
      BY <1>7, <2>1, <2>2
  <1>9. SyncTypeOK'
    BY <1>1, <1>2, <1>3, <1>4, <1>6, <1>8 DEF SyncTypeOK
  <1> QED
    BY <1>2, <1>6, <1>9, QuietStep DEF Running

-----------------------------------------------------------------------------
(* What was prepared stays as it is until the game starts.                   *)

\* Where nothing of an instance that is launched changes it stays prepared.
LEMMA PreparedStays ==
    ASSUME PreparedOK, UNCHANGED <<targets, launching, stale, due>>,
           \A i \in launching : /\ options'[i] = options[i] /\ servers'[i] = servers[i]
                                /\ folder'[i] = "link" <=> folder[i] = "link"
    PROVE  PreparedOK'
  BY DEF PreparedOK, Prepared

LEMMA WriteOptionsPrepared ==
    ASSUME FilesInv, PreparedOK, NEW i \in Instances, NEW changed \in SUBSET Options, WriteOptions(i, changed)
    PROVE  PreparedOK'
  <1>1. SyncTypeOK
    BY DEF FilesInv
  <1>2. PICK v : v = [k \in Options |-> IF k \in changed THEN clock' ELSE game[i][1][k]]
    OBVIOUS
  <1>3. /\ UNCHANGED <<targets, folder, servers, launching>>
        /\ options' = [options EXCEPT ![i] = [time |-> clock', values |-> v]]
        /\ due' = [due EXCEPT !.options = IF i \in launching THEN v ELSE @]
        /\ ~stale' => ~stale
        /\ clock' = clock + 1 /\ clock \in Nat /\ Running(i)
    BY <1>1, <1>2 DEF WriteOptions, Tick, SyncTypeOK
  <1>4. /\ due'.list = due.list /\ due'.linkable = due.linkable
        /\ due'.options = IF i \in launching THEN v ELSE due.options
    BY <1>1, <1>3 DEF SyncTypeOK
  <1>5. \A k \in Options : v[k] # NotThere
    <2>1. PICK old \in [Options -> Nat \ {NotThere}] : game[i] = <<old>>
      BY <1>1, <1>3 DEF SyncTypeOK, Running
    <2> QED
      BY <1>2, <1>3, <2>1 DEF NotThere
  <1>6. ASSUME NEW j \in launching PROVE Prepared(j)'
    <2>1. Prepared(j) /\ j \in Instances /\ launching = {j}
      BY <1>1, <1>6 DEF PreparedOK, SyncTypeOK
    <2>2. CASE j = i
      <3>1. due'.options = v /\ options'[i].values = v
        BY <1>1, <1>3, <1>4, <2>1, <2>2 DEF SyncTypeOK
      <3> QED
        BY <1>3, <1>4, <1>5, <2>1, <2>2, <3>1 DEF Prepared, SharedOptions
    <2>3. CASE j # i
      <3>1. due'.options = due.options /\ options'[j] = options[j]
        BY <1>1, <1>3, <1>4, <2>1, <2>3 DEF SyncTypeOK
      <3> QED
        BY <1>3, <1>4, <2>1, <3>1 DEF Prepared
    <2> QED
      BY <2>2, <2>3
  <1> QED
    BY <1>3, <1>6 DEF PreparedOK

LEMMA SaveServersPrepared ==
    ASSUME FilesInv, PreparedOK, NEW i \in Instances, SaveServers(i)
    PROVE  PreparedOK'
  <1>1. SyncTypeOK
    BY DEF FilesInv
  <1>2. /\ UNCHANGED <<targets, folder, options, launching, stale>>
        /\ servers' = [servers EXCEPT ![i] = [time |-> clock', list |-> clock']]
        /\ due' = [due EXCEPT !.list = IF i \in launching THEN clock' ELSE @]
    BY DEF SaveServers
  <1>3. /\ due'.options = due.options /\ due'.linkable = due.linkable
        /\ due'.list = IF i \in launching THEN clock' ELSE due.list
    BY <1>1, <1>2 DEF SyncTypeOK
  <1>4. ASSUME NEW j \in launching PROVE Prepared(j)'
    <2>1. Prepared(j) /\ j \in Instances /\ launching = {j}
      BY <1>1, <1>4 DEF PreparedOK, SyncTypeOK
    <2>2. servers'[j].list = IF j = i THEN clock' ELSE servers[j].list
      BY <1>1, <1>2, <2>1 DEF SyncTypeOK
    <2> QED
      BY <1>2, <1>3, <2>1, <2>2 DEF Prepared
  <1> QED
    BY <1>2, <1>4 DEF PreparedOK

\* While an instance is launched nothing else is wanted, and of the folders only
\* those change that are no links.
LEMMA OthersPrepared ==
    ASSUME FilesInv, PreparedOK,
           \/ \E t \in {"options", "servers"} : WantFile(t)
           \/ EnableFolder \/ EnableFails \/ DisableFolder \/ EndLaunch
           \/ \E i \in Instances : SaveWorld(i) \/ MoveFolderAway(i) \/ Exit(i)
    PROVE  PreparedOK'
  <1>1. CASE (\E t \in {"options", "servers"} : WantFile(t)) \/ EnableFolder \/ EnableFails \/ DisableFolder
    <2>1. launching' = {}
      BY <1>1 DEF WantFile, EnableFolder, EnableFails, DisableFolder, MainLoopIsFree
    <2> QED
      BY <2>1 DEF PreparedOK
  <1>2. CASE EndLaunch
    BY <1>2 DEF EndLaunch, PreparedOK
  <1>3. ASSUME NEW i \in Instances, SaveWorld(i) \/ MoveFolderAway(i) PROVE PreparedOK'
    <2>1. /\ UNCHANGED <<targets, launching, stale, due, options, servers>>
          /\ folder[i] # "link"
          /\ folder' = [folder EXCEPT ![i] = "own"] \/ folder' = [folder EXCEPT ![i] = "none"]
      BY <1>3 DEF SaveWorld, MoveFolderAway, history, fileVars
    <2>2. \A j \in Instances : folder'[j] = "link" <=> folder[j] = "link"
      BY <2>1 DEF FilesInv, SyncTypeOK
    <2>3. launching \subseteq Instances
      BY DEF FilesInv, SyncTypeOK
    <2> QED
      BY <2>1, <2>2, <2>3, PreparedStays
  <1>4. ASSUME NEW i \in Instances, Exit(i) PROVE PreparedOK'
    <2>1. UNCHANGED <<targets, launching, stale, due, options, servers, folder>>
      BY <1>4 DEF Exit, history, fileVars
    <2> QED
      BY <2>1, PreparedStays
  <1> QED
    BY <1>1, <1>2, <1>3, <1>4

LEMMA SyncNextKeeps == SyncInv /\ [SyncNext]_syncVars => SyncInv'
  <1> SUFFICES ASSUME FilesInv, PreparedOK, [SyncNext]_syncVars PROVE FilesInv' /\ PreparedOK'
    BY DEF SyncInv
  <1>1. CASE UNCHANGED syncVars
    <2>1. SyncTypeOK'
      BY <1>1 DEF FilesInv, SyncTypeOK, syncVars
    <2>2. PreparedOK'
      BY <1>1 DEF syncVars, PreparedOK, Prepared
    <2> QED
      BY <1>1, <2>1, <2>2, QuietStep DEF syncVars
  <1>2. ASSUME NEW i \in Instances, Prelaunch(i) PROVE FilesInv' /\ PreparedOK'
    BY <1>2, PrelaunchStep
  <1>3. ASSUME NEW i \in Instances, StartGame(i) PROVE FilesInv' /\ PreparedOK'
    <2>1. launching' = {}
      BY <1>3 DEF StartGame
    <2> QED
      BY <1>3, <2>1, StartGameStep DEF PreparedOK
  <1>4. ASSUME NEW i \in Instances, NEW changed \in {{}} \cup {{k} : k \in Options}, WriteOptions(i, changed)
        PROVE  FilesInv' /\ PreparedOK'
    <2>1. changed \in SUBSET Options
      OBVIOUS
    <2> QED
      BY <1>4, <2>1, WriteOptionsStep, WriteOptionsPrepared
  <1>5. ASSUME NEW i \in Instances, SaveServers(i) PROVE FilesInv' /\ PreparedOK'
    BY <1>5, SaveServersStep, SaveServersPrepared
  <1> QED
    BY <1>1, <1>2, <1>3, <1>4, <1>5, OtherSyncSteps, OthersPrepared DEF SyncNext


-----------------------------------------------------------------------------
(* Theorems.                                                                *)

\* Every variable keeps its type, and no file is dated after the clock
\* (backend/src/syncing.rs:12-71).
THEOREM SyncTypeCorrect == SyncSpec => [](SyncTypeOK /\ Past)
  <1>1. SyncInv => SyncTypeOK /\ Past
    BY DEF SyncInv, FilesInv
  <1> QED
    BY <1>1, SyncInitHolds, SyncNextKeeps, PTL DEF SyncSpec

\* What a game starts with, where its instance is as it was prepared.
LEMMA StartIsInSync ==
    ASSUME SyncInv, NEW i \in Instances, StartGame(i)
    PROVE  /\ due.linkable => (folder[i] = "link" <=> "saves" \in targets)
           /\ "servers" \in targets => servers[i].list = due.list
           /\ "options" \in targets /\ ~stale => Shared(game'[i][1]) = Shared(due.options)
           /\ \A k \in LocalOptions \cap Options :
                 due.options[k] # NotThere => game'[i][1][k] = due.options[k]
  <1>1. SyncTypeOK /\ Prepared(i)
    BY DEF SyncInv, FilesInv, PreparedOK, StartGame
  <1>2. PICK v : v = options[i].values
    OBVIOUS
  <1>3. v \in [Options -> Nat]
    BY <1>1, <1>2 DEF SyncTypeOK
  <1>4. PICK w : w = Merged([k \in Options |-> Default], v)
    OBVIOUS
  <1>5. \A k \in Options : w[k] = IF v[k] = NotThere THEN Default ELSE v[k]
    BY <1>3, <1>4, GameReads
  <1>6. game'[i][1] = w
    BY <1>1, <1>2, <1>4 DEF SyncTypeOK, StartGame
  <1>7. "options" \in targets /\ ~stale => Shared(w) = Shared(due.options)
    BY <1>1, <1>2, <1>5 DEF Prepared, Shared, SharedOptions
  <1>8. \A k \in LocalOptions \cap Options : due.options[k] # NotThere => w[k] = due.options[k]
    BY <1>1, <1>2, <1>5 DEF Prepared
  <1> QED
    BY <1>1, <1>6, <1>7, <1>8 DEF Prepared

\* Only the end of a launch starts a game.
LEMMA OnlyStartGameStarts ==
    ASSUME SyncInv, [SyncNext]_syncVars, NEW i \in Instances, ~Running(i), Running(i)'
    PROVE  StartGame(i)
  <1>1. game \in [Instances -> {<<>>} \cup {<<v>> : v \in [Options -> Nat \ {NotThere}]}]
    BY DEF SyncInv, FilesInv, SyncTypeOK
  <1>2. ~UNCHANGED syncVars
    BY DEF syncVars, Running
  <1>3. ASSUME NEW j \in Instances, StartGame(j) PROVE j = i
    BY <1>1, <1>3 DEF StartGame, Running
  <1>4. ASSUME NEW j \in Instances, NEW changed, WriteOptions(j, changed) PROVE FALSE
    BY <1>1, <1>4 DEF WriteOptions, Running
  <1>5. ASSUME NEW j \in Instances, SaveServers(j) \/ Prelaunch(j) PROVE FALSE
    BY <1>5 DEF SaveServers, Prelaunch, Running
  <1>6. FilesInv
    BY DEF SyncInv
  <1> QED
    BY <1>2, <1>3, <1>4, <1>5, <1>6, OtherSyncSteps DEF SyncNext

\* A game starts with what is synced and with nothing else: the server list that was
\* saved last in any instance when its launch began, or by its own instance since, the
\* shared options that were set last till then, its own resource packs and the shared
\* folder exactly if it is wanted, however files are written before and during the
\* launch (backend/src/syncing.rs:12-71, 112-160, backend.rs:634-646).
THEOREM GamesAreInSync == SyncSpec => GamesStartInSync
  <1>1. ASSUME SyncInv, [SyncNext]_syncVars
        PROVE  \A i \in Instances : ~Running(i) /\ Running(i)' =>
                 /\ due.linkable => (folder[i] = "link" <=> "saves" \in targets)
                 /\ "servers" \in targets => servers[i].list = due.list
                 /\ "options" \in targets /\ ~stale => Shared(game'[i][1]) = Shared(due.options)
                 /\ \A k \in LocalOptions \cap Options :
                       due.options[k] # NotThere => game'[i][1][k] = due.options[k]
    BY <1>1, OnlyStartGameStarts, StartIsInSync
  <1> QED
    BY <1>1, SyncInitHolds, SyncNextKeeps, PTL DEF SyncSpec, GamesStartInSync

-----------------------------------------------------------------------------
(* Fenwick tree: induction and recursion over halves.                        *)

LEMMA StrongInduction ==
  ASSUME NEW S, \A n \in Nat : (\A k \in 0..(n - 1) : k \in S) => n \in S
  PROVE  Nat \subseteq S
<1> DEFINE T == {n \in Nat : \A k \in 0..(n - 1) : k \in S}
<1>1. 0 \in T
  OBVIOUS
<1>2. ASSUME NEW n \in Nat, n \in T PROVE n + 1 \in T
  <2>1. n \in S
    BY <1>2
  <2>2. \A k \in 0..n : k \in S
    BY <1>2, <2>1
  <2> QED BY <2>2
<1> HIDE DEF T
<1>3. Nat \subseteq T
  BY <1>1, <1>2, NatSetInduction
<1>4. ASSUME NEW n \in Nat PROVE n \in S
  BY <1>3 DEF T
<1> QED BY <1>4

LEMMA HalvesInduction ==
  ASSUME NEW S, 0 \in S, \A m \in Nat : m \in S => 2 * m + 1 \in S,
         \A m \in Nat \ {0} : m \in S => 2 * m \in S
  PROVE  Nat \subseteq S
<1>1. ASSUME NEW n \in Nat, \A k \in 0..(n - 1) : k \in S PROVE n \in S
  <2>1. CASE n = 0
    BY <2>1
  <2>2. CASE n # 0
    <3>1. n \div 2 \in 0..(n - 1) /\ (n = 2 * (n \div 2) \/ n = 2 * (n \div 2) + 1)
      BY <2>2
    <3>2. n \div 2 \in S /\ n \div 2 \in Nat
      BY <3>1, <1>1
    <3>3. CASE n = 2 * (n \div 2) + 1
      BY <3>2, <3>3
    <3>4. CASE n = 2 * (n \div 2)
      <4>1. n \div 2 \in Nat \ {0}
        BY <3>4, <3>2, <2>2
      <4> QED BY <3>2, <3>4, <4>1
    <3> QED BY <3>1, <3>3, <3>4
  <2> QED BY <2>1, <2>2
<1> QED BY <1>1, StrongInduction

\* A function of the numbers whose values follow from those of lower numbers.
Descends(g, V, base, down, step) ==
    /\ g \in [Nat -> V] /\ g[0] = base
    /\ \A n \in Nat \ {0} : g[n] = step[<<g[down[n]], n>>]

LEMMA Descent ==
  ASSUME NEW V, NEW base \in V, NEW down \in [Nat -> Nat], \A n \in Nat \ {0} : down[n] < n,
         NEW step \in [V \X Nat -> V]
  PROVE  \E g : Descends(g, V, base, down, step)
<1> DEFINE Good(g, m) == /\ g \in [0..m -> V] /\ g[0] = base
                         /\ \A n \in 1..m : g[n] = step[<<g[down[n]], n>>]
           S == {m \in Nat : \E g : Good(g, m)}
<1>1. 0 \in S
  <2>1. Good([n \in 0..0 |-> base], 0)
    OBVIOUS
  <2> QED BY <2>1
<1>2. ASSUME NEW m \in Nat, m \in S PROVE m + 1 \in S
  <2>1. PICK g : Good(g, m)
    BY <1>2
  <2>2. down[m + 1] \in 0..m
    BY down[m + 1] < m + 1
  <2> DEFINE v == step[<<g[down[m + 1]], m + 1>>]
             h == [n \in 0..(m + 1) |-> IF n <= m THEN g[n] ELSE v]
  <2>3. v \in V
    <3>1. g[down[m + 1]] \in V
      BY <2>1, <2>2
    <3> QED BY <3>1
  <2>4. h \in [0..(m + 1) -> V]
    <3> HIDE DEF v
    <3> QED BY <2>1, <2>3
  <2>5. ASSUME NEW n \in 1..(m + 1) PROVE h[n] = step[<<h[down[n]], n>>]
    <3>1. down[n] < n /\ down[n] \in Nat
      OBVIOUS
    <3>2. h[down[n]] = g[down[n]]
      <4>1. down[n] \in 0..m
        BY <3>1
      <4>2. \A i \in 0..m : h[i] = g[i]
        <5> HIDE DEF v
        <5> QED OBVIOUS
      <4> HIDE DEF h
      <4> QED BY <4>1, <4>2
    <3>3. CASE n <= m
      <4>1. n \in 1..m /\ h[n] = g[n]
        BY <3>3
      <4> QED BY <4>1, <3>2, <2>1
    <3>4. CASE n = m + 1
      <4>1. h[m + 1] = v
        <5>1. m + 1 \in 0..(m + 1) /\ ~ (m + 1 <= m)
          OBVIOUS
        <5> HIDE DEF v
        <5> QED BY <5>1
      <4> HIDE DEF h
      <4> QED BY <3>4, <4>1, <3>2
    <3> QED BY <3>3, <3>4
  <2>6. h[0] = base
    BY <2>1
  <2>7. \E f : Good(f, m + 1)
    <3>1. Good(h, m + 1)
      BY <2>4, <2>5, <2>6
    <3> HIDE DEF h, Good
    <3> QED BY <3>1
  <2> HIDE DEF Good
  <2> QED BY <2>7
<1>3. \A m \in Nat : \E g : Good(g, m)
  <2> HIDE DEF S
  <2>1. Nat \subseteq S
    BY <1>1, <1>2, NatSetInduction
  <2> QED BY <2>1 DEF S
<1>4. ASSUME NEW f, NEW h, NEW m \in Nat, NEW k \in Nat, m <= k, Good(f, m), Good(h, k)
      PROVE  \A n \in 0..m : f[n] = h[n]
  <2> DEFINE T == {n \in Nat : n <= m => f[n] = h[n]}
  <2>1. ASSUME NEW n \in Nat, \A i \in 0..(n - 1) : i \in T PROVE n \in T
    <3>1. CASE n = 0
      BY <3>1, <1>4
    <3>2. CASE n # 0 /\ n <= m
      <4>1. down[n] < n /\ down[n] \in Nat
        BY <3>2
      <4>2. f[down[n]] = h[down[n]]
        BY <4>1, <2>1, <3>2
      <4>3. n \in 1..m /\ n \in 1..k
        BY <3>2, <1>4
      <4> QED BY <4>2, <4>3, <1>4
    <3> QED BY <3>1, <3>2
  <2> HIDE DEF T
  <2>2. Nat \subseteq T
    BY <2>1, StrongInduction
  <2> QED BY <2>2 DEF T
<1> DEFINE G(m) == CHOOSE g : Good(g, m)
           all == [n \in Nat |-> G(n)[n]]
<1>5. \A m \in Nat : Good(G(m), m)
  <2> HIDE DEF Good
  <2> QED BY <1>3
<1>6. all \in [Nat -> V] /\ all[0] = base
  <2> HIDE DEF G
  <2>1. \A m \in Nat : G(m)[m] \in V
    BY <1>5
  <2> QED BY <1>5, <2>1
<1>7. ASSUME NEW n \in Nat \ {0} PROVE all[n] = step[<<all[down[n]], n>>]
  <2> HIDE DEF G
  <2>1. down[n] \in Nat /\ down[n] < n
    OBVIOUS
  <2>2. G(n)[n] = step[<<G(n)[down[n]], n>>]
    BY <1>5, n \in 1..n
  <2>3. G(down[n])[down[n]] = G(n)[down[n]]
    <3>1. Good(G(down[n]), down[n]) /\ Good(G(n), n)
      BY <1>5, <2>1
    <3> HIDE DEF Good
    <3>2. \A i \in 0..down[n] : G(down[n])[i] = G(n)[i]
      BY <3>1, <2>1, <1>4
    <3> QED BY <3>2, <2>1
  <2> QED BY <2>1, <2>2, <2>3
<1>8. Descends(all, V, base, down, step)
  <2> HIDE DEF all
  <2> QED BY <1>6, <1>7 DEF Descends
<1> HIDE DEF all
<1> QED BY <1>8

-----------------------------------------------------------------------------

LEMMA LowBitIs ==
  /\ LowBit \in [Nat -> Nat] /\ LowBit[0] = 0
  /\ \A m \in Nat : LowBit[2 * m + 1] = 1 /\ LowBit[2 * m] = 2 * LowBit[m]
<1> DEFINE down == [n \in Nat |-> n \div 2]
           step == [p \in Nat \X Nat |-> IF p[2] % 2 = 1 THEN 1 ELSE 2 * p[1]]
           Body(f) == [n \in Nat |-> IF n = 0 THEN 0 ELSE IF n % 2 = 1 THEN 1 ELSE 2 * f[n \div 2]]
<1>1. PICK g : Descends(g, Nat, 0, down, step)
  <2>1. down \in [Nat -> Nat] /\ \A n \in Nat \ {0} : down[n] < n
    OBVIOUS
  <2>2. step \in [Nat \X Nat -> Nat]
    OBVIOUS
  <2> HIDE DEF down, step
  <2> QED BY <2>1, <2>2, Descent
<1>2. ASSUME NEW n \in Nat PROVE g[n] = IF n = 0 THEN 0 ELSE IF n % 2 = 1 THEN 1 ELSE 2 * g[n \div 2]
  <2>1. CASE n = 0
    BY <2>1, <1>1 DEF Descends
  <2>2. CASE n # 0
    <3>1. g[n] = step[<<g[down[n]], n>>] /\ g[down[n]] \in Nat
      <4> HIDE DEF step
      <4> QED BY <2>2, <1>1 DEF Descends
    <3>2. down[n] = n \div 2
      OBVIOUS
    <3> HIDE DEF down
    <3> QED BY <2>2, <3>1, <3>2
  <2> QED BY <2>1, <2>2
<1>3. g = Body(g) /\ g \in [Nat -> Nat]
  <2>1. g = [n \in Nat |-> g[n]] /\ g \in [Nat -> Nat]
    BY <1>1 DEF Descends
  <2> QED BY <2>1, <1>2
<1>4. LowBit = Body(LowBit)
  <2> HIDE DEF down, step
  <2> QED BY <1>3 DEF LowBit
<1>5. \A n \in Nat : LowBit[n] = IF n = 0 THEN 0 ELSE IF n % 2 = 1 THEN 1 ELSE 2 * LowBit[n \div 2]
  BY <1>4
<1> DEFINE S == {n \in Nat : LowBit[n] \in Nat}
<1>6. LowBit[0] = 0
  BY <1>5
<1>7. ASSUME NEW m \in Nat PROVE LowBit[2 * m + 1] = 1 /\ LowBit[2 * m] = 2 * LowBit[m]
  <2>1. (2 * m + 1) % 2 = 1 /\ 2 * m + 1 # 0 /\ 2 * m + 1 \in Nat
    OBVIOUS
  <2>2. (2 * m) % 2 = 0 /\ (2 * m) \div 2 = m /\ 2 * m \in Nat
    OBVIOUS
  <2>3. LowBit[2 * m + 1] = 1
    BY <1>5, <2>1
  <2>4. CASE m = 0
    BY <2>3, <2>4, <1>6
  <2>5. CASE m # 0
    <3>1. LowBit[2 * m] = 2 * LowBit[(2 * m) \div 2]
      BY <1>5, <2>2, <2>5
    <3> QED BY <2>3, <2>2, <3>1
  <2> QED BY <2>4, <2>5
<1>8. Nat \subseteq S
  <2>1. \A m \in Nat : m \in S => 2 * m + 1 \in S /\ 2 * m \in S
    BY <1>7
  <2>2. 0 \in S
    BY <1>6
  <2> HIDE DEF S
  <2> QED BY <2>1, <2>2, HalvesInduction
<1>9. LowBit \in [Nat -> Nat]
  <2>1. LowBit = [n \in Nat |-> LowBit[n]]
    <3>1. DOMAIN LowBit = Nat /\ LowBit = [n \in Nat |-> Body(LowBit)[n]]
      BY <1>4
    <3> QED BY <3>1, <1>5
  <2> QED BY <2>1, <1>8
<1> QED BY <1>6, <1>7, <1>9

-----------------------------------------------------------------------------
(* Fenwick tree: the lowest bit of a number.                                 *)

LEMMA LowBitOf ==
  ASSUME NEW n \in Nat, NEW m \in Nat
  PROVE  /\ n = 2 * m + 1 => LowBit[n] = 1
         /\ n = 2 * m => LowBit[n] = 2 * LowBit[m]
BY LowBitIs

LEMMA LowBitType ==
  ASSUME NEW n \in Nat \ {0}
  PROVE  LowBit[n] \in 1..n
<1> DEFINE S == {m \in Nat : m # 0 => LowBit[m] \in 1..m}
<1>1. ASSUME NEW m \in Nat, m \in S PROVE 2 * m + 1 \in S
  <2>1. LowBit[2 * m + 1] = 1
    BY 2 * m + 1 \in Nat, LowBitOf
  <2> QED BY <2>1
<1>2. ASSUME NEW m \in Nat \ {0}, m \in S PROVE 2 * m \in S
  BY <1>2, LowBitIs
<1>3. 0 \in S
  OBVIOUS
<1> HIDE DEF S
<1>4. Nat \subseteq S
  BY <1>1, <1>2, <1>3, HalvesInduction
<1> QED BY <1>4 DEF S

\* The neighbours at half the lowest bit.
LEMMA LowBitHalf ==
  ASSUME NEW k \in Nat \ {0}, LowBit[k] # 1
  PROVE  \E h \in Nat \ {0} : /\ LowBit[k] = 2 * h /\ LowBit[k] \div 2 = h
                              /\ LowBit[k + h] = h /\ LowBit[k - h] = h
<1> DEFINE P(m) == m = 0 \/ LowBit[m] = 1 \/
                    \E h \in Nat \ {0} : LowBit[m] = 2 * h /\ LowBit[m + h] = h /\ LowBit[m - h] = h
           S == {m \in Nat : P(m)}
<1>1. ASSUME NEW m \in Nat, m \in S PROVE 2 * m + 1 \in S
  <2>1. LowBit[2 * m + 1] = 1
    BY 2 * m + 1 \in Nat, LowBitOf
  <2> QED BY <2>1
<1>2. ASSUME NEW m \in Nat \ {0}, m \in S PROVE 2 * m \in S
  <2>1. LowBit[2 * m] = 2 * LowBit[m] /\ LowBit[m] \in 1..m
    BY LowBitIs, LowBitType
  <2>2. CASE LowBit[m] = 1
    <3>1. LowBit[2 * m + 1] = 1 /\ LowBit[2 * m - 1] = 1
      <4>1. 2 * m + 1 \in Nat /\ 2 * m - 1 \in Nat /\ m - 1 \in Nat /\ 2 * m - 1 = 2 * (m - 1) + 1
        OBVIOUS
      <4> QED BY <4>1, LowBitOf
    <3>2. P(2 * m)
      BY <3>1, <2>1, <2>2
    <3> QED BY <3>2
  <2>3. CASE LowBit[m] # 1
    <3>1. PICK h \in Nat \ {0} : LowBit[m] = 2 * h /\ LowBit[m + h] = h /\ LowBit[m - h] = h
      BY <1>2, <2>3
    <3>2. LowBit[2 * (m + h)] = 2 * h /\ LowBit[2 * (m - h)] = 2 * h
      <4>1. m + h \in Nat /\ m - h \in Nat
        BY <2>1, <3>1
      <4> QED BY <4>1, <3>1, LowBitIs
    <3>3. 2 * (m + h) = 2 * m + 2 * h /\ 2 * (m - h) = 2 * m - 2 * h
      OBVIOUS
    <3>4. 2 * h \in Nat \ {0} /\ LowBit[2 * m] = 2 * (2 * h)
          /\ LowBit[2 * m + 2 * h] = 2 * h /\ LowBit[2 * m - 2 * h] = 2 * h
      BY <3>1, <3>2, <3>3, <2>1
    <3>5. P(2 * m)
      BY <3>4
    <3> QED BY <3>5
  <2> QED BY <2>2, <2>3
<1>3. 0 \in S
  OBVIOUS
<1>4. Nat \subseteq S
  <2> HIDE DEF S
  <2> QED BY <1>1, <1>2, <1>3, HalvesInduction
<1>5. PICK h \in Nat \ {0} : LowBit[k] = 2 * h /\ LowBit[k + h] = h /\ LowBit[k - h] = h
  BY <1>4
<1>6. (2 * h) \div 2 = h
  OBVIOUS
<1> QED BY <1>5, <1>6

LEMMA LowBitOdd ==
  ASSUME NEW k \in Nat \ {0}, LowBit[k] # 1
  PROVE  LowBit[k - 1] = 1 /\ k - 1 \in Nat \ {0}
<1>1. PICK m \in Nat : k = 2 * m \/ k = 2 * m + 1
  <2>1. k \div 2 \in Nat /\ (k = 2 * (k \div 2) \/ k = 2 * (k \div 2) + 1)
    OBVIOUS
  <2> QED BY <2>1
<1>2. k = 2 * m
  BY <1>1, LowBitIs
<1>3. k - 1 \in Nat \ {0} /\ m - 1 \in Nat /\ k - 1 = 2 * (m - 1) + 1
  BY <1>2
<1> QED BY <1>3, LowBitOf

LEMMA LowBitGrows ==
  ASSUME NEW j \in Nat \ {0}
  PROVE  LowBit[j + LowBit[j]] >= 2 * LowBit[j]
<1> DEFINE S == {m \in Nat : m # 0 => LowBit[m + LowBit[m]] >= 2 * LowBit[m]}
<1>1. ASSUME NEW m \in Nat, m \in S PROVE 2 * m + 1 \in S
  <2>1. LowBit[2 * m + 1] = 1 /\ 2 * m + 1 + 1 = 2 * (m + 1)
    BY 2 * m + 1 \in Nat, LowBitOf
  <2>2. LowBit[2 * (m + 1)] = 2 * LowBit[m + 1] /\ LowBit[m + 1] \in 1..(m + 1)
    BY LowBitIs, LowBitType
  <2> QED BY <2>1, <2>2
<1>2. ASSUME NEW m \in Nat \ {0}, m \in S PROVE 2 * m \in S
  <2>1. LowBit[2 * m] = 2 * LowBit[m] /\ LowBit[m] \in 1..m
    BY LowBitIs, LowBitType
  <2>2. LowBit[2 * (m + LowBit[m])] = 2 * LowBit[m + LowBit[m]]
        /\ LowBit[m + LowBit[m]] \in 1..(m + LowBit[m])
    <3>1. m + LowBit[m] \in Nat \ {0} /\ 2 * (m + LowBit[m]) \in Nat
      BY <2>1
    <3> QED BY <3>1, LowBitType, LowBitOf
  <2>3. 2 * (m + LowBit[m]) = 2 * m + LowBit[2 * m]
    BY <2>1
  <2>4. LowBit[2 * m + LowBit[2 * m]] >= 2 * LowBit[2 * m]
    BY <1>2, <2>1, <2>2, <2>3
  <2> QED BY <2>4
<1>3. 0 \in S
  OBVIOUS
<1> HIDE DEF S
<1>4. Nat \subseteq S
  BY <1>1, <1>2, <1>3, HalvesInduction
<1> QED BY <1>4 DEF S

\* What a slot below k and in k's stretch covers ends below k, and begins in it.
LEMMA LowBitNests ==
  ASSUME NEW k \in Nat \ {0}, NEW j \in Nat, k - LowBit[k] < j, j < k
  PROVE  j + LowBit[j] <= k /\ k - LowBit[k] <= j - LowBit[j] /\ j # 0
<1> DEFINE P(m, i) == m - LowBit[m] < i /\ i < m =>
                        i + LowBit[i] <= m /\ m - LowBit[m] <= i - LowBit[i]
           S == {m \in Nat : \A i \in Nat : P(m, i)}
<1>1. ASSUME NEW m \in Nat, m \in S PROVE 2 * m + 1 \in S
  <2>1. LowBit[2 * m + 1] = 1
    BY LowBitIs
  <2>2. \A i \in Nat : P(2 * m + 1, i)
    BY <2>1
  <2> QED BY <2>2
<1>2. ASSUME NEW m \in Nat \ {0}, m \in S PROVE 2 * m \in S
  <2>1. LowBit[2 * m] = 2 * LowBit[m] /\ LowBit[m] \in 1..m
    BY LowBitIs, LowBitType
  <2>2. ASSUME NEW i \in Nat, 2 * m - LowBit[2 * m] < i, i < 2 * m
        PROVE  i + LowBit[i] <= 2 * m /\ 2 * m - LowBit[2 * m] <= i - LowBit[i]
    <3>1. PICK c \in Nat : i = 2 * c \/ i = 2 * c + 1
      <4>1. i \div 2 \in Nat /\ (i = 2 * (i \div 2) \/ i = 2 * (i \div 2) + 1)
        OBVIOUS
      <4> QED BY <4>1
    <3>2. CASE i = 2 * c
      <4>1. LowBit[2 * c] = 2 * LowBit[c] /\ LowBit[c] \in Nat
        BY LowBitIs
      <4>2. m - LowBit[m] < c /\ c < m
        BY <3>2, <2>1, <2>2
      <4>3. c + LowBit[c] <= m /\ m - LowBit[m] <= c - LowBit[c]
        BY <1>2, <4>2
      <4> QED BY <4>1, <4>3, <3>2, <2>1
    <3>3. CASE i = 2 * c + 1
      <4>1. LowBit[2 * c + 1] = 1
        BY LowBitIs
      <4> QED BY <4>1, <3>3, <2>1, <2>2
    <3> QED BY <3>1, <3>2, <3>3
  <2>3. \A i \in Nat : P(2 * m, i)
    BY <2>2
  <2> QED BY <2>3
<1>3. 0 \in S
  <2>1. \A i \in Nat : P(0, i)
    BY LowBitIs
  <2> QED BY <2>1
<1>4. Nat \subseteq S
  <2> HIDE DEF S
  <2> QED BY <1>1, <1>2, <1>3, HalvesInduction
<1>5. P(k, j)
  BY <1>4
<1>6. LowBit[k] \in 1..k
  BY LowBitType
<1> QED BY <1>5, <1>6

\* The slot before a slot's stretch has the same parent, unless the parent's stretch
\* begins there.
LEMMA LowBitSibling ==
  ASSUME NEW c \in Nat \ {0}, NEW a \in Nat, NEW p \in Nat,
         p = c + LowBit[c], a = c - LowBit[c], a > p - LowBit[p]
  PROVE  a + LowBit[a] = p
<1> DEFINE P(m) == m - LowBit[m] > (m + LowBit[m]) - LowBit[m + LowBit[m]] =>
                     (m - LowBit[m]) + LowBit[m - LowBit[m]] = m + LowBit[m]
           S == {m \in Nat : m # 0 => P(m)}
<1>1. ASSUME NEW m \in Nat, m \in S PROVE 2 * m + 1 \in S
  <2>1. LowBit[2 * m + 1] = 1 /\ LowBit[2 * (m + 1)] = 2 * LowBit[m + 1] /\ LowBit[2 * m] = 2 * LowBit[m]
    <3>1. 2 * m + 1 \in Nat /\ m + 1 \in Nat /\ 2 * (m + 1) \in Nat /\ 2 * m \in Nat
      OBVIOUS
    <3> QED BY <3>1, LowBitOf
  <2>2. LowBit[m + 1] # 1 => LowBit[(m + 1) - 1] = 1
    BY LowBitOdd
  <2>3. 2 * m + 1 + 1 = 2 * (m + 1) /\ 2 * m + 1 - 1 = 2 * m /\ (m + 1) - 1 = m
    OBVIOUS
  <2>4. LowBit[m + 1] \in 1..(m + 1)
    BY LowBitType
  <2>5. P(2 * m + 1)
    BY <2>1, <2>2, <2>3, <2>4
  <2> QED BY <2>5
<1>2. ASSUME NEW m \in Nat \ {0}, m \in S PROVE 2 * m \in S
  <2> DEFINE b == LowBit[m]
  <2>1. LowBit[2 * m] = 2 * b /\ b \in 1..m
    BY LowBitIs, LowBitType
  <2>2. LowBit[2 * (m + b)] = 2 * LowBit[m + b] /\ LowBit[m + b] \in Nat
    <3>1. m + b \in Nat /\ 2 * (m + b) \in Nat
      BY <2>1
    <3> HIDE DEF b
    <3> QED BY LowBitIs, LowBitOf, <3>1
  <2>3. LowBit[2 * (m - b)] = 2 * LowBit[m - b] /\ LowBit[m - b] \in Nat
    <3>1. m - b \in Nat
      BY <2>1
    <3> QED BY LowBitIs, <3>1
  <2>4. 2 * (m + b) = 2 * m + 2 * b /\ 2 * (m - b) = 2 * m - 2 * b
    BY <2>1
  <2>5. P(m)
    BY <1>2
  <2>6. P(2 * m)
    BY <2>1, <2>2, <2>3, <2>4, <2>5
  <2> QED BY <2>6
<1>3. 0 \in S
  OBVIOUS
<1>4. Nat \subseteq S
  <2> HIDE DEF S
  <2> QED BY <1>1, <1>2, <1>3, HalvesInduction
<1> QED BY <1>4

-----------------------------------------------------------------------------

LEMMA HighBitIs ==
  HighBit[0] = 0 /\ \A n \in Nat \ {0} : HighBit[n] = IF n = 1 THEN 1 ELSE 2 * HighBit[n \div 2]
<1> DEFINE down == [n \in Nat |-> n \div 2]
           step == [p \in Nat \X Nat |-> IF p[2] = 1 THEN 1 ELSE 2 * p[1]]
           Body(f) == [n \in Nat |-> IF n < 2 THEN n ELSE 2 * f[n \div 2]]
<1>1. PICK g : Descends(g, Nat, 0, down, step)
  <2>1. down \in [Nat -> Nat] /\ \A n \in Nat \ {0} : down[n] < n
    OBVIOUS
  <2>2. step \in [Nat \X Nat -> Nat]
    OBVIOUS
  <2> HIDE DEF down, step
  <2> QED BY <2>1, <2>2, Descent
<1>2. ASSUME NEW n \in Nat PROVE g[n] = IF n < 2 THEN n ELSE 2 * g[n \div 2]
  <2>1. CASE n = 0
    BY <2>1, <1>1 DEF Descends
  <2>2. CASE n # 0
    <3>1. g[n] = step[<<g[down[n]], n>>] /\ g[down[n]] \in Nat
      <4> HIDE DEF step
      <4> QED BY <2>2, <1>1 DEF Descends
    <3>2. down[n] = n \div 2
      OBVIOUS
    <3> HIDE DEF down
    <3> QED BY <2>2, <3>1, <3>2
  <2> QED BY <2>1, <2>2
<1>3. g = Body(g)
  <2>1. g = [n \in Nat |-> g[n]]
    BY <1>1 DEF Descends
  <2> QED BY <2>1, <1>2
<1>4. HighBit = Body(HighBit)
  <2> HIDE DEF down, step
  <2> QED BY <1>3 DEF HighBit
<1>5. \A n \in Nat : HighBit[n] = IF n < 2 THEN n ELSE 2 * HighBit[n \div 2]
  BY <1>4
<1> QED BY <1>5

LEMMA HighBitRange ==
  ASSUME NEW n \in Nat \ {0}
  PROVE  HighBit[n] \in 1..n /\ n < 2 * HighBit[n] /\ LowBit[HighBit[n]] = HighBit[n]
<1> DEFINE P(m) == HighBit[m] \in 1..m /\ m < 2 * HighBit[m] /\ LowBit[HighBit[m]] = HighBit[m]
           S == {m \in Nat : m # 0 => P(m)}
<1>1. LowBit[1] = 1
  BY LowBitIs, 2 * 0 + 1 = 1
<1>2. P(1)
  BY <1>1, HighBitIs
<1>3. ASSUME NEW m \in Nat \ {0}, NEW k \in Nat \ {0, 1}, m \in S, k \div 2 = m, k < 2 * m + 2, 2 * m <= k
      PROVE  P(k)
  <2>1. HighBit[k] = 2 * HighBit[m]
    BY <1>3, HighBitIs
  <2>2. LowBit[2 * HighBit[m]] = 2 * LowBit[HighBit[m]]
    BY <1>3, LowBitIs
  <2> QED BY <1>3, <2>1, <2>2
<1>4. ASSUME NEW m \in Nat, m \in S PROVE 2 * m + 1 \in S
  <2>1. CASE m = 0
    BY <2>1, <1>2
  <2>2. CASE m # 0
    <3>1. (2 * m + 1) \div 2 = m
      OBVIOUS
    <3>2. P(2 * m + 1)
      <4> HIDE DEF P, S
      <4> QED BY <3>1, <2>2, <1>4, <1>3
    <3> QED BY <3>2
  <2> QED BY <2>1, <2>2
<1>5. ASSUME NEW m \in Nat \ {0}, m \in S PROVE 2 * m \in S
  <2>1. (2 * m) \div 2 = m
    OBVIOUS
  <2>2. P(2 * m)
    <3> HIDE DEF P, S
    <3> QED BY <2>1, <1>5, <1>3
  <2> QED BY <2>2
<1>6. 0 \in S
  OBVIOUS
<1>7. Nat \subseteq S
  <2> HIDE DEF S
  <2> QED BY <1>4, <1>5, <1>6, HalvesInduction
<1> QED BY <1>7

-----------------------------------------------------------------------------
(* Fenwick tree: sums, and what a tree holds of them.                        *)

LEMMA SumsIs ==
  ASSUME NEW values \in Seq(Int)
  PROVE  /\ Sums(values) \in [0..Len(values) -> Int] /\ Sums(values)[0] = 0
         /\ \A n \in 1..Len(values) : Sums(values)[n] = Sums(values)[n - 1] + values[n]
<1> DEFINE N == Len(values)
           step == [p \in Int \X (1..N) |-> p[1] + values[p[2]]]
           Body(f) == [n \in 0..N |-> IF n = 0 THEN 0 ELSE f[n - 1] + values[n]]
           sum[n \in 0..N] == IF n = 0 THEN 0 ELSE sum[n - 1] + values[n]
<1>1. N \in Nat /\ \A n \in 1..N : values[n] \in Int
  BY ElementOfSeq
<1>2. PICK g : Unrolls(g, Int, N, 0, step)
  <2> DEFINE V == Int
  <2>1. IsStep(step, V, N) /\ 0 \in V
    <3> HIDE DEF N
    <3> QED BY <1>1 DEF IsStep
  <2>2. \E g : Unrolls(g, V, N, 0, step)
    <3> HIDE DEF step, N, V
    <3> QED BY <1>1, <2>1, Recursion
  <2> HIDE DEF step, N
  <2> QED BY <2>2
<1>3. \A n \in 1..N : g[n] = g[n - 1] + values[n]
  <2> TAKE n \in 1..N
  <2>1. g[n - 1] \in Int /\ g[n] = step[<<g[n - 1], n>>]
    <3> HIDE DEF N, step
    <3> QED BY <1>1, <1>2 DEF Unrolls
  <2> HIDE DEF N
  <2> QED BY <2>1
<1>4. g = Body(g)
  <2> HIDE DEF N, step
  <2>1. g = [n \in 0..N |-> g[n]] /\ g[0] = 0
    BY <1>2 DEF Unrolls
  <2>2. \A n \in 0..N : g[n] = IF n = 0 THEN 0 ELSE g[n - 1] + values[n]
    <3> TAKE n \in 0..N
    <3>1. CASE n = 0
      BY <3>1, <2>1
    <3>2. CASE n # 0
      <4>1. n \in 1..N
        BY <3>2, <1>1
      <4> QED BY <3>2, <4>1, <1>3
    <3> QED BY <3>1, <3>2
  <2> QED BY <2>1, <2>2
<1>5. sum = Body(sum)
  <2> HIDE DEF N
  <2> QED BY <1>4 DEF sum
<1>6. Sums(values) = sum
  BY DEF Sums, sum
<1> HIDE DEF sum, N
<1>7. DOMAIN sum = 0..N /\ sum[0] = 0 /\ \A n \in 1..N : sum[n] = sum[n - 1] + values[n]
  BY <1>5, <1>1
<1>8. sum \in [0..N -> Int]
  <2> DEFINE S == {n \in 0..N : sum[n] \in Int}
  <2>1. 0 \in S
    BY <1>1, <1>7
  <2>2. ASSUME NEW n \in 0..(N - 1), n \in S PROVE n + 1 \in S
    <3>1. n + 1 \in 1..N /\ n + 1 \in 0..N /\ (n + 1) - 1 = n
      BY <1>1
    <3>2. sum[n + 1] = sum[n] + values[n + 1]
      BY <3>1, <1>7
    <3>3. sum[n] \in Int /\ values[n + 1] \in Int
      BY <3>1, <2>2, <1>1
    <3> QED BY <3>1, <3>2, <3>3
  <2>3. 0..N \subseteq S
    <3> HIDE DEF S
    <3> QED BY <1>1, <2>1, <2>2, UpToInduction
  <2>4. sum = [n \in 0..N |-> sum[n]]
    BY <1>5
  <2> QED BY <2>3, <2>4
<1> QED BY <1>6, <1>7, <1>8 DEF N

\* Two sequences whose values differ by d at j.
Differ(v, w, j, d) ==
    /\ v \in Seq(Int) /\ w \in Seq(Int) /\ Len(w) = Len(v) /\ j \in 1..Len(v) /\ d \in Int
    /\ w[j] = v[j] + d /\ \A i \in 1..Len(v) : i # j => w[i] = v[i]

LEMMA SumsDiffer ==
  ASSUME NEW v, NEW w, NEW j, NEW d, Differ(v, w, j, d)
  PROVE  \A i \in 0..Len(v) : /\ i < j => Sums(w)[i] = Sums(v)[i]
                              /\ j <= i => Sums(w)[i] = Sums(v)[i] + d
<1> DEFINE n == Len(v)
<1>0. /\ v \in Seq(Int) /\ w \in Seq(Int) /\ n \in Nat /\ Len(v) = n /\ Len(w) = n /\ j \in 1..n /\ d \in Int
      /\ w[j] = v[j] + d /\ \A i \in 1..n : i # j => w[i] = v[i]
  BY DEF Differ
<1> HIDE DEF n
<1> DEFINE P(i) == /\ i < j => Sums(w)[i] = Sums(v)[i]
                   /\ j <= i => Sums(w)[i] = Sums(v)[i] + d
           S == {i \in 0..n : P(i)}
<1>1. \A i \in 1..n : v[i] \in Int /\ w[i] \in Int
  BY <1>0, ElementOfSeq
<1>2. \A i \in 0..n : Sums(v)[i] \in Int /\ Sums(w)[i] \in Int
  BY <1>0, SumsIs
<1>3. 0 \in S
  BY <1>0, SumsIs
<1>4. ASSUME NEW i \in 0..(n - 1), i \in S PROVE i + 1 \in S
  <2>1. i + 1 \in 1..n /\ i \in 0..n /\ (i + 1) - 1 = i /\ i + 1 \in 0..n
    BY <1>0
  <2>2. Sums(v)[i + 1] = Sums(v)[i] + v[i + 1] /\ Sums(w)[i + 1] = Sums(w)[i] + w[i + 1]
    BY <2>1, <1>0, SumsIs
  <2>3. Sums(v)[i] \in Int /\ Sums(w)[i] \in Int /\ v[i + 1] \in Int /\ w[i + 1] \in Int
    BY <1>1, <1>2, <2>1
  <2>4. P(i)
    BY <1>4
  <2>5. i + 1 = j => w[i + 1] = v[i + 1] + d
    BY <1>0
  <2>6. i + 1 # j => w[i + 1] = v[i + 1]
    BY <1>0, <2>1
  <2> DEFINE a == Sums(v)[i]
             b == Sums(w)[i]
             c == Sums(v)[i + 1]
             e == Sums(w)[i + 1]
             x == v[i + 1]
             y == w[i + 1]
  <2>7. /\ c = a + x /\ e = b + y /\ a \in Int /\ b \in Int /\ x \in Int /\ y \in Int
        /\ i < j => b = a
        /\ j <= i => b = a + d
        /\ i + 1 = j => y = x + d
        /\ i + 1 # j => y = x
    BY <2>2, <2>3, <2>4, <2>5, <2>6
  <2>8. d \in Int /\ i \in Int /\ j \in Int
    BY <1>0
  <2> HIDE DEF a, b, c, e, x, y
  <2>9. (i + 1 < j => e = c) /\ (j <= i + 1 => e = c + d)
    <3>1. CASE i + 1 < j
      BY <3>1, <2>7, <2>8
    <3>2. CASE i + 1 = j
      BY <3>2, <2>7, <2>8
    <3>3. CASE i + 1 > j
      BY <3>3, <2>7, <2>8
    <3> QED BY <3>1, <3>2, <3>3, <2>8
  <2>10. P(i + 1)
    BY <2>9 DEF c, e
  <2> QED BY <2>10, <2>1
<1> HIDE DEF S
<1>5. 0..n \subseteq S
  BY <1>0, <1>3, <1>4, UpToInduction
<1> QED BY <1>5 DEF S, n

LEMMA SumsAgree ==
  ASSUME NEW v \in Seq(Int), NEW w \in Seq(Int), NEW n \in Nat, n <= Len(v), n <= Len(w),
         \A i \in 1..n : w[i] = v[i]
  PROVE  \A i \in 0..n : Sums(w)[i] = Sums(v)[i]
<1> DEFINE S == {i \in 0..n : Sums(w)[i] = Sums(v)[i]}
<1>1. 0 \in S
  BY SumsIs
<1>2. ASSUME NEW i \in 0..(n - 1), i \in S PROVE i + 1 \in S
  <2>1. i + 1 \in 1..n /\ i + 1 \in 1..Len(v) /\ i + 1 \in 1..Len(w) /\ (i + 1) - 1 = i
    OBVIOUS
  <2>2. Sums(v)[i + 1] = Sums(v)[i] + v[i + 1] /\ Sums(w)[i + 1] = Sums(w)[i] + w[i + 1]
    BY <2>1, SumsIs
  <2>3. w[i + 1] = v[i + 1]
    BY <2>1
  <2> QED BY <2>1, <2>2, <2>3, <1>2
<1> HIDE DEF S
<1>3. 0..n \subseteq S
  BY <1>1, <1>2, UpToInduction
<1> QED BY <1>3 DEF S

-----------------------------------------------------------------------------

\* Each slot has the sum of its stretch.
IsTree(tree, values) ==
    /\ values \in Seq(Int) /\ tree \in [1..Len(values) -> Int]
    /\ \A j \in 1..Len(values) : tree[j] = Sums(values)[j] - Sums(values)[j - LowBit[j]]

LEMMA TreeFacts ==
  ASSUME NEW tree, NEW values, IsTree(tree, values)
  PROVE  /\ Len(values) \in Nat /\ Len(tree) = Len(values) /\ DOMAIN tree = 1..Len(values)
         /\ tree \in Seq(Int)
         /\ \A j \in 1..Len(values) : /\ LowBit[j] \in 1..j /\ tree[j] \in Int
                                      /\ j - LowBit[j] \in 0..Len(values)
         /\ \A j \in 0..Len(values) : Sums(values)[j] \in Int
<1> DEFINE N == Len(values)
<1>1. N \in Nat
  BY DEF IsTree
<1>2. tree \in [1..N -> Int]
  BY DEF IsTree
<1>3. tree \in Seq(Int) /\ Len(tree) = N
  <2> HIDE DEF N
  <2> QED BY <1>1, <1>2
<1>4. \A j \in 1..N : LowBit[j] \in 1..j
  <2> HIDE DEF N
  <2> QED BY <1>1, LowBitType
<1>5. \A j \in 0..N : Sums(values)[j] \in Int
  BY SumsIs DEF IsTree
<1> HIDE DEF N
<1>6. \A j \in 1..N : LowBit[j] \in 1..j /\ tree[j] \in Int /\ j - LowBit[j] \in 0..N
  BY <1>1, <1>2, <1>4
<1> QED BY <1>1, <1>2, <1>3, <1>5, <1>6 DEF N

LEMMA EmptyTreeIs == IsTree(EmptyTree, <<>>)
BY DEF IsTree, EmptyTree

LEMMA PrefixSumIs ==
  ASSUME NEW tree, NEW values, IsTree(tree, values), NEW j \in 0..Len(values)
  PROVE  PrefixSum(tree, j) = Sums(values)[j]
<1> DEFINE N == Len(values)
           M == Len(tree)
           T == Sums(values)
           Body(f) == [k \in 0..M |-> IF k = 0 THEN 0 ELSE tree[k] + f[k - LowBit[k]]]
           sum[k \in 0..M] == IF k = 0 THEN 0 ELSE tree[k] + sum[k - LowBit[k]]
<1>1. /\ N \in Nat /\ M = N
      /\ \A k \in 1..N : LowBit[k] \in 1..k /\ k - LowBit[k] \in 0..N
      /\ \A k \in 0..N : T[k] \in Int
  BY TreeFacts
<1>2. \A k \in 1..N : tree[k] = T[k] - T[k - LowBit[k]]
  BY DEF IsTree
<1>3. T[0] = 0 /\ T = [k \in 0..N |-> T[k]]
  BY SumsIs DEF IsTree
<1>4. PrefixSum(tree, j) = sum[j]
  BY DEF PrefixSum, sum
<1> HIDE DEF N, M, T
<1>5. T = Body(T)
  <2>1. \A k \in 0..N : T[k] = IF k = 0 THEN 0 ELSE tree[k] + T[k - LowBit[k]]
    <3> TAKE k \in 0..N
    <3>1. CASE k = 0
      BY <3>1, <1>3
    <3>2. CASE k # 0
      <4>1. k \in 1..N
        BY <3>2, <1>1
      <4>2. tree[k] = T[k] - T[k - LowBit[k]] /\ T[k] \in Int /\ T[k - LowBit[k]] \in Int
        BY <4>1, <1>1, <1>2
      <4> QED BY <3>2, <4>2
    <3> QED BY <3>1, <3>2
  <2> QED BY <1>1, <1>3, <2>1
<1>6. sum = Body(sum)
  BY <1>5 DEF sum
<1> HIDE DEF sum
<1> DEFINE S == {k \in Nat : k \in 0..N => sum[k] = T[k]}
<1>7. ASSUME NEW k \in Nat, \A i \in 0..(k - 1) : i \in S PROVE k \in S
  <2>1. CASE k = 0
    BY <2>1, <1>1, <1>3, <1>6
  <2>2. CASE k \in 1..N
    <3>1. sum[k] = tree[k] + sum[k - LowBit[k]]
      BY <1>6, <1>1, <2>2
    <3>2. k - LowBit[k] \in 0..(k - 1) /\ k - LowBit[k] \in 0..N
      BY <1>1, <2>2
    <3>3. sum[k - LowBit[k]] = T[k - LowBit[k]]
      BY <3>2, <1>7
    <3>4. T[k] \in Int /\ T[k - LowBit[k]] \in Int
      BY <3>2, <2>2, <1>1
    <3> QED BY <3>1, <3>3, <3>4, <1>2, <2>2
  <2> QED BY <2>1, <2>2
<1> HIDE DEF S
<1>8. Nat \subseteq S
  BY <1>7, StrongInduction
<1> QED BY <1>4, <1>8, <1>1 DEF S, N, T

LEMMA PushIs ==
  ASSUME NEW tree, NEW values, IsTree(tree, values), NEW v \in Int
  PROVE  IsTree(Push(tree, v), Append(values, v))
<1> DEFINE N == Len(values)
           M == Len(tree)
           j == M + 1
           low == j - LowBit[j]
           T == Sums(values)
           Body(f) == [k \in 0..M |-> IF k <= low THEN 0 ELSE tree[k] + f[k - LowBit[k]]]
           children[k \in 0..M] == IF k <= j - LowBit[j] THEN 0 ELSE tree[k] + children[k - LowBit[k]]
           w == Append(values, v)
<1>1. /\ N \in Nat /\ M = N
      /\ \A k \in 1..N : LowBit[k] \in 1..k /\ k - LowBit[k] \in 0..N
      /\ \A k \in 0..N : T[k] \in Int
      /\ tree \in Seq(Int) /\ values \in Seq(Int)
  BY TreeFacts DEF IsTree
<1>2. \A k \in 1..N : tree[k] = T[k] - T[k - LowBit[k]]
  BY DEF IsTree
<1>3. LowBit[j] \in 1..j /\ low \in 0..M
  <2>1. LowBit[j] \in 1..j
    BY <1>1, LowBitType
  <2> QED BY <2>1, <1>1
<1>4. \A k \in 0..M : k > low => low <= k - LowBit[k] /\ k - LowBit[k] < k /\ k - LowBit[k] \in 0..M
  <2> TAKE k \in 0..M
  <2> HAVE k > low
  <2>1. j \in Nat \ {0} /\ k \in Nat /\ j - LowBit[j] < k /\ k < j
    BY <1>1, <1>3
  <2>2. j - LowBit[j] <= k - LowBit[k]
    BY <2>1, LowBitNests
  <2>3. k \in 1..N
    BY <2>1, <1>1, <1>3
  <2> QED BY <2>2, <2>3, <1>1
<1>5. Push(tree, v) = Append(tree, v + children[M])
  BY DEF Push, children
<1>6. w \in Seq(Int) /\ Len(w) = N + 1 /\ w[N + 1] = v /\ \A i \in 1..N : w[i] = values[i]
  BY <1>1
<1> HIDE DEF N, M, T, low, w
<1>7. children = Body(children)
  <2> DEFINE g == [k \in 0..M |-> IF k <= low THEN 0 ELSE T[k] - T[low]]
  <2>1. ASSUME NEW k \in 0..M PROVE g[k] = IF k <= low THEN 0 ELSE tree[k] + g[k - LowBit[k]]
    <3>1. CASE k <= low
      BY <3>1
    <3>2. CASE k > low
      <4>1. g[k - LowBit[k]] = T[k - LowBit[k]] - T[low]
        <5>1. T[low] \in Int
          BY <1>1, <1>3
        <5> QED BY <1>4, <3>2, <1>3, <5>1
      <4>2. tree[k] = T[k] - T[k - LowBit[k]]
        BY <1>2, <1>3, <3>2, <1>1
      <4>3. T[k] \in Int /\ T[k - LowBit[k]] \in Int /\ T[low] \in Int
        BY <1>1, <1>3, <1>4, <3>2
      <4> QED BY <3>2, <4>1, <4>2, <4>3, <1>3
    <3> QED BY <3>1, <3>2, <1>3
  <2>2. g = Body(g)
    <3> HIDE DEF g
    <3>1. g = [k \in 0..M |-> g[k]]
      BY DEF g
    <3> QED BY <3>1, <2>1
  <2> HIDE DEF g
  <2> QED BY <2>2 DEF children, low
<1> HIDE DEF children
<1>8. children[M] = T[M] - T[low]
  <2> DEFINE S == {k \in Nat : k \in 0..M /\ k >= low => children[k] = T[k] - T[low]}
  <2>1. ASSUME NEW k \in Nat, \A i \in 0..(k - 1) : i \in S PROVE k \in S
    <3>1. CASE k = low
      <4>1. children[k] = 0
        BY <1>7, <3>1, <1>3
      <4> QED BY <4>1, <3>1, <1>1, <1>3
    <3>2. CASE k \in 0..M /\ k > low
      <4>1. children[k] = tree[k] + children[k - LowBit[k]]
        <5>1. ~ (k <= low) /\ k \in 0..M
          BY <3>2, <1>3, <1>1
        <5> QED BY <1>7, <5>1
      <4>2. k - LowBit[k] \in 0..(k - 1) /\ k - LowBit[k] \in 0..M /\ k - LowBit[k] >= low
        BY <1>4, <3>2
      <4>3. children[k - LowBit[k]] = T[k - LowBit[k]] - T[low]
        BY <4>2, <2>1
      <4>4. tree[k] = T[k] - T[k - LowBit[k]]
        BY <1>2, <1>3, <3>2, <1>1
      <4>5. T[k] \in Int /\ T[k - LowBit[k]] \in Int /\ T[low] \in Int
        BY <1>1, <1>3, <4>2, <3>2
      <4> QED BY <4>1, <4>3, <4>4, <4>5
    <3> QED BY <3>1, <3>2, <1>3
  <2> HIDE DEF S
  <2>2. Nat \subseteq S
    BY <2>1, StrongInduction
  <2> QED BY <2>2, <1>1, <1>3 DEF S
<1>9. /\ \A i \in 0..N : Sums(w)[i] = T[i]
      /\ Sums(w)[N + 1] = T[N] + v
  <2>1. \A i \in 1..N : w[i] = values[i]
    BY <1>6
  <2>2. N <= Len(values) /\ N <= Len(w) /\ Len(values) = N
    BY <1>1, <1>6 DEF N
  <2>3. \A i \in 0..N : Sums(w)[i] = T[i]
    <3> QED BY <2>1, <2>2, <1>1, <1>6, SumsAgree DEF T
  <2>4. Sums(w)[N + 1] = Sums(w)[N] + w[N + 1]
    <3>1. N + 1 \in 1..Len(w) /\ (N + 1) - 1 = N
      BY <1>1, <1>6
    <3> QED BY <3>1, SumsIs, <1>6
  <2> QED BY <2>3, <2>4, <1>1, <1>6
<1> DEFINE t == Append(tree, v + children[M])
<1>10. v + children[M] \in Int
  <2>1. M \in 0..N /\ low \in 0..N
    BY <1>1, <1>3
  <2> QED BY <2>1, <1>8, <1>1
<1>11. t \in [1..(N + 1) -> Int] /\ t[N + 1] = v + children[M] /\ \A k \in 1..N : t[k] = tree[k]
  <2>1. Len(tree) = N
    BY <1>1 DEF M
  <2> DEFINE x == v + children[M]
  <2>2. Append(tree, x) \in Seq(Int) /\ Len(Append(tree, x)) = N + 1
        /\ \A k \in 1..(N + 1) : Append(tree, x)[k] = IF k <= N THEN tree[k] ELSE x
    <3> HIDE DEF x
    <3>1. x \in Int
      BY <1>10 DEF x
    <3> QED BY <3>1, <2>1, <1>1, AppendProperties
  <2> HIDE DEF x
  <2>3. t = Append(tree, x)
    BY DEF x
  <2>4. t \in [1..(N + 1) -> Int]
    <3> HIDE DEF t
    <3>1. t \in Seq(Int) /\ Len(t) = N + 1
      BY <2>2, <2>3
    <3>2. t \in [1..Len(t) -> Int]
      BY <3>1, LenProperties
    <3> QED BY <3>1, <3>2
  <2>5. N + 1 \in 1..(N + 1) /\ ~ (N + 1 <= N)
    BY <1>1
  <2>6. t[N + 1] = x
    <3> HIDE DEF t
    <3> QED BY <2>2, <2>3, <2>5
  <2>7. \A k \in 1..N : t[k] = tree[k]
    <3> HIDE DEF t
    <3> QED BY <2>2, <2>3, <1>1
  <2> QED BY <2>4, <2>6, <2>7 DEF x
<1>12. ASSUME NEW k \in 1..(N + 1) PROVE t[k] = Sums(w)[k] - Sums(w)[k - LowBit[k]]
  <2>1. CASE k = N + 1
    <3>1. j = N + 1 /\ low \in 0..N
      BY <1>1, <1>3
    <3>2. t[k] = v + (T[N] - T[low])
      BY <2>1, <1>8, <1>11, <1>1
    <3>3. k - LowBit[k] = low
      BY <2>1, <3>1 DEF low
    <3>4. Sums(w)[k] = T[N] + v /\ Sums(w)[k - LowBit[k]] = T[low]
      BY <2>1, <3>1, <3>3, <1>9
    <3>5. T[N] \in Int /\ T[low] \in Int
      BY <1>1, <3>1
    <3> HIDE DEF t
    <3> QED BY <3>2, <3>4, <3>5
  <2>2. CASE k \in 1..N
    <3>1. k - LowBit[k] \in 0..N /\ k \in 0..N
      BY <2>2, <1>1
    <3>2. Sums(w)[k] = T[k] /\ Sums(w)[k - LowBit[k]] = T[k - LowBit[k]]
      BY <3>1, <1>9
    <3> HIDE DEF t
    <3> QED BY <2>2, <3>2, <1>11, <1>2
  <2>3. k = N + 1 \/ k \in 1..N
    BY <1>1
  <2> QED BY <2>1, <2>2, <2>3
<1>13. IsTree(t, w)
  <2> HIDE DEF t
  <2> QED BY <1>6, <1>11, <1>12 DEF IsTree
<1> QED BY <1>5, <1>13 DEF w

-----------------------------------------------------------------------------
(* Fenwick tree: a sum is found, an item is added.                           *)

\* The slots whose stretch has the k-th value.
CoversSlot(N, k) == {i \in 1..N : i - LowBit[i] < k /\ k <= i}

LEMMA CoversNext ==
  ASSUME NEW N \in Nat, NEW k \in 1..N
  PROVE  /\ CoversSlot(N, k) = {k} \cup CoversSlot(N, k + LowBit[k])
         /\ LowBit[k] \in 1..k
<1>1. LowBit[k] \in 1..k
  BY LowBitType
<1> DEFINE p == k + LowBit[k]
<1>2. p \in Nat \ {0} /\ p > k
  BY <1>1
<1>3. ASSUME NEW i \in 1..N, i - LowBit[i] < k, k <= i, i # k
      PROVE  i - LowBit[i] < p /\ p <= i
  <2>1. k + LowBit[k] <= i
    BY <1>3, LowBitNests
  <2>2. LowBit[i] \in 1..i
    BY LowBitType
  <2> QED BY <2>1, <2>2, <1>2, <1>3
<1>4. ASSUME NEW i \in 1..N, i - LowBit[i] < p, p <= i
      PROVE  i - LowBit[i] < k /\ k <= i
  <2>1. LowBit[p] >= 2 * LowBit[k]
    BY LowBitGrows
  <2>2. LowBit[i] \in 1..i /\ LowBit[p] \in 1..p
    BY LowBitType, <1>2
  <2>3. CASE p = i
    BY <2>1, <2>2, <2>3, <1>1
  <2>4. CASE p < i
    <3>1. i - LowBit[i] <= p - LowBit[p]
      <4> HIDE DEF p
      <4> QED BY <2>4, <1>2, <1>4, LowBitNests
    <3> QED BY <3>1, <2>1, <2>2, <2>4, <1>1
  <2> QED BY <2>3, <2>4, <1>2, <1>4
<1>5. k \in CoversSlot(N, k)
  BY <1>1 DEF CoversSlot
<1> QED BY <1>1, <1>3, <1>4, <1>5 DEF CoversSlot

LEMMA AddAtIs ==
  ASSUME NEW tree, NEW values, IsTree(tree, values), NEW w, NEW j, NEW diff,
         Differ(values, w, j, diff)
  PROVE  IsTree(AddAt(tree, j, diff), w)
<1> DEFINE N == Len(values)
           M == Len(tree)
           T == Sums(values)
           Body(f) == [k \in 1..(2 * M) |-> IF k > M THEN {} ELSE {k} \cup f[k + LowBit[k]]]
           parents[k \in 1..(2 * M)] == IF k > M THEN {} ELSE {k} \cup parents[k + LowBit[k]]
           u == [k \in DOMAIN tree |-> IF k \in parents[j] THEN tree[k] + diff ELSE tree[k]]
<1>1. /\ N \in Nat /\ M = N /\ DOMAIN tree = 1..N
      /\ \A k \in 1..N : LowBit[k] \in 1..k /\ k - LowBit[k] \in 0..N /\ tree[k] \in Int
      /\ \A k \in 0..N : T[k] \in Int
      /\ values \in Seq(Int)
  BY TreeFacts DEF IsTree
<1>2. \A k \in 1..N : tree[k] = T[k] - T[k - LowBit[k]]
  BY DEF IsTree
<1>3. AddAt(tree, j, diff) = u
  BY DEF AddAt, parents
<1>4. \A i \in 0..N : /\ i < j => Sums(w)[i] = T[i]
                      /\ j <= i => Sums(w)[i] = T[i] + diff
  BY SumsDiffer
<1>5. j \in 1..N /\ Len(w) = N /\ w \in Seq(Int) /\ diff \in Int
  BY DEF Differ
<1> HIDE DEF N, M, T
<1> DEFINE C == [k \in 1..(2 * M) |-> IF k > M THEN {} ELSE CoversSlot(N, k)]
<1>6. \A k \in 1..M : k + LowBit[k] \in 1..(2 * M)
  <2> TAKE k \in 1..M
  <2>1. M \in Nat /\ LowBit[k] \in 1..k
    BY <1>1
  <2> QED BY <2>1
<1>7. ASSUME NEW k \in 1..(2 * M) PROVE C[k] = IF k > M THEN {} ELSE {k} \cup C[k + LowBit[k]]
  <2>1. CASE k > M
    BY <2>1
  <2>2. CASE k \in 1..M
    <3>1. CoversSlot(N, k) = {k} \cup CoversSlot(N, k + LowBit[k])
      BY <2>2, <1>1, CoversNext
    <3>2. C[k + LowBit[k]] = CoversSlot(N, k + LowBit[k])
      <4>1. k + LowBit[k] \in 1..(2 * M) /\ M = N /\ N \in Nat
        BY <1>1, <1>6, <2>2
      <4>2. k + LowBit[k] > M => CoversSlot(N, k + LowBit[k]) = {}
        BY <4>1 DEF CoversSlot
      <4> QED BY <4>1, <4>2
    <3>3. C[k] = CoversSlot(N, k)
      BY <2>2, <1>1
    <3> QED BY <3>1, <3>2, <3>3, <2>2, <1>1
  <2> QED BY <2>1, <2>2, <1>1
<1>8. parents = Body(parents)
  <2>1. C = Body(C)
    <3> HIDE DEF C
    <3>1. C = [k \in 1..(2 * M) |-> C[k]]
      BY DEF C
    <3> QED BY <3>1, <1>7
  <2> HIDE DEF C
  <2> QED BY <2>1 DEF parents
<1> HIDE DEF parents
<1> DEFINE S == {n \in Nat : \A k \in 1..(2 * M) : 2 * M - k = n => parents[k] = C[k]}
<1>9. ASSUME NEW n \in Nat, \A i \in 0..(n - 1) : i \in S PROVE n \in S
  <2> SUFFICES ASSUME NEW k \in 1..(2 * M), 2 * M - k = n PROVE parents[k] = C[k]
    OBVIOUS
  <2>1. CASE k > M
    <3>1. parents[k] = {}
      BY <2>1, <1>8
    <3> QED BY <3>1, <2>1
  <2>2. CASE k \in 1..M
    <3>0. M \in Nat /\ LowBit[k] \in 1..k /\ ~ (k > M)
      BY <2>2, <1>1
    <3>1. k + LowBit[k] \in 1..(2 * M) /\ 2 * M - (k + LowBit[k]) \in 0..(n - 1)
      <4> DEFINE b == LowBit[k]
      <4>1. b \in 1..k /\ k <= M /\ M \in Nat /\ k \in Nat /\ 2 * M - k = n
        BY <3>0
      <4> HIDE DEF b, S, C
      <4>2. k + b \in 1..(2 * M) /\ 2 * M - (k + b) \in 0..(n - 1)
        BY <4>1
      <4> QED BY <4>2 DEF b
    <3>2. parents[k + LowBit[k]] = C[k + LowBit[k]]
      <4>1. 2 * M - (k + LowBit[k]) \in S
        BY <3>1, <1>9
      <4> HIDE DEF C
      <4> QED BY <4>1, <3>1
    <3>3. parents[k] = {k} \cup parents[k + LowBit[k]]
      BY <3>0, <1>8
    <3>4. C[k] = {k} \cup C[k + LowBit[k]]
      <4> HIDE DEF C
      <4> QED BY <3>0, <1>7
    <3> HIDE DEF C
    <3> QED BY <3>2, <3>3, <3>4
  <2> QED BY <2>1, <2>2, <1>1
<1>10. parents[j] = CoversSlot(N, j)
  <2>1. Nat \subseteq S
    <3> HIDE DEF S
    <3> QED BY <1>9, StrongInduction
  <2>2. j \in 1..(2 * M) /\ 2 * M - j \in Nat /\ ~ (j > M)
    BY <1>1, <1>5
  <2>3. parents[j] = C[j]
    <3> HIDE DEF C
    <3> QED BY <2>1, <2>2
  <2> QED BY <2>2, <2>3
<1>11. u \in [1..N -> Int]
  <2>1. \A k \in 1..N : (IF k \in parents[j] THEN tree[k] + diff ELSE tree[k]) \in Int
    BY <1>1, <1>5
  <2> QED BY <2>1, <1>1
<1>12. ASSUME NEW k \in 1..N PROVE u[k] = Sums(w)[k] - Sums(w)[k - LowBit[k]]
  <2>1. k - LowBit[k] \in 0..N /\ k \in 0..N /\ LowBit[k] \in 1..k
    BY <1>1
  <2>2. T[k] \in Int /\ T[k - LowBit[k]] \in Int /\ tree[k] = T[k] - T[k - LowBit[k]]
    BY <1>1, <1>2, <2>1
  <2>3. u[k] = IF k \in CoversSlot(N, j) THEN tree[k] + diff ELSE tree[k]
    BY <1>1, <1>10
  <2>4. k \in CoversSlot(N, j) <=> k - LowBit[k] < j /\ j <= k
    BY DEF CoversSlot
  <2> DEFINE a == Sums(w)[k]
             b == Sums(w)[k - LowBit[k]]
             c == u[k]
             x == T[k]
             y == T[k - LowBit[k]]
             q == k - LowBit[k]
  <2>5. a = (IF j <= k THEN x + diff ELSE x) /\ b = (IF j <= q THEN y + diff ELSE y)
    <3>1. k \in 0..N /\ q \in 0..N /\ j \in 1..N
      BY <1>5, <2>1
    <3>2. a = IF j <= k THEN x + diff ELSE x
      BY <1>4, <3>1
    <3>3. b = IF j <= q THEN y + diff ELSE y
      <4> HIDE DEF q
      <4> QED BY <1>4, <3>1 DEF b, y, q
    <3> QED BY <3>2, <3>3
  <2>6. c = IF q < j /\ j <= k THEN (x - y) + diff ELSE x - y
    <3> HIDE DEF u
    <3> QED BY <2>2, <2>3, <2>4
  <2>7. x \in Int /\ y \in Int /\ q \in Int /\ q <= k /\ j \in Int /\ k \in Int
    BY <2>1, <2>2, <1>5
  <2> HIDE DEF a, b, c, x, y, q
  <2>8. c = a - b
    BY <2>5, <2>6, <2>7, <1>5
  <2> QED BY <2>8 DEF a, b, c
<1>13. IsTree(u, w)
  <2> HIDE DEF u
  <2> QED BY <1>5, <1>11, <1>12 DEF IsTree
<1> QED BY <1>3, <1>13

-----------------------------------------------------------------------------
(* Fenwick tree: an item is changed.                                         *)

\* A slot's value is built to its parent's.
Added(tree, N, i) == [k \in 1..N |-> IF k = i + LowBit[i] THEN tree[k] + tree[i] ELSE tree[k]]

LEMMA AddedType ==
  ASSUME NEW N \in Nat, NEW tree \in [1..N -> Int], NEW i \in 1..N
  PROVE  /\ Added(tree, N, i) \in [1..N -> Int]
         /\ \A k \in 1..N : Added(tree, N, i)[k] = IF k = i + LowBit[i] THEN tree[k] + tree[i] ELSE tree[k]
<1>1. \A k \in 1..N : tree[k] + tree[i] \in Int /\ tree[k] \in Int
  OBVIOUS
<1>2. \A k \in 1..N : (IF k = i + LowBit[i] THEN tree[k] + tree[i] ELSE tree[k]) \in Int
  BY <1>1
<1> QED BY <1>2 DEF Added

IsBuilding(f, values) ==
    /\ FromIter(values) = f[Len(values)] /\ f[0] = values
    /\ \A i \in 1..Len(values) : f[i] = Added(f[i - 1], Len(values), i)

LEMMA FromIterUnrolls ==
  ASSUME NEW values \in Seq(Int)
  PROVE  \E f : IsBuilding(f, values)
<1> DEFINE N == Len(values)
           V == [1..N -> Int]
           step == [p \in V \X (1..N) |-> Added(p[1], N, p[2])]
           Body(f) == [i \in 0..N |-> IF i = 0 THEN values
                       ELSE [k \in DOMAIN values |->
                               IF k = i + LowBit[i] THEN f[i - 1][k] + f[i - 1][i] ELSE f[i - 1][k]]]
           built[i \in 0..N] ==
             IF i = 0 THEN values
             ELSE LET tree == built[i - 1]
                  IN  [k \in DOMAIN values |-> IF k = i + LowBit[i] THEN tree[k] + tree[i] ELSE tree[k]]
<1>1. N \in Nat /\ DOMAIN values = 1..N /\ values \in V
  OBVIOUS
<1>2. PICK g : Unrolls(g, V, N, values, step)
  <2>1. \A p \in V \X (1..N) : Added(p[1], N, p[2]) \in V
    <3> TAKE p \in V \X (1..N)
    <3>1. p[1] \in [1..N -> Int] /\ p[2] \in 1..N
      OBVIOUS
    <3> HIDE DEF N
    <3> QED BY <1>1, <3>1, AddedType
  <2>2. IsStep(step, V, N)
    <3> HIDE DEF N, V
    <3> QED BY <2>1 DEF IsStep
  <2> HIDE DEF step, N, V
  <2> QED BY <1>1, <2>2, Recursion
<1>3. \A i \in 1..N : g[i] = Added(g[i - 1], N, i)
  <2> TAKE i \in 1..N
  <2>1. g[i - 1] \in V /\ g[i] = step[<<g[i - 1], i>>]
    <3> HIDE DEF N, step, V
    <3> QED BY <1>1, <1>2 DEF Unrolls
  <2> HIDE DEF N, V
  <2> QED BY <2>1
<1>4. g = Body(g)
  <2> HIDE DEF N, step, V
  <2>1. g = [i \in 0..N |-> g[i]] /\ g[0] = values
    BY <1>2 DEF Unrolls
  <2>2. \A i \in 0..N : g[i] = IF i = 0 THEN values
           ELSE [k \in DOMAIN values |->
                   IF k = i + LowBit[i] THEN g[i - 1][k] + g[i - 1][i] ELSE g[i - 1][k]]
    <3> TAKE i \in 0..N
    <3>1. CASE i = 0
      BY <3>1, <2>1
    <3>2. CASE i # 0
      <4>1. i \in 1..N
        BY <3>2, <1>1
      <4> QED BY <3>2, <4>1, <1>3, <1>1 DEF Added
    <3> QED BY <3>1, <3>2
  <2> QED BY <2>1, <2>2
<1>5. built = Body(built)
  <2> HIDE DEF N
  <2> QED BY <1>4 DEF built
<1>6. FromIter(values) = built[N]
  BY DEF FromIter, built
<1> HIDE DEF built, N
<1>7. built[0] = values
  BY <1>5, <1>1
<1>8. \A i \in 1..N : built[i] = Added(built[i - 1], N, i)
  <2> TAKE i \in 1..N
  <2>1. i \in 0..N /\ i # 0
    BY <1>1
  <2>2. built[i] = Body(built)[i]
    BY <1>5
  <2> QED BY <2>1, <2>2, <1>1 DEF Added
<1>9. IsBuilding(built, values)
  BY <1>6, <1>7, <1>8 DEF N, IsBuilding
<1> QED BY <1>9

\* After the first i slots were built to their parents they are done; a later one has
\* its value and its children up to i, the last of which ends at e.
LastChild(i, j, e) ==
    /\ e \in Nat /\ e < j /\ j - LowBit[j] <= e
    /\ e = j - LowBit[j] \/ (e <= i /\ e + LowBit[e] = j)
    /\ \A c \in 1..i : c > e => c + LowBit[c] # j

Partial(tree, values, i) ==
    /\ tree \in [1..Len(values) -> Int]
    /\ \A j \in 1..Len(values) :
           /\ j <= i => tree[j] = Sums(values)[j] - Sums(values)[j - LowBit[j]]
           /\ i < j => \E e \in 0..Len(values) :
                  LastChild(i, j, e) /\ tree[j] = values[j] + Sums(values)[e] - Sums(values)[j - LowBit[j]]

LEMMA ChildrenDone ==
  ASSUME NEW c \in Nat \ {0}, NEW e, LastChild(c - 1, c, e)
  PROVE  e = c - 1
<1>1. LowBit[c] \in 1..c
  BY LowBitType
<1>2. CASE LowBit[c] = 1
  BY <1>2 DEF LastChild
<1>3. CASE LowBit[c] # 1
  <2>1. LowBit[c - 1] = 1 /\ c - 1 \in Nat \ {0}
    BY <1>3, LowBitOdd
  <2>2. (c - 1) + LowBit[c - 1] = c /\ c - 1 \in 1..(c - 1)
    BY <2>1
  <2>3. ~ (c - 1 > e)
    BY <2>2 DEF LastChild
  <2> QED BY <2>3 DEF LastChild
<1> QED BY <1>2, <1>3

LEMMA ChildBefore ==
  ASSUME NEW c \in Nat \ {0}, NEW p, p = c + LowBit[c], NEW e, LastChild(c - 1, p, e)
  PROVE  /\ e = c - LowBit[c] /\ c \in (p - LowBit[p])..(p - 1)
         /\ LastChild(c, p, c)
<1> DEFINE a == c - LowBit[c]
<1>1. LowBit[c] \in 1..c /\ p \in Nat \ {0} /\ a \in Nat
  BY LowBitType
<1>2. LowBit[p] \in 1..p /\ LowBit[p] >= 2 * LowBit[c]
  BY <1>1, LowBitType, LowBitGrows
<1>3. p - LowBit[p] <= a
  BY <1>1, <1>2
<1>4. ~ (e > a)
  <2> SUFFICES ASSUME e > a PROVE FALSE
    OBVIOUS
  <2>1. e \in Nat /\ e <= c - 1 /\ e + LowBit[e] = p
    BY <1>1, <1>3 DEF LastChild
  <2>2. e + LowBit[e] <= c
    <3>1. c - LowBit[c] < e /\ e < c
      BY <2>1, <1>1
    <3> QED BY <2>1, <3>1, LowBitNests
  <2> QED BY <2>1, <2>2, <1>1
<1>5. ~ (a > e)
  <2> SUFFICES ASSUME a > e PROVE FALSE
    OBVIOUS
  <2>1. a > p - LowBit[p] /\ a \in 1..(c - 1)
    BY <1>1, <1>2 DEF LastChild
  <2>2. a + LowBit[a] = p
    BY <2>1, <1>1, LowBitSibling
  <2> QED BY <2>1, <2>2 DEF LastChild
<1>6. e = a
  BY <1>4, <1>5, <1>1 DEF LastChild
<1>7. LastChild(c, p, c)
  BY <1>1, <1>2, <1>3 DEF LastChild
<1> QED BY <1>1, <1>2, <1>3, <1>6, <1>7

LEMMA PartialInit ==
  ASSUME NEW values \in Seq(Int)
  PROVE  Partial(values, values, 0)
<1> DEFINE N == Len(values)
           T == Sums(values)
<1>1. N \in Nat /\ values \in [1..N -> Int] /\ T \in [0..N -> Int]
  BY SumsIs
<1>2. ASSUME NEW j \in 1..N
      PROVE  \E e \in 0..N : LastChild(0, j, e) /\ values[j] = values[j] + T[e] - T[j - LowBit[j]]
  <2>1. LowBit[j] \in 1..j
    BY <1>1, LowBitType
  <2> DEFINE e == j - LowBit[j]
  <2>2. e \in 0..N
    BY <2>1, <1>1
  <2>3. LastChild(0, j, e)
    BY <2>1 DEF LastChild
  <2>4. values[j] = values[j] + T[e] - T[j - LowBit[j]]
    <3>1. values[j] \in Int /\ T[e] \in Int
      BY <1>1, <2>2
    <3> HIDE DEF T
    <3> QED BY <3>1
  <2> HIDE DEF e, T
  <2> QED BY <2>2, <2>3, <2>4
<1>3. \A j \in 1..N : ~ (j <= 0) /\ 0 < j
  OBVIOUS
<1> QED BY <1>1, <1>2, <1>3 DEF Partial

LEMMA PartialStep ==
  ASSUME NEW values \in Seq(Int), NEW tree, NEW c \in 1..Len(values), Partial(tree, values, c - 1)
  PROVE  Partial(Added(tree, Len(values), c), values, c)
<1> DEFINE N == Len(values)
           T == Sums(values)
           t == Added(tree, N, c)
           p == c + LowBit[c]
<1>1. /\ N \in Nat /\ values \in [1..N -> Int] /\ T \in [0..N -> Int] /\ c \in 1..N /\ c \in Nat \ {0}
      /\ c - 1 \in 0..N /\ c \in 0..N /\ c - 1 < c
      /\ \A i \in 1..N : T[i] = T[i - 1] + values[i]
  BY SumsIs
<1>2. /\ tree \in [1..N -> Int]
      /\ \A j \in 1..N :
           /\ j <= c - 1 => tree[j] = T[j] - T[j - LowBit[j]]
           /\ c - 1 < j => \E e \in 0..N : LastChild(c - 1, j, e) /\ tree[j] = values[j] + T[e] - T[j - LowBit[j]]
  BY DEF Partial
<1>3. \A j \in 1..N : LowBit[j] \in 1..j /\ j - LowBit[j] \in 0..N
  <2> TAKE j \in 1..N
  <2>1. LowBit[j] \in 1..j
    BY LowBitType
  <2> QED BY <2>1, <1>1
<1> HIDE DEF N, T
<1>4. t \in [1..N -> Int] /\ \A k \in 1..N : t[k] = IF k = p THEN tree[k] + tree[c] ELSE tree[k]
  BY <1>1, <1>2, AddedType
<1>5. p > c
  <2>1. LowBit[c] \in 1..c /\ c \in Nat
    BY <1>1, <1>3
  <2> QED BY <2>1
<1> HIDE DEF t
<1>6. tree[c] = T[c] - T[c - LowBit[c]]
  <2>0. c - LowBit[c] \in 0..N
    BY <1>1, <1>3
  <2>1. PICK e \in 0..N : LastChild(c - 1, c, e) /\ tree[c] = values[c] + T[e] - T[c - LowBit[c]]
    BY <1>1, <1>2
  <2>2. e = c - 1
    BY <2>1, <1>1, ChildrenDone
  <2>3. T[c] = T[c - 1] + values[c]
    BY <1>1
  <2>4. T[c - 1] \in Int /\ values[c] \in Int /\ T[c - LowBit[c]] \in Int
    BY <1>1, <2>0
  <2> QED BY <2>1, <2>2, <2>3, <2>4
<1>7. ASSUME NEW j \in 1..N, j <= c PROVE t[j] = T[j] - T[j - LowBit[j]]
  <2>1. t[j] = tree[j]
    <3>1. j # p
      <4> HIDE DEF p
      <4> QED BY <1>5, <1>7, <1>1
    <3> HIDE DEF p
    <3> QED BY <1>4, <3>1
  <2>2. CASE j = c
    BY <2>1, <2>2, <1>6
  <2>3. CASE j # c
    <3>1. j <= c - 1
      BY <2>3, <1>7, <1>1
    <3> QED BY <3>1, <2>1, <1>2
  <2> QED BY <2>2, <2>3
<1>8. ASSUME NEW j \in 1..N, c < j
      PROVE  \E e \in 0..N : LastChild(c, j, e) /\ t[j] = values[j] + T[e] - T[j - LowBit[j]]
  <2>1. PICK e \in 0..N : LastChild(c - 1, j, e) /\ tree[j] = values[j] + T[e] - T[j - LowBit[j]]
    <3>1. c - 1 < j
      BY <1>8, <1>1
    <3> QED BY <3>1, <1>2
  <2>2. values[j] \in Int /\ T[e] \in Int /\ T[c] \in Int /\ T[j - LowBit[j]] \in Int
    <3>1. j - LowBit[j] \in 0..N
      BY <1>3
    <3> QED BY <3>1, <1>1
  <2>3. CASE j = p
    <3>1. e = c - LowBit[c] /\ LastChild(c, j, c)
      BY <2>1, <2>3, <1>1, ChildBefore
    <3>2. t[j] = tree[j] + tree[c]
      BY <1>4, <2>3
    <3>3. t[j] = values[j] + T[c] - T[j - LowBit[j]]
      BY <3>1, <3>2, <2>1, <2>2, <1>6
    <3>4. c \in 0..N
      BY <1>1
    <3> QED BY <3>1, <3>3, <3>4
  <2>4. CASE j # p
    <3>1. t[j] = tree[j]
      BY <1>4, <2>4
    <3>2. \A i \in 1..c : i > e => i + LowBit[i] # j
      <4> TAKE i \in 1..c
      <4>1. i = c \/ i \in 1..(c - 1)
        BY <1>1
      <4> QED BY <4>1, <2>1, <2>4 DEF LastChild
    <3>3. LastChild(c, j, e)
      <4>1. /\ e \in Nat /\ e < j /\ j - LowBit[j] <= e
            /\ e = j - LowBit[j] \/ (e <= c - 1 /\ e + LowBit[e] = j)
        BY <2>1 DEF LastChild
      <4>2. e <= c - 1 => e <= c
        BY <1>1, <4>1
      <4> QED BY <4>1, <4>2, <3>2 DEF LastChild
    <3> QED BY <3>1, <3>3, <2>1
  <2> QED BY <2>3, <2>4
<1> QED BY <1>4, <1>7, <1>8 DEF Partial, t, N, T

LEMMA FromIterIs ==
  ASSUME NEW values \in Seq(Int)
  PROVE  IsTree(FromIter(values), values)
<1> DEFINE N == Len(values)
<1>1. PICK f : IsBuilding(f, values)
  BY FromIterUnrolls
<1> DEFINE S == {i \in 0..N : Partial(f[i], values, i)}
<1>2. N \in Nat /\ f[0] = values /\ FromIter(values) = f[N]
      /\ \A i \in 1..N : f[i] = Added(f[i - 1], N, i)
  BY <1>1 DEF IsBuilding
<1>3. 0 \in S
  BY <1>2, PartialInit
<1>4. ASSUME NEW i \in 0..(N - 1), i \in S PROVE i + 1 \in S
  <2>1. i + 1 \in 1..N /\ (i + 1) - 1 = i /\ i + 1 \in 0..N
    BY <1>2
  <2> DEFINE c == i + 1
  <2>2. c \in 1..N /\ c - 1 = i /\ c \in 0..N /\ f[c] = Added(f[i], N, c) /\ Partial(f[i], values, c - 1)
    BY <2>1, <1>2, <1>4
  <2> HIDE DEF c
  <2>3. Partial(f[c], values, c)
    BY <2>2, PartialStep
  <2> QED BY <2>2, <2>3 DEF c
<1> HIDE DEF S
<1>5. 0..N \subseteq S
  <2> HIDE DEF N
  <2> QED BY <1>2, <1>3, <1>4, UpToInduction
<1>6. Partial(f[N], values, N)
  BY <1>5, <1>2 DEF S
<1> QED BY <1>2, <1>6 DEF Partial, IsTree

-----------------------------------------------------------------------------
(* Fenwick tree: one of many items, and the item of a row.                   *)

Place == [probe : Nat, slots : Nat, remainder : Int]

\* One turn of the loop of index_of_with_remainder.
Turned(tree, at) ==
    LET half == LowBit[at.probe] \div 2
        below == at.probe \in DOMAIN tree /\ tree[at.probe] < at.remainder
    IN  [probe |-> IF half = 0 THEN 0 ELSE IF below THEN at.probe + half ELSE at.probe - half,
         slots |-> IF below THEN at.probe ELSE at.slots,
         remainder |-> IF below THEN at.remainder - tree[at.probe] ELSE at.remainder]

IsSearch(f, tree, target) ==
    /\ IndexOf(tree, target) = f[2 * HighBit[Len(tree)]]
    /\ f[0] = [probe |-> 2 * HighBit[Len(tree)], slots |-> 0, remainder |-> target]
    /\ \A n \in 1..(2 * HighBit[Len(tree)]) : f[n] = Turned(tree, f[n - 1])

LEMMA TurnedType ==
  ASSUME NEW tree \in Seq(Int), NEW at \in Place
  PROVE  Turned(tree, at) \in Place
<1> DEFINE half == LowBit[at.probe] \div 2
           below == at.probe \in DOMAIN tree /\ tree[at.probe] < at.remainder
<1>1. at.probe \in Nat /\ at.slots \in Nat /\ at.remainder \in Int
  BY DEF Place
<1>2. half \in Nat /\ (half # 0 => half <= at.probe)
  <2>1. CASE at.probe = 0
    BY <2>1, LowBitIs
  <2>2. CASE at.probe # 0
    <3>1. LowBit[at.probe] \in 1..at.probe
      BY <2>2, <1>1, LowBitType
    <3> QED BY <3>1, <1>1
  <2> QED BY <2>1, <2>2
<1>3. below => tree[at.probe] \in Int
  OBVIOUS
<1> HIDE DEF half, below
<1>4. (IF half = 0 THEN 0 ELSE IF below THEN at.probe + half ELSE at.probe - half) \in Nat
  BY <1>1, <1>2
<1>5. (IF below THEN at.probe ELSE at.slots) \in Nat
  BY <1>1
<1>6. (IF below THEN at.remainder - tree[at.probe] ELSE at.remainder) \in Int
  BY <1>1, <1>3
<1> QED BY <1>4, <1>5, <1>6 DEF Turned, Place, half, below

LEMMA SearchUnrolls ==
  ASSUME NEW tree \in Seq(Int), NEW target \in Int
  PROVE  \E f : IsSearch(f, tree, target)
<1> DEFINE N == 2 * HighBit[Len(tree)]
           start == [probe |-> N, slots |-> 0, remainder |-> target]
           V == Place
           step == [p \in V \X (1..N) |-> Turned(tree, p[1])]
           Probed(at) ==
             LET half == LowBit[at.probe] \div 2
                 below == at.probe \in DOMAIN tree /\ tree[at.probe] < at.remainder
             IN  [probe |-> IF half = 0 THEN 0 ELSE IF below THEN at.probe + half ELSE at.probe - half,
                  slots |-> IF below THEN at.probe ELSE at.slots,
                  remainder |-> IF below THEN at.remainder - tree[at.probe] ELSE at.remainder]
           Body(f) == [n \in 0..N |-> IF n = 0 THEN start ELSE Probed(f[n - 1])]
           loop[n \in 0..N] == IF n = 0 THEN start ELSE Probed(loop[n - 1])
<1>1. N \in Nat /\ start \in V
  <2>1. Len(tree) = 0 \/ HighBit[Len(tree)] \in 1..Len(tree)
    BY HighBitRange
  <2>2. N \in Nat
    BY <2>1, HighBitIs
  <2> HIDE DEF N
  <2> QED BY <2>2 DEF Place
<1>2. PICK g : Unrolls(g, V, N, start, step)
  <2>1. \A p \in V \X (1..N) : Turned(tree, p[1]) \in V
    <3> TAKE p \in V \X (1..N)
    <3>1. p[1] \in V
      OBVIOUS
    <3> QED BY <3>1, TurnedType
  <2>2. IsStep(step, V, N)
    <3> HIDE DEF N, V
    <3> QED BY <2>1 DEF IsStep
  <2> HIDE DEF step, N, V, start
  <2> QED BY <1>1, <2>2, Recursion
<1>3. \A n \in 1..N : g[n] = Turned(tree, g[n - 1])
  <2> TAKE n \in 1..N
  <2>1. g[n - 1] \in V /\ g[n] = step[<<g[n - 1], n>>]
    <3> HIDE DEF N, step, V
    <3> QED BY <1>1, <1>2 DEF Unrolls
  <2> HIDE DEF N, V
  <2> QED BY <2>1
<1>4. \A at : Probed(at) = Turned(tree, at)
  BY DEF Turned
<1>5. g = Body(g)
  <2> HIDE DEF N, step, V, start, Probed
  <2>1. g = [n \in 0..N |-> g[n]] /\ g[0] = start
    BY <1>2 DEF Unrolls
  <2>2. \A n \in 0..N : g[n] = IF n = 0 THEN start ELSE Probed(g[n - 1])
    <3> TAKE n \in 0..N
    <3>1. CASE n = 0
      BY <3>1, <2>1
    <3>2. CASE n # 0
      <4>1. n \in 1..N
        BY <3>2, <1>1
      <4> QED BY <3>2, <4>1, <1>3, <1>4
    <3> QED BY <3>1, <3>2
  <2> QED BY <2>1, <2>2
<1>6. loop = Body(loop)
  <2> HIDE DEF N, start, Probed
  <2> QED BY <1>5 DEF loop
<1>7. IndexOf(tree, target) = loop[N]
  BY DEF IndexOf, loop
<1> HIDE DEF loop, N, start, Probed
<1>8. loop[0] = start
  BY <1>6, <1>1
<1>9. \A n \in 1..N : loop[n] = Turned(tree, loop[n - 1])
  BY <1>6, <1>1, <1>4
<1>10. IsSearch(loop, tree, target)
  BY <1>7, <1>8, <1>9 DEF IsSearch, N, start
<1> QED BY <1>10

\* The sum is in a slot after the first `slots`, and by the end of the probe's stretch
\* and the next as long, if there are so many.
Searching(at, values, target, n, first) ==
    /\ at \in Place /\ at.slots \in 0..Len(values)
    /\ Sums(values)[at.slots] + at.remainder = target /\ 1 <= at.remainder
    /\ at.probe # 0 =>
           /\ at.slots = at.probe - LowBit[at.probe]
           /\ at.probe + LowBit[at.probe] <= Len(values) =>
                  Sums(values)[at.probe + LowBit[at.probe]] >= target
           /\ LowBit[at.probe] <= first - n
    /\ at.probe = 0 => at.slots < Len(values) /\ at.remainder <= values[at.slots + 1]

LEMMA SearchStep ==
  ASSUME NEW tree, NEW values, IsTree(tree, values), NEW target \in Int, target <= Sums(values)[Len(values)],
         NEW at, NEW n \in Nat, NEW first \in Nat, Searching(at, values, target, n, first)
  PROVE  Searching(Turned(tree, at), values, target, n + 1, first)
<1> DEFINE N == Len(values)
           T == Sums(values)
           p == at.probe
           s == at.slots
           r == at.remainder
           b == LowBit[p]
           half == b \div 2
           below == p \in DOMAIN tree /\ tree[p] < r
           to == Turned(tree, at)
<1>1. /\ N \in Nat /\ DOMAIN tree = 1..N /\ tree \in Seq(Int)
      /\ \A j \in 0..N : T[j] \in Int
      /\ values \in Seq(Int)
  BY TreeFacts DEF IsTree
<1>2. \A j \in 1..N : tree[j] = T[j] - T[j - LowBit[j]] /\ T[j] = T[j - 1] + values[j] /\ values[j] \in Int
  BY <1>1, SumsIs, ElementOfSeq DEF IsTree
<1>3. /\ at \in Place /\ p \in Nat /\ s \in 0..N /\ r \in Int /\ s \in Nat
      /\ T[s] + r = target /\ 1 <= r
      /\ p # 0 => s = p - b /\ (p + b <= N => T[p + b] >= target) /\ b <= first - n
      /\ p = 0 => s < N /\ r <= values[s + 1]
  BY DEF Searching, Place
<1>4. to \in Place
  BY <1>1, <1>3, TurnedType
<1>5. /\ to.probe = IF half = 0 THEN 0 ELSE IF below THEN p + half ELSE p - half
      /\ to.slots = IF below THEN p ELSE s
      /\ to.remainder = IF below THEN r - tree[p] ELSE r
  BY DEF Turned
<1>6. target <= T[N]
  OBVIOUS
<1>7. p # 0 => b \in 1..p
  BY <1>3, LowBitType
<1> HIDE DEF N, T, to, p, s, r
<1>8. ASSUME /\ to.slots \in 0..N /\ T[to.slots] + to.remainder = target /\ 1 <= to.remainder
             /\ to.probe # 0 => /\ to.slots = to.probe - LowBit[to.probe]
                                /\ to.probe + LowBit[to.probe] <= N => T[to.probe + LowBit[to.probe]] >= target
                                /\ LowBit[to.probe] <= first - (n + 1)
             /\ to.probe = 0 => to.slots < N /\ to.remainder <= values[to.slots + 1]
      PROVE  Searching(to, values, target, n + 1, first)
  BY <1>4, <1>8 DEF Searching, N, T
<1>9. CASE p = 0
  <2>1. half = 0 /\ ~ below
    BY <1>9, <1>1, LowBitIs
  <2> HIDE DEF half, below
  <2>2. to.probe = 0 /\ to.slots = s /\ to.remainder = r
    BY <2>1, <1>5
  <2>3. Searching(to, values, target, n + 1, first)
    BY <2>2, <1>3, <1>8, <1>9
  <2> QED BY <2>3 DEF to
<1>10. CASE p # 0 /\ below
  <2>0. p \in 1..N /\ tree[p] < r
    BY <1>1, <1>10
  <2>1. b \in 1..p /\ p - b = s /\ s \in 0..N
    BY <1>3, <1>7, <1>10
  <2>2. tree[p] = T[p] - T[s] /\ T[p] \in Int /\ T[s] \in Int
    <3>1. tree[p] = T[p] - T[p - LowBit[p]]
      BY <2>0, <1>2
    <3>2. p \in 0..N
      BY <2>0, <1>1
    <3> QED BY <3>1, <3>2, <2>1, <1>1
  <2>3. to.slots = p /\ to.remainder = r - tree[p]
    BY <1>10, <1>5
  <2>4. T[p] + (r - tree[p]) = target /\ 1 <= r - tree[p]
    BY <2>0, <2>2, <1>3
  <2>5. to.slots \in 0..N /\ T[to.slots] + to.remainder = target /\ 1 <= to.remainder
    BY <2>0, <2>3, <2>4, <1>1
  <2>6. CASE b = 1
    <3>1. to.probe = 0
      BY <2>6, <1>5
    <3>2. p # N
      <4> SUFFICES ASSUME p = N PROVE FALSE
        OBVIOUS
      <4>1. T[p] \in Int /\ target <= T[p] /\ r - tree[p] \in Int
        BY <2>2, <1>6, <1>3
      <4> QED BY <4>1, <2>4
    <3>3. p + 1 \in 1..N
      BY <3>2, <2>0, <1>1
    <3>4. T[p + 1] >= target
      <4>1. p + b = p + 1 /\ p + 1 <= N
        BY <2>6, <3>3
      <4> QED BY <4>1, <1>3, <1>10
    <3>5. T[p + 1] = T[p] + values[p + 1] /\ values[p + 1] \in Int
      <4>1. (p + 1) - 1 = p
        BY <1>3
      <4> QED BY <4>1, <3>3, <1>2
    <3>6. r - tree[p] <= values[p + 1]
      <4>1. r - tree[p] \in Int
        BY <2>2, <1>3
      <4> QED BY <4>1, <3>4, <3>5, <2>2, <2>4
    <3>7. to.slots < N /\ to.remainder <= values[to.slots + 1]
      <4>1. p < N
        BY <3>3, <1>3, <1>1
      <4> QED BY <4>1, <3>6, <2>3
    <3>8. Searching(to, values, target, n + 1, first)
      BY <3>1, <3>7, <2>5, <1>8
    <3> QED BY <3>8 DEF to
  <2>7. CASE b # 1
    <3>1. PICK h \in Nat \ {0} : b = 2 * h /\ half = h /\ LowBit[p + h] = h /\ LowBit[p - h] = h
      BY <2>7, <1>3, <1>10, LowBitHalf
    <3>2. p + b <= N => T[p + b] >= target
      BY <1>3, <1>10
    <3>3. b <= first - n
      BY <1>3, <1>10
    <3>4. to.probe = p + h
      BY <3>1, <1>5, <1>10
    <3> HIDE DEF half, b, below
    <3>5. to.probe # 0 /\ LowBit[to.probe] = h
      BY <3>1, <3>4, <1>3
    <3>6. to.slots = to.probe - h /\ to.probe + h = p + b /\ h <= first - (n + 1)
      BY <3>1, <3>4, <3>3, <2>3, <1>3
    <3>7. Searching(to, values, target, n + 1, first)
      BY <3>2, <3>5, <3>6, <2>5, <1>8
    <3> QED BY <3>7 DEF to
  <2> QED BY <2>6, <2>7
<1>11. CASE p # 0 /\ ~ below
  <2>1. b \in 1..p /\ p - b = s /\ s \in 0..N /\ T[s] \in Int
    BY <1>1, <1>3, <1>7, <1>11
  <2>2. to.slots = s /\ to.remainder = r
    BY <1>11, <1>5
  <2>3. to.slots \in 0..N /\ T[to.slots] + to.remainder = target /\ 1 <= to.remainder
    BY <2>2, <1>3
  <2>4. ASSUME p <= N PROVE p \in 1..N /\ T[p] \in Int /\ T[p] >= target
    <3>1. p \in 1..N /\ p \in 0..N
      BY <2>4, <1>11, <1>3, <1>1
    <3>2. tree[p] = T[p] - T[s] /\ T[p] \in Int
      <4>1. tree[p] = T[p] - T[p - LowBit[p]]
        BY <3>1, <1>2
      <4> QED BY <4>1, <3>1, <2>1, <1>1
    <3>3. ~ (tree[p] < r)
      BY <3>1, <1>11, <1>1
    <3> HIDE DEF b, half, below
    <3> QED BY <3>1, <3>2, <3>3, <2>1, <1>3
  <2>5. CASE b = 1
    <3>1. to.probe = 0
      BY <2>5, <1>5
    <3>2. s = p - 1
      BY <2>1, <2>5, <1>3
    <3>3. p <= N
      <4> SUFFICES ASSUME ~ (p <= N) PROVE FALSE
        OBVIOUS
      <4>1. s = N
        BY <2>1, <3>2, <1>3, <1>1
      <4>2. T[N] \in Int /\ target <= T[N] /\ T[N] + r = target
        BY <4>1, <1>6, <1>3, <2>1
      <4> QED BY <4>2, <1>3
    <3>4. T[p] = T[s] + values[p] /\ values[p] \in Int /\ T[p] >= target
      BY <3>2, <3>3, <2>4, <1>2
    <3>5. r <= values[p]
      BY <3>4, <2>1, <1>3
    <3>6. s + 1 = p /\ s < N
      BY <3>2, <3>3, <1>3, <1>1
    <3>7. to.slots < N /\ to.remainder <= values[to.slots + 1]
      BY <3>5, <3>6, <2>2
    <3>8. Searching(to, values, target, n + 1, first)
      BY <3>1, <3>7, <2>3, <1>8
    <3> QED BY <3>8 DEF to
  <2>6. CASE b # 1
    <3>1. PICK h \in Nat \ {0} : b = 2 * h /\ half = h /\ LowBit[p + h] = h /\ LowBit[p - h] = h
      BY <2>6, <1>3, <1>11, LowBitHalf
    <3>2. b <= first - n
      BY <1>3, <1>11
    <3>3. to.probe = p - h
      BY <3>1, <1>5, <1>11
    <3> HIDE DEF half, b, below
    <3>4. to.probe # 0 /\ LowBit[to.probe] = h
      BY <3>1, <3>3, <2>1, <1>3
    <3>5. to.slots = to.probe - h /\ to.probe + h = p /\ h <= first - (n + 1)
      BY <3>1, <3>2, <3>3, <2>1, <2>2, <1>3
    <3>6. Searching(to, values, target, n + 1, first)
      BY <3>4, <3>5, <2>3, <2>4, <1>8
    <3> QED BY <3>6 DEF to
  <2> QED BY <2>5, <2>6
<1> QED BY <1>9, <1>10, <1>11

LEMMA IndexOfIs ==
  ASSUME NEW tree, NEW values, IsTree(tree, values), NEW target \in 1..Sums(values)[Len(values)]
  PROVE  /\ IndexOf(tree, target).slots \in 0..(Len(values) - 1)
         /\ IndexOf(tree, target).remainder \in 1..values[IndexOf(tree, target).slots + 1]
         /\ Sums(values)[IndexOf(tree, target).slots] + IndexOf(tree, target).remainder = target
<1> DEFINE N == Len(values)
           T == Sums(values)
           first == 2 * HighBit[N]
<1>1. N \in Nat /\ Len(tree) = N /\ tree \in Seq(Int) /\ T[N] \in Int /\ target \in Int /\ 1 <= target
      /\ target <= T[N] /\ T[0] = 0 /\ values \in Seq(Int)
  <2>1. N \in Nat /\ Len(tree) = N /\ tree \in Seq(Int) /\ T[N] \in Int
    BY TreeFacts
  <2> QED BY <2>1, SumsIs DEF IsTree
<1>2. PICK f : IsSearch(f, tree, target)
  BY <1>1, SearchUnrolls
<1>3. N # 0
  BY <1>1
<1>4. HighBit[N] \in 1..N /\ N < first /\ LowBit[HighBit[N]] = HighBit[N]
  BY <1>1, <1>3, HighBitRange
<1>5. LowBit[first] = first /\ first \in Nat \ {0}
  <2>1. LowBit[first] = 2 * LowBit[HighBit[N]]
    <3>1. HighBit[N] \in Nat /\ first \in Nat
      BY <1>4
    <3> QED BY <3>1, LowBitOf
  <2> QED BY <2>1, <1>4
<1>6. /\ IndexOf(tree, target) = f[first]
      /\ f[0] = [probe |-> first, slots |-> 0, remainder |-> target]
      /\ \A n \in 1..first : f[n] = Turned(tree, f[n - 1])
  BY <1>1, <1>2 DEF IsSearch
<1> HIDE DEF first, N, T
<1> DEFINE S == {n \in 0..first : Searching(f[n], values, target, n, first)}
<1>7. 0 \in S
  <2>1. f[0] \in Place /\ f[0].probe = first /\ f[0].slots = 0 /\ f[0].remainder = target
    BY <1>1, <1>5, <1>6 DEF Place
  <2>2. 0 \in 0..N /\ ~ (first + first <= N) /\ first - first = 0 /\ first <= first - 0
    BY <1>1, <1>4, <1>5
  <2>3. Searching(f[0], values, target, 0, first)
    BY <2>1, <2>2, <1>1, <1>5 DEF Searching, N, T
  <2> QED BY <2>3, <1>5
<1>8. ASSUME NEW n \in 0..(first - 1), n \in S PROVE n + 1 \in S
  <2>1. n + 1 \in 1..first /\ n + 1 \in 0..first /\ (n + 1) - 1 = n /\ n \in Nat
    BY <1>5
  <2>2. f[n + 1] = Turned(tree, f[n])
    BY <2>1, <1>6
  <2>3. Searching(f[n], values, target, n, first) /\ target <= Sums(values)[Len(values)] /\ first \in Nat
    BY <1>8, <1>1, <1>5 DEF N, T
  <2>4. Searching(Turned(tree, f[n]), values, target, n + 1, first)
    BY <2>1, <2>3, <1>1, SearchStep
  <2> QED BY <2>1, <2>2, <2>4
<1>9. Searching(f[first], values, target, first, first)
  <2> HIDE DEF S
  <2>1. 0..first \subseteq S
    BY <1>5, <1>7, <1>8, UpToInduction
  <2> QED BY <2>1, <1>5 DEF S
<1> DEFINE place == IndexOf(tree, target)
<1>10. place.probe = 0
  <2> SUFFICES ASSUME place.probe # 0 PROVE FALSE
    OBVIOUS
  <2>1. LowBit[place.probe] <= first - first /\ place.probe \in Nat \ {0}
    BY <1>6, <1>9 DEF Searching, Place
  <2>2. LowBit[place.probe] \in 1..place.probe
    BY <2>1, LowBitType
  <2> QED BY <2>1, <2>2, <1>5
<1>11. /\ place.slots \in 0..N /\ place.slots < N
       /\ Sums(values)[place.slots] + place.remainder = target
       /\ place.remainder \in Int /\ 1 <= place.remainder /\ place.remainder <= values[place.slots + 1]
  BY <1>6, <1>9, <1>10 DEF Searching, Place, N
<1> HIDE DEF place
<1>12. values[place.slots + 1] \in Int
  <2>1. place.slots + 1 \in 1..Len(values)
    BY <1>11, <1>1 DEF N
  <2> QED BY <2>1, <1>1, ElementOfSeq
<1> QED BY <1>1, <1>11, <1>12 DEF place, N

\* A tree has the sums of its values, and of any row finds the value that has it and
\* which of its rows it is (ftree/src/lib.rs: prefix_sum, index_of_with_remainder).
THEOREM TreeSumsAndFinds ==
  ASSUME NEW tree, NEW values, IsTree(tree, values)
  PROVE  /\ \A n \in 0..Len(values) : PrefixSum(tree, n) = Sums(values)[n]
         /\ \A target \in 1..Sums(values)[Len(values)] :
                /\ IndexOf(tree, target).slots \in 0..(Len(values) - 1)
                /\ IndexOf(tree, target).remainder \in 1..values[IndexOf(tree, target).slots + 1]
                /\ Sums(values)[IndexOf(tree, target).slots] + IndexOf(tree, target).remainder = target
<1>1. \A n \in 0..Len(values) : PrefixSum(tree, n) = Sums(values)[n]
  BY PrefixSumIs
<1>2. ASSUME NEW target \in 1..Sums(values)[Len(values)]
      PROVE  /\ IndexOf(tree, target).slots \in 0..(Len(values) - 1)
             /\ IndexOf(tree, target).remainder \in 1..values[IndexOf(tree, target).slots + 1]
             /\ Sums(values)[IndexOf(tree, target).slots] + IndexOf(tree, target).remainder = target
  BY IndexOfIs
<1> QED BY <1>1, <1>2

\* What is built, pushed to and built at is a tree of the values that there are then
\* (ftree/src/lib.rs: from_iter, push, add_at, sub_at).
THEOREM TreesStayTrees ==
  /\ \A values \in Seq(Int) : IsTree(FromIter(values), values)
  /\ \A tree, values : \A v \in Int : IsTree(tree, values) => IsTree(Push(tree, v), Append(values, v))
  /\ \A tree, values, new, j, diff :
         IsTree(tree, values) /\ Differ(values, new, j, diff) => IsTree(AddAt(tree, j, diff), new)
BY FromIterIs, PushIs, AddAtIs

-----------------------------------------------------------------------------
(* Lists of lines: what is right of them.                                    *)

LEMMA MaxWithOne ==
  ASSUME NEW n \in Nat
  PROVE  Max({1, n}) \in Nat
<1>1. \E x \in {1, n} : \A y \in {1, n} : x >= y
  <2>1. CASE n >= 1
    BY <2>1
  <2>2. CASE ~ (n >= 1)
    BY <2>2
  <2> QED BY <2>1, <2>2
<1>2. Max({1, n}) \in {1, n}
  BY <1>1 DEF Max
<1> QED BY <1>2

\* Texts that can be counted.
Countable(Ts) ==
    \A text \in Ts : Len(text.lines) \in Nat /\ \A width \in Widths : text.rows[width] \in Nat

Asked == Queries \cup {""}

Highlights(Ts) == {<<>>} \cup {Found(text, query) : text \in Ts, query \in Asked}

ItemsOf(Ts) ==
    [text : Ts, backup : Nat, total : Nat, highlight : Highlights(Ts), skip : BOOLEAN,
     wrapped : [width : Widths \cup {"none"}, rows : Nat, highlight : Highlights(Ts)]]

IsShown(text, query) == query = "" \/ Found(text, query) # <<>>

ItemRight(item, query) ==
    /\ item.skip => item.total = 0
    /\ item.skip <=> ~ IsShown(item.text, query)
    /\ item.wrapped # NotWrapped =>
           /\ item.wrapped.highlight = item.highlight
           /\ item.wrapped.rows = Rows(item.text, item.wrapped.width)

LEMMA ItemFields ==
  ASSUME NEW Ts, NEW item \in ItemsOf(Ts)
  PROVE  /\ item.text \in Ts /\ item.backup \in Nat /\ item.total \in Nat
         /\ item.highlight \in Highlights(Ts) /\ item.skip \in BOOLEAN
         /\ item.wrapped \in [width : Widths \cup {"none"}, rows : Nat, highlight : Highlights(Ts)]
         /\ item.wrapped.rows \in Nat
BY DEF ItemsOf

LEMMA WrapIs ==
  ASSUME NEW Ts, Countable(Ts), NEW item \in ItemsOf(Ts), NEW width \in Widths, NEW query,
         ItemRight(item, query)
  PROVE  /\ Wrap(item, width) \in ItemsOf(Ts) /\ ItemRight(Wrap(item, width), query)
         /\ Wrap(item, width).text = item.text /\ Wrap(item, width).total = item.total
         /\ Wrap(item, width).skip = item.skip
<1> DEFINE z == [width |-> width, rows |-> Rows(item.text, width), highlight |-> item.highlight]
           new == [item EXCEPT !.wrapped = z]
<1>1. z \in [width : Widths \cup {"none"}, rows : Nat, highlight : Highlights(Ts)]
  BY ItemFields DEF Countable, Rows
<1>2. /\ z.highlight = item.highlight /\ z.rows = Rows(item.text, z.width)
  OBVIOUS
<1>3. Wrap(item, width) = item \/ Wrap(item, width) = new
  BY DEF Wrap
<1> HIDE DEF z
<1>4. /\ new \in ItemsOf(Ts) /\ new.text = item.text /\ new.total = item.total /\ new.skip = item.skip
      /\ new.highlight = item.highlight /\ new.wrapped = z
  BY <1>1 DEF ItemsOf
<1> HIDE DEF new
<1>5. ItemRight(new, query)
  BY <1>2, <1>4 DEF ItemRight
<1> QED BY <1>3, <1>4, <1>5

-----------------------------------------------------------------------------

Totals(items) == [i \in DOMAIN items |-> items[i].total]

ListType(Ts, Ls) ==
    [items : Seq(ItemsOf(Ts)), last : Ls, sizes : Seq(Int), total : Int, query : Asked]

ListRight(list, Ts) ==
    /\ list \in ListType(Ts, {list.last})
    /\ \A i \in 1..Len(list.items) : ItemRight(list.items[i], list.query)
    /\ IsTree(list.sizes, Totals(list.items))
    /\ list.total = Sums(Totals(list.items))[Len(list.items)]

LEMMA TotalsType ==
  ASSUME NEW Ts, NEW items \in Seq(ItemsOf(Ts))
  PROVE  /\ Totals(items) \in Seq(Int) /\ Len(Totals(items)) = Len(items)
         /\ Len(items) \in Nat /\ DOMAIN items = 1..Len(items)
         /\ \A i \in 1..Len(items) : /\ items[i] \in ItemsOf(Ts) /\ Totals(items)[i] = items[i].total
                                     /\ Totals(items)[i] \in Nat
<1> DEFINE N == Len(items)
           V == ItemsOf(Ts)
<1>1. N \in Nat /\ DOMAIN items = 1..N /\ \A i \in 1..N : items[i] \in V
  <2>1. items \in Seq(V)
    OBVIOUS
  <2> HIDE DEF V
  <2>2. Len(items) \in Nat /\ DOMAIN items = 1..Len(items) /\ \A i \in 1..Len(items) : items[i] \in V
    BY <2>1, ElementOfSeq
  <2> QED BY <2>2
<1> HIDE DEF N
<1>2. \A i \in 1..N : items[i].total \in Nat
  BY <1>1, ItemFields
<1>3. Totals(items) \in [1..N -> Int] /\ \A i \in 1..N : Totals(items)[i] = items[i].total
  BY <1>1, <1>2 DEF Totals
<1>4. Totals(items) \in Seq(Int) /\ Len(Totals(items)) = N
  BY <1>1, <1>3
<1> QED BY <1>1, <1>2, <1>3, <1>4 DEF N

LEMMA ListFields ==
  ASSUME NEW Ts, NEW Ls, NEW list \in ListType(Ts, Ls)
  PROVE  /\ list.items \in Seq(ItemsOf(Ts)) /\ list.last \in Ls /\ list.sizes \in Seq(Int)
         /\ list.total \in Int /\ list.query \in Asked
BY DEF ListType

\* The same texts are shown, whatever was counted again.
Repainted(list, l) ==
    /\ l.query = list.query /\ Len(l.items) = Len(list.items)
    /\ \A i \in 1..Len(list.items) : /\ l.items[i].text = list.items[i].text
                                     /\ l.items[i].skip = list.items[i].skip

LEMMA RecountIs ==
  ASSUME NEW Ts, Countable(Ts), NEW list, ListRight(list, Ts), NEW i \in 1..Len(list.items),
         NEW width \in Widths
  PROVE  /\ ListRight(Recount(list, i, width), Ts) /\ Repainted(list, Recount(list, i, width))
         /\ Recount(list, i, width).last = list.last
<1> DEFINE old == list.items[i]
           item == Wrap(old, width)
           rows == Max({1, item.wrapped.rows})
           N == Len(list.items)
           fresh == [item EXCEPT !.total = rows]
           items == [list.items EXCEPT ![i] = fresh]
           sizes == AddAt(list.sizes, i, rows - item.total)
           total == list.total + rows - item.total
           new == [list EXCEPT !.items = items, !.sizes = sizes, !.total = total]
<1>1. /\ list \in ListType(Ts, {list.last}) /\ list.items \in Seq(ItemsOf(Ts)) /\ list.total \in Int
      /\ \A k \in 1..N : list.items[k] \in ItemsOf(Ts) /\ ItemRight(list.items[k], list.query)
      /\ IsTree(list.sizes, Totals(list.items))
      /\ list.total = Sums(Totals(list.items))[N]
      /\ N \in Nat /\ DOMAIN list.items = 1..N
  BY ListFields, TotalsType DEF ListRight
<1>2. /\ old \in ItemsOf(Ts) /\ ItemRight(old, list.query)
      /\ item \in ItemsOf(Ts) /\ ItemRight(item, list.query)
      /\ item.text = old.text /\ item.total = old.total /\ item.skip = old.skip
  <2>1. old \in ItemsOf(Ts) /\ ItemRight(old, list.query)
    BY <1>1
  <2> HIDE DEF old
  <2> QED BY <2>1, WrapIs
<1>3. item.total \in Nat /\ rows \in Nat /\ rows - item.total \in Int
  <2>1. item.total \in Nat /\ item.wrapped.rows \in Nat
    BY <1>2, ItemFields
  <2> HIDE DEF item
  <2> QED BY <2>1, MaxWithOne
<1>4. CASE item.skip
  <2>1. Recount(list, i, width) = list
    BY <1>4 DEF Recount
  <2>2. Repainted(list, list)
    BY DEF Repainted
  <2> QED BY <2>1, <2>2
<1>5. CASE ~ item.skip
  <2>1. Recount(list, i, width) = new
    BY <1>5 DEF Recount
  <2> HIDE DEF N, rows, item, old
  <2>2. /\ fresh \in ItemsOf(Ts) /\ fresh.text = old.text /\ fresh.skip = old.skip /\ fresh.total = rows
        /\ fresh.wrapped = item.wrapped /\ fresh.highlight = item.highlight
    BY <1>2, <1>3 DEF ItemsOf
  <2>3. ItemRight(fresh, list.query)
    <3>1. ~ old.skip
      BY <1>2, <1>5
    <3> HIDE DEF fresh
    <3> QED BY <3>1, <2>2, <1>2 DEF ItemRight
  <2> HIDE DEF fresh
  <2>4. i \in 1..N
    BY DEF N
  <2>5. /\ items \in Seq(ItemsOf(Ts)) /\ Len(items) = N /\ items[i] = fresh
        /\ \A k \in 1..N : k # i => items[k] = list.items[k]
    <3> DEFINE V == ItemsOf(Ts)
    <3>1. fresh \in V /\ list.items \in Seq(V) /\ N = Len(list.items)
      BY <2>2, <1>1 DEF N
    <3> HIDE DEF V
    <3>2. items \in Seq(V) /\ Len(items) = N /\ items[i] = fresh
          /\ \A k \in 1..N : k # i => items[k] = list.items[k]
      BY <3>1, <2>4, <1>1, ExceptSeq
    <3> QED BY <3>2 DEF V
  <2> HIDE DEF items
  <2>6. Differ(Totals(list.items), Totals(items), i, rows - item.total)
    <3>1. /\ Totals(list.items) \in Seq(Int) /\ Totals(items) \in Seq(Int)
          /\ Len(Totals(list.items)) = N /\ Len(Totals(items)) = N
          /\ \A k \in 1..N : Totals(list.items)[k] = list.items[k].total /\ Totals(items)[k] = items[k].total
      BY <1>1, <2>5, TotalsType DEF N
    <3>2. Totals(list.items)[i] = item.total /\ Totals(items)[i] = rows
      BY <3>1, <2>2, <2>4, <2>5, <1>2 DEF old
    <3>3. Totals(items)[i] = Totals(list.items)[i] + (rows - item.total)
      BY <3>2, <1>3
    <3> QED BY <3>1, <3>3, <2>4, <2>5, <1>3 DEF Differ
  <2>7. IsTree(sizes, Totals(items))
    BY <2>6, <1>1, AddAtIs
  <2>8. total = Sums(Totals(items))[N]
    <3>1. /\ Totals(list.items) \in Seq(Int) /\ Len(Totals(list.items)) = N
      BY <1>1, TotalsType DEF N
    <3>2. N \in 0..N /\ i <= N
      BY <1>1, <2>4
    <3>3. Sums(Totals(items))[N] = Sums(Totals(list.items))[N] + (rows - item.total)
      BY <3>1, <3>2, <2>6, SumsDiffer
    <3> QED BY <3>3, <1>1, <1>3
  <2>9. sizes \in Seq(Int) /\ total \in Int
    BY <2>7, <1>1, <1>3, TreeFacts
  <2> HIDE DEF sizes, total
  <2>10. /\ new \in ListType(Ts, {list.last}) /\ new.items = items /\ new.sizes = sizes /\ new.total = total
         /\ new.query = list.query /\ new.last = list.last
    BY <1>1, <2>5, <2>9 DEF ListType
  <2> HIDE DEF new
  <2>11. \A k \in 1..N : ItemRight(items[k], list.query)
    BY <2>3, <2>5, <1>1
  <2>12. ListRight(new, Ts)
    BY <2>5, <2>7, <2>8, <2>10, <2>11 DEF ListRight
  <2>13. Repainted(list, new)
    <3>1. \A k \in 1..N : items[k].text = list.items[k].text /\ items[k].skip = list.items[k].skip
      <4> TAKE k \in 1..N
      <4>1. CASE k = i
        BY <4>1, <2>2, <2>5 DEF old
      <4>2. CASE k # i
        BY <4>2, <2>5
      <4> QED BY <4>1, <4>2
    <3> QED BY <3>1, <2>5, <2>10 DEF Repainted, N
  <2> QED BY <2>1, <2>10, <2>12, <2>13
<1> QED BY <1>4, <1>5

-----------------------------------------------------------------------------
(* Lists of lines: what is counted again, and what is added.                 *)

\* What counting some texts again makes of a list.
Recounts(list, l, Ts) == ListRight(l, Ts) /\ Repainted(list, l) /\ l.last = list.last

LEMMA RepaintedTwice ==
  ASSUME NEW a, NEW b, NEW c, Repainted(a, b), Repainted(b, c)
  PROVE  Repainted(a, c)
BY DEF Repainted

LEMMA RecountAllIs ==
  ASSUME NEW Ts, Countable(Ts), NEW list, ListRight(list, Ts), NEW positions, NEW width \in Widths
  PROVE  Recounts(list, RecountAll(list, positions, width), Ts)
<1> DEFINE N == Len(list.items)
           V == {l \in ListType(Ts, {list.last}) : Recounts(list, l, Ts)}
           Counted(l, n) == IF n \in positions THEN Recount(l, n, width) ELSE l
           step == [p \in V \X (1..N) |-> Counted(p[1], p[2])]
           Body(f) == [n \in 0..N |-> IF n = 0 THEN list
                                      ELSE IF n \in positions THEN Recount(f[n - 1], n, width)
                                      ELSE f[n - 1]]
           counted[n \in 0..N] ==
             IF n = 0 THEN list
             ELSE IF n \in positions THEN Recount(counted[n - 1], n, width)
             ELSE counted[n - 1]
<1>1. N \in Nat /\ list \in ListType(Ts, {list.last}) /\ list.items \in Seq(ItemsOf(Ts))
  BY ListFields, TotalsType DEF ListRight
<1>2. list \in V
  BY <1>1 DEF Repainted, Recounts
<1>3. ASSUME NEW l \in V, NEW n \in 1..N PROVE Counted(l, n) \in V
  <2>1. ListRight(l, Ts) /\ Repainted(list, l) /\ l.last = list.last /\ l \in V
    BY <1>3 DEF Recounts
  <2>2. n \in 1..Len(l.items)
    BY <2>1, <1>3 DEF Repainted
  <2>3. CASE n \in positions
    <3> DEFINE new == Recount(l, n, width)
    <3>1. ListRight(new, Ts) /\ Repainted(l, new) /\ new.last = l.last
      BY <2>1, <2>2, RecountIs
    <3> HIDE DEF new
    <3>2. new \in ListType(Ts, {list.last})
      BY <3>1, <2>1 DEF ListRight
    <3>3. Repainted(list, new)
      BY <3>1, <2>1, RepaintedTwice
    <3>4. new \in V
      BY <2>1, <3>1, <3>2, <3>3 DEF Recounts
    <3>5. Counted(l, n) = new
      BY <2>3 DEF new
    <3> QED BY <3>4, <3>5
  <2>4. CASE n \notin positions
    <3>1. Counted(l, n) = l
      BY <2>4
    <3> QED BY <3>1, <2>1
  <2> QED BY <2>3, <2>4
<1>4. PICK g : Unrolls(g, V, N, list, step)
  <2>1. IsStep(step, V, N)
    <3>1. \A p \in V \X (1..N) : Counted(p[1], p[2]) \in V
      <4> TAKE p \in V \X (1..N)
      <4>1. p[1] \in V /\ p[2] \in 1..N
        <5> HIDE DEF V, N
        <5> QED OBVIOUS
      <4> HIDE DEF V, N, Counted
      <4> QED BY <4>1, <1>3
    <3> HIDE DEF V, N, Counted
    <3> QED BY <3>1 DEF IsStep
  <2> HIDE DEF step, N, V
  <2> QED BY <1>1, <1>2, <2>1, Recursion
<1>5. \A n \in 1..N : g[n] = Counted(g[n - 1], n)
  <2> TAKE n \in 1..N
  <2>1. g[n - 1] \in V /\ g[n] = step[<<g[n - 1], n>>]
    <3> HIDE DEF N, step, V, Counted
    <3> QED BY <1>1, <1>4 DEF Unrolls
  <2> HIDE DEF N, V, Counted
  <2> QED BY <2>1
<1>6. g = Body(g)
  <2> HIDE DEF N, step, V
  <2>1. g = [n \in 0..N |-> g[n]] /\ g[0] = list
    BY <1>4 DEF Unrolls
  <2>2. \A n \in 0..N : g[n] = IF n = 0 THEN list
                                ELSE IF n \in positions THEN Recount(g[n - 1], n, width)
                                ELSE g[n - 1]
    <3> TAKE n \in 0..N
    <3>1. CASE n = 0
      BY <3>1, <2>1
    <3>2. CASE n # 0
      <4>1. n \in 1..N
        BY <3>2, <1>1
      <4> QED BY <3>2, <4>1, <1>5
    <3> QED BY <3>1, <3>2
  <2> QED BY <2>1, <2>2
<1>7. counted = Body(counted)
  <2> HIDE DEF N
  <2> QED BY <1>6 DEF counted
<1>8. RecountAll(list, positions, width) = counted[N]
  BY DEF RecountAll, counted
<1> HIDE DEF counted, N
<1> DEFINE S == {n \in 0..N : counted[n] \in V}
<1>9. 0 \in S
  BY <1>7, <1>1, <1>2
<1>10. ASSUME NEW n \in 0..(N - 1), n \in S PROVE n + 1 \in S
  <2>1. n + 1 \in 1..N /\ n + 1 \in 0..N /\ n + 1 # 0 /\ (n + 1) - 1 = n
    BY <1>1
  <2>2. counted[n + 1] = Counted(counted[n], n + 1)
    <3> HIDE DEF V
    <3>1. counted[n + 1] = Body(counted)[n + 1]
      BY <1>7
    <3> QED BY <3>1, <2>1
  <2>3. counted[n] \in V
    BY <1>10
  <2>4. Counted(counted[n], n + 1) \in V
    <3> HIDE DEF V, Counted
    <3> QED BY <2>1, <2>3, <1>3
  <2> HIDE DEF V, Counted
  <2> QED BY <2>1, <2>2, <2>4
<1>11. 0..N \subseteq S
  <2> HIDE DEF S
  <2> QED BY <1>1, <1>9, <1>10, UpToInduction
<1>12. counted[N] \in V
  <2> HIDE DEF V
  <2> QED BY <1>11, <1>1
<1> QED BY <1>8, <1>12

-----------------------------------------------------------------------------

LEMMA FoundIs ==
  ASSUME NEW Ts, Countable(Ts), NEW text \in Ts, NEW query \in Asked
  PROVE  Found(text, query) \in Highlights(Ts)
BY DEF Highlights

LEMMA ListTextIs ==
  ASSUME NEW Ts, Countable(Ts), NEW list, ListRight(list, Ts), NEW text \in Ts
  PROVE  /\ ListRight(ListText(list, text), Ts)
         /\ ListText(list, text).last = list.last /\ ListText(list, text).query = list.query
         /\ Len(ListText(list, text).items) = Len(list.items) + 1
         /\ ListText(list, text).items[Len(list.items) + 1].text = text
         /\ \A i \in 1..Len(list.items) : ListText(list, text).items[i] = list.items[i]
<1> DEFINE N == Len(list.items)
           found == Found(text, list.query)
           skip == list.query # "" /\ found = <<>>
           rows == IF skip THEN 0 ELSE Len(text.lines)
           item == Item(text, rows, found, skip)
           items == Append(list.items, item)
           sizes == Push(list.sizes, rows)
           total == list.total + rows
           new == [list EXCEPT !.items = items, !.sizes = sizes, !.total = total]
<1>1. /\ list \in ListType(Ts, {list.last}) /\ list.items \in Seq(ItemsOf(Ts)) /\ list.total \in Int
      /\ \A k \in 1..N : list.items[k] \in ItemsOf(Ts) /\ ItemRight(list.items[k], list.query)
      /\ IsTree(list.sizes, Totals(list.items))
      /\ list.total = Sums(Totals(list.items))[N]
      /\ N \in Nat /\ DOMAIN list.items = 1..N /\ list.query \in Asked
  BY ListFields, TotalsType DEF ListRight
<1>2. Len(text.lines) \in Nat /\ found \in Highlights(Ts)
  BY <1>1, FoundIs DEF Countable
<1>3. ListText(list, text) = new
  BY DEF ListText
<1>4. rows \in Nat
  BY <1>2
<1>5. skip \in BOOLEAN
  OBVIOUS
<1>6. skip <=> ~ IsShown(text, list.query)
  BY DEF IsShown
<1>7. skip => rows = 0
  OBVIOUS
<1> HIDE DEF N, found, skip, rows
<1>8. item.wrapped \in [width : Widths \cup {"none"}, rows : Nat, highlight : Highlights(Ts)]
  BY DEF Item, NotWrapped, Highlights
<1>9. /\ item.text = text /\ item.backup = Len(text.lines) /\ item.total = rows /\ item.highlight = found
      /\ item.skip = skip /\ item.wrapped = NotWrapped
  BY DEF Item
<1>10. item \in ItemsOf(Ts)
  BY <1>2, <1>4, <1>5, <1>8 DEF ItemsOf, Item
<1> HIDE DEF item
<1>11. ItemRight(item, list.query)
  BY <1>6, <1>7, <1>9 DEF ItemRight
<1>12. /\ items \in Seq(ItemsOf(Ts)) /\ Len(items) = N + 1 /\ items[N + 1] = item
       /\ \A k \in 1..N : items[k] = list.items[k]
  <2> DEFINE V == ItemsOf(Ts)
  <2>1. item \in V /\ list.items \in Seq(V)
    BY <1>1, <1>10
  <2> HIDE DEF V
  <2>2. items \in Seq(V) /\ Len(items) = N + 1 /\ items[N + 1] = item
        /\ \A k \in 1..N : items[k] = list.items[k]
    BY <2>1, <1>1 DEF N
  <2> QED BY <2>2 DEF V
<1> HIDE DEF items
<1>13. /\ Totals(list.items) \in Seq(Int) /\ Totals(items) \in Seq(Int)
       /\ Len(Totals(list.items)) = N /\ Len(Totals(items)) = N + 1
       /\ \A k \in 1..N : Totals(list.items)[k] = list.items[k].total
       /\ \A k \in 1..(N + 1) : Totals(items)[k] = items[k].total
  BY <1>1, <1>12, TotalsType DEF N
<1>14. Totals(items) = Append(Totals(list.items), rows)
  <2> DEFINE a == Totals(items)
             b == Append(Totals(list.items), rows)
  <2>1. b \in Seq(Int) /\ Len(b) = N + 1 /\ b[N + 1] = rows /\ \A k \in 1..N : b[k] = Totals(list.items)[k]
    BY <1>13, <1>4
  <2>2. \A k \in 1..(N + 1) : a[k] = b[k]
    <3> TAKE k \in 1..(N + 1)
    <3>1. CASE k = N + 1
      BY <3>1, <2>1, <1>9, <1>12, <1>13
    <3>2. CASE k # N + 1
      <4>1. k \in 1..N
        BY <3>2, <1>1
      <4> QED BY <4>1, <2>1, <1>12, <1>13
    <3> QED BY <3>1, <3>2
  <2>3. a \in Seq(Int) /\ Len(a) = N + 1
    BY <1>13
  <2> HIDE DEF a, b
  <2>4. a = b
    BY <2>1, <2>2, <2>3
  <2> QED BY <2>4 DEF a, b
<1>15. IsTree(sizes, Totals(items))
  BY <1>14, <1>1, <1>4, PushIs
<1>16. total = Sums(Totals(items))[N + 1]
  <2>1. N \in 0..N /\ N <= N /\ N <= N + 1 /\ N + 1 \in 1..(N + 1) /\ (N + 1) - 1 = N
    BY <1>1
  <2>2. \A k \in 1..N : Totals(items)[k] = Totals(list.items)[k]
    <3> TAKE k \in 1..N
    <3>1. k \in 1..(N + 1)
      BY <1>1
    <3>2. Totals(items)[k] = items[k].total /\ Totals(list.items)[k] = list.items[k].total
      BY <3>1, <1>13
    <3>3. items[k] = list.items[k]
      BY <1>12
    <3> QED BY <3>2, <3>3
  <2>3. Sums(Totals(items))[N] = Sums(Totals(list.items))[N]
    <3> DEFINE a == Totals(list.items)
               b == Totals(items)
    <3>1. a \in Seq(Int) /\ b \in Seq(Int) /\ N \in Nat /\ N <= Len(a) /\ N <= Len(b) /\ \A k \in 1..N : b[k] = a[k]
      BY <1>13, <1>1, <2>1, <2>2
    <3> HIDE DEF a, b
    <3>2. \A k \in 0..N : Sums(b)[k] = Sums(a)[k]
      BY <3>1, SumsAgree
    <3> QED BY <3>2, <2>1 DEF a, b
  <2>4. Sums(Totals(items))[N + 1] = Sums(Totals(items))[N] + Totals(items)[N + 1]
    <3> DEFINE b == Totals(items)
    <3>1. b \in Seq(Int) /\ Len(b) = N + 1
      BY <1>13
    <3> HIDE DEF b
    <3>2. Sums(b)[N + 1] = Sums(b)[(N + 1) - 1] + b[N + 1]
      BY <3>1, <2>1, SumsIs
    <3> QED BY <3>2, <2>1 DEF b
  <2>5. Totals(items)[N + 1] = rows
    BY <1>13, <1>12, <1>9, <2>1
  <2> QED BY <2>3, <2>4, <2>5, <1>1
<1>17. sizes \in Seq(Int) /\ total \in Int
  BY <1>15, <1>1, <1>4, TreeFacts
<1> HIDE DEF sizes, total
<1>18. /\ new \in ListType(Ts, {list.last}) /\ new.items = items /\ new.sizes = sizes /\ new.total = total
       /\ new.query = list.query /\ new.last = list.last
  BY <1>1, <1>12, <1>17 DEF ListType
<1> HIDE DEF new
<1>19. \A k \in 1..(N + 1) : ItemRight(items[k], list.query)
  <2> TAKE k \in 1..(N + 1)
  <2>1. CASE k = N + 1
    BY <2>1, <1>11, <1>12
  <2>2. CASE k # N + 1
    <3>1. k \in 1..N
      BY <2>2, <1>1
    <3> QED BY <3>1, <1>1, <1>12
  <2> QED BY <2>1, <2>2
<1>20. ListRight(new, Ts)
  BY <1>12, <1>15, <1>16, <1>18, <1>19 DEF ListRight
<1> QED BY <1>3, <1>9, <1>12, <1>18, <1>20 DEF N

-----------------------------------------------------------------------------
(* Lists of lines: painting and searching.                                   *)

\* The first n of the texts that wait are in the list.
Listed(list, l, n, Ts) ==
    /\ ListRight(l, Ts) /\ l.last = list.last /\ l.query = list.query
    /\ Len(l.items) = Len(list.items) + n
    /\ \A i \in 1..Len(list.items) : l.items[i] = list.items[i]
    /\ \A k \in 1..n : l.items[Len(list.items) + k].text = pending[k]

LEMMA ListedNext ==
  ASSUME NEW Ts, Countable(Ts), pending \in Seq(Ts), NEW list, ListRight(list, Ts), NEW l,
         NEW n \in 1..Len(pending), Listed(list, l, n - 1, Ts)
  PROVE  Listed(list, ListText(l, pending[n]), n, Ts)
<1> DEFINE N == Len(list.items)
           new == ListText(l, pending[n])
<1>1. /\ ListRight(l, Ts) /\ l.last = list.last /\ l.query = list.query /\ Len(l.items) = N + (n - 1)
      /\ \A i \in 1..N : l.items[i] = list.items[i]
      /\ \A k \in 1..(n - 1) : l.items[N + k].text = pending[k]
  BY DEF Listed
<1>2. pending[n] \in Ts /\ n \in Nat /\ n >= 1
  BY ElementOfSeq
<1>3. N \in Nat
  BY ListFields, TotalsType DEF ListRight
<1>4. /\ ListRight(new, Ts) /\ new.last = l.last /\ new.query = l.query /\ Len(new.items) = Len(l.items) + 1
      /\ new.items[Len(l.items) + 1].text = pending[n]
      /\ \A i \in 1..Len(l.items) : new.items[i] = l.items[i]
  <2> DEFINE text == pending[n]
  <2>1. text \in Ts
    BY <1>2
  <2> HIDE DEF text
  <2>2. ListRight(l, Ts)
    BY <1>1
  <2>3. ListRight(ListText(l, text), Ts)
    BY <2>1, <2>2, ListTextIs
  <2>4. /\ ListText(l, text).last = l.last /\ ListText(l, text).query = l.query
        /\ Len(ListText(l, text).items) = Len(l.items) + 1
    BY <2>1, <2>2, ListTextIs
  <2>5. ListText(l, text).items[Len(l.items) + 1].text = text
    BY <2>1, <2>2, ListTextIs
  <2>6. \A i \in 1..Len(l.items) : ListText(l, text).items[i] = l.items[i]
    BY <2>1, <2>2, ListTextIs
  <2> QED BY <2>3, <2>4, <2>5, <2>6 DEF text
<1> HIDE DEF N, new
<1>5. Len(l.items) + 1 = N + n /\ Len(new.items) = N + n
  BY <1>1, <1>2, <1>3, <1>4
<1>6. \A i \in 1..N : new.items[i] = list.items[i]
  <2> TAKE i \in 1..N
  <2>1. i \in 1..Len(l.items)
    BY <1>1, <1>2, <1>3
  <2> QED BY <2>1, <1>1, <1>4
<1>7. \A k \in 1..n : new.items[N + k].text = pending[k]
  <2> TAKE k \in 1..n
  <2>1. CASE k = n
    BY <2>1, <1>4, <1>5
  <2>2. CASE k # n
    <3>1. k \in 1..(n - 1) /\ N + k \in 1..Len(l.items)
      BY <2>2, <1>1, <1>2, <1>3
    <3> QED BY <3>1, <1>1, <1>4
  <2> QED BY <2>1, <2>2
<1> QED BY <1>1, <1>4, <1>5, <1>6, <1>7 DEF Listed, N, new

LEMMA ApplyPendingIs ==
  ASSUME NEW Ts, Countable(Ts), pending \in Seq(Ts), NEW list, ListRight(list, Ts)
  PROVE  Listed(list, ApplyPending(list), Len(pending), Ts)
<1> DEFINE N == Len(pending)
           V == {l \in ListType(Ts, {list.last}) : ListRight(l, Ts)}
           step == [p \in V \X (1..N) |-> ListText(p[1], pending[p[2]])]
           Body(f) == [n \in 0..N |-> IF n = 0 THEN list ELSE ListText(f[n - 1], pending[n])]
           listed[n \in 0..N] == IF n = 0 THEN list ELSE ListText(listed[n - 1], pending[n])
<1>1. N \in Nat /\ \A n \in 1..N : pending[n] \in Ts
  BY ElementOfSeq
<1>2. list \in V
  BY DEF ListRight
<1>3. ASSUME NEW l \in V, NEW n \in 1..N PROVE ListText(l, pending[n]) \in V
  <2>1. ListRight(l, Ts) /\ pending[n] \in Ts /\ l.last = list.last
    BY <1>1, <1>3, ListFields
  <2> DEFINE new == ListText(l, pending[n])
  <2>2. ListRight(new, Ts) /\ new.last = l.last
    BY <2>1, ListTextIs
  <2> HIDE DEF new
  <2>3. new \in ListType(Ts, {list.last})
    BY <2>1, <2>2 DEF ListRight
  <2> QED BY <2>2, <2>3 DEF new
<1>4. PICK g : Unrolls(g, V, N, list, step)
  <2>1. IsStep(step, V, N)
    <3>1. \A p \in V \X (1..N) : ListText(p[1], pending[p[2]]) \in V
      <4> TAKE p \in V \X (1..N)
      <4>1. p[1] \in V /\ p[2] \in 1..N
        <5> HIDE DEF V, N
        <5> QED OBVIOUS
      <4> HIDE DEF V, N
      <4> QED BY <4>1, <1>3
    <3> HIDE DEF V, N
    <3> QED BY <3>1 DEF IsStep
  <2> HIDE DEF step, N, V
  <2> QED BY <1>1, <1>2, <2>1, Recursion
<1>5. \A n \in 1..N : g[n] = ListText(g[n - 1], pending[n])
  <2> TAKE n \in 1..N
  <2>1. g[n - 1] \in V /\ g[n] = step[<<g[n - 1], n>>]
    <3> HIDE DEF N, step, V
    <3> QED BY <1>1, <1>4 DEF Unrolls
  <2> HIDE DEF N, V
  <2> QED BY <2>1
<1>6. g = Body(g)
  <2> HIDE DEF N, step, V
  <2>1. g = [n \in 0..N |-> g[n]] /\ g[0] = list
    BY <1>4 DEF Unrolls
  <2>2. \A n \in 0..N : g[n] = IF n = 0 THEN list ELSE ListText(g[n - 1], pending[n])
    <3> TAKE n \in 0..N
    <3>1. CASE n = 0
      BY <3>1, <2>1
    <3>2. CASE n # 0
      <4>1. n \in 1..N
        BY <3>2, <1>1
      <4> QED BY <3>2, <4>1, <1>5
    <3> QED BY <3>1, <3>2
  <2> QED BY <2>1, <2>2
<1>7. listed = Body(listed)
  <2> HIDE DEF N
  <2> QED BY <1>6 DEF listed
<1>8. ApplyPending(list) = listed[N]
  BY DEF ApplyPending, listed
<1> HIDE DEF listed, N
<1> DEFINE S == {n \in 0..N : Listed(list, listed[n], n, Ts)}
<1>9. 0 \in S
  <2>1. listed[0] = list /\ Len(list.items) \in Nat
    BY <1>7, <1>1, ListFields, TotalsType DEF ListRight
  <2>2. Listed(list, list, 0, Ts)
    BY <2>1 DEF Listed
  <2> QED BY <2>1, <2>2, <1>1
<1>10. ASSUME NEW n \in 0..(N - 1), n \in S PROVE n + 1 \in S
  <2>1. n + 1 \in 1..N /\ n + 1 \in 0..N /\ n + 1 # 0 /\ (n + 1) - 1 = n
    BY <1>1
  <2>2. listed[n + 1] = ListText(listed[n], pending[n + 1])
    <3>1. listed[n + 1] = Body(listed)[n + 1]
      BY <1>7
    <3> QED BY <3>1, <2>1
  <2>3. Listed(list, listed[n], (n + 1) - 1, Ts)
    BY <1>10, <2>1
  <2>4. Listed(list, listed[n + 1], n + 1, Ts)
    BY <2>1, <2>2, <2>3, ListedNext DEF N
  <2> QED BY <2>1, <2>4
<1>11. 0..N \subseteq S
  <2> HIDE DEF S
  <2> QED BY <1>1, <1>9, <1>10, UpToInduction
<1> QED BY <1>8, <1>11, <1>1 DEF N

-----------------------------------------------------------------------------

LastAt(list, last) == [list EXCEPT !.last = last]

LEMMA LastIs ==
  ASSUME NEW Ts, NEW list, NEW l, NEW last, Recounts(list, l, Ts)
  PROVE  ListRight(LastAt(l, last), Ts) /\ Repainted(list, LastAt(l, last))
<1> DEFINE new == [l EXCEPT !.last = last]
<1>1. l \in ListType(Ts, {l.last})
  BY DEF Recounts, ListRight
<1>2. /\ new \in ListType(Ts, {last}) /\ new.last = last
      /\ new.items = l.items /\ new.sizes = l.sizes /\ new.total = l.total /\ new.query = l.query
  BY <1>1 DEF ListType
<1> HIDE DEF new
<1>3. ListRight(new, Ts) /\ Repainted(list, new)
  BY <1>2 DEF Recounts, ListRight, Repainted
<1> QED BY <1>3 DEF new, LastAt

LEMMA RecountsSame ==
  ASSUME NEW Ts, NEW list, ListRight(list, Ts)
  PROVE  Recounts(list, list, Ts)
BY DEF Recounts, Repainted

LEMMA RenderFromIs ==
  ASSUME NEW Ts, Countable(Ts), NEW list, ListRight(list, Ts), NEW s, NEW top, NEW effective,
         NEW width \in Widths
  PROVE  ListRight(RenderFrom(list, s, top, effective, width).list, Ts)
         /\ Repainted(list, RenderFrom(list, s, top, effective, width).list)
<1> DEFINE down == Max({effective, 0})
           inset == Min({1, down})
           place == IndexOf(list.sizes, down - inset + 1)
           offset == 1 - place.remainder - inset
           below == (place.slots + 1)..Len(list.items)
           inView == {i \in below : RowsOf(list, {j \in below : j < i}, width) < s.height - offset + 1}
           counted == IF s.drag = <<>> THEN list ELSE RecountAll(list, inView, width)
<1>1. RenderFrom(list, s, top, effective, width).list = LastAt(counted, place.slots)
  BY DEF RenderFrom, Rendering, LastAt
<1> HIDE DEF place, inView
<1>2. Recounts(list, counted, Ts)
  BY RecountAllIs, RecountsSame
<1> HIDE DEF counted
<1> QED BY <1>1, <1>2, LastIs

LEMMA RenderBottomIs ==
  ASSUME NEW Ts, NEW list, ListRight(list, Ts), NEW s, NEW maxOffset
  PROVE  ListRight(RenderBottom(list, s, maxOffset).list, Ts)
         /\ Repainted(list, RenderBottom(list, s, maxOffset).list)
<1>1. RenderBottom(list, s, maxOffset).list = LastAt(list, Len(list.items) - 1)
  BY DEF RenderBottom, Rendering, LastAt
<1> QED BY <1>1, RecountsSame, LastIs

LEMMA UpdateScrollingIs ==
  ASSUME NEW Ts, Countable(Ts), NEW list, ListRight(list, Ts), NEW s, NEW width \in Widths
  PROVE  ListRight(UpdateScrolling(list, s, width).list, Ts)
         /\ Repainted(list, UpdateScrolling(list, s, width).list)
<1> DEFINE maxOffset == Max({list.total - s.height, 1})
           effective == Effective(list, s, s.top)
           seen == Dragged(s, [actual |-> effective])
           place == IndexOf(list.sizes, Max({effective - 1, 0}) + 1)
           above == (Max({place.slots, list.last - LookBack}) + 1)..list.last
           counted == RecountAll(list, IF place.slots < list.last THEN above ELSE {}, width)
           resized == counted.total - list.total
           changed == \E i \in above : counted.items[i].total # list.items[i].total
           moved == IF s.drag # <<>>
                    THEN Dragged(seen, [pivot |-> s.top, real |-> effective + resized])
                    ELSE AtTop(s, s.top + resized)
           again == Effective(counted, moved, moved.top)
           r == IF list.items = <<>> THEN Rendering([list EXCEPT !.last = 0], AtBottom(s), 1, FALSE, 0)
                ELSE IF s.bottom \/ s.top >= maxOffset THEN RenderBottom(list, s, maxOffset)
                ELSE IF ~changed THEN RenderFrom(counted, seen, s.top, effective, width)
                ELSE IF moved.top >= maxOffset THEN RenderBottom(counted, moved, maxOffset)
                ELSE RenderFrom(counted, Dragged(moved, [actual |-> again]), moved.top, again, width)
           again2 == Dragged(moved, [actual |-> again])
<1>1. UpdateScrolling(list, s, width) = r
  BY DEF UpdateScrolling
<1>2. ListRight(counted, Ts) /\ Repainted(list, counted)
  <2> HIDE DEF above, place
  <2> QED BY RecountAllIs DEF Recounts
<1> HIDE DEF counted, maxOffset, effective, seen, place, above, resized, moved, again, again2
<1>3. CASE list.items = <<>>
  <2>1. r.list = LastAt(list, 0)
    BY <1>3 DEF Rendering, LastAt
  <2> HIDE DEF r
  <2> QED BY <2>1, <1>1, RecountsSame, LastIs
<1>4. CASE list.items # <<>> /\ (s.bottom \/ s.top >= maxOffset)
  <2>1. r = RenderBottom(list, s, maxOffset)
    BY <1>4
  <2> QED BY <2>1, <1>1, RenderBottomIs
<1>5. CASE list.items # <<>> /\ ~ (s.bottom \/ s.top >= maxOffset) /\ ~changed
  <2>1. r = RenderFrom(counted, seen, s.top, effective, width)
    BY <1>5
  <2>2. ListRight(r.list, Ts) /\ Repainted(counted, r.list)
    BY <2>1, <1>2, RenderFromIs
  <2> HIDE DEF r
  <2> QED BY <2>2, <1>1, <1>2, RepaintedTwice
<1>6. CASE list.items # <<>> /\ ~ (s.bottom \/ s.top >= maxOffset) /\ changed /\ moved.top >= maxOffset
  <2>1. r = RenderBottom(counted, moved, maxOffset)
    BY <1>6
  <2>2. ListRight(r.list, Ts) /\ Repainted(counted, r.list)
    BY <2>1, <1>2, RenderBottomIs
  <2> HIDE DEF r
  <2> QED BY <2>2, <1>1, <1>2, RepaintedTwice
<1>7. CASE list.items # <<>> /\ ~ (s.bottom \/ s.top >= maxOffset) /\ changed /\ ~ (moved.top >= maxOffset)
  <2>1. r = RenderFrom(counted, again2, moved.top, again, width)
    BY <1>7 DEF again2
  <2>2. ListRight(r.list, Ts) /\ Repainted(counted, r.list)
    BY <2>1, <1>2, RenderFromIs
  <2> HIDE DEF r
  <2> QED BY <2>2, <1>1, <1>2, RepaintedTwice
<1> QED BY <1>3, <1>4, <1>5, <1>6, <1>7

-----------------------------------------------------------------------------

LEMMA FilterIs ==
  ASSUME NEW Ts, Countable(Ts), NEW item \in ItemsOf(Ts), NEW query \in Queries
  PROVE  /\ Filter(item, query) \in ItemsOf(Ts) /\ ItemRight(Filter(item, query), query)
         /\ Filter(item, query).text = item.text
<1> DEFINE found == Found(item.text, query)
           fresh == [item EXCEPT !.wrapped = NotWrapped]
           total == IF item.skip THEN item.backup ELSE item.total
           all == [fresh EXCEPT !.total = IF item.skip THEN item.backup ELSE @,
                                !.skip = FALSE, !.highlight = <<>>]
           some == [fresh EXCEPT !.highlight = found, !.skip = FALSE]
           none == [fresh EXCEPT !.backup = item.total, !.total = 0, !.skip = TRUE]
<1>1. /\ item.text \in Ts /\ item.total \in Nat /\ item.backup \in Nat /\ query \in Asked
  BY ItemFields DEF Asked
<1>2. found \in Highlights(Ts) /\ <<>> \in Highlights(Ts)
  BY <1>1, FoundIs DEF Highlights
<1>3. Filter(item, query) = IF query = "" THEN all ELSE IF found # <<>> THEN some ELSE none
  BY DEF Filter
<1>4. NotWrapped \in [width : Widths \cup {"none"}, rows : Nat, highlight : Highlights(Ts)]
  BY DEF NotWrapped, Highlights
<1>5. IsShown(item.text, query) <=> (query = "" \/ found # <<>>)
  BY DEF IsShown
<1> HIDE DEF found
<1>6. fresh \in ItemsOf(Ts) /\ fresh.text = item.text /\ fresh.wrapped = NotWrapped /\ fresh.skip = item.skip
      /\ fresh.backup = item.backup /\ fresh.total = item.total
  BY <1>4 DEF ItemsOf
<1> HIDE DEF fresh
<1>7. /\ all \in ItemsOf(Ts) /\ all.text = item.text /\ all.skip = FALSE /\ all.wrapped = NotWrapped
  BY <1>1, <1>2, <1>6 DEF ItemsOf
<1>8. /\ some \in ItemsOf(Ts) /\ some.text = item.text /\ some.skip = FALSE /\ some.wrapped = NotWrapped
  BY <1>1, <1>2, <1>6 DEF ItemsOf
<1>9. /\ none \in ItemsOf(Ts) /\ none.text = item.text /\ none.skip = TRUE /\ none.wrapped = NotWrapped
      /\ none.total = 0
  BY <1>1, <1>2, <1>6 DEF ItemsOf
<1> HIDE DEF all, some, none
<1> QED BY <1>3, <1>5, <1>7, <1>8, <1>9 DEF ItemRight

\* What the task of a search makes of the list.
Searched(list, query) ==
    LET items == [i \in DOMAIN list.items |-> Filter(list.items[i], query)]
        sizes == [i \in DOMAIN items |-> items[i].total]
    IN  [list EXCEPT !.items = items, !.sizes = FromIter(sizes), !.total = Sums(sizes)[Len(sizes)],
                     !.query = query]

LEMMA SearchedIs ==
  ASSUME NEW Ts, Countable(Ts), NEW list, ListRight(list, Ts), NEW query \in Queries
  PROVE  /\ ListRight(Searched(list, query), Ts) /\ Searched(list, query).query = query
         /\ Len(Searched(list, query).items) = Len(list.items)
         /\ \A i \in 1..Len(list.items) : Searched(list, query).items[i].text = list.items[i].text
<1> DEFINE N == Len(list.items)
           items == [i \in DOMAIN list.items |-> Filter(list.items[i], query)]
           sizes == [i \in DOMAIN items |-> items[i].total]
           new == [list EXCEPT !.items = items, !.sizes = FromIter(sizes), !.total = Sums(sizes)[Len(sizes)],
                               !.query = query]
<1>1. /\ list \in ListType(Ts, {list.last})
      /\ \A k \in 1..N : list.items[k] \in ItemsOf(Ts)
      /\ N \in Nat /\ DOMAIN list.items = 1..N /\ query \in Asked
  BY ListFields, TotalsType DEF ListRight, Asked
<1>2. \A k \in 1..N : /\ Filter(list.items[k], query) \in ItemsOf(Ts)
                      /\ ItemRight(Filter(list.items[k], query), query)
                      /\ Filter(list.items[k], query).text = list.items[k].text
  BY <1>1, FilterIs
<1>3. Searched(list, query) = new
  BY DEF Searched
<1> HIDE DEF N
<1>4. /\ items \in [1..N -> ItemsOf(Ts)] /\ \A k \in 1..N : items[k] = Filter(list.items[k], query)
  BY <1>1, <1>2
<1> HIDE DEF items
<1>5. items \in Seq(ItemsOf(Ts)) /\ Len(items) = N
  <2> DEFINE V == ItemsOf(Ts)
  <2>1. items \in [1..N -> V]
    BY <1>4
  <2> HIDE DEF V
  <2>2. items \in Seq(V) /\ Len(items) = N
    BY <2>1, <1>1
  <2> QED BY <2>2 DEF V
<1>6. sizes = Totals(items)
  BY DEF Totals
<1>7. sizes \in Seq(Int) /\ Len(sizes) = N
  BY <1>5, <1>6, TotalsType
<1> HIDE DEF sizes
<1>8. IsTree(FromIter(sizes), sizes)
  BY <1>7, FromIterIs
<1>9. FromIter(sizes) \in Seq(Int) /\ Sums(sizes)[N] \in Int
  <2>1. N \in 0..N
    BY <1>1
  <2> QED BY <2>1, <1>7, <1>8, TreeFacts
<1>10. /\ new \in ListType(Ts, {list.last}) /\ new.items = items /\ new.sizes = FromIter(sizes)
       /\ new.total = Sums(sizes)[N] /\ new.query = query /\ new.last = list.last
  BY <1>1, <1>5, <1>7, <1>9 DEF ListType
<1> HIDE DEF new
<1>11. ListRight(new, Ts)
  BY <1>2, <1>4, <1>5, <1>6, <1>8, <1>10 DEF ListRight
<1> QED BY <1>2, <1>3, <1>4, <1>5, <1>10, <1>11 DEF N

-----------------------------------------------------------------------------
(* Lists of lines: their texts.                                              *)

TextsIn(list) == [i \in DOMAIN list.items |-> list.items[i].text]
ShownIn(list) == {i \in DOMAIN list.items : ~list.items[i].skip}

LEMMA TextsInType ==
  ASSUME NEW Ts, NEW list, ListRight(list, Ts)
  PROVE  /\ Len(list.items) \in Nat /\ DOMAIN list.items = 1..Len(list.items)
         /\ TextsIn(list) \in Seq(Ts) /\ Len(TextsIn(list)) = Len(list.items)
         /\ DOMAIN TextsIn(list) = 1..Len(list.items)
         /\ \A i \in 1..Len(list.items) : TextsIn(list)[i] = list.items[i].text
<1> DEFINE N == Len(list.items)
<1>1. /\ N \in Nat /\ DOMAIN list.items = 1..N /\ \A i \in 1..N : list.items[i] \in ItemsOf(Ts)
  BY ListFields, TotalsType DEF ListRight
<1>2. \A i \in 1..N : list.items[i].text \in Ts
  BY <1>1, ItemFields
<1> HIDE DEF N
<1>3. TextsIn(list) \in [1..N -> Ts] /\ \A i \in 1..N : TextsIn(list)[i] = list.items[i].text
  BY <1>1, <1>2 DEF TextsIn
<1>4. TextsIn(list) \in Seq(Ts) /\ Len(TextsIn(list)) = N /\ DOMAIN TextsIn(list) = 1..N
  BY <1>1, <1>3
<1> QED BY <1>1, <1>3, <1>4 DEF N

LEMMA ShownInIs ==
  ASSUME NEW Ts, NEW list, ListRight(list, Ts)
  PROVE  ShownIn(list) = {i \in DOMAIN TextsIn(list) : IsShown(TextsIn(list)[i], list.query)}
<1> DEFINE N == Len(list.items)
<1>1. /\ DOMAIN list.items = 1..N /\ DOMAIN TextsIn(list) = 1..N
      /\ \A i \in 1..N : TextsIn(list)[i] = list.items[i].text
  BY TextsInType
<1>2. \A i \in 1..N : list.items[i].skip <=> ~ IsShown(list.items[i].text, list.query)
  BY DEF ListRight, ItemRight
<1> HIDE DEF N
<1> QED BY <1>1, <1>2 DEF ShownIn

LEMMA RepaintedTexts ==
  ASSUME NEW Ts, NEW list, ListRight(list, Ts), NEW l, ListRight(l, Ts), Repainted(list, l)
  PROVE  TextsIn(l) = TextsIn(list) /\ l.query = list.query
<1> DEFINE N == Len(list.items)
<1>1. /\ N \in Nat /\ TextsIn(list) \in Seq(Ts) /\ Len(TextsIn(list)) = N
      /\ \A i \in 1..N : TextsIn(list)[i] = list.items[i].text
  BY TextsInType
<1>2. Len(l.items) = N /\ \A i \in 1..N : l.items[i].text = list.items[i].text
  BY DEF Repainted
<1>3. /\ TextsIn(l) \in Seq(Ts) /\ Len(TextsIn(l)) = N
      /\ \A i \in 1..N : TextsIn(l)[i] = l.items[i].text
  BY <1>2, TextsInType
<1> HIDE DEF N
<1>4. \A i \in 1..N : TextsIn(l)[i] = TextsIn(list)[i]
  BY <1>1, <1>2, <1>3
<1> DEFINE a == TextsIn(l)
           b == TextsIn(list)
<1>5. a \in Seq(Ts) /\ b \in Seq(Ts) /\ Len(a) = N /\ Len(b) = N /\ \A i \in 1..N : a[i] = b[i]
  BY <1>1, <1>3, <1>4
<1> HIDE DEF a, b
<1>6. a = b
  BY <1>5
<1> QED BY <1>6 DEF a, b, Repainted

LEMMA ListedTexts ==
  ASSUME NEW Ts, pending \in Seq(Ts), NEW list, ListRight(list, Ts), NEW l,
         Listed(list, l, Len(pending), Ts)
  PROVE  TextsIn(l) = TextsIn(list) \o pending /\ l.query = list.query
<1> DEFINE N == Len(list.items)
           M == Len(pending)
           a == TextsIn(list)
           b == TextsIn(l)
<1>1. M \in Nat
  OBVIOUS
<1>2. /\ ListRight(l, Ts) /\ l.query = list.query /\ Len(l.items) = N + M
      /\ \A i \in 1..N : l.items[i] = list.items[i]
      /\ \A k \in 1..M : l.items[N + k].text = pending[k]
  BY DEF Listed
<1>3. /\ N \in Nat /\ a \in Seq(Ts) /\ Len(a) = N /\ \A i \in 1..N : a[i] = list.items[i].text
  BY TextsInType
<1>4. /\ b \in Seq(Ts) /\ Len(b) = N + M /\ \A i \in 1..(N + M) : b[i] = l.items[i].text
  BY <1>2, TextsInType
<1>5. pending \in Seq(Ts) /\ M = Len(pending)
  OBVIOUS
<1> HIDE DEF N, M, a, b
<1>6. \A i \in 1..N : b[i] = a[i]
  BY <1>1, <1>2, <1>3, <1>4
<1>7. \A k \in 1..M : b[N + k] = pending[k]
  BY <1>1, <1>2, <1>3, <1>4, SMTT(30)
<1> DEFINE c == a \o pending
<1>8. c \in Seq(Ts) /\ Len(c) = N + M /\ (\A i \in 1..N : c[i] = a[i]) /\ \A k \in 1..M : c[N + k] = pending[k]
  BY <1>1, <1>3, <1>5
<1>9. \A i \in 1..(N + M) : b[i] = c[i]
  <2> HIDE DEF c
  <2> TAKE i \in 1..(N + M)
  <2>1. CASE i \in 1..N
    BY <2>1, <1>6, <1>8
  <2>2. CASE i \notin 1..N
    <3>1. i - N \in 1..M /\ i = N + (i - N)
      BY <2>2, <1>1, <1>3
    <3> DEFINE k == i - N
    <3>2. k \in 1..M /\ i = N + k
      BY <3>1
    <3> HIDE DEF k
    <3> QED BY <3>2, <1>7, <1>8
  <2> QED BY <2>1, <2>2
<1>10. b = c
  <2> HIDE DEF c
  <2> QED BY <1>4, <1>8, <1>9
<1> QED BY <1>2, <1>10 DEF a, b

\* A list that is painted: what waits is listed, and its rows are counted.
PaintedList(list, width) ==
    LET r == UpdateScrolling(ApplyPending(list), scroll, width)
    IN  RecountAll(r.list, Painted(r, width), width)

LEMMA PaintedListIs ==
  ASSUME NEW Ts, Countable(Ts), pending \in Seq(Ts), NEW list, ListRight(list, Ts), NEW width \in Widths
  PROVE  /\ ListRight(PaintedList(list, width), Ts)
         /\ TextsIn(PaintedList(list, width)) = TextsIn(list) \o pending
         /\ PaintedList(list, width).query = list.query
<1> DEFINE l == ApplyPending(list)
           r == UpdateScrolling(l, scroll, width)
           rl == r.list
           new == RecountAll(rl, Painted(r, width), width)
<1>1. PaintedList(list, width) = new
  BY DEF PaintedList
<1>2. Listed(list, l, Len(pending), Ts)
  BY ApplyPendingIs
<1>3. ListRight(l, Ts) /\ TextsIn(l) = TextsIn(list) \o pending /\ l.query = list.query
  <2> HIDE DEF l
  <2>1. ListRight(l, Ts)
    BY <1>2 DEF Listed
  <2> QED BY <2>1, <1>2, ListedTexts
<1> HIDE DEF l
<1>4. ListRight(rl, Ts) /\ Repainted(l, rl)
  BY <1>3, UpdateScrollingIs
<1> DEFINE positions == Painted(r, width)
<1> HIDE DEF r, rl
<1>5. Recounts(rl, new, Ts)
  <2>1. new = RecountAll(rl, positions, width)
    OBVIOUS
  <2> HIDE DEF positions, new
  <2> QED BY <2>1, <1>4, RecountAllIs
<1> HIDE DEF new
<1>6. ListRight(new, Ts) /\ Repainted(rl, new)
  BY <1>5 DEF Recounts
<1>7. TextsIn(rl) = TextsIn(l) /\ rl.query = l.query
  BY <1>3, <1>4, RepaintedTexts
<1>8. TextsIn(new) = TextsIn(rl) /\ new.query = rl.query
  BY <1>4, <1>6, RepaintedTexts
<1> QED BY <1>1, <1>3, <1>6, <1>7, <1>8

LEMMA SearchedTexts ==
  ASSUME NEW Ts, Countable(Ts), NEW list, ListRight(list, Ts), NEW query \in Queries
  PROVE  TextsIn(Searched(list, query)) = TextsIn(list)
<1> DEFINE N == Len(list.items)
           l == Searched(list, query)
           a == TextsIn(l)
           b == TextsIn(list)
<1>1. /\ ListRight(l, Ts) /\ Len(l.items) = N /\ \A i \in 1..N : l.items[i].text = list.items[i].text
  BY SearchedIs
<1> HIDE DEF l
<1>2. /\ N \in Nat /\ b \in Seq(Ts) /\ Len(b) = N /\ \A i \in 1..N : b[i] = list.items[i].text
  BY TextsInType
<1>3. /\ a \in Seq(Ts) /\ Len(a) = N /\ \A i \in 1..N : a[i] = l.items[i].text
  BY <1>1, TextsInType
<1> HIDE DEF N, a, b
<1>4. \A i \in 1..N : a[i] = b[i]
  BY <1>1, <1>2, <1>3
<1>5. a = b
  BY <1>2, <1>3, <1>4
<1> QED BY <1>5 DEF a, b, l

-----------------------------------------------------------------------------
(* The field.                                                                *)

\* The list is with the window or with the task of a search, and right in both.
Here(list, Ts) == itemState = <<list>> /\ search = <<>> /\ ListRight(list, Ts)
Gone(list, q, Ts) == itemState = <<>> /\ search = <<[query |-> q, list |-> list]>> /\ ListRight(list, Ts)

FieldRight(Ts) ==
    /\ pending \in Seq(Ts)
    /\ \E list : Here(list, Ts) \/ \E q \in Queries : Gone(list, q, Ts)

LEMMA HereIs ==
  ASSUME NEW Ts, NEW list, Here(list, Ts)
  PROVE  itemState # <<>> /\ itemState[1] = list /\ List = list
BY DEF Here, List

LEMMA GoneIs ==
  ASSUME NEW Ts, NEW list, NEW q, Gone(list, q, Ts)
  PROVE  itemState = <<>> /\ search # <<>> /\ search[1].query = q /\ search[1].list = list /\ List = list
BY DEF Gone, List

LEMMA EmptyList ==
  ASSUME NEW Ts
  PROVE  ListRight(NoItems, Ts) /\ TextsIn(NoItems) = <<>> /\ NoItems.query = "" /\ ShownIn(NoItems) = {}
<1>1. Totals(NoItems.items) = <<>> /\ NoItems.items = <<>> /\ Len(NoItems.items) = 0
  BY DEF NoItems, Totals
<1>2. Sums(<<>>)[0] = 0
  <2> DEFINE none == <<>>
  <2>1. none \in Seq(Int)
    OBVIOUS
  <2> HIDE DEF none
  <2>2. Sums(none)[0] = 0
    BY <2>1, SumsIs
  <2> QED BY <2>2 DEF none
<1>3. NoItems \in ListType(Ts, {NoItems.last})
  BY DEF NoItems, ListType, Asked, EmptyTree
<1>4. NoItems.sizes = EmptyTree /\ NoItems.total = 0 /\ NoItems.query = ""
  BY DEF NoItems
<1>5. IsTree(NoItems.sizes, Totals(NoItems.items))
  BY <1>1, <1>4, EmptyTreeIs
<1>6. NoItems.total = Sums(Totals(NoItems.items))[Len(NoItems.items)]
  BY <1>1, <1>2, <1>4
<1>7. \A i \in 1..Len(NoItems.items) : ItemRight(NoItems.items[i], NoItems.query)
  BY <1>1
<1>8. ListRight(NoItems, Ts)
  BY <1>3, <1>5, <1>6, <1>7 DEF ListRight
<1>9. DOMAIN NoItems.items = {}
  BY <1>1
<1>10. TextsIn(NoItems) = <<>> /\ ShownIn(NoItems) = {}
  BY <1>9 DEF TextsIn, ShownIn
<1> QED BY <1>4, <1>8, <1>10

-----------------------------------------------------------------------------
(* Lists of lines: the rows of the game's output.                            *)

LEMMA RightIsFound ==
  ASSUME NEW Ts, NEW list, ListRight(list, Ts), NEW row \in 1..list.total
  PROVE  /\ IndexOf(list.sizes, row).slots < Len(list.items)
         /\ ~list.items[IndexOf(list.sizes, row).slots + 1].skip
         /\ IndexOf(list.sizes, row).remainder \in 1..list.items[IndexOf(list.sizes, row).slots + 1].total
<1> DEFINE N == Len(list.items)
           values == Totals(list.items)
           place == IndexOf(list.sizes, row)
           k == place.slots + 1
<1>1. /\ N \in Nat /\ values \in Seq(Int) /\ Len(values) = N
      /\ \A i \in 1..N : values[i] = list.items[i].total
      /\ \A i \in 1..N : ItemRight(list.items[i], list.query)
      /\ IsTree(list.sizes, values) /\ list.total = Sums(values)[N]
  BY ListFields, TotalsType DEF ListRight
<1>2. row \in 1..Sums(values)[Len(values)]
  BY <1>1
<1> HIDE DEF N, values
<1>3. place.slots \in 0..(N - 1) /\ place.remainder \in 1..values[k]
  BY <1>1, <1>2, IndexOfIs
<1> HIDE DEF place
<1>4. k \in 1..N
  BY <1>1, <1>3
<1> HIDE DEF k
<1>5. values[k] = list.items[k].total /\ ItemRight(list.items[k], list.query)
  BY <1>1, <1>4
<1>6. list.items[k].total # 0
  BY <1>3, <1>5
<1>7. ~list.items[k].skip
  BY <1>5, <1>6 DEF ItemRight
<1>8. place.slots < N
  BY <1>1, <1>3
<1> QED BY <1>3, <1>5, <1>7, <1>8 DEF N, k, place

LEMMA RightIsCounted ==
  ASSUME NEW Ts, NEW list, ListRight(list, Ts)
  PROVE  /\ \A n \in 0..Len(list.items) : PrefixSum(list.sizes, n) = Sums(Totals(list.items))[n]
         /\ list.total = Sums(Totals(list.items))[Len(list.items)]
         /\ DOMAIN list.items = 1..Len(list.items)
         /\ \A i \in 1..Len(list.items) : list.items[i].skip => list.items[i].total = 0
<1>1. Len(Totals(list.items)) = Len(list.items) /\ DOMAIN list.items = 1..Len(list.items)
  BY ListFields, TotalsType DEF ListRight
<1>2. \A n \in 0..Len(list.items) : PrefixSum(list.sizes, n) = Sums(Totals(list.items))[n]
  BY <1>1, PrefixSumIs DEF ListRight
<1> QED BY <1>1, <1>2 DEF ListRight, ItemRight

LEMMA FieldIsConsistent ==
  ASSUME NEW Ts, FieldRight(Ts)
  PROVE  RowsAreConsistent
<1>1. PICK list : Here(list, Ts) \/ \E q \in Queries : Gone(list, q, Ts)
  BY DEF FieldRight
<1>2. /\ List = list /\ ListRight(list, Ts)
      /\ itemState # <<>> => itemState[1] = list
  <2>1. CASE Here(list, Ts)
    BY <2>1, HereIs DEF Here
  <2>2. CASE \E q \in Queries : Gone(list, q, Ts)
    BY <2>2, GoneIs DEF Gone
  <2> QED BY <1>1, <2>1, <2>2
<1>3. TreeCountsRows
  <2> DEFINE items == list.items
             rows == Sums(Totals(items))
  <2>1. /\ \A n \in 0..Len(items) : PrefixSum(list.sizes, n) = rows[n]
        /\ list.total = rows[Len(items)]
        /\ \A i \in DOMAIN items : items[i].skip => items[i].total = 0
    BY <1>2, RightIsCounted
  <2>2. rows = Sums([i \in DOMAIN items |-> items[i].total])
    BY DEF Totals
  <2> HIDE DEF rows
  <2> QED BY <1>2, <2>1, <2>2 DEF TreeCountsRows
<1>4. RowsAreFound
  BY <1>2, RightIsFound DEF RowsAreFound
<1>5. WrappedRowsAreCurrent
  <2>1. \A i \in DOMAIN list.items : ItemRight(list.items[i], list.query)
    BY <1>2, RightIsCounted DEF ListRight
  <2> QED BY <1>2, <2>1 DEF WrappedRowsAreCurrent, ItemRight
<1> QED BY <1>3, <1>4, <1>5 DEF RowsAreConsistent

-----------------------------------------------------------------------------

LEMMA FieldStarts ==
  ASSUME NEW Ts, pending = <<>>, itemState = <<NoItems>>, search = <<>>
  PROVE  FieldRight(Ts) /\ List = NoItems
<1>1. Here(NoItems, Ts)
  BY EmptyList DEF Here
<1> QED BY <1>1, HereIs DEF FieldRight

LEMMA FieldStays ==
  ASSUME NEW Ts, FieldRight(Ts), UNCHANGED <<itemState, search>>, pending' \in Seq(Ts)
  PROVE  FieldRight(Ts)'
<1>1. PICK list : Here(list, Ts) \/ \E q \in Queries : Gone(list, q, Ts)
  BY DEF FieldRight
<1>2. Here(list, Ts)' \/ \E q \in Queries : Gone(list, q, Ts)'
  BY <1>1 DEF Here, Gone
<1> QED BY <1>2 DEF FieldRight

LEMMA ListStays ==
  ASSUME UNCHANGED <<itemState, search>>
  PROVE  List' = List
BY DEF List

LEMMA PaintRight ==
  ASSUME NEW Ts, Countable(Ts), FieldRight(Ts), NEW width \in Widths, Paint(width)
  PROVE  /\ FieldRight(Ts)'
         /\ \/ List' = List /\ pending' = pending
            \/ TextsIn(List)' = TextsIn(List) \o pending /\ pending' = <<>> /\ List'.query = List.query
<1>1. PICK list : Here(list, Ts) \/ \E q \in Queries : Gone(list, q, Ts)
  BY DEF FieldRight
<1>2. pending \in Seq(Ts)
  BY DEF FieldRight
<1>3. CASE itemState = <<>>
  <2>1. UNCHANGED <<itemState, search>> /\ pending' = pending
    BY <1>3 DEF Paint
  <2> QED BY <2>1, <1>2, FieldStays, ListStays
<1>4. CASE itemState # <<>>
  <2>1. Here(list, Ts) /\ itemState[1] = list /\ List = list
    BY <1>1, <1>4, HereIs, GoneIs
  <2> DEFINE new == PaintedList(list, width)
  <2>2. itemState' = <<new>> /\ pending' = <<>> /\ search' = search
    BY <1>4, <2>1 DEF Paint, PaintedList
  <2>3. ListRight(new, Ts) /\ TextsIn(new) = TextsIn(list) \o pending /\ new.query = list.query
    BY <1>2, <2>1, PaintedListIs DEF Here
  <2> HIDE DEF new
  <2>4. PICK l : l = new
    OBVIOUS
  <2>5. Here(l, Ts)'
    BY <2>1, <2>2, <2>3, <2>4 DEF Here
  <2>6. pending' \in Seq(Ts)
    BY <2>2
  <2>7. List' = l
    BY <2>5 DEF Here, List
  <2>8. TextsIn(List)' = TextsIn(List) \o pending /\ List'.query = List.query
    BY <2>1, <2>3, <2>4, <2>7
  <2> QED BY <2>2, <2>5, <2>6, <2>8 DEF FieldRight
<1> QED BY <1>3, <1>4

LEMMA PressEnterRight ==
  ASSUME NEW Ts, FieldRight(Ts), NEW query \in Queries, PressEnter(query)
  PROVE  FieldRight(Ts)' /\ List' = List /\ pending' = pending
<1>1. PICK list : Here(list, Ts) \/ \E q \in Queries : Gone(list, q, Ts)
  BY DEF FieldRight
<1>2. Here(list, Ts) /\ itemState[1] = list /\ List = list
  BY <1>1, HereIs, GoneIs DEF PressEnter
<1>3. Gone(list, query, Ts)'
  BY <1>2 DEF PressEnter, Gone, Here
<1>4. pending' = pending /\ pending \in Seq(Ts)
  BY DEF PressEnter, FieldRight
<1>5. List' = list
  BY <1>3 DEF Gone, List
<1> QED BY <1>2, <1>3, <1>4, <1>5 DEF FieldRight

LEMMA SearchEndsRight ==
  ASSUME NEW Ts, Countable(Ts), FieldRight(Ts), SearchEnds
  PROVE  /\ FieldRight(Ts)' /\ pending' = pending
         /\ TextsIn(List)' = TextsIn(List) /\ List'.query \in Queries
<1>1. PICK list : Here(list, Ts) \/ \E q \in Queries : Gone(list, q, Ts)
  BY DEF FieldRight
<1>2. ~ Here(list, Ts)
  BY DEF Here, SearchEnds
<1>3. PICK q \in Queries : Gone(list, q, Ts)
  BY <1>1, <1>2
<1>4. search[1].list = list /\ search[1].query = q /\ List = list
  BY <1>3, GoneIs
<1> DEFINE new == Searched(list, q)
<1>5. itemState' = <<new>> /\ search' = <<>> /\ pending' = pending
  BY <1>4 DEF SearchEnds, Searched
<1>6. ListRight(new, Ts) /\ TextsIn(new) = TextsIn(list) /\ new.query = q
  BY <1>3, SearchedIs, SearchedTexts DEF Gone
<1> HIDE DEF new
<1>7. Here(new, Ts)'
  BY <1>5, <1>6 DEF Here
<1>8. List' = new
  BY <1>7 DEF Here, List
<1>9. pending \in Seq(Ts)
  BY DEF FieldRight
<1> QED BY <1>4, <1>5, <1>6, <1>7, <1>8, <1>9 DEF FieldRight

\* Moves of the view, of the field of the game's output or of a log file.
Moves ==
    \/ \E delta \in {-1, 1} : ScrollBy(delta)
    \/ GoToTop \/ GoToBottom
    \/ StartDrag \/ EndDrag
    \/ \E top \in 0..ContentHeight(scroll) : DragTo(top)

LEMMA MovesStay ==
  ASSUME Moves
  PROVE  UNCHANGED <<pending, itemState, search>>
BY DEF Moves, ScrollBy, GoToTop, GoToBottom, StartDrag, EndDrag, DragTo, Move

-----------------------------------------------------------------------------

OutputInv == FieldRight(Texts)

LEMMA OutputStarts == Init => OutputInv
BY FieldStarts DEF Init, OutputInv

LEMMA OutputSteps == OutputInv /\ [Next]_vars => OutputInv'
<1> SUFFICES ASSUME OutputInv, [Next]_vars PROVE OutputInv'
  OBVIOUS
<1> USE DEF OutputInv
<1>1. Countable(Texts)
  BY GameOutputAssumption DEF Countable
<1>2. pending \in Seq(Texts)
  BY DEF FieldRight
<1>3. CASE UNCHANGED vars
  BY <1>2, <1>3, FieldStays DEF vars
<1>4. ASSUME NEW text \in Texts, Add(text) PROVE OutputInv'
  BY <1>2, <1>4, FieldStays DEF Add
<1>5. ASSUME NEW width \in Widths, Paint(width) PROVE OutputInv'
  BY <1>1, <1>5, PaintRight
<1>6. ASSUME NEW query \in Queries, PressEnter(query) PROVE OutputInv'
  BY <1>6, PressEnterRight
<1>7. CASE SearchEnds
  BY <1>1, <1>7, SearchEndsRight
<1>8. CASE Moves
  BY <1>2, <1>8, MovesStay, FieldStays
<1> QED BY <1>3, <1>4, <1>5, <1>6, <1>7, <1>8 DEF Next, Moves

\* The window's tree, sum, items and wrapped rows agree after any texts, moves, widths
\* and searches, also while the task of a search has the list
\* (game_output/mod.rs:127-180, 568-606, 802-811, 965-1049).
THEOREM OutputIsConsistent == OutputSpec => []RowsAreConsistent
<1>1. OutputInv => RowsAreConsistent
  BY FieldIsConsistent DEF OutputInv
<1> QED BY OutputStarts, OutputSteps, <1>1, PTL DEF OutputSpec

-----------------------------------------------------------------------------
(* Log page: lines and their pieces.                                         *)

LEMMA SeqOfIs ==
  ASSUME NEW S, NEW n \in Nat, NEW s
  PROVE  s \in SeqOf(S, n) <=> s \in Seq(S) /\ Len(s) <= n
<1>1. ASSUME s \in SeqOf(S, n) PROVE s \in Seq(S) /\ Len(s) <= n
  <2>1. PICK m \in 0..n : s \in [1..m -> S]
    BY <1>1 DEF SeqOf
  <2> QED BY <2>1
<1>2. ASSUME s \in Seq(S), Len(s) <= n PROVE s \in SeqOf(S, n)
  <2>1. Len(s) \in 0..n /\ s \in [1..Len(s) -> S]
    BY <1>2, LenProperties
  <2> QED BY <2>1 DEF SeqOf
<1> QED BY <1>1, <1>2

LEMMA FlattenConcat ==
  ASSUME NEW A, NEW s \in Seq(Seq(A)), NEW t \in Seq(Seq(A))
  PROVE  FlattenSeq(s \o t) = FlattenSeq(s) \o FlattenSeq(t)
<1> DEFINE B == Seq(A)
           N == Len(t)
           part(n) == SubSeq(t, 1, n)
           S == {n \in 0..N : FlattenSeq(s \o part(n)) = FlattenSeq(s) \o FlattenSeq(part(n))}
<1>0. \A u, v, w \in Seq(A) : (u \o v) \o w = u \o (v \o w)
  BY ConcatAssociative
<1>1. N \in Nat /\ s \in Seq(B) /\ t \in Seq(B) /\ \A n \in 1..N : t[n] \in B
  BY ElementOfSeq
<1>2. FlattenSeq(s) \in B
  BY FlattenType
<1>3. 0 \in S
  <2>1. part(0) = <<>>
    OBVIOUS
  <2>2. s \o <<>> = s
    BY ConcatEmptySeq
  <2>3. FlattenSeq(s) \o <<>> = FlattenSeq(s)
    BY <1>2, ConcatEmptySeq
  <2> HIDE DEF part
  <2>4. FlattenSeq(part(0)) = <<>>
    BY <2>1, FlattenEmpty
  <2>5. FlattenSeq(s \o part(0)) = FlattenSeq(s) \o FlattenSeq(part(0))
    BY <2>1, <2>2, <2>3, <2>4
  <2> QED BY <1>1, <2>5
<1>4. ASSUME NEW n \in 0..(N - 1), n \in S PROVE n + 1 \in S
  <2>1. n + 1 \in 1..N /\ n + 1 \in 0..N /\ n \in 0..N
    BY <1>1
  <2>2. part(n) \in Seq(B) /\ part(n + 1) = Append(part(n), t[n + 1])
    <3> HIDE DEF B
    <3> QED BY <1>1, <2>1
  <2>3. s \o part(n + 1) = Append(s \o part(n), t[n + 1])
    <3> DEFINE p == part(n)
               x == t[n + 1]
    <3>1. p \in Seq(B) /\ x \in B /\ s \in Seq(B) /\ part(n + 1) = Append(p, x)
      BY <1>1, <2>1, <2>2
    <3> HIDE DEF p, x, B, part
    <3>2. s \o Append(p, x) = Append(s \o p, x)
      BY <3>1
    <3> QED BY <3>1, <3>2 DEF p, x
  <2> DEFINE p == part(n)
             x == t[n + 1]
  <2>4. p \in Seq(Seq(A)) /\ x \in Seq(A) /\ s \o p \in Seq(Seq(A))
    <3>1. p \in Seq(B) /\ x \in B
      BY <1>1, <2>1, <2>2
    <3> HIDE DEF p, x
    <3>2. s \o p \in Seq(B)
      <4> HIDE DEF B
      <4> QED BY <1>1, <3>1
    <3> QED BY <3>1, <3>2
  <2>5. part(n + 1) = Append(p, x) /\ s \o part(n + 1) = Append(s \o p, x)
    BY <2>2, <2>3
  <2>6. FlattenSeq(s \o p) = FlattenSeq(s) \o FlattenSeq(p)
    BY <1>4
  <2> HIDE DEF p, x, part
  <2>7. FlattenSeq(Append(s \o p, x)) = FlattenSeq(s \o p) \o x
    BY <2>4, FlattenAppend
  <2>8. FlattenSeq(Append(p, x)) = FlattenSeq(p) \o x /\ FlattenSeq(p) \in Seq(A)
    BY <2>4, FlattenAppend, FlattenType
  <2>9. (FlattenSeq(s) \o FlattenSeq(p)) \o x = FlattenSeq(s) \o (FlattenSeq(p) \o x)
    <3> DEFINE a == FlattenSeq(s)
               b == FlattenSeq(p)
    <3>1. a \in Seq(A) /\ b \in Seq(A) /\ x \in Seq(A)
      BY <1>2, <2>4, <2>8
    <3> HIDE DEF a, b
    <3>2. (a \o b) \o x = a \o (b \o x)
      BY <1>0, <3>1
    <3> QED BY <3>2 DEF a, b
  <2> QED BY <2>1, <2>5, <2>6, <2>7, <2>8, <2>9
<1>5. 0..N \subseteq S
  <2> HIDE DEF S
  <2> QED BY <1>1, <1>3, <1>4, UpToInduction
<1>6. part(N) = t
  <2> HIDE DEF B
  <2> QED BY <1>1
<1>7. N \in S
  <2> HIDE DEF S
  <2> QED BY <1>1, <1>5
<1> HIDE DEF part
<1> QED BY <1>6, <1>7

-----------------------------------------------------------------------------

LineSet == SeqOf(Pieces, MaxPieces) \cup {ErrorLine}

LinePieces(line) == IF line = ErrorLine THEN <<>> ELSE line

\* The pieces of each line.
Contents(written) == [i \in DOMAIN written |-> LinePieces(written[i])]

LEMMA LineIs ==
  ASSUME NEW line \in LineSet
  PROVE  LinePieces(line) \in Seq(Pieces)
BY SeqOfIs, PiecesAssumption DEF LineSet, LinePieces

LEMMA RealLine ==
  ASSUME NEW line \in Seq(Pieces), Len(line) <= MaxPieces
  PROVE  line \in LineSet /\ LinePieces(line) = line
BY SeqOfIs, PiecesAssumption DEF LineSet, LinePieces

LEMMA ContentsType ==
  ASSUME NEW written \in Seq(LineSet)
  PROVE  /\ Contents(written) \in Seq(Seq(Pieces)) /\ Len(Contents(written)) = Len(written)
         /\ \A i \in 1..Len(written) : Contents(written)[i] = LinePieces(written[i])
<1> DEFINE B == Seq(Pieces)
           N == Len(written)
<1>1. N \in Nat /\ DOMAIN written = 1..N /\ \A i \in 1..N : written[i] \in LineSet
  BY ElementOfSeq
<1>2. \A i \in 1..N : LinePieces(written[i]) \in B
  BY <1>1, LineIs
<1> HIDE DEF B, N
<1>3. Contents(written) \in [1..N -> B] /\ \A i \in 1..N : Contents(written)[i] = LinePieces(written[i])
  BY <1>1, <1>2 DEF Contents
<1>4. Contents(written) \in Seq(B) /\ Len(Contents(written)) = N
  BY <1>1, <1>3
<1> QED BY <1>3, <1>4 DEF B, N

LEMMA PiecedIs ==
  ASSUME NEW written \in Seq(LineSet)
  PROVE  Pieced(written) = FlattenSeq(Contents(written)) /\ Pieced(written) \in Seq(Pieces)
BY ContentsType, FlattenType DEF Pieced, Contents, LinePieces

LEMMA ContentsConcat ==
  ASSUME NEW written \in Seq(LineSet), NEW more \in Seq(LineSet)
  PROVE  written \o more \in Seq(LineSet) /\ Contents(written \o more) = Contents(written) \o Contents(more)
<1> DEFINE B == Seq(Pieces)
           N == Len(written)
           M == Len(more)
           both == written \o more
           a == Contents(written)
           b == Contents(more)
           c == Contents(both)
<1>1. /\ N \in Nat /\ M \in Nat /\ both \in Seq(LineSet) /\ Len(both) = N + M
      /\ \A i \in 1..(N + M) : both[i] = IF i <= N THEN written[i] ELSE more[i - N]
  BY ConcatProperties
<1> HIDE DEF both
<1>2. /\ a \in Seq(B) /\ Len(a) = N /\ \A i \in 1..N : a[i] = LinePieces(written[i])
  BY ContentsType
<1>3. /\ b \in Seq(B) /\ Len(b) = M /\ \A i \in 1..M : b[i] = LinePieces(more[i])
  BY ContentsType
<1>4. /\ c \in Seq(B) /\ Len(c) = N + M /\ \A i \in 1..(N + M) : c[i] = LinePieces(both[i])
  BY <1>1, ContentsType
<1> HIDE DEF B, N, M, a, b, c
<1> DEFINE d == a \o b
<1>5. /\ d \in Seq(B) /\ Len(d) = N + M
      /\ \A i \in 1..(N + M) : d[i] = IF i <= N THEN a[i] ELSE b[i - N]
  BY <1>1, <1>2, <1>3, ConcatProperties
<1> HIDE DEF d
<1>6. \A i \in 1..(N + M) : c[i] = d[i]
  <2> TAKE i \in 1..(N + M)
  <2>1. CASE i <= N
    <3>1. i \in 1..N
      BY <2>1, <1>1
    <3> QED BY <3>1, <2>1, <1>1, <1>2, <1>4, <1>5
  <2>2. CASE ~ (i <= N)
    <3>1. i - N \in 1..M
      BY <2>2, <1>1
    <3> QED BY <3>1, <2>2, <1>1, <1>3, <1>4, <1>5
  <2> QED BY <2>1, <2>2
<1>7. c = d
  BY <1>4, <1>5, <1>6, SeqEqual
<1> QED BY <1>1, <1>7 DEF both, a, b, c, d

LEMMA PiecedConcat ==
  ASSUME NEW written \in Seq(LineSet), NEW more \in Seq(LineSet)
  PROVE  written \o more \in Seq(LineSet) /\ Pieced(written \o more) = Pieced(written) \o Pieced(more)
<1>1. /\ written \o more \in Seq(LineSet)
      /\ Pieced(written \o more) = FlattenSeq(Contents(written) \o Contents(more))
  BY ContentsConcat, PiecedIs
<1>2. /\ Contents(written) \in Seq(Seq(Pieces)) /\ Contents(more) \in Seq(Seq(Pieces))
  BY ContentsType
<1>3. FlattenSeq(Contents(written) \o Contents(more)) = FlattenSeq(Contents(written)) \o FlattenSeq(Contents(more))
  BY <1>2, FlattenConcat
<1> QED BY <1>1, <1>3, PiecedIs

LEMMA PiecedEmpty == Pieced(<<>>) = <<>>
<1>1. [i \in DOMAIN <<>> |-> IF <<>>[i] = ErrorLine THEN <<>> ELSE <<>>[i]] = <<>>
  OBVIOUS
<1> QED BY <1>1, FlattenEmpty DEF Pieced

LEMMA PiecedOne ==
  ASSUME NEW line \in LineSet
  PROVE  <<line>> \in Seq(LineSet) /\ Pieced(<<line>>) = LinePieces(line)
<1> DEFINE x == LinePieces(line)
           none == <<>>
           one == <<x>>
<1>1. x \in Seq(Pieces)
  BY LineIs
<1>2. <<line>> \in Seq(LineSet) /\ Contents(<<line>>) = one
  BY DEF Contents
<1> HIDE DEF x
<1>3. none \in Seq(Seq(Pieces)) /\ one = Append(none, x)
  OBVIOUS
<1>4. FlattenSeq(none) = <<>>
  BY FlattenEmpty
<1> HIDE DEF none, one
<1>5. FlattenSeq(one) = FlattenSeq(none) \o x
  BY <1>1, <1>3, FlattenAppend
<1>6. <<>> \o x = x
  BY <1>1, ConcatEmptySeq
<1> QED BY <1>2, <1>4, <1>5, <1>6, PiecedIs DEF x

\* Lines without errors hold what they are put together.
LEMMA PiecedReal ==
  ASSUME NEW written \in Seq(LineSet), \A i \in 1..Len(written) : written[i] # ErrorLine
  PROVE  Pieced(written) = FlattenSeq(written)
<1>1. DOMAIN written = 1..Len(written)
  BY LenProperties
<1>2. [i \in DOMAIN written |-> IF written[i] = ErrorLine THEN <<>> ELSE written[i]] = written
  BY <1>1
<1> QED BY <1>2 DEF Pieced

SplitPlaces == [lines : Seq(Seq(Pieces)), line : Seq(Pieces)]

SplitAt(at, piece) ==
    LET line == Append(at.line, piece)
    IN  IF piece \in Ends THEN [lines |-> Append(at.lines, line), line |-> <<>>]
        ELSE [lines |-> at.lines, line |-> line]

\* The first n pieces are in lines, the last of which goes on.
SplitUpTo(at, pieces, n) ==
    /\ at \in SplitPlaces
    /\ Len(at.line) <= n /\ \A i \in 1..Len(at.lines) : Len(at.lines[i]) <= n
    /\ FlattenSeq(at.lines) \o at.line = SubSeq(pieces, 1, n)

IsSplit(f, pieces) ==
    /\ Lines(pieces) = Append(f[Len(pieces)].lines, f[Len(pieces)].line)
    /\ f[0] = [lines |-> <<>>, line |-> <<>>]
    /\ \A n \in 1..Len(pieces) : f[n] = SplitAt(f[n - 1], pieces[n])

LEMMA SplitType ==
  ASSUME NEW at \in SplitPlaces, NEW piece \in Pieces
  PROVE  SplitAt(at, piece) \in SplitPlaces
<1> DEFINE B == Seq(Pieces)
           line == Append(at.line, piece)
<1>1. at.lines \in Seq(B) /\ line \in B /\ <<>> \in B
  BY DEF SplitPlaces
<1> HIDE DEF line
<1>2. Append(at.lines, line) \in Seq(B)
  <2> HIDE DEF B
  <2> QED BY <1>1
<1> QED BY <1>1, <1>2 DEF SplitAt, SplitPlaces, line

LEMMA LinesUnroll ==
  ASSUME NEW pieces \in Seq(Pieces)
  PROVE  \E f : IsSplit(f, pieces)
<1> DEFINE N == Len(pieces)
           V == SplitPlaces
           start == [lines |-> <<>>, line |-> <<>>]
           step == [p \in V \X (1..N) |-> SplitAt(p[1], pieces[p[2]])]
           Split(at, piece) ==
               LET line == Append(at.line, piece)
               IN  IF piece \in Ends THEN [lines |-> Append(at.lines, line), line |-> <<>>]
                   ELSE [lines |-> at.lines, line |-> line]
           Body(f) == [n \in 0..N |-> IF n = 0 THEN [lines |-> <<>>, line |-> <<>>]
                                      ELSE Split(f[n - 1], pieces[n])]
           split[n \in 0..N] ==
               IF n = 0 THEN [lines |-> <<>>, line |-> <<>>] ELSE Split(split[n - 1], pieces[n])
<1>1. N \in Nat /\ \A n \in 1..N : pieces[n] \in Pieces
  BY ElementOfSeq
<1>2. start \in V
  BY DEF SplitPlaces
<1>3. PICK g : Unrolls(g, V, N, start, step)
  <2>1. IsStep(step, V, N)
    <3>1. \A p \in V \X (1..N) : SplitAt(p[1], pieces[p[2]]) \in V
      <4> TAKE p \in V \X (1..N)
      <4>1. p[1] \in V /\ p[2] \in 1..N
        <5> HIDE DEF V, N
        <5> QED OBVIOUS
      <4> HIDE DEF N
      <4> QED BY <4>1, <1>1, SplitType
    <3> HIDE DEF V, N
    <3> QED BY <3>1 DEF IsStep
  <2> HIDE DEF step, N, V, start
  <2> QED BY <1>1, <1>2, <2>1, Recursion
<1>4. \A n \in 1..N : g[n] = SplitAt(g[n - 1], pieces[n])
  <2> TAKE n \in 1..N
  <2>1. g[n - 1] \in V /\ g[n] = step[<<g[n - 1], n>>]
    <3> HIDE DEF N, step, V, start
    <3> QED BY <1>1, <1>3 DEF Unrolls
  <2> HIDE DEF N, V
  <2> QED BY <2>1
<1>5. \A at, piece : Split(at, piece) = SplitAt(at, piece)
  BY DEF SplitAt
<1> HIDE DEF Split
<1>6. g = Body(g)
  <2> HIDE DEF N, step, V
  <2>1. g = [n \in 0..N |-> g[n]] /\ g[0] = start
    <3> HIDE DEF start
    <3> QED BY <1>3 DEF Unrolls
  <2>2. \A n \in 0..N : g[n] = IF n = 0 THEN [lines |-> <<>>, line |-> <<>>] ELSE Split(g[n - 1], pieces[n])
    <3> TAKE n \in 0..N
    <3>1. CASE n = 0
      BY <3>1, <2>1
    <3>2. CASE n # 0
      <4>1. n \in 1..N
        BY <3>2, <1>1
      <4> QED BY <3>2, <4>1, <1>4, <1>5
    <3> QED BY <3>1, <3>2
  <2> QED BY <2>1, <2>2
<1>7. split = Body(split)
  <2> HIDE DEF N
  <2> QED BY <1>6 DEF split
<1>8. Lines(pieces) = Append(split[N].lines, split[N].line)
  BY DEF Lines, split, Split
<1> HIDE DEF split, N
<1>9. split[0] = [lines |-> <<>>, line |-> <<>>]
  BY <1>7, <1>1
<1>10. \A n \in 1..N : split[n] = SplitAt(split[n - 1], pieces[n])
  <2> TAKE n \in 1..N
  <2>1. n \in 0..N /\ n # 0
    BY <1>1
  <2>2. split[n] = Body(split)[n]
    BY <1>7
  <2> QED BY <2>1, <2>2, <1>5
<1>11. IsSplit(split, pieces)
  BY <1>8, <1>9, <1>10 DEF N, IsSplit
<1> QED BY <1>11

LEMMA SplitStep ==
  ASSUME NEW pieces \in Seq(Pieces), NEW at, NEW n \in 1..Len(pieces), SplitUpTo(at, pieces, n - 1)
  PROVE  SplitUpTo(SplitAt(at, pieces[n]), pieces, n)
<1> DEFINE B == Seq(Pieces)
           piece == pieces[n]
           line == Append(at.line, piece)
           written == at.lines
           more == Append(written, line)
           before == FlattenSeq(written)
<1>1. /\ piece \in Pieces /\ n \in Nat /\ n >= 1 /\ n - 1 \in Nat
  BY ElementOfSeq
<1>2. /\ at.line \in B /\ written \in Seq(B) /\ Len(at.line) <= n - 1
      /\ \A i \in 1..Len(written) : Len(written[i]) <= n - 1
      /\ before \o at.line = SubSeq(pieces, 1, n - 1)
  BY DEF SplitUpTo, SplitPlaces
<1>3. /\ line \in B /\ Len(line) = Len(at.line) + 1 /\ Len(at.line) \in Nat /\ <<>> \in B
  BY <1>1, <1>2
<1>4. before \in B
  BY <1>2, FlattenType
<1> HIDE DEF before
<1>5. before \o line = SubSeq(pieces, 1, n)
  <2>1. before \o line = Append(before \o at.line, piece)
    <3> DEFINE last == at.line
    <3>1. last \in Seq(Pieces) /\ before \in Seq(Pieces) /\ piece \in Pieces /\ line = Append(last, piece)
      BY <1>1, <1>2, <1>4
    <3> HIDE DEF last, piece, line
    <3>2. before \o Append(last, piece) = Append(before \o last, piece)
      BY <3>1
    <3> QED BY <3>1, <3>2 DEF last
  <2>2. SubSeq(pieces, 1, n) = Append(SubSeq(pieces, 1, n - 1), piece)
    BY <1>1
  <2> QED BY <2>1, <2>2, <1>2
<1>6. FlattenSeq(more) = before \o line
  <2> HIDE DEF line, written
  <2>1. written \in Seq(Seq(Pieces)) /\ line \in Seq(Pieces)
    BY <1>2, <1>3
  <2> QED BY <2>1, FlattenAppend DEF before
<1>7. before \o line \in B
  <2> HIDE DEF line
  <2> QED BY <1>3, <1>4
<1> HIDE DEF line
<1>8. /\ more \in Seq(B) /\ Len(more) = Len(written) + 1 /\ more[Len(written) + 1] = line /\ Len(written) \in Nat
      /\ \A i \in 1..Len(written) : more[i] = written[i]
  <2> HIDE DEF B, written
  <2> QED BY <1>2, <1>3
<1> HIDE DEF written, piece, more
<1>9. CASE piece \in Ends
  <2>1. SplitAt(at, piece) = [lines |-> more, line |-> <<>>]
    BY <1>9 DEF SplitAt, line, written, more
  <2>2. SplitAt(at, piece) \in SplitPlaces
    BY <2>1, <1>3, <1>8 DEF SplitPlaces
  <2>3. \A i \in 1..Len(more) : Len(more[i]) <= n
    <3> TAKE i \in 1..Len(more)
    <3>1. CASE i = Len(written) + 1
      BY <3>1, <1>1, <1>2, <1>3, <1>8
    <3>2. CASE i # Len(written) + 1
      <4>1. i \in 1..Len(written)
        BY <3>2, <1>8
      <4> DEFINE l == written[i]
      <4>2. l \in B /\ Len(l) <= n - 1 /\ more[i] = l
        <5>1. written[i] \in B
          <6> HIDE DEF B
          <6> QED BY <4>1, <1>2, ElementOfSeq
        <5> QED BY <4>1, <5>1, <1>2, <1>8
      <4> HIDE DEF l
      <4>3. Len(l) \in Nat
        BY <4>2
      <4> QED BY <4>2, <4>3, <1>1
    <3> QED BY <3>1, <3>2
  <2>4. FlattenSeq(more) \o <<>> = SubSeq(pieces, 1, n)
    BY <1>5, <1>6, <1>7, ConcatEmptySeq
  <2>5. Len(<<>>) <= n
    BY <1>1
  <2> QED BY <2>1, <2>2, <2>3, <2>4, <2>5 DEF SplitUpTo, piece
<1>10. CASE piece \notin Ends
  <2>1. SplitAt(at, piece) = [lines |-> written, line |-> line]
    BY <1>10 DEF SplitAt, line, written
  <2>2. SplitAt(at, piece) \in SplitPlaces
    BY <2>1, <1>2, <1>3 DEF SplitPlaces
  <2>3. \A i \in 1..Len(written) : Len(written[i]) <= n
    <3> TAKE i \in 1..Len(written)
    <3> DEFINE l == written[i]
    <3>1. l \in B /\ Len(l) <= n - 1
      <4>1. written[i] \in B
        <5> HIDE DEF B
        <5> QED BY <1>2, ElementOfSeq
      <4> QED BY <4>1, <1>2
    <3> HIDE DEF l
    <3>2. Len(l) \in Nat
      BY <3>1
    <3>3. Len(l) <= n
      BY <3>1, <3>2, <1>1
    <3> QED BY <3>3 DEF l
  <2>4. FlattenSeq(written) \o line = SubSeq(pieces, 1, n)
    BY <1>5 DEF before
  <2>5. Len(line) <= n
    BY <1>1, <1>2, <1>3
  <2> QED BY <2>1, <2>2, <2>3, <2>4, <2>5 DEF SplitUpTo, piece
<1> QED BY <1>9, <1>10

LEMMA LinesIs ==
  ASSUME NEW pieces \in Seq(Pieces), Len(pieces) <= MaxPieces
  PROVE  Lines(pieces) \in Seq(LineSet) /\ Pieced(Lines(pieces)) = pieces
<1> DEFINE N == Len(pieces)
           B == Seq(Pieces)
<1>1. PICK f : IsSplit(f, pieces)
  BY LinesUnroll
<1>2. /\ N \in Nat /\ f[0] = [lines |-> <<>>, line |-> <<>>]
      /\ Lines(pieces) = Append(f[N].lines, f[N].line)
      /\ \A n \in 1..N : f[n] = SplitAt(f[n - 1], pieces[n])
  BY <1>1 DEF IsSplit
<1> DEFINE S == {n \in 0..N : SplitUpTo(f[n], pieces, n)}
<1>3. 0 \in S
  <2> DEFINE none == <<>>
  <2>1. none \in Seq(B) /\ none \in B /\ Len(none) = 0 /\ SubSeq(pieces, 1, 0) = none
    OBVIOUS
  <2>2. FlattenSeq(none) = none /\ none \o none = none
    BY FlattenEmpty
  <2>3. f[0].lines = none /\ f[0].line = none /\ f[0] \in SplitPlaces
    BY <1>2 DEF SplitPlaces
  <2> HIDE DEF none
  <2>4. SplitUpTo(f[0], pieces, 0)
    BY <2>1, <2>2, <2>3 DEF SplitUpTo
  <2> QED BY <2>4, <1>2
<1>4. ASSUME NEW n \in 0..(N - 1), n \in S PROVE n + 1 \in S
  <2> DEFINE m == n + 1
  <2>1. m \in 1..N /\ m \in 0..N /\ m - 1 = n
    BY <1>2
  <2>2. SplitUpTo(f[n], pieces, m - 1) /\ f[m] = SplitAt(f[n], pieces[m])
    BY <2>1, <1>2, <1>4
  <2> HIDE DEF m
  <2>3. SplitUpTo(f[m], pieces, m)
    BY <2>1, <2>2, SplitStep
  <2> QED BY <2>1, <2>3 DEF m
<1>5. 0..N \subseteq S
  <2> HIDE DEF S, N
  <2> QED BY <1>2, <1>3, <1>4, UpToInduction
<1>6. SplitUpTo(f[N], pieces, N)
  BY <1>2, <1>5
<1> DEFINE written == f[N].lines
           line == f[N].line
           all == Append(written, line)
<1>7. /\ written \in Seq(B) /\ line \in B /\ Len(line) <= N /\ \A i \in 1..Len(written) : Len(written[i]) <= N
      /\ FlattenSeq(written) \o line = SubSeq(pieces, 1, N)
  BY <1>6 DEF SplitUpTo, SplitPlaces
<1> HIDE DEF written, line
<1>8. /\ all \in Seq(B) /\ Len(all) = Len(written) + 1 /\ all[Len(written) + 1] = line /\ Len(written) \in Nat
      /\ \A i \in 1..Len(written) : all[i] = written[i]
  <2> HIDE DEF B
  <2> QED BY <1>7
<1>9. SubSeq(pieces, 1, N) = pieces
  BY SubSeqFull
<1>10. FlattenSeq(all) = pieces
  <2>1. written \in Seq(Seq(Pieces)) /\ line \in Seq(Pieces)
    BY <1>7
  <2> HIDE DEF N
  <2>2. FlattenSeq(all) = FlattenSeq(written) \o line
    BY <2>1, FlattenAppend
  <2> QED BY <2>2, <1>7, <1>9
<1> HIDE DEF all
<1>11. \A i \in 1..Len(all) : all[i] \in LineSet /\ all[i] # ErrorLine
  <2> TAKE i \in 1..Len(all)
  <2> DEFINE l == all[i]
  <2>1. l \in B /\ Len(l) <= N
    <3>1. l \in B
      <4> HIDE DEF B
      <4> QED BY <1>8, ElementOfSeq
    <3>2. CASE i = Len(written) + 1
      BY <3>1, <3>2, <1>7, <1>8
    <3>3. CASE i # Len(written) + 1
      <4>1. i \in 1..Len(written)
        BY <3>3, <1>8
      <4> QED BY <3>1, <4>1, <1>7, <1>8
    <3> QED BY <3>2, <3>3
  <2> HIDE DEF l
  <2>2. Len(l) \in Nat /\ Len(l) <= MaxPieces
    BY <2>1, <1>2, PiecesAssumption
  <2>3. l \in SeqOf(Pieces, MaxPieces)
    BY <2>1, <2>2, SeqOfIs, PiecesAssumption
  <2> QED BY <2>3, PiecesAssumption DEF LineSet, l
<1>12. all \in Seq(LineSet)
  <2>1. all \in [1..Len(all) -> LineSet] /\ Len(all) \in Nat
    <3> HIDE DEF B
    <3>1. all \in [1..Len(all) -> B] /\ Len(all) \in Nat
      BY <1>8, LenProperties
    <3> QED BY <3>1, <1>11
  <2> QED BY <2>1
<1>13. Pieced(all) = FlattenSeq(all)
  BY <1>11, <1>12, PiecedReal
<1> QED BY <1>2, <1>10, <1>12, <1>13 DEF all, written, line

-----------------------------------------------------------------------------
(* Log page: how far a reader is.                                            *)

LogPieces == SeqOf(Pieces, MaxPieces)
States == {"asked", "reads", "unzips", "fails", "ended"}

ReaderRecords ==
    [path : Paths, state : States, read : 0..MaxPieces, text : LogPieces, line : Seq(Pieces),
     first : BOOLEAN, out : Seq(LineSet), open : BOOLEAN, channel : Seq(LineSet)]

\* What is in the unfinished line was read, and before the log is opened there is nothing to send.
LogReaders ==
    {reader \in ReaderRecords :
        Len(reader.line) <= reader.read /\ (reader.state = "asked" => reader.out = <<>>)}

LEMMA ReaderFields ==
  ASSUME NEW reader \in LogReaders
  PROVE  /\ reader.path \in Paths /\ reader.state \in States /\ reader.read \in 0..MaxPieces
         /\ reader.read \in Nat /\ reader.text \in LogPieces /\ reader.line \in Seq(Pieces)
         /\ reader.first \in BOOLEAN /\ reader.out \in Seq(LineSet) /\ reader.open \in BOOLEAN
         /\ reader.channel \in Seq(LineSet) /\ Len(reader.line) <= reader.read
         /\ reader.text \in Seq(Pieces) /\ Len(reader.text) <= MaxPieces
         /\ reader.state = "asked" => reader.out = <<>>
<1>1. /\ reader \in ReaderRecords /\ Len(reader.line) <= reader.read
      /\ reader.state = "asked" => reader.out = <<>>
  BY DEF LogReaders
<1>2. /\ reader.path \in Paths /\ reader.state \in States /\ reader.read \in 0..MaxPieces
      /\ reader.text \in LogPieces /\ reader.line \in Seq(Pieces)
      /\ reader.first \in BOOLEAN /\ reader.out \in Seq(LineSet) /\ reader.open \in BOOLEAN
      /\ reader.channel \in Seq(LineSet)
  BY <1>1 DEF ReaderRecords
<1>3. MaxPieces \in Nat
  BY PiecesAssumption
<1>4. reader.text \in Seq(Pieces) /\ Len(reader.text) <= MaxPieces
  BY <1>2, <1>3, SeqOfIs DEF LogPieces
<1> QED BY <1>1, <1>2, <1>3, <1>4

\* What of the log is on its way to the page, in the field or beyond it.
Way(written, reader) == Pieced(written \o reader.channel \o reader.out)

\* How far a reader is, and that all it has read is on its way or in its line.
Reading(written, reader, text) ==
    /\ reader.state = "asked" => Way(written, reader) = <<>> /\ reader.read = 0
    /\ reader.state = "reads" =>
           /\ reader.path \in Plain /\ reader.read <= Len(text)
           /\ Way(written, reader) \o reader.line = SubSeq(text, 1, reader.read)
    /\ reader.state = "unzips" =>
           /\ reader.path \in Zipped /\ reader.read <= Len(text)
           /\ Way(written, reader) = SubSeq(text, 1, reader.read)
    /\ reader.state \in {"fails", "ended"} => \E k \in 0..Len(text) : Way(written, reader) = SubSeq(text, 1, k)

LEMMA WayIs ==
  ASSUME NEW written \in Seq(LineSet), NEW reader \in LogReaders
  PROVE  /\ Way(written, reader) \in Seq(Pieces)
         /\ Way(written, reader) = Pieced(written \o reader.channel) \o Pieced(reader.out)
         /\ written \o reader.channel \in Seq(LineSet)
         /\ written \o reader.channel \o reader.out \in Seq(LineSet)
<1>1. reader.channel \in Seq(LineSet) /\ reader.out \in Seq(LineSet)
  BY ReaderFields
<1>2. written \o reader.channel \in Seq(LineSet)
  BY <1>1, PiecedConcat
<1>3. /\ (written \o reader.channel) \o reader.out \in Seq(LineSet)
      /\ Pieced((written \o reader.channel) \o reader.out) = Pieced(written \o reader.channel) \o Pieced(reader.out)
  BY <1>1, <1>2, PiecedConcat
<1>4. Pieced((written \o reader.channel) \o reader.out) \in Seq(Pieces)
  BY <1>3, PiecedIs
<1> QED BY <1>2, <1>3, <1>4 DEF Way

-----------------------------------------------------------------------------
(* What is read next.                                                        *)

LEMMA NextReadIs ==
  ASSUME NEW text \in Seq(Pieces), NEW from \in Nat
  PROVE  /\ NextRead(text, from) \in Seq(Pieces) /\ Len(NextRead(text, from)) \in Nat
         /\ from <= Len(text) =>
                /\ from + Len(NextRead(text, from)) <= Len(text)
                /\ SubSeq(text, 1, from) \o NextRead(text, from) = SubSeq(text, 1, from + Len(NextRead(text, from)))
         /\ from > Len(text) => NextRead(text, from) = <<>>
<1> DEFINE N == Len(text)
           ends == {i \in (from + 1)..N : text[i] \in Ends}
           to == IF ends = {} THEN N ELSE Min(ends)
           got == SubSeq(text, from + 1, to)
<1>1. N \in Nat /\ \A i \in 1..N : text[i] \in Pieces
  BY ElementOfSeq
<1>2. to = N \/ to \in (from + 1)..N
  <2>1. CASE ends # {}
    <3>1. ends \subseteq Nat
      BY <1>1
    <3> HIDE DEF ends
    <3>2. \E x \in ends : \A y \in ends : x <= y
      BY <2>1, <3>1, LeastNumber
    <3>3. Min(ends) \in ends
      BY <3>2 DEF Min
    <3> QED BY <2>1, <3>3 DEF ends
  <2>2. CASE ends = {}
    BY <2>2
  <2> QED BY <2>1, <2>2
<1>3. NextRead(text, from) = got
  BY DEF NextRead
<1> HIDE DEF to
<1>4. to \in 0..N
  BY <1>1, <1>2
<1>5. \A i \in (from + 1)..to : text[i] \in Pieces
  BY <1>1, <1>4
<1>6. got \in Seq(Pieces) /\ Len(got) = IF from + 1 <= to THEN to - (from + 1) + 1 ELSE 0
  BY <1>1, <1>4, <1>5, SubSeqProperties
<1>7. CASE from <= N
  <2>1. from <= to
    BY <1>1, <1>2, <1>7
  <2>2. Len(got) = to - from
    BY <1>1, <1>4, <1>6, <2>1
  <2>3. 1 \in 1..(N + 1) /\ from \in (1 - 1)..N /\ to \in from..N
    BY <1>1, <1>4, <1>7, <2>1
  <2>4. SubSeq(text, 1, from) \o SubSeq(text, from + 1, to) = SubSeq(text, 1, to)
    BY <2>3, ConcatAdjacentSubSeq
  <2>5. from + Len(got) = to /\ to <= N /\ Len(got) \in Nat
    BY <1>4, <2>1, <2>2, <1>1
  <2>6. to = from + Len(got)
    BY <1>4, <2>1, <2>2, <1>1
  <2>7. SubSeq(text, 1, from) \o got = SubSeq(text, 1, from + Len(got))
    BY <2>4, <2>6
  <2>8. got \in Seq(Pieces)
    BY <1>6
  <2> HIDE DEF got
  <2>9. ~ (from > N)
    BY <1>1, <1>7
  <2> QED BY <1>3, <2>5, <2>7, <2>8, <2>9
<1>8. CASE from > N
  <2>1. to < from + 1
    BY <1>1, <1>4, <1>8
  <2>2. got = <<>>
    BY <2>1, <1>4, <1>1, SubSeqEmpty
  <2> QED BY <1>3, <1>6, <1>8, <2>2, <1>1
<1> QED BY <1>1, <1>7, <1>8

\* A prefix of what a log holds is one of what it will hold.
LEMMA PrefixGrows ==
  ASSUME NEW text \in Seq(Pieces), NEW piece \in Pieces, NEW k \in 0..Len(text)
  PROVE  /\ SubSeq(Append(text, piece), 1, k) = SubSeq(text, 1, k)
         /\ k \in 0..Len(Append(text, piece)) /\ k <= Len(Append(text, piece))
OBVIOUS

LEMMA ReadingGrows ==
  ASSUME NEW written, NEW reader, NEW text \in Seq(Pieces), NEW piece \in Pieces, reader.read \in Nat,
         Reading(written, reader, text)
  PROVE  Reading(written, reader, Append(text, piece))
<1> DEFINE more == Append(text, piece)
           way == Way(written, reader)
           read == reader.read
<1>1. \A k \in 0..Len(text) : SubSeq(more, 1, k) = SubSeq(text, 1, k) /\ k \in 0..Len(more) /\ k <= Len(more)
  BY PrefixGrows
<1>2. read <= Len(text) => read \in 0..Len(text)
  OBVIOUS
<1>3. /\ reader.state = "asked" => way = <<>> /\ read = 0
      /\ reader.state = "reads" =>
             reader.path \in Plain /\ read <= Len(text) /\ way \o reader.line = SubSeq(text, 1, read)
      /\ reader.state = "unzips" =>
             reader.path \in Zipped /\ read <= Len(text) /\ way = SubSeq(text, 1, read)
      /\ reader.state \in {"fails", "ended"} => \E k \in 0..Len(text) : way = SubSeq(text, 1, k)
  BY DEF Reading
<1> HIDE DEF more, way, read
<1>4. reader.state = "reads" => read <= Len(more) /\ way \o reader.line = SubSeq(more, 1, read)
  BY <1>1, <1>2, <1>3
<1>5. reader.state = "unzips" => read <= Len(more) /\ way = SubSeq(more, 1, read)
  BY <1>1, <1>2, <1>3
<1>6. reader.state \in {"fails", "ended"} => \E k \in 0..Len(more) : way = SubSeq(more, 1, k)
  BY <1>1, <1>3
<1> QED BY <1>3, <1>4, <1>5, <1>6 DEF Reading, more, way, read

\* What ReadUntil and ReadZipped make of a reader.
UntilRead(reader, text) ==
    LET got == NextRead(text, reader.read)
        line == reader.line \o got
        next == [reader EXCEPT !.read = @ + Len(got), !.line = <<>>, !.first = FALSE]
    IN  IF ~IsText(line) THEN End(next)
        ELSE [next EXCEPT !.out = IF reader.first THEN Lines(line) ELSE <<line>>]

ZippedRead(reader) ==
    LET got == NextRead(reader.text, reader.read)
        next == [reader EXCEPT !.read = @ + Len(got)]
    IN  IF got = <<>> THEN End(reader)
        ELSE IF IsText(got) THEN [next EXCEPT !.out = <<got>>]
        ELSE [next EXCEPT !.out = <<ErrorLine>>, !.state = "fails"]

Sent(reader) == Send([reader EXCEPT !.out = Tail(@)], <<Head(reader.out)>>)
Closed(reader) == End([reader EXCEPT !.out = <<>>])

\* The reader is another one only in what it does.
SameReader(a, b) == b.path = a.path /\ b.open = a.open /\ b.text = a.text

LEMMA EndIs ==
  ASSUME NEW reader \in LogReaders
  PROVE  /\ End(reader) \in LogReaders /\ SameReader(reader, End(reader))
         /\ End(reader).state = "ended" /\ End(reader).out = reader.out /\ End(reader).channel = reader.channel
<1> DEFINE new == End(reader)
<1>1. reader \in ReaderRecords /\ Len(reader.line) <= reader.read
  BY DEF LogReaders
<1>2. /\ new \in ReaderRecords /\ new.line = reader.line /\ new.read = reader.read /\ new.state = "ended"
      /\ new.path = reader.path /\ new.open = reader.open /\ new.text = reader.text
      /\ new.out = reader.out /\ new.channel = reader.channel
  BY <1>1 DEF ReaderRecords, States, End
<1> HIDE DEF new
<1>3. new \in LogReaders
  BY <1>1, <1>2 DEF LogReaders
<1> QED BY <1>2, <1>3 DEF SameReader, new

LEMMA WaySame ==
  ASSUME NEW written, NEW a, NEW b, b.out = a.out, b.channel = a.channel
  PROVE  Way(written, b) = Way(written, a)
BY DEF Way

\* Any prefix of a log is one up to some number.
LEMMA PrefixOf ==
  ASSUME NEW S, NEW text \in Seq(S), NEW a \in Seq(S), NEW b \in Seq(S), NEW n \in 0..Len(text),
         a \o b = SubSeq(text, 1, n)
  PROVE  Len(a) \in 0..Len(text) /\ a = SubSeq(text, 1, Len(a))
<1> DEFINE c == a \o b
<1>1. /\ Len(a) \in Nat /\ Len(b) \in Nat /\ c \in Seq(S) /\ Len(c) = Len(a) + Len(b)
      /\ \A i \in 1..Len(a) : c[i] = a[i]
  OBVIOUS
<1>2. c = SubSeq(text, 1, n)
  OBVIOUS
<1> HIDE DEF c
<1>3. Len(c) = n /\ \A i \in 1..n : c[i] = text[i]
  BY <1>2
<1>4. Len(a) \in 0..n /\ Len(text) \in Nat
  BY <1>1, <1>3
<1>5. \A i \in 1..Len(a) : a[i] = text[i]
  BY <1>1, <1>3, <1>4
<1> DEFINE d == SubSeq(text, 1, Len(a))
<1>6. d \in Seq(S) /\ Len(d) = Len(a) /\ \A i \in 1..Len(a) : d[i] = text[i]
  BY <1>4
<1> HIDE DEF d
<1>7. a = d
  BY <1>5, <1>6, SeqEqual
<1> QED BY <1>4, <1>7 DEF d

LEMMA UntilReadIs ==
  ASSUME NEW reader \in LogReaders, NEW text \in LogPieces, NEW written \in Seq(LineSet),
         reader.state = "reads", reader.out = <<>>, NextRead(text, reader.read) # <<>>
  PROVE  /\ UntilRead(reader, text) \in LogReaders /\ SameReader(reader, UntilRead(reader, text))
         /\ UntilRead(reader, text).state \in {"reads", "ended"}
         /\ Reading(written, reader, text) => Reading(written, UntilRead(reader, text), text)
<1> DEFINE got == NextRead(text, reader.read)
           line == reader.line \o got
           read == reader.read + Len(got)
           next == [reader EXCEPT !.read = @ + Len(got), !.line = <<>>, !.first = FALSE]
           shown == IF reader.first THEN Lines(line) ELSE <<line>>
           more == [next EXCEPT !.out = shown]
           new == UntilRead(reader, text)
           way == Way(written, reader)
<1>1. /\ text \in Seq(Pieces) /\ Len(text) <= MaxPieces /\ MaxPieces \in Nat /\ Len(text) \in Nat
  BY SeqOfIs, PiecesAssumption DEF LogPieces
<1>2. /\ reader.read \in Nat /\ reader.line \in Seq(Pieces) /\ Len(reader.line) <= reader.read
      /\ reader.channel \in Seq(LineSet) /\ reader.out \in Seq(LineSet)
  BY ReaderFields
<1>3. /\ got \in Seq(Pieces) /\ Len(got) \in Nat /\ reader.read <= Len(text) /\ read <= Len(text)
      /\ SubSeq(text, 1, reader.read) \o got = SubSeq(text, 1, read)
  <2>1. /\ got \in Seq(Pieces) /\ Len(got) \in Nat
        /\ reader.read <= Len(text) =>
               read <= Len(text) /\ SubSeq(text, 1, reader.read) \o got = SubSeq(text, 1, read)
        /\ reader.read > Len(text) => got = <<>>
    BY <1>1, <1>2, NextReadIs
  <2> HIDE DEF got
  <2>2. reader.read <= Len(text)
    BY <2>1, <1>1, <1>2 DEF got
  <2> QED BY <2>1, <2>2
<1>4. new = IF ~IsText(line) THEN End(next) ELSE more
  BY DEF UntilRead
<1> HIDE DEF got
<1>5. line \in Seq(Pieces) /\ Len(line) = Len(reader.line) + Len(got) /\ Len(reader.line) \in Nat
  BY <1>2, <1>3
<1>6. Len(line) <= MaxPieces /\ read \in 0..MaxPieces
  <2> HIDE DEF line
  <2> QED BY <1>1, <1>2, <1>3, <1>5, SMTT(30)
<1>7. shown \in Seq(LineSet) /\ Pieced(shown) = line
  <2> HIDE DEF line
  <2>1. line \in LineSet /\ LinePieces(line) = line
    BY <1>5, <1>6, RealLine
  <2>2. Lines(line) \in Seq(LineSet) /\ Pieced(Lines(line)) = line
    BY <1>5, <1>6, LinesIs
  <2>3. <<line>> \in Seq(LineSet) /\ Pieced(<<line>>) = line
    BY <2>1, PiecedOne
  <2> QED BY <2>2, <2>3
<1> HIDE DEF line, shown
<1>0. \A u, v, w \in Seq(Pieces) : (u \o v) \o w = u \o (v \o w)
  BY ConcatAssociative
<1>8. /\ next \in ReaderRecords /\ next.read = read /\ next.line = <<>> /\ next.state = "reads"
      /\ next.path = reader.path /\ next.open = reader.open /\ next.text = reader.text
      /\ next.out = reader.out /\ next.channel = reader.channel
  <2>1. reader \in ReaderRecords /\ read \in 0..MaxPieces /\ <<>> \in Seq(Pieces)
    BY <1>6 DEF LogReaders
  <2>2. next = [reader EXCEPT !.read = read, !.line = <<>>, !.first = FALSE]
    OBVIOUS
  <2> HIDE DEF next, read
  <2> QED BY <2>1, <2>2 DEF ReaderRecords
<1> HIDE DEF next
<1>9. next \in LogReaders
  BY <1>6, <1>8 DEF LogReaders
<1>10. /\ more \in ReaderRecords /\ more.read = read /\ more.line = <<>> /\ more.state = "reads"
       /\ more.path = reader.path /\ more.open = reader.open /\ more.text = reader.text
       /\ more.out = shown /\ more.channel = reader.channel
  BY <1>7, <1>8 DEF ReaderRecords
<1> HIDE DEF more
<1>11. more \in LogReaders
  BY <1>6, <1>10 DEF LogReaders
<1>12. CASE IsText(line)
  <2>1. new = more
    BY <1>4, <1>12
  <2>2. SameReader(reader, more)
    BY <1>10 DEF SameReader
  <2>3. ASSUME Reading(written, reader, text) PROVE Reading(written, more, text)
    <3>1. reader.path \in Plain /\ way \o reader.line = SubSeq(text, 1, reader.read)
      BY <2>3 DEF Reading
    <3>2. way \in Seq(Pieces) /\ way = Pieced(written \o reader.channel) \o Pieced(reader.out)
          /\ written \o reader.channel \in Seq(LineSet)
      BY WayIs
    <3>3. Way(written, more) = Pieced(written \o reader.channel) \o Pieced(shown)
      <4> DEFINE sent == written \o reader.channel
      <4>1. sent \in Seq(LineSet) /\ shown \in Seq(LineSet)
        BY <3>2, <1>7
      <4>2. Way(written, more) = Pieced(sent \o shown)
        BY <1>10 DEF Way
      <4> HIDE DEF sent
      <4>3. Pieced(sent \o shown) = Pieced(sent) \o Pieced(shown)
        BY <4>1, PiecedConcat
      <4> QED BY <4>2, <4>3 DEF sent
    <3> DEFINE base == Pieced(written \o reader.channel)
    <3>4. base \in Seq(Pieces)
      BY <3>2, PiecedIs
    <3> HIDE DEF base
    <3>5. way = base
      <4>1. way = base \o <<>>
        BY <3>2, PiecedEmpty DEF base
      <4> QED BY <4>1, <3>4, ConcatEmptySeq
    <3> HIDE DEF way
    <3>6. base \o line = SubSeq(text, 1, read)
      <4> DEFINE last == reader.line
      <4>1. last \in Seq(Pieces) /\ line = last \o got /\ base \o last = SubSeq(text, 1, reader.read)
        BY <1>2, <3>1, <3>5 DEF line
      <4> HIDE DEF last
      <4>2. base \o (last \o got) = (base \o last) \o got
        BY <4>1, <3>4, <1>3, <1>0
      <4> QED BY <4>1, <4>2, <1>3
    <3>7. Way(written, more) = base \o line
      BY <3>3, <1>7 DEF base
    <3>8. base \o line \in Seq(Pieces)
      BY <3>4, <1>5
    <3>9. Way(written, more) \o more.line = SubSeq(text, 1, read)
      BY <3>6, <3>7, <3>8, <1>10, ConcatEmptySeq
    <3> HIDE DEF read
    <3> QED BY <3>1, <3>9, <1>3, <1>10 DEF Reading
  <2> QED BY <2>1, <2>2, <2>3, <1>10, <1>11
<1>13. CASE ~ IsText(line)
  <2>1. new = End(next)
    BY <1>4, <1>13
  <2>2. /\ new \in LogReaders /\ SameReader(next, new) /\ new.state = "ended"
        /\ new.out = next.out /\ new.channel = next.channel
    BY <2>1, <1>9, EndIs
  <2> HIDE DEF new
  <2>3. SameReader(reader, new) /\ Way(written, new) = way
    BY <2>2, <1>8, WaySame DEF SameReader
  <2>4. ASSUME Reading(written, reader, text) PROVE Reading(written, new, text)
    <3>1. way \o reader.line = SubSeq(text, 1, reader.read)
      BY <2>4 DEF Reading
    <3>2. way \in Seq(Pieces) /\ reader.read \in 0..Len(text)
      BY WayIs, <1>1, <1>2, <1>3
    <3> HIDE DEF way
    <3>3. \E k \in 0..Len(text) : way = SubSeq(text, 1, k)
      <4> DEFINE last == reader.line
                 n == reader.read
      <4>1. last \in Seq(Pieces) /\ n \in 0..Len(text) /\ way \o last = SubSeq(text, 1, n)
        BY <3>1, <3>2, <1>2
      <4> HIDE DEF last, n
      <4>2. Len(way) \in 0..Len(text) /\ way = SubSeq(text, 1, Len(way))
        BY <4>1, <3>2, <1>1, PrefixOf
      <4> QED BY <4>2
    <3> QED BY <3>3, <2>2, <2>3 DEF Reading
  <2> QED BY <2>2, <2>3, <2>4 DEF new
<1> QED BY <1>12, <1>13

LEMMA ErrorIs == ErrorLine \in LineSet /\ <<ErrorLine>> \in Seq(LineSet) /\ Pieced(<<ErrorLine>>) = <<>>
<1>1. ErrorLine \in LineSet /\ LinePieces(ErrorLine) = <<>>
  BY DEF LineSet, LinePieces
<1> QED BY <1>1, PiecedOne

LEMMA WayOut ==
  ASSUME NEW written \in Seq(LineSet), NEW reader \in LogReaders, reader.out = <<>>,
         NEW new, NEW shown \in Seq(LineSet), new.channel = reader.channel, new.out = shown
  PROVE  Way(written, new) = Way(written, reader) \o Pieced(shown)
<1> DEFINE sent == written \o reader.channel
           base == Pieced(sent)
<1>1. sent \in Seq(LineSet) /\ Way(written, reader) = base \o Pieced(reader.out)
  BY WayIs
<1>2. Way(written, new) = Pieced(sent \o shown)
  BY DEF Way
<1> HIDE DEF sent
<1>3. base \in Seq(Pieces) /\ Pieced(sent \o shown) = base \o Pieced(shown)
  BY <1>1, PiecedConcat, PiecedIs
<1> HIDE DEF base
<1>4. base \o <<>> = base
  BY <1>3, ConcatEmptySeq
<1> QED BY <1>1, <1>2, <1>3, <1>4, PiecedEmpty

LEMMA ZippedReadIs ==
  ASSUME NEW reader \in LogReaders, NEW written \in Seq(LineSet),
         reader.state = "unzips", reader.out = <<>>
  PROVE  /\ ZippedRead(reader) \in LogReaders /\ SameReader(reader, ZippedRead(reader))
         /\ ZippedRead(reader).state \in {"unzips", "fails", "ended"}
         /\ Reading(written, reader, reader.text) => Reading(written, ZippedRead(reader), reader.text)
<1> DEFINE text == reader.text
           got == NextRead(text, reader.read)
           read == reader.read + Len(got)
           next == [reader EXCEPT !.read = @ + Len(got)]
           more == [next EXCEPT !.out = <<got>>]
           bad == [next EXCEPT !.out = <<ErrorLine>>, !.state = "fails"]
           new == ZippedRead(reader)
           way == Way(written, reader)
<1>1. /\ text \in Seq(Pieces) /\ Len(text) <= MaxPieces /\ MaxPieces \in Nat /\ Len(text) \in Nat
  BY ReaderFields, PiecesAssumption
<1>2. /\ reader.read \in Nat /\ Len(reader.line) <= reader.read /\ reader.line \in Seq(Pieces)
      /\ reader \in ReaderRecords
  BY ReaderFields DEF LogReaders
<1> HIDE DEF text
<1>3. /\ got \in Seq(Pieces) /\ Len(got) \in Nat
      /\ reader.read <= Len(text) =>
             read <= Len(text) /\ SubSeq(text, 1, reader.read) \o got = SubSeq(text, 1, read)
      /\ reader.read > Len(text) => got = <<>>
  BY <1>1, <1>2, NextReadIs
<1>4. new = IF got = <<>> THEN End(reader) ELSE IF IsText(got) THEN more ELSE bad
  BY DEF ZippedRead, text
<1> HIDE DEF got
<1>5. way \in Seq(Pieces)
  BY WayIs
<1>6. ASSUME Reading(written, reader, text)
      PROVE  /\ reader.path \in Zipped /\ reader.read <= Len(text) /\ way = SubSeq(text, 1, reader.read)
             /\ \E k \in 0..Len(text) : way = SubSeq(text, 1, k)
  <2>1. reader.path \in Zipped /\ reader.read <= Len(text) /\ way = SubSeq(text, 1, reader.read)
    BY <1>6 DEF Reading
  <2>2. reader.read \in 0..Len(text)
    BY <2>1, <1>1, <1>2
  <2> QED BY <2>1, <2>2
<1> HIDE DEF new
<1>7. CASE got = <<>>
  <2>1. new = End(reader)
    BY <1>4, <1>7
  <2>2. /\ new \in LogReaders /\ SameReader(reader, new) /\ new.state = "ended"
        /\ new.out = reader.out /\ new.channel = reader.channel
    BY <2>1, EndIs
  <2>3. Way(written, new) = way
    BY <2>2, WaySame
  <2> HIDE DEF way
  <2>4. Reading(written, reader, text) => Reading(written, new, text)
    BY <2>2, <2>3, <1>6 DEF Reading
  <2> QED BY <2>2, <2>4 DEF new, text
<1>8. CASE got # <<>>
  <2>1. reader.read <= Len(text) /\ read <= Len(text) /\ SubSeq(text, 1, reader.read) \o got = SubSeq(text, 1, read)
        /\ read \in 0..MaxPieces /\ Len(got) <= MaxPieces /\ Len(reader.line) <= read
    <3>1. Len(reader.line) \in Nat
      BY <1>2
    <3>2. reader.read <= Len(text)
      BY <1>1, <1>2, <1>3, <1>8
    <3>3. read <= Len(text) /\ SubSeq(text, 1, reader.read) \o got = SubSeq(text, 1, read)
      BY <3>2, <1>3
    <3>4. read \in 0..MaxPieces /\ Len(got) <= MaxPieces /\ Len(reader.line) <= read
      BY <3>1, <3>3, <1>1, <1>2, <1>3
    <3> HIDE DEF read
    <3> QED BY <3>2, <3>3, <3>4
  <2>2. got \in LineSet /\ LinePieces(got) = got
    BY <1>3, <2>1, RealLine
  <2>3. <<got>> \in Seq(LineSet) /\ Pieced(<<got>>) = got
    BY <2>2, PiecedOne
  <2>4. next = [reader EXCEPT !.read = read]
    OBVIOUS
  <2> HIDE DEF next, read
  <2>5. /\ next \in ReaderRecords /\ next.read = read /\ next.line = reader.line /\ next.state = "unzips"
        /\ next.path = reader.path /\ next.open = reader.open /\ next.text = reader.text
        /\ next.channel = reader.channel
    BY <1>2, <2>1, <2>4 DEF ReaderRecords
  <2>6. CASE IsText(got)
    <3>1. new = more
      BY <1>4, <1>8, <2>6
    <3> DEFINE out == <<got>>
    <3>2. out \in Seq(LineSet) /\ Pieced(out) = got
      BY <2>3
    <3>3. more = [next EXCEPT !.out = out]
      OBVIOUS
    <3> HIDE DEF out, more
    <3>4. /\ more \in ReaderRecords /\ more.read = read /\ more.line = reader.line /\ more.state = "unzips"
          /\ more.path = reader.path /\ more.open = reader.open /\ more.text = reader.text
          /\ more.out = out /\ more.channel = reader.channel
      BY <2>5, <3>2, <3>3 DEF ReaderRecords
    <3>5. more \in LogReaders
      BY <2>1, <3>4 DEF LogReaders
    <3>6. Way(written, more) = way \o got
      BY <3>2, <3>4, WayOut
    <3> HIDE DEF way
    <3>7. Reading(written, reader, text) => Reading(written, more, text)
      BY <3>4, <3>6, <2>1, <1>6 DEF Reading
    <3> QED BY <3>1, <3>4, <3>5, <3>7 DEF SameReader, new, text
  <2>7. CASE ~ IsText(got)
    <3>1. new = bad
      BY <1>4, <1>8, <2>7
    <3> DEFINE out == <<ErrorLine>>
    <3>2. out \in Seq(LineSet) /\ Pieced(out) = <<>>
      BY ErrorIs
    <3>3. bad = [next EXCEPT !.out = out, !.state = "fails"]
      OBVIOUS
    <3> HIDE DEF out, bad
    <3>4. /\ bad \in ReaderRecords /\ bad.read = read /\ bad.line = reader.line /\ bad.state = "fails"
          /\ bad.path = reader.path /\ bad.open = reader.open /\ bad.text = reader.text
          /\ bad.out = out /\ bad.channel = reader.channel
      BY <2>5, <3>2, <3>3 DEF ReaderRecords, States
    <3>5. bad \in LogReaders
      BY <2>1, <3>4 DEF LogReaders
    <3>6. Way(written, bad) = way
      <4>1. Way(written, bad) = way \o <<>>
        BY <3>2, <3>4, WayOut
      <4> HIDE DEF way
      <4> QED BY <4>1, <1>5, ConcatEmptySeq
    <3> HIDE DEF way
    <3>7. Reading(written, reader, text) => Reading(written, bad, text)
      BY <3>4, <3>6, <1>6 DEF Reading
    <3> QED BY <3>1, <3>4, <3>5, <3>7 DEF SameReader, new, text
  <2> QED BY <2>6, <2>7
<1> QED BY <1>7, <1>8

-----------------------------------------------------------------------------

\* A reader that is where it was and whose lines have only moved on.
LEMMA SameWay ==
  ASSUME NEW written, NEW reader, NEW text, NEW after, NEW new, Way(after, new) = Way(written, reader),
         new.state = reader.state, new.read = reader.read, new.line = reader.line, new.path = reader.path,
         Reading(written, reader, text)
  PROVE  Reading(after, new, text)
BY DEF Reading

LEMMA HeadAndTail ==
  ASSUME NEW S, NEW s \in Seq(S), s # <<>>
  PROVE  /\ Head(s) \in S /\ Tail(s) \in Seq(S) /\ <<Head(s)>> \in Seq(S) /\ <<Head(s)>> \o Tail(s) = s
BY HeadTailProperties

LEMMA SentIs ==
  ASSUME NEW reader \in LogReaders, NEW written \in Seq(LineSet), reader.out # <<>>
  PROVE  /\ Sent(reader) \in LogReaders /\ SameReader(reader, Sent(reader))
         /\ Sent(reader).state = reader.state /\ Sent(reader).read = reader.read
         /\ Sent(reader).line = reader.line
         /\ Way(written, Sent(reader)) = Way(written, reader)
<1> DEFINE channel == reader.channel
           out == reader.out
           first == <<Head(out)>>
           rest == Tail(out)
           through == channel \o first
           new == Sent(reader)
<1>1. channel \in Seq(LineSet) /\ out \in Seq(LineSet) /\ out # <<>> /\ reader \in ReaderRecords
  BY ReaderFields DEF LogReaders
<1>2. new = [[reader EXCEPT !.out = rest] EXCEPT !.channel = @ \o first]
  BY DEF Sent, Send
<1> HIDE DEF channel, out
<1>3. first \in Seq(LineSet) /\ rest \in Seq(LineSet) /\ first \o rest = out
  BY <1>1, HeadAndTail
<1> HIDE DEF first, rest
<1>4. through \in Seq(LineSet)
  BY <1>1, <1>3
<1>5. new = [reader EXCEPT !.out = rest, !.channel = through]
  BY <1>1, <1>2 DEF channel, ReaderRecords
<1> HIDE DEF through, new
<1>6. /\ new \in ReaderRecords /\ new.read = reader.read /\ new.line = reader.line /\ new.state = reader.state
      /\ new.path = reader.path /\ new.open = reader.open /\ new.text = reader.text
      /\ new.out = rest /\ new.channel = through
  BY <1>1, <1>3, <1>4, <1>5 DEF ReaderRecords
<1>7. new \in LogReaders
  BY <1>6 DEF LogReaders
<1>8. Way(written, new) = Way(written, reader)
  <2>0. \A u, v, w \in Seq(LineSet) : (u \o v) \o w = u \o (v \o w)
    BY ConcatAssociative
  <2>1. through \o rest = channel \o out
    BY <2>0, <1>1, <1>3, ZenonT(60) DEF through
  <2>2. (written \o through) \o rest = written \o (through \o rest)
    BY <2>0, <1>3, <1>4
  <2>3. (written \o channel) \o out = written \o (channel \o out)
    BY <2>0, <1>1
  <2>4. (written \o through) \o rest = (written \o channel) \o out
    BY <2>1, <2>2, <2>3
  <2>5. (written \o new.channel) \o new.out = (written \o reader.channel) \o reader.out
    BY <2>4, <1>6 DEF channel, out
  <2> QED BY <2>5 DEF Way
<1> QED BY <1>6, <1>7, <1>8 DEF SameReader, new

\* The page takes a line: it is in the field instead of the channel.
LineTaken(reader) == [reader EXCEPT !.channel = Tail(@)]

LEMMA TakenIs ==
  ASSUME NEW reader \in LogReaders, NEW written \in Seq(LineSet), reader.channel # <<>>
  PROVE  /\ LineTaken(reader) \in LogReaders /\ SameReader(reader, LineTaken(reader))
         /\ LineTaken(reader).state = reader.state /\ LineTaken(reader).read = reader.read
         /\ LineTaken(reader).line = reader.line /\ Head(reader.channel) \in LineSet
         /\ Way(written \o <<Head(reader.channel)>>, LineTaken(reader)) = Way(written, reader)
<1> DEFINE channel == reader.channel
           first == <<Head(channel)>>
           rest == Tail(channel)
           new == LineTaken(reader)
<1>1. channel \in Seq(LineSet) /\ channel # <<>> /\ reader \in ReaderRecords
  BY ReaderFields DEF LogReaders
<1>2. new = [reader EXCEPT !.channel = rest]
  BY DEF LineTaken
<1> HIDE DEF channel
<1>3. Head(channel) \in LineSet /\ first \in Seq(LineSet) /\ rest \in Seq(LineSet) /\ first \o rest = channel
  BY <1>1, HeadAndTail
<1> HIDE DEF rest, new
<1>4. /\ new \in ReaderRecords /\ new.read = reader.read /\ new.line = reader.line /\ new.state = reader.state
      /\ new.path = reader.path /\ new.open = reader.open /\ new.text = reader.text
      /\ new.out = reader.out /\ new.channel = rest
  BY <1>1, <1>2, <1>3 DEF ReaderRecords
<1>5. new \in LogReaders
  BY <1>4 DEF LogReaders
<1>6. Way(written \o first, new) = Way(written, reader)
  <2> HIDE DEF first
  <2>0. \A u, v, w \in Seq(LineSet) : (u \o v) \o w = u \o (v \o w)
    BY ConcatAssociative
  <2>1. (written \o first) \o rest = written \o channel
    BY <2>0, <1>3
  <2>2. ((written \o first) \o new.channel) \o new.out = (written \o reader.channel) \o reader.out
    BY <2>1, <1>4 DEF channel
  <2> QED BY <2>2 DEF Way
<1> QED BY <1>3, <1>4, <1>5, <1>6 DEF SameReader, new, channel

LEMMA ClosedIs ==
  ASSUME NEW reader \in LogReaders
  PROVE  Closed(reader) \in LogReaders /\ SameReader(reader, Closed(reader)) /\ Closed(reader).state = "ended"
<1> DEFINE new == [reader EXCEPT !.out = <<>>]
<1>1. new \in LogReaders /\ SameReader(reader, new)
  <2> DEFINE none == <<>>
  <2>1. none \in Seq(LineSet) /\ reader \in ReaderRecords /\ Len(reader.line) <= reader.read /\ new = [reader EXCEPT !.out = none]
    BY DEF LogReaders
  <2> HIDE DEF none, new
  <2>2. /\ new \in ReaderRecords /\ new.read = reader.read /\ new.line = reader.line
        /\ new.path = reader.path /\ new.open = reader.open /\ new.text = reader.text /\ new.out = none
    BY <2>1 DEF ReaderRecords
  <2> QED BY <2>1, <2>2 DEF LogReaders, SameReader, none
<1>2. Closed(reader) = End(new)
  BY DEF Closed
<1> HIDE DEF new
<1> QED BY <1>1, <1>2, EndIs DEF SameReader

LEMMA EndedReads ==
  ASSUME NEW reader \in LogReaders, NEW written \in Seq(LineSet), NEW text, reader.state = "fails",
         Reading(written, reader, text)
  PROVE  Reading(written, End(reader), text)
<1> DEFINE new == End(reader)
<1>1. new.state = "ended" /\ new.out = reader.out /\ new.channel = reader.channel
  BY EndIs
<1> HIDE DEF new
<1>2. Way(written, new) = Way(written, reader)
  BY <1>1, WaySame
<1>3. Reading(written, new, text)
  BY <1>1, <1>2 DEF Reading
<1> QED BY <1>3 DEF new

LogFiles == [there : BOOLEAN, pieces : LogPieces]

\* What ReadLog makes of a reader, of what the file is.
Opened(reader, file) ==
    LET pieces == file.pieces
        buffered == SubSeq(pieces, 1, Min({FirstBuffer, Len(pieces)}))
    IN  IF ~file.there THEN End(IF reader.open THEN Send(reader, <<ErrorLine>>) ELSE reader)
        ELSE IF reader.path \in Zipped THEN [reader EXCEPT !.state = "unzips", !.text = pieces]
        ELSE [reader EXCEPT !.state = "reads", !.read = Len(buffered), !.line = buffered]

\* What a reader reads.
LogOf(reader, fs) == IF reader.path \in Zipped THEN reader.text ELSE fs[reader.path].pieces

LEMMA SmallerOf ==
  ASSUME NEW m \in Nat, NEW n \in Nat
  PROVE  Min({m, n}) \in 0..n
<1> DEFINE S == {m, n}
<1>1. S \subseteq Nat /\ S # {} /\ n \in S
  OBVIOUS
<1> HIDE DEF S
<1>2. \E x \in S : \A y \in S : x <= y
  BY <1>1, LeastNumber
<1>3. Min(S) \in S /\ Min(S) <= n
  BY <1>1, <1>2 DEF Min
<1>4. Min(S) \in Nat
  BY <1>1, <1>3
<1> QED BY <1>3, <1>4 DEF S

LEMMA LogIs ==
  ASSUME NEW pieces
  PROVE  pieces \in LogPieces <=> pieces \in Seq(Pieces) /\ Len(pieces) <= MaxPieces
BY SeqOfIs, PiecesAssumption DEF LogPieces

LEMMA ErrorSent ==
  ASSUME NEW reader \in LogReaders, NEW written \in Seq(LineSet)
  PROVE  /\ Send(reader, <<ErrorLine>>) \in LogReaders /\ SameReader(reader, Send(reader, <<ErrorLine>>))
         /\ Way(written, Send(reader, <<ErrorLine>>)) = Way(written, reader)
<1> DEFINE error == <<ErrorLine>>
           channel == reader.channel
           more == channel \o error
           new == Send(reader, error)
           sent == written \o channel
           base == Pieced(sent)
           out == reader.out
<1>1. error \in Seq(LineSet) /\ Pieced(error) = <<>>
  BY ErrorIs
<1> HIDE DEF error
<1>2. channel \in Seq(LineSet) /\ out \in Seq(LineSet) /\ reader \in ReaderRecords
  BY ReaderFields DEF LogReaders
<1>3. new = [reader EXCEPT !.channel = more]
  BY <1>2 DEF Send, ReaderRecords
<1> HIDE DEF new
<1>4. more \in Seq(LineSet)
  <2> HIDE DEF channel
  <2> QED BY <1>1, <1>2
<1> HIDE DEF more
<1>5. /\ new \in ReaderRecords /\ new.read = reader.read /\ new.line = reader.line /\ new.state = reader.state
      /\ new.path = reader.path /\ new.open = reader.open /\ new.text = reader.text
      /\ new.out = reader.out /\ new.channel = more
  BY <1>2, <1>3, <1>4 DEF ReaderRecords
<1>6. new \in LogReaders
  BY <1>5 DEF LogReaders
<1>7. Way(written, new) = Way(written, reader)
  <2>1. \A u, v, w \in Seq(LineSet) : (u \o v) \o w = u \o (v \o w)
    BY ConcatAssociative
  <2>2. sent \in Seq(LineSet) /\ written \o more = sent \o error
    <3> HIDE DEF channel
    <3>1. written \o (channel \o error) = (written \o channel) \o error /\ written \o channel \in Seq(LineSet)
      BY <2>1, <1>1, <1>2, SMTT(30)
    <3> QED BY <3>1 DEF more
  <2> HIDE DEF sent
  <2>3. sent \o error \in Seq(LineSet) /\ Pieced(sent \o error) = base \o <<>> /\ base \in Seq(Pieces)
    BY <1>1, <2>2, PiecedConcat, PiecedIs
  <2>4. Pieced(sent \o error) = base
    <3> HIDE DEF base
    <3> QED BY <2>3, ConcatEmptySeq
  <2> HIDE DEF out
  <2>5. Pieced((sent \o error) \o out) = Pieced(sent) \o Pieced(out)
    <3> DEFINE both == sent \o error
    <3>1. both \in Seq(LineSet) /\ Pieced(both) = Pieced(sent)
      BY <2>3, <2>4
    <3> HIDE DEF both
    <3>2. Pieced(both \o out) = Pieced(both) \o Pieced(out)
      BY <3>1, <1>2, PiecedConcat
    <3> QED BY <3>1, <3>2 DEF both
  <2>6. Pieced(sent \o out) = Pieced(sent) \o Pieced(out)
    BY <1>2, <2>2, PiecedConcat
  <2>7. Way(written, new) = Pieced((sent \o error) \o out)
    BY <1>5, <2>2 DEF Way, out
  <2>8. Way(written, reader) = Pieced(sent \o out)
    BY DEF Way, sent, out
  <2> QED BY <2>5, <2>6, <2>7, <2>8
<1> QED BY <1>5, <1>6, <1>7 DEF SameReader, new, error

LEMMA OpenedIs ==
  ASSUME NEW reader \in LogReaders, NEW file \in LogFiles, NEW written \in Seq(LineSet), NEW text,
         reader.state = "asked", NEW log,
         log = IF reader.path \in Zipped THEN Opened(reader, file).text ELSE file.pieces
  PROVE  /\ Opened(reader, file) \in LogReaders
         /\ Opened(reader, file).path = reader.path /\ Opened(reader, file).open = reader.open
         /\ Reading(written, reader, text) => Reading(written, Opened(reader, file), log)
<1> DEFINE pieces == file.pieces
           buffered == SubSeq(pieces, 1, Min({FirstBuffer, Len(pieces)}))
           new == Opened(reader, file)
           way == Way(written, reader)
<1>1. /\ pieces \in LogPieces /\ pieces \in Seq(Pieces) /\ Len(pieces) <= MaxPieces /\ MaxPieces \in Nat
      /\ Len(pieces) \in Nat /\ FirstBuffer \in Nat
  BY LogIs, PiecesAssumption DEF LogFiles
<1>2. /\ reader \in ReaderRecords /\ Len(reader.line) <= reader.read /\ reader.out = <<>>
      /\ reader.path \in Zipped \/ reader.path \in Plain
  BY ReaderFields DEF LogReaders, Paths
<1>3. Reading(written, reader, text) => way = <<>> /\ reader.read = 0
  BY DEF Reading
<1>4. new = IF ~file.there THEN End(IF reader.open THEN Send(reader, <<ErrorLine>>) ELSE reader)
            ELSE IF reader.path \in Zipped THEN [reader EXCEPT !.state = "unzips", !.text = pieces]
            ELSE [reader EXCEPT !.state = "reads", !.read = Len(buffered), !.line = buffered]
  BY DEF Opened
<1>5. log = IF reader.path \in Zipped THEN new.text ELSE pieces
  OBVIOUS
<1> HIDE DEF new, pieces, way
<1>6. CASE ~file.there
  <2> DEFINE told == IF reader.open THEN Send(reader, <<ErrorLine>>) ELSE reader
  <2>1. told \in LogReaders /\ SameReader(reader, told) /\ Way(written, told) = way
    BY ErrorSent DEF SameReader, way
  <2>2. new = End(told)
    BY <1>4, <1>6
  <2> HIDE DEF told
  <2>3. /\ new \in LogReaders /\ SameReader(told, new) /\ new.state = "ended"
        /\ new.out = told.out /\ new.channel = told.channel
    BY <2>1, <2>2, EndIs
  <2>4. Way(written, new) = way
    BY <2>1, <2>3, WaySame
  <2>5. log \in Seq(Pieces)
    BY <2>3, <1>1, <1>5, ReaderFields
  <2>6. <<>> = SubSeq(log, 1, 0) /\ 0 \in 0..Len(log)
    BY <2>5
  <2>7. Reading(written, reader, text) => Reading(written, new, log)
    BY <2>3, <2>4, <2>6, <1>3 DEF Reading
  <2> QED BY <2>1, <2>3, <2>7 DEF SameReader, new
<1>7. CASE file.there /\ reader.path \in Zipped
  <2>1. new = [reader EXCEPT !.state = "unzips", !.text = pieces]
    BY <1>4, <1>7
  <2>2. /\ new \in ReaderRecords /\ new.read = reader.read /\ new.line = reader.line /\ new.state = "unzips"
        /\ new.path = reader.path /\ new.open = reader.open /\ new.text = pieces
        /\ new.out = reader.out /\ new.channel = reader.channel
    BY <2>1, <1>1, <1>2 DEF ReaderRecords, States
  <2>3. new \in LogReaders
    BY <2>2, <1>2 DEF LogReaders
  <2>4. Way(written, new) = way
    BY <2>2, WaySame DEF way
  <2>5. log = pieces /\ SubSeq(pieces, 1, 0) = <<>> /\ 0 <= Len(pieces)
    BY <1>1, <1>5, <1>7, <2>2
  <2>6. Reading(written, reader, text) => Reading(written, new, log)
    BY <2>2, <2>4, <2>5, <1>3, <1>7 DEF Reading
  <2> QED BY <2>2, <2>3, <2>6 DEF new
<1>8. CASE file.there /\ ~ (reader.path \in Zipped)
  <2> DEFINE n == Min({FirstBuffer, Len(pieces)})
             start == SubSeq(pieces, 1, n)
  <2>1. new = [reader EXCEPT !.state = "reads", !.read = Len(start), !.line = start]
    BY <1>4, <1>8
  <2>2. n \in 0..Len(pieces)
    BY <1>1, SmallerOf
  <2> HIDE DEF n
  <2>3. start \in Seq(Pieces) /\ Len(start) = n /\ n \in 0..MaxPieces
    BY <1>1, <2>2
  <2>4. SubSeq(pieces, 1, n) = start
    OBVIOUS
  <2> HIDE DEF start
  <2>5. /\ new \in ReaderRecords /\ new.read = n /\ new.line = start /\ new.state = "reads"
        /\ new.path = reader.path /\ new.open = reader.open /\ new.text = reader.text
        /\ new.out = reader.out /\ new.channel = reader.channel
    BY <2>1, <2>3, <1>2 DEF ReaderRecords, States
  <2>6. new \in LogReaders
    BY <2>3, <2>5 DEF LogReaders
  <2>7. Way(written, new) = way
    BY <2>5, WaySame DEF way
  <2>8. log = pieces /\ <<>> \o start = start /\ n <= Len(pieces) /\ reader.path \in Plain
    BY <1>1, <1>2, <1>5, <1>8, <2>2, <2>3, ConcatEmptySeq
  <2>9. Reading(written, reader, text) => Reading(written, new, log)
    BY <2>4, <2>5, <2>7, <2>8, <1>3 DEF Reading
  <2> QED BY <2>5, <2>6, <2>9 DEF new
<1> QED BY <1>6, <1>7, <1>8

-----------------------------------------------------------------------------
(* Log page: the lines of the field.                                         *)

\* The lines that a field may have, as texts.
LineTexts == {TextOf(line) : line \in LineSet}

LineOf(texts) == [i \in DOMAIN texts |-> texts[i].line]

LEMMA LinesAreCountable == Countable(LineTexts)
<1> SUFFICES ASSUME NEW text \in LineTexts
             PROVE  Len(text.lines) \in Nat /\ \A width \in Widths : text.rows[width] \in Nat
  BY DEF Countable
<1>1. PICK line \in LineSet : text = TextOf(line)
  BY DEF LineTexts
<1>2. text.lines = <<ToSet(line)>> /\ text.rows = [w \in Widths |-> LineRows(line, w)]
  BY <1>1 DEF TextOf
<1>3. \A width \in Widths : LineRows(line, width) \in Nat
  BY LineRowsAssumption DEF LineSet
<1> DEFINE one == ToSet(line)
<1> HIDE DEF one
<1>4. Len(<<one>>) \in Nat
  OBVIOUS
<1> QED BY <1>2, <1>3, <1>4 DEF one

LEMMA LineOfIs ==
  ASSUME NEW texts \in Seq(LineTexts)
  PROVE  /\ LineOf(texts) \in Seq(LineSet) /\ Len(LineOf(texts)) = Len(texts)
         /\ \A i \in 1..Len(texts) : LineOf(texts)[i] = texts[i].line
<1> DEFINE N == Len(texts)
<1>1. N \in Nat /\ DOMAIN texts = 1..N /\ \A i \in 1..N : texts[i] \in LineTexts
  BY ElementOfSeq
<1>2. ASSUME NEW text \in LineTexts PROVE text.line \in LineSet
  BY DEF LineTexts, TextOf
<1> HIDE DEF N
<1>3. LineOf(texts) \in [1..N -> LineSet] /\ \A i \in 1..N : LineOf(texts)[i] = texts[i].line
  BY <1>1, <1>2 DEF LineOf
<1>4. LineOf(texts) \in Seq(LineSet) /\ Len(LineOf(texts)) = N
  BY <1>1, <1>3
<1> QED BY <1>3, <1>4 DEF N

LEMMA LineOfConcat ==
  ASSUME NEW a \in Seq(LineTexts), NEW b \in Seq(LineTexts)
  PROVE  LineOf(a \o b) = LineOf(a) \o LineOf(b)
<1> DEFINE N == Len(a)
           M == Len(b)
           both == a \o b
           x == LineOf(a)
           y == LineOf(b)
           z == LineOf(both)
<1>1. /\ N \in Nat /\ M \in Nat /\ both \in Seq(LineTexts) /\ Len(both) = N + M
      /\ \A i \in 1..(N + M) : both[i] = IF i <= N THEN a[i] ELSE b[i - N]
  BY ConcatProperties
<1> HIDE DEF both
<1>2. x \in Seq(LineSet) /\ Len(x) = N /\ \A i \in 1..N : x[i] = a[i].line
  BY LineOfIs
<1>3. y \in Seq(LineSet) /\ Len(y) = M /\ \A i \in 1..M : y[i] = b[i].line
  BY LineOfIs
<1>4. z \in Seq(LineSet) /\ Len(z) = N + M /\ \A i \in 1..(N + M) : z[i] = both[i].line
  BY <1>1, LineOfIs
<1> HIDE DEF N, M, x, y, z
<1> DEFINE d == x \o y
<1>5. /\ d \in Seq(LineSet) /\ Len(d) = N + M
      /\ \A i \in 1..(N + M) : d[i] = IF i <= N THEN x[i] ELSE y[i - N]
  BY <1>1, <1>2, <1>3, ConcatProperties
<1> HIDE DEF d
<1>6. \A i \in 1..(N + M) : z[i] = d[i]
  <2> TAKE i \in 1..(N + M)
  <2>1. CASE i <= N
    <3>1. i \in 1..N
      BY <2>1, <1>1
    <3> QED BY <3>1, <2>1, <1>1, <1>2, <1>4, <1>5
  <2>2. CASE ~ (i <= N)
    <3>1. i - N \in 1..M
      BY <2>2, <1>1
    <3> QED BY <3>1, <2>2, <1>1, <1>3, <1>4, <1>5
  <2> QED BY <2>1, <2>2
<1>7. z = d
  BY <1>4, <1>5, <1>6, SeqEqual
<1> QED BY <1>7 DEF both, x, y, z, d

LEMMA FieldIs ==
  ASSUME NEW Ts, FieldRight(Ts)
  PROVE  ListRight(List, Ts) /\ pending \in Seq(Ts)
<1>1. PICK list : Here(list, Ts) \/ \E q \in Queries : Gone(list, q, Ts)
  BY DEF FieldRight
<1>2. List = list /\ ListRight(list, Ts)
  <2>1. CASE Here(list, Ts)
    BY <2>1, HereIs DEF Here
  <2>2. CASE \E q \in Queries : Gone(list, q, Ts)
    BY <2>2, GoneIs DEF Gone
  <2> QED BY <1>1, <2>1, <2>2
<1> QED BY <1>2 DEF FieldRight

LEMMA FieldLinesAre ==
  ASSUME FieldRight(LineTexts)
  PROVE  /\ FieldLines = LineOf(TextsIn(List)) \o LineOf(pending)
         /\ FieldLines = LineOf(TextsIn(List) \o pending)
         /\ FieldLines \in Seq(LineSet)
<1>1. ListRight(List, LineTexts) /\ pending \in Seq(LineTexts)
  BY FieldIs
<1> DEFINE texts == TextsIn(List)
<1>2. /\ texts \in Seq(LineTexts) /\ DOMAIN texts = DOMAIN List.items
      /\ \A i \in DOMAIN List.items : texts[i] = List.items[i].text
  BY <1>1, TextsInType
<1>3. [i \in DOMAIN List.items |-> List.items[i].text.line] = LineOf(texts)
  <2> HIDE DEF texts
  <2> QED BY <1>2 DEF LineOf
<1>4. [i \in DOMAIN pending |-> pending[i].line] = LineOf(pending)
  BY DEF LineOf
<1> HIDE DEF texts
<1>5. FieldLines = LineOf(texts) \o LineOf(pending)
  BY <1>3, <1>4 DEF FieldLines
<1>6. LineOf(texts \o pending) = LineOf(texts) \o LineOf(pending)
  BY <1>1, <1>2, LineOfConcat
<1>7. LineOf(texts) \in Seq(LineSet) /\ LineOf(pending) \in Seq(LineSet)
  BY <1>1, <1>2, LineOfIs
<1>8. LineOf(texts) \o LineOf(pending) \in Seq(LineSet)
  BY <1>7, ConcatProperties
<1> QED BY <1>5, <1>6, <1>8 DEF texts

LEMMA SameFieldLines ==
  ASSUME FieldRight(LineTexts), FieldRight(LineTexts)',
         TextsIn(List)' \o pending' = TextsIn(List) \o pending
  PROVE  FieldLines' = FieldLines
<1>1. FieldLines = LineOf(TextsIn(List) \o pending)
  BY FieldLinesAre
<1>2. (FieldLines = LineOf(TextsIn(List) \o pending))'
  <2>1. FieldRight(LineTexts) => FieldLines = LineOf(TextsIn(List) \o pending)
    BY FieldLinesAre
  <2>2. (FieldRight(LineTexts) => FieldLines = LineOf(TextsIn(List) \o pending))'
    BY FieldLinesAre, PTL
  <2> QED BY <2>2
<1>3. FieldLines' = LineOf(TextsIn(List)' \o pending')
  BY <1>2
<1> QED BY <1>1, <1>3

\* A line that is added to the field.
LEMMA AddedLine ==
  ASSUME FieldRight(LineTexts), NEW line \in LineSet, AddLine(line), UNCHANGED <<itemState, search>>
  PROVE  FieldRight(LineTexts)' /\ FieldLines' = FieldLines \o <<line>>
<1> DEFINE text == TextOf(line)
<1>1. text \in LineTexts /\ text.line = line
  BY DEF LineTexts, TextOf
<1> HIDE DEF text
<1>2. pending' = Append(pending, text) /\ pending \in Seq(LineTexts)
  BY FieldIs DEF AddLine, text
<1>3. pending' \in Seq(LineTexts)
  BY <1>1, <1>2
<1>4. FieldRight(LineTexts)' /\ List' = List
  BY <1>3, FieldStays, ListStays
<1>5. FieldLines = LineOf(TextsIn(List)) \o LineOf(pending)
  BY FieldLinesAre
<1>6. (FieldLines = LineOf(TextsIn(List)) \o LineOf(pending))'
  <2>1. (FieldRight(LineTexts) => FieldLines = LineOf(TextsIn(List)) \o LineOf(pending))'
    BY FieldLinesAre, PTL
  <2> QED BY <1>4, <2>1
<1>7. FieldLines' = LineOf(TextsIn(List)) \o LineOf(pending')
  BY <1>4, <1>6
<1>8. LineOf(Append(pending, text)) = LineOf(pending) \o <<line>>
  <2> DEFINE one == <<text>>
             waiting == pending
  <2>1. one \in Seq(LineTexts) /\ LineOf(one) = <<line>> /\ waiting \in Seq(LineTexts)
    BY <1>1, <1>2 DEF LineOf
  <2>2. Append(waiting, text) = waiting \o one
    BY <1>1, <2>1, AppendIsConcat
  <2> HIDE DEF one, waiting
  <2>3. LineOf(waiting \o one) = LineOf(waiting) \o LineOf(one)
    BY <2>1, LineOfConcat
  <2> QED BY <2>1, <2>2, <2>3 DEF waiting
<1>9. LineOf(TextsIn(List)) \in Seq(LineSet) /\ LineOf(pending) \in Seq(LineSet) /\ <<line>> \in Seq(LineSet)
  <2>1. TextsIn(List) \in Seq(LineTexts)
    BY FieldIs, TextsInType
  <2>2. <<line>> \in Seq(LineSet)
    OBVIOUS
  <2> QED BY <2>1, <2>2, <1>2, LineOfIs
<1>10. LineOf(TextsIn(List)) \o (LineOf(pending) \o <<line>>) = (LineOf(TextsIn(List)) \o LineOf(pending)) \o <<line>>
  <2>1. \A u, v, w \in Seq(LineSet) : (u \o v) \o w = u \o (v \o w)
    BY ConcatAssociative
  <2> QED BY <1>9, <2>1
<1> QED BY <1>2, <1>4, <1>5, <1>7, <1>8, <1>10

-----------------------------------------------------------------------------
(* Log page: the invariant.                                                  *)

PageRecords ==
    [asks : Nat, answered : BOOLEAN, logs : SUBSET Paths, selected : Paths \cup {None}, reader : Nat]
Requests == [ask : {"files", "cleanup", "read"}, number : Nat]

PageFields == files \in [Paths -> LogFiles] /\ page \in PageRecords /\ readers \in Seq(LogReaders)

AsksFor(i, r) == requests[i].ask = "read" /\ requests[i].number = r

\* A reader is asked for once, and until then it is not at work.
RequestsRight ==
    /\ requests \in Seq(Requests)
    /\ \A i \in DOMAIN requests : requests[i].ask = "read" =>
           /\ requests[i].number \in DOMAIN readers
           /\ readers[requests[i].number].state = "asked"
    /\ \A i, j \in DOMAIN requests : \A r \in DOMAIN readers : AsksFor(i, r) /\ AsksFor(j, r) => i = j

Fresh == pending = <<>> /\ itemState = <<NoItems>> /\ search = <<>>

\* The field is filled by the reader of the file that is selected.
FieldReads ==
    /\ page.reader = 0 => page.selected = None /\ Fresh
    /\ page.reader # 0 =>
           /\ page.reader \in DOMAIN readers
           /\ readers[page.reader].open /\ readers[page.reader].path = page.selected
           /\ Reading(FieldLines, readers[page.reader], LogOf(readers[page.reader], files))

PageInv == PageFields /\ RequestsRight /\ FieldRight(LineTexts) /\ FieldReads

LEMMA PageFieldsAre ==
  ASSUME PageFields
  PROVE  /\ page.asks \in Nat /\ page.reader \in Nat /\ page.logs \subseteq Paths
         /\ page.selected \in Paths \cup {None}
         /\ Len(readers) \in Nat /\ DOMAIN readers = 1..Len(readers)
         /\ \A r \in DOMAIN readers : readers[r] \in LogReaders
         /\ \A p \in Paths : files[p] \in LogFiles
<1>1. page \in PageRecords /\ readers \in Seq(LogReaders) /\ files \in [Paths -> LogFiles]
  BY DEF PageFields
<1>2. /\ page.asks \in Nat /\ page.reader \in Nat /\ page.logs \subseteq Paths
      /\ page.selected \in Paths \cup {None}
  BY <1>1 DEF PageRecords
<1>3. /\ Len(readers) \in Nat /\ DOMAIN readers = 1..Len(readers)
      /\ \A r \in DOMAIN readers : readers[r] \in LogReaders
  BY <1>1, ElementOfSeq
<1> QED BY <1>1, <1>2, <1>3

LEMMA NoneIsNoPath == \A p \in Paths : p # None
BY NoneAssumption DEF Paths, None

LEMMA RequestsKept ==
  ASSUME RequestsRight, requests' = requests, DOMAIN readers' = DOMAIN readers,
         \A r \in DOMAIN readers : readers[r].state = "asked" => readers'[r].state = "asked"
  PROVE  RequestsRight'
BY DEF RequestsRight, AsksFor

\* A request is handled: whoever else is asked for is so still.
LEMMA RequestHandled ==
  ASSUME RequestsRight, requests # <<>>, requests' = Tail(requests), DOMAIN readers' = DOMAIN readers,
         \A r \in DOMAIN readers : readers[r].state = "asked" /\ ~ AsksFor(1, r) => readers'[r].state = "asked"
  PROVE  RequestsRight'
<1> DEFINE N == Len(requests)
           rest == Tail(requests)
<1>1. requests \in Seq(Requests)
  BY DEF RequestsRight
<1>2. /\ N \in Nat /\ N >= 1 /\ DOMAIN requests = 1..N
      /\ rest \in Seq(Requests) /\ Len(rest) = N - 1
      /\ \A i \in 1..(N - 1) : rest[i] = requests[i + 1]
  BY <1>1, HeadTailProperties
<1> HIDE DEF N, rest
<1>3. DOMAIN rest = 1..(N - 1)
  BY <1>2
<1>4. ASSUME NEW i \in DOMAIN rest, rest[i].ask = "read"
      PROVE  rest[i].number \in DOMAIN readers /\ readers'[rest[i].number].state = "asked"
  <2> DEFINE r == requests[i + 1].number
  <2>1. i + 1 \in DOMAIN requests /\ 1 \in DOMAIN requests /\ i + 1 # 1 /\ rest[i] = requests[i + 1]
    BY <1>2, <1>3, <1>4
  <2>2. r \in DOMAIN readers /\ readers[r].state = "asked" /\ AsksFor(i + 1, r)
    BY <1>4, <2>1 DEF RequestsRight, AsksFor
  <2> HIDE DEF r
  <2>3. ~ AsksFor(1, r)
    BY <2>1, <2>2 DEF RequestsRight
  <2>4. readers'[r].state = "asked"
    BY <2>2, <2>3
  <2> QED BY <2>1, <2>2, <2>4 DEF r
<1>5. ASSUME NEW i \in DOMAIN rest, NEW j \in DOMAIN rest, NEW r \in DOMAIN readers,
             rest[i].ask = "read", rest[j].ask = "read", rest[i].number = r, rest[j].number = r
      PROVE  i = j
  <2>1. i \in Int /\ j \in Int /\ i + 1 \in DOMAIN requests /\ j + 1 \in DOMAIN requests
        /\ rest[i] = requests[i + 1] /\ rest[j] = requests[j + 1]
    BY <1>2, <1>3, <1>5
  <2>2. AsksFor(i + 1, r) /\ AsksFor(j + 1, r)
    BY <1>5, <2>1 DEF AsksFor
  <2>3. i + 1 = j + 1
    BY <2>1, <2>2 DEF RequestsRight
  <2> QED BY <2>1, <2>3
<1>6. requests' = rest
  BY DEF rest
<1> QED BY <1>2, <1>4, <1>5, <1>6 DEF RequestsRight, AsksFor

\* A request is added that asks for no reader, or for a new one.
LEMMA RequestAdded ==
  ASSUME RequestsRight, NEW request \in Requests, requests' = Append(requests, request),
         NEW N \in Nat, NEW M \in Nat, DOMAIN readers = 1..N, DOMAIN readers' = 1..M, N <= M,
         \A r \in DOMAIN readers : readers[r].state = "asked" => readers'[r].state = "asked",
         request.ask = "read" => request.number = M /\ N < M /\ readers'[M].state = "asked"
  PROVE  RequestsRight'
<1> DEFINE L == Len(requests)
           more == Append(requests, request)
<1>1. requests \in Seq(Requests)
  BY DEF RequestsRight
<1>2. /\ L \in Nat /\ DOMAIN requests = 1..L
      /\ more \in Seq(Requests) /\ Len(more) = L + 1
      /\ \A i \in 1..L : more[i] = requests[i]
      /\ more[L + 1] = request
  BY <1>1, AppendProperties
<1> HIDE DEF L, more
<1>3. DOMAIN more = 1..(L + 1)
  BY <1>2
<1>4. ASSUME NEW i \in DOMAIN more, more[i].ask = "read"
      PROVE  more[i].number \in 1..M /\ readers'[more[i].number].state = "asked"
  <2>1. CASE i = L + 1
    <3>1. more[i] = request
      BY <2>1, <1>2
    <3>2. N < M
      BY <3>1, <1>4
    <3> QED BY <3>1, <3>2, <1>4
  <2>2. CASE i # L + 1
    <3>1. i \in DOMAIN requests /\ more[i] = requests[i]
      BY <2>2, <1>2, <1>3
    <3>2. requests[i].number \in DOMAIN readers /\ readers[requests[i].number].state = "asked"
      BY <3>1, <1>4 DEF RequestsRight
    <3>3. requests[i].number \in 1..M
      BY <3>2
    <3> QED BY <3>1, <3>2, <3>3
  <2> QED BY <2>1, <2>2
<1>5. ASSUME NEW i \in DOMAIN more, NEW j \in DOMAIN more, NEW r \in 1..M,
             more[i].ask = "read", more[j].ask = "read", more[i].number = r, more[j].number = r
      PROVE  i = j
  <2>1. ASSUME NEW k \in DOMAIN more, k # L + 1, more[k].ask = "read", more[k].number = r
        PROVE  k \in DOMAIN requests /\ AsksFor(k, r) /\ r \in 1..N
    <3>1. k \in DOMAIN requests /\ more[k] = requests[k]
      BY <2>1, <1>2, <1>3
    <3>2. requests[k].number \in DOMAIN readers
      BY <2>1, <3>1 DEF RequestsRight
    <3> QED BY <2>1, <3>1, <3>2 DEF AsksFor
  <2>2. more[L + 1].ask = "read" => more[L + 1].number = M /\ N < M
    BY <1>2
  <2>3. CASE i = L + 1 /\ j = L + 1
    BY <2>3
  <2>4. CASE i # L + 1 /\ j # L + 1
    BY <1>5, <2>1, <2>4 DEF RequestsRight
  <2>5. CASE i # L + 1 /\ j = L + 1
    <3>1. r \in 1..N /\ r = M /\ N < M
      BY <1>5, <2>1, <2>2, <2>5
    <3> QED BY <3>1
  <2>6. CASE i = L + 1 /\ j # L + 1
    <3>1. r \in 1..N /\ r = M /\ N < M
      BY <1>5, <2>1, <2>2, <2>6
    <3> QED BY <3>1
  <2> QED BY <2>3, <2>4, <2>5, <2>6
<1>6. requests' = more
  BY DEF more
<1> QED BY <1>2, <1>4, <1>5, <1>6 DEF RequestsRight, AsksFor

-----------------------------------------------------------------------------
(* Log page: its steps.                                                      *)

LEMMA FieldUnchanged ==
  ASSUME FieldRight(LineTexts), UNCHANGED fieldVars
  PROVE  FieldRight(LineTexts)' /\ FieldLines' = FieldLines /\ (Fresh => Fresh')
<1>1. pending \in Seq(LineTexts)
  BY DEF FieldRight
<1>2. pending' = pending /\ UNCHANGED <<itemState, search>>
  BY DEF fieldVars
<1>3. FieldRight(LineTexts)' /\ List' = List
  BY <1>1, <1>2, FieldStays, ListStays
<1> QED BY <1>2, <1>3 DEF FieldLines, Fresh

\* The game writes to its log.
LEMMA WriteRight ==
  ASSUME PageInv, NEW path \in Plain, Write(path)
  PROVE  PageInv'
<1>1. PICK piece \in Pieces : files' = [files EXCEPT ![path] = File(Append(@.pieces, piece))]
  BY DEF Write
<1>2. UNCHANGED <<page, requests, readers, fieldVars>> /\ Len(files[path].pieces) < MaxPieces
  BY DEF Write
<1>3. path \in Paths /\ path \notin Zipped
  BY PiecesAssumption DEF Paths
<1>4. /\ files \in [Paths -> LogFiles] /\ readers \in Seq(LogReaders)
      /\ PageFields /\ RequestsRight /\ FieldReads /\ FieldRight(LineTexts)
  BY DEF PageInv, PageFields
<1> DEFINE pieces == files[path].pieces
           more == Append(pieces, piece)
<1>5. pieces \in LogPieces
  BY <1>3, <1>4 DEF LogFiles
<1>6. pieces \in Seq(Pieces) /\ Len(pieces) \in Nat /\ MaxPieces \in Nat
  BY <1>5, LogIs, PiecesAssumption
<1>7. more \in LogPieces
  <2>1. more \in Seq(Pieces) /\ Len(more) = Len(pieces) + 1
    BY <1>6, AppendProperties
  <2> HIDE DEF more
  <2> QED BY <1>2, <1>6, <2>1, LogIs
<1>8. files' = [files EXCEPT ![path] = File(more)]
  BY <1>1
<1> HIDE DEF more
<1>9. files' \in [Paths -> LogFiles] /\ files'[path].pieces = more
      /\ \A p \in Paths : p # path => files'[p] = files[p]
  BY <1>3, <1>4, <1>7, <1>8 DEF LogFiles, File
<1>10. PageFields'
  BY <1>2, <1>4, <1>9 DEF PageFields
<1>11. RequestsRight'
  BY <1>2, <1>4, RequestsKept
<1>12. FieldRight(LineTexts)' /\ FieldLines' = FieldLines /\ (Fresh => Fresh')
  BY <1>2, <1>4, FieldUnchanged
<1>13. FieldReads'
  <2>1. ASSUME page.reader # 0
        PROVE  Reading(FieldLines, readers[page.reader], LogOf(readers[page.reader], files'))
    <3> DEFINE reader == readers[page.reader]
    <3>1. reader \in LogReaders /\ Reading(FieldLines, reader, LogOf(reader, files))
      BY <2>1, <1>4, PageFieldsAre DEF FieldReads
    <3> HIDE DEF reader
    <3>2. CASE reader.path = path
      <4>1. LogOf(reader, files) = pieces /\ LogOf(reader, files') = more
        BY <3>2, <1>3, <1>9 DEF LogOf
      <4>2. reader.read \in Nat
        BY <3>1, ReaderFields
      <4>3. Reading(FieldLines, reader, pieces)
        BY <3>1, <4>1
      <4>4. Reading(FieldLines, reader, more)
        <5> HIDE DEF pieces
        <5> QED BY <4>2, <4>3, <1>6, ReadingGrows DEF more
      <4> QED BY <4>1, <4>4 DEF reader
    <3>3. CASE reader.path # path
      <4>1. LogOf(reader, files') = LogOf(reader, files)
        BY <3>1, <3>3, <1>9, ReaderFields DEF LogOf
      <4> QED BY <3>1, <4>1 DEF reader
    <3> QED BY <3>2, <3>3
  <2> QED BY <2>1, <1>2, <1>4, <1>12 DEF FieldReads
<1> QED BY <1>10, <1>11, <1>12, <1>13 DEF PageInv

\* Zipped files go: what is shown of one was read from it before.
LEMMA FilesGone ==
  ASSUME PageInv, files' \in [Paths -> LogFiles], \A p \in Plain : files'[p] = files[p],
         UNCHANGED <<page, readers, fieldVars>>, RequestsRight'
  PROVE  PageInv'
<1>1. PageFields /\ FieldReads /\ FieldRight(LineTexts)
  BY DEF PageInv
<1>2. PageFields'
  BY <1>1 DEF PageFields
<1>3. FieldRight(LineTexts)' /\ FieldLines' = FieldLines /\ (Fresh => Fresh')
  BY <1>1, FieldUnchanged
<1>4. ASSUME NEW reader \in LogReaders PROVE LogOf(reader, files') = LogOf(reader, files)
  <2>1. reader.path \in Paths
    BY ReaderFields
  <2> QED BY <2>1 DEF LogOf, Paths
<1>5. FieldReads'
  <2>1. page.reader # 0 => readers[page.reader] \in LogReaders
    BY <1>1, PageFieldsAre DEF FieldReads
  <2>2. page.reader # 0 => LogOf(readers[page.reader], files') = LogOf(readers[page.reader], files)
    BY <2>1, <1>4
  <2> QED BY <2>2, <1>1, <1>3 DEF FieldReads
<1> QED BY <1>2, <1>3, <1>5 DEF PageInv

LEMMA NoFileIs == NoFile \in LogFiles
<1> DEFINE none == <<>>
<1>1. none \in Seq(Pieces) /\ Len(none) = 0 /\ MaxPieces \in Nat
  BY PiecesAssumption
<1> HIDE DEF none
<1>2. none \in LogPieces <=> none \in Seq(Pieces) /\ Len(none) <= MaxPieces
  BY LogIs
<1>3. none \in LogPieces
  BY <1>1, <1>2
<1> QED BY <1>3 DEF NoFile, LogFiles, none

LEMMA DeleteRight ==
  ASSUME PageInv, NEW path \in Zipped, Delete(path)
  PROVE  PageInv'
<1>1. files' = [files EXCEPT ![path] = NoFile] /\ UNCHANGED <<page, requests, readers, fieldVars>>
  BY DEF Delete
<1>2. files \in [Paths -> LogFiles] /\ RequestsRight
  BY DEF PageInv, PageFields
<1>3. files' \in [Paths -> LogFiles]
  BY <1>1, <1>2, NoFileIs
<1>4. ASSUME NEW p \in Plain PROVE files'[p] = files[p]
  <2>1. p # path /\ p \in Paths
    BY PiecesAssumption DEF Paths
  <2> QED BY <2>1, <1>1, <1>2
<1>5. RequestsRight'
  BY <1>1, <1>2, RequestsKept
<1> QED BY <1>1, <1>3, <1>4, <1>5, FilesGone

LEMMA CleanupRight ==
  ASSUME PageInv, CleanupOldLogFiles
  PROVE  PageInv'
<1>1. /\ files' = [p \in Paths |-> IF p \in Zipped THEN NoFile ELSE files[p]]
      /\ UNCHANGED <<page, readers, fieldVars>> /\ Request("cleanup")
  BY DEF CleanupOldLogFiles
<1>2. files \in [Paths -> LogFiles] /\ RequestsRight
  BY DEF PageInv, PageFields
<1>3. files' \in [Paths -> LogFiles]
  BY <1>1, <1>2, NoFileIs
<1>4. ASSUME NEW p \in Plain PROVE files'[p] = files[p]
  <2>1. p \notin Zipped /\ p \in Paths
    BY PiecesAssumption DEF Paths
  <2> QED BY <2>1, <1>1
<1>5. RequestsRight'
  BY <1>1, <1>2, RequestHandled DEF Request
<1> QED BY <1>1, <1>3, <1>4, <1>5, FilesGone

LEMMA GetLogFilesRight ==
  ASSUME PageInv, GetLogFiles
  PROVE  PageInv'
<1>1. /\ Request("files") /\ UNCHANGED <<files, readers, fieldVars>>
      /\ page' = IF Head(requests).number # page.asks THEN page
                 ELSE [page EXCEPT !.answered = TRUE, !.logs = {p \in Paths : files[p].there}]
  BY DEF GetLogFiles
<1>2. PageFields /\ RequestsRight /\ FieldReads /\ FieldRight(LineTexts) /\ page \in PageRecords
  BY DEF PageInv, PageFields
<1>3. page' \in PageRecords /\ page'.selected = page.selected /\ page'.reader = page.reader
  <2>1. {p \in Paths : files[p].there} \in SUBSET Paths
    OBVIOUS
  <2> QED BY <2>1, <1>1, <1>2 DEF PageRecords
<1>4. PageFields'
  BY <1>1, <1>2, <1>3 DEF PageFields
<1>5. RequestsRight'
  BY <1>1, <1>2, RequestHandled DEF Request
<1>6. FieldRight(LineTexts)' /\ FieldLines' = FieldLines /\ (Fresh => Fresh')
  BY <1>1, <1>2, FieldUnchanged
<1>7. FieldReads'
  BY <1>1, <1>2, <1>3, <1>6 DEF FieldReads
<1> QED BY <1>4, <1>5, <1>6, <1>7 DEF PageInv

-----------------------------------------------------------------------------

LEMMA FreshIsRight == Fresh => FieldRight(LineTexts) /\ List = NoItems
BY FieldStarts DEF Fresh

\* The page turns: the field starts over and what fills it is dropped.
LEMMA NewFieldRight ==
  ASSUME NewField
  PROVE  FieldRight(LineTexts)' /\ Fresh' /\ List' = NoItems
<1>1. pending' = <<>> /\ itemState' = <<NoItems>> /\ search' = <<>>
  BY DEF NewField
<1>2. (Fresh => FieldRight(LineTexts) /\ List = NoItems)'
  BY FreshIsRight, PTL
<1> QED BY <1>1, <1>2 DEF Fresh

LEMMA FreshLines ==
  ASSUME NewField
  PROVE  FieldLines' = <<>>
<1>1. pending' = <<>> /\ List' = NoItems
  BY NewFieldRight DEF NewField
<1>2. NoItems.items = <<>>
  BY DEF NoItems
<1>3. FieldLines' = <<>> \o <<>>
  BY <1>1, <1>2 DEF FieldLines
<1> QED BY <1>3

LEMMA DroppedIs ==
  ASSUME PageFields
  PROVE  /\ Dropped \in Seq(LogReaders) /\ Len(Dropped) = Len(readers) /\ DOMAIN Dropped = DOMAIN readers
         /\ \A r \in DOMAIN readers : Dropped[r].state = readers[r].state
<1> DEFINE N == Len(readers)
           none == <<>>
<1>1. N \in Nat /\ DOMAIN readers = 1..N /\ \A r \in 1..N : readers[r] \in LogReaders
  BY PageFieldsAre
<1>2. none \in Seq(LineSet)
  OBVIOUS
<1>3. ASSUME NEW reader \in LogReaders
      PROVE  /\ [reader EXCEPT !.open = FALSE, !.channel = none] \in LogReaders
             /\ [reader EXCEPT !.open = FALSE, !.channel = none].state = reader.state
  <2> DEFINE new == [reader EXCEPT !.open = FALSE, !.channel = none]
  <2>1. /\ reader \in ReaderRecords /\ Len(reader.line) <= reader.read
        /\ reader.state = "asked" => reader.out = <<>>
    BY DEF LogReaders
  <2> HIDE DEF none
  <2>2. /\ new \in ReaderRecords /\ new.line = reader.line /\ new.read = reader.read
        /\ new.state = reader.state /\ new.out = reader.out
    BY <2>1, <1>2 DEF ReaderRecords
  <2> HIDE DEF new
  <2>3. new \in LogReaders
    BY <2>1, <2>2 DEF LogReaders
  <2> QED BY <2>2, <2>3 DEF new
<1> DEFINE left == [r \in 1..N |-> IF r = page.reader THEN [readers[r] EXCEPT !.open = FALSE, !.channel = none]
                                   ELSE readers[r]]
<1>4. Dropped = left
  BY <1>1 DEF Dropped
<1> HIDE DEF N, none
<1>5. left \in [1..N -> LogReaders] /\ \A r \in 1..N : left[r].state = readers[r].state
  BY <1>1, <1>3
<1> HIDE DEF left
<1>6. left \in Seq(LogReaders) /\ Len(left) = N /\ DOMAIN left = 1..N
  BY <1>1, <1>5
<1> QED BY <1>1, <1>4, <1>5, <1>6 DEF N

\* Requests are added that ask for no reader.
LEMMA MessagesAdded ==
  ASSUME RequestsRight, NEW messages \in Seq(Requests), requests' = requests \o messages,
         \A i \in DOMAIN messages : messages[i].ask # "read", DOMAIN readers' = DOMAIN readers,
         \A r \in DOMAIN readers : readers[r].state = "asked" => readers'[r].state = "asked"
  PROVE  RequestsRight'
<1> DEFINE N == Len(requests)
           M == Len(messages)
           more == requests \o messages
<1>1. requests \in Seq(Requests)
  BY DEF RequestsRight
<1>2. /\ N \in Nat /\ DOMAIN requests = 1..N /\ M \in Nat /\ DOMAIN messages = 1..M
      /\ more \in Seq(Requests) /\ Len(more) = N + M
      /\ \A i \in 1..(N + M) : more[i] = IF i <= N THEN requests[i] ELSE messages[i - N]
  BY <1>1, ConcatProperties
<1> HIDE DEF N, M, more
<1>3. DOMAIN more = 1..(N + M)
  BY <1>2
<1>4. ASSUME NEW i \in DOMAIN more, more[i].ask = "read"
      PROVE  i \in DOMAIN requests /\ more[i] = requests[i]
  <2>1. CASE i <= N
    BY <2>1, <1>2, <1>3
  <2>2. CASE ~ (i <= N)
    <3>1. i - N \in DOMAIN messages /\ more[i] = messages[i - N]
      BY <2>2, <1>2, <1>3
    <3> QED BY <3>1, <1>4
  <2> QED BY <2>1, <2>2
<1>5. requests' = more
  BY DEF more
<1>6. ASSUME NEW i \in DOMAIN more, more[i].ask = "read"
      PROVE  more[i].number \in DOMAIN readers' /\ readers'[more[i].number].state = "asked"
  <2>1. requests[i].number \in DOMAIN readers /\ readers[requests[i].number].state = "asked"
    BY <1>4, <1>6 DEF RequestsRight
  <2> QED BY <1>4, <1>6, <2>1
<1>7. ASSUME NEW i \in DOMAIN more, NEW j \in DOMAIN more, NEW r \in DOMAIN readers,
             more[i].ask = "read", more[j].ask = "read", more[i].number = r, more[j].number = r
      PROVE  i = j
  <2>1. /\ i \in DOMAIN requests /\ requests[i].ask = "read" /\ requests[i].number = r
        /\ j \in DOMAIN requests /\ requests[j].ask = "read" /\ requests[j].number = r
    BY <1>4, <1>7
  <2>2. AsksFor(i, r) /\ AsksFor(j, r)
    BY <2>1 DEF AsksFor
  <2> QED BY <2>1, <2>2 DEF RequestsRight
<1>8. \A i, j \in DOMAIN more : \A r \in DOMAIN readers' : AsksFor(i, r)' /\ AsksFor(j, r)' => i = j
  BY <1>5, <1>7 DEF AsksFor
<1> QED BY <1>2, <1>5, <1>6, <1>8 DEF RequestsRight

LEMMA AskForFilesRight ==
  ASSUME PageInv, NEW messages \in Seq(Requests), \A i \in DOMAIN messages : messages[i].ask # "read",
         AskForFiles(messages)
  PROVE  PageInv'
<1> DEFINE request == [ask |-> "files", number |-> page.asks + 1]
           one == <<request>>
<1>1. /\ page' = [page EXCEPT !.asks = @ + 1, !.answered = FALSE, !.logs = {},
                              !.selected = None, !.reader = 0]
      /\ requests' = requests \o messages \o <<request>>
      /\ readers' = Dropped /\ NewField /\ UNCHANGED files
  BY DEF AskForFiles
<1>2. PageFields /\ RequestsRight /\ page \in PageRecords
  BY DEF PageInv, PageFields
<1>3. page' \in PageRecords /\ page'.selected = None /\ page'.reader = 0
  <2> DEFINE new == [page EXCEPT !.asks = @ + 1, !.answered = FALSE, !.logs = {}, !.selected = None, !.reader = 0]
  <2>1. {} \in SUBSET Paths /\ page.asks + 1 \in Nat /\ FALSE \in BOOLEAN
    BY <1>2, PageFieldsAre
  <2>2. new.selected = None /\ new.reader = 0
    BY <1>2 DEF PageRecords
  <2>3. new \in PageRecords
    BY <2>1, <1>2 DEF PageRecords
  <2> QED BY <2>2, <2>3, <1>1
<1>4. PageFields'
  BY <1>1, <1>2, <1>3, DroppedIs DEF PageFields
<1>5. request \in Requests /\ request.ask = "files"
  BY <1>2, PageFieldsAre DEF Requests
<1>6. one \in Seq(Requests) /\ Len(one) = 1 /\ one[1] = request
  <2> HIDE DEF request
  <2> QED BY <1>5
<1> HIDE DEF request, one
<1>7. requests \in Seq(Requests)
  BY <1>2 DEF RequestsRight
<1> DEFINE all == messages \o one
<1>8. requests' = requests \o all
  <2>1. \A u, v, w \in Seq(Requests) : (u \o v) \o w = u \o (v \o w)
    BY ConcatAssociative
  <2> QED BY <2>1, <1>1, <1>6, <1>7 DEF one
<1>9. all \in Seq(Requests) /\ \A i \in DOMAIN all : all[i].ask # "read"
  <2> DEFINE M == Len(messages)
  <2>1. /\ all \in Seq(Requests) /\ Len(all) = M + 1 /\ M \in Nat /\ DOMAIN messages = 1..M
        /\ \A i \in 1..(M + 1) : all[i] = IF i <= M THEN messages[i] ELSE one[i - M]
    <3>1. /\ messages \o one \in Seq(Requests) /\ Len(messages \o one) = Len(messages) + Len(one)
          /\ \A i \in 1..(Len(messages) + Len(one)) :
                 (messages \o one)[i] = IF i <= Len(messages) THEN messages[i] ELSE one[i - Len(messages)]
      BY <1>6, ConcatProperties, Zenon
    <3>2. M \in Nat /\ DOMAIN messages = 1..M
      OBVIOUS
    <3> QED BY <1>6, <3>1, <3>2
  <2> HIDE DEF all, M
  <2>2. DOMAIN all = 1..(M + 1)
    BY <2>1
  <2>3. ASSUME NEW i \in DOMAIN all PROVE all[i].ask # "read"
    <3>1. CASE i <= M
      BY <3>1, <2>1, <2>2
    <3>2. CASE ~ (i <= M)
      <4>1. i - M = 1
        BY <3>2, <2>1, <2>2
      <4> QED BY <3>2, <4>1, <2>1, <2>2, <1>5, <1>6
    <3> QED BY <3>1, <3>2
  <2> QED BY <2>1, <2>3
<1> HIDE DEF all
<1>10. DOMAIN readers' = DOMAIN readers /\ \A r \in DOMAIN readers : readers'[r].state = readers[r].state
  BY <1>1, <1>2, DroppedIs
<1>11. RequestsRight'
  BY <1>2, <1>8, <1>9, <1>10, MessagesAdded
<1>12. FieldRight(LineTexts)' /\ Fresh'
  BY <1>1, NewFieldRight
<1> QED BY <1>3, <1>4, <1>11, <1>12 DEF PageInv, FieldReads

LEMMA OpenPageRight ==
  ASSUME PageInv, OpenPage
  PROVE  PageInv'
<1> DEFINE none == <<>>
<1>1. none \in Seq(Requests) /\ DOMAIN none = {}
  OBVIOUS
<1> HIDE DEF none
<1>2. AskForFiles(none)
  BY DEF OpenPage, none
<1> QED BY <1>1, <1>2, AskForFilesRight

LEMMA CleanUpRight ==
  ASSUME PageInv, CleanUp
  PROVE  PageInv'
<1> DEFINE request == [ask |-> "cleanup", number |-> 0]
           one == <<request>>
<1>1. request \in Requests /\ request.ask = "cleanup"
  BY DEF Requests
<1>2. AskForFiles(one)
  BY DEF CleanUp
<1> HIDE DEF request
<1>3. one \in Seq(Requests) /\ DOMAIN one = {1} /\ one[1] = request
  BY <1>1
<1> HIDE DEF one
<1> QED BY <1>1, <1>2, <1>3, AskForFilesRight

LEMMA ReaderIs ==
  ASSUME NEW path \in Paths
  PROVE  /\ Reader(path) \in LogReaders
         /\ Reader(path).state = "asked" /\ Reader(path).open /\ Reader(path).path = path
         /\ Reader(path).channel = <<>> /\ Reader(path).out = <<>> /\ Reader(path).read = 0
<1> DEFINE none == <<>>
           new == Reader(path)
<1>1. none \in Seq(Pieces) /\ none \in Seq(LineSet) /\ Len(none) = 0 /\ MaxPieces \in Nat
  BY PiecesAssumption
<1>2. none \in LogPieces <=> none \in Seq(Pieces) /\ Len(none) <= MaxPieces
  <2> HIDE DEF none
  <2> QED BY LogIs
<1>3. new = [path |-> path, state |-> "asked", read |-> 0, text |-> none, line |-> none, first |-> TRUE,
             out |-> none, open |-> TRUE, channel |-> none]
  BY DEF Reader
<1> HIDE DEF none
<1>4. none \in LogPieces
  BY <1>1, <1>2
<1>5. TRUE \in BOOLEAN /\ "asked" \in States /\ 0 \in 0..MaxPieces
  BY <1>1 DEF States
<1>6. /\ new \in ReaderRecords /\ new.state = "asked" /\ new.path = path
      /\ new.channel = none /\ new.out = none /\ new.read = 0 /\ new.line = none
  <2> HIDE DEF new
  <2> QED BY <1>1, <1>3, <1>4, <1>5 DEF ReaderRecords
<1>7. new.open
  <2> HIDE DEF new
  <2> QED BY <1>3, Zenon
<1> HIDE DEF new
<1>8. new \in LogReaders
  BY <1>1, <1>6 DEF LogReaders, none
<1> QED BY <1>6, <1>7, <1>8 DEF new, none

\* A file is selected: a new reader fills a new field.
LEMMA SelectRight ==
  ASSUME PageInv, NEW path \in Paths, Select(path)
  PROVE  PageInv'
<1> DEFINE N == Len(readers)
           reader == Reader(path)
           left == Dropped
           request == [ask |-> "read", number |-> N + 1]
<1>1. /\ page' = [page EXCEPT !.selected = path, !.reader = N + 1]
      /\ readers' = Append(left, reader)
      /\ requests' = Append(requests, request)
      /\ NewField /\ UNCHANGED files
  BY DEF Select
<1>2. PageFields /\ RequestsRight /\ page \in PageRecords
  BY DEF PageInv, PageFields
<1>3. N \in Nat /\ DOMAIN readers = 1..N
  BY <1>2, PageFieldsAre
<1>4. /\ left \in Seq(LogReaders) /\ Len(left) = N
      /\ \A r \in 1..N : left[r].state = readers[r].state
  BY <1>2, <1>3, DroppedIs
<1>5. /\ reader \in LogReaders /\ reader.state = "asked" /\ reader.open /\ reader.path = path
      /\ reader.channel = <<>> /\ reader.out = <<>> /\ reader.read = 0
  BY ReaderIs
<1> HIDE DEF N, reader, left
<1>6. page' \in PageRecords /\ page'.selected = path /\ page'.reader = N + 1
  <2> DEFINE new == [page EXCEPT !.selected = path, !.reader = N + 1]
  <2>1. N + 1 \in Nat
    BY <1>3
  <2>2. new.selected = path /\ new.reader = N + 1
    BY <1>2 DEF PageRecords
  <2>3. new \in PageRecords
    BY <2>1, <1>2 DEF PageRecords
  <2> QED BY <2>2, <2>3, <1>1
<1>7. /\ readers' \in Seq(LogReaders) /\ Len(readers') = N + 1 /\ readers'[N + 1] = reader
      /\ \A r \in 1..N : readers'[r] = left[r]
  BY <1>1, <1>4, <1>5, AppendProperties
<1>8. DOMAIN readers' = 1..(N + 1)
  BY <1>7
<1>9. PageFields'
  BY <1>1, <1>2, <1>6, <1>7 DEF PageFields
<1>10. request \in Requests /\ request.number = N + 1
  BY <1>3 DEF Requests
<1> HIDE DEF request
<1>11. \A r \in DOMAIN readers : readers[r].state = "asked" => readers'[r].state = "asked"
  BY <1>3, <1>4, <1>7
<1> DEFINE M == N + 1
<1>12. M \in Nat /\ N < M /\ N <= M /\ DOMAIN readers' = 1..M /\ readers'[M].state = "asked" /\ request.number = M
  BY <1>3, <1>5, <1>7, <1>8, <1>10
<1> HIDE DEF M
<1>13. RequestsRight'
  BY <1>1, <1>2, <1>3, <1>10, <1>11, <1>12, RequestAdded
<1>14. FieldRight(LineTexts)' /\ FieldLines' = <<>>
  BY <1>1, NewFieldRight, FreshLines
<1>15. FieldReads'
  <2> DEFINE none == <<>>
  <2>1. none \in Seq(LineSet) /\ none \o none = none /\ none \o none \o none = none
    OBVIOUS
  <2>2. Way(none, reader) = Pieced(none)
    BY <2>1, <1>5 DEF Way
  <2>3. Pieced(none) = none
    BY PiecedEmpty
  <2>4. Reading(FieldLines', reader, LogOf(reader, files'))
    BY <2>2, <2>3, <1>5, <1>14 DEF Reading
  <2>5. page'.reader \in DOMAIN readers' /\ page'.reader # 0 /\ readers'[page'.reader] = reader
    BY <1>3, <1>6, <1>7, <1>8
  <2> QED BY <2>4, <2>5, <1>5, <1>6 DEF FieldReads
<1> QED BY <1>9, <1>13, <1>14, <1>15 DEF PageInv

LEMMA SelectNothingRight ==
  ASSUME PageInv, SelectNothing
  PROVE  PageInv'
<1>1. /\ page' = [page EXCEPT !.selected = None, !.reader = 0]
      /\ readers' = Dropped /\ NewField /\ UNCHANGED <<files, requests>>
  BY DEF SelectNothing
<1>2. PageFields /\ RequestsRight /\ page \in PageRecords
  BY DEF PageInv, PageFields
<1>3. page' \in PageRecords /\ page'.selected = None /\ page'.reader = 0
  BY <1>1, <1>2 DEF PageRecords
<1>4. PageFields'
  BY <1>1, <1>2, <1>3, DroppedIs DEF PageFields
<1>5. RequestsRight'
  BY <1>1, <1>2, DroppedIs, RequestsKept
<1>6. FieldRight(LineTexts)' /\ Fresh'
  BY <1>1, NewFieldRight
<1> QED BY <1>3, <1>4, <1>5, <1>6 DEF PageInv, FieldReads

LEMMA OneReader ==
  ASSUME PageFields, NEW r \in DOMAIN readers, NEW new \in LogReaders, readers' = [readers EXCEPT ![r] = new]
  PROVE  /\ readers' \in Seq(LogReaders) /\ DOMAIN readers' = DOMAIN readers
         /\ readers'[r] = new /\ \A k \in DOMAIN readers : k # r => readers'[k] = readers[k]
<1> DEFINE N == Len(readers)
           all == [readers EXCEPT ![r] = new]
<1>1. /\ N \in Nat /\ DOMAIN readers = 1..N /\ \A k \in 1..N : readers[k] \in LogReaders
      /\ readers \in Seq(LogReaders)
  BY PageFieldsAre DEF PageFields
<1>2. /\ DOMAIN all = 1..N /\ all[r] = new /\ \A k \in 1..N : k # r => all[k] = readers[k]
      /\ all \in Seq(LogReaders)
  BY <1>1, ExceptSeq
<1> HIDE DEF all
<1> QED BY <1>1, <1>2 DEF all

LEMMA OneMore ==
  ASSUME NEW S, NEW waiting \in Seq(S), NEW text \in S
  PROVE  /\ Len(Append(waiting, text)) = Len(waiting) + 1
         /\ SubSeq(Append(waiting, text), 1, Len(waiting)) = waiting
<1> DEFINE more == Append(waiting, text)
           N == Len(waiting)
           start == SubSeq(more, 1, N)
<1>1. /\ N \in Nat /\ more \in Seq(S) /\ Len(more) = N + 1
      /\ \A i \in 1..N : more[i] = waiting[i]
  BY AppendProperties
<1> HIDE DEF more
<1>2. \A i \in 1..N : more[i] \in S
  BY <1>1, ElementOfSeq
<1>3. start \in Seq(S) /\ Len(start) = N /\ \A i \in 1..N : start[i] = more[i]
  BY <1>1, <1>2, SubSeqProperties
<1> HIDE DEF start
<1>4. start = waiting
  BY <1>1, <1>3, SeqEqual
<1> QED BY <1>1, <1>4 DEF more, start

\* The page's task takes a line.
LEMMA ReceiveRight ==
  ASSUME PageInv, Receive
  PROVE  PageInv' /\ Len(pending') = Len(pending) + 1 /\ SubSeq(pending', 1, Len(pending)) = pending
<1> DEFINE r == page.reader
           reader == readers[r]
           head == Head(reader.channel)
           new == LineTaken(reader)
<1>1. PageFields /\ RequestsRight /\ FieldReads /\ FieldRight(LineTexts)
  BY DEF PageInv
<1>2. /\ r # 0 /\ reader.channel # <<>> /\ AddLine(head)
      /\ readers' = [readers EXCEPT ![r].channel = Tail(@)]
      /\ UNCHANGED <<files, page, requests, itemState, search>>
  BY DEF Receive
<1>3. /\ r \in DOMAIN readers /\ reader.open /\ reader.path = page.selected
      /\ Reading(FieldLines, reader, LogOf(reader, files))
  BY <1>1, <1>2 DEF FieldReads
<1>4. reader \in LogReaders
  BY <1>1, <1>3, PageFieldsAre
<1>5. readers' = [readers EXCEPT ![r] = new]
  BY <1>2 DEF LineTaken
<1>6. FieldLines \in Seq(LineSet)
  BY <1>1, FieldLinesAre
<1>7. /\ new \in LogReaders /\ SameReader(reader, new)
      /\ new.state = reader.state /\ new.read = reader.read /\ new.line = reader.line
      /\ head \in LineSet /\ Way(FieldLines \o <<head>>, new) = Way(FieldLines, reader)
  <2> HIDE DEF reader
  <2> QED BY <1>2, <1>4, <1>6, TakenIs
<1> HIDE DEF new, head
<1>8. /\ readers' \in Seq(LogReaders) /\ DOMAIN readers' = DOMAIN readers
      /\ readers'[r] = new /\ \A k \in DOMAIN readers : k # r => readers'[k] = readers[k]
  BY <1>1, <1>3, <1>5, <1>7, OneReader
<1>9. PageFields'
  BY <1>1, <1>2, <1>8 DEF PageFields
<1>10. RequestsRight'
  BY <1>1, <1>2, <1>7, <1>8, RequestsKept
<1>11. FieldRight(LineTexts)' /\ FieldLines' = FieldLines \o <<head>>
  BY <1>1, <1>2, <1>7, AddedLine
<1>12. FieldReads'
  <2>1. Way(FieldLines', new) = Way(FieldLines, reader) /\ new.path = reader.path
    BY <1>7, <1>11 DEF SameReader
  <2>2. Reading(FieldLines', new, LogOf(reader, files))
    BY <2>1, <1>3, <1>7, SameWay
  <2>3. LogOf(new, files') = LogOf(reader, files)
    BY <1>2, <1>7 DEF LogOf, SameReader
  <2>4. new.open /\ new.path = page'.selected /\ page'.reader = r
    BY <1>2, <1>3, <1>7 DEF SameReader
  <2> QED BY <2>2, <2>3, <2>4, <1>2, <1>3, <1>8 DEF FieldReads
<1>13. Len(pending') = Len(pending) + 1 /\ SubSeq(pending', 1, Len(pending)) = pending
  <2> DEFINE text == TextOf(head)
  <2>1. pending \in Seq(LineTexts) /\ text \in LineTexts /\ pending' = Append(pending, text)
    BY <1>1, <1>2, <1>7, FieldIs DEF AddLine, LineTexts
  <2> HIDE DEF text
  <2> QED BY <2>1, OneMore
<1> QED BY <1>9, <1>10, <1>11, <1>12, <1>13 DEF PageInv

\* The backend opens the file that a reader is asked for.
LEMMA HandleReadLogRight ==
  ASSUME PageInv, HandleReadLog
  PROVE  PageInv'
<1> DEFINE r == Head(requests).number
           reader == readers[r]
           file == files[reader.path]
           new == Opened(reader, file)
<1>1. PageFields /\ RequestsRight /\ FieldReads /\ FieldRight(LineTexts)
  BY DEF PageInv
<1>2. /\ requests # <<>> /\ Head(requests).ask = "read" /\ requests' = Tail(requests)
      /\ readers' = [readers EXCEPT ![r] = ReadLog(@)]
      /\ UNCHANGED <<files, page, fieldVars>>
  BY DEF HandleReadLog, Request
<1>3. 1 \in DOMAIN requests /\ requests[1] = Head(requests)
  <2>1. requests \in Seq(Requests)
    BY <1>1 DEF RequestsRight
  <2> QED BY <2>1, <1>2
<1>4. r \in DOMAIN readers /\ reader.state = "asked" /\ AsksFor(1, r)
  BY <1>1, <1>2, <1>3 DEF RequestsRight, AsksFor
<1>5. reader \in LogReaders
  BY <1>1, <1>4, PageFieldsAre
<1>6. file \in LogFiles
  <2>1. reader.path \in Paths
    BY <1>5, ReaderFields
  <2> QED BY <2>1, <1>1, PageFieldsAre
<1>7. readers' = [readers EXCEPT ![r] = new]
  BY <1>2 DEF ReadLog, Opened
<1>8. FieldLines \in Seq(LineSet)
  BY <1>1, FieldLinesAre
<1>9. /\ new \in LogReaders /\ new.path = reader.path /\ new.open = reader.open
      /\ Reading(FieldLines, reader, LogOf(reader, files)) => Reading(FieldLines, new, LogOf(new, files))
  <2> DEFINE log == IF reader.path \in Zipped THEN new.text ELSE file.pieces
             text == LogOf(reader, files)
  <2>1. /\ new \in LogReaders /\ new.path = reader.path /\ new.open = reader.open
        /\ Reading(FieldLines, reader, text) => Reading(FieldLines, new, log)
    <3> HIDE DEF reader, file, text
    <3> QED BY <1>4, <1>5, <1>6, <1>8, OpenedIs
  <2>2. log = LogOf(new, files)
    BY <2>1 DEF LogOf
  <2> HIDE DEF new, log, text, reader, file
  <2> QED BY <2>1, <2>2 DEF text
<1> HIDE DEF new
<1>10. /\ readers' \in Seq(LogReaders) /\ DOMAIN readers' = DOMAIN readers
       /\ readers'[r] = new /\ \A k \in DOMAIN readers : k # r => readers'[k] = readers[k]
  BY <1>1, <1>4, <1>7, <1>9, OneReader
<1>11. PageFields'
  BY <1>1, <1>2, <1>10 DEF PageFields
<1>12. RequestsRight'
  <2>1. \A k \in DOMAIN readers : readers[k].state = "asked" /\ ~ AsksFor(1, k) => readers'[k].state = "asked"
    BY <1>4, <1>10
  <2> QED BY <2>1, <1>1, <1>2, <1>10, RequestHandled
<1>13. FieldRight(LineTexts)' /\ FieldLines' = FieldLines /\ (Fresh => Fresh')
  BY <1>1, <1>2, FieldUnchanged
<1>14. FieldReads'
  <2>1. CASE page.reader # r
    BY <2>1, <1>1, <1>2, <1>10, <1>13 DEF FieldReads
  <2>2. CASE page.reader = r
    <3>1. r # 0
      BY <1>1, <1>4, PageFieldsAre
    <3>2. reader.open /\ reader.path = page.selected /\ Reading(FieldLines, reader, LogOf(reader, files))
      BY <3>1, <2>2, <1>1 DEF FieldReads
    <3> QED BY <3>1, <3>2, <2>2, <1>2, <1>4, <1>9, <1>10, <1>13 DEF FieldReads
  <2> QED BY <2>1, <2>2
<1> QED BY <1>11, <1>12, <1>13, <1>14 DEF PageInv

\* A reader does one thing.
LEMMA StepRight ==
  ASSUME PageInv, NEW r \in DOMAIN readers, NEW new \in LogReaders, Step(r, new),
         readers[r].state # "asked", SameReader(readers[r], new),
         readers[r].open /\ Reading(FieldLines, readers[r], LogOf(readers[r], files))
             => Reading(FieldLines, new, LogOf(readers[r], files))
  PROVE  PageInv'
<1> DEFINE reader == readers[r]
<1>1. PageFields /\ RequestsRight /\ FieldReads /\ FieldRight(LineTexts)
  BY DEF PageInv
<1>2. readers' = [readers EXCEPT ![r] = new] /\ UNCHANGED <<files, page, requests, fieldVars>>
  BY DEF Step
<1>3. /\ readers' \in Seq(LogReaders) /\ DOMAIN readers' = DOMAIN readers
      /\ readers'[r] = new /\ \A k \in DOMAIN readers : k # r => readers'[k] = readers[k]
  BY <1>1, <1>2, OneReader
<1>4. PageFields'
  BY <1>1, <1>2, <1>3 DEF PageFields
<1>5. RequestsRight'
  BY <1>1, <1>2, <1>3, RequestsKept
<1>6. FieldRight(LineTexts)' /\ FieldLines' = FieldLines /\ (Fresh => Fresh')
  BY <1>1, <1>2, FieldUnchanged
<1>7. LogOf(new, files) = LogOf(reader, files) /\ new.path = reader.path /\ new.open = reader.open
  BY DEF LogOf, SameReader
<1>8. FieldReads'
  <2>1. CASE page.reader # r
    BY <2>1, <1>1, <1>2, <1>3, <1>6 DEF FieldReads
  <2>2. CASE page.reader = r
    <3>1. r # 0
      BY <1>1, PageFieldsAre
    <3>2. reader.open /\ reader.path = page.selected /\ Reading(FieldLines, reader, LogOf(reader, files))
      BY <3>1, <2>2, <1>1 DEF FieldReads
    <3>3. Reading(FieldLines, new, LogOf(new, files))
      BY <3>2, <1>7
    <3> QED BY <3>1, <3>2, <3>3, <2>2, <1>2, <1>3, <1>6, <1>7 DEF FieldReads
  <2> QED BY <2>1, <2>2
<1> QED BY <1>4, <1>5, <1>6, <1>8 DEF PageInv

LEMMA ReaderStepRight ==
  ASSUME PageInv, NEW r \in DOMAIN readers, ReaderStep(r)
  PROVE  PageInv'
<1> DEFINE reader == readers[r]
           log == LogOf(reader, files)
<1>1. reader \in LogReaders /\ FieldLines \in Seq(LineSet) /\ \A p \in Paths : files[p] \in LogFiles
  BY PageFieldsAre, FieldLinesAre DEF PageInv
<1>2. /\ log \in LogPieces /\ (reader.path \in Zipped => log = reader.text)
      /\ (reader.path \notin Zipped => log = files[reader.path].pieces)
  <2>1. reader.path \in Paths /\ reader.text \in LogPieces
    BY <1>1, ReaderFields
  <2>2. files[reader.path].pieces \in LogPieces
    BY <1>1, <2>1 DEF LogFiles
  <2> QED BY <2>1, <2>2 DEF LogOf
<1>3. CASE ReadUntil(r)
  <2> DEFINE pieces == files[reader.path].pieces
             new == UntilRead(reader, pieces)
  <2>1. reader.state = "reads" /\ reader.out = <<>> /\ NextRead(pieces, reader.read) # <<>>
    BY <1>3 DEF ReadUntil, Reads
  <2>2. Step(r, new)
    BY <1>3 DEF ReadUntil, UntilRead
  <2>3. pieces \in LogPieces
    <3>1. reader.path \in Paths
      BY <1>1, ReaderFields
    <3> QED BY <1>1, <3>1 DEF LogFiles
  <2>4. new \in LogReaders /\ SameReader(reader, new)
        /\ (Reading(FieldLines, reader, pieces) => Reading(FieldLines, new, pieces))
    <3> HIDE DEF reader, pieces
    <3> QED BY <1>1, <2>1, <2>3, UntilReadIs
  <2>5. reader.state # "asked"
    BY <2>1
  <2>6. Reading(FieldLines, reader, log) => Reading(FieldLines, new, log)
    <3>1. ASSUME Reading(FieldLines, reader, log) PROVE Reading(FieldLines, new, log)
      <4>1. reader.path \in Plain
        BY <2>1, <3>1 DEF Reading
      <4>2. log = pieces
        BY <4>1, PiecesAssumption DEF LogOf
      <4> HIDE DEF new, log, pieces
      <4> QED BY <3>1, <4>2, <2>4
    <3> QED BY <3>1
  <2> HIDE DEF new
  <2> QED BY <2>2, <2>4, <2>5, <2>6, StepRight
<1>4. CASE ReadZipped(r)
  <2> DEFINE new == ZippedRead(reader)
             text == reader.text
  <2>1. reader.state = "unzips" /\ reader.out = <<>>
    BY <1>4 DEF ReadZipped, Reads
  <2>2. Step(r, new)
    BY <1>4 DEF ReadZipped, ZippedRead
  <2>3. new \in LogReaders /\ SameReader(reader, new)
        /\ (Reading(FieldLines, reader, text) => Reading(FieldLines, new, text))
    <3> HIDE DEF reader
    <3> QED BY <1>1, <2>1, ZippedReadIs
  <2>4. reader.state # "asked"
    BY <2>1
  <2>5. Reading(FieldLines, reader, log) => Reading(FieldLines, new, log)
    <3>1. ASSUME Reading(FieldLines, reader, log) PROVE Reading(FieldLines, new, log)
      <4>1. reader.path \in Zipped
        BY <2>1, <3>1 DEF Reading
      <4>2. log = text
        BY <4>1, <1>2
      <4> HIDE DEF new, log, text
      <4> QED BY <3>1, <4>2, <2>3
    <3> QED BY <3>1
  <2> HIDE DEF new
  <2> QED BY <2>2, <2>3, <2>4, <2>5, StepRight
<1>5. CASE SendLine(r)
  <2> DEFINE new == Sent(reader)
  <2>1. reader.out # <<>> /\ Step(r, new)
    BY <1>5 DEF SendLine, Sent
  <2>2. /\ new \in LogReaders /\ SameReader(reader, new)
        /\ new.state = reader.state /\ new.read = reader.read /\ new.line = reader.line
        /\ Way(FieldLines, new) = Way(FieldLines, reader)
    <3> HIDE DEF reader
    <3> QED BY <1>1, <2>1, SentIs
  <2>3. reader.state # "asked"
    BY <1>1, <2>1, ReaderFields
  <2>4. Reading(FieldLines, reader, log) => Reading(FieldLines, new, log)
    <3> HIDE DEF new, log, reader
    <3>1. new.path = reader.path
      BY <2>2 DEF SameReader
    <3> QED BY <2>2, <3>1, SameWay
  <2> HIDE DEF new
  <2> QED BY <2>1, <2>2, <2>3, <2>4, StepRight
<1>6. CASE NoticeClosed(r)
  <2> DEFINE new == Closed(reader)
  <2>1. ~reader.open /\ (reader.state = "reads" \/ reader.out # <<>>) /\ Step(r, new)
    BY <1>6 DEF NoticeClosed, Closed
  <2>2. new \in LogReaders /\ SameReader(reader, new)
    <3> HIDE DEF reader
    <3> QED BY <1>1, ClosedIs
  <2>3. reader.state # "asked"
    BY <1>1, <2>1, ReaderFields
  <2> HIDE DEF new
  <2> QED BY <2>1, <2>2, <2>3, StepRight
<1>7. CASE FailureSent(r)
  <2> DEFINE new == End(reader)
  <2>1. reader.state = "fails" /\ Step(r, new)
    BY <1>7 DEF FailureSent, Reads
  <2>2. new \in LogReaders /\ SameReader(reader, new)
    <3> HIDE DEF reader
    <3> QED BY <1>1, EndIs
  <2>3. reader.state # "asked"
    BY <2>1
  <2>4. Reading(FieldLines, reader, log) => Reading(FieldLines, new, log)
    <3> HIDE DEF reader, log
    <3> QED BY <1>1, <2>1, EndedReads
  <2> HIDE DEF new
  <2> QED BY <2>1, <2>2, <2>3, <2>4, StepRight
<1> QED BY <1>3, <1>4, <1>5, <1>6, <1>7 DEF ReaderStep

-----------------------------------------------------------------------------

LEMMA PaintFieldIs ==
  ASSUME NEW width \in Widths, PaintField(width)
  PROVE  Paint(width)
BY DEF PaintField, Paint, UpdateField, ListLines, PaintLines

LEMMA FieldStepIs ==
  ASSUME FieldRight(LineTexts), FieldStep
  PROVE  FieldRight(LineTexts)' /\ FieldLines' = FieldLines
<1>1. Countable(LineTexts)
  BY LinesAreCountable
<1> DEFINE T == TextsIn(List)
<1>2. T \in Seq(LineTexts) /\ pending \in Seq(LineTexts)
  BY FieldIs, TextsInType
<1>3. \/ \E width \in Widths : Paint(width)
      \/ \E query \in Queries : PressEnter(query)
      \/ SearchEnds
      \/ Moves
  BY PaintFieldIs DEF FieldStep, SearchField, FieldSearchEnds, MoveField, Moves
<1>4. FieldRight(LineTexts)' /\ TextsIn(List)' \o pending' = T \o pending
  <2>1. ASSUME NEW width \in Widths, Paint(width)
        PROVE  FieldRight(LineTexts)' /\ TextsIn(List)' \o pending' = T \o pending
    <3>1. /\ FieldRight(LineTexts)'
          /\ \/ List' = List /\ pending' = pending
             \/ TextsIn(List)' = T \o pending /\ pending' = <<>>
      BY <1>1, <2>1, PaintRight
    <3>2. CASE List' = List /\ pending' = pending
      BY <3>1, <3>2
    <3>3. CASE TextsIn(List)' = T \o pending /\ pending' = <<>>
      <4> DEFINE all == T \o pending
      <4>1. all \in Seq(LineTexts)
        BY <1>2, ConcatProperties
      <4> HIDE DEF all
      <4>2. all \o <<>> = all
        BY <4>1, ConcatEmptySeq
      <4> QED BY <3>1, <3>3, <4>2 DEF all
    <3> QED BY <3>1, <3>2, <3>3
  <2>2. ASSUME NEW query \in Queries, PressEnter(query)
        PROVE  FieldRight(LineTexts)' /\ TextsIn(List)' \o pending' = T \o pending
    BY <2>2, PressEnterRight
  <2>3. ASSUME SearchEnds
        PROVE  FieldRight(LineTexts)' /\ TextsIn(List)' \o pending' = T \o pending
    BY <1>1, <2>3, SearchEndsRight
  <2>4. ASSUME Moves
        PROVE  FieldRight(LineTexts)' /\ TextsIn(List)' \o pending' = T \o pending
    <3>1. UNCHANGED <<pending, itemState, search>>
      BY <2>4, MovesStay
    <3> QED BY <3>1, <1>2, FieldStays, ListStays
  <2> QED BY <1>3, <2>1, <2>2, <2>3, <2>4
<1> QED BY <1>4, SameFieldLines

LEMMA FieldStepRight ==
  ASSUME PageInv, FieldStep
  PROVE  PageInv'
<1>1. PageFields /\ RequestsRight /\ FieldReads /\ FieldRight(LineTexts)
  BY DEF PageInv
<1>2. UNCHANGED <<files, page, requests, readers>> /\ page.selected # None
  BY DEF FieldStep, pageVars
<1>3. FieldRight(LineTexts)' /\ FieldLines' = FieldLines
  BY <1>1, FieldStepIs
<1>4. PageFields' /\ RequestsRight'
  BY <1>1, <1>2, RequestsKept DEF PageFields
<1>5. FieldReads'
  BY <1>1, <1>2, <1>3 DEF FieldReads
<1> QED BY <1>3, <1>4, <1>5 DEF PageInv

LEMMA PageStarts == Init /\ PageInit => PageInv
<1> SUFFICES ASSUME Init, PageInit PROVE PageInv
  OBVIOUS
<1>1. PICK text \in [Zipped -> ZippedTexts] : files = [p \in Paths |-> IF p \in Zipped THEN File(text[p]) ELSE NoFile]
  BY DEF PageInit
<1>2. /\ page = [asks |-> 1, answered |-> FALSE, logs |-> {}, selected |-> None, reader |-> 0]
      /\ requests = <<[ask |-> "files", number |-> 1]>> /\ readers = <<>>
  BY DEF PageInit
<1>3. files \in [Paths -> LogFiles]
  <2>1. \A p \in Zipped : File(text[p]) \in LogFiles
    BY <1>1, PiecesAssumption DEF LogFiles, File, LogPieces
  <2> QED BY <1>1, <2>1, NoFileIs
<1>4. page \in PageRecords /\ page.selected = None /\ page.reader = 0
  <2>1. {} \in SUBSET Paths /\ FALSE \in BOOLEAN /\ 1 \in Nat /\ 0 \in Nat
    OBVIOUS
  <2> QED BY <2>1, <1>2 DEF PageRecords
<1>5. PageFields
  BY <1>2, <1>3, <1>4 DEF PageFields
<1> DEFINE request == [ask |-> "files", number |-> 1]
<1>6. request \in Requests /\ request.ask # "read"
  BY DEF Requests
<1> HIDE DEF request
<1>7. requests \in Seq(Requests) /\ DOMAIN requests = {1} /\ requests[1] = request
  BY <1>2, <1>6 DEF request
<1>8. RequestsRight
  BY <1>6, <1>7 DEF RequestsRight, AsksFor
<1>9. Fresh
  BY DEF Init, Fresh
<1> QED BY <1>4, <1>5, <1>8, <1>9, FreshIsRight DEF PageInv, FieldReads

LEMMA PageSteps == PageInv /\ [PageNext]_<<fieldVars, pageVars>> => PageInv'
<1> SUFFICES ASSUME PageInv, [PageNext]_<<fieldVars, pageVars>> PROVE PageInv'
  OBVIOUS
<1>1. CASE UNCHANGED <<fieldVars, pageVars>>
  <2>1. UNCHANGED fieldVars /\ UNCHANGED <<files, page, requests, readers>>
    BY <1>1 DEF pageVars
  <2>2. PageFields /\ RequestsRight /\ FieldReads /\ FieldRight(LineTexts)
    BY DEF PageInv
  <2>3. FieldRight(LineTexts)' /\ FieldLines' = FieldLines /\ (Fresh => Fresh')
    BY <2>1, <2>2, FieldUnchanged
  <2> QED BY <2>1, <2>2, <2>3, RequestsKept DEF PageInv, PageFields, FieldReads
<1>2. ASSUME NEW path \in Plain, Write(path) PROVE PageInv'
  BY <1>2, WriteRight
<1>3. ASSUME NEW path \in Zipped, Delete(path) PROVE PageInv'
  BY <1>3, DeleteRight
<1>4. CASE OpenPage
  BY <1>4, OpenPageRight
<1>5. CASE CleanUp
  BY <1>5, CleanUpRight
<1>6. ASSUME NEW path \in Paths, Select(path) PROVE PageInv'
  BY <1>6, SelectRight
<1>7. CASE SelectNothing
  BY <1>7, SelectNothingRight
<1>8. CASE Receive
  BY <1>8, ReceiveRight
<1>9. CASE BackendStep
  BY <1>9, GetLogFilesRight, CleanupRight, HandleReadLogRight DEF BackendStep
<1>10. ASSUME NEW r \in DOMAIN readers, ReaderStep(r) PROVE PageInv'
  BY <1>10, ReaderStepRight
<1>11. CASE FieldStep
  BY <1>11, FieldStepRight
<1> QED BY <1>1, <1>2, <1>3, <1>4, <1>5, <1>6, <1>7, <1>8, <1>9, <1>10, <1>11 DEF PageNext

LEMMA PageIsRight == PageSpec => []PageInv
BY PageStarts, PageSteps, PTL DEF PageSpec

-----------------------------------------------------------------------------
(* Log page: theorems.                                                       *)

LEMMA ReadingIsPrefix ==
  ASSUME NEW written \in Seq(LineSet), NEW reader \in LogReaders, NEW text \in Seq(Pieces),
         Reading(written, reader, text)
  PROVE  /\ IsPrefix(Way(written, reader), text)
         /\ reader.state = "reads" => Way(written, reader) \o reader.line = SubSeq(text, 1, reader.read)
<1> DEFINE way == Way(written, reader)
           none == <<>>
<1>1. way \in Seq(Pieces) /\ none \in Seq(Pieces)
  BY WayIs
<1>2. reader.line \in Seq(Pieces) /\ reader.read \in Nat /\ reader.state \in States /\ Len(text) \in Nat
  BY ReaderFields
<1>3. \E rest \in Seq(Pieces) : \E n \in 0..Len(text) : way \o rest = SubSeq(text, 1, n)
  <2> HIDE DEF way, none
  <2>1. way \o none = way
    BY <1>1, ConcatEmptySeq DEF none
  <2>2. CASE reader.state = "asked"
    <3>1. way = none /\ SubSeq(text, 1, 0) = none /\ 0 \in 0..Len(text)
      BY <2>2, <1>2, SubSeqEmpty DEF Reading, way, none
    <3> QED BY <3>1, <2>1, <1>1
  <2>3. CASE reader.state = "reads"
    <3>1. way \o reader.line = SubSeq(text, 1, reader.read) /\ reader.read \in 0..Len(text)
      BY <2>3, <1>2 DEF Reading, way
    <3> QED BY <3>1, <1>2
  <2>4. CASE reader.state = "unzips"
    <3>1. way = SubSeq(text, 1, reader.read) /\ reader.read \in 0..Len(text)
      BY <2>4, <1>2 DEF Reading, way
    <3> QED BY <3>1, <2>1, <1>1
  <2>5. CASE reader.state \in {"fails", "ended"}
    <3>1. \E k \in 0..Len(text) : way = SubSeq(text, 1, k)
      BY <2>5 DEF Reading, way
    <3> QED BY <3>1, <2>1, <1>1
  <2> QED BY <2>2, <2>3, <2>4, <2>5, <1>2 DEF States
<1>4. PICK rest \in Seq(Pieces), n \in 0..Len(text) : way \o rest = SubSeq(text, 1, n)
  BY <1>3
<1> HIDE DEF way
<1>5. Len(way) \in 0..Len(text) /\ way = SubSeq(text, 1, Len(way))
  BY <1>1, <1>4, PrefixOf
<1>6. IsPrefix(way, text)
  <2>1. Len(way) <= Len(text) /\ SubSeq(way, 1, Len(way)) = way
    BY <1>1, <1>5, <1>2, SubSeqFull
  <2> QED BY <2>1, <1>5 DEF IsPrefix
<1> QED BY <1>6 DEF way, Reading

LEMMA PageInvShows == PageInv => PageShowsItsFile
<1> SUFFICES ASSUME PageInv, page.reader # 0 PROVE PageShowsItsFile
  BY DEF PageShowsItsFile
<1> DEFINE reader == readers[page.reader]
           text == LogOf(reader, files)
           way == Way(FieldLines, reader)
<1>1. PageFields /\ FieldReads /\ FieldRight(LineTexts)
  BY DEF PageInv
<1>2. /\ page.reader \in DOMAIN readers /\ reader.path = page.selected
      /\ Reading(FieldLines, reader, text)
  BY <1>1 DEF FieldReads
<1>3. reader \in LogReaders /\ FieldLines \in Seq(LineSet)
  BY <1>1, <1>2, PageFieldsAre, FieldLinesAre
<1>4. text \in Seq(Pieces)
  <2>1. reader.path \in Paths /\ reader.text \in Seq(Pieces)
    BY <1>3, ReaderFields
  <2>2. files[reader.path].pieces \in LogPieces
    BY <2>1, <1>1, PageFieldsAre DEF LogFiles
  <2>3. files[reader.path].pieces \in Seq(Pieces)
    BY <2>2, LogIs
  <2> QED BY <2>1, <2>3 DEF LogOf
<1>5. IsPrefix(way, text) /\ (reader.state = "reads" => way \o reader.line = SubSeq(text, 1, reader.read))
  <2> HIDE DEF reader, text
  <2> QED BY <1>2, <1>3, <1>4, ReadingIsPrefix
<1>6. way = Pieced(FieldLines \o reader.channel \o reader.out)
  BY DEF Way
<1>7. text = IF reader.path \in Zipped THEN reader.text ELSE files[reader.path].pieces
  BY DEF LogOf
<1> HIDE DEF way, text
<1> QED BY <1>2, <1>5, <1>6, <1>7 DEF PageShowsItsFile

\* The page shows what the selected file holds from its start, each piece once and in
\* its place, for any files, writes, selections and orders of what the page, the
\* backend and the readers do (logs_subpage.rs:84-124, backend_handler.rs:604-699).
THEOREM LogIsShownAsItIs == PageSpec => []PageShowsItsFile
BY PageIsRight, PageInvShows, PTL

\* The rows of the page's field are counted and found like those of the game's output,
\* whatever file is selected meanwhile (readonly_text_field.rs:68-105, 806-893).
THEOREM PageIsConsistent == PageSpec => []RowsAreConsistent
<1>1. PageInv => RowsAreConsistent
  BY FieldIsConsistent DEF PageInv
<1> QED BY <1>1, PageIsRight, PTL

-----------------------------------------------------------------------------

LEMMA ShowingIs ==
  ASSUME NEW texts, NEW query
  PROVE  View!Showing(texts, query) = {i \in DOMAIN texts : IsShown(texts[i], query)}
BY DEF View!Showing, IsShown

LEMMA FieldShows ==
  ASSUME NEW Ts, FieldRight(Ts)
  PROVE  ShownIn(List) = View!Showing(TextsIn(List), List.query)
BY FieldIs, ShownInIs, ShowingIs

\* Where the field is left alone, so is what it shows.
LEMMA SameView ==
  ASSUME UNCHANGED <<pending, itemState, search>>, page'.selected = page.selected
  PROVE  UNCHANGED View!view
BY DEF View!view, List

LEMMA ViewTurns ==
  ASSUME PageInv, NewField
  PROVE  IF page'.selected = page.selected THEN page.selected = None => UNCHANGED View!view ELSE View!Turn
<1>1. CASE page'.selected # page.selected
  <2>1. List' = NoItems /\ pending' = <<>>
    BY NewFieldRight DEF NewField
  <2>2. TextsIn(NoItems) = <<>> /\ NoItems.query = "" /\ ShownIn(NoItems) = {}
    BY EmptyList
  <2>3. TextsIn(List)' = <<>> /\ List'.query = "" /\ ShownIn(List)' = {}
    BY <2>1, <2>2
  <2>4. View!Turn
    BY <1>1, <2>1, <2>3 DEF View!Turn, TextsIn, ShownIn
  <2> QED BY <1>1, <2>4
<1>2. CASE page'.selected = page.selected /\ page.selected = None
  <2>1. PageFields /\ FieldReads
    BY DEF PageInv
  <2>2. page.reader = 0
    <3>1. ASSUME page.reader # 0 PROVE FALSE
      <4>1. page.reader \in DOMAIN readers /\ readers[page.reader].path = None
        BY <3>1, <2>1, <1>2 DEF FieldReads
      <4>2. readers[page.reader].path \in Paths
        BY <2>1, <4>1, PageFieldsAre, ReaderFields
      <4> QED BY <4>1, <4>2, NoneIsNoPath
    <3> QED BY <3>1
  <2>3. Fresh
    BY <2>1, <2>2 DEF FieldReads
  <2>4. UNCHANGED <<pending, itemState, search>>
    BY <2>3 DEF Fresh, NewField
  <2> QED BY <1>2, <2>4, SameView
<1> QED BY <1>1, <1>2

\* What is shown once the list is another one.
ShowsRight(Ts) == FieldRight(Ts) => ShownIn(List) = View!Showing(TextsIn(List), List.query)

LEMMA LinesShowRight == ShowsRight(LineTexts)
BY FieldShows DEF ShowsRight

LEMMA TextsShowRight == ShowsRight(Texts)
BY FieldShows DEF ShowsRight

LEMMA ListViews ==
  ASSUME NEW Ts, Countable(Ts), FieldRight(Ts), ShowsRight(Ts)', page'.selected = page.selected,
         \/ \E width \in Widths : Paint(width)
         \/ \E query \in Queries : PressEnter(query)
         \/ SearchEnds
         \/ Moves
  PROVE  View!ViewNext \/ UNCHANGED View!view
<1>1. ASSUME NEW width \in Widths, Paint(width) PROVE View!List \/ UNCHANGED View!view
  <2>1. /\ FieldRight(Ts)'
        /\ \/ List' = List /\ pending' = pending
           \/ TextsIn(List)' = TextsIn(List) \o pending /\ pending' = <<>> /\ List'.query = List.query
    BY <1>1, PaintRight
  <2>2. CASE List' = List /\ pending' = pending
    BY <2>2 DEF View!view
  <2>3. CASE TextsIn(List)' = TextsIn(List) \o pending /\ pending' = <<>> /\ List'.query = List.query
    <3>1. ShownIn(List)' = View!Showing(TextsIn(List)', List'.query)
      BY <2>1 DEF ShowsRight
    <3> QED BY <2>3, <3>1 DEF View!List, TextsIn, ShownIn
  <2> QED BY <2>1, <2>2, <2>3
<1>2. ASSUME NEW query \in Queries, PressEnter(query) PROVE UNCHANGED View!view
  <2>1. List' = List /\ pending' = pending
    BY <1>2, PressEnterRight
  <2> QED BY <2>1 DEF View!view
<1>3. ASSUME SearchEnds PROVE View!Search
  <2>1. FieldRight(Ts)' /\ pending' = pending /\ TextsIn(List)' = TextsIn(List) /\ List'.query \in Queries
    BY <1>3, SearchEndsRight
  <2>2. ShownIn(List)' = View!Showing(TextsIn(List)', List'.query)
    BY <2>1 DEF ShowsRight
  <2> QED BY <2>1, <2>2 DEF View!Search, TextsIn, ShownIn
<1>4. ASSUME Moves PROVE UNCHANGED View!view
  BY <1>4, MovesStay, SameView
<1> QED BY <1>1, <1>2, <1>3, <1>4 DEF View!ViewNext

LEMMA FieldStepViews ==
  ASSUME PageInv, FieldStep
  PROVE  View!ViewNext \/ UNCHANGED View!view
<1>1. FieldRight(LineTexts) /\ Countable(LineTexts)
  BY LinesAreCountable DEF PageInv
<1>2. page' = page
  BY DEF FieldStep, pageVars
<1>4. ShowsRight(LineTexts)'
  BY LinesShowRight, PTL
<1>5. \/ \E width \in Widths : Paint(width)
      \/ \E query \in Queries : PressEnter(query)
      \/ SearchEnds
      \/ Moves
  BY PaintFieldIs DEF FieldStep, SearchField, FieldSearchEnds, MoveField, Moves
<1> QED BY <1>1, <1>2, <1>4, <1>5, ListViews

LEMMA PageStepViews == PageInv /\ [PageNext]_<<fieldVars, pageVars>> => [View!ViewNext]_(View!view)
<1> SUFFICES ASSUME PageInv, [PageNext]_<<fieldVars, pageVars>> PROVE View!ViewNext \/ UNCHANGED View!view
  OBVIOUS
<1>1. ASSUME UNCHANGED fieldVars, page'.selected = page.selected PROVE UNCHANGED View!view
  BY <1>1, SameView DEF fieldVars
<1>2. CASE UNCHANGED <<fieldVars, pageVars>>
  BY <1>1, <1>2 DEF pageVars
<1>3. ASSUME NEW path \in Plain, Write(path) PROVE UNCHANGED View!view
  BY <1>1, <1>3 DEF Write
<1>4. ASSUME NEW path \in Zipped, Delete(path) PROVE UNCHANGED View!view
  BY <1>1, <1>4 DEF Delete
<1>5. ASSUME NEW messages, AskForFiles(messages) PROVE View!Turn \/ UNCHANGED View!view
  <2>1. NewField /\ page' = [page EXCEPT !.asks = @ + 1, !.answered = FALSE, !.logs = {}, !.selected = None, !.reader = 0]
    BY <1>5 DEF AskForFiles
  <2>2. page'.selected = None
    BY <2>1 DEF PageInv, PageFields, PageRecords
  <2> QED BY <2>1, <2>2, ViewTurns
<1>6. CASE OpenPage \/ CleanUp
  BY <1>5, <1>6 DEF OpenPage, CleanUp, View!ViewNext
<1>7. ASSUME NEW path \in Paths, Select(path) PROVE View!Turn
  <2>1. NewField /\ path # page.selected /\ page' = [page EXCEPT !.selected = path, !.reader = Len(readers) + 1]
    BY <1>7 DEF Select
  <2>2. page'.selected = path
    BY <2>1 DEF PageInv, PageFields, PageRecords
  <2> QED BY <2>1, <2>2, ViewTurns
<1>8. ASSUME SelectNothing PROVE View!Turn
  <2>1. NewField /\ page.selected # None /\ page' = [page EXCEPT !.selected = None, !.reader = 0]
    BY <1>8 DEF SelectNothing
  <2>2. page'.selected = None
    BY <2>1 DEF PageInv, PageFields, PageRecords
  <2> QED BY <2>1, <2>2, ViewTurns
<1>9. ASSUME Receive PROVE View!Arrive
  <2>1. Len(pending') = Len(pending) + 1 /\ SubSeq(pending', 1, Len(pending)) = pending
    BY <1>9, ReceiveRight
  <2>2. UNCHANGED <<page, itemState, search>>
    BY <1>9 DEF Receive
  <2>3. List' = List
    BY <2>2, ListStays
  <2> QED BY <2>1, <2>2, <2>3 DEF View!Arrive
<1>10. ASSUME BackendStep PROVE UNCHANGED View!view
  <2>1. page'.selected = page.selected /\ UNCHANGED fieldVars
    BY <1>10 DEF BackendStep, GetLogFiles, CleanupOldLogFiles, HandleReadLog, PageInv, PageFields, PageRecords
  <2> QED BY <2>1, <1>1
<1>11. ASSUME NEW r \in DOMAIN readers, ReaderStep(r) PROVE UNCHANGED View!view
  <2>1. UNCHANGED <<page, fieldVars>>
    BY <1>11 DEF ReaderStep, ReadUntil, ReadZipped, SendLine, NoticeClosed, FailureSent, Step
  <2> QED BY <2>1, <1>1
<1>12. CASE FieldStep
  BY <1>12, FieldStepViews
<1> QED BY <1>2, <1>3, <1>4, <1>6, <1>7, <1>8, <1>9, <1>10, <1>11, <1>12 DEF PageNext, View!ViewNext

LEMMA ViewStarts == Init => View!ViewInit
<1> SUFFICES ASSUME Init PROVE View!ViewInit
  OBVIOUS
<1>1. List = NoItems /\ pending = <<>>
  BY FieldStarts DEF Init
<1>2. View!ViewInit <=> /\ pending = <<>> /\ TextsIn(List) = <<>> /\ List.query = "" /\ ShownIn(List) = {}
  BY DEF View!ViewInit, TextsIn, ShownIn
<1> QED BY <1>1, <1>2, EmptyList

LEMMA OutputStepViews == OutputInv /\ [Next]_vars /\ [page' = page]_<<vars, page>> => [View!ViewNext]_(View!view)
<1> SUFFICES ASSUME OutputInv, [Next]_vars, page' = page PROVE View!ViewNext \/ UNCHANGED View!view
  BY DEF vars
<1>1. Countable(Texts) /\ FieldRight(Texts)
  BY GameOutputAssumption DEF Countable, OutputInv
<1>2. CASE UNCHANGED vars
  BY <1>2, SameView DEF vars
<1>3. ASSUME NEW text \in Texts, Add(text) PROVE View!Arrive
  <2>1. pending' = Append(pending, text) /\ UNCHANGED <<itemState, search>> /\ pending \in Seq(Texts)
    BY <1>1, <1>3 DEF Add, FieldRight
  <2>2. List' = List
    BY <2>1, ListStays
  <2>3. Len(pending') = Len(pending) + 1 /\ SubSeq(pending', 1, Len(pending)) = pending
    BY <2>1, OneMore
  <2> QED BY <2>2, <2>3 DEF View!Arrive
<1>4. ShowsRight(Texts)'
  BY TextsShowRight, PTL
<1>5. CASE \/ \E width \in Widths : Paint(width)
           \/ \E query \in Queries : PressEnter(query)
           \/ SearchEnds
           \/ Moves
  BY <1>1, <1>4, <1>5, ListViews
<1> QED BY <1>2, <1>3, <1>5 DEF Next, Moves, View!ViewNext

\* The window of a game's output is a view of what the game says: whatever is painted,
\* moved or searched, nothing is lost or changes its place, and what is shown is what
\* was searched for.  It has no page (game_output/mod.rs:127-180, 965-1049).
THEOREM OutputIsAView == OutputSpec /\ [][page' = page]_<<vars, page>> => ImplementsView
BY ViewStarts, OutputStarts, OutputSteps, OutputStepViews, PTL DEF OutputSpec, ImplementsView, View!ViewSpec

\* The field is a view of what arrives, too, and only for another file is it emptied
\* (readonly_text_field.rs:68-105, 806-893, logs_subpage.rs:84-124).
THEOREM FieldIsAView == PageSpec => ImplementsView
BY ViewStarts, PageIsRight, PageStepViews, PTL DEF PageSpec, ImplementsView, View!ViewSpec
=============================================================================
