----------------------------- MODULE Inductions -------------------------------
(* Induction without an operator for a parameter, which the provers could not  *)
(* instantiate: the formula is given as the set of the values it holds of.     *)
(* With it, the functions that folds and recursive definitions choose are      *)
(* shown to exist.                                                             *)
EXTENDS SequencesExt, NaturalsInduction, SequenceTheorems, WellFoundedInduction, TLAPS

\* A nonempty set of natural numbers has a least element.
LEMMA LeastNatural ==
  ASSUME NEW T, T \subseteq Nat, T # {}
  PROVE  \E x \in T : \A y \in T : x <= y
<1>. DEFINE Q == OpToRel(<, Nat)
<1>1. IsWellFoundedOn(Q, Nat)
  BY NatLessThanWellFounded, Zenon
<1>2. PICK x \in T : \A y \in T : ~(<<y, x>> \in Q)
  <2>. HIDE DEF Q
  <2>. QED
    BY <1>1, WFMin
<1>3. ASSUME NEW y \in T PROVE x <= y
  <2>1. x \in Nat /\ y \in Nat
    OBVIOUS
  <2>2. ~(y < x)
    BY <1>2, <2>1 DEF OpToRel
  <2>. QED
    BY <2>1, <2>2
<1>. QED
  BY <1>3

\* What holds of 0 and passes from each number to the next holds up to N.
LEMMA UpTo ==
  ASSUME NEW N \in Nat, NEW S, 0 \in S, \A n \in 0 .. N : n < N /\ n \in S => n + 1 \in S
  PROVE  \A n \in 0 .. N : n \in S
<1>. DEFINE T == {n \in 0 .. N : n \notin S}
<1>1. SUFFICES ASSUME T # {} PROVE FALSE
  OBVIOUS
<1>2. PICK x \in T : \A y \in T : x <= y
  <2>1. T \subseteq Nat
    OBVIOUS
  <2>. HIDE DEF T
  <2>. QED
    BY <1>1, <2>1, LeastNatural
<1>3. x # 0 /\ x - 1 \in 0 .. N /\ x - 1 < N
  BY <1>2
<1>4. x - 1 \in S
  BY <1>2, <1>3
<1>. QED
  BY <1>2, <1>3, <1>4

\* A nonempty set of positions has a last one.
LEMMA LastPosition ==
  ASSUME NEW N \in Nat, NEW s, s \subseteq 1 .. N, s # {}
  PROVE  Max(s) \in s /\ \A x \in s : Max(s) >= x
<1>. DEFINE T == {n \in 0 .. N : \E x \in s : x = N - n}
<1>1. T # {}
  <2>1. PICK x \in s : TRUE
    OBVIOUS
  <2>2. N - x \in T
    <3>1. N - x \in 0 .. N /\ x = N - (N - x)
      OBVIOUS
    <3>. QED
      BY <3>1
  <2>. QED
    BY <2>2
<1>2. PICK n \in T : \A m \in T : n <= m
  <2>1. T \subseteq Nat
    OBVIOUS
  <2>. HIDE DEF T
  <2>. QED
    BY <1>1, <2>1, LeastNatural
<1>3. N - n \in s
  BY <1>2
<1>4. ASSUME NEW x \in s PROVE N - n >= x
  <2>1. N - x \in 0 .. N /\ x = N - (N - x)
    OBVIOUS
  <2>2. N - x \in T
    BY <2>1
  <2>. QED
    BY <1>2, <2>1, <2>2
<1>. QED
  BY <1>3, <1>4 DEF Max

\* What FoldLeft chooses: f takes every set of positions to what it folds to.
IsFold(N, base, step, f) ==
  f = [s \in SUBSET (1 .. N) |-> IF s = {} THEN base ELSE step[<<f[s \ {Max(s)}], Max(s)>>]]

\* A fold over the positions 1 .. N, from the last to the first, is defined:
\* there is such a function, and its values are those that the steps keep to.
LEMMA FoldExists ==
  ASSUME NEW N \in Nat, NEW V, NEW base \in V, NEW step, \A v \in V, i \in 1 .. N : step[<<v, i>>] \in V
  PROVE  \E f : IsFold(N, base, step, f) /\ \A s \in SUBSET (1 .. N) : f[s] \in V
<1>. DEFINE Folds(n, f) == IsFold(n, base, step, f) /\ \A s \in SUBSET (1 .. n) : f[s] \in V
            S == {n \in 0 .. N : \E f : Folds(n, f)}
<1>1. 0 \in S
  <2>. USE DEF IsFold
  <2>. DEFINE f == [s \in SUBSET (1 .. 0) |-> base]
  <2>1. SUBSET (1 .. 0) = {{}}
    OBVIOUS
  <2>2. Folds(0, f)
    BY <2>1
  <2>. HIDE DEF f, Folds
  <2>. QED
    BY <2>2
<1>2. ASSUME NEW n \in 0 .. N, n < N, n \in S PROVE n + 1 \in S
  <2>. USE DEF IsFold
  <2>1. PICK f : Folds(n, f)
    BY <1>2
  <2>. DEFINE g == [s \in SUBSET (1 .. n + 1) |->
                      IF n + 1 \in s THEN step[<<f[s \ {n + 1}], n + 1>>] ELSE f[s]]
  <2>2. ASSUME NEW s \in SUBSET (1 .. n + 1)
        PROVE  /\ g[s] = IF s = {} THEN base ELSE step[<<g[s \ {Max(s)}], Max(s)>>]
               /\ g[s] \in V
    <3>1. CASE n + 1 \in s
      <4>1. Max(s) = n + 1
        <5>1. n + 1 \in Nat /\ s \subseteq 1 .. n + 1 /\ s # {}
          BY <3>1
        <5>2. Max(s) \in s /\ \A x \in s : Max(s) >= x
          BY <5>1, LastPosition
        <5>3. Max(s) \in 1 .. n + 1 /\ Max(s) >= n + 1
          BY <3>1, <5>1, <5>2, Zenon
        <5>. HIDE DEF g, Folds
        <5>. QED
          BY <5>3, <5>1, SMT
      <4>2. s \ {n + 1} \in SUBSET (1 .. n) /\ s \ {n + 1} \in SUBSET (1 .. n + 1)
        OBVIOUS
      <4>3. g[s \ {n + 1}] = f[s \ {n + 1}] /\ f[s \ {n + 1}] \in V
        BY <2>1, <4>2
      <4>4. g[s] = step[<<f[s \ {n + 1}], n + 1>>]
        BY <3>1
      <4>. HIDE DEF g, Folds
      <4>. QED
        BY <3>1, <4>1, <4>3, <4>4, <1>2
    <3>2. CASE n + 1 \notin s
      <4>1. s \in SUBSET (1 .. n)
        BY <3>2
      <4>2. f[s] = (IF s = {} THEN base ELSE step[<<f[s \ {Max(s)}], Max(s)>>]) /\ f[s] \in V
        BY <2>1, <4>1
      <4>3. g[s] = f[s]
        BY <3>2
      <4>4. s # {} => g[s \ {Max(s)}] = f[s \ {Max(s)}]
        BY <3>2
      <4>. HIDE DEF g, Folds
      <4>. QED
        BY <4>2, <4>3, <4>4
    <3>. QED
      BY <3>1, <3>2
  <2>3. Folds(n + 1, g)
    <3>1. g = [s \in SUBSET (1 .. n + 1) |->
                 IF s = {} THEN base ELSE step[<<g[s \ {Max(s)}], Max(s)>>]]
      <4>. DEFINE h == [s \in SUBSET (1 .. n + 1) |->
                 IF s = {} THEN base ELSE step[<<g[s \ {Max(s)}], Max(s)>>]]
      <4>1. \A s \in SUBSET (1 .. n + 1) : g[s] = h[s]
        BY <2>2
      <4>2. g = [s \in SUBSET (1 .. n + 1) |-> g[s]]
        OBVIOUS
      <4>3. h = [s \in SUBSET (1 .. n + 1) |-> h[s]]
        OBVIOUS
      <4>. HIDE DEF g, h
      <4>4. g = h
        BY <4>1, <4>2, <4>3
      <4>. QED
        BY <4>4 DEF h
    <3>. QED
      BY <2>2, <3>1
  <2>. HIDE DEF g, Folds
  <2>. QED
    BY <1>2, <2>3
<1>3. N \in S
  <2>. HIDE DEF S
  <2>. QED
    BY <1>1, <1>2, UpTo
<1>. QED
  BY <1>3

\* The last of the first n positions.
LEMMA Intervals ==
  ASSUME NEW n \in Nat, n # 0
  PROVE  1 .. n # {} /\ Max(1 .. n) = n /\ (1 .. n) \ {n} = 1 .. n - 1
<1>1. Max(1 .. n) \in 1 .. n /\ \A x \in 1 .. n : Max(1 .. n) >= x
  <2>1. 1 .. n # {} /\ 1 .. n \subseteq 1 .. n
    <3>1. 1 \in 1 .. n
      OBVIOUS
    <3>. QED
      BY <3>1
  <2>. QED
    BY <2>1, LastPosition
<1>2. Max(1 .. n) = n
  <2>1. n \in 1 .. n
    OBVIOUS
  <2>2. Max(1 .. n) >= n
    BY <1>1, <2>1
  <2>. QED
    BY <1>1, <2>2
<1>. QED
  BY <1>2

\* A function defined by recursion on 0 .. N.
IsRecursive(N, base, step, f) ==
  f = [n \in 0 .. N |-> IF n = 0 THEN base ELSE step[<<f[n - 1], n>>]]

\* There is such a function, and its values are those that the steps keep to.
LEMMA RecursionExists ==
  ASSUME NEW N \in Nat, NEW V, NEW base \in V, NEW step, \A v \in V, n \in 1 .. N : step[<<v, n>>] \in V
  PROVE  \E f : IsRecursive(N, base, step, f) /\ \A n \in 0 .. N : f[n] \in V
<1>. USE DEF IsRecursive
<1>. DEFINE Recursive(k, f) == IsRecursive(k, base, step, f) /\ \A n \in 0 .. k : f[n] \in V
            S == {k \in 0 .. N : \E f : Recursive(k, f)}
<1>1. 0 \in S
  <2>. DEFINE f == [n \in 0 .. 0 |-> base]
  <2>1. Recursive(0, f)
    OBVIOUS
  <2>2. \E x : Recursive(0, x)
    <3>. HIDE DEF f, Recursive
    <3>. QED
      BY <2>1, Zenon
  <2>. HIDE DEF Recursive
  <2>. QED
    BY <2>2
<1>2. ASSUME NEW k \in 0 .. N, k < N, k \in S PROVE k + 1 \in S
  <2>1. PICK f : Recursive(k, f)
    BY <1>2
  <2>. DEFINE g == [n \in 0 .. k + 1 |-> IF n = k + 1 THEN step[<<f[k], k + 1>>] ELSE f[n]]
              h == [n \in 0 .. k + 1 |-> IF n = 0 THEN base ELSE step[<<g[n - 1], n>>]]
  <2>2. ASSUME NEW n \in 0 .. k + 1 PROVE g[n] = h[n] /\ g[n] \in V
    <3>1. CASE n = k + 1
      <4>1. g[k] = f[k] /\ f[k] \in V /\ k + 1 \in 1 .. N
        BY <2>1, <1>2
      <4>. QED
        BY <3>1, <4>1
    <3>2. CASE n # k + 1
      <4>1. n \in 0 .. k /\ (n # 0 => n - 1 \in 0 .. k + 1 /\ n - 1 # k + 1)
        BY <3>2
      <4>2. g[n] = f[n] /\ (n # 0 => g[n - 1] = f[n - 1])
        BY <4>1
      <4>. QED
        BY <2>1, <4>1, <4>2
    <3>. QED
      BY <3>1, <3>2
  <2>3. g = h
    BY <2>2
  <2>4. Recursive(k + 1, g)
    BY <2>2, <2>3
  <2>5. \E x : Recursive(k + 1, x)
    <3>. HIDE DEF g, Recursive
    <3>. QED
      BY <2>4, Zenon
  <2>. HIDE DEF Recursive
  <2>. QED
    BY <1>2, <2>5
<1>3. N \in S
  <2>. HIDE DEF S
  <2>. QED
    BY <1>1, <1>2, UpTo
<1>. QED
  BY <1>3

\* What holds of the empty sequence and passes to every sequence with one more
\* element holds of all sequences.
LEMMA OnSequences ==
  ASSUME NEW C, NEW S, <<>> \in S, \A s \in Seq(C), c \in C : s \in S => Append(s, c) \in S
  PROVE  Seq(C) \subseteq S
<1>. SUFFICES ASSUME NEW s \in Seq(C) PROVE s \in S
  OBVIOUS
<1>. DEFINE N == Len(s)
            First(n) == SubSeq(s, 1, n)
            T == {n \in 0 .. N : First(n) \in S}
<1>1. N \in Nat
  OBVIOUS
<1>2. 0 \in T
  <2>1. First(0) = <<>>
    OBVIOUS
  <2>. HIDE DEF First
  <2>. QED
    BY <1>1, <2>1
<1>3. ASSUME NEW n \in 0 .. N, n < N, n \in T PROVE n + 1 \in T
  <2>1. n + 1 \in 1 .. N /\ 1 \in 1 .. n + 1 /\ n \in Nat
    BY <1>3
  <2>2. s[n + 1] \in C
    BY <2>1, ElementOfSeq
  <2>3. First(n) \in Seq(C)
    BY <1>3, <2>1
  <2>4. First(n + 1) = Append(First(n), s[n + 1])
    BY <2>1, <2>2, <2>3
  <2>5. First(n + 1) \in S
    <3>1. First(n) \in S
      BY <1>3
    <3>. HIDE DEF First
    <3>. QED
      BY <2>2, <2>3, <2>4, <3>1
  <2>6. n + 1 \in 0 .. N
    BY <2>1
  <2>. HIDE DEF First, N
  <2>. QED
    BY <2>5, <2>6
<1>4. N \in T
  <2>1. \A n \in 0 .. N : n < N /\ n \in T => n + 1 \in T
    BY <1>3
  <2>. HIDE DEF T
  <2>2. \A n \in 0 .. N : n \in T
    BY <1>1, <1>2, <2>1, UpTo
  <2>. QED
    BY <1>1, <2>2
<1>5. First(N) = s
  OBVIOUS
<1>. QED
  BY <1>4, <1>5
===============================================================================
