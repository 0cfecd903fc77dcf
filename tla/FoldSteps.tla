------------------------------ MODULE FoldSteps ------------------------------
(***************************************************************************)
(* Induction along a fold.  Two folds over sequences of one length, or     *)
(* over one finite set, end in related results when they start in related  *)
(* ones and each step keeps them related.  An instance gives the steps,    *)
(* each with a parameter of its own, and the relation.                     *)
(*                                                                         *)
(* What the proofs need of the naturals and of finite sets is a premise    *)
(* here, and proved where this is instanced (least numbers, and how many   *)
(* members each part of a set has).                                        *)
(***************************************************************************)
EXTENDS Integers

CONSTANTS
    OpA(_, _, _), OpB(_, _, _),  \* parameter, result so far, element
    Rel(_, _, _, _, _)           \* parameters, what was folded, results so far

\* FoldLeft, its elements those of a sequence.
SeqA(a, base, seq) ==
    LET iter[s \in SUBSET DOMAIN seq] ==
            IF s = {} THEN base
            ELSE LET x == CHOOSE x \in s : \A y \in s : x >= y
                 IN  OpA(a, iter[s \ {x}], seq[x])
    IN  iter[DOMAIN seq]
SeqB(b, base, seq) ==
    LET iter[s \in SUBSET DOMAIN seq] ==
            IF s = {} THEN base
            ELSE LET x == CHOOSE x \in s : \A y \in s : x >= y
                 IN  OpB(b, iter[s \ {x}], seq[x])
    IN  iter[DOMAIN seq]

\* MapThenFoldSet in an order of its own.
SetA(a, base, S) ==
    LET iter[s \in SUBSET S] ==
            IF s = {} THEN base
            ELSE LET x == CHOOSE x \in s : TRUE
                 IN  OpA(a, iter[s \ {x}], x)
    IN  iter[S]
SetB(b, base, S) ==
    LET iter[s \in SUBSET S] ==
            IF s = {} THEN base
            ELSE LET x == CHOOSE x \in s : TRUE
                 IN  OpB(b, iter[s \ {x}], x)
    IN  iter[S]

-----------------------------------------------------------------------------
(* Recursion over the subsets of a finite set. *)

\* Every set of naturals with a member has a least one.
WellOrdered == \A N \in SUBSET Nat : N # {} => \E i \in N : \A j \in N : i <= j

\* A set each of whose parts has a size, less for what is left when one member goes.
Counted(S) ==
    \E size : \A s \in SUBSET S :
        size[s] \in Nat /\ size[s] <= size[S] /\ \A x \in s : size[s \ {x}] < size[s]

\* What holds of 0 and of the successor of each number it holds of, holds of all.
LEMMA Reached ==
    ASSUME WellOrdered, NEW S, 0 \in S, \A n \in Nat : n \in S => n + 1 \in S
    PROVE  \A n \in Nat : n \in S
<1> SUFFICES ASSUME NEW n \in Nat, n \notin S PROVE FALSE
  OBVIOUS
<1> DEFINE T == {m \in Nat : m \notin S}
<1>1. PICK m \in T : \A j \in T : m <= j
  <2>1. T \in SUBSET Nat /\ T # {}
    OBVIOUS
  <2> HIDE DEF T
  <2>2. QED BY <2>1 DEF WellOrdered
<1>2. m \in Nat /\ m # 0 /\ m - 1 \in Nat /\ m - 1 \notin T
  BY <1>1
<1>3. m - 1 \in S /\ (m - 1) + 1 = m
  BY <1>2
<1>4. QED BY <1>1, <1>2, <1>3

LEMMA Largest ==
    ASSUME WellOrdered, NEW n \in Nat, NEW s \in SUBSET (1..n), s # {}
    PROVE  \E x \in s : \A y \in s : x >= y
<1> DEFINE T == {n - x : x \in s}
<1>1. T # {}
  OBVIOUS
<1>2. T \in SUBSET Nat
  OBVIOUS
<1>3. PICK i \in T : \A j \in T : i <= j
  <2> HIDE DEF T
  <2>1. QED BY <1>1, <1>2 DEF WellOrdered
<1>4. PICK x \in s : i = n - x
  BY <1>3
<1>5. \A y \in s : n - x <= n - y
  BY <1>3, <1>4
<1>6. QED BY <1>4, <1>5

\* The four recursions are one.
Step(fold, a, seq, t, x) ==
    CASE fold = "SeqA" -> OpA(a, t, seq[x]) [] fold = "SeqB" -> OpB(a, t, seq[x])
      [] fold = "SetA" -> OpA(a, t, x) [] OTHER -> OpB(a, t, x)

Solves(g, T, fold, a, base, seq, pick) ==
    g = [s \in T |-> IF s = {} THEN base
                     ELSE Step(fold, a, seq, g[s \ {pick[s]}], pick[s])]

LEMMA RecursionExists ==
    ASSUME WellOrdered, NEW fold, NEW a, NEW base, NEW seq, NEW S, NEW pick, NEW size,
           \A s \in SUBSET S : /\ size[s] \in Nat /\ size[s] <= size[S]
                               /\ s # {} => pick[s] \in s /\ size[s \ {pick[s]}] < size[s]
    PROVE  \E g : Solves(g, SUBSET S, fold, a, base, seq, pick)
<1> DEFINE Small(n) == {s \in SUBSET S : size[s] <= n}
           Solved == {n \in Nat : \E g : Solves(g, Small(n), fold, a, base, seq, pick)}
<1>1. S \in SUBSET S /\ \A s \in SUBSET S : size[s] \in Nat /\ size[s] <= size[S]
  OBVIOUS
<1>2. \A s \in SUBSET S : s # {} =>
          /\ pick[s] \in s /\ s \ {pick[s]} \in SUBSET S
          /\ size[s \ {pick[s]}] < size[s] /\ size[s \ {pick[s]}] \in Nat
  <2> SUFFICES ASSUME NEW s \in SUBSET S, s # {}
               PROVE  /\ pick[s] \in s /\ s \ {pick[s]} \in SUBSET S
                      /\ size[s \ {pick[s]}] < size[s] /\ size[s \ {pick[s]}] \in Nat
    OBVIOUS
  <2>1. pick[s] \in s /\ size[s \ {pick[s]}] < size[s]
    OBVIOUS
  <2>2. s \ {pick[s]} \in SUBSET S
    OBVIOUS
  <2>3. QED BY ONLY <1>1, <2>1, <2>2
<1>3. 0 \in Solved
  <2>1. \A s \in Small(0) : s = {}
    <3>1. SUFFICES ASSUME NEW s \in SUBSET S, size[s] <= 0, s # {} PROVE FALSE
      OBVIOUS
    <3>2. size[s] \in Nat /\ size[s \ {pick[s]}] < size[s] /\ size[s \ {pick[s]}] \in Nat
      BY ONLY <3>1, <1>1, <1>2
    <3>3. QED BY ONLY <3>1, <3>2
  <2> DEFINE g == [s \in Small(0) |-> base]
  <2>2. Solves(g, Small(0), fold, a, base, seq, pick)
    <3> HIDE DEF Small
    <3>1. QED BY <2>1 DEF Solves
  <2>3. QED
    <3> HIDE DEF g, Small
    <3>1. QED BY <2>2
<1>4. \A n \in Nat : n \in Solved => n + 1 \in Solved
  <2> SUFFICES ASSUME NEW n \in Nat, n \in Solved PROVE n + 1 \in Solved
    OBVIOUS
  <2>1. PICK g : Solves(g, Small(n), fold, a, base, seq, pick)
    OBVIOUS
  <2> DEFINE h == [s \in Small(n + 1) |->
                     IF s = {} THEN base ELSE Step(fold, a, seq, g[s \ {pick[s]}], pick[s])]
  <2>2. ASSUME NEW s \in Small(n + 1), s # {}
        PROVE  s \ {pick[s]} \in Small(n)
    <3> DEFINE r == s \ {pick[s]}
    <3>1. s \in SUBSET S /\ size[s] <= n + 1 /\ r \in SUBSET S
      OBVIOUS
    <3>2. size[r] < size[s] /\ size[r] \in Nat /\ size[s] \in Nat
      BY ONLY <1>1, <1>2, <2>2, <3>1
    <3> HIDE DEF r
    <3>3. r \in Small(n)
      <4>1. size[r] <= n
        BY ONLY <3>1, <3>2, n \in Nat
      <4>2. QED BY ONLY <3>1, <4>1
    <3>4. QED BY <3>3 DEF r
  <2>3. Small(n) \subseteq Small(n + 1)
    <3>1. SUFFICES ASSUME NEW s \in SUBSET S, size[s] <= n PROVE size[s] <= n + 1
      OBVIOUS
    <3>2. QED BY ONLY <1>1, <3>1, n \in Nat
  <2>4. \A s \in Small(n) : h[s] = g[s]
    BY <2>1, <2>3 DEF Solves
  <2>5. h = [s \in Small(n + 1) |->
               IF s = {} THEN base ELSE Step(fold, a, seq, h[s \ {pick[s]}], pick[s])]
    <3>1. \A s \in Small(n + 1) : s # {} => h[s \ {pick[s]}] = g[s \ {pick[s]}]
      BY <2>2, <2>4
    <3> HIDE DEF Small
    <3>2. QED BY <3>1
  <2>6. Solves(h, Small(n + 1), fold, a, base, seq, pick)
    BY <2>5 DEF Solves
  <2>7. \E f : Solves(f, Small(n + 1), fold, a, base, seq, pick)
    <3> HIDE DEF h, Small
    <3>1. QED BY <2>6
  <2>8. n + 1 \in Nat
    OBVIOUS
  <2>9. QED
    <3> HIDE DEF Small
    <3>1. QED BY <2>7, <2>8
<1> DEFINE m == size[S]
<1>5. m \in Nat /\ m \in Solved
  <2> HIDE DEF Solved
  <2>1. m \in Nat
    BY ONLY <1>1
  <2>2. QED BY <2>1, <1>3, <1>4, Reached
<1>6. Small(m) = SUBSET S
  <2>1. \A s \in SUBSET S : size[s] <= m
    BY ONLY <1>1
  <2>2. QED BY ONLY <2>1
<1>7. QED BY <1>5, <1>6

\* The parts of an interval are sized by their largest members.
LargestIn(n) == [s \in SUBSET (1..n) |-> CHOOSE x \in s : \A y \in s : x >= y]

LEMMA IntervalSized ==
    ASSUME WellOrdered, NEW n \in Nat
    PROVE  LET S == 1..n
               pick == LargestIn(n)
               size == [s \in SUBSET S |-> IF s = {} THEN 0 ELSE pick[s]]
           IN  \A s \in SUBSET S :
                   /\ size[s] \in Nat /\ size[s] <= size[S]
                   /\ s # {} => /\ pick[s] \in s /\ \A y \in s : pick[s] >= y
                                /\ size[s \ {pick[s]}] < size[s]
<1> DEFINE S == 1..n
           pick == LargestIn(n)
           size == [s \in SUBSET S |-> IF s = {} THEN 0 ELSE pick[s]]
<1>1. \A s \in SUBSET S : s # {} => pick[s] \in s /\ \A y \in s : pick[s] >= y
  BY Largest DEF LargestIn
<1>2. \A s \in SUBSET S :
         /\ size[s] \in Nat /\ size[s] <= size[S]
         /\ s # {} => pick[s] \in s /\ size[s \ {pick[s]}] < size[s]
  <2> HIDE DEF pick
  <2>1. \A s \in SUBSET S : s # {} => pick[s] \in 1..n
    BY <1>1
  <2>2. \A s \in SUBSET S : size[s] = IF s = {} THEN 0 ELSE pick[s]
    OBVIOUS
  <2> HIDE DEF size
  <2>3. ASSUME NEW s \in SUBSET S, s # {} PROVE size[s \ {pick[s]}] < size[s]
    <3> DEFINE r == s \ {pick[s]}
    <3>1. r \in SUBSET S /\ r \subseteq s /\ pick[s] \notin r
      OBVIOUS
    <3> HIDE DEF r
    <3>2. CASE r = {}
      BY <2>1, <2>2, <2>3, <3>1, <3>2 DEF r
    <3>3. CASE r # {}
      <4>1. pick[r] \in r /\ pick[r] \in s /\ pick[r] # pick[s]
        BY <1>1, <3>1, <3>3
      <4>2. pick[r] <= pick[s] /\ pick[r] \in 1..n /\ pick[s] \in 1..n
        BY <1>1, <2>1, <2>3, <3>1, <3>3, <4>1
      <4>3. QED BY <2>2, <2>3, <3>1, <3>3, <4>1, <4>2 DEF r
    <3>4. QED BY <3>2, <3>3
  <2>4. ASSUME NEW s \in SUBSET S PROVE size[s] \in Nat /\ size[s] <= size[S]
    <3>1. CASE s = {}
      <4>1. S = {} \/ pick[S] \in 1..n
        BY <2>1
      <4>2. QED BY <2>2, <3>1, <4>1
    <3>2. CASE s # {}
      <4>1. S # {} /\ pick[s] \in S /\ pick[s] \in 1..n /\ pick[S] \in 1..n
        BY <1>1, <2>1, <3>2
      <4>2. pick[S] >= pick[s]
        BY <1>1, <4>1
      <4>3. size[s] = pick[s] /\ size[S] = pick[S]
        BY <2>2, <3>2, <4>1
      <4>4. QED BY <4>1, <4>2, <4>3
    <3>3. QED BY <3>1, <3>2
  <2>5. QED BY <1>1, <2>3, <2>4
<1> HIDE DEF pick, size, S
<1>3. \A s \in SUBSET S :
         /\ size[s] \in Nat /\ size[s] <= size[S]
         /\ s # {} => /\ pick[s] \in s /\ \A y \in s : pick[s] >= y
                      /\ size[s \ {pick[s]}] < size[s]
  BY ONLY <1>1, <1>2
<1>4. QED BY <1>3 DEF pick, size, S

SeqARuns(g, a, base, seq, n) ==
    /\ g[{}] = base
    /\ \A i \in 1..n : g[1..i] = OpA(a, g[1..(i - 1)], seq[i])
    /\ SeqA(a, base, seq) = g[1..n]

LEMMA SeqAStep ==
    ASSUME WellOrdered, NEW a, NEW base, NEW seq, NEW n \in Nat, DOMAIN seq = 1..n
    PROVE  \E g : SeqARuns(g, a, base, seq, n)
<1> DEFINE S == 1..n
           pick == LargestIn(n)
           size == [s \in SUBSET S |-> IF s = {} THEN 0 ELSE pick[s]]
           Body(f) == [s \in SUBSET DOMAIN seq |->
                          IF s = {} THEN base
                          ELSE LET x == CHOOSE x \in s : \A y \in s : x >= y
                               IN  OpA(a, f[s \ {x}], seq[x])]
           g == CHOOSE f : f = Body(f)
<1>1. \A s \in SUBSET S : s # {} => pick[s] \in s /\ \A y \in s : pick[s] >= y
  BY IntervalSized
<1>2. \A s \in SUBSET S : /\ size[s] \in Nat /\ size[s] <= size[S]
                          /\ s # {} => pick[s] \in s /\ size[s \ {pick[s]}] < size[s]
  BY IntervalSized
<1>3. PICK f : Solves(f, SUBSET S, "SeqA", a, base, seq, pick)
  <2> HIDE DEF pick, size, S
  <2>1. QED BY <1>2, RecursionExists
<1>4. f = Body(f)
  BY <1>3 DEF Solves, Step, LargestIn
<1>5. g = Body(g)
  <2> HIDE DEF Body
  <2>1. QED BY <1>4
<1>6. SeqA(a, base, seq) = g[S]
  BY DEF SeqA
<1>7. g[{}] = base
  BY <1>5
<1>8. ASSUME NEW i \in 1..n PROVE g[1..i] = OpA(a, g[1..(i - 1)], seq[i])
  <2>1. 1..i \in SUBSET S /\ 1..i # {} /\ i \in 1..i
    BY ONLY n \in Nat, i \in 1..n
  <2>2. (CHOOSE x \in 1..i : \A y \in 1..i : x >= y) = i
    <3>1. pick[1..i] = (CHOOSE x \in 1..i : \A y \in 1..i : x >= y)
      BY <2>1 DEF LargestIn
    <3>2. pick[1..i] \in 1..i /\ pick[1..i] >= i
      BY <2>1, <1>1
    <3> HIDE DEF pick
    <3>3. QED BY <3>1, <3>2
  <2>3. (1..i) \ {i} = 1..(i - 1)
    OBVIOUS
  <2>4. g[1..i] = OpA(a, g[(1..i) \ {i}], seq[i])
    <3> HIDE DEF g
    <3>1. QED BY <1>5, <2>1, <2>2
  <2>5. QED BY <2>3, <2>4
<1> HIDE DEF g
<1>9. QED BY <1>6, <1>7, <1>8 DEF SeqARuns

SeqBRuns(g, a, base, seq, n) ==
    /\ g[{}] = base
    /\ \A i \in 1..n : g[1..i] = OpB(a, g[1..(i - 1)], seq[i])
    /\ SeqB(a, base, seq) = g[1..n]

LEMMA SeqBStep ==
    ASSUME WellOrdered, NEW a, NEW base, NEW seq, NEW n \in Nat, DOMAIN seq = 1..n
    PROVE  \E g : SeqBRuns(g, a, base, seq, n)
<1> DEFINE S == 1..n
           pick == LargestIn(n)
           size == [s \in SUBSET S |-> IF s = {} THEN 0 ELSE pick[s]]
           Body(f) == [s \in SUBSET DOMAIN seq |->
                          IF s = {} THEN base
                          ELSE LET x == CHOOSE x \in s : \A y \in s : x >= y
                               IN  OpB(a, f[s \ {x}], seq[x])]
           g == CHOOSE f : f = Body(f)
<1>1. \A s \in SUBSET S : s # {} => pick[s] \in s /\ \A y \in s : pick[s] >= y
  BY IntervalSized
<1>2. \A s \in SUBSET S : /\ size[s] \in Nat /\ size[s] <= size[S]
                          /\ s # {} => pick[s] \in s /\ size[s \ {pick[s]}] < size[s]
  BY IntervalSized
<1>3. PICK f : Solves(f, SUBSET S, "SeqB", a, base, seq, pick)
  <2> HIDE DEF pick, size, S
  <2>1. QED BY <1>2, RecursionExists
<1>4. f = Body(f)
  BY <1>3 DEF Solves, Step, LargestIn
<1>5. g = Body(g)
  <2> HIDE DEF Body
  <2>1. QED BY <1>4
<1>6. SeqB(a, base, seq) = g[S]
  BY DEF SeqB
<1>7. g[{}] = base
  BY <1>5
<1>8. ASSUME NEW i \in 1..n PROVE g[1..i] = OpB(a, g[1..(i - 1)], seq[i])
  <2>1. 1..i \in SUBSET S /\ 1..i # {} /\ i \in 1..i
    BY ONLY n \in Nat, i \in 1..n
  <2>2. (CHOOSE x \in 1..i : \A y \in 1..i : x >= y) = i
    <3>1. pick[1..i] = (CHOOSE x \in 1..i : \A y \in 1..i : x >= y)
      BY <2>1 DEF LargestIn
    <3>2. pick[1..i] \in 1..i /\ pick[1..i] >= i
      BY <2>1, <1>1
    <3> HIDE DEF pick
    <3>3. QED BY <3>1, <3>2
  <2>3. (1..i) \ {i} = 1..(i - 1)
    OBVIOUS
  <2>4. g[1..i] = OpB(a, g[(1..i) \ {i}], seq[i])
    <3> HIDE DEF g
    <3>1. QED BY <1>5, <2>1, <2>2
  <2>5. QED BY <2>3, <2>4
<1> HIDE DEF g
<1>9. QED BY <1>6, <1>7, <1>8 DEF SeqBRuns

SetARuns(g, a, base, S) ==
    /\ g[{}] = base
    /\ \A s \in SUBSET S : s # {} =>
           LET x == CHOOSE x \in s : TRUE IN g[s] = OpA(a, g[s \ {x}], x)
    /\ SetA(a, base, S) = g[S]

LEMMA SetAStep ==
    ASSUME WellOrdered, NEW a, NEW base, NEW S, Counted(S)
    PROVE  \E g : SetARuns(g, a, base, S)
<1> DEFINE pick == [s \in SUBSET S |-> CHOOSE x \in s : TRUE]
           Body(f) == [s \in SUBSET S |->
                          IF s = {} THEN base
                          ELSE LET x == CHOOSE x \in s : TRUE
                               IN  OpA(a, f[s \ {x}], x)]
           g == CHOOSE f : f = Body(f)
<1>1. \A s \in SUBSET S : s # {} => pick[s] \in s
  OBVIOUS
<1>2. PICK f : Solves(f, SUBSET S, "SetA", a, base, S, pick)
  <2>1. PICK size : \A s \in SUBSET S :
           size[s] \in Nat /\ size[s] <= size[S] /\ \A x \in s : size[s \ {x}] < size[s]
    BY DEF Counted
  <2> HIDE DEF pick
  <2>2. \A s \in SUBSET S :
           /\ size[s] \in Nat /\ size[s] <= size[S]
           /\ s # {} => pick[s] \in s /\ size[s \ {pick[s]}] < size[s]
    BY <1>1, <2>1
  <2>3. QED BY <2>2, RecursionExists
<1>3. f = Body(f)
  BY <1>2 DEF Solves, Step
<1>4. g = Body(g)
  <2> HIDE DEF Body
  <2>1. QED BY <1>3
<1>5. SetA(a, base, S) = g[S]
  BY DEF SetA
<1>6. g[{}] = base
  BY <1>4
<1>7. ASSUME NEW s \in SUBSET S, s # {}
      PROVE  LET x == CHOOSE x \in s : TRUE IN g[s] = OpA(a, g[s \ {x}], x)
  <2> HIDE DEF g
  <2>1. QED BY <1>4, <1>7
<1> HIDE DEF g
<1>8. QED BY <1>5, <1>6, <1>7 DEF SetARuns

SetBRuns(g, a, base, S) ==
    /\ g[{}] = base
    /\ \A s \in SUBSET S : s # {} =>
           LET x == CHOOSE x \in s : TRUE IN g[s] = OpB(a, g[s \ {x}], x)
    /\ SetB(a, base, S) = g[S]

LEMMA SetBStep ==
    ASSUME WellOrdered, NEW a, NEW base, NEW S, Counted(S)
    PROVE  \E g : SetBRuns(g, a, base, S)
<1> DEFINE pick == [s \in SUBSET S |-> CHOOSE x \in s : TRUE]
           Body(f) == [s \in SUBSET S |->
                          IF s = {} THEN base
                          ELSE LET x == CHOOSE x \in s : TRUE
                               IN  OpB(a, f[s \ {x}], x)]
           g == CHOOSE f : f = Body(f)
<1>1. \A s \in SUBSET S : s # {} => pick[s] \in s
  OBVIOUS
<1>2. PICK f : Solves(f, SUBSET S, "SetB", a, base, S, pick)
  <2>1. PICK size : \A s \in SUBSET S :
           size[s] \in Nat /\ size[s] <= size[S] /\ \A x \in s : size[s \ {x}] < size[s]
    BY DEF Counted
  <2> HIDE DEF pick
  <2>2. \A s \in SUBSET S :
           /\ size[s] \in Nat /\ size[s] <= size[S]
           /\ s # {} => pick[s] \in s /\ size[s \ {pick[s]}] < size[s]
    BY <1>1, <2>1
  <2>3. QED BY <2>2, RecursionExists
<1>3. f = Body(f)
  BY <1>2 DEF Solves, Step
<1>4. g = Body(g)
  <2> HIDE DEF Body
  <2>1. QED BY <1>3
<1>5. SetB(a, base, S) = g[S]
  BY DEF SetB
<1>6. g[{}] = base
  BY <1>4
<1>7. ASSUME NEW s \in SUBSET S, s # {}
      PROVE  LET x == CHOOSE x \in s : TRUE IN g[s] = OpB(a, g[s \ {x}], x)
  <2> HIDE DEF g
  <2>1. QED BY <1>4, <1>7
<1> HIDE DEF g
<1>8. QED BY <1>5, <1>6, <1>7 DEF SetBRuns

-----------------------------------------------------------------------------
(* Two folds, step by step. *)

\* Two folds over sequences of one length end in related results.
THEOREM SequenceFolds ==
    ASSUME WellOrdered,
           NEW a, NEW b, NEW baseA, NEW baseB, NEW seqA, NEW seqB, NEW n \in Nat,
           DOMAIN seqA = 1..n, DOMAIN seqB = 1..n, Rel(a, b, 0, baseA, baseB),
           \A i \in 1..n : \A t, u :
               Rel(a, b, i - 1, t, u) => Rel(a, b, i, OpA(a, t, seqA[i]), OpB(b, u, seqB[i]))
    PROVE  Rel(a, b, n, SeqA(a, baseA, seqA), SeqB(b, baseB, seqB))
<1>1. PICK g : SeqARuns(g, a, baseA, seqA, n)
  BY SeqAStep
<1>2. PICK h : SeqBRuns(h, b, baseB, seqB, n)
  BY SeqBStep
<1> DEFINE T == {i \in Nat : i <= n => Rel(a, b, i, g[1..i], h[1..i])}
<1>3. 0 \in T
  <2>1. 1..0 = {}
    OBVIOUS
  <2>2. Rel(a, b, 0, g[1..0], h[1..0])
    BY <1>1, <1>2, <2>1 DEF SeqARuns, SeqBRuns
  <2>3. QED BY <2>2
<1>4. \A i \in Nat : i \in T => i + 1 \in T
  <2> SUFFICES ASSUME NEW i \in Nat, i \in T, i + 1 <= n
               PROVE  Rel(a, b, i + 1, g[1..(i + 1)], h[1..(i + 1)])
    OBVIOUS
  <2>1. i + 1 \in 1..n /\ (i + 1) - 1 = i
    OBVIOUS
  <2>2. Rel(a, b, (i + 1) - 1, g[1..i], h[1..i])
    BY <2>1
  <2>3. /\ g[1..(i + 1)] = OpA(a, g[1..i], seqA[i + 1])
        /\ h[1..(i + 1)] = OpB(b, h[1..i], seqB[i + 1])
    BY <1>1, <1>2, <2>1 DEF SeqARuns, SeqBRuns
  <2>4. Rel(a, b, i + 1, OpA(a, g[1..i], seqA[i + 1]), OpB(b, h[1..i], seqB[i + 1]))
    BY <2>1, <2>2
  <2>5. QED BY <2>3, <2>4
<1>5. n \in T
  <2> HIDE DEF T
  <2>1. QED BY <1>3, <1>4, Reached
<1>6. QED BY <1>1, <1>2, <1>5 DEF SeqARuns, SeqBRuns

\* And two folds over one finite set.
THEOREM SetFolds ==
    ASSUME WellOrdered, NEW a, NEW b, NEW baseA, NEW baseB, NEW S, Counted(S),
           Rel(a, b, {}, baseA, baseB),
           \A s \in SUBSET S : \A x \in s : \A t, u :
               Rel(a, b, s \ {x}, t, u) => Rel(a, b, s, OpA(a, t, x), OpB(b, u, x))
    PROVE  Rel(a, b, S, SetA(a, baseA, S), SetB(b, baseB, S))
<1> DEFINE First(s) == CHOOSE x \in s : TRUE
<1>1. PICK g : SetARuns(g, a, baseA, S)
  BY SetAStep
<1>2. PICK h : SetBRuns(h, b, baseB, S)
  BY SetBStep
<1>3. \A s \in SUBSET S : s # {} => First(s) \in s
  OBVIOUS
<1>4. PICK size : \A s \in SUBSET S :
         size[s] \in Nat /\ size[s] <= size[S] /\ \A x \in s : size[s \ {x}] < size[s]
  BY DEF Counted
<1> DEFINE Holds(s) == Rel(a, b, s, g[s], h[s])
           T == {n \in Nat : \A s \in SUBSET S : size[s] <= n => Holds(s)}
<1>5. Holds({})
  BY <1>1, <1>2 DEF SetARuns, SetBRuns
<1>6. 0 \in T
  <2>1. \A s \in SUBSET S : size[s] <= 0 => s = {}
    <3>1. SUFFICES ASSUME NEW s \in SUBSET S, size[s] <= 0, NEW x \in s PROVE FALSE
      OBVIOUS
    <3> DEFINE r == s \ {x}
    <3>2. size[s] \in Nat /\ size[r] < size[s]
      BY ONLY <1>4, <3>1
    <3>3. r \in SUBSET S
      OBVIOUS
    <3> HIDE DEF r
    <3>4. size[r] \in Nat
      BY ONLY <1>4, <3>3
    <3>5. QED BY ONLY <3>1, <3>2, <3>4
  <2> HIDE DEF Holds
  <2>2. QED BY <1>5, <2>1
<1>7. \A n \in Nat : n \in T => n + 1 \in T
  <2> SUFFICES ASSUME NEW n \in Nat, n \in T, NEW s \in SUBSET S, size[s] <= n + 1
               PROVE  Holds(s)
    <3> HIDE DEF Holds
    <3>1. QED OBVIOUS
  <2>1. CASE s = {}
    <3> HIDE DEF Holds
    <3>1. QED BY <1>5, <2>1
  <2>2. CASE s # {}
    <3> DEFINE x == First(s)
               r == s \ {x}
    <3>1. x \in s /\ r \in SUBSET S
      BY <1>3, <2>2
    <3>2. size[r] <= n
      <4>1. size[r] < size[s] /\ size[r] \in Nat /\ size[s] \in Nat
        BY <1>4, <3>1
      <4>2. QED BY <4>1
    <3>3. Holds(r)
      <4> HIDE DEF Holds, r
      <4>1. QED BY <3>1, <3>2
    <3>4. Rel(a, b, s, OpA(a, g[r], x), OpB(b, h[r], x))
      <4>1. \A t, u : Rel(a, b, s \ {x}, t, u) => Rel(a, b, s, OpA(a, t, x), OpB(b, u, x))
        BY <3>1
      <4>2. QED BY <3>3, <4>1
    <3>5. g[s] = OpA(a, g[r], x) /\ h[s] = OpB(b, h[r], x)
      BY <1>1, <1>2, <2>2 DEF SetARuns, SetBRuns
    <3>6. QED BY <3>4, <3>5
  <2>3. QED BY <2>1, <2>2
<1>8. Holds(S)
  <2>1. S \in SUBSET S /\ size[S] \in Nat /\ size[S] <= size[S]
    BY <1>4
  <2>2. size[S] \in T
    <3> HIDE DEF T
    <3>1. QED BY <2>1, <1>6, <1>7, Reached
  <2> HIDE DEF Holds
  <2>3. QED BY <2>1, <2>2
<1>9. QED BY <1>1, <1>2, <1>8 DEF SetARuns, SetBRuns
=============================================================================
