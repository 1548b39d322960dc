------------------------------- MODULE Folding -------------------------------
(***************************************************************************)
(* What a fold over a sequence computes.  A proof by induction needs the   *)
(* library's induction theorems, which have an operator as a parameter;    *)
(* here the operator is a constant of the module, and a set stands for the *)
(* predicate, so that a module with a fold of its own instantiates this    *)
(* one and cites FoldRuns and the inductions.                              *)
(***************************************************************************)
EXTENDS Naturals, SequencesExt, WellFoundedInduction, TLAPS

CONSTANT op(_, _)   \* what the fold does with what it has and an entry

\* Induction: a set with 0 and with the successor of each element has all naturals.
LEMMA NatInductionOnSets ==
  ASSUME NEW I \in SUBSET Nat, 0 \in I, \A n \in I : n + 1 \in I
  PROVE  I = Nat
<1> DEFINE Rest == Nat \ I
<1> SUFFICES ASSUME Rest # {} PROVE FALSE
  OBVIOUS
<1>1. PICK m \in Rest : \A i \in Rest : ~(<<i, m>> \in OpToRel(<, Nat))
  <2>1. Rest \subseteq Nat
    OBVIOUS
  <2> HIDE DEF Rest
  <2> QED
    BY <2>1, WFMin, NatLessThanWellFounded
<1>2. m # 0 /\ m - 1 \in Nat /\ m - 1 < m
  OBVIOUS
<1>3. m - 1 \in I
  <2> SUFFICES ASSUME m - 1 \in Rest PROVE FALSE
    BY <1>2
  <2>1. <<m - 1, m>> \in OpToRel(<, Nat)
    BY <1>2, Zenon DEF OpToRel
  <2> QED
    BY <2>1, <1>1
<1>4. (m - 1) + 1 \in I
  BY <1>3
<1> QED
  BY <1>4, <1>2

\* Induction from a to b.
LEMMA IntervalInduction ==
  ASSUME NEW a \in Nat, NEW b \in Nat, NEW H, a <= b => a \in H,
         \A k \in a..(b - 1) : k \in H => k + 1 \in H
  PROVE  a..b \subseteq H
<1> DEFINE I == {k \in Nat : k \in a..b => k \in H}
<1>1. I \in SUBSET Nat /\ 0 \in I
  OBVIOUS
<1>2. ASSUME NEW k \in I
      PROVE  k + 1 \in I
  <2>1. CASE k + 1 \in a..b /\ k + 1 # a
    <3>1. k \in a..(b - 1) /\ k \in a..b
      BY <2>1
    <3> QED
      BY <3>1
  <2>2. CASE k + 1 \in a..b /\ k + 1 = a
    BY <2>2
  <2>3. CASE k + 1 \notin a..b
    BY <2>3
  <2> QED
    BY <2>1, <2>2, <2>3
<1>3. I = Nat
  <2> HIDE DEF I
  <2> QED
    BY <1>1, <1>2, NatInductionOnSets
<1> QED
  BY <1>3

Maximum(s) == CHOOSE x \in s : \A y \in s : x >= y

Step(g, seq, base, s) ==
  IF s = {} THEN base ELSE op(g[s \ {Maximum(s)}], seq[Maximum(s)])

Iterates(g, D, seq, base) == g = [s \in SUBSET D |-> Step(g, seq, base, s)]

Fold(base, seq) == (CHOOSE g : Iterates(g, DOMAIN seq, seq, base))[DOMAIN seq]

\* Fold is the community modules' FoldLeft, spelled out.
LEMMA Unfold == ASSUME NEW base, NEW seq
  PROVE FoldLeft(op, base, seq) = Fold(base, seq)
  BY DEF FoldLeft, MapThenFoldSet, Step, Iterates, Fold, Max, Maximum

\* The fold takes the last entry off first.
LEMMA MaxOfInterval ==
  ASSUME NEW n \in Nat, NEW s \in SUBSET (1..(n + 1)), n + 1 \in s
  PROVE  Maximum(s) = n + 1
<1>1. \A y \in s : n + 1 >= y /\ y \in Nat
  OBVIOUS
<1>2. \A x \in s : (\A y \in s : x >= y) => x = n + 1
  BY <1>1
<1> QED
  BY <1>1, <1>2 DEF Maximum

\* The recursive function of which it CHOOSEs the value exists.
LEMMA FoldExists ==
  ASSUME NEW base, NEW seq, NEW n \in Nat
  PROVE  \E g : Iterates(g, 1..n, seq, base)
<1> DEFINE I == {k \in Nat : \E g : Iterates(g, 1..k, seq, base)}
<1>1. 0 \in I
  <2>1. Iterates([s \in {{}} |-> base], 1..0, seq, base)
    BY DEF Iterates, Step
  <2> QED
    BY <2>1
<1>2. ASSUME NEW k \in I PROVE k + 1 \in I
  <2>1. PICK g : Iterates(g, 1..k, seq, base)
    OBVIOUS
  <2> DEFINE h == [s \in SUBSET (1..(k + 1)) |->
                     IF k + 1 \in s THEN op(g[s \ {k + 1}], seq[k + 1]) ELSE g[s]]
  <2>2. ASSUME NEW s \in SUBSET (1..(k + 1))
        PROVE  h[s] = Step(h, seq, base, s)
    <3>1. CASE k + 1 \in s
      <4>1. Maximum(s) = k + 1 /\ s # {}
        BY <3>1, MaxOfInterval
      <4>2. s \ {k + 1} \in SUBSET (1..(k + 1)) /\ k + 1 \notin s \ {k + 1}
        OBVIOUS
      <4>3. h[s \ {k + 1}] = g[s \ {k + 1}]
        BY <4>2
      <4> QED
        BY <4>1, <4>3, <3>1 DEF Step
    <3>2. CASE k + 1 \notin s
      <4>1. s \in SUBSET (1..k)
        BY <3>2
      <4>2. h[s] = g[s] /\ g[s] = Step(g, seq, base, s)
        BY <4>1, <3>2, <2>1 DEF Iterates
      <4>3. CASE s = {}
        BY <4>2, <4>3 DEF Step
      <4>4. CASE s # {}
        <5>1. k + 1 \notin s \ {Maximum(s)} /\ s \ {Maximum(s)} \in SUBSET (1..(k + 1))
          BY <3>2
        <5>2. h[s \ {Maximum(s)}] = g[s \ {Maximum(s)}]
          BY <5>1
        <5> QED
          BY <5>2, <4>2, <4>4 DEF Step
      <4> QED
        BY <4>3, <4>4
    <3> QED
      BY <3>1, <3>2
  <2>3. Iterates(h, 1..(k + 1), seq, base)
    <3> HIDE DEF h
    <3>1. h = [s \in SUBSET (1..(k + 1)) |-> h[s]]
      BY DEF h
    <3> QED
      BY <2>2, <3>1 DEF Iterates
  <2> QED
    BY <2>3
<1>3. I = Nat
  <2>1. I \in SUBSET Nat
    OBVIOUS
  <2> HIDE DEF I
  <2> QED
    BY <1>1, <1>2, <2>1, NatInductionOnSets
<1> QED
  BY <1>3

Runs(r, seq, base) ==
  /\ r[0] = base
  /\ \A k \in 1..Len(seq) : r[k] = op(r[k - 1], seq[k])

\* A fold over a list is the end of a run through it: there are values r[0], r[1], ...
\* that start from the base, of which each makes the next one with an entry of the list.
THEOREM FoldRuns ==
  ASSUME NEW base, NEW seq, Len(seq) \in Nat, DOMAIN seq = 1..Len(seq)
  PROVE  \E r : Runs(r, seq, base) /\ Fold(base, seq) = r[Len(seq)]
<1> DEFINE g == CHOOSE g : Iterates(g, 1..Len(seq), seq, base)
           r == [k \in 0..Len(seq) |-> g[1..k]]
<1>1. Iterates(g, 1..Len(seq), seq, base)
  BY FoldExists
<1>2. Fold(base, seq) = g[1..Len(seq)]
  BY DEF Fold
<1> HIDE DEF g
<1>3. r[0] = base
  BY <1>1 DEF Iterates, Step
<1>4. ASSUME NEW k \in 1..Len(seq) PROVE r[k] = op(r[k - 1], seq[k])
  <2>1. 1..k \in SUBSET (1..Len(seq)) /\ k \in 1..k /\ k - 1 \in Nat /\ k = (k - 1) + 1
    OBVIOUS
  <2>2. Maximum(1..k) = k
    BY <2>1, MaxOfInterval
  <2>3. (1..k) \ {k} = 1..(k - 1)
    OBVIOUS
  <2>4. g[1..k] = op(g[1..(k - 1)], seq[k])
    BY <1>1, <2>1, <2>2, <2>3 DEF Iterates, Step
  <2> QED
    BY <2>4, <2>1
<1> QED
  <2>1. r[Len(seq)] = g[1..Len(seq)]
    OBVIOUS
  <2> HIDE DEF r
  <2>2. Runs(r, seq, base)
    BY <1>3, <1>4 DEF Runs
  <2> QED
    BY <1>2, <2>1, <2>2

=============================================================================
