------------------------ MODULE ToolCallPairsProofs ------------------------
(***************************************************************************)
(* What _ensure_tool_call_pairs makes of a list of messages, for every     *)
(* list: both its loops are folds, which Folding turns into runs, and what *)
(* holds of each step of a run holds of its end.                           *)
(***************************************************************************)
EXTENDS ToolCallPairs, SequenceTheorems, FiniteSetTheorems, WellFoundedInduction, TLAPS

\* The loop over the messages, and the one over the calls of an AIMessage.
Loop == INSTANCE Folding WITH op <- OnMessage
Opening == INSTANCE Folding WITH op <- OpenPair

\* A set of naturals that is not empty has a least element.
LEMMA MinExists ==
  ASSUME NEW I \in SUBSET Nat, I # {}
  PROVE  Min(I) \in I /\ \A i \in I : Min(I) <= i
<1>1. PICK m \in I : \A i \in I : ~(<<i, m>> \in OpToRel(<, Nat))
  BY WFMin, NatLessThanWellFounded
<1>2. ASSUME NEW i \in I, ~(m <= i)
      PROVE  FALSE
  <2>1. i < m /\ <<i, m>> \in Nat \X Nat
    BY <1>2
  <2>2. <<i, m>> \in OpToRel(<, Nat)
    BY <2>1, Zenon DEF OpToRel
  <2> QED
    BY <2>2, <1>1
<1> QED
  BY <1>2 DEF Min

\* s without its j-th entry.
Without(s, j) == [k \in 1..(Len(s) - 1) |-> IF k < j THEN s[k] ELSE s[k + 1]]

\* One entry less, the others in their order.
LEMMA WithoutFacts ==
  ASSUME NEW S, NEW s \in Seq(S), NEW j \in 1..Len(s)
  PROVE  LET t == Without(s, j)
         IN  /\ t \in Seq(S) /\ Len(t) = Len(s) - 1 /\ DOMAIN t = 1..(Len(s) - 1)
             /\ \A k \in 1..(Len(s) - 1) : t[k] = IF k < j THEN s[k] ELSE s[k + 1]
<1> DEFINE t == Without(s, j)
<1>1. Len(s) - 1 \in Nat /\ DOMAIN s = 1..Len(s)
  OBVIOUS
<1>2. /\ DOMAIN t = 1..(Len(s) - 1)
      /\ \A k \in 1..(Len(s) - 1) : t[k] = IF k < j THEN s[k] ELSE s[k + 1]
  BY DEF Without
<1>3. \A k \in 1..(Len(s) - 1) : k \in 1..Len(s) /\ k + 1 \in 1..Len(s)
  BY <1>1
<1>4. t \in [1..(Len(s) - 1) -> S]
  <2>1. t = [k \in 1..(Len(s) - 1) |-> t[k]]
    BY DEF Without
  <2> HIDE DEF t
  <2>2. \A k \in 1..(Len(s) - 1) : t[k] \in S
    BY <1>2, <1>3
  <2> QED
    BY <2>1, <2>2
<1>5. t \in Seq(S)
  BY <1>1, <1>4
<1>6. Len(t) = Len(s) - 1
  BY <1>1 DEF Without
<1> HIDE DEF t
<1> QED
  BY <1>2, <1>5, <1>6 DEF t

\* RemoveFirst takes out one entry ...
LEMMA RemoveFirstShape ==
  ASSUME NEW S, NEW s \in Seq(S), NEW e, e \in Range(s)
  PROVE  \E j \in 1..Len(s) : s[j] = e /\ RemoveFirst(s, e) = Without(s, j)
<1> DEFINE I == {i \in 1..Len(s) : s[i] = e}
           j == Min(I)
<1>1. \E i \in 1..Len(s) : s[i] = e
  BY DEF Range
<1>2. j \in 1..Len(s) /\ s[j] = e
  <2>1. I \in SUBSET Nat /\ I # {}
    BY <1>1
  <2> HIDE DEF I
  <2>2. j \in I
    BY <2>1, MinExists
  <2> QED
    BY <2>2 DEF I
<1>3. SelectInSeq(s, LAMBDA v : v = e) = j
  BY <1>1 DEF SelectInSeq
<1>4. RemoveFirst(s, e) = SubSeq(s, 1, j - 1) \o SubSeq(s, j + 1, Len(s))
  BY <1>1, <1>3 DEF RemoveFirst, RemoveAt
<1> HIDE DEF j
<1>5. SubSeq(s, 1, j - 1) \o SubSeq(s, j + 1, Len(s)) = Without(s, j)
  <2> DEFINE u == SubSeq(s, 1, j - 1)
             v == SubSeq(s, j + 1, Len(s))
  <2>1. /\ u \in Seq(S) /\ Len(u) = j - 1
        /\ \A k \in 1..(j - 1) : u[k] = s[k]
    BY <1>2
  <2>2. /\ v \in Seq(S) /\ Len(v) = Len(s) - j
        /\ \A k \in 1..(Len(s) - j) : v[k] = s[j + k]
    BY <1>2
  <2> HIDE DEF u, v
  <2>3. /\ u \o v \in Seq(S) /\ Len(u \o v) = Len(u) + Len(v)
        /\ \A k \in 1..(Len(u) + Len(v)) :
             (u \o v)[k] = IF k <= Len(u) THEN u[k] ELSE v[k - Len(u)]
    BY <2>1, <2>2, ConcatProperties
  <2>4. Len(u) + Len(v) = Len(s) - 1 /\ Len(s) \in Nat /\ j \in Nat
    BY <2>1, <2>2, <1>2
  <2>5. ASSUME NEW k \in 1..(Len(s) - 1)
        PROVE  (u \o v)[k] = IF k < j THEN s[k] ELSE s[k + 1]
    <3>1. CASE k < j
      <4>1. k \in 1..(j - 1) /\ k <= Len(u)
        BY <3>1, <2>1, <2>4
      <4> QED
        BY <3>1, <4>1, <2>1, <2>3, <2>4
    <3>2. CASE ~(k < j)
      <4>1. /\ k - (j - 1) \in 1..(Len(s) - j) /\ ~(k <= Len(u))
            /\ k - (j - 1) = k - Len(u) /\ j + (k - (j - 1)) = k + 1
        BY <3>2, <2>1, <2>4
      <4>2. v[k - (j - 1)] = s[k + 1]
        BY <4>1, <2>2
      <4>3. (u \o v)[k] = v[k - Len(u)]
        BY <4>1, <2>3, <2>4
      <4> QED
        BY <3>2, <4>1, <4>2, <4>3
    <3> QED
      BY <3>1, <3>2
  <2>6. /\ Without(s, j) \in Seq(S) /\ Len(Without(s, j)) = Len(s) - 1
        /\ \A k \in 1..(Len(s) - 1) :
             Without(s, j)[k] = IF k < j THEN s[k] ELSE s[k + 1]
    BY <1>2, WithoutFacts
  <2>7. u \o v = Without(s, j)
    BY <2>3, <2>4, <2>5, <2>6, SeqEqual
  <2> QED
    BY <2>7 DEF u, v
<1> QED
  BY <1>2, <1>4, <1>5

\* ... or none ...
LEMMA RemoveFirstAbsent ==
  ASSUME NEW S, NEW s \in Seq(S), NEW e, e \notin Range(s)
  PROVE  RemoveFirst(s, e) = s
<1>1. ~(\E i \in 1..Len(s) : s[i] = e)
  BY DEF Range
<1> QED
  BY <1>1 DEF RemoveFirst

\* ... and no other value.
LEMMA RemoveFirstKeeps ==
  ASSUME NEW S, NEW s \in Seq(S), NEW e
  PROVE  /\ RemoveFirst(s, e) \in Seq(S)
         /\ Range(RemoveFirst(s, e)) \subseteq Range(s)
         /\ Range(s) \subseteq Range(RemoveFirst(s, e)) \cup {e}
<1>1. CASE e \notin Range(s)
  BY <1>1, RemoveFirstAbsent
<1>2. CASE e \in Range(s)
  <2>1. PICK j \in 1..Len(s) : s[j] = e /\ RemoveFirst(s, e) = Without(s, j)
    BY <1>2, RemoveFirstShape
  <2> DEFINE t == Without(s, j)
  <2>2. /\ t \in Seq(S) /\ DOMAIN t = 1..(Len(s) - 1)
        /\ \A k \in 1..(Len(s) - 1) : t[k] = IF k < j THEN s[k] ELSE s[k + 1]
    BY WithoutFacts
  <2>3. DOMAIN s = 1..Len(s) /\ Len(s) \in Nat
    OBVIOUS
  <2> HIDE DEF t
  <2>4. ASSUME NEW k \in 1..Len(s), s[k] # e
        PROVE  s[k] \in Range(t)
    <3>1. CASE k < j
      <4>1. k \in DOMAIN t /\ t[k] = s[k]
        BY <3>1, <2>2, <2>3
      <4> QED BY <4>1 DEF Range
    <3>2. CASE k > j
      <4>1. k - 1 \in DOMAIN t /\ t[k - 1] = s[k]
        BY <3>2, <2>2, <2>3
      <4> QED BY <4>1 DEF Range
    <3> QED
      BY <3>1, <3>2, <2>1, <2>4
  <2>5. ASSUME NEW k \in DOMAIN t
        PROVE  t[k] \in Range(s)
    <3>1. t[k] \in {s[k], s[k + 1]} /\ k \in DOMAIN s /\ k + 1 \in DOMAIN s
      BY <2>2, <2>3
    <3> QED
      BY <3>1 DEF Range
  <2>6. Range(t) \subseteq Range(s) /\ Range(s) \subseteq Range(t) \cup {e}
    BY <2>3, <2>4, <2>5 DEF Range
  <2> QED
    BY <2>1, <2>2, <2>6 DEF t
<1> QED
  BY <1>1, <1>2

Times(s, i) == Cardinality({k \in DOMAIN s : s[k] = i})

\* A set is as large as what a one-to-one map makes of it.
LEMMA Renamed ==
  ASSUME NEW S, NEW T, NEW f \in [S -> T], IsFiniteSet(S),
         \A x, y \in S : f[x] = f[y] => x = y,
         \A t \in T : \E x \in S : f[x] = t
  PROVE  IsFiniteSet(T) /\ Cardinality(T) = Cardinality(S)
<1>1. f \in Bijection(S, T)
  BY DEF Bijection, Injection, Surjection, IsInjective
<1>2. ExistsBijection(S, T)
  BY <1>1 DEF ExistsBijection
<1> QED
  BY <1>2, FS_Bijection

\* How often an id occurs in a list, also one that an entry is added to or taken from.
LEMMA TimesType ==
  ASSUME NEW S, NEW s \in Seq(S), NEW i
  PROVE  /\ IsFiniteSet({k \in DOMAIN s : s[k] = i})
         /\ Times(s, i) \in Nat
         /\ Times(s, i) = 0 <=> i \notin Range(s)
<1> DEFINE K == {k \in DOMAIN s : s[k] = i}
<1>1. IsFiniteSet(DOMAIN s)
  <2>1. DOMAIN s = 1..Len(s) /\ Len(s) \in Nat
    OBVIOUS
  <2> QED
    BY <2>1, FS_Interval
<1>2. IsFiniteSet(K)
  BY <1>1, FS_Subset
<1>3. Cardinality(K) \in Nat /\ (Cardinality(K) = 0 <=> K = {})
  BY <1>2, FS_CardinalityType, FS_EmptySet
<1> QED
  BY <1>2, <1>3 DEF Times, Range

LEMMA TimesAppended ==
  ASSUME NEW S, NEW s \in Seq(S), NEW e \in S, NEW i
  PROVE  Times(Append(s, e), i) = IF e = i THEN Times(s, i) + 1 ELSE Times(s, i)
<1> DEFINE K == {k \in DOMAIN s : s[k] = i}
           new == Append(s, e)
           N == {k \in DOMAIN new : new[k] = i}
<1>1. /\ DOMAIN s = 1..Len(s) /\ Len(s) \in Nat /\ DOMAIN new = 1..(Len(s) + 1)
      /\ \A k \in 1..Len(s) : new[k] = s[k]
      /\ new[Len(s) + 1] = e
  BY AppendProperties
<1>2. IsFiniteSet(K)
  BY TimesType
<1> HIDE DEF new
<1>3. N = IF e = i THEN K \cup {Len(s) + 1} ELSE K
  BY <1>1
<1>4. Len(s) + 1 \notin K
  BY <1>1
<1> HIDE DEF K, N
<1>5. Cardinality(N) = IF e = i THEN Cardinality(K) + 1 ELSE Cardinality(K)
  BY <1>2, <1>3, <1>4, FS_AddElement
<1> QED
  BY <1>5 DEF Times, K, N, new

LEMMA TimesRemoved ==
  ASSUME NEW S, NEW s \in Seq(S), NEW e, NEW i
  PROVE  Times(RemoveFirst(s, e), i) =
           IF e = i /\ e \in Range(s) THEN Times(s, i) - 1 ELSE Times(s, i)
<1>1. CASE e \notin Range(s)
  BY <1>1, RemoveFirstAbsent
<1>2. CASE e \in Range(s)
  <2>1. PICK j \in 1..Len(s) : s[j] = e /\ RemoveFirst(s, e) = Without(s, j)
    BY <1>2, RemoveFirstShape
  <2> DEFINE t == Without(s, j)
             K == {k \in DOMAIN s : s[k] = i}
             T == {k \in DOMAIN t : t[k] = i}
             A == K \ {j}
             Down(k) == IF k < j THEN k ELSE k - 1
             f == [k \in A |-> Down(k)]
  <2>2. /\ DOMAIN t = 1..(Len(s) - 1) /\ DOMAIN s = 1..Len(s) /\ Len(s) \in Nat
        /\ \A k \in 1..(Len(s) - 1) : t[k] = IF k < j THEN s[k] ELSE s[k + 1]
    BY WithoutFacts
  <2>3. IsFiniteSet(K)
    BY TimesType
  <2> HIDE DEF t
  <2>4. ASSUME NEW k \in A
        PROVE  Down(k) \in T
    <3>1. CASE k < j
      BY <3>1, <2>2
    <3>2. CASE k > j
      BY <3>2, <2>2
    <3> QED
      BY <3>1, <3>2, <2>2
  <2>5. f \in [A -> T]
    BY <2>4
  <2>6. \A x, y \in A : f[x] = f[y] => x = y
    BY <2>2
  <2>7. ASSUME NEW k \in T
        PROVE  \E x \in A : f[x] = k
    <3>1. CASE k < j
      <4>1. k \in A /\ f[k] = k
        BY <3>1, <2>2
      <4> QED BY <4>1
    <3>2. CASE ~(k < j)
      <4>1. k + 1 \in A /\ Down(k + 1) = k
        BY <3>2, <2>2
      <4> QED BY <4>1
    <3> QED
      BY <3>1, <3>2
  <2>8. IsFiniteSet(A) /\ Cardinality(A) =
          IF j \in K THEN Cardinality(K) - 1 ELSE Cardinality(K)
    BY <2>3, FS_RemoveElement
  <2>9. j \in K <=> e = i
    BY <2>1, <2>2
  <2> HIDE DEF f, A, K, T
  <2>10. Cardinality(T) = Cardinality(A)
    BY <2>5, <2>6, <2>7, <2>8, Renamed
  <2>11. Times(t, i) = Cardinality(T) /\ Times(s, i) = Cardinality(K)
    BY DEF Times, T, K
  <2> QED
    BY <1>2, <2>1, <2>8, <2>9, <2>10, <2>11 DEF t
<1> QED
  BY <1>1, <1>2

-----------------------------------------------------------------------------
(* The parts of the inductive invariant, as predicates of the two locals *)

Outs == [repaired : Seq(Messages), open : Seq(Ids)]

\* The block of p is still open at the end of rep.
Trailing(rep, p) == \A r \in (p + 1)..Len(rep) : rep[r].kind = "tool"

Paired(rep, open) ==
  \A p \in DOMAIN rep : rep[p].kind = "ai" =>
    \A k \in DOMAIN rep[p].calls :
      HasId(rep[p].calls[k]) =>
        \/ Answered(rep, p, rep[p].calls[k])
        \/ Trailing(rep, p) /\ rep[p].calls[k] \in Range(open)

Asked(rep, open) ==
  \A i \in Range(open) : \E p \in 1..Len(rep) :
    rep[p].kind = "ai" /\ i \in Range(rep[p].calls) /\ Trailing(rep, p)

Synthetics(rep) ==
  \A q \in 1..Len(rep) : rep[q].synthetic =>
    \E p \in 1..Len(rep) :
      rep[p].kind = "ai" /\ rep[q].id \in Range(rep[p].calls) /\ q \in Block(rep, p)

Kept(given, rep, where, n) ==
  /\ Len(where) = n
  /\ \A k \in 1..n : where[k] \in 1..Len(rep) /\ rep[where[k]] = given[k]
  /\ \A j, k \in 1..n : j < k => where[j] < where[k]
  /\ \A q \in 1..Len(rep) : rep[q].synthetic \/ \E k \in 1..n : where[k] = q

-----------------------------------------------------------------------------
(* Appending to the end of a list leaves what was answered answered *)

Extends(longer, rep) ==
  /\ Len(longer) >= Len(rep)
  /\ \A q \in 1..Len(rep) : longer[q] = rep[q]

\* The block of a batch only grows, and its answers stay.
LEMMA BlocksGrow ==
  ASSUME NEW rep \in Seq(Messages), NEW longer \in Seq(Messages), Extends(longer, rep),
         NEW p \in 1..Len(rep)
  PROVE  Block(rep, p) \subseteq Block(longer, p)
<1> SUFFICES ASSUME NEW q \in Block(rep, p)
             PROVE  q \in Block(longer, p)
  OBVIOUS
<1>1. /\ q \in (p + 1)..Len(rep) /\ q \in 1..Len(rep)
      /\ \A r \in (p + 1)..q : rep[r].kind = "tool"
  BY DEF Block
<1>2. q \in (p + 1)..Len(longer)
  BY <1>1 DEF Extends
<1>3. ASSUME NEW r \in (p + 1)..q
      PROVE  longer[r].kind = "tool"
  <2>1. r \in 1..Len(rep)
    BY <1>1
  <2> QED
    BY <2>1, <1>1 DEF Extends
<1> QED
  BY <1>2, <1>3 DEF Block

LEMMA AnswersStay ==
  ASSUME NEW rep \in Seq(Messages), NEW longer \in Seq(Messages), Extends(longer, rep),
         NEW p \in 1..Len(rep), NEW i, Answered(rep, p, i)
  PROVE  Answered(longer, p, i)
<1>1. PICK q \in Block(rep, p) : rep[q].id = i
  BY DEF Answered
<1>2. q \in Block(longer, p)
  BY BlocksGrow
<1>3. q \in 1..Len(rep)
  BY DEF Block
<1> QED
  BY <1>1, <1>2, <1>3 DEF Extends, Answered

-----------------------------------------------------------------------------
(* _flush_orphans *)

LEMMA SyntheticMessage ==
  ASSUME NEW i \in Ids
  PROVE  LET m == _make_synthetic_tool_message(i)
         IN m \in Messages /\ m.kind = "tool" /\ m.id = i /\ m.synthetic = TRUE
<1>1. _make_synthetic_tool_message(i) =
        [kind |-> "tool", calls |-> << >>, id |-> i, synthetic |-> TRUE]
  BY DEF _make_synthetic_tool_message
<1>2. << >> \in Seq(Ids \cup {NoId})
  BY EmptySeq, Zenon
<1> QED
  BY <1>1, <1>2 DEF Messages

\* What is open is answered at the end of the list, in its order.
LEMMA FlushFacts ==
  ASSUME NEW o \in Outs
  PROVE  LET rep == o.repaired
             new == _flush_orphans(o)
         IN /\ new \in Outs /\ new.open = << >>
            /\ Len(new.repaired) = Len(rep) + Len(o.open)
            /\ Extends(new.repaired, rep)
            /\ \A k \in 1..Len(o.open) :
                 new.repaired[Len(rep) + k] = _make_synthetic_tool_message(o.open[k])
            /\ \A q \in 1..Len(new.repaired) : q > Len(rep) =>
                 \E k \in 1..Len(o.open) : q = Len(rep) + k
<1> DEFINE rep == o.repaired
           syn == [k \in DOMAIN o.open |-> _make_synthetic_tool_message(o.open[k])]
           new == _flush_orphans(o)
<1>1. rep \in Seq(Messages) /\ o.open \in Seq(Ids)
  BY DEF Outs
<1>2. /\ syn \in Seq(Messages) /\ Len(syn) = Len(o.open)
      /\ \A k \in 1..Len(o.open) : syn[k] = _make_synthetic_tool_message(o.open[k])
  <2>1. \A i \in Ids : _make_synthetic_tool_message(i) \in Messages
    BY SyntheticMessage
  <2>2. DOMAIN o.open = 1..Len(o.open) /\ Len(o.open) \in Nat
    BY <1>1
  <2>3. \A k \in DOMAIN o.open : o.open[k] \in Ids
    BY <1>1
  <2> QED
    BY <2>1, <2>2, <2>3
<1>3. new = [repaired |-> rep \o syn, open |-> << >>]
  BY DEF _flush_orphans
<1> HIDE DEF syn, new
<1>4. /\ rep \o syn \in Seq(Messages)
      /\ Len(rep \o syn) = Len(rep) + Len(syn)
      /\ \A q \in 1..(Len(rep) + Len(syn)) :
           (rep \o syn)[q] = IF q <= Len(rep) THEN rep[q] ELSE syn[q - Len(rep)]
  <2> HIDE DEF rep
  <2> QED
    BY <1>1, <1>2, ConcatProperties, ZenonT(40)
<1>5. Len(rep) \in Nat /\ Len(o.open) \in Nat
  BY <1>1
<1>6. /\ new \in Outs /\ new.open = << >> /\ new.repaired = rep \o syn
  BY <1>3, <1>4 DEF Outs
<1> HIDE DEF rep
<1>7. Len(new.repaired) = Len(rep) + Len(o.open)
  BY <1>2, <1>4, <1>6
<1>8. Extends(new.repaired, rep)
  BY <1>2, <1>4, <1>5, <1>6, <1>7 DEF Extends
<1>9. ASSUME NEW k \in 1..Len(o.open)
      PROVE  new.repaired[Len(rep) + k] = _make_synthetic_tool_message(o.open[k])
  <2>1. /\ Len(rep) + k \in 1..(Len(rep) + Len(syn))
        /\ ~(Len(rep) + k <= Len(rep)) /\ Len(rep) + k - Len(rep) = k
    BY <1>2, <1>5
  <2> QED
    BY <2>1, <1>2, <1>4, <1>6
<1>10. ASSUME NEW q \in 1..Len(new.repaired), q > Len(rep)
       PROVE  \E k \in 1..Len(o.open) : q = Len(rep) + k
  <2>1. q - Len(rep) \in 1..Len(o.open) /\ q = Len(rep) + (q - Len(rep))
    BY <1>5, <1>7, <1>10
  <2> QED
    BY <2>1
<1> QED
  BY <1>6, <1>7, <1>8, <1>9, <1>10 DEF rep, new

\* The synthetic messages close every block that was open.
LEMMA FlushPairs ==
  ASSUME NEW o \in Outs, Paired(o.repaired, o.open)
  PROVE  WellPaired(_flush_orphans(o).repaired)
<1> DEFINE rep == o.repaired
           new == _flush_orphans(o).repaired
<1>1. /\ rep \in Seq(Messages) /\ new \in Seq(Messages) /\ o.open \in Seq(Ids)
      /\ Len(new) = Len(rep) + Len(o.open) /\ Extends(new, rep)
      /\ \A k \in 1..Len(o.open) :
           new[Len(rep) + k] = _make_synthetic_tool_message(o.open[k])
      /\ \A q \in 1..Len(new) : q > Len(rep) =>
           \E k \in 1..Len(o.open) : q = Len(rep) + k
  BY FlushFacts DEF Outs
<1>2. Paired(rep, o.open)
  OBVIOUS
<1> HIDE DEF rep, new
<1>3. /\ Len(rep) \in Nat /\ Len(new) \in Nat
      /\ DOMAIN rep = 1..Len(rep) /\ DOMAIN new = 1..Len(new)
  BY <1>1
<1>4. \A q \in 1..Len(new) : q > Len(rep) => new[q].kind = "tool"
  <2> SUFFICES ASSUME NEW q \in 1..Len(new), q > Len(rep)
               PROVE  new[q].kind = "tool"
    OBVIOUS
  <2>1. PICK k \in 1..Len(o.open) : q = Len(rep) + k
    BY <1>1
  <2>2. o.open[k] \in Ids
    BY <1>1
  <2> QED
    BY <2>1, <2>2, <1>1, SyntheticMessage
<1>5. ASSUME NEW p \in 1..Len(new), new[p].kind = "ai", NEW k \in DOMAIN new[p].calls,
             HasId(new[p].calls[k])
      PROVE  Answered(new, p, new[p].calls[k])
  <2> DEFINE i == new[p].calls[k]
  <2> SUFFICES Answered(new, p, i)
    OBVIOUS
  <2>0. p <= Len(rep)
    BY <1>3, <1>4, <1>5
  <2>1. p \in 1..Len(rep) /\ new[p] = rep[p]
    BY <2>0, <1>1, <1>3 DEF Extends
  <2>2. \/ Answered(rep, p, i)
        \/ Trailing(rep, p) /\ i \in Range(o.open)
    BY <2>1, <1>2, <1>3, <1>5 DEF Paired
  <2> HIDE DEF i
  <2>3. CASE Answered(rep, p, i)
    BY <2>1, <2>3, <1>1, AnswersStay
  <2>4. CASE Trailing(rep, p) /\ i \in Range(o.open)
    <3>1. PICK l \in 1..Len(o.open) : o.open[l] = i
      BY <2>4, <1>1 DEF Range
    <3>2. i \in Ids
      BY <3>1, <1>1
    <3>3. new[Len(rep) + l].id = i
      BY <3>1, <3>2, <1>1, SyntheticMessage
    <3>4. Len(rep) + l \in (p + 1)..Len(new)
      BY <2>1, <1>1, <1>3
    <3>5. ASSUME NEW r \in (p + 1)..(Len(rep) + l)
          PROVE  new[r].kind = "tool"
      <4>1. CASE r <= Len(rep)
        <5>1. r \in (p + 1)..Len(rep) /\ r \in 1..Len(rep)
          BY <4>1, <2>1, <1>3
        <5> QED
          BY <5>1, <2>4, <1>1 DEF Trailing, Extends
      <4>2. CASE r > Len(rep)
        BY <4>2, <3>4, <1>3, <1>4, <2>1
      <4> QED
        BY <4>1, <4>2, <2>1, <1>3
    <3> QED
      BY <3>3, <3>4, <3>5 DEF Answered, Block
  <2> QED
    BY <2>2, <2>3, <2>4
<1> QED
  BY <1>3, <1>5 DEF WellPaired, new

\* A synthetic answer that was there still answers its call.
LEMMA OldSynthetics ==
  ASSUME NEW rep \in Seq(Messages), NEW longer \in Seq(Messages), Extends(longer, rep),
         Synthetics(rep), NEW q \in 1..Len(rep), longer[q].synthetic
  PROVE  \E p \in 1..Len(longer) :
           /\ longer[p].kind = "ai" /\ longer[q].id \in Range(longer[p].calls)
           /\ q \in Block(longer, p)
<1>1. PICK p \in 1..Len(rep) :
        rep[p].kind = "ai" /\ rep[q].id \in Range(rep[p].calls) /\ q \in Block(rep, p)
  BY DEF Synthetics, Extends
<1>2. p \in 1..Len(longer) /\ longer[p] = rep[p] /\ longer[q] = rep[q]
  BY DEF Extends
<1>3. q \in Block(longer, p)
  BY <1>1, BlocksGrow
<1> QED
  BY <1>1, <1>2, <1>3

\* Each synthetic message stands in a block whose batch asked for its id.
LEMMA FlushAnswersCalls ==
  ASSUME NEW o \in Outs, Asked(o.repaired, o.open), Synthetics(o.repaired)
  PROVE  Synthetics(_flush_orphans(o).repaired)
<1> DEFINE rep == o.repaired
           new == _flush_orphans(o).repaired
<1>1. /\ rep \in Seq(Messages) /\ new \in Seq(Messages) /\ o.open \in Seq(Ids)
      /\ Len(new) = Len(rep) + Len(o.open) /\ Extends(new, rep)
      /\ \A k \in 1..Len(o.open) :
           new[Len(rep) + k] = _make_synthetic_tool_message(o.open[k])
      /\ \A q \in 1..Len(new) : q > Len(rep) =>
           \E k \in 1..Len(o.open) : q = Len(rep) + k
  BY FlushFacts DEF Outs
<1>2. Asked(rep, o.open) /\ Synthetics(rep)
  OBVIOUS
<1> HIDE DEF rep, new
<1>3. Len(rep) \in Nat /\ Len(new) \in Nat
  BY <1>1
<1>4. ASSUME NEW q \in 1..Len(new), q > Len(rep)
      PROVE  new[q].kind = "tool" /\ new[q].id \in Range(o.open)
  <2>1. PICK k \in 1..Len(o.open) : q = Len(rep) + k
    BY <1>1, <1>4
  <2>2. o.open[k] \in Ids /\ o.open[k] \in Range(o.open)
    BY <1>1 DEF Range
  <2> QED
    BY <2>1, <2>2, <1>1, SyntheticMessage
<1>5. ASSUME NEW q \in 1..Len(new), new[q].synthetic
      PROVE  \E p \in 1..Len(new) :
               /\ new[p].kind = "ai" /\ new[q].id \in Range(new[p].calls)
               /\ q \in Block(new, p)
  <2>1. CASE q \in 1..Len(rep)
    BY <2>1, <1>1, <1>2, <1>5, OldSynthetics
  <2>2. CASE q > Len(rep)
    <3>1. PICK p \in 1..Len(rep) :
            rep[p].kind = "ai" /\ new[q].id \in Range(rep[p].calls) /\ Trailing(rep, p)
      BY <2>2, <1>4, <1>2 DEF Asked
    <3>2. p \in 1..Len(new) /\ new[p] = rep[p]
      BY <1>1, <1>3 DEF Extends
    <3>3. ASSUME NEW r \in (p + 1)..q
          PROVE  new[r].kind = "tool"
      <4>1. CASE r <= Len(rep)
        <5>1. r \in (p + 1)..Len(rep) /\ r \in 1..Len(rep)
          BY <4>1, <1>3
        <5> QED
          BY <5>1, <3>1, <1>1 DEF Trailing, Extends
      <4>2. CASE r > Len(rep)
        BY <4>2, <1>3, <1>4
      <4> QED
        BY <4>1, <4>2, <1>3
    <3>4. q \in (p + 1)..Len(new)
      BY <2>2, <1>3
    <3> QED
      BY <3>1, <3>2, <3>3, <3>4 DEF Block
  <2> QED
    BY <2>1, <2>2, <1>3
<1> QED
  BY <1>5 DEF Synthetics, new

\* The messages of the argument stay where they are.
LEMMA FlushKeeps ==
  ASSUME NEW o \in Outs, NEW given, NEW where, NEW n \in Nat,
         Kept(given, o.repaired, where, n)
  PROVE  Kept(given, _flush_orphans(o).repaired, where, n)
<1> DEFINE rep == o.repaired
           new == _flush_orphans(o).repaired
<1>1. /\ rep \in Seq(Messages) /\ new \in Seq(Messages) /\ o.open \in Seq(Ids)
      /\ Extends(new, rep)
      /\ \A k \in 1..Len(o.open) :
           new[Len(rep) + k] = _make_synthetic_tool_message(o.open[k])
      /\ \A q \in 1..Len(new) : q > Len(rep) =>
           \E k \in 1..Len(o.open) : q = Len(rep) + k
  BY FlushFacts DEF Outs
<1>2. Kept(given, rep, where, n)
  OBVIOUS
<1> HIDE DEF rep, new
<1>3. Len(rep) \in Nat /\ Len(new) \in Nat
  BY <1>1
<1>4. ASSUME NEW k \in 1..n
      PROVE  where[k] \in 1..Len(new) /\ new[where[k]] = given[k]
  <2>1. where[k] \in 1..Len(rep) /\ rep[where[k]] = given[k]
    BY <1>2 DEF Kept
  <2> QED
    BY <2>1, <1>1, <1>3 DEF Extends
<1>5. ASSUME NEW q \in 1..Len(new)
      PROVE  new[q].synthetic \/ \E k \in 1..n : where[k] = q
  <2>1. CASE q \in 1..Len(rep)
    BY <2>1, <1>1, <1>2 DEF Kept, Extends
  <2>2. CASE q > Len(rep)
    <3>1. PICK k \in 1..Len(o.open) : q = Len(rep) + k
      BY <1>1, <2>2
    <3>2. o.open[k] \in Ids
      BY <1>1
    <3> QED
      BY <3>1, <3>2, <1>1, SyntheticMessage
  <2> QED
    BY <2>1, <2>2, <1>3
<1> QED
  BY <1>2, <1>4, <1>5 DEF Kept, new

-----------------------------------------------------------------------------
(* Appending a message of the argument *)

\* One more message, whatever it is.
LEMMA AppendFacts ==
  ASSUME NEW rep \in Seq(Messages), NEW m \in Messages
  PROVE  LET new == Append(rep, m)
         IN /\ new \in Seq(Messages) /\ Len(new) = Len(rep) + 1
            /\ Extends(new, rep) /\ new[Len(rep) + 1] = m
<1> QED
  BY AppendProperties DEF Extends

\* It is the next one of the argument.
LEMMA AppendKeeps ==
  ASSUME NEW rep \in Seq(Messages), NEW given \in Seq(Messages), NEW where \in Seq(Nat),
         NEW n \in Nat, n + 1 \in 1..Len(given), Kept(given, rep, where, n)
  PROVE  Kept(given, Append(rep, given[n + 1]), Append(where, Len(rep) + 1), n + 1)
<1> DEFINE m == given[n + 1]
           new == Append(rep, m)
           pl == Append(where, Len(rep) + 1)
<1>1. m \in Messages /\ Len(rep) \in Nat /\ Len(where) = n
  BY DEF Kept
<1>2. /\ new \in Seq(Messages) /\ Len(new) = Len(rep) + 1
      /\ Extends(new, rep) /\ new[Len(rep) + 1] = m
  <2> HIDE DEF m
  <2> QED
    BY <1>1, AppendFacts
<1>3. /\ Len(pl) = n + 1 /\ pl[n + 1] = Len(rep) + 1
      /\ \A k \in 1..n : pl[k] = where[k]
  BY <1>1, AppendProperties
<1> HIDE DEF m, new, pl
<1>4. \A k \in 1..n : where[k] \in 1..Len(rep) /\ rep[where[k]] = given[k]
  BY DEF Kept
<1>5. ASSUME NEW k \in 1..(n + 1)
      PROVE  pl[k] \in 1..Len(new) /\ new[pl[k]] = given[k]
  <2>1. CASE k \in 1..n
    <3>1. pl[k] = where[k] /\ where[k] \in 1..Len(rep) /\ rep[where[k]] = given[k]
      BY <2>1, <1>3, <1>4
    <3>2. new[where[k]] = rep[where[k]]
      BY <3>1, <1>2 DEF Extends
    <3> QED
      BY <3>1, <3>2, <1>1, <1>2
  <2>2. CASE k = n + 1
    BY <2>2, <1>1, <1>2, <1>3 DEF m
  <2> QED
    BY <2>1, <2>2
<1>6. ASSUME NEW j \in 1..(n + 1), NEW k \in 1..(n + 1), j < k
      PROVE  pl[j] < pl[k]
  <2>1. CASE k \in 1..n
    <3>1. j \in 1..n
      BY <2>1, <1>6
    <3> QED
      BY <2>1, <3>1, <1>3, <1>6 DEF Kept
  <2>2. CASE k = n + 1
    <3>1. j \in 1..n
      BY <2>2, <1>6
    <3>2. pl[j] = where[j] /\ where[j] \in 1..Len(rep)
      BY <3>1, <1>3, <1>4
    <3>3. pl[k] = Len(rep) + 1
      BY <2>2, <1>3
    <3> QED
      BY <3>2, <3>3, <1>1
  <2> QED
    BY <2>1, <2>2
<1>7. ASSUME NEW q \in 1..Len(new)
      PROVE  new[q].synthetic \/ \E k \in 1..(n + 1) : pl[k] = q
  <2>1. CASE q \in 1..Len(rep)
    <3>1. rep[q].synthetic \/ \E k \in 1..n : where[k] = q
      BY <2>1 DEF Kept
    <3> QED
      BY <2>1, <3>1, <1>2, <1>3 DEF Extends
  <2>2. CASE q = Len(rep) + 1
    BY <2>2, <1>3
  <2> QED
    BY <2>1, <2>2, <1>1, <1>2
<1> QED
  BY <1>3, <1>5, <1>6, <1>7 DEF Kept, new, pl, m

\* A message the list already had is no synthetic one, so the synthetic messages
\* stay in their blocks.
LEMMA AppendSynthetics ==
  ASSUME NEW rep \in Seq(Messages), NEW m \in Messages, ~m.synthetic, Synthetics(rep)
  PROVE  Synthetics(Append(rep, m))
<1> DEFINE new == Append(rep, m)
<1>1. /\ new \in Seq(Messages) /\ Len(new) = Len(rep) + 1 /\ Len(rep) \in Nat
      /\ Extends(new, rep) /\ new[Len(rep) + 1] = m
  BY AppendFacts
<1> HIDE DEF new
<1>2. ASSUME NEW q \in 1..Len(new), new[q].synthetic
      PROVE  \E p \in 1..Len(new) :
               /\ new[p].kind = "ai" /\ new[q].id \in Range(new[p].calls)
               /\ q \in Block(new, p)
  <2>1. q # Len(rep) + 1
    BY <1>1, <1>2
  <2>2. q \in 1..Len(rep)
    BY <2>1, <1>1
  <2> QED
    BY <2>2, <1>1, <1>2, OldSynthetics
<1> QED
  BY <1>2 DEF Synthetics, new

\* A message that makes no calls leaves nothing to be answered.
LEMMA AppendOther ==
  ASSUME NEW rep \in Seq(Messages), NEW m \in Messages, m.kind # "ai", WellPaired(rep)
  PROVE  WellPaired(Append(rep, m))
<1> DEFINE new == Append(rep, m)
<1>1. /\ new \in Seq(Messages) /\ Len(new) = Len(rep) + 1 /\ Len(rep) \in Nat
      /\ Extends(new, rep) /\ new[Len(rep) + 1] = m
  BY AppendFacts
<1>2. DOMAIN new = 1..Len(new) /\ DOMAIN rep = 1..Len(rep)
  BY <1>1
<1> HIDE DEF new
<1>3. ASSUME NEW p \in 1..Len(new), new[p].kind = "ai", NEW k \in DOMAIN new[p].calls,
             HasId(new[p].calls[k])
      PROVE  Answered(new, p, new[p].calls[k])
  <2> DEFINE i == new[p].calls[k]
  <2> SUFFICES Answered(new, p, i)
    OBVIOUS
  <2>1. p # Len(rep) + 1
    BY <1>1, <1>3
  <2>2. p \in 1..Len(rep)
    BY <2>1, <1>1
  <2>3. new[p] = rep[p]
    BY <2>2, <1>1 DEF Extends
  <2>4. Answered(rep, p, i)
    BY <2>2, <2>3, <1>2, <1>3 DEF WellPaired
  <2> HIDE DEF i
  <2> QED
    BY <2>2, <2>4, <1>1, AnswersStay
<1> QED
  BY <1>2, <1>3 DEF WellPaired, new

\* The batch of a new AIMessage is open, all others are answered.
LEMMA AppendAi ==
  ASSUME NEW rep \in Seq(Messages), NEW m \in Messages, m.kind = "ai", WellPaired(rep),
         NEW open \in Seq(Ids),
         \A k \in DOMAIN m.calls : HasId(m.calls[k]) => m.calls[k] \in Range(open),
         Range(open) \subseteq Range(m.calls)
  PROVE  Paired(Append(rep, m), open) /\ Asked(Append(rep, m), open)
<1> DEFINE new == Append(rep, m)
<1>1. /\ new \in Seq(Messages) /\ Len(new) = Len(rep) + 1 /\ Len(rep) \in Nat
      /\ Extends(new, rep) /\ new[Len(rep) + 1] = m
  BY AppendFacts
<1>2. DOMAIN new = 1..Len(new) /\ DOMAIN rep = 1..Len(rep)
  BY <1>1
<1> HIDE DEF new
<1>3. Trailing(new, Len(rep) + 1) /\ Len(rep) + 1 \in 1..Len(new)
  BY <1>1 DEF Trailing
<1>4. ASSUME NEW p \in 1..Len(new), new[p].kind = "ai", NEW k \in DOMAIN new[p].calls,
             HasId(new[p].calls[k])
      PROVE  \/ Answered(new, p, new[p].calls[k])
             \/ Trailing(new, p) /\ new[p].calls[k] \in Range(open)
  <2>1. CASE p = Len(rep) + 1
    BY <2>1, <1>1, <1>3, <1>4
  <2>2. CASE p \in 1..Len(rep)
    <3> DEFINE i == new[p].calls[k]
    <3> SUFFICES Answered(new, p, i)
      OBVIOUS
    <3>1. new[p] = rep[p]
      BY <2>2, <1>1 DEF Extends
    <3>2. Answered(rep, p, i)
      BY <2>2, <3>1, <1>2, <1>4 DEF WellPaired
    <3> HIDE DEF i
    <3> QED
      BY <2>2, <3>2, <1>1, AnswersStay
  <2> QED
    BY <2>1, <2>2, <1>1
<1>5. Paired(new, open)
  BY <1>2, <1>4 DEF Paired
<1>6. Asked(new, open)
  BY <1>1, <1>3 DEF Asked
<1> QED
  BY <1>5, <1>6 DEF new

\* A ToolMessage answers its id in the open block, and closes one pair of it.
LEMMA AppendAnswer ==
  ASSUME NEW o \in Outs, NEW m \in Messages, m.kind = "tool",
         Paired(o.repaired, o.open), Asked(o.repaired, o.open)
  PROVE  /\ OnTool(o, m) \in Outs
         /\ Paired(OnTool(o, m).repaired, OnTool(o, m).open)
         /\ Asked(OnTool(o, m).repaired, OnTool(o, m).open)
<1> DEFINE rep == o.repaired
           new == Append(rep, m)
           left == RemoveFirst(o.open, m.id)
<1>1. OnTool(o, m) = [repaired |-> new, open |-> left]
  BY DEF OnTool
<1>2. rep \in Seq(Messages) /\ o.open \in Seq(Ids)
  BY DEF Outs
<1>3. /\ left \in Seq(Ids) /\ Range(left) \subseteq Range(o.open)
      /\ Range(o.open) \subseteq Range(left) \cup {m.id}
  BY <1>2, RemoveFirstKeeps
<1>4. Paired(rep, o.open) /\ Asked(rep, o.open)
  OBVIOUS
<1> HIDE DEF rep, left
<1>5. /\ new \in Seq(Messages) /\ Len(new) = Len(rep) + 1 /\ Len(rep) \in Nat
      /\ Extends(new, rep) /\ new[Len(rep) + 1] = m
  BY <1>2, AppendFacts
<1>6. DOMAIN new = 1..Len(new) /\ DOMAIN rep = 1..Len(rep)
  BY <1>2, <1>5
<1> HIDE DEF new
<1>7. ASSUME NEW p \in 1..Len(rep), Trailing(rep, p)
      PROVE  Trailing(new, p) /\ Answered(new, p, m.id)
  <2>1. ASSUME NEW r \in (p + 1)..Len(new)
        PROVE  new[r].kind = "tool"
    <3>1. CASE r = Len(rep) + 1
      BY <3>1, <1>5
    <3>2. CASE r # Len(rep) + 1
      <4>1. r \in (p + 1)..Len(rep) /\ r \in 1..Len(rep)
        BY <3>2, <1>5
      <4> QED
        BY <4>1, <1>5, <1>7 DEF Trailing, Extends
    <3> QED
      BY <3>1, <3>2
  <2>2. Len(rep) + 1 \in Block(new, p)
    BY <2>1, <1>5 DEF Block
  <2> QED
    BY <2>1, <2>2, <1>5 DEF Trailing, Answered
<1>8. ASSUME NEW p \in 1..Len(new), new[p].kind = "ai", NEW k \in DOMAIN new[p].calls,
             HasId(new[p].calls[k])
      PROVE  \/ Answered(new, p, new[p].calls[k])
             \/ Trailing(new, p) /\ new[p].calls[k] \in Range(left)
  <2> DEFINE i == new[p].calls[k]
  <2> SUFFICES Answered(new, p, i) \/ (Trailing(new, p) /\ i \in Range(left))
    OBVIOUS
  <2>1. p # Len(rep) + 1
    BY <1>5, <1>8
  <2>2. p \in 1..Len(rep) /\ new[p] = rep[p]
    BY <2>1, <1>5 DEF Extends
  <2>3. Answered(rep, p, i) \/ (Trailing(rep, p) /\ i \in Range(o.open))
    BY <2>2, <1>4, <1>6, <1>8 DEF Paired
  <2> HIDE DEF i
  <2>4. CASE Answered(rep, p, i)
    BY <2>2, <2>4, <1>2, <1>5, AnswersStay
  <2>5. CASE Trailing(rep, p) /\ i \in Range(o.open)
    BY <2>2, <2>5, <1>3, <1>7
  <2> QED
    BY <2>3, <2>4, <2>5
<1>9. Paired(new, left)
  BY <1>6, <1>8 DEF Paired
<1>10. ASSUME NEW i \in Range(left)
       PROVE  \E p \in 1..Len(new) :
                new[p].kind = "ai" /\ i \in Range(new[p].calls) /\ Trailing(new, p)
  <2>1. PICK p \in 1..Len(rep) :
          rep[p].kind = "ai" /\ i \in Range(rep[p].calls) /\ Trailing(rep, p)
    BY <1>3, <1>4 DEF Asked
  <2>2. p \in 1..Len(new) /\ new[p] = rep[p]
    BY <1>5 DEF Extends
  <2> QED
    BY <2>1, <2>2, <1>7
<1>11. Asked(new, left)
  BY <1>10 DEF Asked
<1>12. OnTool(o, m) \in Outs
  BY <1>1, <1>3, <1>5 DEF Outs
<1> QED
  BY <1>1, <1>9, <1>11, <1>12

-----------------------------------------------------------------------------
(* The loops as runs: what it has after each message, and each call *)

IsRun(r, messages) == Loop!Runs(r, messages, NothingYet)

\* OnAi's fold and the outer loop, each as the list of what it has had in hand.
LEMMA CallsRun ==
  ASSUME NEW calls \in Seq(Ids \cup {NoId})
  PROVE  \E o : Opening!Runs(o, calls, << >>) /\ FoldLeft(OpenPair, << >>, calls) = o[Len(calls)]
<1>1. FoldLeft(OpenPair, << >>, calls) = Opening!Fold(<< >>, calls)
  BY DEF FoldLeft, MapThenFoldSet, Max, Opening!Fold, Opening!Iterates, Opening!Step,
         Opening!Maximum
<1>2. Len(calls) \in Nat /\ DOMAIN calls = 1..Len(calls)
  OBVIOUS
<1> QED
  BY <1>1, <1>2, Opening!FoldRuns

LEMMA MessagesRun ==
  ASSUME NEW messages \in Seq(Messages)
  PROVE  \E r : IsRun(r, messages)
                /\ _ensure_tool_call_pairs(messages) = _flush_orphans(r[Len(messages)]).repaired
<1>1. FoldLeft(OnMessage, NothingYet, messages) = Loop!Fold(NothingYet, messages)
  BY DEF FoldLeft, MapThenFoldSet, Max, Loop!Fold, Loop!Iterates, Loop!Step, Loop!Maximum
<1>2. Len(messages) \in Nat /\ DOMAIN messages = 1..Len(messages)
  OBVIOUS
<1>3. PICK r : Loop!Runs(r, messages, NothingYet)
               /\ Loop!Fold(NothingYet, messages) = r[Len(messages)]
  BY <1>2, Loop!FoldRuns
<1>4. _ensure_tool_call_pairs(messages) = _flush_orphans(r[Len(messages)]).repaired
  BY <1>1, <1>3 DEF _ensure_tool_call_pairs
<1> QED
  BY <1>3, <1>4 DEF IsRun

\* The pairs that a batch opens: each id it has, as often as it has it.
LEMMA OpenedPairs ==
  ASSUME NEW calls \in Seq(Ids \cup {NoId})
  PROVE  LET open == FoldLeft(OpenPair, << >>, calls)
         IN  open \in Seq(Ids) /\ \A i \in Ids : Times(open, i) = Times(calls, i)
<1>1. PICK o : Opening!Runs(o, calls, << >>) /\ FoldLeft(OpenPair, << >>, calls) = o[Len(calls)]
  BY CallsRun
<1>2. o[0] = << >> /\ \A k \in 1..Len(calls) : o[k] = OpenPair(o[k - 1], calls[k])
  BY <1>1 DEF Opening!Runs
<1> DEFINE Good(k) == /\ o[k] \in Seq(Ids)
                      /\ \A i \in Ids : Times(o[k], i) = Cardinality({j \in 1..k : calls[j] = i})
           I == {k \in Nat : k <= Len(calls) => Good(k)}
<1>3. Len(calls) \in Nat /\ DOMAIN calls = 1..Len(calls)
  OBVIOUS
<1>4. Good(0)
  <2>1. << >> \in Seq(Ids)
    BY EmptySeq, Zenon
  <2>2. ASSUME NEW i \in Ids
        PROVE  Times(<< >>, i) = 0 /\ {j \in 1..0 : calls[j] = i} = {}
    <3>1. {k \in DOMAIN << >> : << >>[k] = i} = {}
      OBVIOUS
    <3> QED
      BY <3>1, FS_EmptySet DEF Times
  <2>3. \A i \in Ids : Times(<< >>, i) = Cardinality({j \in 1..0 : calls[j] = i})
    BY <2>2, FS_EmptySet
  <2> QED
    BY <1>2, <2>1, <2>3
<1>5. ASSUME NEW k \in I PROVE k + 1 \in I
  <2> SUFFICES ASSUME k + 1 <= Len(calls) PROVE Good(k + 1)
    OBVIOUS
  <2>1. Good(k) /\ k \in Nat /\ k + 1 \in 1..Len(calls)
    BY <1>3
  <2>2. o[k + 1] = OpenPair(o[k], calls[k + 1]) /\ calls[k + 1] \in Ids \cup {NoId}
    BY <1>2, <2>1
  <2>3. o[k + 1] \in Seq(Ids)
    BY <2>1, <2>2 DEF OpenPair, HasId
  <2>4. ASSUME NEW i \in Ids
        PROVE  Times(o[k + 1], i) = Cardinality({j \in 1..(k + 1) : calls[j] = i})
    <3> DEFINE C == {j \in 1..k : calls[j] = i}
               D == {j \in 1..(k + 1) : calls[j] = i}
    <3>1. i # NoId
      BY NoIdIsNoId
    <3>2. IsFiniteSet(C)
      <4>1. IsFiniteSet(1..k)
        BY FS_Interval
      <4> QED
        BY <4>1, FS_Subset
    <3>3. Times(o[k + 1], i) = IF calls[k + 1] = i THEN Times(o[k], i) + 1 ELSE Times(o[k], i)
      BY <2>1, <2>2, <3>1, TimesAppended DEF OpenPair, HasId
    <3>4. D = IF calls[k + 1] = i THEN C \cup {k + 1} ELSE C
      OBVIOUS
    <3>5. k + 1 \notin C
      OBVIOUS
    <3>6. Times(o[k], i) = Cardinality(C)
      BY <2>1
    <3> HIDE DEF C, D
    <3>7. Cardinality(D) = IF calls[k + 1] = i THEN Cardinality(C) + 1 ELSE Cardinality(C)
      BY <3>2, <3>4, <3>5, FS_AddElement
    <3> QED
      BY <3>3, <3>6, <3>7 DEF D
  <2> QED
    BY <2>3, <2>4
<1>6. I = Nat
  <2>1. I \in SUBSET Nat /\ 0 \in I
    BY <1>4
  <2> HIDE DEF I
  <2> QED
    BY <1>5, <2>1, Loop!NatInductionOnSets
<1>7. Good(Len(calls))
  BY <1>3, <1>6
<1> QED
  BY <1>1, <1>3, <1>7 DEF Times

\* A list that extends a list that extends a list extends it.
LEMMA ExtendsTransitive ==
  ASSUME NEW a, NEW b, NEW c, Len(a) \in Nat, Len(b) \in Nat, Len(c) \in Nat,
         Extends(b, a), Extends(c, b)
  PROVE  Extends(c, a)
<1>1. Len(c) >= Len(b) /\ Len(b) >= Len(a)
  BY DEF Extends
<1>2. \A q \in 1..Len(a) : q \in 1..Len(b)
  BY <1>1
<1>3. \A q \in 1..Len(a) : c[q] = a[q]
  BY <1>2 DEF Extends
<1> QED
  BY <1>1, <1>3 DEF Extends

\* What the loop has after message m, if it had old before it.
Takes(old, m, new) ==
  /\ new \in Outs /\ Extends(new.repaired, old.repaired)
  /\ new.repaired[Len(new.repaired)] = m
  /\ m.kind = "tool" => /\ Len(new.repaired) = Len(old.repaired) + 1
                        /\ new.open = RemoveFirst(old.open, m.id)
  /\ m.kind # "tool" =>
       /\ Len(new.repaired) = Len(old.repaired) + Len(old.open) + 1
       /\ \A l \in 1..Len(old.open) :
            new.repaired[Len(old.repaired) + l] = _make_synthetic_tool_message(old.open[l])
       /\ new.open = IF m.kind = "ai" THEN FoldLeft(OpenPair, << >>, m.calls) ELSE << >>

\* One message further.
LEMMA RunStep ==
  ASSUME NEW messages \in Seq(Messages), NEW r, IsRun(r, messages),
         NEW j \in 0..Len(messages), NEW k \in 1..Len(messages), k = j + 1, r[j] \in Outs
  PROVE  Takes(r[j], messages[k], r[k])
<1> DEFINE m == messages[k]
           old == r[j]
           new == r[k]
           flushed == _flush_orphans(old)
<1>1. /\ m \in Messages /\ m.kind \in {"ai", "tool", "other"}
      /\ m.calls \in Seq(Ids \cup {NoId})
  <2>1. m \in Messages
    OBVIOUS
  <2> QED
    BY <2>1 DEF Messages
<1>2. new = OnMessage(old, m)
  <2>1. k - 1 = j
    OBVIOUS
  <2> QED
    BY <2>1 DEF IsRun, Loop!Runs
<1>3. old.repaired \in Seq(Messages) /\ old.open \in Seq(Ids) /\ Len(old.repaired) \in Nat
  BY DEF Outs
<1>4. CASE m.kind = "tool"
  <2>1. new = [repaired |-> Append(old.repaired, m), open |-> RemoveFirst(old.open, m.id)]
    BY <1>2, <1>4 DEF OnMessage, OnTool
  <2>2. RemoveFirst(old.open, m.id) \in Seq(Ids)
    BY <1>3, RemoveFirstKeeps
  <2> HIDE DEF m, old, new
  <2>3. /\ Append(old.repaired, m) \in Seq(Messages)
        /\ Len(Append(old.repaired, m)) = Len(old.repaired) + 1
        /\ Extends(Append(old.repaired, m), old.repaired)
        /\ Append(old.repaired, m)[Len(old.repaired) + 1] = m
    BY <1>1, <1>3, AppendFacts
  <2>4. new \in Outs
    BY <2>1, <2>2, <2>3 DEF Outs
  <2> QED
    BY <1>4, <2>1, <2>3, <2>4 DEF m, old, new, Takes
<1>5. CASE m.kind # "tool"
  <2> DEFINE opened == IF m.kind = "ai" THEN FoldLeft(OpenPair, << >>, m.calls) ELSE << >>
             rep == flushed.repaired
  <2>1. /\ flushed \in Outs /\ flushed.open = << >>
        /\ Len(rep) = Len(old.repaired) + Len(old.open)
        /\ Extends(rep, old.repaired)
        /\ \A l \in 1..Len(old.open) :
             rep[Len(old.repaired) + l] = _make_synthetic_tool_message(old.open[l])
    BY FlushFacts
  <2>2. new = [repaired |-> Append(rep, m), open |-> opened]
    <3>1. CASE m.kind = "ai"
      BY <3>1, <1>2, SMTT(30) DEF OnMessage, OnAi
    <3>2. CASE m.kind = "other"
      BY <3>2, <1>2, <2>1 DEF OnMessage, OnOther, _flush_orphans
    <3> QED
      BY <3>1, <3>2, <1>1, <1>5
  <2>3. opened \in Seq(Ids)
    <3>1. << >> \in Seq(Ids)
      BY EmptySeq, Zenon
    <3>2. FoldLeft(OpenPair, << >>, m.calls) \in Seq(Ids)
      <4> HIDE DEF m
      <4> QED
        BY <1>1, OpenedPairs
    <3> QED
      BY <3>1, <3>2, Zenon
  <2> HIDE DEF m, old, new, flushed
  <2>4. rep \in Seq(Messages) /\ Len(rep) \in Nat /\ Len(old.open) \in Nat
    <3>1. flushed \in Outs
      BY <2>1
    <3>2. flushed.repaired \in Seq(Messages)
      BY <3>1 DEF Outs
    <3>3. Len(old.open) \in Nat
      BY <1>3
    <3> QED
      BY <3>2, <3>3
  <2>5. /\ Append(rep, m) \in Seq(Messages)
        /\ Len(Append(rep, m)) = Len(rep) + 1
        /\ Extends(Append(rep, m), rep)
        /\ Append(rep, m)[Len(rep) + 1] = m
    <3> HIDE DEF rep
    <3> QED
      BY <1>1, <2>4, AppendFacts
  <2> HIDE DEF rep, opened
  <2>6. new \in Outs /\ new.repaired = Append(rep, m) /\ new.open = opened
    BY <2>2, <2>3, <2>5 DEF Outs
  <2>7. Extends(new.repaired, old.repaired)
    <3>1. Len(new.repaired) \in Nat
      BY <2>4, <2>5, <2>6
    <3> QED
      BY <1>3, <2>1, <2>4, <2>5, <2>6, <3>1, ExtendsTransitive
  <2>8. \A l \in 1..Len(old.open) :
          new.repaired[Len(old.repaired) + l] = _make_synthetic_tool_message(old.open[l])
    <3> SUFFICES ASSUME NEW l \in 1..Len(old.open)
                 PROVE  new.repaired[Len(old.repaired) + l]
                          = _make_synthetic_tool_message(old.open[l])
      OBVIOUS
    <3> DEFINE a == Len(old.repaired)
               b == Len(old.open)
    <3>1. a \in Nat /\ b \in Nat /\ l \in 1..b /\ Len(rep) = a + b
      BY <1>3, <2>1, <2>4
    <3> HIDE DEF a, b
    <3>2. a + l \in 1..Len(rep)
      BY <3>1
    <3>3. /\ rep[a + l] = _make_synthetic_tool_message(old.open[l])
          /\ new.repaired[a + l] = rep[a + l]
      BY <3>2, <2>1, <2>5, <2>6 DEF Extends, a
    <3> QED
      BY <3>3 DEF a
  <2> QED
    BY <1>5, <2>1, <2>5, <2>6, <2>7, <2>8 DEF m, old, new, opened, Takes
<1> QED
  BY <1>4, <1>5

\* Whatever the messages, the loop has a list and open ids in hand.
LEMMA RunTypes ==
  ASSUME NEW messages \in Seq(Messages), NEW r, IsRun(r, messages)
  PROVE  \A k \in 0..Len(messages) : r[k] \in Outs
<1> DEFINE H == {k \in 0..Len(messages) : r[k] \in Outs}
<1>1. Len(messages) \in Nat
  OBVIOUS
<1>2. r[0] \in Outs
  <2>1. << >> \in Seq(Ids) /\ << >> \in Seq(Messages)
    BY EmptySeq, Zenon
  <2>2. r[0] = [repaired |-> << >>, open |-> << >>]
    BY DEF IsRun, Loop!Runs, NothingYet
  <2> QED
    BY <2>1, <2>2 DEF Outs
<1>3. ASSUME NEW k \in 0..(Len(messages) - 1), k \in H
      PROVE  k + 1 \in H
  <2>1. k + 1 \in 1..Len(messages) /\ k \in 0..Len(messages) /\ r[k] \in Outs
    BY <1>3
  <2>2. r[k + 1] \in Outs
    BY <2>1, RunStep DEF Takes
  <2> QED
    BY <2>1, <2>2
<1>4. 0..Len(messages) \subseteq H
  <2>1. 0 \in H
    BY <1>1, <1>2
  <2> HIDE DEF H
  <2> QED
    BY <1>1, <1>3, <2>1, Loop!IntervalInduction
<1> QED
  BY <1>4

\* What has been repaired is never touched again.
LEMMA RunExtends ==
  ASSUME NEW messages \in Seq(Messages), NEW r, IsRun(r, messages),
         NEW j \in 0..Len(messages)
  PROVE  /\ \A k \in j..Len(messages) : Extends(r[k].repaired, r[j].repaired)
         /\ Extends(_flush_orphans(r[Len(messages)]).repaired, r[j].repaired)
<1>1. \A k \in 0..Len(messages) :
        /\ r[k] \in Outs /\ Len(r[k].repaired) \in Nat
  BY RunTypes DEF Outs
<1> DEFINE H == {k \in j..Len(messages) : Extends(r[k].repaired, r[j].repaired)}
<1>2. Len(messages) \in Nat /\ j \in Nat /\ j \in j..Len(messages)
  OBVIOUS
<1>3. j \in H
  BY <1>1, <1>2 DEF Extends
<1>4. ASSUME NEW k \in j..(Len(messages) - 1), k \in H
      PROVE  k + 1 \in H
  <2>1. /\ k + 1 \in 1..Len(messages) /\ k \in 0..Len(messages)
        /\ k + 1 \in j..Len(messages)
    BY <1>2
  <2>2. Extends(r[k + 1].repaired, r[k].repaired)
    BY <1>1, <2>1, RunStep DEF Takes
  <2>3. Extends(r[k].repaired, r[j].repaired)
    BY <1>4
  <2>4. Extends(r[k + 1].repaired, r[j].repaired)
    <3>1. /\ Len(r[k + 1].repaired) \in Nat /\ Len(r[k].repaired) \in Nat
          /\ Len(r[j].repaired) \in Nat
      BY <1>1, <2>1
    <3> QED
      BY <3>1, <2>2, <2>3, ExtendsTransitive
  <2> QED
    BY <2>1, <2>4
<1>5. \A k \in j..Len(messages) : Extends(r[k].repaired, r[j].repaired)
  <2>1. j..Len(messages) \subseteq H
    <3> HIDE DEF H
    <3> QED
      BY <1>2, <1>3, <1>4, Loop!IntervalInduction
  <2> QED
    BY <2>1
<1>6. Extends(_flush_orphans(r[Len(messages)]).repaired, r[j].repaired)
  <2> DEFINE n == Len(messages)
             sent == _flush_orphans(r[n]).repaired
  <2>1. n \in 0..n /\ n \in j..n
    OBVIOUS
  <2>2. sent \in Seq(Messages) /\ Extends(sent, r[n].repaired)
    BY <1>1, <2>1, FlushFacts DEF Outs
  <2>3. Extends(r[n].repaired, r[j].repaired)
    BY <1>5, <2>1
  <2>4. Len(sent) \in Nat
    BY <2>2
  <2> HIDE DEF sent
  <2> QED
    BY <1>1, <2>1, <2>2, <2>3, <2>4, SMTT(30) DEF Extends, sent
<1> QED
  BY <1>5, <1>6

-----------------------------------------------------------------------------
(* The block of a batch, before and after the repair *)

\* After p the messages up to k are answers.
Follows(log, p, k) == \A q \in (p + 1)..k : log[q].kind = "tool"

AnswersUpTo(log, p, k, i) == {q \in (p + 1)..k : log[q].id = i}

Missing(asked, had) == IF asked > had THEN asked - had ELSE 0

\* Answers can be counted.
LEMMA AnswersFinite ==
  ASSUME NEW log, NEW p \in Nat, NEW k \in Nat, NEW i
  PROVE  /\ IsFiniteSet(AnswersUpTo(log, p, k, i))
         /\ Cardinality(AnswersUpTo(log, p, k, i)) \in Nat
<1>1. IsFiniteSet((p + 1)..k)
  BY FS_Interval
<1>2. IsFiniteSet(AnswersUpTo(log, p, k, i))
  BY <1>1, FS_Subset DEF AnswersUpTo
<1> QED
  BY <1>2, FS_CardinalityType

\* A block ends somewhere, and it is all that is before its end.
LEMMA BlockEnds ==
  ASSUME NEW log \in Seq(Messages), NEW p \in 1..Len(log)
  PROVE  \E e \in p..Len(log) : /\ Follows(log, p, e)
                                /\ e < Len(log) => log[e + 1].kind # "tool"
<1> DEFINE E == {e \in p..Len(log) : e < Len(log) => log[e + 1].kind # "tool"}
<1>1. Len(log) \in Nat /\ p \in Nat
  OBVIOUS
<1>2. E \in SUBSET Nat /\ E # {}
  <2>1. Len(log) \in E
    BY <1>1
  <2> QED
    BY <2>1, <1>1
<1>3. Min(E) \in E /\ \A e \in E : Min(E) <= e
  <2> HIDE DEF E
  <2> QED
    BY <1>2, MinExists
<1> DEFINE m == Min(E)
<1>4. m \in p..Len(log) /\ (m < Len(log) => log[m + 1].kind # "tool")
  BY <1>3
<1>5. \A k \in p..(m - 1) : k \notin E
  BY <1>3, <1>4, <1>1
<1> HIDE DEF m
<1>6. ASSUME NEW k \in p..(m - 1)
      PROVE  log[k + 1].kind = "tool"
  <2>1. k \in p..Len(log) /\ k \notin E
    BY <1>5, <1>4, <1>1
  <2> QED
    BY <2>1
<1>7. ASSUME NEW q \in (p + 1)..m
      PROVE  log[q].kind = "tool"
  <2>1. q - 1 \in p..(m - 1) /\ (q - 1) + 1 = q
    BY <1>4, <1>1
  <2> QED
    BY <2>1, <1>6
<1> QED
  BY <1>4, <1>7 DEF Follows

LEMMA BlockIs ==
  ASSUME NEW log \in Seq(Messages), NEW p \in 1..Len(log), NEW e \in p..Len(log),
         Follows(log, p, e), e < Len(log) => log[e + 1].kind # "tool"
  PROVE  Block(log, p) = (p + 1)..e
<1>1. Len(log) \in Nat /\ p \in Nat /\ e \in Nat
  OBVIOUS
<1>2. ASSUME NEW q \in Block(log, p)
      PROVE  q \in (p + 1)..e
  <2>1. q \in (p + 1)..Len(log) /\ \A r \in (p + 1)..q : log[r].kind = "tool"
    BY DEF Block
  <2>2. ASSUME q > e
        PROVE  FALSE
    <3>1. e + 1 \in (p + 1)..q /\ e < Len(log)
      BY <2>1, <2>2, <1>1
    <3> QED
      BY <2>1, <3>1
  <2> QED
    BY <2>1, <2>2, <1>1
<1>3. ASSUME NEW q \in (p + 1)..e
      PROVE  q \in Block(log, p)
  <2>1. q \in (p + 1)..Len(log) /\ \A r \in (p + 1)..q : r \in (p + 1)..e
    BY <1>1
  <2> QED
    BY <2>1 DEF Follows, Block
<1> QED
  BY <1>2, <1>3

\* While the answers of a batch go by: they are copied one by one, and of each id
\* as many pairs are open as calls have not been answered yet.
LEMMA InsideBlock ==
  ASSUME NEW messages \in Seq(Messages), NEW r, IsRun(r, messages),
         NEW p \in 1..Len(messages), messages[p].kind = "ai"
  PROVE  \A k \in p..Len(messages) : Follows(messages, p, k) =>
           /\ Len(r[k].repaired) = Len(r[p].repaired) + (k - p)
           /\ \A i \in Ids : Times(r[k].open, i)
                = Missing(Times(messages[p].calls, i), Cardinality(AnswersUpTo(messages, p, k, i)))
<1> DEFINE n == Len(messages)
           asked(i) == Times(messages[p].calls, i)
           had(k, i) == Cardinality(AnswersUpTo(messages, p, k, i))
           Good(k) == /\ Len(r[k].repaired) = Len(r[p].repaired) + (k - p)
                      /\ \A i \in Ids : Times(r[k].open, i) = Missing(asked(i), had(k, i))
           H == {k \in p..n : Follows(messages, p, k) => Good(k)}
<1>1. n \in Nat /\ p \in Nat /\ p \in p..n
  OBVIOUS
<1>2. /\ messages[p] \in Messages /\ messages[p].calls \in Seq(Ids \cup {NoId})
      /\ \A i \in Ids : asked(i) \in Nat
  <2>1. messages[p] \in Messages
    OBVIOUS
  <2>2. messages[p].calls \in Seq(Ids \cup {NoId})
    BY <2>1 DEF Messages
  <2> QED
    BY <2>1, <2>2, TimesType
<1>3. \A k \in 0..n : r[k] \in Outs /\ Len(r[k].repaired) \in Nat /\ r[k].open \in Seq(Ids)
  BY RunTypes DEF Outs
<1>4. Good(p)
  <2>1. r[p].open = FoldLeft(OpenPair, << >>, messages[p].calls)
    <3>1. p - 1 \in 0..n /\ p = (p - 1) + 1
      BY <1>1
    <3>2. r[p - 1] \in Outs
      BY <1>3, <3>1
    <3> QED
      BY <3>1, <3>2, RunStep, ZenonT(40) DEF Takes
  <2>2. \A i \in Ids : Times(r[p].open, i) = asked(i)
    BY <2>1, <1>2, OpenedPairs
  <2>3. ASSUME NEW i \in Ids
        PROVE  had(p, i) = 0
    <3>1. AnswersUpTo(messages, p, p, i) = {}
      BY <1>1 DEF AnswersUpTo
    <3> QED
      BY <3>1, FS_EmptySet
  <2>4. \A i \in Ids : Missing(asked(i), 0) = asked(i)
    BY <1>2 DEF Missing
  <2>5. p \in 0..n
    BY <1>1
  <2>6. \A i \in Ids : Times(r[p].open, i) = Missing(asked(i), had(p, i))
    BY <2>2, <2>3, <2>4
  <2>7. Len(r[p].repaired) = Len(r[p].repaired) + (p - p)
    BY <2>5, <1>1, <1>3
  <2> QED
    BY <2>6, <2>7
<1>5. ASSUME NEW k \in p..(n - 1), k \in H
      PROVE  k + 1 \in H
  <2>0. k \in Nat /\ k \in p..n /\ k + 1 \in p..n
    BY <1>1
  <2> SUFFICES ASSUME Follows(messages, p, k + 1)
               PROVE  Good(k + 1)
    BY <2>0
  <2>1. /\ k \in Nat /\ k \in 0..n /\ k + 1 \in 1..n
        /\ k + 1 \in (p + 1)..(k + 1)
    BY <1>1
  <2>2. Follows(messages, p, k) /\ messages[k + 1].kind = "tool"
    BY <2>1, <1>1 DEF Follows
  <2>3. Good(k)
    BY <2>2, <1>5
  <2>4. /\ Len(r[k + 1].repaired) = Len(r[k].repaired) + 1
        /\ r[k + 1].open = RemoveFirst(r[k].open, messages[k + 1].id)
    <3>1. r[k] \in Outs
      BY <2>1, <1>3
    <3> QED
      BY <2>1, <2>2, <3>1, RunStep DEF Takes
  <2>5. Len(r[k + 1].repaired) = Len(r[p].repaired) + ((k + 1) - p)
    <3>1. /\ Len(r[p].repaired) \in Nat
          /\ Len(r[k].repaired) = Len(r[p].repaired) + (k - p)
      BY <1>1, <1>3, <2>3
    <3> DEFINE a == Len(r[p].repaired)
               b == Len(r[k].repaired)
    <3>2. Len(r[k + 1].repaired) = b + 1
      BY <2>4
    <3>3. a \in Nat /\ b = a + (k - p)
      BY <3>1
    <3> HIDE DEF a, b
    <3>4. b + 1 = a + ((k + 1) - p)
      BY <3>3, <2>1, <1>1
    <3> QED
      BY <3>2, <3>4 DEF a
  <2>6. ASSUME NEW i \in Ids
        PROVE  Times(r[k + 1].open, i) = Missing(asked(i), had(k + 1, i))
    <3> DEFINE A == AnswersUpTo(messages, p, k, i)
               B == AnswersUpTo(messages, p, k + 1, i)
               id == messages[k + 1].id
    <3>1. B = IF id = i THEN A \cup {k + 1} ELSE A
      BY <2>1, <1>1 DEF AnswersUpTo
    <3>2. k + 1 \notin A
      BY <2>1, <1>1 DEF AnswersUpTo
    <3>3. IsFiniteSet(A) /\ Cardinality(A) \in Nat
      BY <1>1, <2>1, AnswersFinite
    <3>4. Cardinality(B) = IF id = i THEN Cardinality(A) + 1 ELSE Cardinality(A)
      <4> HIDE DEF A, B
      <4> QED
        BY <3>1, <3>2, <3>3, FS_AddElement
    <3>5. Times(r[k].open, i) = Missing(asked(i), Cardinality(A))
      BY <2>3
    <3>6. r[k].open \in Seq(Ids)
      BY <2>1, <1>3
    <3>7. Times(r[k + 1].open, i) = IF id = i /\ id \in Range(r[k].open)
                                    THEN Times(r[k].open, i) - 1 ELSE Times(r[k].open, i)
      BY <2>4, <3>6, TimesRemoved
    <3>8. Times(r[k].open, i) = 0 <=> i \notin Range(r[k].open)
      BY <3>6, TimesType
    <3>9. asked(i) \in Nat
      BY <1>2
    <3> HIDE DEF A, B, id, asked
    <3>10. Times(r[k + 1].open, i) = Missing(asked(i), Cardinality(B))
      BY <3>3, <3>4, <3>5, <3>7, <3>8, <3>9 DEF Missing
    <3> QED
      BY <3>10 DEF B, asked
  <2> QED
    BY <2>5, <2>6
<1>6. p..n \subseteq H
  <2>1. p \in H
    BY <1>1, <1>4
  <2> HIDE DEF H, n
  <2> QED
    BY <1>1, <1>5, <2>1, Loop!IntervalInduction
<1> QED
  BY <1>6

\* Where the messages of a block go, and what comes after them.
LEMMA BlockCopied ==
  ASSUME NEW messages \in Seq(Messages), NEW r, IsRun(r, messages),
         NEW p \in 1..Len(messages), messages[p].kind = "ai",
         NEW e \in p..Len(messages), Follows(messages, p, e),
         NEW sent, sent = _flush_orphans(r[Len(messages)]).repaired
  PROVE  \A q \in p..e : /\ Len(r[q].repaired) = Len(r[p].repaired) + (q - p)
                         /\ Len(r[q].repaired) \in 1..Len(sent)
                         /\ sent[Len(r[q].repaired)] = messages[q]
<1> SUFFICES ASSUME NEW q \in p..e
             PROVE  /\ Len(r[q].repaired) = Len(r[p].repaired) + (q - p)
                    /\ Len(r[q].repaired) \in 1..Len(sent)
                    /\ sent[Len(r[q].repaired)] = messages[q]
  OBVIOUS
<1>1. /\ q \in 1..Len(messages) /\ q \in p..Len(messages) /\ q \in 0..Len(messages)
      /\ Len(messages) \in 0..Len(messages)
  OBVIOUS
<1>0. PICK j \in 0..Len(messages) : q = j + 1
  <2>1. q - 1 \in 0..Len(messages) /\ q = (q - 1) + 1
    OBVIOUS
  <2> QED
    BY <2>1
<1>2. Follows(messages, p, q)
  BY DEF Follows
<1>3. Len(r[q].repaired) = Len(r[p].repaired) + (q - p)
  BY <1>1, <1>2, InsideBlock
<1>4. r[q] \in Outs /\ r[j] \in Outs /\ r[Len(messages)] \in Outs
  BY <1>1, RunTypes
<1>5. /\ Extends(r[q].repaired, r[j].repaired)
      /\ r[q].repaired[Len(r[q].repaired)] = messages[q]
      /\ Len(r[q].repaired) > Len(r[j].repaired)
  <2>1. Len(r[j].repaired) \in Nat /\ Len(r[j].open) \in Nat
    BY <1>4, SMTT(30) DEF Outs
  <2>2. /\ Extends(r[q].repaired, r[j].repaired)
        /\ r[q].repaired[Len(r[q].repaired)] = messages[q]
        /\ \/ Len(r[q].repaired) = Len(r[j].repaired) + 1
           \/ Len(r[q].repaired) = Len(r[j].repaired) + Len(r[j].open) + 1
    <3>1. Takes(r[j], messages[q], r[q])
      BY <1>0, <1>1, <1>4, RunStep
    <3> QED
      BY <3>1 DEF Takes
  <2>3. Len(r[q].repaired) > Len(r[j].repaired)
    <3> DEFINE a == Len(r[q].repaired)
               d == Len(r[j].repaired)
               c == Len(r[j].open)
    <3>1. d \in Nat /\ c \in Nat /\ (a = d + 1 \/ a = d + c + 1)
      BY <2>1, <2>2
    <3> HIDE DEF a, d, c
    <3>2. a > d
      BY <3>1
    <3> QED
      BY <3>2 DEF a, d
  <2> QED
    BY <2>2, <2>3
<1>6. Extends(sent, r[q].repaired)
  BY <1>1, RunExtends
<1>7. Len(r[q].repaired) \in Nat /\ Len(r[j].repaired) \in Nat /\ Len(sent) \in Nat
  <2>1. Len(r[q].repaired) \in Nat /\ Len(r[j].repaired) \in Nat
    BY <1>4, SMTT(30) DEF Outs
  <2>2. sent \in Seq(Messages)
    <3>1. _flush_orphans(r[Len(messages)]) \in Outs
      BY <1>4, FlushFacts
    <3> QED
      BY <3>1 DEF Outs
  <2> QED
    BY <2>1, <2>2
<1>8. Len(r[q].repaired) \in 1..Len(r[q].repaired)
  BY <1>5, <1>7
<1>9. Len(r[q].repaired) \in 1..Len(sent)
  BY <1>6, <1>7, <1>8 DEF Extends
<1> QED
  BY <1>3, <1>5, <1>6, <1>8, <1>9 DEF Extends

\* The pairs that o has open are answered in sent, and then no answer follows.
ClosesPairs(sent, o) ==
  /\ Len(o.repaired) + Len(o.open) <= Len(sent)
  /\ \A l \in 1..Len(o.open) :
       sent[Len(o.repaired) + l] = _make_synthetic_tool_message(o.open[l])
  /\ Len(o.repaired) + Len(o.open) < Len(sent) =>
       sent[Len(o.repaired) + Len(o.open) + 1].kind # "tool"

\* What is still open at the end of a block is answered there.
LEMMA OrphansAnswered ==
  ASSUME NEW messages \in Seq(Messages), NEW r, IsRun(r, messages),
         NEW e \in 0..Len(messages), e < Len(messages) => messages[e + 1].kind # "tool",
         NEW sent, sent = _flush_orphans(r[Len(messages)]).repaired
  PROVE  ClosesPairs(sent, r[e])
<1> DEFINE b == Len(r[e].repaired)
           f == Len(r[e].open)
           n == Len(messages)
<1>1. n \in Nat /\ n \in 0..n
  OBVIOUS
<1>2. r[e] \in Outs /\ r[n] \in Outs
  BY <1>1, RunTypes
<1>3. b \in Nat /\ f \in Nat /\ sent \in Seq(Messages) /\ Len(sent) \in Nat
  <2>1. sent \in Seq(Messages)
    BY <1>2, FlushFacts DEF Outs
  <2>2. b \in Nat /\ f \in Nat
    BY <1>2 DEF Outs
  <2> QED
    BY <2>1, <2>2
<1> DEFINE Goal == /\ b + f <= Len(sent)
                   /\ \A l \in 1..f :
                        sent[b + l] = _make_synthetic_tool_message(r[e].open[l])
                   /\ b + f < Len(sent) => sent[b + f + 1].kind # "tool"
<1>4. ASSUME e = n PROVE Goal
  <2>1. /\ Len(sent) = b + f
        /\ \A l \in 1..f : sent[b + l] = _make_synthetic_tool_message(r[e].open[l])
    BY <1>4, <1>2, FlushFacts
  <2> HIDE DEF b, f
  <2>2. b + f <= Len(sent) /\ ~(b + f < Len(sent))
    BY <2>1, <1>3
  <2> QED
    BY <2>1, <2>2
<1>5. ASSUME e < n PROVE Goal
  <2>1. PICK k \in 1..n : k = e + 1
    BY <1>1, <1>5
  <2> DEFINE new == r[k].repaired
  <2>2. messages[k] \in Messages /\ messages[k].kind # "tool" /\ k \in 0..n
    BY <1>1, <1>5, <2>1
  <2>3. /\ Len(new) = b + f + 1
        /\ \A l \in 1..f : new[b + l] = _make_synthetic_tool_message(r[e].open[l])
        /\ new[Len(new)] = messages[k]
    <3>1. r[e] \in Outs /\ k \in 1..Len(messages) /\ k = e + 1
      BY <1>2, <2>1
    <3>2. Takes(r[e], messages[k], r[k])
      BY <3>1, RunStep
    <3> QED
      BY <2>2, <3>2 DEF Takes
  <2>4. Extends(sent, new)
    BY <2>2, RunExtends
  <2> HIDE DEF b, f, new, n
  <2>5. b + f + 1 \in 1..Len(new) /\ \A l \in 1..f : b + l \in 1..Len(new)
    BY <1>3, <2>3
  <2>6. Len(sent) >= Len(new) /\ \A q \in 1..Len(new) : sent[q] = new[q]
    BY <2>4 DEF Extends
  <2>7. b + f <= Len(sent)
    BY <1>3, <2>3, <2>6
  <2>8. sent[b + f + 1] = messages[k]
    BY <2>3, <2>5, <2>6
  <2>9. ASSUME NEW l \in 1..f
        PROVE  sent[b + l] = _make_synthetic_tool_message(r[e].open[l])
    <3>1. sent[b + l] = new[b + l]
      BY <2>5, <2>6
    <3> QED
      BY <3>1, <2>3
  <2> QED
    BY <2>2, <2>7, <2>8, <2>9
<1>6. Goal
  <2>1. e = n \/ e < n
    BY <1>1
  <2> HIDE DEF Goal, n
  <2> QED
    BY <1>4, <1>5, <2>1
<1> QED
  BY <1>6 DEF ClosesPairs

\* The block of a batch in what is sent: the answers it had, then the synthetic ones.
BlockRepaired(messages, sent, p, e, first, last) ==
  LET at == Len(first.repaired)
      b == Len(last.repaired)
      f == Len(last.open)
  IN  /\ at \in 1..Len(sent) /\ b = at + (e - p) /\ f \in Nat /\ b + f <= Len(sent)
      /\ \A q \in p..e : sent[at + (q - p)] = messages[q]
      /\ \A l \in 1..f : sent[b + l] = _make_synthetic_tool_message(last.open[l])
      /\ Follows(sent, at, b + f)
      /\ Block(sent, at) = (at + 1)..(b + f)

\* A block of the repaired list is the block of the argument and what was open behind it.
LEMMA RepairedBlock ==
  ASSUME NEW messages \in Seq(Messages), NEW r, IsRun(r, messages),
         NEW p \in 1..Len(messages), messages[p].kind = "ai",
         NEW e \in p..Len(messages), Follows(messages, p, e),
         e < Len(messages) => messages[e + 1].kind # "tool",
         NEW sent, sent = _flush_orphans(r[Len(messages)]).repaired
  PROVE  BlockRepaired(messages, sent, p, e, r[p], r[e])
<1> DEFINE at == Len(r[p].repaired)
           b == Len(r[e].repaired)
           f == Len(r[e].open)
<1>1. /\ p \in Nat /\ e \in Nat /\ p <= e /\ e \in 0..Len(messages)
      /\ p \in p..e /\ e \in p..e
  OBVIOUS
<1>2. \A q \in p..e : /\ Len(r[q].repaired) = at + (q - p)
                      /\ sent[Len(r[q].repaired)] = messages[q]
  BY BlockCopied
<1>3. at \in 1..Len(sent) /\ b = at + (e - p)
  BY <1>1, BlockCopied
<1>4. /\ b \in Nat /\ f \in Nat /\ sent \in Seq(Messages) /\ b + f <= Len(sent)
      /\ \A l \in 1..f : sent[b + l] = _make_synthetic_tool_message(r[e].open[l])
      /\ b + f < Len(sent) => sent[b + f + 1].kind # "tool"
  <2>1. r[Len(messages)] \in Outs /\ r[e] \in Outs
    <3>1. Len(messages) \in 0..Len(messages)
      OBVIOUS
    <3> QED
      BY <1>1, <3>1, RunTypes
  <2>2. b \in Nat /\ f \in Nat
    BY <2>1 DEF Outs
  <2>3. sent \in Seq(Messages)
    BY <2>1, FlushFacts DEF Outs
  <2>4. ClosesPairs(sent, r[e])
    BY <1>1, OrphansAnswered
  <2> QED
    BY <2>2, <2>3, <2>4 DEF ClosesPairs
<1>5. \A l \in 1..f : r[e].open[l] \in Ids
  <2>1. r[e] \in Outs
    BY <1>1, RunTypes
  <2> QED
    BY <2>1 DEF Outs
<1> HIDE DEF at, b, f
<1>6. \A q \in p..e : sent[at + (q - p)] = messages[q]
  BY <1>2
<1>7. ASSUME NEW q \in (at + 1)..(b + f)
      PROVE  sent[q].kind = "tool"
  <2>1. CASE q <= b
    <3>1. /\ p + (q - at) \in (p + 1)..e /\ p + (q - at) \in p..e
          /\ at + ((p + (q - at)) - p) = q
      BY <2>1, <1>1, <1>3, <1>4
    <3>2. sent[q] = messages[p + (q - at)]
      BY <3>1, <1>6
    <3> QED
      BY <3>1, <3>2 DEF Follows
  <2>2. CASE q > b
    <3>1. q - b \in 1..f /\ b + (q - b) = q
      BY <2>2, <1>4, <1>3
    <3>2. sent[q] = _make_synthetic_tool_message(r[e].open[q - b])
      BY <3>1, <1>4
    <3>3. r[e].open[q - b] \in Ids
      BY <3>1, <1>5
    <3>4. _make_synthetic_tool_message(r[e].open[q - b]).kind = "tool"
      BY <3>3, SyntheticMessage
    <3> QED
      BY <3>2, <3>4
  <2> QED
    BY <2>1, <2>2, <1>3, <1>4
<1>8. Follows(sent, at, b + f)
  BY <1>7 DEF Follows
<1>9. b + f \in at..Len(sent)
  BY <1>1, <1>3, <1>4
<1>10. Block(sent, at) = (at + 1)..(b + f)
  BY <1>3, <1>4, <1>8, <1>9, BlockIs
<1> QED
  BY <1>3, <1>4, <1>6, <1>8, <1>10 DEF at, b, f, BlockRepaired

\* G is F, moved from the c positions after a to those after b.
Shifted(F, G, a, b, c) ==
  /\ F \subseteq (a + 1)..(a + c) /\ G \subseteq (b + 1)..(b + c)
  /\ \A l \in 1..c : a + l \in F <=> b + l \in G

\* As many answers are found as were copied ...
LEMMA ShiftedPositions ==
  ASSUME NEW a \in Nat, NEW b \in Nat, NEW c \in Nat, NEW F, NEW G, Shifted(F, G, a, b, c)
  PROVE  IsFiniteSet(F) /\ IsFiniteSet(G) /\ Cardinality(F) = Cardinality(G)
<1> DEFINE f == [q \in F |-> b + (q - a)]
<1>0. /\ F \subseteq (a + 1)..(a + c) /\ G \subseteq (b + 1)..(b + c)
      /\ \A l \in 1..c : a + l \in F <=> b + l \in G
  BY DEF Shifted
<1>1. IsFiniteSet(F)
  <2>1. IsFiniteSet((a + 1)..(a + c))
    BY FS_Interval
  <2> QED
    BY <2>1, <1>0, FS_Subset
<1>2. ASSUME NEW q \in F
      PROVE  f[q] \in G
  <2>1. q - a \in 1..c /\ a + (q - a) = q
    BY <1>0
  <2> QED
    BY <2>1, <1>0
<1>3. f \in [F -> G]
  BY <1>2
<1>4. \A x, y \in F : f[x] = f[y] => x = y
  BY <1>0
<1>5. ASSUME NEW t \in G
      PROVE  \E x \in F : f[x] = t
  <2>1. t - b \in 1..c /\ b + (t - b) = t
    BY <1>0
  <2>2. a + (t - b) \in F /\ f[a + (t - b)] = t
    BY <2>1, <1>0
  <2> QED
    BY <2>2
<1> HIDE DEF f
<1> QED
  BY <1>1, <1>3, <1>4, <1>5, Renamed


AnswersTo(log, positions, i) == Cardinality({q \in positions : log[q].id = i})

\* A list that repeats c entries of another and then has those of a third has each
\* id as often as the two together.
CopyAndMore(sent, at, log, p, c, open, f) ==
  /\ DOMAIN open = 1..f
  /\ \A l \in 1..c : sent[at + l].id = log[p + l].id
  /\ \A l \in 1..f : sent[at + c + l].id = open[l]

\* ... and one more for each open id.
LEMMA CountAfterCopy ==
  ASSUME NEW p \in Nat, NEW c \in Nat, NEW at \in Nat, NEW f \in Nat,
         NEW log, NEW sent, NEW open, NEW i, CopyAndMore(sent, at, log, p, c, open, f)
  PROVE  /\ AnswersTo(sent, (at + 1)..(at + c + f), i)
              = AnswersTo(log, (p + 1)..(p + c), i) + Times(open, i)
         /\ AnswersTo(log, (p + 1)..(p + c), i) \in Nat
<1> DEFINE B == {q \in (p + 1)..(p + c) : log[q].id = i}
           K == {q \in (at + 1)..(at + c + f) : sent[q].id = i}
           A == {q \in (at + 1)..(at + c) : sent[q].id = i}
           S == {q \in (at + c + 1)..(at + c + f) : sent[q].id = i}
           O == {l \in 1..f : open[l] = i}
<1>1. /\ IsFiniteSet(A) /\ IsFiniteSet(B) /\ Cardinality(A) = Cardinality(B)
  <2>1. B \subseteq (p + 1)..(p + c) /\ A \subseteq (at + 1)..(at + c)
    OBVIOUS
  <2>2. \A l \in 1..c : p + l \in B <=> at + l \in A
    BY DEF CopyAndMore
  <2>3. Shifted(B, A, p, at, c)
    BY <2>1, <2>2 DEF Shifted
  <2> HIDE DEF A, B
  <2> QED
    BY <2>3, ShiftedPositions
<1>2. /\ IsFiniteSet(S) /\ IsFiniteSet(O) /\ Cardinality(S) = Cardinality(O)
  <2>1. at + c \in Nat /\ 0 \in Nat
    OBVIOUS
  <2>2. Shifted(O, S, 0, at + c, f)
    BY DEF Shifted, CopyAndMore
  <2> HIDE DEF S, O
  <2> QED
    BY <2>1, <2>2, ShiftedPositions
<1>3. K = A \cup S /\ A \cap S = {}
  OBVIOUS
<1>4. Times(open, i) = Cardinality(O)
  BY DEF Times, CopyAndMore
<1> HIDE DEF A, B, S, O, K
<1>5. IsFiniteSet(A \cap S) /\ Cardinality(A \cap S) = 0
  BY <1>3, FS_EmptySet
<1>6. Cardinality(A \cup S) = Cardinality(A) + Cardinality(S) - Cardinality(A \cap S)
  BY <1>1, <1>2, FS_Union
<1>7. Cardinality(A) \in Nat /\ Cardinality(S) \in Nat
  BY <1>1, <1>2, FS_CardinalityType
<1>8. /\ Cardinality(K) = Cardinality(B) + Times(open, i)
      /\ Cardinality(B) \in Nat /\ Times(open, i) \in Nat
  BY <1>1, <1>2, <1>3, <1>4, <1>5, <1>6, <1>7
<1> QED
  BY <1>8 DEF K, B, AnswersTo

\* Answers to one id in the block of a batch after the repair.
LEMMA CountRepaired ==
  ASSUME NEW messages, NEW sent \in Seq(Messages), NEW p \in Nat, NEW e \in Nat, p <= e, NEW i \in Ids,
         NEW first, NEW last \in Outs, BlockRepaired(messages, sent, p, e, first, last)
  PROVE  /\ AnswersTo(sent, Block(sent, Len(first.repaired)), i)
              = AnswersTo(messages, (p + 1)..e, i) + Times(last.open, i)
         /\ AnswersTo(messages, (p + 1)..e, i) \in Nat
<1>1. PICK at, b, c, f, open : /\ at = Len(first.repaired) /\ b = Len(last.repaired)
                               /\ open = last.open /\ f = Len(last.open) /\ c = e - p
  OBVIOUS
<1>2. /\ at \in 1..Len(sent) /\ Len(sent) \in Nat /\ b = at + c
      /\ \A q \in p..e : sent[at + (q - p)] = messages[q]
      /\ \A l \in 1..f : sent[at + c + l] = _make_synthetic_tool_message(open[l])
      /\ Block(sent, at) = (at + 1)..(at + c + f)
  <2>1. /\ at \in 1..Len(sent) /\ b = at + (e - p)
        /\ \A q \in p..e : sent[at + (q - p)] = messages[q]
        /\ \A l \in 1..f : sent[b + l] = _make_synthetic_tool_message(last.open[l])
        /\ Block(sent, at) = (at + 1)..(b + f)
    BY <1>1, Zenon DEF BlockRepaired
  <2>2. b = at + c
    BY <1>1, <2>1
  <2> QED
    BY <1>1, <2>1, <2>2
<1>3. open \in Seq(Ids)
  BY <1>1 DEF Outs
<1>4. f \in Nat /\ DOMAIN open = 1..f /\ c \in Nat /\ at \in Nat /\ p + c = e
  BY <1>1, <1>2, <1>3
<1>5. ASSUME NEW l \in 1..f
      PROVE  sent[at + c + l].id = open[l]
  <2>1. open[l] \in Ids
    BY <1>3, <1>4
  <2> QED
    BY <2>1, <1>2, SyntheticMessage
<1>6. ASSUME NEW l \in 1..c
      PROVE  sent[at + l].id = messages[p + l].id
  <2>1. p + l \in p..e /\ (p + l) - p = l
    BY <1>4
  <2> QED
    BY <2>1, <1>2
<1>7. CopyAndMore(sent, at, messages, p, c, open, f)
  BY <1>4, <1>5, <1>6 DEF CopyAndMore
<1>8. /\ AnswersTo(sent, (at + 1)..(at + c + f), i)
           = AnswersTo(messages, (p + 1)..(p + c), i) + Times(open, i)
      /\ AnswersTo(messages, (p + 1)..(p + c), i) \in Nat
  BY <1>4, <1>7, CountAfterCopy
<1> QED
  BY <1>1, <1>2, <1>4, <1>8

\* Of each id the block of a batch ends up with as many answers as it had or as the
\* batch has calls, whichever is more.
LEMMA RunAnswers ==
  ASSUME NEW messages \in Seq(Messages), NEW r, IsRun(r, messages),
         NEW p \in 1..Len(messages), messages[p].kind = "ai", NEW i \in Ids,
         NEW sent, sent = _flush_orphans(r[Len(messages)]).repaired
  PROVE  LET asked == Times(messages[p].calls, i)
             had == AnswersTo(messages, Block(messages, p), i)
         IN  AnswersTo(sent, Block(sent, Len(r[p].repaired)), i)
               = IF asked > had THEN asked ELSE had
<1>1. PICK e \in p..Len(messages) :
        Follows(messages, p, e) /\ (e < Len(messages) => messages[e + 1].kind # "tool")
  BY BlockEnds
<1>2. BlockRepaired(messages, sent, p, e, r[p], r[e])
  BY <1>1, RepairedBlock
<1>3. e \in 0..Len(messages) /\ p \in Nat /\ e \in Nat /\ p <= e
  OBVIOUS
<1>4. r[e] \in Outs
  BY <1>3, RunTypes
<1> DEFINE asked == Times(messages[p].calls, i)
           had == AnswersTo(messages, (p + 1)..e, i)
           has == AnswersTo(sent, Block(sent, Len(r[p].repaired)), i)
<1>5. has = had + Times(r[e].open, i) /\ had \in Nat
  <2>1. r[Len(messages)] \in Outs
    <3>1. Len(messages) \in 0..Len(messages)
      OBVIOUS
    <3> QED
      BY <3>1, RunTypes
  <2>2. sent \in Seq(Messages)
    BY <2>1, FlushFacts DEF Outs
  <2> QED
    BY <1>2, <1>3, <1>4, <2>2, CountRepaired
<1>6. asked \in Nat
  <2>1. messages[p] \in Messages
    OBVIOUS
  <2>2. messages[p].calls \in Seq(Ids \cup {NoId})
    BY <2>1 DEF Messages
  <2> QED
    BY <2>2, TimesType
<1>7. Times(r[e].open, i) = Missing(asked, had)
  BY <1>1, InsideBlock DEF AnswersUpTo, AnswersTo
<1>8. Block(messages, p) = (p + 1)..e
  BY <1>1, BlockIs
<1> HIDE DEF asked, had, has
<1>9. has = IF asked > had THEN asked ELSE had
  BY <1>5, <1>6, <1>7 DEF Missing
<1> QED
  BY <1>8, <1>9 DEF asked, had, has

\* The message itself always comes last.
LEMMA OnMessageAppends ==
  ASSUME NEW o \in Outs, NEW m \in Messages
  PROVE  /\ m.kind \in {"ai", "tool", "other"} /\ m.calls \in Seq(Ids \cup {NoId})
         /\ OnMessage(o, m).repaired =
              Append(IF m.kind = "tool" THEN o.repaired ELSE _flush_orphans(o).repaired, m)
         /\ OnMessage(o, m).open =
              CASE m.kind = "ai" -> FoldLeft(OpenPair, << >>, m.calls)
                [] m.kind = "tool" -> RemoveFirst(o.open, m.id)
                [] m.kind = "other" -> << >>
<1>1. m.kind \in {"ai", "tool", "other"} /\ m.calls \in Seq(Ids \cup {NoId})
  BY DEF Messages
<1>2. CASE m.kind = "ai"
  BY <1>1, <1>2 DEF OnMessage, OnAi
<1>3. CASE m.kind = "tool"
  BY <1>1, <1>3 DEF OnMessage, OnTool
<1>4. CASE m.kind = "other"
  BY <1>1, <1>4 DEF OnMessage, OnOther, _flush_orphans
<1> QED
  BY <1>1, <1>2, <1>3, <1>4

\* The r-th list keeps the first k messages, each where the loop put it.
KeptUpTo(messages, r, k) ==
  \E where \in Seq(Nat) : /\ Kept(messages, r[k].repaired, where, k)
                          /\ \A j \in 1..k : where[j] = Len(r[j].repaired)

\* The messages of the argument are all in the list, in their order ...
LEMMA RunKeeps ==
  ASSUME NEW messages \in Seq(Messages), NEW r, IsRun(r, messages)
  PROVE  \A k \in 0..Len(messages) : KeptUpTo(messages, r, k)
<1> DEFINE H == {k \in 0..Len(messages) : KeptUpTo(messages, r, k)}
<1>1. \A k \in 0..Len(messages) : r[k] \in Outs
  BY RunTypes
<1>2. 0 \in H
  <2>1. r[0].repaired = << >>
    BY DEF IsRun, Loop!Runs, NothingYet
  <2>2. << >> \in Seq(Nat) /\ Kept(messages, r[0].repaired, << >>, 0)
    BY <2>1 DEF Kept
  <2>3. \A j \in 1..0 : << >>[j] = Len(r[j].repaired)
    OBVIOUS
  <2>4. KeptUpTo(messages, r, 0)
    BY <2>2, <2>3 DEF KeptUpTo
  <2> QED
    BY <2>4
<1>3. ASSUME NEW k \in 0..(Len(messages) - 1), k \in H
      PROVE  k + 1 \in H
  <2>1. PICK n \in 1..Len(messages) : n = k + 1
    OBVIOUS
  <2>2. k \in 0..Len(messages) /\ k \in Nat /\ n - 1 = k /\ n \in 0..Len(messages)
    BY <2>1
  <2>3. PICK where \in Seq(Nat) : /\ Kept(messages, r[k].repaired, where, k)
                                  /\ \A j \in 1..k : where[j] = Len(r[j].repaired)
    BY <1>3 DEF KeptUpTo
  <2> DEFINE m == messages[n]
             rep == IF m.kind = "tool" THEN r[k].repaired ELSE _flush_orphans(r[k]).repaired
             longer == Append(where, Len(rep) + 1)
  <2>4. m \in Messages
    OBVIOUS
  <2>5. r[n].repaired = Append(rep, m)
    <3>1. r[n] = OnMessage(r[k], m)
      BY <2>2 DEF IsRun, Loop!Runs
    <3>2. r[k] \in Outs
      BY <1>1, <2>2
    <3> QED
      BY <2>4, <3>1, <3>2, OnMessageAppends, ZenonT(40)
  <2>6. rep \in Seq(Messages) /\ Kept(messages, rep, where, k)
    <3>1. r[k] \in Outs
      BY <1>1, <2>2
    <3>2. CASE m.kind = "tool"
      BY <2>3, <3>1, <3>2 DEF Outs
    <3>3. CASE m.kind # "tool"
      <4>1. _flush_orphans(r[k]) \in Outs
        BY <3>1, FlushFacts
      <4>2. Kept(messages, _flush_orphans(r[k]).repaired, where, k)
        BY <2>2, <2>3, <3>1, FlushKeeps
      <4> QED
        BY <3>3, <4>1, <4>2 DEF Outs
    <3> QED
      BY <3>2, <3>3
  <2> HIDE DEF m, rep
  <2>7. Kept(messages, Append(rep, m), longer, n)
    <3>1. k + 1 \in 1..Len(messages) /\ m = messages[k + 1]
      BY <2>1 DEF m
    <3> QED
      BY <2>1, <2>2, <2>6, <3>1, AppendKeeps
  <2>8. /\ Len(rep) \in Nat /\ Len(r[n].repaired) = Len(rep) + 1
        /\ longer \in Seq(Nat) /\ Len(where) = k
        /\ \A j \in 1..k : longer[j] = where[j]
        /\ longer[n] = Len(rep) + 1
    <3>1. Len(rep) \in Nat /\ Len(where) = k
      BY <2>3, <2>6 DEF Kept
    <3>2. Len(r[n].repaired) = Len(rep) + 1
      BY <2>4, <2>5, <2>6, AppendFacts
    <3>3. Len(rep) + 1 \in Nat
      BY <3>1
    <3> QED
      BY <2>1, <3>1, <3>2, <3>3, AppendProperties
  <2> HIDE DEF longer
  <2>9. \A j \in 1..n : longer[j] = Len(r[j].repaired)
    <3>1. \A j \in 1..n : j \in 1..k \/ j = n
      BY <2>1, <2>2
    <3> QED
      BY <2>3, <2>8, <3>1
  <2>10. KeptUpTo(messages, r, n)
    BY <2>5, <2>7, <2>8, <2>9 DEF KeptUpTo
  <2> QED
    BY <2>1, <2>2, <2>10
<1>4. 0..Len(messages) \subseteq H
  <2>1. Len(messages) \in Nat
    OBVIOUS
  <2> HIDE DEF H
  <2> QED
    BY <1>2, <1>3, <2>1, Loop!IntervalInduction
<1> QED
  BY <1>4

\* All messages are in sent, in their order; the rest of it is synthetic.
Placed(messages, sent, r) ==
  /\ \A k \in 1..Len(messages) : /\ Len(r[k].repaired) \in 1..Len(sent)
                                 /\ sent[Len(r[k].repaired)] = messages[k]
  /\ \A j, k \in 1..Len(messages) : j < k => Len(r[j].repaired) < Len(r[k].repaired)
  /\ \A q \in 1..Len(sent) :
       sent[q].synthetic \/ \E k \in 1..Len(messages) : Len(r[k].repaired) = q

\* ... also when the rest has been flushed.
LEMMA SentKeeps ==
  ASSUME NEW messages \in Seq(Messages), NEW r, IsRun(r, messages),
         NEW sent, sent = _flush_orphans(r[Len(messages)]).repaired
  PROVE  sent \in Seq(Messages) /\ Placed(messages, sent, r)
<1>1. Len(messages) \in Nat /\ Len(messages) \in 0..Len(messages)
  OBVIOUS
<1>2. r[Len(messages)] \in Outs
  BY <1>1, RunTypes
<1>3. PICK where \in Seq(Nat) :
        /\ Kept(messages, r[Len(messages)].repaired, where, Len(messages))
        /\ \A j \in 1..Len(messages) : where[j] = Len(r[j].repaired)
  BY <1>1, RunKeeps DEF KeptUpTo
<1>4. Kept(messages, sent, where, Len(messages))
  BY <1>1, <1>2, <1>3, FlushKeeps
<1>5. Placed(messages, sent, r)
  <2> DEFINE n == Len(messages)
  <2>1. \A k \in 1..n : where[k] = Len(r[k].repaired)
    BY <1>3
  <2>2. \A k \in 1..n : where[k] \in 1..Len(sent) /\ sent[where[k]] = messages[k]
    BY <1>4 DEF Kept
  <2>3. \A j, k \in 1..n : j < k => where[j] < where[k]
    BY <1>4 DEF Kept
  <2>4. \A q \in 1..Len(sent) : sent[q].synthetic \/ \E k \in 1..n : where[k] = q
    BY <1>4 DEF Kept
  <2> HIDE DEF n
  <2>5. \A k \in 1..n : /\ Len(r[k].repaired) \in 1..Len(sent)
                         /\ sent[Len(r[k].repaired)] = messages[k]
    BY <2>1, <2>2, Zenon
  <2>6. \A j, k \in 1..n : j < k => Len(r[j].repaired) < Len(r[k].repaired)
    BY <2>1, <2>3, Zenon
  <2>7. \A q \in 1..Len(sent) :
          sent[q].synthetic \/ \E k \in 1..n : Len(r[k].repaired) = q
    <3> SUFFICES ASSUME NEW q \in 1..Len(sent), ~sent[q].synthetic
                 PROVE  \E k \in 1..n : Len(r[k].repaired) = q
      OBVIOUS
    <3>1. PICK k \in 1..n : where[k] = q
      BY <2>4
    <3> QED
      BY <2>1, <3>1, Zenon
  <2> QED
    BY <2>5, <2>6, <2>7, Zenon DEF Placed, n
<1> QED
  BY <1>2, <1>5, FlushFacts DEF Outs

\* The pairs a batch opens are those of the ids it has.
LEMMA OpensItsIds ==
  ASSUME NEW calls \in Seq(Ids \cup {NoId})
  PROVE  LET open == FoldLeft(OpenPair, << >>, calls)
         IN  /\ open \in Seq(Ids) /\ Range(open) \subseteq Range(calls)
             /\ \A k \in DOMAIN calls : HasId(calls[k]) => calls[k] \in Range(open)
<1> DEFINE open == FoldLeft(OpenPair, << >>, calls)
<1>1. open \in Seq(Ids) /\ \A i \in Ids : Times(open, i) = Times(calls, i)
  BY OpenedPairs
<1> HIDE DEF open
<1>2. \A i \in Ids : i \in Range(open) <=> i \in Range(calls)
  BY <1>1, TimesType
<1>3. Range(open) \subseteq Ids
  BY <1>1 DEF Range
<1>4. \A k \in DOMAIN calls : HasId(calls[k]) => calls[k] \in Ids /\ calls[k] \in Range(calls)
  BY DEF HasId, Range
<1> QED
  BY <1>1, <1>2, <1>3, <1>4 DEF open

\* Every prefix of the loop: what is answered, what is open, what is synthetic.
Sound(o) ==
  Paired(o.repaired, o.open) /\ Asked(o.repaired, o.open) /\ Synthetics(o.repaired)

\* A synthetic answer stands in the block of a batch that has its id.
LEMMA StepSound ==
  ASSUME NEW o \in Outs, Sound(o), NEW m \in Messages, ~m.synthetic
  PROVE  Sound(OnMessage(o, m))
<1>1. /\ m.kind \in {"ai", "tool", "other"} /\ m.calls \in Seq(Ids \cup {NoId})
  BY OnMessageAppends
<1> DEFINE flushed == _flush_orphans(o).repaired
<1>2. flushed \in Seq(Messages) /\ WellPaired(flushed) /\ Synthetics(flushed)
  BY FlushFacts, FlushPairs, FlushAnswersCalls DEF Outs, Sound
<1>3. CASE m.kind = "ai"
  <2> DEFINE open == FoldLeft(OpenPair, << >>, m.calls)
  <2>1. OnMessage(o, m).repaired = Append(flushed, m) /\ OnMessage(o, m).open = open
    BY <1>3 DEF OnMessage, OnAi
  <2>2. /\ open \in Seq(Ids) /\ Range(open) \subseteq Range(m.calls)
        /\ \A k \in DOMAIN m.calls : HasId(m.calls[k]) => m.calls[k] \in Range(open)
    BY <1>1, OpensItsIds
  <2> HIDE DEF open, flushed
  <2>3. Paired(Append(flushed, m), open) /\ Asked(Append(flushed, m), open)
    BY <1>2, <1>3, <2>2, AppendAi
  <2> QED
    BY <1>2, <2>1, <2>3, AppendSynthetics DEF Sound
<1>4. CASE m.kind = "tool"
  <2>1. OnMessage(o, m) = OnTool(o, m)
    BY <1>4 DEF OnMessage
  <2>2. /\ Paired(OnTool(o, m).repaired, OnTool(o, m).open)
        /\ Asked(OnTool(o, m).repaired, OnTool(o, m).open)
    BY <1>4, AppendAnswer DEF Sound
  <2>3. Synthetics(OnTool(o, m).repaired)
    BY AppendSynthetics DEF OnTool, Sound, Outs
  <2> QED
    BY <2>1, <2>2, <2>3 DEF Sound
<1>5. CASE m.kind = "other"
  <2>1. OnMessage(o, m).repaired = Append(flushed, m) /\ OnMessage(o, m).open = << >>
    BY <1>5 DEF OnMessage, OnOther, _flush_orphans
  <2> HIDE DEF flushed
  <2>2. WellPaired(Append(flushed, m)) /\ Synthetics(Append(flushed, m))
    BY <1>2, <1>5, AppendOther, AppendSynthetics
  <2>3. Paired(Append(flushed, m), << >>)
    BY <2>2 DEF WellPaired, Paired
  <2>4. Asked(Append(flushed, m), << >>)
    BY DEF Asked, Range
  <2> QED
    BY <2>1, <2>2, <2>3, <2>4 DEF Sound
<1> QED
  BY <1>1, <1>3, <1>4, <1>5

LEMMA RunSound ==
  ASSUME NEW messages \in Seq(Messages), NEW r, IsRun(r, messages),
         \A k \in 1..Len(messages) : ~messages[k].synthetic
  PROVE  \A k \in 0..Len(messages) : Sound(r[k])
<1> DEFINE H == {k \in 0..Len(messages) : Sound(r[k])}
<1>1. 0 \in H
  <2>1. r[0].repaired = << >> /\ r[0].open = << >>
    BY DEF IsRun, Loop!Runs, NothingYet
  <2>2. Sound(r[0])
    BY <2>1 DEF Sound, Paired, Asked, Synthetics, Range
  <2> QED
    BY <2>2
<1>2. ASSUME NEW k \in 0..(Len(messages) - 1), k \in H
      PROVE  k + 1 \in H
  <2>1. PICK n \in 1..Len(messages) : n = k + 1
    OBVIOUS
  <2>2. k \in 0..Len(messages) /\ n - 1 = k /\ n \in 0..Len(messages)
    BY <2>1
  <2>3. r[n] = OnMessage(r[k], messages[n])
    BY <2>2 DEF IsRun, Loop!Runs
  <2>4. r[k] \in Outs /\ messages[n] \in Messages
    BY <2>2, RunTypes
  <2>5. Sound(r[n])
    BY <1>2, <2>3, <2>4, StepSound
  <2> QED
    BY <2>1, <2>2, <2>5
<1>3. 0..Len(messages) \subseteq H
  <2>1. Len(messages) \in Nat
    OBVIOUS
  <2> HIDE DEF H
  <2> QED
    BY <1>1, <1>2, <2>1, Loop!IntervalInduction
<1> QED
  BY <1>3

\* What is sent: each call is answered, each synthetic answer has a call.
LEMMA SentSound ==
  ASSUME NEW messages \in Seq(Messages), NEW r, IsRun(r, messages),
         \A k \in 1..Len(messages) : ~messages[k].synthetic,
         NEW sent, sent = _flush_orphans(r[Len(messages)]).repaired
  PROVE  WellPaired(sent) /\ Synthetics(sent)
<1>1. Len(messages) \in 0..Len(messages)
  OBVIOUS
<1>2. r[Len(messages)] \in Outs /\ Sound(r[Len(messages)])
  BY <1>1, RunTypes, RunSound
<1> QED
  BY <1>2, FlushPairs, FlushAnswersCalls DEF Sound

-----------------------------------------------------------------------------
(* A list in which each batch has its answers is left alone *)

Satisfied(messages) ==
  \A p \in 1..Len(messages) : messages[p].kind = "ai" =>
    \A i \in Ids :
      Times(messages[p].calls, i) <= AnswersTo(messages, Block(messages, p), i)

\* Where every id has as many answers as calls, none is open when its block ends,
LEMMA NothingMissing ==
  ASSUME NEW messages \in Seq(Messages), NEW r, IsRun(r, messages), Satisfied(messages),
         NEW p \in 1..Len(messages), messages[p].kind = "ai",
         NEW e \in p..Len(messages), Follows(messages, p, e),
         e < Len(messages) => messages[e + 1].kind # "tool", NEW i \in Ids
  PROVE  i \notin Range(r[e].open)
<1> DEFINE asked == Times(messages[p].calls, i)
           had == AnswersTo(messages, Block(messages, p), i)
<1>1. e \in 0..Len(messages) /\ p \in Nat /\ e \in Nat
  OBVIOUS
<1>2. had = Cardinality(AnswersUpTo(messages, p, e, i)) /\ had \in Nat
  <2>1. Block(messages, p) = (p + 1)..e
    BY BlockIs
  <2>2. had = Cardinality(AnswersUpTo(messages, p, e, i))
    BY <2>1 DEF AnswersTo, AnswersUpTo
  <2> QED
    BY <1>1, <2>2, AnswersFinite
<1>3. asked \in Nat
  <2>1. messages[p] \in Messages
    OBVIOUS
  <2>2. messages[p].calls \in Seq(Ids \cup {NoId})
    BY <2>1 DEF Messages
  <2> QED
    BY <2>2, TimesType
<1>4. asked <= had
  BY DEF Satisfied
<1>5. Times(r[e].open, i) = Missing(asked, had)
  <2>1. Times(r[e].open, i) = Missing(asked, Cardinality(AnswersUpTo(messages, p, e, i)))
    BY InsideBlock
  <2> QED
    BY <1>2, <2>1
<1> HIDE DEF asked, had
<1>6. Times(r[e].open, i) = 0
  BY <1>2, <1>3, <1>4, <1>5 DEF Missing
<1>7. r[e].open \in Seq(Ids)
  BY <1>1, RunTypes DEF Outs
<1> QED
  BY <1>6, <1>7, TimesType

\* The loop has copied the first k messages; what is open belongs to the batch
\* whose block it is in.
CopiedUpTo(messages, o, k) ==
  /\ Len(o.repaired) = k /\ \A q \in 1..k : o.repaired[q] = messages[q]
  /\ \A i \in Range(o.open) : \E p \in 1..k :
       messages[p].kind = "ai" /\ Follows(messages, p, k)

\* so that nothing is,
LEMMA NothingOpen ==
  ASSUME NEW messages \in Seq(Messages), NEW r, IsRun(r, messages), Satisfied(messages),
         NEW k \in 0..Len(messages), CopiedUpTo(messages, r[k], k),
         k < Len(messages) => messages[k + 1].kind # "tool"
  PROVE  Len(r[k].open) = 0
<1>1. r[k].open \in Seq(Ids)
  BY RunTypes DEF Outs
<1> SUFFICES ASSUME Len(r[k].open) # 0
             PROVE  FALSE
  OBVIOUS
<1>2. PICK i \in Ids : i \in Range(r[k].open)
  <2>1. 1 \in DOMAIN r[k].open
    BY <1>1
  <2> QED
    BY <1>1, <2>1 DEF Range
<1>3. PICK p \in 1..k : messages[p].kind = "ai" /\ Follows(messages, p, k)
  BY <1>2 DEF CopiedUpTo
<1>4. p \in 1..Len(messages) /\ k \in p..Len(messages)
  OBVIOUS
<1> QED
  BY <1>2, <1>3, <1>4, NothingMissing

\* and the list in hand is a copy of what was read of the argument.
LEMMA CopiesOne ==
  ASSUME NEW messages \in Seq(Messages), NEW r, IsRun(r, messages), Satisfied(messages),
         NEW k \in 0..Len(messages), NEW n \in 1..Len(messages), n = k + 1,
         CopiedUpTo(messages, r[k], k)
  PROVE  CopiedUpTo(messages, r[n], n)
<1> DEFINE m == messages[n]
           old == r[k]
           new == r[n]
<1>1. old \in Outs /\ new \in Outs
  <2>1. n \in 0..Len(messages)
    OBVIOUS
  <2> QED
    BY <2>1, RunTypes
<1>2. Takes(old, m, new)
  BY <1>1, RunStep
<1>3. Len(old.repaired) = k /\ \A q \in 1..k : old.repaired[q] = messages[q]
  BY DEF CopiedUpTo
<1>4. Len(new.repaired) = n
  <2>1. CASE m.kind = "tool"
    BY <1>2, <1>3, <2>1 DEF Takes
  <2>2. CASE m.kind # "tool"
    <3>1. Len(old.open) = 0
      BY <2>2, NothingOpen
    <3> QED
      BY <1>2, <1>3, <2>2, <3>1 DEF Takes
  <2> QED
    BY <2>1, <2>2
<1>5. \A q \in 1..n : new.repaired[q] = messages[q]
  <2>1. Extends(new.repaired, old.repaired) /\ new.repaired[Len(new.repaired)] = m
    BY <1>2 DEF Takes
  <2>2. \A q \in 1..k : new.repaired[q] = messages[q]
    BY <1>3, <2>1 DEF Extends
  <2>3. \A q \in 1..n : q \in 1..k \/ q = n
    OBVIOUS
  <2> QED
    BY <1>4, <2>1, <2>2, <2>3
<1>6. ASSUME NEW i \in Range(new.open)
      PROVE  \E p \in 1..n : messages[p].kind = "ai" /\ Follows(messages, p, n)
  <2>1. CASE m.kind = "tool"
    <3>1. new.open = RemoveFirst(old.open, m.id) /\ old.open \in Seq(Ids)
      BY <1>1, <1>2, <2>1 DEF Takes, Outs
    <3>2. i \in Range(old.open)
      BY <3>1, RemoveFirstKeeps
    <3>3. PICK p \in 1..k : messages[p].kind = "ai" /\ Follows(messages, p, k)
      BY <3>2 DEF CopiedUpTo
    <3>4. \A q \in (p + 1)..n : q \in (p + 1)..k \/ q = n
      OBVIOUS
    <3>5. Follows(messages, p, n)
      BY <2>1, <3>3, <3>4 DEF Follows
    <3>6. p \in 1..n
      OBVIOUS
    <3> QED
      BY <3>3, <3>5, <3>6
  <2>2. CASE m.kind = "ai"
    <3>1. Follows(messages, n, n) /\ n \in 1..n
      BY DEF Follows
    <3> QED
      BY <2>2, <3>1
  <2>3. CASE m.kind # "tool" /\ m.kind # "ai"
    <3>1. new.open = << >>
      BY <1>2, <2>3 DEF Takes
    <3> QED
      BY <3>1 DEF Range
  <2> QED
    BY <2>1, <2>2, <2>3
<1> QED
  BY <1>4, <1>5, <1>6 DEF CopiedUpTo

\* The repair leaves alone what needs no repair.
THEOREM SatisfiedIsKept ==
  ASSUME NEW messages \in Seq(Messages), Satisfied(messages)
  PROVE  _ensure_tool_call_pairs(messages) = messages
<1>1. PICK r : IsRun(r, messages)
               /\ _ensure_tool_call_pairs(messages) = _flush_orphans(r[Len(messages)]).repaired
  BY MessagesRun
<1> DEFINE n == Len(messages)
           sent == _flush_orphans(r[n]).repaired
           H == {k \in 0..n : CopiedUpTo(messages, r[k], k)}
<1>2. n \in Nat /\ n \in 0..n /\ 0 \in 0..n
  OBVIOUS
<1>3. 0 \in H
  <2>1. r[0].repaired = << >> /\ r[0].open = << >>
    BY <1>1 DEF IsRun, Loop!Runs, NothingYet
  <2>2. CopiedUpTo(messages, r[0], 0)
    BY <2>1 DEF CopiedUpTo, Range
  <2> QED
    BY <1>2, <2>2
<1>4. ASSUME NEW k \in 0..(n - 1), k \in H
      PROVE  k + 1 \in H
  <2>1. PICK j \in 1..n : j = k + 1
    BY <1>2
  <2>2. k \in 0..n /\ j \in 0..n
    BY <1>2
  <2>3. CopiedUpTo(messages, r[j], j)
    BY <1>1, <1>4, <2>1, <2>2, CopiesOne
  <2> QED
    BY <2>1, <2>2, <2>3
<1>5. n \in H
  <2>1. 0..n \subseteq H
    <3> HIDE DEF H, n
    <3> QED
      BY <1>2, <1>3, <1>4, Loop!IntervalInduction
  <2> QED
    BY <1>2, <2>1
<1>6. Len(r[n].open) = 0 /\ r[n] \in Outs
  BY <1>1, <1>2, <1>5, NothingOpen, RunTypes
<1>7. /\ sent \in Seq(Messages) /\ Len(sent) = Len(r[n].repaired) + Len(r[n].open)
      /\ Extends(sent, r[n].repaired)
  BY <1>6, FlushFacts DEF Outs
<1>8. Len(r[n].repaired) = n /\ \A q \in 1..n : r[n].repaired[q] = messages[q]
  BY <1>5 DEF CopiedUpTo
<1> HIDE DEF n, sent
<1>9. Len(sent) = n /\ \A q \in 1..n : sent[q] = messages[q]
  BY <1>2, <1>6, <1>7, <1>8 DEF Extends
<1>10. sent = messages
  BY <1>7, <1>9, SeqEqual DEF n
<1> QED
  BY <1>1, <1>10 DEF sent, n

\* What is sent needs no repair.
LEMMA SentIsSatisfied ==
  ASSUME NEW messages \in Seq(Messages), NEW r, IsRun(r, messages),
         \A k \in 1..Len(messages) : ~messages[k].synthetic,
         NEW sent, sent = _flush_orphans(r[Len(messages)]).repaired
  PROVE  Satisfied(sent)
<1>1. sent \in Seq(Messages) /\ Placed(messages, sent, r) /\ Synthetics(sent)
  BY SentKeeps, SentSound
<1> SUFFICES ASSUME NEW s \in 1..Len(sent), sent[s].kind = "ai", NEW i \in Ids
             PROVE  Times(sent[s].calls, i) <= AnswersTo(sent, Block(sent, s), i)
  BY DEF Satisfied
<1>2. ~sent[s].synthetic
  <2> SUFFICES ASSUME sent[s].synthetic PROVE FALSE
    OBVIOUS
  <2>1. PICK p \in 1..Len(sent) : s \in Block(sent, p)
    BY <1>1 DEF Synthetics
  <2>2. s \in (p + 1)..s /\ sent[s].kind = "tool"
    BY <2>1 DEF Block
  <2> QED
    BY <2>2
<1>3. PICK p \in 1..Len(messages) : Len(r[p].repaired) = s
  BY <1>1, <1>2 DEF Placed
<1>4. sent[s] = messages[p]
  BY <1>1, <1>3 DEF Placed
<1> DEFINE asked == Times(messages[p].calls, i)
           had == AnswersTo(messages, Block(messages, p), i)
           has == AnswersTo(sent, Block(sent, s), i)
<1>5. has = IF asked > had THEN asked ELSE had
  BY <1>3, <1>4, RunAnswers
<1>6. asked \in Nat /\ had \in Nat
  <2>1. messages[p] \in Messages
    OBVIOUS
  <2>2. messages[p].calls \in Seq(Ids \cup {NoId})
    BY <2>1 DEF Messages
  <2>3. had \in Nat
    <3>1. IsFiniteSet(Block(messages, p))
      <4>1. p + 1 \in Int /\ Len(messages) \in Int
        OBVIOUS
      <4>2. IsFiniteSet((p + 1)..Len(messages))
        BY <4>1, FS_Interval
      <4> QED
        BY <4>2, FS_Subset DEF Block
    <3>2. IsFiniteSet({q \in Block(messages, p) : messages[q].id = i})
      BY <3>1, FS_Subset
    <3> QED
      BY <3>2, FS_CardinalityType DEF AnswersTo
  <2> QED
    BY <2>2, <2>3, TimesType
<1> HIDE DEF asked, had, has
<1>7. asked <= has
  BY <1>5, <1>6
<1> QED
  BY <1>4, <1>7 DEF asked, has

\* A second repair adds nothing, whatever was persisted.
THEOREM RepairTwice ==
  ASSUME NEW messages \in Seq(Messages), \A k \in 1..Len(messages) : ~messages[k].synthetic
  PROVE  LET sent == _ensure_tool_call_pairs(messages)
         IN  _ensure_tool_call_pairs(sent) = sent
<1>1. PICK r : IsRun(r, messages)
               /\ _ensure_tool_call_pairs(messages) = _flush_orphans(r[Len(messages)]).repaired
  BY MessagesRun
<1> DEFINE sent == _ensure_tool_call_pairs(messages)
<1>2. sent \in Seq(Messages) /\ Satisfied(sent)
  BY <1>1, SentKeeps, SentIsSatisfied
<1> HIDE DEF sent
<1>3. _ensure_tool_call_pairs(sent) = sent
  BY <1>2, SatisfiedIsKept
<1> QED
  BY <1>3 DEF sent

-----------------------------------------------------------------------------
(* A list in which calls and answers belong together makes a request in which *)
(* each call is answered once                                                 *)

\* The ids of a batch are distinct, its block holds at most one answer to each and
\* no other answer, and every answer is in the block of some batch.
Orderly(messages) ==
  /\ \A p \in 1..Len(messages) : messages[p].kind = "ai" =>
       /\ \A i \in Ids : /\ Times(messages[p].calls, i) <= 1
                         /\ AnswersTo(messages, Block(messages, p), i) <= 1
       /\ \A q \in Block(messages, p) : messages[q].id \in Range(messages[p].calls)
  /\ \A q \in 1..Len(messages) : messages[q].kind = "tool" =>
       \E p \in 1..Len(messages) : messages[p].kind = "ai" /\ q \in Block(messages, p)

WellFormed(sent) ==
  /\ \A p \in DOMAIN sent : sent[p].kind = "ai" =>
       /\ \A i \in Range(sent[p].calls) \ {NoId} : AnswersTo(sent, Block(sent, p), i) = 1
       /\ \A q \in Block(sent, p) : sent[q].id \in Range(sent[p].calls)
  /\ \A q \in DOMAIN sent : sent[q].kind = "tool" =>
       \E p \in DOMAIN sent : sent[p].kind = "ai" /\ q \in Block(sent, p)

\* An AIMessage that is sent was on the list.
LEMMA SentBatch ==
  ASSUME NEW messages \in Seq(Messages), NEW sent, NEW r, Placed(messages, sent, r),
         Synthetics(sent), NEW s \in 1..Len(sent), sent[s].kind # "tool"
  PROVE  \E p \in 1..Len(messages) : Len(r[p].repaired) = s /\ sent[s] = messages[p]
<1>1. ~sent[s].synthetic
  <2> SUFFICES ASSUME sent[s].synthetic PROVE FALSE
    OBVIOUS
  <2>1. PICK p \in 1..Len(sent) : s \in Block(sent, p)
    BY DEF Synthetics
  <2>2. s \in (p + 1)..s /\ sent[s].kind = "tool"
    BY <2>1 DEF Block
  <2> QED
    BY <2>2
<1>2. PICK p \in 1..Len(messages) : Len(r[p].repaired) = s
  BY <1>1 DEF Placed
<1> QED
  BY <1>2 DEF Placed

\* An id that is still open at the end of a block is one of the batch.
LEMMA OpenIsAsked ==
  ASSUME NEW messages \in Seq(Messages), NEW r, IsRun(r, messages),
         NEW p \in 1..Len(messages), messages[p].kind = "ai",
         NEW e \in p..Len(messages), Follows(messages, p, e),
         NEW i \in Ids, i \in Range(r[e].open)
  PROVE  i \in Range(messages[p].calls)
<1> DEFINE asked == Times(messages[p].calls, i)
           had == Cardinality(AnswersUpTo(messages, p, e, i))
<1>1. e \in 0..Len(messages) /\ p \in Nat /\ e \in Nat
  OBVIOUS
<1>2. Times(r[e].open, i) = Missing(asked, had)
  BY InsideBlock
<1>3. had \in Nat
  BY <1>1, AnswersFinite
<1>4. Times(r[e].open, i) # 0
  <2>1. r[e].open \in Seq(Ids)
    BY <1>1, RunTypes DEF Outs
  <2> QED
    BY <2>1, TimesType
<1>5. messages[p].calls \in Seq(Ids \cup {NoId})
  <2>1. messages[p] \in Messages
    OBVIOUS
  <2> QED
    BY <2>1 DEF Messages
<1>6. asked # 0
  <2>1. asked \in Nat
    BY <1>5, TimesType
  <2> HIDE DEF asked, had
  <2> QED
    BY <2>1, <1>2, <1>3, <1>4 DEF Missing
<1> QED
  BY <1>5, <1>6, TimesType

BlockEntries(messages, sent, answers, at, p, e, b, f) ==
  /\ at \in Nat /\ p \in Nat /\ e \in Nat /\ b \in Nat /\ f \in Nat
  /\ b = at + (e - p)
  /\ \A k \in p..e : sent[at + (k - p)] = messages[k]
  /\ \A l \in 1..f : sent[b + l] = answers[l]

EntriesFrom(messages, sent, answers, at, p, e, b, f) ==
  \A q \in (at + 1)..(b + f) : \/ \E k \in (p + 1)..e : sent[q] = messages[k]
                              \/ \E l \in 1..f : sent[q] = answers[l]

\* An entry of the block of the repaired list is an old one or a synthetic one.
LEMMA EntryOfBlock ==
  ASSUME NEW messages, NEW sent, NEW answers, NEW at, NEW p, NEW e, NEW b, NEW f,
         BlockEntries(messages, sent, answers, at, p, e, b, f)
  PROVE  EntriesFrom(messages, sent, answers, at, p, e, b, f)
<1> USE DEF BlockEntries, EntriesFrom
<1> SUFFICES ASSUME NEW q \in (at + 1)..(b + f)
             PROVE  \/ \E k \in (p + 1)..e : sent[q] = messages[k]
                    \/ \E l \in 1..f : sent[q] = answers[l]
  OBVIOUS
<1>1. CASE q <= b
  <2>1. PICK k \in Int : k = p + (q - at)
    OBVIOUS
  <2>2. k \in (p + 1)..e /\ k \in p..e /\ at + (k - p) = q
    BY <1>1, <2>1
  <2>3. sent[at + (k - p)] = messages[k]
    BY <2>2
  <2> QED
    BY <2>2, <2>3
<1>2. CASE ~(q <= b)
  <2>1. PICK l \in Int : l = q - b
    OBVIOUS
  <2>2. l \in 1..f /\ b + l = q
    BY <1>2, <2>1
  <2>3. sent[b + l] = answers[l]
    BY <2>2
  <2> QED
    BY <2>2, <2>3
<1> QED
  BY <1>1, <1>2

\* The block of a batch of the argument and the one of its copy.
LEMMA BlockOfBatch ==
  ASSUME NEW messages \in Seq(Messages), NEW r, IsRun(r, messages), Orderly(messages),
         NEW p \in 1..Len(messages), messages[p].kind = "ai",
         NEW sent, sent = _flush_orphans(r[Len(messages)]).repaired,
         sent \in Seq(Messages),
         NEW at, at = Len(r[p].repaired)
  PROVE  /\ \A q \in Block(sent, at) : sent[q].id \in Range(messages[p].calls)
         /\ \A k \in Block(messages, p) : Len(r[k].repaired) \in Block(sent, at)
<1>1. PICK e \in p..Len(messages) :
        Follows(messages, p, e) /\ (e < Len(messages) => messages[e + 1].kind # "tool")
  BY BlockEnds
<1>2. Block(messages, p) = (p + 1)..e
  BY <1>1, BlockIs
<1>3. BlockRepaired(messages, sent, p, e, r[p], r[e])
  BY <1>1, RepairedBlock
<1>4. PICK b, f, open : b = Len(r[e].repaired) /\ f = Len(r[e].open) /\ open = r[e].open
  OBVIOUS
<1>5. /\ at \in 1..Len(sent) /\ Len(sent) \in Nat /\ b = at + (e - p) /\ f \in Nat
      /\ \A q \in p..e : sent[at + (q - p)] = messages[q]
      /\ \A l \in 1..f : sent[b + l] = _make_synthetic_tool_message(open[l])
      /\ Block(sent, at) = (at + 1)..(b + f)
  BY <1>3, <1>4 DEF BlockRepaired
<1>6. /\ p \in Nat /\ e \in Nat /\ p <= e /\ at \in Nat /\ b \in Nat
      /\ f \in Nat /\ b = at + (e - p) /\ e \in 0..Len(messages)
  BY <1>5, SMTT(30)
<1>7. open \in Seq(Ids) /\ f = Len(open)
  BY <1>4, <1>6, RunTypes DEF Outs
<1>8. ASSUME NEW q \in Block(sent, at)
      PROVE  sent[q].id \in Range(messages[p].calls)
  <2>0. q \in (at + 1)..(b + f)
    BY <1>5
  <2> DEFINE answers == [l \in 1..f |-> _make_synthetic_tool_message(open[l])]
  <2>1. \A l \in 1..f : sent[b + l] = answers[l]
    BY <1>5
  <2> HIDE DEF answers
  <2>2. \/ \E k \in (p + 1)..e : sent[q] = messages[k]
        \/ \E l \in 1..f : sent[q] = answers[l]
    <3>1. BlockEntries(messages, sent, answers, at, p, e, b, f)
      BY <2>1, <1>5, <1>6 DEF BlockEntries
    <3>2. EntriesFrom(messages, sent, answers, at, p, e, b, f)
      BY <3>1, EntryOfBlock
    <3> QED
      BY <2>0, <3>2 DEF EntriesFrom
  <2>3. CASE \E k \in (p + 1)..e : sent[q] = messages[k]
    <3>1. PICK k \in Block(messages, p) : sent[q] = messages[k]
      BY <2>3, <1>2
    <3> QED
      BY <3>1 DEF Orderly
  <2>4. CASE \E l \in 1..f : sent[q] = answers[l]
    <3>1. PICK l \in 1..f : sent[q] = answers[l]
      BY <2>4
    <3>2. sent[q].id = open[l]
      BY <3>1 DEF answers, _make_synthetic_tool_message
    <3>3. open[l] \in Ids /\ open[l] \in Range(open)
      BY <3>1, <1>7 DEF Range
    <3>4. open[l] \in Range(messages[p].calls)
      BY <1>1, <1>4, <3>3, OpenIsAsked
    <3> QED
      BY <3>2, <3>4
  <2> QED
    BY <2>2, <2>3, <2>4
<1>9. ASSUME NEW k \in Block(messages, p)
      PROVE  Len(r[k].repaired) \in Block(sent, at)
  <2>1. k \in p..e /\ k \in (p + 1)..e
    BY <1>2, <1>6
  <2>2. Len(r[k].repaired) = at + (k - p)
    BY <1>1, <2>1, BlockCopied
  <2>3. at + (k - p) \in (at + 1)..(b + f)
    BY <2>1, <1>6
  <2> QED
    BY <2>2, <2>3, <1>5
<1> QED
  BY <1>8, <1>9

\* If each batch of the argument has its calls' ids once and the messages of its block
\* answer these, each once at most, every batch of the repaired list has exactly one
\* answer for each of its ids and each answer a batch (base_agent.py:84-138).
THEOREM OrderlyIsWellFormed ==
  ASSUME NEW messages \in Seq(Messages), \A k \in 1..Len(messages) : ~messages[k].synthetic,
         Orderly(messages)
  PROVE  WellFormed(_ensure_tool_call_pairs(messages))
<1> DEFINE sent == _ensure_tool_call_pairs(messages)
<1>1. PICK r : IsRun(r, messages) /\ sent = _flush_orphans(r[Len(messages)]).repaired
  BY MessagesRun
<1> HIDE DEF sent
<1>2. sent \in Seq(Messages) /\ Placed(messages, sent, r) /\ Synthetics(sent)
  BY <1>1, SentKeeps, SentSound
<1>3. DOMAIN sent = 1..Len(sent)
  BY <1>2
<1>4. ASSUME NEW s \in DOMAIN sent, sent[s].kind = "ai"
      PROVE  /\ \A i \in Range(sent[s].calls) \ {NoId} : AnswersTo(sent, Block(sent, s), i) = 1
             /\ \A q \in Block(sent, s) : sent[q].id \in Range(sent[s].calls)
  <2>1. PICK p \in 1..Len(messages) : Len(r[p].repaired) = s /\ sent[s] = messages[p]
    BY <1>2, <1>3, <1>4, SentBatch
  <2>2. messages[p].kind = "ai" /\ messages[p].calls \in Seq(Ids \cup {NoId})
    <3>1. messages[p] \in Messages
      OBVIOUS
    <3> QED
      BY <1>4, <2>1, <3>1 DEF Messages
  <2>3. ASSUME NEW i \in Range(messages[p].calls) \ {NoId}
        PROVE  AnswersTo(sent, Block(sent, s), i) = 1
    <3> DEFINE asked == Times(messages[p].calls, i)
               had == AnswersTo(messages, Block(messages, p), i)
               has == AnswersTo(sent, Block(sent, s), i)
    <3>1. i \in Ids
      BY <2>2 DEF Range
    <3>2. has = IF asked > had THEN asked ELSE had
      BY <1>1, <2>1, <2>2, <3>1, RunAnswers
    <3>3. asked \in Nat /\ asked # 0
      BY <2>2, TimesType
    <3>4. had \in Nat
      <4>1. p + 1 \in Int /\ Len(messages) \in Int
        OBVIOUS
      <4>2. IsFiniteSet((p + 1)..Len(messages))
        BY <4>1, FS_Interval
      <4>3. IsFiniteSet({q \in Block(messages, p) : messages[q].id = i})
        BY <4>2, FS_Subset DEF Block
      <4> QED
        BY <4>3, FS_CardinalityType DEF AnswersTo
    <3>5. asked <= 1 /\ had <= 1
      BY <2>2, <3>1 DEF Orderly
    <3> HIDE DEF asked, had, has
    <3>6. has = 1
      BY <3>2, <3>3, <3>4, <3>5
    <3> QED
      BY <3>6 DEF has
  <2>4. \A q \in Block(sent, s) : sent[q].id \in Range(messages[p].calls)
    BY <1>1, <1>2, <2>1, <2>2, BlockOfBatch
  <2> QED
    BY <2>1, <2>3, <2>4
<1>5. ASSUME NEW q \in DOMAIN sent, sent[q].kind = "tool"
      PROVE  \E p \in DOMAIN sent : sent[p].kind = "ai" /\ q \in Block(sent, p)
  <2>1. CASE sent[q].synthetic
    BY <1>2, <1>3, <2>1 DEF Synthetics
  <2>2. CASE ~sent[q].synthetic
    <3>1. PICK k \in 1..Len(messages) : Len(r[k].repaired) = q
      BY <1>2, <1>3, <2>2 DEF Placed
    <3>2. messages[k].kind = "tool"
      BY <1>2, <1>5, <3>1 DEF Placed
    <3>3. PICK p \in 1..Len(messages) : messages[p].kind = "ai" /\ k \in Block(messages, p)
      BY <3>2 DEF Orderly
    <3>4. q \in Block(sent, Len(r[p].repaired))
      BY <1>1, <1>2, <3>1, <3>3, BlockOfBatch
    <3>5. Len(r[p].repaired) \in DOMAIN sent /\ sent[Len(r[p].repaired)] = messages[p]
      BY <1>2, <1>3 DEF Placed
    <3> QED
      BY <3>3, <3>4, <3>5
  <2> QED
    BY <2>1, <2>2
<1>6. WellFormed(sent)
  BY <1>4, <1>5 DEF WellFormed
<1> QED
  BY <1>6 DEF sent

=============================================================================
