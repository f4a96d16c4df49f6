------------------------------ MODULE Iteration ------------------------------
(***************************************************************************)
(* Induction and recursion over an interval of numbers, on sets: no lemma  *)
(* has an operator to instantiate. And what they show of FlattenSeq, the   *)
(* concatenation of a sequence of sequences. The proofs about what the     *)
(* models compute step by step cite them.                                  *)
(***************************************************************************)
EXTENDS Naturals, Sequences, SequencesExt, FiniteSetTheorems, TLAPS

\* A set of numbers has a least one: the sets 0..n are well-founded.
LEMMA LeastNatural ==
  ASSUME NEW T \in SUBSET Nat, T # {}
  PROVE  \E n \in T : \A m \in T : n <= m
<1> DEFINE Below == {0..n : n \in T}
<1>1. Below \subseteq FiniteSubsetsOf(Nat) /\ Below # {}
  <2>1. ASSUME NEW n \in T PROVE 0..n \in FiniteSubsetsOf(Nat)
    <3>1. n \in Nat /\ 0 \in Int /\ n \in Int
      OBVIOUS
    <3>2. IsFiniteSet(0..n)
      BY <3>1, FS_Interval
    <3>3. 0..n \subseteq Nat
      BY <3>1
    <3> QED BY <3>2, <3>3 DEF FiniteSubsetsOf
  <2> QED BY <2>1
<1>2. PICK B \in Below : \A C \in Below : <<C, B>> \notin StrictSubsetOrdering(Nat)
  <2> HIDE DEF Below
  <2> QED BY <1>1, FS_StrictSubsetOrderingWellFounded, WFMin
<1>3. PICK n \in T : B = 0..n
  OBVIOUS
<1>4. ASSUME NEW m \in T, m < n
      PROVE  FALSE
  <2>1. (0..m) \subseteq (0..n) /\ n \notin 0..m /\ n \in 0..n
    BY <1>4
  <2>2. <<0..m, 0..n>> \in StrictSubsetOrdering(Nat)
    BY <2>1 DEF StrictSubsetOrdering
  <2> QED BY <2>2, <1>2, <1>3
<1> QED
  BY <1>4

\* A set with 0 and the successor of what it has contains 0..N.
LEMMA Induction ==
  ASSUME NEW N \in Nat, NEW P, 0 \in P, \A n \in 1..N : n - 1 \in P => n \in P
  PROVE  0..N \subseteq P
<1> SUFFICES ASSUME (0..N) \ P # {} PROVE FALSE
  OBVIOUS
<1>1. PICK n \in (0..N) \ P : \A m \in (0..N) \ P : n <= m
  <2>1. (0..N) \ P \in SUBSET Nat
    OBVIOUS
  <2>2. QED
    BY <2>1, LeastNatural
<1>2. n \in 1..N /\ n - 1 \in 0..N /\ ~(n <= n - 1)
  BY <1>1
<1>3. QED
  BY <1>1, <1>2

\* The values a recursion over 0..N goes through, each computed from the last.
Runs(N, X, base, F) ==
  {g \in [0..N -> X] : g[0] = base /\ \A n \in 1..N : g[n] = F[n][g[n - 1]]}

\* A recursion over 0..N that stays in X has such values.
LEMMA Recursion ==
  ASSUME NEW N \in Nat, NEW X, NEW base \in X, NEW F \in [1..N -> [X -> X]]
  PROVE  Runs(N, X, base, F) # {}
<1> DEFINE Ok(k) == \E g \in [0..k -> X] :
                      g[0] = base /\ \A n \in 1..k : g[n] = F[n][g[n - 1]]
           P == {k \in 0..N : Ok(k)}
<1>1. Ok(0)
  <2>1. [n \in 0..0 |-> base] \in [0..0 -> X] /\ [n \in 0..0 |-> base][0] = base /\ 1..0 = {}
    OBVIOUS
  <2>2. QED
    BY <2>1
<1>2. ASSUME NEW k \in 1..N, Ok(k - 1) PROVE Ok(k)
  <2>1. k \in Nat /\ k - 1 \in Nat
    OBVIOUS
  <2>2. PICK g \in [0..(k - 1) -> X] :
           g[0] = base /\ \A n \in 1..(k - 1) : g[n] = F[n][g[n - 1]]
    BY <1>2
  <2> DEFINE h == [n \in 0..k |-> IF n = k THEN F[k][g[k - 1]] ELSE g[n]]
  <2>3. g[k - 1] \in X
    BY <2>1, <2>2
  <2>4. h \in [0..k -> X]
    BY <2>1, <2>2, <2>3
  <2>5. h[0] = base
    BY <2>1, <2>2
  <2>6. ASSUME NEW n \in 1..k PROVE h[n] = F[n][h[n - 1]]
    <3>1. n - 1 \in 0..k /\ n - 1 # k /\ h[n - 1] = g[n - 1]
      BY <2>1
    <3>2. CASE n = k
      BY <3>1, <3>2
    <3>3. CASE n # k
      BY <3>1, <3>3, <2>1, <2>2
    <3>4. QED
      BY <3>2, <3>3
  <2>7. QED
    <3> HIDE DEF h
    <3> QED BY <2>4, <2>5, <2>6
<1>3. 0 \in P /\ \A k \in 1..N : k - 1 \in P => k \in P
  <2> HIDE DEF Ok
  <2>1. 0 \in P
    BY <1>1
  <2>2. ASSUME NEW k \in 1..N, k - 1 \in P PROVE k \in P
    BY <1>2, <2>2
  <2>3. QED
    BY <2>1, <2>2
<1>4. 0..N \subseteq P
  <2> HIDE DEF P
  <2> QED BY <1>3, Induction
<1>5. QED
  <2>1. N \in P
    BY <1>4
  <2>2. QED
    BY <2>1 DEF Runs

\* The elements of a sequence put together from others are theirs.
LEMMA ElementsOfConcat ==
  ASSUME NEW X, NEW s \in Seq(X), NEW t \in Seq(X)
  PROVE  s \o t \in Seq(X) /\ ToSet(s \o t) = ToSet(s) \union ToSet(t)
<1>1. /\ s \o t \in Seq(X) /\ Len(s \o t) = Len(s) + Len(t)
      /\ Len(s) \in Nat /\ Len(t) \in Nat
      /\ DOMAIN s = 1..Len(s) /\ DOMAIN t = 1..Len(t) /\ DOMAIN (s \o t) = 1..(Len(s) + Len(t))
      /\ \A i \in 1..(Len(s) + Len(t)) :
           (s \o t)[i] = IF i <= Len(s) THEN s[i] ELSE t[i - Len(s)]
  OBVIOUS
<1> DEFINE st == s \o t
<1> HIDE DEF st
<1>2. ASSUME NEW i \in 1..(Len(s) + Len(t)) PROVE st[i] \in ToSet(s) \union ToSet(t)
  <2>1. CASE i <= Len(s)
    BY <1>1, <2>1 DEF ToSet, st
  <2>2. CASE ~(i <= Len(s))
    <3>1. i - Len(s) \in 1..Len(t)
      BY <1>1, <2>2
    <3> QED BY <1>1, <2>2, <3>1 DEF ToSet, st
  <2> QED BY <2>1, <2>2
<1>3. ASSUME NEW i \in 1..Len(s) PROVE i \in 1..(Len(s) + Len(t)) /\ st[i] = s[i]
  BY <1>1 DEF st
<1>4. ASSUME NEW i \in 1..Len(t)
      PROVE  i + Len(s) \in 1..(Len(s) + Len(t)) /\ st[i + Len(s)] = t[i]
  <2>1. i + Len(s) \in 1..(Len(s) + Len(t)) /\ ~(i + Len(s) <= Len(s)) /\ (i + Len(s)) - Len(s) = i
    BY <1>1
  <2> QED BY <1>1, <2>1 DEF st
<1>5. ToSet(st) = {st[i] : i \in 1..(Len(s) + Len(t))}
  BY <1>1 DEF ToSet, st
<1>6. ToSet(s) = {s[i] : i \in 1..Len(s)} /\ ToSet(t) = {t[i] : i \in 1..Len(t)}
  BY <1>1 DEF ToSet
<1>7. ToSet(s) \subseteq ToSet(st)
  BY <1>3, <1>5, <1>6
<1>8. ToSet(t) \subseteq ToSet(st)
  BY <1>4, <1>5, <1>6
<1>9. ToSet(st) \subseteq ToSet(s) \union ToSet(t)
  BY <1>2, <1>5
<1> QED
  BY <1>1, <1>7, <1>8, <1>9 DEF st

\* The sequences FlattenSeq goes through: it adds one after the other.
Adds(f, n, seqs) == \A i \in 1..n : f[i] = IF i = 1 THEN seqs[i] ELSE f[i - 1] \o seqs[i]

\* FlattenSeq returns the last of them.
LEMMA FlatteningSteps ==
  ASSUME NEW X, NEW n \in Nat, n # 0, NEW seqs \in [1..n -> Seq(X)]
  PROVE  \E f : FlattenSeq(seqs) = f[n] /\ Adds(f, n, seqs)
<1>0. seqs \in Seq(Seq(X)) /\ Len(seqs) = n /\ DOMAIN seqs = 1..n /\ n # 0
  OBVIOUS
<1> DEFINE Row(f, i) == IF i = 1 THEN seqs[i] ELSE f[i - 1] \o seqs[i]
           Is(f) == f = [i \in 1..n |-> Row(f, i)]
           all == CHOOSE f : Is(f)
<1>1. FlattenSeq(seqs) = all[n]
  BY <1>0 DEF FlattenSeq
<1>2. \E f : Is(f)
  <2> DEFINE F == [i \in 1..n |-> [s \in Seq(X) |-> IF i = 1 THEN seqs[i] ELSE s \o seqs[i]]]
  <2>1. F \in [1..n -> [Seq(X) -> Seq(X)]]
    BY ElementsOfConcat
  <2>2. <<>> \in Seq(X)
    OBVIOUS
  <2>3. PICK g \in [0..n -> Seq(X)] : g[0] = <<>> /\ \A i \in 1..n : g[i] = F[i][g[i - 1]]
    <3> HIDE DEF F
    <3>1. Runs(n, Seq(X), <<>>, F) # {}
      BY <2>1, <2>2, Recursion
    <3> QED BY <3>1 DEF Runs
  <2> DEFINE h == [i \in 1..n |-> g[i]]
  <2>4. ASSUME NEW i \in 1..n PROVE h[i] = Row(h, i)
    <3>1. i - 1 \in 0..n /\ g[i - 1] \in Seq(X)
      BY <2>3
    <3>2. h[i] = IF i = 1 THEN seqs[i] ELSE g[i - 1] \o seqs[i]
      BY <2>3, <3>1
    <3>3. i # 1 => h[i - 1] = g[i - 1]
      OBVIOUS
    <3> QED BY <3>2, <3>3
  <2>5. h = [i \in 1..n |-> Row(h, i)]
    <3>1. h = [i \in 1..n |-> h[i]]
      OBVIOUS
    <3> HIDE DEF h, Row
    <3> QED BY <2>4, <3>1
  <2> QED BY <2>5
<1>3. Is(all)
  <2> HIDE DEF Is
  <2> QED BY <1>2
<1> HIDE DEF all
<1>4. Adds(all, n, seqs)
  BY <1>3 DEF Adds
<1> QED
  BY <1>1, <1>4

\* One sequence more comes after what the others make.
LEMMA FlattenedOneMore ==
  ASSUME NEW X, NEW n \in Nat, NEW seqs \in [1..n -> Seq(X)],
         NEW more \in [1..(n + 1) -> Seq(X)], \A i \in 1..n : more[i] = seqs[i]
  PROVE  FlattenSeq(more) = FlattenSeq(seqs) \o more[n + 1]
<1>1. PICK all : FlattenSeq(more) = all[n + 1] /\ Adds(all, n + 1, more)
  <2>1. n + 1 \in Nat /\ n + 1 # 0
    OBVIOUS
  <2> QED BY <2>1, FlatteningSteps
<1>2. CASE n = 0
  <2>1. FlattenSeq(seqs) = <<>>
    BY <1>2 DEF FlattenSeq
  <2>2. FlattenSeq(more) = more[1] /\ more[1] \in Seq(X)
    BY <1>1, <1>2 DEF Adds
  <2> QED BY <1>2, <2>1, <2>2
<1>3. CASE n # 0
  <2>1. PICK old : FlattenSeq(seqs) = old[n] /\ Adds(old, n, seqs)
    BY <1>3, FlatteningSteps
  <2> DEFINE P == {i \in 0..n : i = 0 \/ all[i] = old[i]}
  <2>2. ASSUME NEW i \in 1..n, i - 1 \in P PROVE i \in P
    <3>1. i \in 1..(n + 1) /\ more[i] = seqs[i]
      OBVIOUS
    <3>2. all[i] = IF i = 1 THEN seqs[i] ELSE all[i - 1] \o seqs[i]
      BY <1>1, <3>1 DEF Adds
    <3>3. i # 1 => all[i - 1] = old[i - 1]
      BY <2>2
    <3> QED BY <2>1, <3>2, <3>3 DEF Adds
  <2>3. 0 \in P
    OBVIOUS
  <2> HIDE DEF P
  <2>4. n \in P
    <3>1. 0..n \subseteq P
      BY <2>2, <2>3, Induction
    <3> QED BY <3>1
  <2>5. all[n] = old[n]
    BY <1>3, <2>4 DEF P
  <2>6. n + 1 \in 1..(n + 1) /\ n + 1 # 1 /\ (n + 1) - 1 = n
    BY <1>3
  <2> QED BY <1>1, <2>1, <2>5, <2>6 DEF Adds
<1> QED BY <1>2, <1>3

\* FlattenSeq puts the sequences of a sequence together.
LEMMA Flattened ==
  ASSUME NEW X, NEW n \in Nat, NEW seqs \in [1..n -> Seq(X)]
  PROVE  /\ FlattenSeq(seqs) \in Seq(X)
         /\ \A x : x \in ToSet(FlattenSeq(seqs)) <=> \E k \in 1..n : x \in ToSet(seqs[k])
<1>1. seqs \in Seq(Seq(X)) /\ Len(seqs) = n /\ DOMAIN seqs = 1..n
  OBVIOUS
<1>2. CASE n = 0
  <2>1. seqs = <<>> /\ FlattenSeq(seqs) = <<>> /\ 1..n = {}
    BY <1>1, <1>2 DEF FlattenSeq
  <2>2. <<>> \in Seq(X) /\ ToSet(<<>>) = {}
    BY DEF ToSet
  <2> QED BY <2>1, <2>2
<1>3. CASE n # 0
  <2>3. PICK all : FlattenSeq(seqs) = all[n] /\ Adds(all, n, seqs)
    BY <1>3, FlatteningSteps
  <2>1. FlattenSeq(seqs) = all[n]
    BY <2>3
  <2>4. \A i \in 1..n : all[i] = IF i = 1 THEN seqs[i] ELSE all[i - 1] \o seqs[i]
    BY <2>3 DEF Adds
  <2> DEFINE Good_(i) == /\ all[i] \in Seq(X)
                         /\ \A x : x \in ToSet(all[i]) <=> \E k \in 1..i : x \in ToSet(seqs[k])
             P == {i \in 0..n : i = 0 \/ Good_(i)}
  <2>5. ASSUME NEW i \in 1..n, i = 1 \/ Good_(i - 1) PROVE Good_(i)
    <3>1. CASE i = 1
      <4>1. all[i] = seqs[i] /\ 1..i = {i}
        BY <2>4, <3>1
      <4> QED BY <4>1, <3>1
    <3>2. CASE i # 1
      <4>1. all[i] = all[i - 1] \o seqs[i]
        BY <2>4, <3>2
      <4>2. 1..i = (1..(i - 1)) \union {i}
        OBVIOUS
      <4>3. all[i] \in Seq(X) /\ ToSet(all[i]) = ToSet(all[i - 1]) \union ToSet(seqs[i])
        BY <4>1, <2>5, <3>2, ElementsOfConcat
      <4>4. \A x : x \in ToSet(all[i - 1]) <=> \E k \in 1..(i - 1) : x \in ToSet(seqs[k])
        BY <2>5, <3>2
      <4> QED BY <4>2, <4>3, <4>4
    <3> QED BY <3>1, <3>2
  <2>6. Good_(n)
    <3> HIDE DEF Good_
    <3>1. 0 \in P /\ \A i \in 1..n : i - 1 \in P => i \in P
      <4>1. ASSUME NEW i \in 1..n, i - 1 \in P PROVE i \in P
        <5>1. i = 1 \/ Good_(i - 1)
          BY <4>1
        <5> QED BY <5>1, <2>5
      <4> QED BY <4>1
    <3>2. 0..n \subseteq P
      <4> HIDE DEF P
      <4> QED BY <3>1, Induction
    <3> QED BY <3>2, <1>3
  <2> QED BY <1>3, <2>1, <2>6
<1> QED BY <1>2, <1>3

\* No element, and one.
LEMMA FewElements ==
  ASSUME NEW X
  PROVE  /\ <<>> \in Seq(X) /\ ToSet(<<>>) = {}
         /\ \A x \in X : <<x>> \in Seq(X) /\ ToSet(<<x>>) = {x}
BY DEF ToSet
==============================================================================
