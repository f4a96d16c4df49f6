--------------------------- MODULE Planning_proofs ---------------------------
(***************************************************************************)
(* Proofs about plans: what validateTaskDag accepts can be run, for every  *)
(* finite set of ids and every set of declarations; and the delivery loop  *)
(* keeps the work on a plan in order, apart where it conflicts and within  *)
(* its capacity, for every valid plan.                                     *)
(***************************************************************************)
EXTENDS TaskPlan, Dispatch, Iteration

\* Min is the least element of a set of numbers.
LEMMA LeastIsFirst ==
  ASSUME NEW T \in SUBSET Nat, T # {}
  PROVE  Min(T) \in T /\ \A m \in T : Min(T) <= m
BY LeastNatural DEF Min

\* Max is the greatest element of a bounded set of numbers.
LEMMA BoundedHasMax ==
  ASSUME NEW T \in SUBSET Nat, T # {}, NEW b \in Nat, \A m \in T : m <= b
  PROVE  Max(T) \in T /\ \A m \in T : m <= Max(T)
<1> DEFINE Gap == {b - m : m \in T}
<1>1. Gap \in SUBSET Nat /\ Gap # {}
  <2>1. \A m \in T : b - m \in Nat
    OBVIOUS
  <2>2. QED
    BY <2>1
<1>2. PICK k \in Gap : \A j \in Gap : k <= j
  <2> HIDE DEF Gap
  <2> QED BY <1>1, LeastNatural
<1>3. PICK n \in T : k = b - n
  OBVIOUS
<1>4. \A m \in T : n >= m
  <2>1. ASSUME NEW m \in T PROVE n >= m
    <3>1. b - m \in Gap
      OBVIOUS
    <3>2. k <= b - m
      BY <3>1, <1>2
    <3>3. QED
      BY <3>2, <1>3
  <2>2. QED
    BY <2>1
<1>5. \E x \in T : \A y \in T : x >= y
  BY <1>4
<1>6. Max(T) \in T /\ \A y \in T : Max(T) >= y
  BY <1>5 DEF Max
<1>7. QED
  BY <1>6

\* The number of tasks of a plan.
Size(plan) == Cardinality(DOMAIN plan)

\* Sequences of tasks without repetition, in which a task comes after those
\* of its dependencies that the plan declares.
Orders(plan) ==
  {s \in Seq(DOMAIN plan) :
     /\ \A i, j \in 1..Len(s) : s[i] = s[j] => i = j
     /\ \A i \in 1..Len(s) :
          (plan[s[i]].dependsOn \intersect DOMAIN plan) \ {s[i]} \subseteq {s[j] : j \in 1..(i - 1)}}

\* One round of topologicalSort.
NextInOrder(plan, sofar) ==
  LET next == Unblocked(plan, ToSet(sofar))
  IN  IF next = {} THEN sofar ELSE Append(sofar, Min(next))

\* The least unblocked task can be put at the end of such a sequence.
LEMMA OrderGrows ==
  ASSUME NEW plan, DOMAIN plan \subseteq Nat, NEW s \in Orders(plan)
  PROVE  NextInOrder(plan, s) \in Orders(plan)
<1> DEFINE next == Unblocked(plan, ToSet(s))
           t == Min(next)
           new == Append(s, t)
<1>1. CASE next = {}
  BY <1>1 DEF NextInOrder
<1>2. CASE next # {}
  <2>1. next \in SUBSET Nat
    BY DEF Unblocked
  <2>2. t \in next
    <3> HIDE DEF next
    <3> QED BY <2>1, <1>2, LeastIsFirst
  <2>3. /\ t \in DOMAIN plan /\ t \notin ToSet(s)
        /\ (plan[t].dependsOn \intersect DOMAIN plan) \ {t} \subseteq ToSet(s)
    <3> HIDE DEF t
    <3> QED BY <2>2 DEF Unblocked
  <2>4. s \in Seq(DOMAIN plan) /\ Len(s) \in Nat /\ DOMAIN s = 1..Len(s)
    BY DEF Orders
  <2> HIDE DEF t
  <2>5. /\ new \in Seq(DOMAIN plan) /\ Len(new) = Len(s) + 1
        /\ new[Len(s) + 1] = t
        /\ \A i \in 1..Len(s) : new[i] = s[i]
    BY <2>3, <2>4
  <2> HIDE DEF new
  <2>6. \A i, j \in 1..Len(new) : new[i] = new[j] => i = j
    <3>1. \A i \in 1..Len(s) : s[i] # t
      BY <2>3, <2>4 DEF ToSet
    <3>2. \A i \in 1..Len(new) : i \in 1..Len(s) \/ i = Len(s) + 1
      BY <2>4, <2>5
    <3>3. \A i, j \in 1..Len(s) : s[i] = s[j] => i = j
      BY DEF Orders
    <3>4. QED
      BY <2>5, <3>1, <3>2, <3>3
  <2>7. ASSUME NEW i \in 1..Len(new)
        PROVE  (plan[new[i]].dependsOn \intersect DOMAIN plan) \ {new[i]}
                 \subseteq {new[j] : j \in 1..(i - 1)}
    <3>1. CASE i \in 1..Len(s)
      <4>1. (plan[s[i]].dependsOn \intersect DOMAIN plan) \ {s[i]} \subseteq {s[j] : j \in 1..(i - 1)}
        BY <3>1 DEF Orders
      <4>2. \A j \in 1..(i - 1) : j \in 1..Len(s) /\ new[j] = s[j]
        BY <3>1, <2>4, <2>5
      <4>3. QED
        BY <4>1, <4>2, <3>1, <2>5
    <3>2. CASE i = Len(s) + 1
      <4>1. ToSet(s) \subseteq {new[j] : j \in 1..(i - 1)}
        BY <3>2, <2>4, <2>5 DEF ToSet
      <4>2. QED
        BY <4>1, <3>2, <2>3, <2>5
    <3>3. QED
      BY <3>1, <3>2, <2>4, <2>5
  <2>8. new \in Orders(plan)
    BY <2>5, <2>6, <2>7 DEF Orders
  <2>9. QED
    BY <2>8, <1>2 DEF NextInOrder, new, t
<1>3. QED
  BY <1>1, <1>2

\* So topologicalSort returns such a sequence, for any plan.
LEMMA OrderOfPlan ==
  ASSUME NEW plan, DOMAIN plan \subseteq Nat, IsFiniteSet(DOMAIN plan)
  PROVE  TopologicalOrder(plan) \in Orders(plan)
<1> DEFINE Row(order, n) == IF n = 0 THEN <<>> ELSE NextInOrder(plan, order[n - 1])
           Is(order) == order = [n \in 0..Size(plan) |-> Row(order, n)]
<1>1. Size(plan) \in Nat
  BY FS_CardinalityType DEF Size
<1>2. <<>> \in Orders(plan)
  BY DEF Orders
<1>3. \E order : Is(order)
  <2> DEFINE F == [n \in 1..Size(plan) |-> [s \in Orders(plan) |-> NextInOrder(plan, s)]]
  <2>1. F \in [1..Size(plan) -> [Orders(plan) -> Orders(plan)]]
    BY OrderGrows
  <2>2. PICK g \in [0..Size(plan) -> Orders(plan)] :
           g[0] = <<>> /\ \A n \in 1..Size(plan) : g[n] = F[n][g[n - 1]]
    <3> HIDE DEF F
    <3>1. Runs(Size(plan), Orders(plan), <<>>, F) # {}
      BY <1>1, <1>2, <2>1, Recursion
    <3> QED BY <3>1 DEF Runs
  <2>3. \A n \in 1..Size(plan) : g[n - 1] \in Orders(plan)
    BY <1>1, <2>2
  <2>4. ASSUME NEW n \in 0..Size(plan) PROVE g[n] = Row(g, n)
    <3>1. n = 0 \/ (n # 0 /\ n \in 1..Size(plan))
      BY <1>1
    <3>2. QED
      BY <3>1, <2>2, <2>3
  <2>5. g = [n \in 0..Size(plan) |-> Row(g, n)]
    <3> HIDE DEF Row
    <3> QED BY <2>2, <2>4
  <2>6. QED
    BY <2>5
<1> DEFINE order == CHOOSE f : Is(f)
<1>4. Is(order)
  <2> HIDE DEF Is
  <2> QED BY <1>3
<1>5. TopologicalOrder(plan) = order[Size(plan)]
  BY DEF TopologicalOrder, NextInOrder, Size
<1> HIDE DEF order
<1>6. order[0] = <<>> /\ \A n \in 1..Size(plan) : order[n] = NextInOrder(plan, order[n - 1])
  BY <1>1, <1>4
<1> DEFINE P == {n \in 0..Size(plan) : order[n] \in Orders(plan)}
<1>7. 0 \in P /\ \A n \in 1..Size(plan) : n - 1 \in P => n \in P
  BY <1>1, <1>2, <1>6, OrderGrows
<1>8. 0..Size(plan) \subseteq P
  <2> HIDE DEF P
  <2> QED BY <1>1, <1>7, Induction
<1>9. QED
  BY <1>1, <1>5, <1>8

\* Schedules, for any plan.
Rounds(plan) ==
  {round \in [DOMAIN plan -> 1..Size(plan)] :
     \A t \in DOMAIN plan : \A d \in plan[t].dependsOn : round[d] < round[t]}

FinitePlan(plan) == DOMAIN plan \subseteq Nat /\ IsFiniteSet(DOMAIN plan)

\* When no cycle is reported the order has every task once, each after all it
\* depends on.
LEMMA OrderOfValid ==
  ASSUME NEW plan, FinitePlan(plan), IdsKnown(plan), Cyclic(plan) = {}
  PROVE  LET order == TopologicalOrder(plan)
         IN  /\ order \in Seq(DOMAIN plan) /\ Len(order) = Size(plan) /\ Size(plan) \in Nat
             /\ ToSet(order) = DOMAIN plan
             /\ \A i, j \in 1..Len(order) : order[i] = order[j] => i = j
             /\ \A i \in 1..Len(order) :
                  plan[order[i]].dependsOn \subseteq {order[j] : j \in 1..(i - 1)}
<1> DEFINE order == TopologicalOrder(plan)
<1>1. order \in Orders(plan)
  BY OrderOfPlan DEF FinitePlan
<1>2. DOMAIN plan \subseteq ToSet(order)
  BY DEF Cyclic
<1> HIDE DEF order
<1>3. order \in Seq(DOMAIN plan) /\ Len(order) \in Nat /\ DOMAIN order = 1..Len(order)
  BY <1>1 DEF Orders
<1>4. ToSet(order) = DOMAIN plan
  <2>1. \A i \in 1..Len(order) : order[i] \in DOMAIN plan
    BY <1>3
  <2>2. ToSet(order) \subseteq DOMAIN plan
    BY <2>1, <1>3 DEF ToSet
  <2>3. QED
    BY <1>2, <2>2
<1>5. \A i, j \in 1..Len(order) : order[i] = order[j] => i = j
  BY <1>1 DEF Orders
<1>6. order \in Bijection(1..Len(order), DOMAIN plan)
  <2>1. order \in [1..Len(order) -> DOMAIN plan]
    BY <1>3
  <2>2. order \in Injection(1..Len(order), DOMAIN plan)
    BY <2>1, <1>5 DEF Injection, IsInjective
  <2>3. \A t \in DOMAIN plan : \E i \in 1..Len(order) : order[i] = t
    BY <1>3, <1>4 DEF ToSet
  <2>4. QED
    BY <2>1, <2>2, <2>3 DEF Bijection, Surjection
<1>7. Len(order) = Size(plan)
  BY <1>3, <1>6, FS_CountingElements DEF ExistsBijection, Size
<1>8. ASSUME NEW i \in 1..Len(order)
      PROVE  plan[order[i]].dependsOn \subseteq {order[j] : j \in 1..(i - 1)}
  <2>1. order[i] \in DOMAIN plan
    BY <1>3
  <2>2. plan[order[i]].dependsOn \subseteq DOMAIN plan \ {order[i]}
    BY <2>1 DEF IdsKnown
  <2>3. QED
    BY <1>1, <2>2 DEF Orders
<1>9. QED
  BY <1>3, <1>4, <1>5, <1>7, <1>8 DEF order

\* What buildAncestors finds above a task runs before it in every schedule.
LEMMA AncestorsComeFirst ==
  ASSUME NEW plan, FinitePlan(plan), NEW round \in Rounds(plan)
  PROVE  \A t \in DOMAIN plan : \A p \in Ancestors(plan)[t] :
           p \in DOMAIN plan /\ round[p] < round[t]
<1> DEFINE D == DOMAIN plan
           direct == [t \in D |-> plan[t].dependsOn \intersect D]
           Further(known) == [t \in D |-> known[t] \union UNION {known[d] : d \in known[t]}]
           Row(above, n) == IF n = 0 THEN direct ELSE Further(above[n - 1])
           Is(above) == above = [n \in 0..Size(plan) |-> Row(above, n)]
           Earlier == {known \in [D -> SUBSET D] :
                         \A t \in D : \A p \in known[t] : round[p] < round[t]}
<1>1. Size(plan) \in Nat
  BY FS_CardinalityType DEF Size, FinitePlan
<1>2. direct \in Earlier
  BY DEF Rounds
<1>3. ASSUME NEW known \in Earlier PROVE Further(known) \in Earlier
  <2>1. Further(known) \in [D -> SUBSET D]
    OBVIOUS
  <2>2. ASSUME NEW t \in D, NEW p \in Further(known)[t] PROVE round[p] < round[t]
    <3>1. CASE p \in known[t]
      BY <3>1
    <3>2. CASE \E d \in known[t] : p \in known[d]
      <4>1. PICK d \in known[t] : p \in known[d]
        BY <3>2
      <4>2. d \in D /\ p \in D
        BY <4>1
      <4>3. round[p] < round[d] /\ round[d] < round[t]
        BY <4>1, <4>2
      <4>4. round[p] \in Nat /\ round[d] \in Nat /\ round[t] \in Nat
        BY <4>2, <1>1 DEF Rounds
      <4>5. QED
        BY <4>3, <4>4
    <3>3. QED
      BY <2>2, <3>1, <3>2
  <2>3. QED
    BY <2>1, <2>2
<1> HIDE DEF Earlier, direct
<1>4. \E above : Is(above)
  <2> DEFINE F == [n \in 1..Size(plan) |-> [known \in Earlier |-> Further(known)]]
  <2>1. F \in [1..Size(plan) -> [Earlier -> Earlier]]
    <3> HIDE DEF Further
    <3> QED BY <1>3
  <2> HIDE DEF F
  <2>2. PICK g \in [0..Size(plan) -> Earlier] :
           g[0] = direct /\ \A n \in 1..Size(plan) : g[n] = F[n][g[n - 1]]
    <3>1. Runs(Size(plan), Earlier, direct, F) # {}
      BY <1>1, <1>2, <2>1, Recursion
    <3> QED BY <3>1 DEF Runs
  <2> HIDE DEF Further
  <2>3. \A n \in 1..Size(plan) : g[n - 1] \in Earlier
    BY <1>1, <2>2
  <2>4. ASSUME NEW n \in 0..Size(plan) PROVE g[n] = Row(g, n)
    <3>1. n = 0 \/ (n # 0 /\ n \in 1..Size(plan))
      BY <1>1
    <3>2. QED
      BY <3>1, <2>2, <2>3 DEF F
  <2>5. g = [n \in 0..Size(plan) |-> Row(g, n)]
    <3> HIDE DEF Row
    <3> QED BY <2>2, <2>4
  <2>6. QED
    BY <2>5
<1> DEFINE above == CHOOSE f : Is(f)
<1>5. Is(above)
  <2> HIDE DEF Is
  <2> QED BY <1>4
<1>6. Ancestors(plan) = above[Size(plan)]
  BY DEF Ancestors, Size, direct
<1> HIDE DEF above, Further
<1>7. above[0] = direct /\ \A n \in 1..Size(plan) : above[n] = Further(above[n - 1])
  BY <1>1, <1>5
<1> DEFINE P == {n \in 0..Size(plan) : above[n] \in Earlier}
<1>8. 0 \in P /\ \A n \in 1..Size(plan) : n - 1 \in P => n \in P
  BY <1>1, <1>2, <1>3, <1>7
<1>9. 0..Size(plan) \subseteq P
  <2> HIDE DEF P
  <2> QED BY <1>1, <1>8, Induction
<1>10. Ancestors(plan) \in Earlier
  BY <1>1, <1>6, <1>9
<1>11. QED
  BY <1>10 DEF Earlier

\* buildLevels gives a task the earliest round any schedule runs it in: along
\* the order, a level is below the position of its task, so that the rounds
\* by level are a schedule, and no schedule runs a task before its level.
LEMMA LevelIsEarliest ==
  ASSUME NEW plan, FinitePlan(plan), IdsKnown(plan), Cyclic(plan) = {}
  PROVE  /\ Rounds(plan) # {}
         /\ \A t \in DOMAIN plan :
              1 + LevelOf(plan)[t] = Min({round[t] : round \in Rounds(plan)})
<1> DEFINE D == DOMAIN plan
           s == TopologicalOrder(plan)
           N == Len(s)
           Row(level, t) == IF plan[t].dependsOn = {} THEN 0
                            ELSE 1 + Max({level[d] : d \in plan[t].dependsOn})
           Is(level) == level = [t \in D |-> Row(level, t)]
<1>1. /\ s \in Seq(D) /\ N = Size(plan) /\ N \in Nat
      /\ ToSet(s) = D
      /\ \A i, j \in 1..N : s[i] = s[j] => i = j
      /\ \A i \in 1..N : plan[s[i]].dependsOn \subseteq {s[j] : j \in 1..(i - 1)}
  BY OrderOfValid
<1> HIDE DEF s
<1>2. /\ \A i \in 1..N : s[i] \in D
      /\ \A t \in D : \E i \in 1..N : s[i] = t
  BY <1>1 DEF ToSet
<1> DEFINE Low(level, i) == \A j \in 1..i : level[s[j]] \in Nat /\ level[s[j]] < j
           Highest(level, t) ==
             /\ \E d \in plan[t].dependsOn : Row(level, t) = 1 + level[d]
             /\ \A d \in plan[t].dependsOn : level[d] < Row(level, t)
<1>3. ASSUME NEW level, NEW i \in 1..N, Low(level, i - 1)
      PROVE  /\ Row(level, s[i]) \in Nat /\ Row(level, s[i]) < i
             /\ plan[s[i]].dependsOn = {} \/ Highest(level, s[i])
  <2> DEFINE deps == plan[s[i]].dependsOn
             T == {level[d] : d \in deps}
  <2>1. CASE deps = {}
    BY <2>1
  <2>2. CASE deps # {}
    <3>1. \A d \in deps : \E j \in 1..(i - 1) : d = s[j]
      BY <1>1
    <3>2. \A d \in deps : level[d] \in Nat /\ level[d] <= i - 2
      <4>1. ASSUME NEW d \in deps PROVE level[d] \in Nat /\ level[d] <= i - 2
        <5>1. PICK j \in 1..(i - 1) : d = s[j]
          BY <3>1
        <5>2. level[s[j]] \in Nat /\ level[s[j]] < j
          BY <1>3
        <5>3. QED
          BY <5>1, <5>2, <1>1
      <4>2. QED
        BY <4>1
    <3>3. T \in SUBSET Nat /\ T # {} /\ \A m \in T : m <= i - 2
      BY <3>2, <2>2
    <3>4. i - 2 \in Nat
      <4>1. PICK m \in T : m \in Nat /\ m <= i - 2
        BY <3>3
      <4>2. QED
        BY <4>1, <1>1
    <3>5. Max(T) \in T /\ \A m \in T : m <= Max(T)
      <4> HIDE DEF T
      <4> QED BY <3>3, <3>4, BoundedHasMax
    <3>6. Row(level, s[i]) = 1 + Max(T)
      BY <2>2
    <3> DEFINE max == Max(T)
    <3>7. PICK d \in deps : max = level[d]
      BY <3>5
    <3>8. \A e \in deps : level[e] <= max
      BY <3>5
    <3>9. Row(level, s[i]) = 1 + max
      BY <3>6
    <3> HIDE DEF max, T, Row
    <3>10. max \in Nat /\ max <= i - 2
      BY <3>2, <3>7
    <3>11. Row(level, s[i]) \in Nat /\ Row(level, s[i]) < i
      BY <3>9, <3>10, <1>1
    <3>12. Highest(level, s[i])
      <4>1. \A e \in deps : level[e] < Row(level, s[i])
        BY <3>2, <3>8, <3>9, <3>10
      <4>2. QED
        BY <4>1, <3>7, <3>9
    <3>13. QED
      BY <3>11, <3>12
  <2>3. QED
    BY <2>1, <2>2
<1>4. ASSUME NEW f, NEW g, NEW i \in 1..N, \A j \in 1..(i - 1) : f[s[j]] = g[s[j]]
      PROVE  Row(f, s[i]) = Row(g, s[i])
  <2>1. \A d \in plan[s[i]].dependsOn : f[d] = g[d]
    BY <1>1, <1>4
  <2>2. {f[d] : d \in plan[s[i]].dependsOn} = {g[d] : d \in plan[s[i]].dependsOn}
    BY <2>1
  <2>3. QED
    BY <2>2
<1> HIDE DEF Row, Highest
<1> DEFINE Ok(i) == \E g \in [D -> Nat] : Low(g, i) /\ \A j \in 1..i : g[s[j]] = Row(g, s[j])
<1>5. Ok(0)
  <2>1. [t \in D |-> 0] \in [D -> Nat] /\ 1..0 = {}
    OBVIOUS
  <2>2. QED
    BY <2>1
<1>6. ASSUME NEW i \in 1..N, Ok(i - 1) PROVE Ok(i)
  <2>1. PICK g \in [D -> Nat] : Low(g, i - 1) /\ \A j \in 1..(i - 1) : g[s[j]] = Row(g, s[j])
    BY <1>6
  <2> DEFINE x == Row(g, s[i])
             h == [g EXCEPT ![s[i]] = x]
  <2>2. x \in Nat /\ x < i
    BY <1>3, <2>1
  <2> HIDE DEF x
  <2>3. h \in [D -> Nat] /\ h[s[i]] = x
    BY <2>2, <1>2
  <2>4. \A j \in 1..(i - 1) : j \in 1..N /\ s[j] # s[i]
    BY <1>1
  <2>5. \A j \in 1..(i - 1) : h[s[j]] = g[s[j]]
    BY <2>4, <1>2
  <2>6. \A j \in 1..i : j = i \/ j \in 1..(i - 1)
    BY <1>1
  <2> HIDE DEF h
  <2>7. Low(h, i)
    BY <2>1, <2>2, <2>3, <2>5, <2>6
  <2>8. ASSUME NEW j \in 1..i PROVE h[s[j]] = Row(h, s[j])
    <3>1. j \in 1..N /\ \A k \in 1..(j - 1) : k \in 1..(i - 1)
      BY <1>1
    <3>2. Row(h, s[j]) = Row(g, s[j])
      BY <3>1, <2>5, <1>4
    <3>3. QED
      BY <3>2, <2>1, <2>3, <2>5, <2>6 DEF x
  <2>9. QED
    BY <2>3, <2>7, <2>8
<1>7. Ok(N)
  <2> DEFINE P == {i \in 0..N : Ok(i)}
  <2> HIDE DEF Ok
  <2>1. 0 \in P /\ \A i \in 1..N : i - 1 \in P => i \in P
    <3>1. 0 \in P
      BY <1>1, <1>5
    <3>2. ASSUME NEW i \in 1..N, i - 1 \in P PROVE i \in P
      BY <3>2, <1>1, <1>6
    <3>3. QED
      BY <3>1, <3>2
  <2>2. 0..N \subseteq P
    <3> HIDE DEF P
    <3> QED BY <2>1, <1>1, Induction
  <2>3. QED
    BY <2>2, <1>1
<1>8. \E level : Is(level)
  <2>1. PICK g \in [D -> Nat] : \A j \in 1..N : g[s[j]] = Row(g, s[j])
    BY <1>7
  <2>2. \A t \in D : g[t] = Row(g, t)
    BY <2>1, <1>2
  <2>3. g = [t \in D |-> Row(g, t)]
    BY <2>2
  <2>4. QED
    BY <2>3
<1> DEFINE level == CHOOSE f : Is(f)
<1>9. Is(level)
  <2> HIDE DEF Is
  <2> QED BY <1>8
<1>10. LevelOf(plan) = level
  BY DEF LevelOf, Row
<1> HIDE DEF level
<1>11. \A t \in D : level[t] = Row(level, t)
  BY <1>9
<1>12. Low(level, N)
  <2> DEFINE P == {i \in 0..N : Low(level, i)}
  <2>1. 0 \in P
    BY <1>1
  <2>2. ASSUME NEW i \in 1..N, i - 1 \in P PROVE i \in P
    <3>1. Low(level, i - 1)
      BY <2>2
    <3>2. level[s[i]] \in Nat /\ level[s[i]] < i
      BY <3>1, <1>2, <1>3, <1>11
    <3>3. \A j \in 1..i : j = i \/ j \in 1..(i - 1)
      BY <1>1
    <3>4. QED
      BY <3>1, <3>2, <3>3, <1>1
  <2>3. 0..N \subseteq P
    <3> HIDE DEF P
    <3> QED BY <2>1, <2>2, <1>1, Induction
  <2>4. QED
    BY <2>3, <1>1
<1>13. ASSUME NEW t \in D
       PROVE  /\ level[t] \in Nat /\ level[t] < N
              /\ plan[t].dependsOn = {} => level[t] = 0
              /\ plan[t].dependsOn # {} => Highest(level, t)
  <2>1. PICK i \in 1..N : s[i] = t
    BY <1>2
  <2>2. level[t] \in Nat /\ level[t] < i
    BY <2>1, <1>12
  <2>3. Low(level, i - 1)
    BY <1>1, <1>12
  <2>4. plan[t].dependsOn = {} \/ Highest(level, t)
    BY <2>1, <2>3, <1>3
  <2>5. plan[t].dependsOn = {} => level[t] = 0
    BY <1>11 DEF Row
  <2>6. QED
    BY <2>2, <2>4, <2>5, <1>1
<1> DEFINE first == [t \in D |-> 1 + level[t]]
<1>14. first \in Rounds(plan)
  <2>1. first \in [D -> 1..Size(plan)]
    BY <1>1, <1>13
  <2>2. ASSUME NEW t \in D, NEW d \in plan[t].dependsOn PROVE first[d] < first[t]
    <3>1. d \in D
      BY DEF IdsKnown
    <3>2. level[d] < level[t]
      BY <1>11, <1>13 DEF Highest
    <3>3. QED
      BY <3>1, <3>2, <1>13
  <2>3. QED
    BY <2>1, <2>2 DEF Rounds
<1>15. ASSUME NEW round \in Rounds(plan)
       PROVE  \A t \in D : 1 + level[t] <= round[t]
  <2>0. /\ \A t \in D : round[t] \in Nat /\ round[t] >= 1
        /\ \A t \in D : \A d \in plan[t].dependsOn : round[d] < round[t]
    BY <1>1 DEF Rounds
  <2> DEFINE P == {i \in 0..N : \A j \in 1..i : 1 + level[s[j]] <= round[s[j]]}
  <2>1. 0 \in P
    BY <1>1
  <2>2. ASSUME NEW i \in 1..N, i - 1 \in P PROVE i \in P
    <3> DEFINE t == s[i]
    <3>1. t \in D /\ round[t] \in Nat /\ round[t] >= 1 /\ level[t] \in Nat
      BY <1>2, <1>13, <2>0
    <3>2. ASSUME plan[t].dependsOn = {} PROVE 1 + level[t] <= round[t]
      BY <3>1, <3>2, <1>13
    <3>3. ASSUME plan[t].dependsOn # {} PROVE 1 + level[t] <= round[t]
      <4>1. PICK d \in plan[t].dependsOn : level[t] = 1 + level[d]
        BY <3>1, <3>3, <1>11, <1>13 DEF Highest
      <4>2. d \in D /\ \E j \in 1..(i - 1) : d = s[j]
        BY <3>1, <1>1 DEF IdsKnown
      <4>3. 1 + level[d] <= round[d]
        BY <4>2, <2>2
      <4>4. round[d] < round[t] /\ round[d] \in Nat /\ level[d] \in Nat
        BY <3>1, <4>2, <1>13, <2>0
      <4>5. QED
        BY <3>1, <4>1, <4>3, <4>4
    <3>4. 1 + level[s[i]] <= round[s[i]]
      BY <3>2, <3>3
    <3>5. \A j \in 1..i : j = i \/ j \in 1..(i - 1)
      BY <1>1
    <3>6. QED
      BY <3>4, <3>5, <2>2, <1>1
  <2>3. 0..N \subseteq P
    <3> HIDE DEF P
    <3> QED BY <2>1, <2>2, <1>1, Induction
  <2>4. N \in P
    BY <2>3, <1>1
  <2>5. QED
    BY <2>4, <1>2
<1>16. ASSUME NEW t \in D
       PROVE  1 + level[t] = Min({round[t] : round \in Rounds(plan)})
  <2> DEFINE T == {round[t] : round \in Rounds(plan)}
  <2>1. first[t] \in T
    BY <1>14
  <2>2. 1 + level[t] \in T
    BY <2>1
  <2>3. \A m \in T : 1 + level[t] <= m
    BY <1>15
  <2>4. T \in SUBSET Nat
    BY <1>1 DEF Rounds
  <2> HIDE DEF T
  <2>5. Min(T) \in T /\ Min(T) <= 1 + level[t]
    BY <2>2, <2>4, LeastIsFirst
  <2>6. 1 + level[t] <= Min(T)
    BY <2>3, <2>5
  <2>7. QED
    BY <2>2, <2>4, <2>5, <2>6 DEF T
<1>17. QED
  BY <1>10, <1>14, <1>16

\* The invariant of the task plan: what was accepted passed the validator.
AcceptedValid ==
  /\ DOMAIN accepted \subseteq Id
  /\ \A t \in DOMAIN accepted : accepted[t] \in Declarations
  /\ Valid(accepted, External)

\* The validator finds nothing to report about a plan without tasks.
LEMMA EmptyPlan == ASSUME NEW external PROVE Valid(<<>>, external)
<1>1. DOMAIN <<>> = {}
  OBVIOUS
<1>2. Cyclic(<<>>) = {}
  BY <1>1 DEF Cyclic
<1>3. QED
  BY <1>1, <1>2 DEF Valid, IdsKnown, OneProducerEach, InputsReachable, WritesDeclared

\* Every plan that addTasks has accepted is valid.
LEMMA PlanStaysValid == PlanSpec => []AcceptedValid
<1>1. PlanInit => AcceptedValid
  <2>1. DOMAIN <<>> = {}
    OBVIOUS
  <2>2. QED
    BY <2>1, EmptyPlan DEF PlanInit, AcceptedValid
<1>2. AcceptedValid /\ [PlanNext]_planVars => AcceptedValid'
  <2> SUFFICES ASSUME AcceptedValid, [PlanNext]_planVars PROVE AcceptedValid'
    OBVIOUS
  <2>1. CASE UNCHANGED planVars
    BY <2>1 DEF AcceptedValid, planVars
  <2>2. ASSUME NEW ids \in SUBSET Id, AddTasks(ids) PROVE AcceptedValid'
    <3>1. PICK batch \in [ids -> Declarations] :
            Valid(Combined(batch), External) /\ accepted' = Combined(batch)
      BY <2>2 DEF AddTasks, Acceptable
    <3>2. DOMAIN Combined(batch) = DOMAIN accepted \union ids
      BY DEF Combined
    <3>3. \A t \in DOMAIN Combined(batch) : Combined(batch)[t] \in Declarations
      BY <3>2 DEF AcceptedValid, Combined
    <3> DEFINE grown == Combined(batch)
    <3> HIDE DEF grown
    <3>4. /\ accepted' = grown /\ Valid(grown, External)
          /\ DOMAIN grown = DOMAIN accepted \union ids
          /\ \A t \in DOMAIN grown : grown[t] \in Declarations
      BY <3>1, <3>2, <3>3 DEF grown
    <3>5. QED
      BY <3>4 DEF AcceptedValid
  <2>3. QED
    BY <2>1, <2>2 DEF PlanNext
<1>3. QED
  BY <1>1, <1>2, PTL DEF PlanSpec

\* Accepted plans are finite.
LEMMA AcceptedIsFinite == AcceptedValid => FinitePlan(accepted)
BY IdAssumption, FS_Subset DEF AcceptedValid, FinitePlan

\* The schedules of the accepted plan.
LEMMA SchedulesAreRounds == Schedules = Rounds(accepted)
BY DEF Schedules, Rounds, Size

\* An accepted plan can be run to its end, in the order the validator returns
\* and by the levels it computes, and no round comes earlier than a level.
THEOREM OrderRuns == PlanSpec => []OrderIsRunnable
<1>1. AcceptedValid => OrderIsRunnable
  <2> SUFFICES ASSUME AcceptedValid PROVE OrderIsRunnable
    OBVIOUS
  <2>1. FinitePlan(accepted) /\ IdsKnown(accepted) /\ Cyclic(accepted) = {}
    BY AcceptedIsFinite DEF AcceptedValid, Valid
  <2> DEFINE order == TopologicalOrder(accepted)
  <2>2. /\ order \in Seq(DOMAIN accepted) /\ Len(order) = Size(accepted)
        /\ ToSet(order) = DOMAIN accepted
        /\ \A i \in 1..Len(order) :
             accepted[order[i]].dependsOn \subseteq {order[j] : j \in 1..(i - 1)}
    BY <2>1, OrderOfValid
  <2> HIDE DEF order
  <2>3. DOMAIN order = 1..Len(order)
    BY <2>2
  <2>4. /\ Schedules # {}
        /\ \A t \in DOMAIN accepted :
             1 + LevelOf(accepted)[t] = Min({round[t] : round \in Schedules})
    BY <2>1, LevelIsEarliest, SchedulesAreRounds
  <2>5. QED
    BY <2>2, <2>3, <2>4 DEF OrderIsRunnable, order, Size
<1>2. QED
  BY <1>1, PlanStaysValid, PTL

\* What a task of an accepted plan consumes is produced by exactly one task,
\* which every schedule runs before.
THEOREM InputsFirst == PlanSpec => []InputsComeFirst
<1>1. AcceptedValid => InputsComeFirst
  <2> SUFFICES ASSUME AcceptedValid,
                      NEW t \in DOMAIN accepted, NEW a \in accepted[t].consumes \ External
               PROVE  LET producers == {p \in DOMAIN accepted : a \in accepted[p].produces}
                      IN  /\ Cardinality(producers) = 1
                          /\ \A round \in Schedules : \A p \in producers : round[p] < round[t]
    BY DEF InputsComeFirst
  <2> DEFINE producers == {p \in DOMAIN accepted : a \in accepted[p].produces}
  <2>1. \A round \in Schedules : \A q \in Ancestors(accepted)[t] :
          q \in DOMAIN accepted /\ round[q] < round[t]
    BY AcceptedIsFinite, AncestorsComeFirst, SchedulesAreRounds
  <2>2. PICK p \in Ancestors(accepted)[t] : a \in accepted[p].produces
    BY DEF AcceptedValid, Valid, InputsReachable
  <2>3. Schedules # {}
    BY AcceptedIsFinite, LevelIsEarliest, SchedulesAreRounds DEF AcceptedValid, Valid
  <2>4. p \in DOMAIN accepted
    BY <2>1, <2>2, <2>3
  <2>5. \A q \in DOMAIN accepted : a \in accepted[q].produces => q = p
    BY <2>2, <2>4 DEF AcceptedValid, Valid, OneProducerEach
  <2>6. producers = {p}
    BY <2>2, <2>4, <2>5
  <2>7. Cardinality(producers) = 1
    BY <2>6, FS_Singleton
  <2>8. QED
    BY <2>1, <2>2, <2>6, <2>7
<1>2. QED
  BY <1>1, PlanStaysValid, PTL

\* A sequence whose elements begin another is a prefix of it, and conversely.
LEMMA EqualElementsPrefix ==
  ASSUME NEW b \in Seq(STRING), NEW c \in Seq(STRING)
  PROVE  IsPrefix(b, c) <=> Len(b) <= Len(c) /\ \A i \in 1..Len(b) : b[i] = c[i]
<1>1. ASSUME IsPrefix(b, c) PROVE Len(b) <= Len(c) /\ \A i \in 1..Len(b) : b[i] = c[i]
  <2>1. Len(b) <= Len(c) /\ SubSeq(b, 1, Len(b)) = SubSeq(c, 1, Len(b))
    BY <1>1 DEF IsPrefix
  <2>2. \A i \in 1..Len(b) : SubSeq(b, 1, Len(b))[i] = b[i] /\ SubSeq(c, 1, Len(b))[i] = c[i]
    BY <2>1
  <2>3. QED
    BY <2>1, <2>2
<1>2. ASSUME Len(b) <= Len(c), \A i \in 1..Len(b) : b[i] = c[i] PROVE IsPrefix(b, c)
  <2>1. SubSeq(b, 1, Len(b)) = SubSeq(c, 1, Len(b))
    BY <1>2
  <2>2. QED
    BY <1>2, <2>1 DEF IsPrefix
<1>3. QED
  BY <1>1, <1>2

\* Being a prefix is transitive.
LEMMA PrefixOfPrefix ==
  ASSUME NEW a \in Seq(STRING), NEW b \in Seq(STRING), NEW c \in Seq(STRING),
         IsPrefix(a, b), IsPrefix(b, c)
  PROVE  IsPrefix(a, c)
<1>1. Len(a) <= Len(b) /\ \A i \in 1..Len(a) : a[i] = b[i]
  BY EqualElementsPrefix
<1>2. Len(b) <= Len(c) /\ \A i \in 1..Len(b) : b[i] = c[i]
  BY EqualElementsPrefix
<1>3. Len(a) <= Len(c) /\ \A i \in 1..Len(a) : a[i] = c[i]
  BY <1>1, <1>2
<1>4. QED
  BY <1>3, EqualElementsPrefix

\* Two paths above a common file overlap.
LEMMA SharedFileOverlaps ==
  ASSUME NEW p \in Seq(STRING), NEW q \in Seq(STRING), NEW f \in Seq(STRING),
         IsPrefix(p, f), IsPrefix(q, f)
  PROVE  PathsOverlap(p, q)
<1>1. Len(p) <= Len(f) /\ \A i \in 1..Len(p) : p[i] = f[i]
  BY EqualElementsPrefix
<1>2. Len(q) <= Len(f) /\ \A i \in 1..Len(q) : q[i] = f[i]
  BY EqualElementsPrefix
<1>3. CASE Len(p) <= Len(q)
  <2>1. \A i \in 1..Len(p) : p[i] = q[i]
    BY <1>1, <1>2, <1>3
  <2>2. QED
    BY <2>1, <1>3, EqualElementsPrefix DEF PathsOverlap
<1>4. CASE Len(q) <= Len(p)
  <2>1. \A i \in 1..Len(q) : q[i] = p[i]
    BY <1>1, <1>2, <1>4
  <2>2. QED
    BY <2>1, <1>4, EqualElementsPrefix DEF PathsOverlap
<1>5. QED
  BY <1>3, <1>4

\* The root of a boundary is the boundary or a proper prefix of it.
LEMMA RootIsPrefix ==
  ASSUME NEW b \in Seq(STRING)
  PROVE  /\ Root(b) \in Seq(STRING) /\ IsPrefix(Root(b), b)
         /\ ~IsGlob(b) => Root(b) = b
<1>1. CASE ~IsGlob(b)
  <2>1. SubSeq(b, 1, Len(b)) = SubSeq(b, 1, Len(b)) /\ Len(b) <= Len(b)
    OBVIOUS
  <2>2. QED
    BY <1>1 DEF Root, IsPrefix
<1>2. CASE IsGlob(b)
  <2> DEFINE r == SubSeq(b, 1, Len(b) - 1)
  <2>1. Root(b) = r /\ r \in Seq(STRING) /\ Len(r) = Len(b) - 1 /\ Len(r) \in Nat
    BY <1>2 DEF Root, IsGlob
  <2>2. \A i \in 1..Len(r) : r[i] = b[i]
    BY <2>1
  <2> HIDE DEF r
  <2>3. IsPrefix(r, b)
    BY <2>1, <2>2, EqualElementsPrefix
  <2>4. QED
    BY <1>2, <2>1, <2>3
<1>3. QED
  BY <1>1, <1>2

\* A file that matches two paths whose texts do not overlap lies below the glob
\* of one of them.
LEMMA SharedFileIsHidden ==
  ASSUME NEW p \in Seq(STRING), NEW q \in Seq(STRING), NEW f \in Seq(STRING),
         Matches(p, f), Matches(q, f), ~PathsOverlap(p, q)
  PROVE  HiddenBelow(p, q) \/ HiddenBelow(q, p)
<1>1. PathsOverlap(Root(p), Root(q))
  BY RootIsPrefix, SharedFileOverlaps DEF Matches
<1>2. ASSUME NEW a \in Seq(STRING), NEW b \in Seq(STRING), IsPrefix(Root(a), Root(b)),
             ~PathsOverlap(a, b)
      PROVE  HiddenBelow(a, b)
  <2>1. IsPrefix(Root(a), b)
    BY <1>2, RootIsPrefix, PrefixOfPrefix
  <2>2. IsGlob(a)
    BY <1>2, <2>1, RootIsPrefix DEF PathsOverlap
  <2>3. Root(a) # b
    BY <1>2, RootIsPrefix DEF PathsOverlap
  <2>4. QED
    BY <1>2, <2>1, <2>2, <2>3 DEF HiddenBelow, IsStrictPrefix
<1>3. QED
  BY <1>1, <1>2 DEF PathsOverlap

\* Two tasks of an accepted plan that may run side by side, and may both write a
\* file, get at it through a contract, or by a glob of the one and a path of the
\* other below its directory.
THEOREM SharedWritesAreExplained == PlanSpec => []SharedWritesExplained
<1>1. AcceptedValid => SharedWritesExplained
  <2> SUFFICES ASSUME AcceptedValid,
                      NEW s \in DOMAIN accepted, NEW t \in DOMAIN accepted, SideBySide(s, t),
                      NEW f \in Writable(s), f \in Writable(t),
                      f \notin Opened(Contract[s]), f \notin Opened(Contract[t])
               PROVE  \E p \in accepted[s].editablePaths, q \in accepted[t].editablePaths :
                        /\ Matches(p, f) /\ Matches(q, f)
                        /\ HiddenBelow(p, q) \/ HiddenBelow(q, p)
    BY DEF SharedWritesExplained
  <2>1. s \notin Ancestors(accepted)[t] /\ t \notin Ancestors(accepted)[s]
    <3>1. PICK round \in Schedules : round[s] = round[t]
      BY DEF SideBySide
    <3>2. round[s] \in Nat /\ round[t] \in Nat
      BY DEF Schedules
    <3>3. \A u \in DOMAIN accepted : \A a \in Ancestors(accepted)[u] : round[a] < round[u]
      BY AcceptedIsFinite, AncestorsComeFirst, SchedulesAreRounds
    <3>4. QED
      BY <3>1, <3>2, <3>3
  <2>2. ~KeptApart(accepted, s, t) /\ s # t
    BY <2>1 DEF KeptApart, SideBySide
  <2>3. ~Overlapping(accepted[s], accepted[t])
    BY <2>2 DEF AcceptedValid, Valid, WritesDeclared
  <2>4. PICK p \in accepted[s].editablePaths : Matches(p, f)
    BY DEF Writable, Opened
  <2>5. PICK q \in accepted[t].editablePaths : Matches(q, f)
    BY DEF Writable, Opened
  <2>6. p \in Seq(STRING) /\ q \in Seq(STRING) /\ f \in Seq(STRING)
    BY PathAssumption DEF AcceptedValid, Writable, Opened
  <2>7. ~PathsOverlap(p, q) /\ ~PathsOverlap(q, p)
    BY <2>3 DEF Overlapping, PathsOverlap
  <2>8. HiddenBelow(p, q) \/ HiddenBelow(q, p)
    BY <2>4, <2>5, <2>6, <2>7, SharedFileIsHidden
  <2>9. QED
    BY <2>4, <2>5, <2>8
<1>2. QED
  BY <1>1, PlanStaysValid, PTL

------------------------------------------------------------------------------

\* The order of the plan is a sequence of its tasks.
LEMMA OrderType == Order \in Seq(Task) /\ Len(Order) \in Nat /\ \A n \in 1..Len(Order) : Order[n] \in Task
<1>1. Order \in Seq(Task)
  BY PlanAssumption, OrderOfPlan DEF Order, Orders, Task
<1>2. QED
  BY <1>1

\* Where the execution of a task has begun, the task is not approved and all
\* it depends on is: this is what a step of another task must not undo.
Begun ==
  \A t \in Task : exec[t] # "none" =>
    /\ status[t] # "APPROVED"
    /\ \A d \in Plan[t].dependsOn : status[d] = "APPROVED"

\* Who works holds what it needs.
Holding == \A t \in Working : \A r \in Need(t) : holder[r] = t

\* The inductive invariant of the delivery loop.
DispatchInv == TypeOK /\ Begun /\ Holding

\* Locks and grants in the course of a batch.
LockState == [holder : [Resource -> Task \union {NoTask}], granted : SUBSET Task]

\* What no request disturbs.
Kept(acquired) ==
  \A t \in Working \union acquired.granted : \A r \in Need(t) : acquired.holder[r] = t

\* What a task needs is a resource of the plan.
LEMMA NeedsAreResources == \A t \in Task : Need(t) \subseteq Resource
BY DEF Resource

\* A request takes nothing from those that work or were granted theirs.
LEMMA TakeKeeps ==
  ASSUME NEW acquired \in LockState, Kept(acquired), NEW t \in Task
  PROVE  /\ Take(acquired, t) \in LockState /\ Kept(Take(acquired, t))
         /\ Take(acquired, t).granted \subseteq acquired.granted \union {t}
<1> DEFINE free == \A r \in Need(t) : acquired.holder[r] \in {NoTask, t}
           new == [r \in Resource |-> IF r \in Need(t) THEN t ELSE acquired.holder[r]]
<1>1. CASE ~free
  BY <1>1 DEF Take
<1>2. CASE free
  <2>1. Take(acquired, t) = [holder |-> new, granted |-> acquired.granted \union {t}]
    BY <1>2 DEF Take
  <2>2. new \in [Resource -> Task \union {NoTask}] /\ acquired.granted \in SUBSET Task
    BY DEF LockState
  <2>3. \A s \in Working \union acquired.granted \union {t} : \A r \in Need(s) : new[r] = s
    <3> SUFFICES ASSUME NEW s \in Working \union acquired.granted \union {t}, NEW r \in Need(s)
                 PROVE  new[r] = s
      OBVIOUS
    <3>1. s \in Task /\ r \in Resource /\ s # NoTask
      BY <2>2, NeedsAreResources, PlanAssumption DEF Working
    <3>2. CASE r \in Need(t)
      BY <3>1, <3>2, <1>2 DEF Kept
    <3>3. CASE r \notin Need(t)
      BY <3>1, <3>3 DEF Kept
    <3>4. QED
      BY <3>2, <3>3
  <2> HIDE DEF new
  <2>4. QED
    BY <2>1, <2>2, <2>3 DEF LockState, Kept
<1>3. QED
  BY <1>1, <1>2

\* Nor does a batch of requests, in whatever order it is made.
LEMMA AcquiredKeeps ==
  ASSUME TypeOK, Holding, NEW asking \in SUBSET Task
  PROVE  Acquired(asking) \in LockState /\ Kept(Acquired(asking))
<1> DEFINE N == Len(Order)
           base == [holder |-> holder, granted |-> {}]
           Ask(acquired, n) == IF Order[n] \in asking THEN Take(acquired, Order[n]) ELSE acquired
           Row(upTo, n) == IF n = 0 THEN base ELSE Ask(upTo[n - 1], n)
           Is(upTo) == upTo = [n \in 0..N |-> Row(upTo, n)]
           X == {acquired \in LockState : Kept(acquired)}
<1>1. N \in Nat /\ \A n \in 1..N : Order[n] \in Task
  BY OrderType
<1>2. base \in X
  BY DEF TypeOK, Holding, Kept, LockState
<1>3. ASSUME NEW acquired \in X, NEW n \in 1..N PROVE Ask(acquired, n) \in X
  BY <1>1, TakeKeeps
<1> HIDE DEF N, base, Ask, X
<1>4. \E upTo : Is(upTo)
  <2> DEFINE F == [n \in 1..N |-> [acquired \in X |-> Ask(acquired, n)]]
  <2>1. F \in [1..N -> [X -> X]]
    BY <1>3
  <2>2. \A n \in 1..N : \A acquired \in X : F[n][acquired] = Ask(acquired, n)
    OBVIOUS
  <2> HIDE DEF F
  <2>3. PICK g \in [0..N -> X] : g[0] = base /\ \A n \in 1..N : g[n] = F[n][g[n - 1]]
    <3>1. Runs(N, X, base, F) # {}
      BY <1>1, <1>2, <2>1, Recursion
    <3> QED BY <3>1 DEF Runs
  <2>4. ASSUME NEW n \in 0..N PROVE g[n] = Row(g, n)
    <3>1. n = 0 \/ (n # 0 /\ n \in 1..N /\ g[n - 1] \in X)
      BY <1>1, <2>3
    <3>2. QED
      BY <3>1, <2>2, <2>3
  <2>5. g = [n \in 0..N |-> Row(g, n)]
    <3> HIDE DEF Row
    <3> QED BY <2>3, <2>4
  <2>6. QED
    BY <2>5
<1> DEFINE upTo == CHOOSE f : Is(f)
<1>5. Is(upTo)
  <2> HIDE DEF Is
  <2> QED BY <1>4
<1>6. Acquired(asking) = upTo[N]
  BY DEF Acquired, N, base, Ask
<1> HIDE DEF upTo
<1>7. upTo[0] = base /\ \A n \in 1..N : upTo[n] = Ask(upTo[n - 1], n)
  BY <1>1, <1>5
<1> DEFINE P == {n \in 0..N : upTo[n] \in X}
<1>8. 0 \in P /\ \A n \in 1..N : n - 1 \in P => n \in P
  BY <1>1, <1>2, <1>3, <1>7
<1>9. 0..N \subseteq P
  <2> HIDE DEF P
  <2> QED BY <1>1, <1>8, Induction
<1>10. QED
  BY <1>1, <1>6, <1>9 DEF X

\* A pass hands out eligible tasks only.
LEMMA AssignedAreEligible ==
  Assignments(Plan, Order, status, InFlight, HeldLocks, Task, MaxConcurrent)
    \subseteq Eligible(Plan, status, InFlight, HeldLocks, Task)
BY DEF Assignments

\* The invariant is kept by a pass of the scheduler.
LEMMA ScheduleStep == ASSUME DispatchInv, Schedule PROVE DispatchInv'
<1> DEFINE assigned == Assignments(Plan, Order, status, InFlight, HeldLocks, Task, MaxConcurrent)
<1>1. \A t \in assigned :
        /\ t \in Task /\ t \notin InFlight /\ status[t] \notin TerminalStatus
        /\ \A d \in Plan[t].dependsOn : status[d] = "APPROVED"
  BY AssignedAreEligible DEF Eligible, Task, DependenciesApproved
<1> HIDE DEF assigned
<1>2. /\ exec' = [t \in Task |-> IF t \in assigned THEN "assigned" ELSE exec[t]]
      /\ UNCHANGED <<status, holder>>
  BY DEF Schedule, assigned
<1>3. TypeOK'
  BY <1>2 DEF DispatchInv, TypeOK, ExecStage
<1>4. Begun'
  BY <1>1, <1>2 DEF DispatchInv, Begun, TerminalStatus
<1>5. Working' \subseteq Working
  BY <1>2 DEF Working
<1>6. Holding'
  BY <1>2, <1>5 DEF DispatchInv, Holding, Need
<1>7. QED
  BY <1>3, <1>4, <1>6 DEF DispatchInv

\* The invariant is kept by a batch of executions.
LEMMA ExecuteStep == ASSUME DispatchInv, Execute PROVE DispatchInv'
<1> DEFINE assigned == {t \in Task : exec[t] = "assigned"}
           acquired == Acquired(assigned \ Denied)
<1>1. acquired \in LockState /\ Kept(acquired)
  BY AcquiredKeeps DEF DispatchInv
<1> HIDE DEF acquired
<1>2. /\ status' = [t \in Task |-> IF t \in assigned THEN "RUNNING" ELSE status[t]]
      /\ holder' = acquired.holder
      /\ exec' = [t \in Task |->
                    IF t \notin assigned THEN exec[t]
                    ELSE IF t \in Denied THEN "none"
                    ELSE IF t \in acquired.granted THEN "working" ELSE "refused"]
  BY DEF Execute, acquired
<1>3. TypeOK'
  BY <1>1, <1>2 DEF DispatchInv, TypeOK, ExecStage, TaskStatus, LockState
<1>4. \A t \in Task : exec'[t] # "none" => exec[t] # "none"
  BY <1>2
<1>5. \A t \in Task : /\ status[t] = "APPROVED" => status'[t] = "APPROVED"
                      /\ status'[t] = "APPROVED" => status[t] = "APPROVED"
  BY <1>2 DEF DispatchInv, Begun
<1>6. \A t \in Task : Plan[t].dependsOn \subseteq Task
  BY PlanAssumption DEF Valid, IdsKnown, Task
<1>7. Begun'
  BY <1>4, <1>5, <1>6 DEF DispatchInv, Begun
<1>8. Working' \subseteq Working \union acquired.granted
  BY <1>2 DEF Working
<1>9. Holding'
  BY <1>1, <1>2, <1>8 DEF Holding, Kept, Need
<1>10. QED
  BY <1>3, <1>7, <1>9 DEF DispatchInv

\* The end of an execution changes the status of a task that was not approved,
\* so nothing that has begun depends on it.
LEMMA EndStep ==
  ASSUME DispatchInv, NEW t \in Task, exec[t] # "none", NEW outcome \in TaskStatus,
         status' = [status EXCEPT ![t] = outcome],
         exec' = [exec EXCEPT ![t] = "none"]
  PROVE  /\ status' \in [Task -> TaskStatus] /\ exec' \in [Task -> ExecStage]
         /\ Begun' /\ Working' \subseteq Working \ {t}
<1>1. /\ \A s \in Task \ {t} : status'[s] = status[s] /\ exec'[s] = exec[s]
      /\ exec'[t] = "none" /\ status[t] # "APPROVED"
  BY DEF DispatchInv, TypeOK, Begun
<1>2. \A s \in Task : Plan[s].dependsOn \subseteq Task
  BY PlanAssumption DEF Valid, IdsKnown, Task
<1>3. Begun'
  BY <1>1, <1>2 DEF DispatchInv, Begun
<1>4. QED
  BY <1>1, <1>3 DEF DispatchInv, TypeOK, ExecStage, Working

\* The invariant is kept by every step.
LEMMA DispatchStep == DispatchInv /\ [Next]_vars => DispatchInv'
<1> SUFFICES ASSUME DispatchInv, [Next]_vars PROVE DispatchInv'
  OBVIOUS
<1>1. CASE UNCHANGED vars
  BY <1>1 DEF vars, DispatchInv, TypeOK, Begun, Holding, Working, Need
<1>2. ASSUME NEW t \in Task, RecordRefusal(t) PROVE DispatchInv'
  <2>1. Begun' /\ TypeOK' /\ Working' \subseteq Working /\ holder' = holder
    BY <1>2, EndStep DEF RecordRefusal, TaskStatus, TypeOK, DispatchInv
  <2>2. QED
    BY <2>1 DEF DispatchInv, Holding, Need
<1>3. ASSUME NEW t \in Task, NEW outcome \in {"APPROVED", "FAILED"}, Finish(t, outcome)
      PROVE  DispatchInv'
  <2>1. /\ Begun' /\ Working' \subseteq Working \ {t}
        /\ status' \in [Task -> TaskStatus] /\ exec' \in [Task -> ExecStage]
        /\ holder' = [r \in Resource |-> IF holder[r] = t THEN NoTask ELSE holder[r]]
    BY <1>3, EndStep DEF Finish, TaskStatus
  <2>2. TypeOK'
    BY <2>1 DEF DispatchInv, TypeOK
  <2>3. Holding'
    BY <2>1, NeedsAreResources DEF DispatchInv, Holding, Need, Working
  <2>4. QED
    BY <2>1, <2>2, <2>3 DEF DispatchInv
<1>4. QED
  BY <1>1, <1>2, <1>3, ScheduleStep, ExecuteStep DEF Next

\* The invariant holds in every reachable state.
LEMMA DispatchInvariant == Spec => []DispatchInv
<1>1. Init => DispatchInv
  BY PlanAssumption DEF Init, DispatchInv, TypeOK, Begun, Holding, Working, ExecStage
<1>2. QED
  BY <1>1, DispatchStep, PTL DEF Spec

\* Agents work on a task only while all it depends on is approved, for every
\* valid plan, capacity and set of denied tasks.
THEOREM WorksOnApproved == Spec => []WorkOnApproved
<1>1. DispatchInv => WorkOnApproved
  BY DEF DispatchInv, Begun, WorkOnApproved, Working
<1>2. QED
  BY <1>1, DispatchInvariant, PTL

\* No resource is used by the agents of two tasks at once.
THEOREM LocksKeepApart == Spec => []LocksApart
<1>1. DispatchInv => LocksApart
  BY DEF DispatchInv, Holding, LocksApart
<1>2. QED
  BY <1>1, DispatchInvariant, PTL

\* An approved task is never run again and keeps its status.
THEOREM ApprovedIsKept == Spec => ApprovedStays
<1>1. DispatchInv /\ [Next]_vars =>
        [\A t \in Task : status[t] = "APPROVED" => status'[t] = "APPROVED"]_status
  <2> SUFFICES ASSUME DispatchInv, [Next]_vars, NEW s \in Task, status[s] = "APPROVED"
               PROVE  status'[s] = "APPROVED"
    OBVIOUS
  <2>1. exec[s] = "none"
    BY DEF DispatchInv, Begun
  <2>2. CASE UNCHANGED vars \/ Schedule
    BY <2>2 DEF vars, Schedule
  <2>3. CASE Execute
    BY <2>1, <2>3 DEF Execute
  <2>4. ASSUME NEW t \in Task, RecordRefusal(t) PROVE status'[s] = "APPROVED"
    BY <2>1, <2>4 DEF RecordRefusal, DispatchInv, TypeOK
  <2>5. ASSUME NEW t \in Task, NEW outcome \in {"APPROVED", "FAILED"}, Finish(t, outcome)
        PROVE  status'[s] = "APPROVED"
    BY <2>1, <2>5 DEF Finish, DispatchInv, TypeOK
  <2>6. QED
    BY <2>2, <2>3, <2>4, <2>5 DEF Next
<1>2. QED
  BY <1>1, DispatchInvariant, PTL DEF Spec, ApprovedStays

------------------------------------------------------------------------------

\* Tasks that declare no conflict with one another, either way.
Compatible(s, t) == s \notin Plan[t].conflictsWith /\ t \notin Plan[s].conflictsWith

\* What is handed out is compatible with what is in flight.
AssignedCompatible ==
  \A s \in InFlight, t \in Task : exec[t] = "assigned" => Compatible(s, t)

\* A task that declares a conflict with another is not started while the other
\* is in flight from an earlier pass.
ConflictsKeepToOnePass ==
  [][\A s \in InFlight, t \in Task :
       exec[t] = "assigned" /\ exec'[t] \in {"working", "refused"} => Compatible(s, t)]_vars

\* Passes hand out what is compatible, and only a pass hands out.
LEMMA CompatibleStep == DispatchInv /\ AssignedCompatible /\ [Next]_vars => AssignedCompatible'
<1> SUFFICES ASSUME DispatchInv, AssignedCompatible, [Next]_vars,
                    NEW s \in InFlight', NEW t \in Task, exec'[t] = "assigned"
             PROVE  Compatible(s, t)
  BY DEF AssignedCompatible, Compatible
<1>1. exec \in [Task -> ExecStage] /\ s \in Task
  BY DEF DispatchInv, TypeOK, InFlight
<1>2. CASE UNCHANGED vars
  BY <1>2 DEF vars, AssignedCompatible, InFlight
<1>3. CASE Schedule
  <2> DEFINE assigned == Assignments(Plan, Order, status, InFlight, HeldLocks, Task, MaxConcurrent)
  <2>1. assigned \subseteq Eligible(Plan, status, InFlight, HeldLocks, Task)
    BY AssignedAreEligible
  <2> HIDE DEF assigned
  <2>2. /\ exec' = [u \in Task |-> IF u \in assigned THEN "assigned" ELSE exec[u]]
        /\ \A u \in Task : exec[u] # "assigned"
    BY <1>3 DEF Schedule, assigned
  <2>3. s \in InFlight /\ t \in assigned
    BY <2>2 DEF InFlight
  <2>4. ~ConflictsWithActive(Plan, InFlight, t)
    BY <2>1, <2>3 DEF Eligible
  <2> QED
    BY <1>1, <2>3, <2>4 DEF ConflictsWithActive, Compatible, Task
<1>4. CASE Execute
  <2>1. exec'[t] # "assigned"
    BY <1>4 DEF Execute
  <2> QED
    BY <2>1
<1>5. ASSUME NEW u \in Task, exec' = [exec EXCEPT ![u] = "none"] PROVE Compatible(s, t)
  <2>1. s \in InFlight /\ exec[t] = "assigned"
    BY <1>1, <1>5 DEF InFlight
  <2> QED
    BY <2>1 DEF AssignedCompatible
<1> QED
  BY <1>2, <1>3, <1>4, <1>5 DEF Next, RecordRefusal, Finish

\* A conflict is only ever worked on within a pass: no task is started beside
\* one in flight from an earlier pass that either declares a conflict with.
THEOREM ConflictsWaitForThePass == Spec => ConflictsKeepToOnePass
<1>1. Init => AssignedCompatible
  BY DEF Init, AssignedCompatible
<1>2. AssignedCompatible /\ [Next]_vars =>
        [\A s \in InFlight, t \in Task :
           exec[t] = "assigned" /\ exec'[t] \in {"working", "refused"} => Compatible(s, t)]_vars
  BY DEF AssignedCompatible
<1> QED
  BY <1>1, <1>2, CompatibleStep, DispatchInvariant, PTL DEF Spec, ConflictsKeepToOnePass

\* Of a finite set of numbers, those with fewer than m smaller ones are at most m.
LEMMA FirstAreFew ==
  ASSUME NEW n \in Nat, NEW E \in SUBSET (1..n), NEW m \in Nat,
         \A k \in E : Cardinality({j \in 1..(k - 1) : j \in E}) < m
  PROVE  IsFiniteSet(E) /\ Cardinality(E) <= m
<1>1. IsFiniteSet(E)
  <2>1. n \in Int /\ 1 \in Int
    OBVIOUS
  <2> QED
    BY <2>1, FS_Interval, FS_Subset
<1>2. CASE E = {}
  BY <1>1, <1>2, FS_EmptySet
<1>3. CASE E # {}
  <2>1. E \in SUBSET Nat /\ \A k \in E : k <= n
    OBVIOUS
  <2>2. PICK top \in E : \A k \in E : k <= top
    BY <1>3, <2>1, BoundedHasMax
  <2>3. top \in 1..n
    BY <2>2
  <2> DEFINE below == {j \in 1..(top - 1) : j \in E}
  <2>4. IsFiniteSet(below)
    <3>1. below \subseteq E
      OBVIOUS
    <3> QED
      BY <1>1, <3>1, FS_Subset
  <2>5. E = below \union {top} /\ top \notin below
    <3>1. \A k \in E : k \in Int /\ 1 <= k /\ k <= top
      BY <2>2
    <3>2. \A k \in 1..n : k \in 1..(top - 1) <=> k < top
      BY <2>3
    <3>3. \A k \in E : k \in below <=> k # top
      BY <2>3, <3>1, <3>2
    <3>4. below \subseteq E
      OBVIOUS
    <3> HIDE DEF below
    <3> QED
      BY <3>3, <3>4
  <2> HIDE DEF below
  <2>6. Cardinality(E) = Cardinality(below) + 1
    BY <2>4, <2>5, FS_AddElement
  <2>7. Cardinality(below) < m
    BY <2>2 DEF below
  <2>8. Cardinality(below) \in Nat
    BY <2>4, FS_CardinalityType
  <2>9. Cardinality(E) <= m
    BY <2>6, <2>7, <2>8
  <2> QED
    BY <1>1, <2>9
<1> QED
  BY <1>2, <1>3

\* The tasks that are handed out or in flight.
Underway == {t \in Task : exec[t] # "none"}

CapacityKept == Cardinality(Underway) <= MaxConcurrent

\* A pass hands out no more than there is room for.
LEMMA AssignmentsFit ==
  ASSUME DispatchInv, Cardinality(InFlight) <= MaxConcurrent
  PROVE  LET assigned == Assignments(Plan, Order, status, InFlight, HeldLocks, Task, MaxConcurrent)
         IN  /\ assigned \subseteq Task /\ IsFiniteSet(assigned) /\ IsFiniteSet(InFlight)
             /\ Cardinality(assigned) + Cardinality(InFlight) <= MaxConcurrent
<1> DEFINE eligible == Eligible(Plan, status, InFlight, HeldLocks, Task)
           E == {k \in DOMAIN Order : /\ Order[k] \in eligible
                                      /\ HasRoom(k, Order, eligible, InFlight, MaxConcurrent)}
           assigned == {Order[k] : k \in E}
           n == Len(Order)
           m == MaxConcurrent - Cardinality(InFlight)
<1>1. IsFiniteSet(InFlight) /\ Cardinality(InFlight) \in Nat
  <2>1. InFlight \in SUBSET Task /\ IsFiniteSet(Task)
    BY PlanAssumption DEF InFlight
  <2> QED
    BY <2>1, FS_Subset, FS_CardinalityType
<1>2. m \in Nat
  BY <1>1, PlanAssumption
<1>3. n \in Nat /\ DOMAIN Order = 1..n /\ \A k \in 1..n : Order[k] \in Task
  BY OrderType
<1>4. E \in SUBSET (1..n)
  BY <1>3
<1>5. ASSUME NEW k \in E PROVE Cardinality({j \in 1..(k - 1) : j \in E}) < m
  <2> DEFINE before == {j \in 1..(k - 1) : Order[j] \in eligible}
             among == {j \in 1..(k - 1) : j \in E}
  <2>1. Cardinality(InFlight) + Cardinality(before) < MaxConcurrent
    BY DEF HasRoom
  <2>2. k - 1 \in Int /\ before \subseteq 1..(k - 1)
    BY <1>3, <1>4
  <2>3. IsFiniteSet(before)
    BY <2>2, FS_Interval, FS_Subset
  <2>4. among \subseteq before
    OBVIOUS
  <2> HIDE DEF before, among
  <2>5. Cardinality(among) <= Cardinality(before) /\ Cardinality(among) \in Nat /\ Cardinality(before) \in Nat
    BY <2>3, <2>4, FS_Subset, FS_CardinalityType
  <2>6. Cardinality(among) < m
    BY <1>1, <2>1, <2>5, PlanAssumption
  <2> QED
    BY <2>6 DEF among
<1>6. IsFiniteSet(E) /\ Cardinality(E) <= m
  <2> HIDE DEF E, m, n
  <2> QED
    BY <1>2, <1>3, <1>4, <1>5, FirstAreFew
<1>7. IsFiniteSet(assigned) /\ Cardinality(assigned) <= Cardinality(E)
  <2> DEFINE f == [k \in E |-> Order[k]]
  <2>1. f \in Surjection(E, assigned)
    <3> HIDE DEF E
    <3> QED BY DEF Surjection
  <2> HIDE DEF E, assigned
  <2> QED
    BY <1>6, <2>1, FS_Surjection
<1>8. assigned \subseteq Task
  BY <1>3
<1>9. assigned = Assignments(Plan, Order, status, InFlight, HeldLocks, Task, MaxConcurrent)
  BY DEF Assignments
<1>10. Cardinality(assigned) \in Nat /\ Cardinality(E) \in Nat
  <2> HIDE DEF assigned, E
  <2> QED BY <1>6, <1>7, FS_CardinalityType
<1>11. Cardinality(assigned) + Cardinality(InFlight) <= MaxConcurrent
  <2> HIDE DEF assigned, E
  <2> QED BY <1>1, <1>6, <1>7, <1>10, PlanAssumption
<1> HIDE DEF assigned
<1> QED
  BY <1>1, <1>7, <1>8, <1>9, <1>11

\* Fewer tasks underway fit where more did.
LEMMA CapacityLeft ==
  ASSUME CapacityKept, \A t \in Task : exec'[t] # "none" => exec[t] # "none"
  PROVE  CapacityKept'
<1>1. Underway' \subseteq Underway /\ Underway \subseteq Task
  BY DEF Underway
<1>2. IsFiniteSet(Underway)
  BY <1>1, PlanAssumption, FS_Subset
<1>3. /\ Cardinality(Underway') <= Cardinality(Underway)
      /\ Cardinality(Underway') \in Nat /\ Cardinality(Underway) \in Nat
  BY <1>1, <1>2, FS_Subset, FS_CardinalityType
<1> QED
  BY <1>3, PlanAssumption DEF CapacityKept

\* The loop has never more executions underway than the capacity it asks with,
\* however many passes it makes before any of them ends.
THEOREM CapacityIsKept == Spec => []CapacityKept
<1>1. Init => CapacityKept
  <2> SUFFICES ASSUME Init PROVE CapacityKept
    OBVIOUS
  <2>1. Underway = {}
    BY DEF Init, Underway
  <2> QED
    BY <2>1, FS_EmptySet, PlanAssumption DEF CapacityKept
<1>2. DispatchInv /\ CapacityKept /\ [Next]_vars => CapacityKept'
  <2> SUFFICES ASSUME DispatchInv, CapacityKept, [Next]_vars PROVE CapacityKept'
    OBVIOUS
  <2>1. exec \in [Task -> ExecStage]
    BY DEF DispatchInv, TypeOK
  <2>2. CASE UNCHANGED vars
    BY <2>2, CapacityLeft DEF vars
  <2>3. CASE Schedule
    <3> DEFINE assigned == Assignments(Plan, Order, status, InFlight, HeldLocks, Task, MaxConcurrent)
    <3>1. /\ exec' = [t \in Task |-> IF t \in assigned THEN "assigned" ELSE exec[t]]
          /\ \A t \in Task : exec[t] # "assigned"
      BY <2>3 DEF Schedule
    <3>2. InFlight = Underway
      BY <2>1, <3>1 DEF InFlight, Underway, ExecStage
    <3>3. /\ assigned \subseteq Task /\ IsFiniteSet(assigned) /\ IsFiniteSet(InFlight)
          /\ Cardinality(assigned) + Cardinality(InFlight) <= MaxConcurrent
      BY <3>2, AssignmentsFit DEF CapacityKept
    <3> HIDE DEF assigned
    <3>4. Underway' = assigned \union InFlight
      BY <3>1, <3>2, <3>3 DEF Underway
    <3>5. Cardinality(assigned \union InFlight)
            = Cardinality(assigned) + Cardinality(InFlight) - Cardinality(assigned \intersect InFlight)
      BY <3>3, FS_Union
    <3>6. /\ Cardinality(assigned) \in Nat /\ Cardinality(InFlight) \in Nat
          /\ Cardinality(assigned \intersect InFlight) \in Nat
      <4>1. IsFiniteSet(assigned \intersect InFlight)
        BY <3>3, FS_Subset
      <4> QED
        BY <3>3, <4>1, FS_CardinalityType
    <3> QED
      BY <3>3, <3>4, <3>5, <3>6, PlanAssumption DEF CapacityKept
  <2>4. CASE Execute
    <3>1. \A t \in Task : exec'[t] # "none" => exec[t] # "none"
      BY <2>4 DEF Execute
    <3> QED
      BY <3>1, CapacityLeft
  <2>5. ASSUME NEW u \in Task, exec' = [exec EXCEPT ![u] = "none"] PROVE CapacityKept'
    BY <2>1, <2>5, CapacityLeft
  <2> QED
    BY <2>2, <2>3, <2>4, <2>5 DEF Next, RecordRefusal, Finish
<1> QED
  BY <1>1, <1>2, DispatchInvariant, PTL DEF Spec

\* A loop that asks for one task at a time keeps conflicts apart altogether.
THEOREM OneAtATimeKeepsConflictsApart ==
  ASSUME MaxConcurrent = 1
  PROVE  Spec => []ConflictsApart
<1>1. CapacityKept => ConflictsApart
  <2> SUFFICES ASSUME CapacityKept, NEW s \in Working, NEW t \in Working
               PROVE  t \notin Plan[s].conflictsWith
    BY DEF ConflictsApart
  <2>1. s \in Underway /\ t \in Underway /\ s \in Task
    BY DEF Working, Underway
  <2>2. s = t
    <3>1. Underway \subseteq Task /\ IsFiniteSet(Underway)
      BY PlanAssumption, FS_Subset DEF Underway
    <3>2. {s, t} \subseteq Underway
      BY <2>1
    <3>3. IsFiniteSet({s, t}) /\ Cardinality({s, t}) <= Cardinality(Underway)
      BY <3>1, <3>2, FS_Subset
    <3>4. Cardinality({s, t}) \in Nat /\ Cardinality(Underway) \in Nat
      BY <3>1, <3>3, FS_CardinalityType
    <3>5. s # t => Cardinality({s, t}) = 2
      <4>1. IsFiniteSet({s}) /\ Cardinality({s}) = 1 /\ {s, t} = {s} \union {t}
        BY FS_Singleton
      <4> QED
        BY <4>1, FS_AddElement
    <3> QED
      BY <3>3, <3>4, <3>5 DEF CapacityKept
  <2>3. t \notin Plan[t].conflictsWith
    BY <2>1, <2>2, PlanAssumption DEF Valid, IdsKnown, Task
  <2> QED
    BY <2>2, <2>3
<1> QED
  BY <1>1, CapacityIsKept, PTL

==============================================================================
