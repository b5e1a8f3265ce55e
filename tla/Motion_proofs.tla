---------------------------- MODULE Motion_proofs ----------------------------
(***************************************************************************)
(* Proofs about the calculation and the execution of a movement: the search  *)
(* for the axis that limits a group, for any number of axes, ways and        *)
(* limits.                                                                 *)
(***************************************************************************)
EXTENDS MC_Motion, DataLemmas

Positive == Nat \ {0}

(***************************************************************************)
(* The search.  Of the shares acc / ds one is the least, and an axis with    *)
(* the least one exceeds no limit: it is never dropped, so candidates are    *)
(* left as long as the search goes on.                                     *)
(***************************************************************************)
LEMMA Product ==
  ASSUME NEW a \in Nat, NEW b \in Nat
  PROVE  a * b \in Nat
  OBVIOUS

LEMMA ProductMonotone ==
  ASSUME NEW x \in Nat, NEW y \in Nat, x <= y, NEW z \in Nat
  PROVE  x * z <= y * z
  OBVIOUS

LEMMA ProductCancel ==
  ASSUME NEW x \in Nat, NEW y \in Nat, NEW z \in Positive, x * z <= y * z
  PROVE  x <= y
  BY DEF Positive

(* a / b <= c / d <= e / f                                                 *)
LEMMA SharesTransitive ==
  ASSUME NEW a \in Positive, NEW b \in Positive, NEW c \in Positive, NEW d \in Positive,
         NEW e \in Positive, NEW f \in Positive,
         a * d <= c * b, c * f <= e * d
  PROVE  a * f <= e * b
<1> USE DEF Positive
<1>1. /\ a * d \in Nat /\ c * b \in Nat /\ c * f \in Nat /\ e * d \in Nat
      /\ a * f \in Nat /\ e * b \in Nat
  BY Product
<1>2. (a * d) * f <= (c * b) * f
  BY <1>1, ProductMonotone
<1>3. (c * f) * b <= (e * d) * b
  BY <1>1, ProductMonotone
<1>4. (c * b) * f = (c * f) * b
  OBVIOUS
<1>5. (a * d) * f = (a * f) * d
  OBVIOUS
<1>6. (e * d) * b = (e * b) * d
  OBVIOUS
<1>7. (a * f) * d \in Nat /\ (c * f) * b \in Nat /\ (e * b) * d \in Nat
  BY <1>1, Product
<1>8. (a * f) * d <= (e * b) * d
  BY <1>2, <1>3, <1>4, <1>5, <1>6, <1>7
<1> QED BY <1>1, <1>8, ProductCancel

LEMMA LeastShare ==
  ASSUME NEW n \in Positive, NEW w \in [1 .. n -> Positive], NEW l \in [1 .. n -> Positive]
  PROVE  \E t \in 1 .. n : \A i \in 1 .. n : l[t] * w[i] <= l[i] * w[t]
<1> DEFINE Below(t, i) == l[t] * w[i] <= l[i] * w[t]
           Least(m) == m \in 1 .. n => \E t \in 1 .. m : \A i \in 1 .. m : Below(t, i)
           N == {m \in Nat : Least(m)}
<1>1. n \in Nat /\ \A i \in 1 .. n : w[i] \in Positive /\ l[i] \in Positive
  BY DEF Positive
<1>2. \A t, i \in 1 .. n : Below(t, i) \/ Below(i, t)
  <2> TAKE t, i \in 1 .. n
  <2>1. l[t] * w[i] \in Nat /\ l[i] * w[t] \in Nat
    BY <1>1, Product DEF Positive
  <2> QED BY <2>1
<1>3. \A t, i, j \in 1 .. n : Below(t, i) /\ Below(i, j) => Below(t, j)
  BY <1>1, SharesTransitive
<1> HIDE DEF Below
<1>4. 0 \in N
  OBVIOUS
<1>5. ASSUME NEW m \in Nat, m \in N PROVE m + 1 \in N
  <2> SUFFICES ASSUME m + 1 \in 1 .. n
               PROVE  \E t \in 1 .. m + 1 : \A i \in 1 .. m + 1 : Below(t, i)
    OBVIOUS
  <2>1. Below(m + 1, m + 1)
    BY <1>2
  <2>2. CASE m = 0
    BY <2>1, <2>2
  <2>3. CASE m # 0
    <3>1. PICK t \in 1 .. m : \A i \in 1 .. m : Below(t, i)
      BY <1>1, <1>5, <2>3
    <3>2. 1 .. m \subseteq 1 .. n /\ 1 .. m + 1 = (1 .. m) \cup {m + 1}
      BY <1>1
    <3>3. CASE Below(t, m + 1)
      BY <3>1, <3>2, <3>3
    <3>4. CASE Below(m + 1, t)
      <4>1. t \in 1 .. n /\ m + 1 \in 1 .. n /\ m + 1 \in 1 .. m + 1
        BY <3>2
      <4>2. \A i \in 1 .. m : Below(m + 1, i)
        BY <1>3, <3>1, <3>2, <3>4, <4>1
      <4>3. \A i \in 1 .. m + 1 : Below(m + 1, i)
        BY <2>1, <3>2, <4>2
      <4> QED BY <4>1, <4>3
    <3> QED BY <1>2, <3>2, <3>3, <3>4
  <2> QED BY <2>2, <2>3
<1>6. Nat \subseteq N
  <2> HIDE DEF N
  <2> QED BY <1>4, <1>5, NumberInduction
<1>7. n \in N
  BY <1>1, <1>6
<1> QED BY <1>1, <1>7 DEF Below, Positive

(* A list of ways and limits, none of them zero.                           *)
IsGroup == \E n \in Positive : ds \in [1 .. n -> Positive] /\ acc \in [1 .. n -> Positive]

(***************************************************************************)
(* max_element returns an axis of the list: the loop that keeps the best of  *)
(* the places up to i has a result, by induction on i.                      *)
(***************************************************************************)
LEMMA MaxElementType ==
  ASSUME NEW n \in Positive, ds \in [1 .. n -> Positive]
  PROVE  MaxElement \in Group
<1> DEFINE Kept(g, i) == IF i = 1 THEN 1 ELSE IF Less(g[i - 1], i) THEN i ELSE g[i - 1]
           Loop(g, m) == g \in [1 .. n -> 1 .. n] /\ \A i \in 1 .. n : i <= m => g[i] = Kept(g, i)
           N == {m \in Nat : \E g : Loop(g, m)}
           best == CHOOSE g : g = [i \in Group |-> Kept(g, i)]
<1>0. Group = 1 .. n /\ Len(ds) = n /\ n \in 1 .. n /\ n \in Nat
  BY DEF Group, Positive
<1>1. 0 \in N
  <2>1. Loop([i \in 1 .. n |-> i], 0)
    OBVIOUS
  <2> QED BY <2>1
<1>2. ASSUME NEW m \in Nat, m \in N PROVE m + 1 \in N
  <2>1. PICK g : Loop(g, m)
    BY <1>2
  <2> DEFINE h == [g EXCEPT ![m + 1] = Kept(g, m + 1)]
  <2>2. CASE m + 1 \in 1 .. n
    <3>1. Kept(g, m + 1) \in 1 .. n
      <4>1. m + 1 = 1 \/ m \in 1 .. n
        BY <1>0, <2>2
      <4> QED BY <2>1, <2>2, <4>1
    <3>2. h \in [1 .. n -> 1 .. n] /\ h[m + 1] = Kept(g, m + 1)
      <4> HIDE DEF Kept
      <4> QED BY <2>1, <2>2, <3>1
    <3>3. \A i \in 1 .. n : i <= m => h[i] = g[i]
      <4> HIDE DEF Kept
      <4> QED BY <2>1
    <3>4. \A i \in 1 .. n : i <= m + 1 => Kept(h, i) = Kept(g, i)
      <4> TAKE i \in 1 .. n
      <4> HAVE i <= m + 1
      <4>1. i = 1 \/ (i - 1 \in 1 .. n /\ i - 1 <= m)
        BY <1>0
      <4> HIDE DEF h
      <4> QED BY <3>3, <4>1
    <3>5. ASSUME NEW i \in 1 .. n, i <= m + 1 PROVE h[i] = Kept(h, i)
      <4>1. h[i] = Kept(g, i)
        <5> HIDE DEF Kept, h
        <5>1. i = m + 1 \/ i <= m
          BY <3>5
        <5>2. i <= m => g[i] = Kept(g, i)
          BY <2>1
        <5> QED BY <3>2, <3>3, <5>1, <5>2
      <4> HIDE DEF Kept, h
      <4> QED BY <3>4, <3>5, <4>1
    <3>6. Loop(h, m + 1)
      <4> HIDE DEF Kept, h
      <4> QED BY <3>2, <3>5
    <3> HIDE DEF Loop, h
    <3> QED BY <3>6
  <2>3. CASE m + 1 \notin 1 .. n
    <3>1. \A i \in 1 .. n : i <= m + 1 => i <= m
      BY <2>3
    <3>2. Loop(g, m + 1)
      <4> HIDE DEF Kept
      <4> QED BY <2>1, <3>1
    <3> HIDE DEF Loop
    <3> QED BY <3>2
  <2> QED BY <2>2, <2>3
<1>3. \E g \in [1 .. n -> 1 .. n] : g = [i \in Group |-> Kept(g, i)]
  <2>1. Nat \subseteq N
    <3> HIDE DEF N
    <3> QED BY <1>1, <1>2, NumberInduction
  <2>2. PICK g : Loop(g, n)
    BY <1>0, <2>1
  <2> HIDE DEF Kept
  <2>3. g = [i \in 1 .. n |-> g[i]] /\ \A i \in 1 .. n : g[i] = Kept(g, i)
    BY <1>0, <2>2
  <2> QED BY <1>0, <2>2, <2>3
<1>4. best = [i \in Group |-> Kept(best, i)]
  <2> HIDE DEF Kept
  <2> QED BY <1>3
<1>5. \A i \in 1 .. n : best[i] = Kept(best, i)
  <2> HIDE DEF best, Kept
  <2> QED BY <1>0, <1>4
<1> DEFINE B == {m \in Nat : m + 1 \in 1 .. n => best[m + 1] \in 1 .. n}
<1> HIDE DEF best
<1>6. 0 \in B
  BY <1>0, <1>5
<1>7. ASSUME NEW m \in Nat, m \in B PROVE m + 1 \in B
  <2> SUFFICES ASSUME m + 2 \in 1 .. n PROVE best[m + 2] \in 1 .. n
    OBVIOUS
  <2>1. best[m + 1] \in 1 .. n
    BY <1>0, <1>7
  <2>2. best[m + 2] = Kept(best, m + 2) /\ m + 2 # 1 /\ (m + 2) - 1 = m + 1
    BY <1>5
  <2>3. best[m + 2] = IF Less(best[m + 1], m + 2) THEN m + 2 ELSE best[m + 1]
    BY <2>2
  <2> QED BY <2>1, <2>3
<1>8. n - 1 \in B
  <2>1. Nat \subseteq B
    <3> HIDE DEF B
    <3> QED BY <1>6, <1>7, NumberInduction
  <2> QED BY <1>0, <2>1
<1>9. best[n] \in 1 .. n
  BY <1>0, <1>8
<1>10. MaxElement = best[Len(ds)]
  BY DEF MaxElement, best, Kept
<1> QED BY <1>0, <1>9, <1>10

(* The inductive invariant of the search: an axis that exceeds no limit is   *)
(* still a candidate.                                                      *)
SearchInv ==
  /\ IsGroup
  /\ up = {}
  /\ helpSet \subseteq Group
  /\ pc \in {"search", "found", "thrown"}
  /\ pc = "search" => helpSet # {}
  /\ \A t \in Group : ~Exceeds(t) => t \in helpSet
  /\ pc # "thrown"
  /\ pc = "found" => total \in Group /\ ~Exceeds(total)

LEMMA Candidates ==
  ASSUME IsGroup, up = {}
  PROVE  \E t \in Group : ~Exceeds(t)
<1>1. PICK n \in Positive : ds \in [1 .. n -> Positive] /\ acc \in [1 .. n -> Positive]
  BY DEF IsGroup
<1>2. PICK t \in 1 .. n : \A i \in 1 .. n : acc[t] * ds[i] <= acc[i] * ds[t]
  BY <1>1, LeastShare
<1>3. Group = 1 .. n
  BY <1>1 DEF Group
<1>4. ASSUME NEW i \in Group PROVE ~(acc[t] * ds[i] > acc[i] * ds[t])
  <2>1. acc[t] \in Nat /\ ds[i] \in Nat /\ acc[i] \in Nat /\ ds[t] \in Nat
    BY <1>1, <1>2, <1>3 DEF Positive
  <2>2. acc[t] * ds[i] \in Nat /\ acc[i] * ds[t] \in Nat
    BY <2>1, Product
  <2> QED BY <1>2, <1>3, <2>2
<1> QED BY <1>2, <1>3, <1>4 DEF Exceeds, Scaled

LEMMA SearchInit ==
  ASSUME AccelInit, up = {}
  PROVE  SearchInv
<1>1. PICK n \in 2 .. MaxAxes : ds \in [1 .. n -> 1 .. MaxWay] /\ acc \in [1 .. n -> 1 .. MaxLimit]
  BY DEF AccelInit
<1>2. IsGroup
  <2>1. MaxAxes \in Nat /\ MaxWay \in Nat /\ MaxLimit \in Nat
    BY BoundsAssumption
  <2>2. n \in Positive /\ 1 .. MaxWay \subseteq Positive /\ 1 .. MaxLimit \subseteq Positive
    BY <2>1 DEF Positive
  <2>3. ds \in [1 .. n -> Positive] /\ acc \in [1 .. n -> Positive]
    BY <1>1, <2>2
  <2> QED BY <2>2, <2>3 DEF IsGroup
<1>3. helpSet = Group /\ pc = "search"
  BY DEF AccelInit
<1>4. Group # {}
  BY <1>1 DEF Group
<1> QED BY <1>2, <1>3, <1>4 DEF SearchInv

LEMMA SearchStep ==
  ASSUME SearchInv, Round
  PROVE  SearchInv'
<1>1. /\ pc = "search" /\ UNCHANGED <<ds, acc, up>> /\ total' = Candidate
      /\ \/ ~Exceeds(total') /\ pc' = "found" /\ UNCHANGED helpSet
         \/ Exceeds(total') /\ helpSet' = helpSet \ {total'} /\ pc' = IF helpSet' = {} THEN "thrown" ELSE pc
  BY DEF Round
<1>2. Group' = Group /\ \A t : Exceeds(t)' <=> Exceeds(t)
  BY <1>1 DEF Group, Exceeds, Scaled
<1>3. IsGroup' /\ (up = {})'
  BY <1>1 DEF SearchInv, IsGroup
<1>4. total' \in Group
  <2>1. CASE Cardinality(helpSet) > 1
    BY <1>1, <2>1, MaxElementType DEF SearchInv, IsGroup, Candidate
  <2>2. CASE ~(Cardinality(helpSet) > 1)
    <3>1. total' = CHOOSE i \in helpSet : TRUE
      BY <1>1, <2>2 DEF Candidate
    <3>2. helpSet # {} /\ helpSet \subseteq Group
      BY <1>1 DEF SearchInv
    <3> QED BY <3>1, <3>2
  <2> QED BY <2>1, <2>2
<1>5. CASE ~Exceeds(total') /\ pc' = "found" /\ UNCHANGED helpSet
  <2>1. total' \in Group' /\ ~Exceeds(total)'
    BY <1>1, <1>4, <1>5 DEF Group, Exceeds, Scaled
  <2> QED BY <1>2, <1>3, <1>5, <2>1 DEF SearchInv
<1>6. CASE Exceeds(total') /\ helpSet' = helpSet \ {total'} /\ pc' = IF helpSet' = {} THEN "thrown" ELSE pc
  <2>1. \A t \in Group : ~Exceeds(t) => t \in helpSet'
    BY <1>6 DEF SearchInv
  <2>2. helpSet' # {}
    BY <2>1, Candidates DEF SearchInv
  <2>3. pc' = "search"
    BY <1>1, <1>6, <2>2
  <2> QED BY <1>2, <1>3, <1>6, <2>1, <2>2, <2>3 DEF SearchInv
<1> QED BY <1>1, <1>5, <1>6

LEMMA SearchInvRight ==
  ASSUME SearchInv
  PROVE  SearchIsRight
<1> SUFFICES ASSUME pc = "found"
             PROVE  /\ \A i \in Group : acc[total] * ds[i] <= acc[i] * ds[total]
                    /\ \A t \in Group : ~Exceeds(t) => acc[t] * ds[total] = acc[total] * ds[t]
  BY DEF SearchInv, SearchIsRight, NeverThrown, FoundIsBest
<1>1. total \in Group /\ ~Exceeds(total)
  BY DEF SearchInv
<1>2. \A i, t \in Group : acc[t] * ds[i] \in Nat
  <2> TAKE i, t \in Group
  <2>1. ds[i] \in Nat /\ acc[t] \in Nat
    BY DEF SearchInv, IsGroup, Group, Positive
  <2> QED BY <2>1, Product
<1>3. \A t \in Group : ~Exceeds(t) => \A i \in Group : ~(acc[t] * ds[i] > acc[i] * ds[t])
  BY DEF Exceeds, Scaled
<1>4. ASSUME NEW t \in Group, ~Exceeds(t), NEW i \in Group
      PROVE  acc[t] * ds[i] <= acc[i] * ds[t]
  BY <1>2, <1>3, <1>4
<1>5. ASSUME NEW t \in Group, ~Exceeds(t)
      PROVE  acc[t] * ds[total] = acc[total] * ds[t]
  <2>1. acc[t] * ds[total] <= acc[total] * ds[t] /\ acc[total] * ds[t] <= acc[t] * ds[total]
    BY <1>1, <1>4, <1>5
  <2>2. acc[t] * ds[total] \in Nat /\ acc[total] * ds[t] \in Nat
    BY <1>1, <1>2
  <2> QED BY <2>1, <2>2
<1> QED BY <1>1, <1>4, <1>5

(***************************************************************************)
(* Unless the rounding of the doubles decides, calculate_moving always finds *)
(* the limiting axis of a group, never throws, and what it finds is right:   *)
(* no axis exceeds its limit and none could be faster - for groups of any    *)
(* size, any ways and any limits.                                          *)
(***************************************************************************)
THEOREM SearchFindsBest ==
  ASSUME Rounding = FALSE
  PROVE  MotionSpec => []SearchIsRight
<1>1. MotionInit => SearchInv
  <2>1. MotionInit => AccelInit
    BY DEF MotionInit
  <2>2. AccelInit => up = {}
    BY DEF AccelInit
  <2> QED BY <2>1, <2>2, SearchInit
<1>2. ASSUME SearchInv, [MotionNext]_motionVars PROVE SearchInv'
  <2>1. CASE AccelStep
    BY <1>2, <2>1, SearchStep DEF AccelStep, AccelNext
  <2>2. ASSUME UNCHANGED accelVars PROVE SearchInv'
    <3>1. Group' = Group /\ \A t : Exceeds(t)' <=> Exceeds(t)
      BY <2>2 DEF accelVars, Group, Exceeds, Scaled
    <3>2. IsGroup' /\ (~Exceeds(total) <=> ~Exceeds(total)')
      BY <1>2, <2>2 DEF accelVars, SearchInv, IsGroup, Exceeds, Scaled, Group
    <3> QED BY <1>2, <2>2, <3>1, <3>2 DEF accelVars, SearchInv
  <2> QED BY <1>2, <2>1, <2>2 DEF MotionNext, PlanStep, TimedStep, motionVars
<1> QED BY <1>1, <1>2, SearchInvRight, PTL DEF MotionSpec

-----------------------------------------------------------------------------
(***************************************************************************)
(* The execution.  Whatever the cycles, after e ticks of an interval the     *)
(* axis is where Reach says, in the direction of the interval; Reach only    *)
(* grows with the time, and its last value is the way of the interval.      *)
(***************************************************************************)
Full(r, m) == 2 * (r * r) + 2 * (r * m)

Reach(r, m, e) ==
  IF e < r THEN e * e
  ELSE IF e < r + m THEN r * r + 2 * (r * (e - r))
  ELSE IF e < r + m + r THEN r * r + 2 * (r * m) + (e - r - m) * (e - r - m)
  ELSE Full(r, m)

LEMMA Square ==
  ASSUME NEW x \in Nat, NEW y \in Nat, x <= y
  PROVE  x * x \in Nat /\ y * y \in Nat /\ x * x <= y * y
<1>1. x * x <= y * x
  BY ProductMonotone
<1>2. x * y <= y * y
  BY ProductMonotone
<1>3. x * y = y * x
  OBVIOUS
<1> QED BY <1>1, <1>2, <1>3, Product

LEMMA ReachMonotone ==
  ASSUME NEW r \in Nat, NEW m \in Nat, NEW e \in Nat, NEW f \in Nat, e <= f
  PROVE  /\ Reach(r, m, e) \in Nat /\ Reach(r, m, f) \in Nat
         /\ Reach(r, m, e) <= Reach(r, m, f)
         /\ Reach(r, m, f) <= Full(r, m)
<1> DEFINE A(x) == x * x
           B(x) == r * r + 2 * (r * (x - r))
           C(x) == r * r + 2 * (r * m) + (x - r - m) * (x - r - m)
           D == Full(r, m)
<1>1. r * r \in Nat /\ r * m \in Nat /\ D \in Nat /\ D = 2 * (r * r) + 2 * (r * m)
  BY Product DEF Full
<1>2. ASSUME NEW x \in Nat, x < r PROVE A(x) \in Nat /\ A(x) <= r * r
  BY <1>2, Square
<1>3. ASSUME NEW x \in Nat, ~(x < r), x < r + m
      PROVE  B(x) \in Nat /\ r * r <= B(x) /\ B(x) <= r * r + 2 * (r * m)
  <2>1. x - r \in Nat /\ x - r <= m
    BY <1>3
  <2> DEFINE y == x - r
  <2> HIDE DEF y
  <2>2. y \in Nat /\ y <= m
    BY <2>1 DEF y
  <2>3. r * y \in Nat /\ y * r <= m * r /\ y * r = r * y /\ m * r = r * m
    BY <2>2, Product, ProductMonotone
  <2>4. B(x) = r * r + 2 * (r * y)
    BY DEF y
  <2> HIDE DEF B
  <2> QED BY <1>1, <2>3, <2>4
<1>4. ASSUME NEW x \in Nat, ~(x < r + m), x < r + m + r
      PROVE  C(x) \in Nat /\ r * r + 2 * (r * m) <= C(x) /\ C(x) <= D
  <2> DEFINE y == x - r - m
  <2>1. y \in Nat /\ y <= r
    BY <1>4
  <2> HIDE DEF y
  <2>2. y * y \in Nat /\ y * y <= r * r
    BY <2>1, Square
  <2>3. C(x) = r * r + 2 * (r * m) + y * y
    BY DEF y
  <2> HIDE DEF C, D
  <2> QED BY <1>1, <2>2, <2>3
<1>5. \A x \in Nat : Reach(r, m, x) = IF x < r THEN A(x) ELSE IF x < r + m THEN B(x)
                                      ELSE IF x < r + m + r THEN C(x) ELSE D
  BY DEF Reach
<1>6. ASSUME e < r, f < r PROVE A(e) <= A(f)
  BY Square
<1>7. ASSUME ~(e < r), f < r + m PROVE B(e) <= B(f)
  <2>1. e - r \in Nat /\ f - r \in Nat /\ e - r <= f - r
    BY <1>7
  <2> DEFINE y == e - r
             z == f - r
  <2> HIDE DEF y, z
  <2>2. y \in Nat /\ z \in Nat /\ y * r <= z * r /\ y * r = r * y /\ z * r = r * z
    BY <2>1, ProductMonotone DEF y, z
  <2>3. r * y \in Nat /\ r * z \in Nat
    BY <2>2, Product
  <2>4. B(e) = r * r + 2 * (r * y) /\ B(f) = r * r + 2 * (r * z)
    BY DEF y, z
  <2> HIDE DEF B
  <2> QED BY <1>1, <2>2, <2>3, <2>4
<1>8. ASSUME ~(e < r + m), f < r + m + r PROVE C(e) <= C(f)
  <2> DEFINE y == e - r - m
             z == f - r - m
  <2>1. y \in Nat /\ z \in Nat /\ y <= z
    BY <1>8
  <2> HIDE DEF y, z
  <2>2. y * y \in Nat /\ z * z \in Nat /\ y * y <= z * z
    BY <2>1, Square
  <2>3. C(e) = r * r + 2 * (r * m) + y * y /\ C(f) = r * r + 2 * (r * m) + z * z
    BY DEF y, z
  <2> HIDE DEF C
  <2> QED BY <1>1, <2>2, <2>3
<1> HIDE DEF A, B, C, D
<1>9. ASSUME NEW x \in Nat PROVE Reach(r, m, x) \in Nat /\ Reach(r, m, x) <= D
  BY <1>1, <1>2, <1>3, <1>4, <1>5
<1>10. Reach(r, m, e) <= Reach(r, m, f)
  <2>1. CASE e < r
    BY <1>1, <1>2, <1>3, <1>4, <1>5, <1>6, <2>1
  <2>2. CASE ~(e < r) /\ e < r + m
    BY <1>1, <1>3, <1>4, <1>5, <1>7, <2>2
  <2>3. CASE ~(e < r + m) /\ e < r + m + r
    BY <1>1, <1>4, <1>5, <1>8, <2>3
  <2>4. CASE ~(e < r + m + r)
    BY <1>1, <1>5, <2>4
  <2> QED BY <2>1, <2>2, <2>3, <2>4
<1> QED BY <1>9, <1>10 DEF D

LEMMA StageSums ==
  ASSUME NEW f, f[1] \in Int, f[2] \in Int, f[3] \in Int
  PROVE  /\ SumFunctionOnSet(f, 1 .. 0) = 0
         /\ SumFunctionOnSet(f, 1 .. 1) = f[1]
         /\ SumFunctionOnSet(f, 1 .. 2) = f[1] + f[2]
         /\ SumFunctionOnSet(f, 1 .. 3) = f[1] + f[2] + f[3]
<1> DEFINE S(k) == SumFunctionOnSet(f, 1 .. k)
<1>1. \A i \in 1 .. 3 : f[i] \in Int
  <2>1. \A i \in 1 .. 3 : i = 1 \/ i = 2 \/ i = 3
    OBVIOUS
  <2> QED BY <2>1
<1>2. ASSUME NEW k \in 0 .. 2 PROVE S(0) = 0 /\ S(k) \in Int /\ S(k + 1) = S(k) + f[k + 1]
  <2>1. k \in Nat /\ \A i \in 1 .. k + 1 : f[i] \in Int
    BY <1>1
  <2> QED BY <2>1, SumOfFirst
<1> HIDE DEF S
<1>3. S(0) = 0 /\ S(0 + 1) = S(0) + f[0 + 1] /\ S(1 + 1) = S(1) + f[1 + 1] /\ S(2 + 1) = S(2) + f[2 + 1]
  BY <1>2
<1>4. S(1) = f[1] /\ S(2) = f[1] + f[2] /\ S(3) = f[1] + f[2] + f[3]
  BY <1>3
<1> QED BY <1>3, <1>4 DEF S

(* What an interval of the plan, or a cut one, is.                         *)
LEMMA IntervalSums ==
  ASSUME NEW r \in Positive, NEW m \in Nat, NEW d \in {1, -1}, NEW iv, iv = Interval(r, m, d)
  PROVE  /\ iv.v = r /\ iv.dir = d /\ iv.idt[2] = m
         /\ Elapsed(iv, 1) = 0 /\ Elapsed(iv, 2) = r /\ Elapsed(iv, 3) = r + m
         /\ Elapsed(iv, 4) = r + m + r
         /\ Way(iv, 1) = 0 /\ Way(iv, 2) = d * (r * r)
         /\ Way(iv, 3) = d * (r * r) + d * (2 * (r * m))
         /\ Way(iv, 4) = d * Full(r, m)
<1> DEFINE way == <<d * r * r, d * 2 * r * m, d * r * r>>
<1>1. /\ iv.v = r /\ iv.dir = d /\ iv.idt = <<r, m, r>> /\ iv.ids = way
  BY DEF Interval
<1>2. r \in Int /\ m \in Int
  BY DEF Positive
<1>3. /\ 1 .. 1 - 1 = 1 .. 0 /\ 1 .. 2 - 1 = 1 .. 1 /\ 1 .. 3 - 1 = 1 .. 2 /\ 1 .. 4 - 1 = 1 .. 3
  OBVIOUS
<1>4. Elapsed(iv, 1) = 0 /\ Elapsed(iv, 2) = r /\ Elapsed(iv, 3) = r + m /\ Elapsed(iv, 4) = r + m + r
  <2>1. iv.idt[1] = r /\ iv.idt[2] = m /\ iv.idt[3] = r
    BY <1>1
  <2> QED BY <1>2, <1>3, <2>1, StageSums DEF Elapsed
<1>5. r * r \in Int /\ r * m \in Int
  BY <1>2
<1>6. /\ iv.ids[1] = d * (r * r) /\ iv.ids[3] = d * (r * r) /\ iv.ids[2] = d * (2 * (r * m))
      /\ iv.ids[1] \in Int /\ iv.ids[2] \in Int /\ iv.ids[3] \in Int
  <2>1. iv.ids[1] = d * r * r /\ iv.ids[2] = d * 2 * r * m /\ iv.ids[3] = d * r * r
    BY <1>1
  <2>2. CASE d = 1
    BY <1>2, <1>5, <2>1, <2>2
  <2>3. CASE d = -1
    BY <1>2, <1>5, <2>1, <2>3
  <2> QED BY <2>2, <2>3
<1>7. /\ Way(iv, 1) = 0 /\ Way(iv, 2) = iv.ids[1] /\ Way(iv, 3) = iv.ids[1] + iv.ids[2]
      /\ Way(iv, 4) = iv.ids[1] + iv.ids[2] + iv.ids[3]
  BY <1>3, <1>6, StageSums DEF Way
<1>8. Way(iv, 4) = d * Full(r, m)
  <2>1. CASE d = 1
    BY <1>5, <1>6, <1>7, <2>1 DEF Full
  <2>2. CASE d = -1
    BY <1>5, <1>6, <1>7, <2>2 DEF Full
  <2> QED BY <2>1, <2>2
<1> QED BY <1>1, <1>4, <1>6, <1>7, <1>8

(* Where the axis is after e ticks.                                        *)
LEMMA IntervalAt ==
  ASSUME NEW r \in Positive, NEW m \in Nat, NEW d \in {1, -1}, NEW iv, iv = Interval(r, m, d),
         NEW e \in Nat
  PROVE  /\ Open(iv, e) = {} <=> r + m + r <= e
         /\ Open(iv, e) # {} =>
              LET i == First(Open(iv, e))
              IN  /\ i \in Stages /\ (i = 2 <=> r <= e /\ e < r + m)
                  /\ Way(iv, i) + StageWay(iv, i, e - Elapsed(iv, i)) = d * Reach(r, m, e)
<1>1. /\ iv.v = r /\ iv.dir = d
      /\ Elapsed(iv, 1) = 0 /\ Elapsed(iv, 2) = r /\ Elapsed(iv, 3) = r + m
      /\ Elapsed(iv, 4) = r + m + r
  BY IntervalSums
<1>2. r \in Nat /\ r > 0
  BY DEF Positive
<1>3. /\ 1 \in Open(iv, e) <=> e < r
      /\ 2 \in Open(iv, e) <=> e < r + m
      /\ 3 \in Open(iv, e) <=> e < r + m + r
      /\ Open(iv, e) \subseteq {1, 2, 3}
  <2>1. Elapsed(iv, 1 + 1) = r /\ Elapsed(iv, 2 + 1) = r + m /\ Elapsed(iv, 3 + 1) = r + m + r
    BY <1>1
  <2>2. Stages = {1, 2, 3}
    BY DEF Stages
  <2> QED BY <2>1, <2>2 DEF Open
<1> DEFINE i == First(Open(iv, e))
           t == e - Elapsed(iv, i)
<1>4. ASSUME NEW k \in Open(iv, e), \A j \in Open(iv, e) : k <= j PROVE i = k
  <2>1. \A x \in Open(iv, e) : x \in Nat
    BY <1>3
  <2>2. i \in Open(iv, e) /\ \A j \in Open(iv, e) : i <= j
    BY <1>4 DEF First
  <2> HIDE DEF i
  <2> QED BY <1>4, <2>1, <2>2
<1>5. Open(iv, e) = {} <=> r + m + r <= e
  BY <1>2, <1>3
<1>6. CASE e < r
  <2>1. i = 1
    BY <1>2, <1>3, <1>4, <1>6
  <2>2. Way(iv, i) + StageWay(iv, i, t) = d * (e * e)
    <3>1. t = e /\ Way(iv, i) = 0
      BY <1>1, <2>1, IntervalSums
    <3>2. StageWay(iv, i, t) = d * (e * e)
      BY <1>1, <2>1, <3>1 DEF StageWay
    <3>3. d * (e * e) \in Int
      OBVIOUS
    <3> QED BY <3>1, <3>2, <3>3
  <2>3. Reach(r, m, e) = e * e
    BY <1>6 DEF Reach
  <2> QED BY <1>2, <1>5, <1>6, <2>1, <2>2, <2>3 DEF Stages
<1>7. CASE r <= e /\ e < r + m
  <2>1. i = 2
    BY <1>2, <1>3, <1>4, <1>7
  <2>2. Way(iv, i) + StageWay(iv, i, t) = d * (r * r + 2 * (r * (e - r)))
    <3>1. t = e - r /\ Way(iv, i) = d * (r * r)
      BY <1>1, <2>1, IntervalSums
    <3>2. StageWay(iv, i, t) = d * (2 * r * (e - r))
      BY <1>1, <2>1, <3>1 DEF StageWay
    <3>3. r * r \in Int /\ r * (e - r) \in Int /\ 2 * r * (e - r) = 2 * (r * (e - r))
      BY <1>2
    <3>4. CASE d = 1
      BY <3>1, <3>2, <3>3, <3>4
    <3>5. CASE d = -1
      BY <3>1, <3>2, <3>3, <3>5
    <3> QED BY <3>4, <3>5
  <2>3. Reach(r, m, e) = r * r + 2 * (r * (e - r))
    BY <1>2, <1>7 DEF Reach
  <2> QED BY <1>2, <1>5, <1>7, <2>1, <2>2, <2>3 DEF Stages
<1>8. CASE r + m <= e /\ e < r + m + r
  <2>1. i = 3
    BY <1>2, <1>3, <1>4, <1>8
  <2>2. Way(iv, i) + StageWay(iv, i, t) = d * (r * r + 2 * (r * m) + (e - r - m) * (e - r - m))
    <3>1. t = e - r - m /\ Way(iv, i) = d * (r * r) + d * (2 * (r * m))
      <4>1. Way(iv, 3) = d * (r * r) + d * (2 * (r * m))
        BY IntervalSums
      <4>2. t = e - (r + m)
        BY <1>1, <2>1
      <4> QED BY <1>2, <2>1, <4>1, <4>2
    <3>2. StageWay(iv, i, t) = d * ((e - r - m) * (e - r - m))
      BY <1>1, <2>1, <3>1 DEF StageWay
    <3>3. r * r \in Int /\ r * m \in Int /\ (e - r - m) * (e - r - m) \in Int
      BY <1>2
    <3>4. CASE d = 1
      BY <3>1, <3>2, <3>3, <3>4
    <3>5. CASE d = -1
      BY <3>1, <3>2, <3>3, <3>5
    <3> QED BY <3>4, <3>5
  <2>3. Reach(r, m, e) = r * r + 2 * (r * m) + (e - r - m) * (e - r - m)
    BY <1>2, <1>8 DEF Reach
  <2> QED BY <1>2, <1>5, <1>8, <2>1, <2>2, <2>3 DEF Stages
<1>9. CASE r + m + r <= e
  BY <1>5, <1>9
<1> QED BY <1>2, <1>6, <1>7, <1>8, <1>9

(***************************************************************************)
(* The inductive invariant of a movement.  The present interval is the       *)
(* planned one, or that one with a shorter even stage; it begins where those *)
(* before it end, and the axis has come as far as the clock allows, in the   *)
(* direction of the interval.  It holds unless an interval that goes down is *)
(* stopped: the way of a cut stage has lost its sign then.                  *)
(***************************************************************************)
Intervals == {Interval(x[1], x[2], x[3]) : x \in Positive \X Nat \X {1, -1}}

IsPlan == \E n \in Positive : plan \in [1 .. n -> Intervals]

Sound == terminate => \A i \in DOMAIN plan : plan[i].dir = 1

Before(i) == SumFunctionOnSet([k \in DOMAIN plan |-> Way(plan[k], 4)], 1 .. i - 1)

Cut(c) == [plan EXCEPT ![iid] = Interval(plan[iid].v, c, plan[iid].dir)]

Running ==
  /\ iid \in DOMAIN plan
  /\ \E c \in 0 .. plan[iid].idt[2] : intervals = Cut(c)
  /\ ~terminate \/ ~inProc => intervals = plan
  /\ s0 = Before(iid)
  /\ inProc => /\ t0 <= now
               /\ \E k \in 0 .. Reach(intervals[iid].v, intervals[iid].idt[2], now - t0) :
                     position = s0 + plan[iid].dir * k
  /\ ~inProc => position = s0

TimedInv ==
  /\ IsPlan
  /\ inProc \in BOOLEAN /\ terminate \in BOOLEAN /\ control \in BOOLEAN
  /\ now \in Int /\ t0 \in Int
  /\ control => Running
  /\ EndsAtTarget
  /\ NeverTurnsBack

LEMMA PlannedInterval ==
  ASSUME IsPlan, NEW i \in DOMAIN plan
  PROVE  \E r \in Positive, m \in Nat, d \in {1, -1} :
           /\ plan[i] = Interval(r, m, d)
           /\ plan[i].v = r /\ plan[i].idt[2] = m /\ plan[i].dir = d
           /\ Way(plan[i], 4) = d * Full(r, m) /\ Way(plan[i], 4) \in Int
<1>1. plan[i] \in Intervals
  BY DEF IsPlan
<1>2. PICK x \in Positive \X Nat \X {1, -1} : plan[i] = Interval(x[1], x[2], x[3])
  BY <1>1 DEF Intervals
<1>3. x[1] \in Positive /\ x[2] \in Nat /\ x[3] \in {1, -1}
  OBVIOUS
<1>4. /\ plan[i].v = x[1] /\ plan[i].idt[2] = x[2] /\ plan[i].dir = x[3]
      /\ Way(plan[i], 4) = x[3] * Full(x[1], x[2])
  BY <1>2, <1>3, IntervalSums
<1>5. x[3] * Full(x[1], x[2]) \in Int
  BY <1>3, Product DEF Full, Positive
<1> QED BY <1>2, <1>3, <1>4, <1>5

(* The way up to an interval, and to the next one.                         *)
LEMMA BeforeNext ==
  ASSUME IsPlan, NEW i \in DOMAIN plan
  PROVE  /\ Before(1) = 0
         /\ Before(i) \in Int /\ Before(i + 1) = Before(i) + Way(plan[i], 4)
         /\ Before(i + 1) = Total(SubSeq(plan, 1, i))
         /\ Before(Len(plan) + 1) = Total(plan)
         /\ i + 1 \in DOMAIN plan \/ i = Len(plan)
<1> DEFINE f == [k \in DOMAIN plan |-> Way(plan[k], 4)]
<1>1. PICK n \in Positive : plan \in [1 .. n -> Intervals]
  BY DEF IsPlan
<1>2. n \in Nat /\ DOMAIN plan = 1 .. n /\ Len(plan) = n /\ i \in 1 .. n
  BY <1>1 DEF Positive
<1>3. \A k \in 1 .. n : f[k] = Way(plan[k], 4) /\ f[k] \in Int
  BY <1>2, PlannedInterval
<1> HIDE DEF f
<1>4. i - 1 \in Nat /\ (i - 1) + 1 = i /\ (i + 1) - 1 = i /\ \A k \in 1 .. i : f[k] \in Int
  BY <1>2, <1>3
<1>5. /\ SumFunctionOnSet(f, 1 .. i - 1) \in Int
      /\ SumFunctionOnSet(f, 1 .. i) = SumFunctionOnSet(f, 1 .. i - 1) + f[i]
      /\ SumFunctionOnSet(f, 1 .. 0) = 0
  BY <1>4, SumOfFirst
<1>6. /\ Before(1) = SumFunctionOnSet(f, 1 .. 0) /\ Before(i) = SumFunctionOnSet(f, 1 .. i - 1)
      /\ Before(i + 1) = SumFunctionOnSet(f, 1 .. i)
  BY <1>4 DEF Before, f
<1>7. Before(i + 1) = Total(SubSeq(plan, 1, i))
  <2> DEFINE q == SubSeq(plan, 1, i)
             h == [k \in DOMAIN q |-> Way(q[k], 4)]
  <2>1. DOMAIN q = 1 .. i /\ \A k \in 1 .. i : q[k] = plan[k]
    BY <1>1, <1>2
  <2> HIDE DEF q
  <2>2. \A k \in 1 .. i : h[k] = f[k]
    BY <1>2, <1>3, <2>1
  <2> HIDE DEF h
  <2>3. SumFunctionOnSet(h, 1 .. i) = SumFunctionOnSet(f, 1 .. i)
    <3>1. IsFiniteSet(1 .. i)
      BY <1>2, FS_Interval
    <3> QED BY <1>4, <2>2, <3>1, SumOfSame
  <2>4. Total(q) = SumFunctionOnSet(h, 1 .. i)
    BY <2>1 DEF Total, h
  <2> QED BY <1>6, <2>3, <2>4 DEF q
<1>8. Before(Len(plan) + 1) = Total(plan)
  <2>1. 1 .. (Len(plan) + 1) - 1 = DOMAIN plan
    BY <1>2
  <2> QED BY <2>1 DEF Before, Total
<1>9. i + 1 \in DOMAIN plan \/ i = Len(plan)
  BY <1>2
<1> QED BY <1>2, <1>3, <1>5, <1>6, <1>7, <1>8, <1>9

(* The provers do not compute with primed variables: these facts are cited.  *)
LEMMA Difference ==
  ASSUME NEW x \in Int, NEW y \in Int, y <= x
  PROVE  x - y \in Nat
  OBVIOUS

LEMMA DifferenceMonotone ==
  ASSUME NEW x \in Int, NEW y \in Int, NEW z \in Int, x <= y
  PROVE  x - z <= y - z
  OBVIOUS

LEMMA LessTransitive ==
  ASSUME NEW x \in Int, NEW y \in Int, NEW z \in Int, (x <= y /\ y < z) \/ (x < y /\ y <= z)
  PROVE  x < z /\ x <= z
  OBVIOUS

LEMMA NotLess ==
  ASSUME NEW x \in Int, NEW y \in Int
  PROVE  /\ ~(x > y) => x <= y
         /\ ~(x < y) => y <= x
  OBVIOUS

LEMMA SumBelow ==
  ASSUME NEW x \in Int, NEW y \in Int, NEW z \in Int, z <= x - y
  PROVE  y + z \in Int /\ y + z <= x
  OBVIOUS

(* A step in the direction of the interval is in that of all of them.      *)
LEMMA TurnsNot ==
  ASSUME IsPlan, NEW i \in DOMAIN plan, plan' = plan, NEW j \in Nat, step' = plan[i].dir * j
  PROVE  NeverTurnsBack'
<1> SUFFICES ASSUME \A k, l \in DOMAIN plan : plan[k].dir = plan[l].dir
             PROVE  step' * plan[1].dir >= 0
  BY DEF NeverTurnsBack
<1>1. 1 \in DOMAIN plan
  BY DEF IsPlan, Positive
<1>2. plan[1].dir = plan[i].dir /\ plan[1].dir \in {1, -1}
  BY <1>1, PlannedInterval
<1>3. CASE plan[1].dir = 1
  BY <1>2, <1>3
<1>4. CASE plan[1].dir = -1
  BY <1>2, <1>4
<1> QED BY <1>2, <1>3, <1>4

(***************************************************************************)
(* A cycle keeps the invariant; the axis moves on in the direction of the    *)
(* interval, at most to where the interval was to end.                     *)
(***************************************************************************)
LEMMA CycleMoves ==
  ASSUME TimedInv, Sound, Cycle
  PROVE  /\ TimedInv'
         /\ iid \in DOMAIN plan /\ Running /\ position \in Int
         /\ \E j \in Nat : position' = position + plan[iid].dir * j
         /\ \E r \in Positive, m \in Nat :
              /\ Way(plan[iid], 4) = plan[iid].dir * Full(r, m)
              /\ \E w \in 0 .. Full(r, m) : position' = s0 + plan[iid].dir * w
         /\ terminate => iid' <= iid
<1>1. PICK n \in Positive : plan \in [1 .. n -> Intervals]
  BY DEF TimedInv, IsPlan
<1>2. n \in Nat /\ DOMAIN plan = 1 .. n /\ Len(plan) = n
  BY <1>1 DEF Positive
<1>3. IsPlan /\ control /\ Running /\ iid \in 1 .. n /\ iid \in DOMAIN plan /\ plan' = plan /\ terminate' = terminate
  BY <1>2 DEF TimedInv, Running, Cycle
<1>4. PICK r \in Positive, m \in Nat, d \in {1, -1} :
           /\ plan[iid] = Interval(r, m, d)
           /\ plan[iid].v = r /\ plan[iid].idt[2] = m /\ plan[iid].dir = d
           /\ Way(plan[iid], 4) = d * Full(r, m) /\ Way(plan[iid], 4) \in Int
  BY <1>3, PlannedInterval
<1>5. r \in Nat /\ r > 0
  BY DEF Positive
<1>6. PICK c \in 0 .. m : intervals = [plan EXCEPT ![iid] = Interval(r, c, d)]
  BY <1>3, <1>4 DEF Running, Cut
<1> DEFINE iv == intervals[iid]
<1>7. iv = Interval(r, c, d) /\ c \in Nat /\ c <= m /\ Len(intervals) = n
  <2>1. Interval(r, c, d) \in Intervals
    <3>1. <<r, c, d>> \in Positive \X Nat \X {1, -1}
      OBVIOUS
    <3>2. Interval(<<r, c, d>>[1], <<r, c, d>>[2], <<r, c, d>>[3]) = Interval(r, c, d)
      OBVIOUS
    <3> QED BY <3>1, <3>2 DEF Intervals
  <2>2. intervals \in [1 .. n -> Intervals] /\ iv = Interval(r, c, d)
    BY <1>1, <1>3, <1>6, <2>1
  <2>3. Len(intervals) = n
    BY <1>2, <2>2
  <2>4. c \in Nat /\ c <= m
    OBVIOUS
  <2> QED BY <2>2, <2>3, <2>4
<1> HIDE DEF iv
<1>8. /\ iv.v = r /\ iv.dir = d /\ iv.idt[2] = c
      /\ Elapsed(iv, 2) = r /\ Elapsed(iv, 4) = r + c + r /\ Way(iv, 4) = d * Full(r, c)
  <2>1. c \in Nat /\ iv = Interval(r, c, d)
    BY <1>7
  <2> QED BY <2>1, IntervalSums
<1>9. /\ s0 \in Int /\ s0 = Before(iid) /\ Before(iid + 1) = Before(iid) + d * Full(r, m)
      /\ Before(Len(plan) + 1) = Total(plan) /\ (iid + 1 \in DOMAIN plan \/ iid = Len(plan))
  BY <1>3, <1>4, BeforeNext DEF Running
<1>10. now \in Int /\ now' \in Int /\ now < now' /\ now <= now' /\ t0 \in Int
  <2>1. PICK t \in 1 .. MaxCycle : now' = now + t
    BY DEF Cycle
  <2> QED BY <2>1, TimesAssumption DEF TimedInv
<1>11. Full(r, c) \in Nat /\ Full(r, m) \in Nat /\ Full(r, c) <= Full(r, m)
  <2>1. r * r \in Nat /\ r * c \in Nat /\ r * m \in Nat
    BY <1>5, <1>7, Product
  <2>2. c * r <= m * r /\ c * r = r * c /\ m * r = r * m
    BY <1>5, <1>7, ProductMonotone
  <2> QED BY <2>1, <2>2 DEF Full
<1> DEFINE past == now - t0
<1>11a. ASSUME inProc PROVE past \in Nat
  BY <1>3, <1>10, <1>11a DEF Running
<1>12. PICK k \in Nat : /\ position = s0 + d * k
                        /\ inProc => k <= Reach(r, c, past)
                        /\ ~inProc => k = 0
  <2>1. CASE inProc
    <3>1. past \in Nat
      BY <1>11a, <2>1
    <3>2. PICK k \in 0 .. Reach(intervals[iid].v, intervals[iid].idt[2], now - t0) : position = s0 + plan[iid].dir * k
      BY <1>3, <2>1 DEF Running
    <3> HIDE DEF past
    <3>3. Reach(r, c, past) \in Nat
      <4>1. r \in Nat /\ c \in Nat /\ past \in Nat /\ past <= past
        BY <1>5, <1>7, <3>1
      <4> QED BY <4>1, ReachMonotone
    <3>4. k \in 0 .. Reach(r, c, past)
      BY <1>8, <3>2 DEF iv, past
    <3> QED BY <1>4, <2>1, <3>2, <3>3, <3>4
  <2>2. CASE ~inProc
    <3>1. s0 = s0 + d * 0
      BY <1>9
    <3> QED BY <1>3, <2>2, <3>1 DEF Running
  <2> QED BY <2>1, <2>2
<1>12a. position \in Int
  BY <1>9, <1>12
<1>13. ASSUME NEW x \in Int, NEW y \in Int PROVE d * x \in Int /\ d * (x + y) = d * x + d * y
  OBVIOUS
<1> DEFINE Waits == ~inProc /\ (terminate \/ t0 > now')
<1>14. CASE Waits
  <2>1. /\ step' = 0 /\ UNCHANGED <<iid, inProc, t0, s0, position>>
        /\ \/ terminate /\ intervals' = <<>>
           \/ ~terminate /\ UNCHANGED intervals
    BY <1>14 DEF Cycle
  <2>2. control' <=> ~terminate
    <3>1. control' = (iid' <= Len(intervals'))
      BY DEF Cycle
    <3>2. CASE terminate
      <4>1. iid' = iid /\ Len(intervals') = 0 /\ iid \in Nat /\ iid > 0
        BY <1>2, <1>3, <2>1, <3>2
      <4>2. ~(iid <= 0)
        BY <4>1
      <4>3. ~(iid' <= Len(intervals'))
        BY <4>1, <4>2
      <4> QED BY <3>1, <3>2, <4>3
    <3>3. CASE ~terminate
      <4>1. iid' = iid /\ Len(intervals') = n /\ iid \in Nat /\ iid <= n
        BY <1>2, <1>3, <1>7, <2>1, <3>3
      <4> QED BY <3>1, <3>3, <4>1
    <3> QED BY <3>2, <3>3
  <2>3. /\ position' = s0 + plan[iid].dir * 0 /\ step' = plan[iid].dir * 0
        /\ position' = position + plan[iid].dir * 0
    BY <1>4, <1>9, <1>12, <1>14, <2>1
  <2>4. NeverTurnsBack'
    BY <1>3, <2>3, TurnsNot
  <2>5. Before(iid)' = Before(iid) /\ \A x : Cut(x)' = Cut(x)
    BY <1>3, <2>1 DEF Before, Cut
  <2>6. control' => Running'
    BY <1>3, <1>14, <2>1, <2>2, <2>5 DEF Running
  <2>7. TimedInv'
    BY <1>3, <1>10, <2>1, <2>2, <2>4, <2>6 DEF TimedInv, IsPlan, EndsAtTarget
  <2>8. iid' <= iid
    BY <1>2, <1>3, <2>1
  <2> QED BY <1>3, <1>4, <1>11, <1>12a, <2>3, <2>7, <2>8
<1>15. CASE ~Waits
  <2> DEFINE e == now' - t0
  <2>1. e \in Nat /\ (inProc => past \in Nat /\ past <= e)
    <3>1. CASE inProc
      <4>1. past \in Nat /\ t0 <= now
        BY <1>3, <1>11a, <3>1 DEF Running
      <4>2. t0 <= now' /\ now <= now'
        BY <1>10, <4>1, LessTransitive
      <4> QED BY <1>10, <4>1, <4>2, Difference, DifferenceMonotone
    <3>2. CASE ~inProc
      <4>1. ~(t0 > now')
        BY <1>15, <3>2
      <4>2. t0 <= now'
        BY <1>10, <4>1, NotLess
      <4> QED BY <1>10, <3>2, <4>2, Difference
    <3> QED BY <3>1, <3>2
  <2>2. inProc' = TRUE /\ (IF inProc THEN s0 ELSE position) = s0
    <3>1. inProc' = TRUE
      BY <1>15 DEF Cycle
    <3>2. (IF inProc THEN s0 ELSE position) = s0
      BY <1>3 DEF Running
    <3> QED BY <3>1, <3>2
  <2>3. \/ Open(iv, e) = {} /\ Passed(iv, s0)
        \/ Open(iv, e) # {} /\ Within(iv, First(Open(iv, e)), e - Elapsed(iv, First(Open(iv, e))), s0)
    <3>1. /\ ~(~inProc /\ terminate) /\ ~(~inProc /\ t0 > now')
      BY <1>15
    <3>2. LET interval == intervals[iid]
              start == IF inProc THEN s0 ELSE position
              open == Open(interval, now' - t0)
          IN  IF open = {} THEN Passed(interval, start)
              ELSE Within(interval, First(open),
                          now' - t0 - Elapsed(interval, First(open)), start)
      BY <3>1 DEF Cycle
    <3> QED BY <2>2, <3>2 DEF iv
  <2>4. k <= Reach(r, c, e) /\ Reach(r, c, e) \in Nat /\ Reach(r, c, e) <= Full(r, c)
    <3> HIDE DEF e, past
    <3>0. r \in Nat /\ c \in Nat /\ e \in Nat /\ e <= e
      BY <1>5, <1>7, <2>1
    <3>1. Reach(r, c, e) \in Nat /\ Reach(r, c, e) <= Full(r, c)
      BY <3>0, ReachMonotone
    <3>2. CASE inProc
      <4>1. past \in Nat /\ past <= e
        BY <2>1, <3>2
      <4>2. Reach(r, c, past) <= Reach(r, c, e) /\ Reach(r, c, past) \in Nat
        BY <3>0, <4>1, ReachMonotone
      <4>3. k <= Reach(r, c, past)
        BY <1>12, <3>2
      <4> QED BY <3>1, <4>2, <4>3
    <3>3. CASE ~inProc
      BY <1>12, <3>1, <3>3
    <3> QED BY <3>1, <3>2, <3>3
  <2>5. control' = (iid' <= Len(intervals'))
    BY DEF Cycle
  <2> DEFINE Gets(w) == w \in Nat /\ k <= w /\ w <= Full(r, c) /\ position' = s0 + d * w /\ step' = position' - position
  <2>6. ASSUME NEW w \in Nat, Gets(w)
        PROVE  /\ \E j \in Nat : position' = position + plan[iid].dir * j
               /\ \E x \in 0 .. Full(r, m) : position' = s0 + plan[iid].dir * x
               /\ NeverTurnsBack'
    <3>1. w - k \in Nat /\ w \in 0 .. Full(r, m)
      BY <1>11, <2>6
    <3>2. d * w = d * k + d * (w - k) /\ d * w \in Int /\ d * k \in Int /\ d * (w - k) \in Int
      OBVIOUS
    <3>3. position' = position + d * (w - k) /\ step' = d * (w - k)
      BY <1>9, <1>12, <2>6, <3>2
    <3>4. NeverTurnsBack'
      BY <1>3, <1>4, <3>1, <3>3, TurnsNot
    <3> QED BY <1>4, <2>6, <3>1, <3>3, <3>4
  <2>7. CASE Open(iv, e) = {} /\ Passed(iv, s0)
    <3>1. r + c + r <= e
      BY <1>7, <2>1, <2>7, IntervalAt
    <3>2. /\ t0' = t0 + (r + c + r) /\ s0' = s0 + d * Full(r, c)
          /\ position' = s0' /\ step' = s0' - position
          /\ IF terminate THEN iid' = 1 /\ intervals' = <<>> ELSE iid' = iid + 1 /\ UNCHANGED intervals
      BY <1>8, <2>7 DEF Passed, Moved
    <3>3. Gets(Full(r, c))
      BY <1>11, <2>4, <3>2
    <3>4. t0' \in Int /\ t0' <= now'
      <4>1. r \in Nat /\ c \in Nat /\ t0 \in Int /\ now' \in Int /\ r + c + r <= now' - t0
        BY <1>5, <1>7, <1>10, <3>1
      <4>2. t0' = t0 + (r + c + r)
        BY <3>2
      <4>3. r + c + r \in Int
        BY <4>1
      <4>4. t0 + (r + c + r) \in Int /\ t0 + (r + c + r) <= now'
        BY <4>1, <4>3, SumBelow
      <4> QED BY <4>2, <4>4
    <3>5. terminate => ~control'
      <4> SUFFICES ASSUME terminate PROVE ~control'
        OBVIOUS
      <4>1. iid' = 1 /\ Len(intervals') = 0
        BY <3>2
      <4>2. ~(1 <= 0)
        OBVIOUS
      <4> QED BY <2>5, <4>1, <4>2
    <3>6. ASSUME ~terminate
          PROVE  /\ s0' = Before(iid + 1) /\ (control' <=> iid + 1 \in DOMAIN plan)
                 /\ intervals = plan
      <4>1. intervals = plan
        BY <1>3, <3>6 DEF Running
      <4>2. c = m
        BY <1>4, <1>8, <4>1 DEF iv
      <4>3. s0' = Before(iid + 1)
        BY <1>9, <3>2, <4>2
      <4>4. iid' = iid + 1 /\ Len(intervals') = n
        BY <1>7, <3>2, <3>6
      <4>5. control' <=> iid + 1 \in DOMAIN plan
        <5>1. iid \in Nat /\ n \in Nat /\ iid > 0
          BY <1>2, <1>3
        <5>2. iid + 1 <= n <=> iid + 1 \in DOMAIN plan
          BY <1>2, <5>1
        <5> QED BY <2>5, <4>4, <5>2
      <4> QED BY <4>1, <4>3, <4>5
    <3>7. EndsAtTarget'
      <4> SUFFICES ASSUME ~control', ~terminate' PROVE position' = Total(plan')
        BY DEF EndsAtTarget
      <4>1. iid = Len(plan)
        BY <1>3, <1>9, <3>6
      <4> QED BY <1>3, <1>9, <3>2, <3>6, <4>1
    <3>8. ASSUME control' PROVE Running'
      <4>1. ~terminate /\ iid' = iid + 1 /\ iid + 1 \in DOMAIN plan /\ s0' = Before(iid + 1) /\ intervals' = plan
        BY <3>2, <3>5, <3>6, <3>8
      <4>2. s0' = Before(iid)' /\ iid' \in DOMAIN plan'
        BY <1>3, <4>1 DEF Before
      <4>3. PICK r2 \in Positive, m2 \in Nat, d2 \in {1, -1} :
               plan[iid + 1] = Interval(r2, m2, d2) /\ plan[iid + 1].v = r2 /\ plan[iid + 1].idt[2] = m2 /\ plan[iid + 1].dir = d2
        BY <1>3, <4>1, PlannedInterval
      <4>4. plan = [plan EXCEPT ![iid + 1] = Interval(r2, m2, d2)]
        BY <1>1, <4>3
      <4>5. \E x \in 0 .. plan'[iid'].idt[2] : intervals' = Cut(x)'
        BY <1>3, <4>1, <4>3, <4>4 DEF Cut
      <4> DEFINE f == now' - t0'
      <4>6. f \in Nat
        <5>1. now' \in Int /\ t0' \in Int /\ t0' <= now'
          BY <1>10, <3>4
        <5> QED BY <5>1, Difference
      <4>7. Reach(r2, m2, f) \in Nat
        <5> HIDE DEF f
        <5>1. r2 \in Nat /\ f <= f
          BY <4>6 DEF Positive
        <5> QED BY <4>6, <5>1, ReachMonotone
      <4>8. position' = s0' + d2 * 0
        BY <1>9, <3>2, <1>11
      <4>9. intervals'[iid'] = plan[iid + 1] /\ plan'[iid'] = plan[iid + 1]
        BY <1>3, <4>1
      <4>10. \E x \in 0 .. Reach(intervals'[iid'].v, intervals'[iid'].idt[2], now' - t0') :
                position' = s0' + plan'[iid'].dir * x
        BY <4>3, <4>7, <4>8, <4>9
      <4>11. intervals' = plan'
        BY <1>3, <4>1
      <4> QED BY <2>2, <3>4, <4>2, <4>5, <4>10, <4>11 DEF Running
    <3>9. control' \in BOOLEAN
      BY <2>5
    <3>10. TimedInv'
      BY <1>3, <1>10, <2>2, <2>6, <3>3, <3>4, <3>7, <3>8, <3>9 DEF TimedInv, IsPlan
    <3>11. terminate => iid' <= iid
      BY <1>2, <1>3, <3>2
    <3> QED BY <1>3, <1>4, <1>11, <1>12a, <2>6, <3>3, <3>10, <3>11
  <2>8. CASE Open(iv, e) # {} /\ Within(iv, First(Open(iv, e)), e - Elapsed(iv, First(Open(iv, e))), s0)
    <3> DEFINE i == First(Open(iv, e))
               t == e - Elapsed(iv, i)
    <3>1. /\ i \in Stages /\ (i = 2 <=> r <= e /\ e < r + c)
          /\ Way(iv, i) + StageWay(iv, i, t) = d * Reach(r, c, e)
      BY <1>7, <2>1, <2>8, IntervalAt
    <3>2. /\ s0' = s0 /\ UNCHANGED <<iid, t0>>
          /\ position' = s0 + Way(iv, i) + StageWay(iv, i, t) /\ step' = position' - position
          /\ intervals' = IF terminate /\ i = 2
                          THEN [intervals EXCEPT ![iid].idt[2] = t, ![iid].ids[2] = 2 * iv.v * t]
                          ELSE intervals
      BY <2>8 DEF Within, Moved
    <3> HIDE DEF i, t
    <3>3. Gets(Reach(r, c, e))
      <4>1. i \in {1, 2, 3}
        BY <3>1 DEF Stages
      <4>0. /\ Way(iv, 1) = 0 /\ Way(iv, 2) = d * (r * r)
            /\ Way(iv, 3) = d * (r * r) + d * (2 * (r * c))
            /\ Elapsed(iv, 1) = 0 /\ Elapsed(iv, 2) = r /\ Elapsed(iv, 3) = r + c
        <5>1. c \in Nat /\ iv = Interval(r, c, d)
          BY <1>7
        <5> QED BY <5>1, IntervalSums
      <4>2. Way(iv, i) \in Int
        <5>1. r * r \in Int /\ r * c \in Int
          BY <1>5, <1>7
        <5>2. d * (r * r) \in Int /\ d * (2 * (r * c)) \in Int
          BY <5>1
        <5> QED BY <4>0, <4>1, <5>2
      <4>3. StageWay(iv, i, t) \in Int
        <5>1. t \in Int
          <6>1. Elapsed(iv, i) \in Int
            BY <1>5, <1>7, <4>0, <4>1
          <6> QED BY <2>1, <6>1 DEF t
        <5>2. iv.idt = <<r, c, r>>
          BY <1>7 DEF Interval
        <5> QED BY <1>5, <1>8, <4>1, <5>1 DEF StageWay
      <4>4. position' = s0 + d * Reach(r, c, e)
        BY <1>9, <3>1, <3>2, <4>2, <4>3
      <4> QED BY <2>4, <3>2, <4>4
    <3>4. /\ \E x \in 0 .. m : intervals' = [plan EXCEPT ![iid] = Interval(r, x, d)]
          /\ Len(intervals') = n
          /\ \E w \in 0 .. Reach(intervals'[iid].v, intervals'[iid].idt[2], e) :
                position' = s0 + d * w
      <4>1. CASE terminate /\ i = 2
        <5>1. d = 1
          BY <1>3, <1>4, <4>1 DEF Sound
        <5>2. t = e - r /\ t \in Nat /\ t <= c /\ r <= e /\ e < r + c
          <6>1. r <= e /\ e < r + c
            BY <3>1, <4>1
          <6>2. t = e - r
            BY <1>8, <4>1 DEF t
          <6> HIDE DEF e
          <6> QED BY <1>5, <1>7, <2>1, <6>1, <6>2
        <5>3. intervals' = [intervals EXCEPT ![iid] = [iv EXCEPT !.idt[2] = t, !.ids[2] = 2 * r * t]]
          BY <1>8, <3>2, <4>1 DEF iv
        <5>4. [iv EXCEPT !.idt[2] = t, !.ids[2] = 2 * r * t] = Interval(r, t, 1)
          <6> DEFINE a == 1 * r * r
                     b == 1 * 2 * r * c
                     x == 2 * r * t
          <6>1. iv = [idt |-> <<r, c, r>>, v |-> r, dir |-> 1, ids |-> <<a, b, a>>]
            BY <1>7, <5>1 DEF Interval
          <6>2. Interval(r, t, 1) = [idt |-> <<r, t, r>>, v |-> r, dir |-> 1, ids |-> <<a, x, a>>]
            <7>1. 1 * 2 * r * t = x
              OBVIOUS
            <7> HIDE DEF x
            <7> QED BY <7>1 DEF Interval
          <6> HIDE DEF a, b, x
          <6>3. [iv EXCEPT !.idt[2] = t, !.ids[2] = x] =
                   [idt |-> <<r, t, r>>, v |-> r, dir |-> 1, ids |-> <<a, x, a>>]
            <7> DEFINE y == [iv EXCEPT !.idt[2] = t]
            <7>1. y = [idt |-> <<r, t, r>>, v |-> r, dir |-> 1, ids |-> <<a, b, a>>]
              BY <6>1
            <7>2. [iv EXCEPT !.idt[2] = t, !.ids[2] = x] = [y EXCEPT !.ids[2] = x]
              OBVIOUS
            <7> HIDE DEF y
            <7>3. [y EXCEPT !.ids[2] = x] = [idt |-> <<r, t, r>>, v |-> r, dir |-> 1, ids |-> <<a, x, a>>]
              BY <7>1
            <7> QED BY <7>2, <7>3
          <6> QED BY <6>2, <6>3 DEF x
        <5>5. intervals' = [plan EXCEPT ![iid] = Interval(r, t, d)]
          BY <1>6, <5>1, <5>3, <5>4
        <5>6. intervals'[iid] = Interval(r, t, d)
          BY <1>1, <1>3, <5>5
        <5>7. intervals'[iid].v = r /\ intervals'[iid].idt[2] = t
          BY <5>2, <5>6, IntervalSums
        <5>8. Reach(r, t, e) = Reach(r, c, e)
          <6> HIDE DEF e
          <6>1. Reach(r, c, e) = r * r + 2 * (r * (e - r))
            BY <1>5, <1>7, <2>1, <5>2 DEF Reach
          <6>2. e = r + t /\ e - r - t = 0 /\ ~(e < r) /\ ~(e < r + t) /\ e < r + t + r
            BY <1>5, <2>1, <5>2
          <6>3. Reach(r, t, e) = r * r + 2 * (r * t) + 0 * 0
            BY <6>2 DEF Reach
          <6>4. r * r \in Nat /\ r * t \in Nat
            BY <1>5, <5>2, Product
          <6> QED BY <5>2, <6>1, <6>3, <6>4
        <5>9. Len(intervals') = n
          BY <1>2, <5>5
        <5>10. t \in 0 .. m
          <6> HIDE DEF e
          <6> QED BY <1>7, <5>2
        <5>11. Reach(r, c, e) \in 0 .. Reach(r, t, e)
          BY <2>4, <5>8
        <5> QED BY <3>3, <5>5, <5>7, <5>9, <5>10, <5>11
      <4>2. CASE ~(terminate /\ i = 2)
        <5>1. intervals' = intervals
          BY <3>2, <4>2
        <5>2. intervals'[iid].v = r /\ intervals'[iid].idt[2] = c
          BY <1>8, <5>1 DEF iv
        <5>3. Reach(r, c, e) \in 0 .. Reach(r, c, e)
          BY <2>4
        <5> QED BY <1>6, <1>7, <3>3, <5>1, <5>2, <5>3
      <4> QED BY <4>1, <4>2
    <3>5. control'
      <4>1. iid' = iid /\ Len(intervals') = n /\ iid <= n
        BY <1>2, <1>3, <3>2, <3>4
      <4> QED BY <2>5, <4>1
    <3>6. Running'
      <4>1. iid' = iid /\ s0' = s0 /\ t0' = t0 /\ plan'[iid'] = plan[iid] /\ iid' \in DOMAIN plan'
        BY <1>3, <3>2
      <4>2. s0' = Before(iid)'
        BY <1>3, <1>9, <4>1 DEF Before
      <4>3. \E x \in 0 .. plan'[iid'].idt[2] : intervals' = Cut(x)'
        BY <1>3, <1>4, <3>4, <4>1 DEF Cut
      <4>4. ~terminate' => intervals' = plan'
        BY <1>3, <3>2 DEF Running
      <4>5. t0' <= now'
        <5>1. CASE inProc
          <6>1. t0 <= now
            BY <1>3, <5>1 DEF Running
          <6>2. t0 <= now'
            BY <1>10, <6>1, LessTransitive
          <6> QED BY <4>1, <6>2
        <5>2. CASE ~inProc
          <6>1. ~(t0 > now')
            BY <1>15, <5>2
          <6>2. t0 <= now'
            BY <1>10, <6>1, NotLess
          <6> QED BY <4>1, <6>2
        <5> QED BY <5>1, <5>2
      <4>6. \E w \in 0 .. Reach(intervals'[iid'].v, intervals'[iid'].idt[2], now' - t0') :
              position' = s0' + plan'[iid'].dir * w
        BY <1>4, <3>4, <4>1
      <4> QED BY <2>2, <4>1, <4>2, <4>3, <4>4, <4>5, <4>6 DEF Running
    <3>7. TimedInv'
      <4>1. EndsAtTarget'
        BY <3>5 DEF EndsAtTarget
      <4>2. t0' \in Int /\ control' \in BOOLEAN
        BY <1>10, <2>5, <3>2
      <4> QED BY <1>3, <1>10, <2>2, <2>4, <2>6, <3>3, <3>6, <4>1, <4>2 DEF TimedInv, IsPlan
    <3>8. iid' <= iid
      BY <1>2, <1>3, <3>2
    <3> QED BY <1>3, <1>4, <1>11, <1>12a, <2>4, <2>6, <3>3, <3>7, <3>8
  <2> QED BY <2>3, <2>7, <2>8
<1> QED BY <1>14, <1>15

(* What the orders say of the whole movement.                              *)
Ordered ==
  /\ Directions \subseteq {"up"} => \A i \in DOMAIN plan : plan[i].dir = 1
  /\ terminate => MayStop

LEMMA TimedInitially ==
  ASSUME TimedInit
  PROVE  TimedInv /\ Ordered
<1>1. PICK n \in 1 .. MaxIntervals : intervals \in [1 .. n -> PlannedIntervals]
  BY DEF TimedInit
<1>2. n \in Positive /\ n \in Nat /\ 1 \in 1 .. n
  BY <1>1, TimesAssumption DEF Positive
<1>3. /\ plan = intervals /\ iid = 1 /\ inProc = FALSE /\ terminate = FALSE /\ control = TRUE
      /\ t0 \in Int /\ s0 = 0 /\ now = 0 /\ position = 0 /\ step = 0
  BY TimesAssumption DEF TimedInit
<1>4. ASSUME NEW ramp \in 1 .. MaxRamp, NEW even \in 0 .. MaxEven, NEW dir \in Directions
      PROVE  Interval(ramp, even, Sign(dir)) \in Intervals
  <2>1. ramp \in Positive /\ even \in Nat
    BY TimesAssumption DEF Positive
  <2>2. Sign(dir) \in {1, -1}
    BY DEF Sign
  <2> DEFINE x == <<ramp, even, Sign(dir)>>
  <2>3. x \in Positive \X Nat \X {1, -1} /\ Interval(x[1], x[2], x[3]) = Interval(ramp, even, Sign(dir))
    BY <2>1, <2>2
  <2> QED BY <2>3 DEF Intervals
<1>5. PlannedIntervals \subseteq Intervals
  BY <1>4 DEF PlannedIntervals
<1>6. IsPlan /\ DOMAIN plan = 1 .. n
  BY <1>1, <1>2, <1>3, <1>5 DEF IsPlan
<1>7. PICK r \in Positive, m \in Nat, d \in {1, -1} :
        plan[1] = Interval(r, m, d) /\ plan[1].v = r /\ plan[1].idt[2] = m /\ plan[1].dir = d
  <2>1. 1 \in DOMAIN plan
    BY <1>2, <1>6
  <2> QED BY <1>6, <2>1, PlannedInterval
<1>8. Running
  <2>1. plan = [plan EXCEPT ![1] = Interval(r, m, d)]
    BY <1>1, <1>3, <1>7
  <2>2. intervals = Cut(m) /\ m \in 0 .. plan[iid].idt[2]
    BY <1>3, <1>7, <2>1 DEF Cut
  <2>3. Before(1) = 0
    BY <1>2, <1>6, BeforeNext
  <2> QED BY <1>2, <1>3, <1>6, <2>2, <2>3 DEF Running
<1>9. NeverTurnsBack
  BY <1>3, <1>7 DEF NeverTurnsBack
<1>10. Ordered
  <2> SUFFICES ASSUME Directions \subseteq {"up"}, NEW i \in DOMAIN plan PROVE plan[i].dir = 1
    BY <1>3 DEF Ordered
  <2>1. plan[i] \in PlannedIntervals
    BY <1>1, <1>3, <1>6
  <2>2. PICK ramp \in 1 .. MaxRamp, even \in 0 .. MaxEven, dir \in Directions : plan[i] = Interval(ramp, even, Sign(dir))
    BY <2>1 DEF PlannedIntervals
  <2>3. Sign(dir) = 1
    BY DEF Sign
  <2> QED BY <2>2, <2>3 DEF Interval
<1>11. EndsAtTarget
  BY <1>3 DEF EndsAtTarget
<1>12. inProc \in BOOLEAN /\ terminate \in BOOLEAN /\ control \in BOOLEAN /\ now \in Int /\ t0 \in Int
  <2>1. inProc \in BOOLEAN /\ terminate \in BOOLEAN /\ control \in BOOLEAN
    BY <1>3
  <2>2. now \in Int /\ t0 \in Int
    BY <1>3
  <2> QED BY <2>1, <2>2
<1> QED BY <1>6, <1>8, <1>9, <1>10, <1>11, <1>12 DEF TimedInv

LEMMA StopKeeps ==
  ASSUME TimedInv, Stop
  PROVE  TimedInv'
<1>1. /\ terminate' = TRUE /\ control
      /\ UNCHANGED <<intervals, iid, inProc, t0, s0, now, position, control, plan, step>>
  BY DEF Stop
<1>2. Before(iid)' = Before(iid) /\ \A c : Cut(c)' = Cut(c)
  BY <1>1 DEF Before, Cut
<1>3. Running'
  BY <1>1, <1>2 DEF TimedInv, Running
<1>4. EndsAtTarget' /\ NeverTurnsBack'
  BY <1>1 DEF TimedInv, EndsAtTarget, NeverTurnsBack
<1> QED BY <1>1, <1>3, <1>4 DEF TimedInv, IsPlan

LEMMA TimedSteps ==
  ASSUME Sound => TimedInv, Ordered, [TimedNext]_timedVars
  PROVE  (Sound => TimedInv)' /\ Ordered'
<1>1. CASE Stop
  <2>1. terminate' = TRUE /\ plan' = plan /\ MayStop /\ ~terminate
    BY <1>1 DEF Stop
  <2>2. Sound
    BY <2>1 DEF Sound
  <2> QED BY <1>1, <2>1, <2>2, StopKeeps DEF Ordered
<1>2. CASE Cycle
  <2>1. terminate' = terminate /\ plan' = plan
    BY <1>2 DEF Cycle
  <2>2. Sound' <=> Sound
    BY <2>1 DEF Sound
  <2> QED BY <1>2, <2>1, <2>2, CycleMoves DEF Ordered
<1>3. CASE UNCHANGED timedVars
  <2>1. UNCHANGED <<intervals, iid, inProc, terminate, t0, s0, now, position, control, plan, step>>
    BY <1>3 DEF timedVars
  <2>2. Before(iid)' = Before(iid) /\ (\A c : Cut(c)' = Cut(c)) /\ (Sound' <=> Sound)
    BY <2>1 DEF Before, Cut, Sound
  <2>3. Running' <=> Running
    BY <2>1, <2>2 DEF Running
  <2>4. TimedInv' <=> TimedInv
    BY <2>1, <2>3 DEF TimedInv, IsPlan, EndsAtTarget, NeverTurnsBack
  <2> QED BY <2>1, <2>2, <2>4 DEF Ordered
<1> QED BY <1>1, <1>2, <1>3 DEF TimedNext

LEMMA MovementInv == MotionSpec => []((Sound => TimedInv) /\ Ordered)
<1>1. MotionInit => (Sound => TimedInv) /\ Ordered
  BY TimedInitially DEF MotionInit
<1>2. (Sound => TimedInv) /\ Ordered /\ [MotionNext]_motionVars => ((Sound => TimedInv) /\ Ordered)'
  <2>1. [MotionNext]_motionVars => [TimedNext]_timedVars
    BY DEF MotionNext, PlanStep, AccelStep, TimedStep, motionVars
  <2> QED BY <2>1, TimedSteps
<1> QED BY <1>1, <1>2, PTL DEF MotionSpec

(***************************************************************************)
(* The axis follows its plan: a movement that nobody stops ends at the sum   *)
(* of its ways, whatever the lengths of the cycles, and it never turns back  *)
(* - unless an interval that goes down can be stopped, where the code turns  *)
(* back (the run TimedMotion_back).                                        *)
(***************************************************************************)
THEOREM MoveFollowsPlan ==
  ASSUME Directions \subseteq {"up"} \/ ~MayStop
  PROVE  MotionSpec => []FollowsPlan
<1>1. (Sound => TimedInv) /\ Ordered => FollowsPlan
  <2> SUFFICES ASSUME Sound => TimedInv, Ordered PROVE FollowsPlan
    OBVIOUS
  <2>1. Sound
    BY DEF Ordered, Sound
  <2> QED BY <2>1 DEF TimedInv, FollowsPlan
<1> QED BY <1>1, MovementInv, PTL

(***************************************************************************)
(* An axis that is stopped goes on at most to the end of its interval and    *)
(* begins no other, if it goes up.                                         *)
(***************************************************************************)
THEOREM StopEndsShort == MotionSpec => StopsShort
<1> DEFINE Up == \A i \in DOMAIN plan : plan[i].dir = 1
           Short == /\ position' \in position .. Total(SubSeq(plan, 1, iid))
                    /\ iid' <= iid
<1>1. (Sound => TimedInv) /\ Ordered /\ [MotionNext]_motionVars => [terminate /\ Up => Short]_timedVars
  <2> SUFFICES ASSUME Sound => TimedInv, TimedNext, terminate, Up PROVE Short
    BY DEF MotionNext, PlanStep, AccelStep, TimedStep, motionVars
  <2>1. Cycle /\ Sound /\ TimedInv
    BY DEF TimedNext, Stop, Sound
  <2>2. /\ iid \in DOMAIN plan /\ Running /\ position \in Int /\ iid' <= iid
        /\ \E j \in Nat : position' = position + plan[iid].dir * j
        /\ \E r \in Positive, m \in Nat :
              /\ Way(plan[iid], 4) = plan[iid].dir * Full(r, m)
              /\ \E w \in 0 .. Full(r, m) : position' = s0 + plan[iid].dir * w
    BY <2>1, CycleMoves
  <2>3. PICK j \in Nat : position' = position + plan[iid].dir * j
    BY <2>2
  <2>4. PICK r \in Positive, m \in Nat :
              /\ Way(plan[iid], 4) = plan[iid].dir * Full(r, m)
              /\ \E w \in 0 .. Full(r, m) : position' = s0 + plan[iid].dir * w
    BY <2>2
  <2>5. PICK w \in 0 .. Full(r, m) : position' = s0 + plan[iid].dir * w
    BY <2>4
  <2>6. plan[iid].dir = 1 /\ IsPlan
    BY <2>1, <2>2 DEF TimedInv
  <2>7. /\ s0 \in Int /\ Total(SubSeq(plan, 1, iid)) = s0 + Way(plan[iid], 4)
    BY <2>2, <2>6, BeforeNext DEF Running
  <2>8. Full(r, m) \in Nat
    BY Product DEF Full, Positive
  <2> DEFINE here == position + j
  <2>9. position' = here /\ here = s0 + w /\ Total(SubSeq(plan, 1, iid)) = s0 + Full(r, m)
    BY <2>3, <2>4, <2>5, <2>6, <2>7, <2>2, <2>8
  <2>10. here \in position .. Total(SubSeq(plan, 1, iid))
    BY <2>2, <2>7, <2>8, <2>9
  <2> QED BY <2>2, <2>9, <2>10
<1> QED BY <1>1, MovementInv, PTL DEF MotionSpec, StopsShort

-----------------------------------------------------------------------------
(***************************************************************************)
(* The plan.  What is known of the phases s of an axis that moves in the      *)
(* steps M, when n steps are read: each phase is a run of steps, the phases   *)
(* come in order with a pause between them, and together they are the steps  *)
(* of the axis.                                                            *)
(***************************************************************************)
Phases == [step : Nat, moves : Seq(Nat)]

EndOf(ph) == ph.step + Len(ph.moves) - 1

Track(s, M, n) ==
  /\ s \in Seq(Phases) /\ Len(s) <= n
  /\ \A p \in 1 .. Len(s) :
       /\ 1 <= s[p].step /\ s[p].step <= EndOf(s[p]) /\ EndOf(s[p]) <= n
       /\ \A k \in 1 .. Len(s[p].moves) : s[p].moves[k] = s[p].step + k - 1
  /\ \A p, q \in 1 .. Len(s) : p < q => EndOf(s[p]) + 1 < s[q].step
  /\ \A i \in 1 .. n : i \in M <=> \E p \in 1 .. Len(s) : s[p].step <= i /\ i <= EndOf(s[p])

LEMMA PhaseType ==
  ASSUME NEW s \in Seq(Phases), NEW p \in 1 .. Len(s)
  PROVE  s[p] \in Phases /\ s[p].step \in Nat /\ s[p].moves \in Seq(Nat) /\ Len(s[p].moves) \in Nat /\ EndOf(s[p]) \in Int
<1>1. s[p] \in Phases
  OBVIOUS
<1>2. s[p].step \in Nat /\ s[p].moves \in Seq(Nat)
  BY <1>1 DEF Phases
<1>3. Len(s[p].moves) \in Nat
  BY <1>2
<1> QED BY <1>1, <1>2, <1>3 DEF EndOf

LEMMA TrackPause ==
  ASSUME NEW s, NEW M, NEW n \in Nat, Track(s, M, n), n + 1 \notin M
  PROVE  Track(s, M, n + 1)
<1>1. s \in Seq(Phases) /\ Len(s) \in Nat /\ Len(s) <= n
  BY DEF Track
<1>2. \A p \in 1 .. Len(s) : s[p].step \in Nat /\ EndOf(s[p]) \in Int
  BY <1>1, PhaseType
<1>3. \A p \in 1 .. Len(s) :
        /\ 1 <= s[p].step /\ s[p].step <= EndOf(s[p]) /\ EndOf(s[p]) <= n + 1
        /\ \A k \in 1 .. Len(s[p].moves) : s[p].moves[k] = s[p].step + k - 1
  BY <1>2 DEF Track
<1>4. ASSUME NEW i \in 1 .. n + 1
      PROVE  i \in M <=> \E p \in 1 .. Len(s) : s[p].step <= i /\ i <= EndOf(s[p])
  <2>1. CASE i = n + 1
    <3>1. \A p \in 1 .. Len(s) : ~(i <= EndOf(s[p]))
      BY <1>2, <2>1 DEF Track
    <3> QED BY <2>1, <3>1
  <2>2. CASE i # n + 1
    <3>1. i \in 1 .. n
      BY <2>2
    <3> QED BY <3>1 DEF Track
  <2> QED BY <2>1, <2>2
<1>5. Len(s) <= n + 1
  BY <1>1
<1> QED BY <1>1, <1>3, <1>4, <1>5 DEF Track

LEMMA TrackBegin ==
  ASSUME NEW s, NEW M, NEW n \in Nat, Track(s, M, n), n + 1 \in M, n = 0 \/ n \notin M
  PROVE  Track(Append(s, NewPhase(n + 1)), M, n + 1)
<1> DEFINE t == Append(s, NewPhase(n + 1))
           l == Len(s)
<1>1. s \in Seq(Phases) /\ l \in Nat /\ l <= n
  BY DEF Track
<1>2. \A p \in 1 .. l : s[p].step \in Nat /\ EndOf(s[p]) \in Int
  BY <1>1, PhaseType
<1>3. NewPhase(n + 1) \in Phases /\ NewPhase(n + 1).step = n + 1 /\ NewPhase(n + 1).moves = <<n + 1>>
  <2>1. <<n + 1>> \in Seq(Nat)
    OBVIOUS
  <2> QED BY <2>1 DEF NewPhase, Phases
<1>4. t \in Seq(Phases) /\ Len(t) = l + 1 /\ t[l + 1] = NewPhase(n + 1) /\ \A p \in 1 .. l : t[p] = s[p]
  BY <1>1, <1>3
<1> HIDE DEF t, l
<1>5. EndOf(t[l + 1]) = n + 1 /\ t[l + 1].step = n + 1 /\ Len(t[l + 1].moves) = 1 /\ t[l + 1].moves[1] = n + 1
  <2>1. t[l + 1].moves = <<n + 1>> /\ Len(<<n + 1>>) = 1 /\ <<n + 1>>[1] = n + 1
    BY <1>3, <1>4
  <2>2. t[l + 1].step = n + 1
    BY <1>3, <1>4
  <2> QED BY <2>1, <2>2 DEF EndOf
<1>6. ASSUME NEW p \in 1 .. l PROVE EndOf(s[p]) < n \/ n = 0
  <2> SUFFICES ASSUME n # 0, EndOf(s[p]) = n PROVE FALSE
    BY <1>2 DEF Track, l
  <2>1. n \in 1 .. n /\ s[p].step <= n /\ n <= EndOf(s[p])
    BY <1>2 DEF Track, l
  <2> QED BY <2>1 DEF Track, l
<1>7. \A p \in 1 .. Len(t) : p \in 1 .. l \/ p = l + 1
  BY <1>1, <1>4
<1>8. n = 0 => l = 0
  BY <1>1
<1>9. ASSUME NEW p \in 1 .. Len(t)
      PROVE  /\ 1 <= t[p].step /\ t[p].step <= EndOf(t[p]) /\ EndOf(t[p]) <= n + 1
             /\ \A k \in 1 .. Len(t[p].moves) : t[p].moves[k] = t[p].step + k - 1
  <2>1. CASE p \in 1 .. l
    <3>1. t[p] = s[p] /\ 1 <= s[p].step /\ s[p].step <= EndOf(s[p]) /\ EndOf(s[p]) <= n
          /\ \A k \in 1 .. Len(s[p].moves) : s[p].moves[k] = s[p].step + k - 1
      BY <1>4, <2>1 DEF Track, l
    <3> QED BY <1>2, <2>1, <3>1
  <2>2. CASE p = l + 1
    <3>1. \A k \in 1 .. 1 : k = 1
      OBVIOUS
    <3> QED BY <1>5, <2>2, <3>1
  <2> QED BY <1>7, <2>1, <2>2
<1>10. ASSUME NEW p \in 1 .. Len(t), NEW q \in 1 .. Len(t), p < q PROVE EndOf(t[p]) + 1 < t[q].step
  <2>1. p \in 1 .. l
    BY <1>1, <1>4, <1>10
  <2>2. CASE q \in 1 .. l
    BY <1>4, <1>10, <2>1, <2>2 DEF Track, l
  <2>3. CASE q = l + 1
    BY <1>1, <1>2, <1>4, <1>5, <1>6, <1>8, <2>1, <2>3
  <2> QED BY <1>7, <2>2, <2>3
<1>11. ASSUME NEW i \in 1 .. n + 1
       PROVE  i \in M <=> \E p \in 1 .. Len(t) : t[p].step <= i /\ i <= EndOf(t[p])
  <2>1. CASE i = n + 1
    <3>1. l + 1 \in 1 .. Len(t) /\ t[l + 1].step <= i /\ i <= EndOf(t[l + 1])
      BY <1>1, <1>4, <1>5, <2>1
    <3> QED BY <2>1, <3>1
  <2>2. CASE i # n + 1
    <3>1. i \in 1 .. n /\ ~(n + 1 <= i)
      BY <2>2
    <3>2. i \in M <=> \E p \in 1 .. l : s[p].step <= i /\ i <= EndOf(s[p])
      BY <3>1 DEF Track, l
    <3>3. (\E p \in 1 .. Len(t) : t[p].step <= i /\ i <= EndOf(t[p])) <=> \E p \in 1 .. l : t[p].step <= i /\ i <= EndOf(t[p])
      <4>1. 1 .. l \subseteq 1 .. Len(t)
        BY <1>1, <1>4
      <4> QED BY <1>5, <1>7, <3>1, <4>1
    <3>4. (\E p \in 1 .. l : t[p].step <= i /\ i <= EndOf(t[p])) <=> \E p \in 1 .. l : s[p].step <= i /\ i <= EndOf(s[p])
      BY <1>4
    <3> QED BY <3>2, <3>3, <3>4
  <2> QED BY <2>1, <2>2
<1>12. Len(t) <= n + 1
  BY <1>1, <1>4
<1> QED BY <1>4, <1>9, <1>10, <1>11, <1>12 DEF Track, t

LEMMA TrackGoesOn ==
  ASSUME NEW s, NEW M, NEW n \in Nat, Track(s, M, n), n + 1 \in M, n # 0, n \in M
  PROVE  Track([s EXCEPT ![Len(s)].moves = Append(@, n + 1)], M, n + 1)
<1> DEFINE l == Len(s)
           old == s[l].moves
           new == Append(old, n + 1)
           t == [s EXCEPT ![l].moves = new]
<1>1. s \in Seq(Phases) /\ l \in Nat /\ l <= n
  BY DEF Track
<1>2. \A p \in 1 .. l : s[p].step \in Nat /\ EndOf(s[p]) \in Int
  BY <1>1, PhaseType
<1>3. /\ l \in 1 .. l /\ EndOf(s[l]) = n
  <2>1. PICK p \in 1 .. l : s[p].step <= n /\ n <= EndOf(s[p])
    <3>1. n \in 1 .. n
      OBVIOUS
    <3> QED BY <3>1 DEF Track
  <2>2. EndOf(s[p]) = n
    BY <1>2, <2>1 DEF Track
  <2>3. l \in 1 .. l
    BY <1>1, <2>1
  <2>4. CASE p = l
    BY <2>2, <2>3, <2>4
  <2>5. CASE p # l
    <3>1. p < l
      BY <1>1, <2>1, <2>5
    <3>2. n + 1 < s[l].step /\ s[l].step <= EndOf(s[l]) /\ EndOf(s[l]) <= n
      BY <2>2, <2>3, <3>1 DEF Track
    <3> QED BY <1>2, <2>3, <3>2
  <2> QED BY <2>4, <2>5
<1>4. /\ s[l] \in Phases /\ old \in Seq(Nat) /\ s[l].step \in Nat /\ Len(old) \in Nat
      /\ s[l].step + Len(old) - 1 = n /\ 1 <= s[l].step /\ s[l].step <= n
      /\ \A k \in 1 .. Len(old) : old[k] = s[l].step + k - 1
  BY <1>1, <1>3, PhaseType DEF Track, EndOf
<1>5. /\ new \in Seq(Nat) /\ Len(new) = Len(old) + 1 /\ new[Len(old) + 1] = n + 1
      /\ \A k \in 1 .. Len(old) : new[k] = old[k]
  BY <1>4
<1> HIDE DEF old, new
<1>6. /\ t \in Seq(Phases) /\ Len(t) = l /\ \A p \in 1 .. l : p # l => t[p] = s[p]
      /\ t[l].step = s[l].step /\ t[l].moves = new
  <2> DEFINE ph == [s[l] EXCEPT !.moves = new]
  <2>1. ph \in Phases /\ ph.step = s[l].step /\ ph.moves = new
    BY <1>4, <1>5 DEF Phases
  <2>2. t = [s EXCEPT ![l] = ph]
    OBVIOUS
  <2> HIDE DEF ph, t, l
  <2>3. t \in Seq(Phases) /\ Len(t) = Len(s) /\ t[l] = ph /\ \A p \in 1 .. Len(s) : p # l => t[p] = s[p]
    <3>1. s \in Seq(Phases) /\ l \in 1 .. Len(s)
      BY <1>1, <1>3 DEF l
    <3> QED BY <2>1, <2>2, <3>1
  <2> QED BY <2>1, <2>3 DEF l
<1> HIDE DEF t, l
<1>7. EndOf(t[l]) = n + 1
  <2>1. EndOf(t[l]) = s[l].step + Len(new) - 1
    BY <1>6 DEF EndOf
  <2> QED BY <1>4, <1>5, <2>1
<1>8. ASSUME NEW p \in 1 .. l, p # l PROVE t[p] = s[p] /\ p < l
  BY <1>1, <1>6, <1>8
<1>9. ASSUME NEW p \in 1 .. l
      PROVE  /\ 1 <= t[p].step /\ t[p].step <= EndOf(t[p]) /\ EndOf(t[p]) <= n + 1
             /\ \A k \in 1 .. Len(t[p].moves) : t[p].moves[k] = t[p].step + k - 1
  <2>1. CASE p # l
    <3>1. t[p] = s[p] /\ 1 <= s[p].step /\ s[p].step <= EndOf(s[p]) /\ EndOf(s[p]) <= n
          /\ \A k \in 1 .. Len(s[p].moves) : s[p].moves[k] = s[p].step + k - 1
      BY <1>8, <2>1 DEF Track, l
    <3> QED BY <1>2, <3>1
  <2>2. CASE p = l
    <3>1. ASSUME NEW k \in 1 .. Len(new) PROVE new[k] = s[l].step + k - 1
      <4>1. CASE k \in 1 .. Len(old)
        BY <1>4, <1>5, <4>1
      <4>2. CASE k = Len(old) + 1
        BY <1>4, <1>5, <4>2
      <4> QED BY <1>4, <1>5, <4>1, <4>2
    <3>2. 1 <= t[l].step /\ t[l].step <= n + 1
      BY <1>4, <1>6
    <3> QED BY <1>6, <1>7, <2>2, <3>1, <3>2
  <2> QED BY <2>1, <2>2
<1>10. ASSUME NEW p \in 1 .. l, NEW q \in 1 .. l, p < q PROVE EndOf(t[p]) + 1 < t[q].step
  <2>1. p # l
    BY <1>1, <1>10
  <2>2. t[p] = s[p] /\ t[q].step = s[q].step
    BY <1>6, <2>1
  <2>3. EndOf(s[p]) + 1 < s[q].step
    BY <1>10 DEF Track, l
  <2> QED BY <2>2, <2>3
<1>11. ASSUME NEW i \in 1 .. n + 1
       PROVE  i \in M <=> \E p \in 1 .. l : t[p].step <= i /\ i <= EndOf(t[p])
  <2>1. CASE i = n + 1
    <3>1. t[l].step <= i /\ i <= EndOf(t[l])
      BY <1>4, <1>6, <1>7, <2>1
    <3> QED BY <1>3, <2>1, <3>1
  <2>2. CASE i # n + 1
    <3>1. i \in 1 .. n /\ i <= n
      BY <2>2
    <3>2. i \in M <=> \E p \in 1 .. l : s[p].step <= i /\ i <= EndOf(s[p])
      BY <3>1 DEF Track, l
    <3>3. ASSUME NEW p \in 1 .. l
          PROVE  (t[p].step <= i /\ i <= EndOf(t[p])) <=> (s[p].step <= i /\ i <= EndOf(s[p]))
      <4>1. CASE p # l
        BY <1>8, <4>1
      <4>2. CASE p = l
        <5>1. i <= n + 1
          BY <3>1
        <5> QED BY <1>3, <1>6, <1>7, <3>1, <4>2, <5>1
      <4> QED BY <4>1, <4>2
    <3> QED BY <3>2, <3>3
  <2> QED BY <2>1, <2>2
<1>12. Len(t) = l /\ l <= n + 1
  BY <1>1, <1>6
<1>13. Track(t, M, n + 1)
  BY <1>6, <1>9, <1>10, <1>11, <1>12 DEF Track
<1> QED BY <1>13 DEF t, l, new, old

(* A phase is a longest run of steps, and the only one with its steps.     *)
LEMMA TrackRun ==
  ASSUME NEW s, NEW M, NEW n \in Nat, Track(s, M, n),
         NEW p \in 1 .. Len(s), NEW i \in 1 .. n, s[p].step <= i, i <= EndOf(s[p])
  PROVE  /\ {j \in 1 .. n : \A k \in 1 .. n : (i <= k /\ k <= j) \/ (j <= k /\ k <= i) => k \in M}
              = s[p].step .. EndOf(s[p])
         /\ \A q \in 1 .. Len(s) : s[q].step <= i /\ i <= EndOf(s[q]) => q = p
<1>1. s \in Seq(Phases) /\ Len(s) \in Nat
  BY DEF Track
<1>2. \A q \in 1 .. Len(s) : s[q].step \in Nat /\ EndOf(s[q]) \in Int
  BY <1>1, PhaseType
<1>3. \A q, r \in 1 .. Len(s) : q < r => EndOf(s[q]) + 1 < s[r].step
  BY DEF Track
<1>4. 1 <= s[p].step /\ EndOf(s[p]) <= n
  BY DEF Track
<1>5. ASSUME NEW q \in 1 .. Len(s), q # p, NEW k \in Int, s[q].step <= k, k <= EndOf(s[q])
      PROVE  ~(s[p].step - 1 <= k /\ k <= EndOf(s[p]) + 1)
  <2>1. q < p \/ p < q
    BY <1>1, <1>5
  <2> QED BY <1>2, <1>3, <1>5, <2>1
<1>6. ASSUME NEW k \in 1 .. n, k \in M, s[p].step - 1 <= k, k <= EndOf(s[p]) + 1
      PROVE  s[p].step <= k /\ k <= EndOf(s[p])
  <2>1. PICK q \in 1 .. Len(s) : s[q].step <= k /\ k <= EndOf(s[q])
    BY <1>6 DEF Track
  <2> QED BY <1>5, <1>6, <2>1
<1>7. ASSUME NEW k \in 1 .. n, s[p].step <= k, k <= EndOf(s[p]) PROVE k \in M
  BY <1>7 DEF Track
<1>8. ASSUME NEW j \in s[p].step .. EndOf(s[p]), NEW k \in 1 .. n, (i <= k /\ k <= j) \/ (j <= k /\ k <= i)
      PROVE  k \in M
  BY <1>2, <1>7, <1>8
<1>9. ASSUME NEW j \in 1 .. n, j \notin s[p].step .. EndOf(s[p])
      PROVE  \E k \in 1 .. n : ((i <= k /\ k <= j) \/ (j <= k /\ k <= i)) /\ k \notin M
  <2>1. CASE j < s[p].step
    <3> DEFINE k == s[p].step - 1
    <3>1. k \in 1 .. n /\ j <= k /\ k <= i /\ s[p].step - 1 <= k /\ k <= EndOf(s[p]) + 1 /\ ~(s[p].step <= k)
      BY <1>2, <1>4, <2>1
    <3>2. k \notin M
      BY <1>6, <3>1
    <3> QED BY <3>1, <3>2
  <2>2. CASE EndOf(s[p]) < j
    <3> DEFINE k == EndOf(s[p]) + 1
    <3>1. k \in 1 .. n /\ i <= k /\ k <= j /\ s[p].step - 1 <= k /\ k <= EndOf(s[p]) + 1 /\ ~(k <= EndOf(s[p]))
      BY <1>2, <1>4, <2>2
    <3>2. k \notin M
      BY <1>6, <3>1
    <3> QED BY <3>1, <3>2
  <2> QED BY <1>2, <1>9, <2>1, <2>2
<1>10. s[p].step .. EndOf(s[p]) \subseteq 1 .. n
  BY <1>2, <1>4
<1>11. {j \in 1 .. n : \A k \in 1 .. n : (i <= k /\ k <= j) \/ (j <= k /\ k <= i) => k \in M}
              = s[p].step .. EndOf(s[p])
  BY <1>8, <1>9, <1>10
<1>12. \A q \in 1 .. Len(s) : s[q].step <= i /\ i <= EndOf(s[q]) => q = p
  BY <1>2, <1>5
<1> QED BY <1>11, <1>12

(***************************************************************************)
(* The inductive invariant of the plan, in parts: the task; what is read of  *)
(* it; how far the times are calculated, of which st, is, lf and ls stand    *)
(* for the times of the steps, the step, the axes left and what was given.  *)
(***************************************************************************)
IsTask ==
  /\ \E n \in Positive : moveTask \in [1 .. n -> (SUBSET PlanAxes) \ {{}}]
  /\ need \in [UNION {{<<i, RunAt(a, i)>> : a \in moveTask[i]} : i \in Steps} -> Needs]

StepsOf(a) == {i \in Steps : a \in moveTask[i]}

IsRead ==
  /\ taken \in Nat /\ taken <= Len(moveTask)
  /\ \A a \in PlanAxes : /\ Track(phases[a], StepsOf(a), taken)
                         /\ halted[a] <=> taken = 0 \/ taken \notin StepsOf(a)

SameRun(a, b, i) ==
  /\ PhaseAt(b, i).step = PhaseAt(a, i).step
  /\ Len(PhaseAt(b, i).moves) = Len(PhaseAt(a, i).moves)

Settled(st, ls, i) ==
  /\ \A a \in moveTask[i] : ls[a][i] = st[i] /\ Need(i, a).full <= st[i]
  /\ \E a \in moveTask[i] : st[i] = Need(i, a).full

Timing(st, is, lf, ls) ==
  /\ st \in [1 .. taken -> Nat] /\ is \in 1 .. taken /\ ls \in [PlanAxes -> [Steps -> Nat]]
  /\ \A i \in 1 .. is - 1 : Settled(st, ls, i)
  /\ \A i \in is + 1 .. taken : st[i] = 0
  /\ lf \subseteq Present(is)
  /\ \A a \in lf, b \in Present(is) : SameRun(a, b, is) => b \in lf
  /\ \A a \in Present(is) \ lf : ls[a][is] = st[is] /\ Need(is, a).full <= st[is]
  /\ \/ st[is] = 0
     \/ \E a \in Present(is) : st[is] = Need(is, a).full \/ (a \in lf /\ st[is] = Need(is, a).min)

AllGroups ==
  UNION {{{y \in Starters(i) : Length(y) = Length(x)} : x \in Starters(i)} : i \in 1 .. taken}

PlanInv ==
  /\ IsTask /\ IsRead
  /\ lasts \in [PlanAxes -> [Steps -> Nat]]
  /\ stage \in {"read", "group", "times", "done"}
  /\ IF stage = "read" THEN taken < Len(moveTask) ELSE taken = Len(moveTask)
  /\ stage \in {"read", "group"} => istep = 1
  /\ stage \in {"times", "done"} => groups = AllGroups /\ Timing(stepTimes, istep, left, lasts)
  /\ stage = "done" =>
       /\ left = {} /\ istep = taken
       /\ startTime = [a \in PlanAxes |-> [p \in DOMAIN phases[a] |-> TimeBefore(phases[a][p].step)]]

LEMMA TaskType ==
  ASSUME IsTask
  PROVE  /\ Len(moveTask) \in Positive /\ Steps = 1 .. Len(moveTask)
         /\ \A i \in Steps : moveTask[i] \subseteq PlanAxes /\ moveTask[i] # {}
         /\ \A i \in Steps : \A a \in moveTask[i] :
              /\ Need(i, a) \in Needs
              /\ Need(i, a).min \in Nat /\ Need(i, a).full \in Nat
              /\ 0 < Need(i, a).full /\ Need(i, a).min <= Need(i, a).full
<1>1. PICK n \in Positive : moveTask \in [1 .. n -> (SUBSET PlanAxes) \ {{}}]
  BY DEF IsTask
<1>2. Len(moveTask) = n /\ Steps = 1 .. n
  BY <1>1 DEF Steps, Positive
<1>3. ASSUME NEW i \in Steps, NEW a \in moveTask[i]
      PROVE  /\ Need(i, a) \in Needs
             /\ Need(i, a).min \in Nat /\ Need(i, a).full \in Nat
             /\ 0 < Need(i, a).full /\ Need(i, a).min <= Need(i, a).full
  <2>1. Need(i, a) \in Needs
    <3>1. <<i, RunAt(a, i)>> \in UNION {{<<k, RunAt(b, k)>> : b \in moveTask[k]} : k \in Steps}
      OBVIOUS
    <3> QED BY <3>1 DEF IsTask, Need
  <2> QED BY <2>1, PlanAssumption
<1> QED BY <1>1, <1>2, <1>3

(* An axis of a step is in one phase there, which is its run in the task.  *)
LEMMA InPhase ==
  ASSUME IsTask, IsRead, taken = Len(moveTask), NEW a \in PlanAxes, NEW i \in Steps
  PROVE  /\ a \in moveTask[i] <=> Containing(a, i) # {}
         /\ a \in moveTask[i] =>
              \E p \in DOMAIN phases[a] :
                 /\ p \in 1 .. taken /\ Containing(a, i) = {p} /\ PhaseAt(a, i) = phases[a][p]
                 /\ phases[a][p] \in Phases
                 /\ RunAt(a, i) = phases[a][p].step .. EndOf(phases[a][p])
<1>1. taken \in Nat /\ Steps = 1 .. taken
  BY TaskType DEF Positive
<1> DEFINE s == phases[a]
<1>2. Track(s, StepsOf(a), taken)
  BY DEF IsRead
<1> HIDE DEF s
<1>3. s \in Seq(Phases) /\ Len(s) \in Nat /\ Len(s) <= taken /\ DOMAIN s = 1 .. Len(s)
  BY <1>2 DEF Track
<1>4. \A p \in 1 .. Len(s) : s[p] \in Phases /\ s[p].step \in Nat /\ Len(s[p].moves) \in Nat
  BY <1>3, PhaseType
<1>5. Containing(a, i) = {p \in 1 .. Len(s) : s[p].step <= i /\ i <= EndOf(s[p])}
  <2>1. Containing(a, i) = {p \in 1 .. Len(s) : i >= s[p].step /\ i - s[p].step < Len(s[p].moves)}
    BY <1>3 DEF Containing, s
  <2>2. \A p \in 1 .. Len(s) : i - s[p].step < Len(s[p].moves) <=> i <= EndOf(s[p])
    BY <1>1, <1>4 DEF EndOf
  <2> QED BY <1>1, <1>4, <2>1, <2>2
<1>6. i \in StepsOf(a) <=> a \in moveTask[i]
  BY DEF StepsOf
<1>7. a \in moveTask[i] <=> Containing(a, i) # {}
  BY <1>1, <1>2, <1>5, <1>6 DEF Track
<1>8. ASSUME a \in moveTask[i]
      PROVE  \E p \in DOMAIN s :
                 /\ p \in 1 .. taken /\ Containing(a, i) = {p} /\ PhaseAt(a, i) = s[p]
                 /\ s[p] \in Phases
                 /\ RunAt(a, i) = s[p].step .. EndOf(s[p])
  <2>1. PICK p \in 1 .. Len(s) : s[p].step <= i /\ i <= EndOf(s[p])
    BY <1>5, <1>7, <1>8
  <2>2. /\ {j \in 1 .. taken : \A k \in 1 .. taken : (i <= k /\ k <= j) \/ (j <= k /\ k <= i) => k \in StepsOf(a)}
              = s[p].step .. EndOf(s[p])
        /\ \A q \in 1 .. Len(s) : s[q].step <= i /\ i <= EndOf(s[q]) => q = p
    BY <1>1, <1>2, <2>1, TrackRun
  <2>3. RunAt(a, i) = s[p].step .. EndOf(s[p])
    <3>1. \A k \in 1 .. taken : k \in StepsOf(a) <=> a \in moveTask[k]
      BY <1>1 DEF StepsOf
    <3>2. RunAt(a, i) = {j \in 1 .. taken : \A k \in 1 .. taken : (i <= k /\ k <= j) \/ (j <= k /\ k <= i) => a \in moveTask[k]}
      BY <1>1 DEF RunAt
    <3> QED BY <2>2, <3>1, <3>2
  <2>4. Containing(a, i) = {p}
    BY <1>5, <2>1, <2>2
  <2>5. PhaseAt(a, i) = s[p]
    BY <2>4 DEF PhaseAt, s
  <2>6. p \in 1 .. taken
    BY <1>1, <1>3
  <2> QED BY <1>3, <1>4, <2>3, <2>4, <2>5, <2>6
<1> QED BY <1>7, <1>8 DEF s

(* The axes present in a step are those of the task; axes with the same run  *)
(* ask the same.                                                           *)
LEMMA PresentAxes ==
  ASSUME IsTask, IsRead, taken = Len(moveTask), NEW i \in Steps
  PROVE  /\ Present(i) = moveTask[i]
         /\ \A a, b \in Present(i) : SameRun(a, b, i) => Need(i, a) = Need(i, b)
<1>1. Present(i) = moveTask[i]
  BY InPhase, TaskType DEF Present
<1>2. ASSUME NEW a \in Present(i), NEW b \in Present(i), SameRun(a, b, i)
      PROVE  Need(i, a) = Need(i, b)
  <2>1. a \in PlanAxes /\ b \in PlanAxes /\ a \in moveTask[i] /\ b \in moveTask[i]
    BY <1>1, TaskType
  <2>2. PICK p \in DOMAIN phases[a] :
           PhaseAt(a, i) = phases[a][p] /\ RunAt(a, i) = phases[a][p].step .. EndOf(phases[a][p])
    BY <2>1, InPhase
  <2>3. PICK q \in DOMAIN phases[b] :
           PhaseAt(b, i) = phases[b][q] /\ RunAt(b, i) = phases[b][q].step .. EndOf(phases[b][q])
    BY <2>1, InPhase
  <2>4. RunAt(a, i) = RunAt(b, i)
    BY <1>2, <2>2, <2>3 DEF SameRun, EndOf
  <2> QED BY <2>4 DEF Need
<1> QED BY <1>1, <1>2

LEMMA TimingLonger ==
  ASSUME IsTask, IsRead, taken = Len(moveTask),
         NEW st, NEW is, NEW lf, NEW ls, Timing(st, is, lf, ls), NEW a \in lf,
         NEW t \in {Need(is, a).min, Need(is, a).full}
  PROVE  Timing([st EXCEPT ![is] = t], is, Present(is), ls)
<1>1. taken \in Nat /\ Steps = 1 .. taken
  BY TaskType DEF Positive
<1>2. /\ st \in [1 .. taken -> Nat] /\ is \in 1 .. taken /\ ls \in [PlanAxes -> [Steps -> Nat]]
      /\ \A i \in 1 .. is - 1 : Settled(st, ls, i)
      /\ \A i \in is + 1 .. taken : st[i] = 0
      /\ lf \subseteq Present(is)
  BY DEF Timing
<1>3. a \in Present(is) /\ a \in moveTask[is]
  BY <1>1, <1>2, PresentAxes
<1>4. t \in Nat
  BY <1>1, <1>2, <1>3, TaskType
<1> DEFINE u == [st EXCEPT ![is] = t]
<1>5. u \in [1 .. taken -> Nat] /\ u[is] = t /\ \A i \in 1 .. taken : i # is => u[i] = st[i]
  BY <1>2, <1>4
<1> HIDE DEF u
<1>6. \A i \in 1 .. is - 1 : i \in 1 .. taken /\ i # is
  BY <1>1, <1>2
<1>7. \A i \in is + 1 .. taken : i \in 1 .. taken /\ i # is
  BY <1>1, <1>2
<1>8. \A i \in 1 .. is - 1 : Settled(u, ls, i)
  BY <1>2, <1>5, <1>6 DEF Settled
<1>9. \A i \in is + 1 .. taken : u[i] = 0
  BY <1>2, <1>5, <1>7
<1>10. \E b \in Present(is) : u[is] = Need(is, b).full \/ (b \in Present(is) /\ u[is] = Need(is, b).min)
  BY <1>3, <1>5
<1> QED BY <1>2, <1>5, <1>8, <1>9, <1>10 DEF Timing, u

LEMMA TimingEnough ==
  ASSUME IsTask, IsRead, taken = Len(moveTask),
         NEW st, NEW is, NEW lf, NEW ls, Timing(st, is, lf, ls), NEW a \in lf,
         ~(st[is] < Need(is, a).min), ~(st[is] < Need(is, a).full),
         NEW M, M = {b \in lf : SameRun(a, b, is)},
         NEW lt, lt = [b \in PlanAxes |-> IF b \in M THEN [ls[b] EXCEPT ![is] = st[is]] ELSE ls[b]]
  PROVE  Timing(st, is, lf \ M, lt)
<1>1. taken \in Nat /\ Steps = 1 .. taken
  BY TaskType DEF Positive
<1>2. /\ st \in [1 .. taken -> Nat] /\ is \in 1 .. taken /\ ls \in [PlanAxes -> [Steps -> Nat]]
      /\ \A i \in 1 .. is - 1 : Settled(st, ls, i)
      /\ \A i \in is + 1 .. taken : st[i] = 0
      /\ lf \subseteq Present(is) /\ st[is] \in Nat
  BY DEF Timing
<1>3. /\ Present(is) = moveTask[is] /\ moveTask[is] \subseteq PlanAxes
      /\ \A b \in M : Need(is, b) = Need(is, a)
  BY <1>1, <1>2, PresentAxes, TaskType
<1>4. \A b \in Present(is) : /\ Need(is, b).min \in Nat /\ Need(is, b).full \in Nat
                             /\ Need(is, b).min <= Need(is, b).full
  BY <1>1, <1>2, <1>3, TaskType
<1>5. Need(is, a).full <= st[is]
  BY <1>2, <1>4
<1>6. /\ lt \in [PlanAxes -> [Steps -> Nat]]
      /\ \A b \in PlanAxes, i \in Steps : i # is => lt[b][i] = ls[b][i]
      /\ \A b \in PlanAxes : b \in M => lt[b][is] = st[is]
      /\ \A b \in PlanAxes : b \notin M => lt[b][is] = ls[b][is]
  BY <1>1, <1>2
<1>7. ASSUME NEW i \in 1 .. is - 1 PROVE Settled(st, lt, i)
  <2>1. i \in Steps /\ i # is
    BY <1>1, <1>2
  <2>2. Settled(st, ls, i) /\ moveTask[i] \subseteq PlanAxes
    BY <1>2, <2>1, TaskType
  <2> QED BY <1>6, <2>1, <2>2 DEF Settled
<1>8. ASSUME NEW b \in lf \ M, NEW c \in Present(is), SameRun(b, c, is) PROVE c \in lf \ M
  <2>1. c \in lf
    BY <1>8 DEF Timing
  <2>2. ~SameRun(a, b, is)
    BY <1>8
  <2>3. ~SameRun(a, c, is)
    BY <1>8, <2>2 DEF SameRun
  <2> QED BY <2>1, <2>3
<1>9. ASSUME NEW b \in Present(is) \ (lf \ M) PROVE lt[b][is] = st[is] /\ Need(is, b).full <= st[is]
  <2>1. CASE b \in M
    BY <1>3, <1>5, <1>6, <2>1
  <2>2. CASE b \notin M
    BY <1>3, <1>6, <1>9, <2>2 DEF Timing
  <2> QED BY <2>1, <2>2
<1>10. \/ st[is] = 0
       \/ \E b \in Present(is) : st[is] = Need(is, b).full \/ (b \in lf \ M /\ st[is] = Need(is, b).min)
  <2> SUFFICES ASSUME NEW b \in Present(is), b \in lf, st[is] = Need(is, b).min, b \in M
               PROVE  st[is] = Need(is, b).full
    BY DEF Timing
  <2> QED BY <1>2, <1>3, <1>4, <1>5
<1>11. lf \ M \subseteq Present(is)
  BY <1>2
<1> QED BY <1>2, <1>6, <1>7, <1>8, <1>9, <1>10, <1>11 DEF Timing

LEMMA TimingSettled ==
  ASSUME IsTask, IsRead, taken = Len(moveTask),
         NEW st, NEW is, NEW ls, Timing(st, is, {}, ls)
  PROVE  /\ is \in 1 .. taken
         /\ \A i \in 1 .. is : Settled(st, ls, i)
         /\ is < taken => Timing(st, is + 1, Present(is + 1), ls)
<1>1. taken \in Nat /\ Steps = 1 .. taken
  BY TaskType DEF Positive
<1>2. /\ st \in [1 .. taken -> Nat] /\ is \in 1 .. taken /\ ls \in [PlanAxes -> [Steps -> Nat]]
      /\ \A i \in 1 .. is - 1 : Settled(st, ls, i)
      /\ \A i \in is + 1 .. taken : st[i] = 0
      /\ st[is] \in Nat
  BY DEF Timing
<1>3. Present(is) = moveTask[is] /\ moveTask[is] # {}
  BY <1>1, <1>2, PresentAxes, TaskType
<1>4. \A b \in Present(is) : Need(is, b).full \in Nat /\ 0 < Need(is, b).full
  BY <1>1, <1>2, <1>3, TaskType
<1>5. \A a \in moveTask[is] : ls[a][is] = st[is] /\ Need(is, a).full <= st[is]
  BY <1>3 DEF Timing
<1>6. st[is] # 0
  BY <1>3, <1>4, <1>5
<1>7. \E a \in moveTask[is] : st[is] = Need(is, a).full
  BY <1>3, <1>6 DEF Timing
<1>8. \A i \in 1 .. is : Settled(st, ls, i)
  <2>1. Settled(st, ls, is)
    BY <1>5, <1>7 DEF Settled
  <2>2. \A i \in 1 .. is : i = is \/ i \in 1 .. is - 1
    BY <1>1, <1>2
  <2> QED BY <1>2, <2>1, <2>2
<1>9. ASSUME is < taken PROVE Timing(st, is + 1, Present(is + 1), ls)
  <2>1. is + 1 \in 1 .. taken /\ (is + 1) - 1 = is /\ is + 1 \in is + 1 .. taken
    BY <1>1, <1>2, <1>9
  <2>2. st[is + 1] = 0
    BY <1>2, <2>1
  <2>3. (is + 1) + 1 .. taken \subseteq is + 1 .. taken
    BY <1>1, <1>2
  <2> QED BY <1>2, <1>8, <2>1, <2>2, <2>3 DEF Timing
<1> QED BY <1>2, <1>8, <1>9

LEMMA TimingNext ==
  ASSUME UNCHANGED <<moveTask, need, phases, taken>>,
         NEW st, NEW is, NEW lf, NEW ls, Timing(st, is, lf, ls),
         stepTimes' = st, istep' = is, left' = lf, lasts' = ls
  PROVE  Timing(stepTimes, istep, left, lasts)'
<1>1. \A i, a : Need(i, a)' = Need(i, a) /\ PhaseAt(a, i)' = PhaseAt(a, i)
  BY DEF Need, RunAt, Steps, PhaseAt, Containing
<1>2. Present(is)' = Present(is)
  BY DEF Present, Containing
<1>3. \A i : Settled(st, ls, i)' <=> Settled(st, ls, i)
  BY <1>1 DEF Settled
<1>4. \A a, b : SameRun(a, b, is)' <=> SameRun(a, b, is)
  BY <1>1 DEF SameRun
<1>5. Steps' = Steps /\ taken' = taken
  BY DEF Steps
<1>6. Timing(st, is, lf, ls)'
  BY <1>1, <1>2, <1>3, <1>4, <1>5 DEF Timing
<1> QED BY <1>6 DEF Timing

LEMMA PlanInitially ==
  ASSUME PlanInit
  PROVE  PlanInv
<1>1. PICK n \in 1 .. MaxSteps : moveTask \in [1 .. n -> (SUBSET PlanAxes) \ {{}}]
  BY DEF PlanInit
<1>2. n \in Positive /\ n \in Nat /\ Len(moveTask) = n
  BY <1>1, PlanAssumption DEF Positive
<1>3. IsTask
  BY <1>1, <1>2 DEF PlanInit, IsTask
<1>4. ASSUME NEW a \in PlanAxes
      PROVE  Track(phases[a], StepsOf(a), taken) /\ (halted[a] <=> taken = 0 \/ taken \notin StepsOf(a))
  <2>1. phases[a] = << >> /\ halted[a] = TRUE /\ taken = 0
    BY DEF PlanInit
  <2>2. << >> \in Seq(Phases) /\ Len(<< >>) = 0 /\ 1 .. 0 = {}
    OBVIOUS
  <2>3. Track(<< >>, StepsOf(a), 0)
    BY <2>2 DEF Track
  <2> QED BY <2>1, <2>3
<1>5. IsRead
  BY <1>2, <1>4 DEF IsRead, PlanInit
<1>6. lasts \in [PlanAxes -> [Steps -> Nat]] /\ stage = "read" /\ taken = 0 /\ istep = 1
  BY DEF PlanInit
<1>7. taken < Len(moveTask)
  BY <1>2, <1>6 DEF Positive
<1> QED BY <1>3, <1>5, <1>6, <1>7 DEF PlanInv

(* A step that leaves the task, or the phases, alone.                      *)
LEMMA TaskStable ==
  ASSUME IsTask, UNCHANGED <<moveTask, need>>
  PROVE  IsTask' /\ Steps' = Steps /\ \A a : StepsOf(a)' = StepsOf(a)
<1>1. Steps' = Steps /\ \A i : moveTask'[i] = moveTask[i]
  BY DEF Steps
<1>2. \A a, i : RunAt(a, i)' = RunAt(a, i)
  BY <1>1 DEF RunAt
<1>3. \A a : StepsOf(a)' = StepsOf(a)
  BY <1>1 DEF StepsOf
<1> DEFINE D == UNION {{<<i, RunAt(a, i)>> : a \in moveTask[i]} : i \in Steps}
<1>4. D' = D
  BY <1>1, <1>2
<1>5. need \in [D -> Needs] /\ \E n \in Positive : moveTask \in [1 .. n -> (SUBSET PlanAxes) \ {{}}]
  BY DEF IsTask
<1>6. (need \in [D -> Needs])' /\ (\E n \in Positive : moveTask \in [1 .. n -> (SUBSET PlanAxes) \ {{}}])'
  <2>1. (need \in [D -> Needs])'
    <3> HIDE DEF D
    <3> QED BY <1>4, <1>5
  <2> QED BY <1>5, <2>1
<1>7. IsTask'
  BY <1>6 DEF IsTask
<1> QED BY <1>1, <1>3, <1>7

LEMMA ReadStable ==
  ASSUME IsRead, UNCHANGED <<moveTask, phases, halted, taken>>
  PROVE  IsRead' /\ AllGroups' = AllGroups
<1>1. \A a : StepsOf(a)' = StepsOf(a)
  BY DEF StepsOf, Steps
<1>2. IsRead'
  BY <1>1 DEF IsRead
<1>3. \A i : Starters(i)' = Starters(i)
  BY DEF Starters, Beginning
<1>4. \A x : Length(x)' = Length(x)
  BY DEF Length
<1>5. AllGroups' = AllGroups
  BY <1>3, <1>4 DEF AllGroups
<1> QED BY <1>2, <1>5

LEMMA PlanReads ==
  ASSUME PlanInv, FillCommonAxisList
  PROVE  PlanInv'
<1> DEFINE i == taken + 1
<1>1. /\ stage = "read" /\ taken' = i
      /\ phases' = [a \in PlanAxes |->
              IF a \notin moveTask[i] THEN phases[a]
              ELSE IF halted[a] THEN Append(phases[a], NewPhase(i))
              ELSE [phases[a] EXCEPT ![Len(phases[a])].moves = Append(@, i)]]
      /\ halted' = [a \in PlanAxes |-> a \notin moveTask[i]]
      /\ stage' = IF i = Len(moveTask) THEN "group" ELSE stage
      /\ UNCHANGED <<moveTask, need, groups, stepTimes, istep, left, lasts, startTime>>
  BY DEF FillCommonAxisList
<1>2. IsTask /\ taken \in Nat /\ taken < Len(moveTask) /\ Len(moveTask) \in Nat /\ Steps = 1 .. Len(moveTask) /\ istep = 1
  BY <1>1, TaskType DEF PlanInv, IsRead, Positive
<1>3. i \in Steps /\ i \in Nat /\ i <= Len(moveTask) /\ i # 0
  BY <1>2
<1>4. ASSUME NEW a \in PlanAxes
      PROVE  Track(phases'[a], StepsOf(a), i) /\ (halted'[a] <=> i \notin StepsOf(a))
  <2>1. Track(phases[a], StepsOf(a), taken) /\ (halted[a] <=> taken = 0 \/ taken \notin StepsOf(a))
    BY DEF PlanInv, IsRead
  <2>2. i \in StepsOf(a) <=> a \in moveTask[i]
    BY <1>3 DEF StepsOf
  <2>3. CASE a \notin moveTask[i]
    <3>1. phases'[a] = phases[a]
      BY <1>1, <2>3
    <3> QED BY <1>1, <1>2, <2>1, <2>2, <2>3, <3>1, TrackPause
  <2>4. CASE a \in moveTask[i] /\ halted[a]
    <3>1. phases'[a] = Append(phases[a], NewPhase(i))
      BY <1>1, <2>4
    <3>2. taken = 0 \/ taken \notin StepsOf(a)
      BY <2>1, <2>4
    <3>3. Track(Append(phases[a], NewPhase(taken + 1)), StepsOf(a), taken + 1)
      BY <1>2, <2>1, <2>2, <2>4, <3>2, TrackBegin
    <3> QED BY <1>1, <2>2, <2>4, <3>1, <3>3
  <2>5. CASE a \in moveTask[i] /\ ~halted[a]
    <3>1. phases'[a] = [phases[a] EXCEPT ![Len(phases[a])].moves = Append(@, i)]
      BY <1>1, <2>5
    <3>2. taken # 0 /\ taken \in StepsOf(a)
      BY <2>1, <2>5
    <3>3. Track([phases[a] EXCEPT ![Len(phases[a])].moves = Append(@, taken + 1)], StepsOf(a), taken + 1)
      BY <1>2, <2>1, <2>2, <2>5, <3>2, TrackGoesOn
    <3> QED BY <1>1, <2>2, <2>5, <3>1, <3>3
  <2> QED BY <2>3, <2>4, <2>5
<1>5. IsTask' /\ Steps' = Steps /\ \A a : StepsOf(a)' = StepsOf(a)
  BY <1>1, <1>2, TaskStable
<1> HIDE DEF i
<1>6. IsRead'
  BY <1>1, <1>3, <1>4, <1>5 DEF IsRead
<1>7. /\ stage' \in {"read", "group"} /\ istep' = 1
      /\ IF stage' = "read" THEN taken' < Len(moveTask)' ELSE taken' = Len(moveTask)'
  <2>1. CASE i = Len(moveTask)
    BY <1>1, <1>2, <2>1
  <2>2. CASE i # Len(moveTask)
    <3>1. i < Len(moveTask)
      BY <1>2, <1>3, <2>2
    <3> QED BY <1>1, <1>2, <2>2, <3>1
  <2> QED BY <2>1, <2>2
<1>8. (lasts \in [PlanAxes -> [Steps -> Nat]])'
  BY <1>1, <1>5 DEF PlanInv
<1> QED BY <1>5, <1>6, <1>7, <1>8 DEF PlanInv

LEMMA PlanForms ==
  ASSUME PlanInv, FormGroups
  PROVE  PlanInv'
<1>1. /\ stage = "group" /\ stage' = "times" /\ left' = Present(1) /\ groups' = AllGroups
      /\ stepTimes' = [i \in 1 .. taken |-> 0]
      /\ UNCHANGED <<moveTask, need, phases, halted, taken, istep, lasts, startTime>>
  BY DEF FormGroups, AllGroups
<1>2. IsTask /\ IsRead /\ taken = Len(moveTask) /\ taken \in Nat /\ taken # 0 /\ istep = 1
  BY <1>1, TaskType DEF PlanInv, IsRead, Positive
<1> DEFINE st == [i \in 1 .. taken |-> 0]
<1>3. st \in [1 .. taken -> Nat] /\ \A i \in 1 .. taken : st[i] = 0
  OBVIOUS
<1> HIDE DEF st
<1>4. 1 \in 1 .. taken /\ 1 .. 1 - 1 = {} /\ 1 + 1 .. taken \subseteq 1 .. taken
  BY <1>2
<1>5. Timing(st, 1, Present(1), lasts)
  BY <1>3, <1>4 DEF Timing, PlanInv
<1>6. Timing(stepTimes, istep, left, lasts)'
  BY <1>1, <1>2, <1>5, TimingNext DEF st
<1>7. IsTask' /\ IsRead' /\ (groups = AllGroups)' /\ (lasts \in [PlanAxes -> [Steps -> Nat]])'
  <2>1. IsTask' /\ Steps' = Steps
    BY <1>1, <1>2, TaskStable
  <2>2. IsRead' /\ AllGroups' = AllGroups
    BY <1>1, <1>2, ReadStable
  <2>3. AllGroups = groups'
    BY <1>1
  <2> QED BY <1>1, <2>1, <2>2, <2>3 DEF PlanInv
<1> QED BY <1>1, <1>2, <1>6, <1>7 DEF PlanInv

LEMMA PlanCalculates ==
  ASSUME PlanInv, NEW a \in PlanAxes, CalculateMoveStep(a)
  PROVE  PlanInv'
<1>1. /\ stage = "times" /\ a \in left /\ stage' = stage /\ istep' = istep
      /\ UNCHANGED <<moveTask, need, phases, halted, taken, groups, startTime>>
  BY DEF CalculateMoveStep, Longer
<1>2. IsTask /\ IsRead /\ taken = Len(moveTask) /\ Timing(stepTimes, istep, left, lasts) /\ groups = AllGroups
  BY <1>1 DEF PlanInv
<1> DEFINE dt == stepTimes[istep]
           n == Need(istep, a)
<1>3. Timing(stepTimes, istep, left, lasts)'
  <2>1. ASSUME NEW t \in {n.min, n.full}, Longer(a, t) PROVE Timing(stepTimes, istep, left, lasts)'
    <3>1. Timing([stepTimes EXCEPT ![istep] = t], istep, Present(istep), lasts)
      BY <1>1, <1>2, <2>1, TimingLonger
    <3>2. /\ stepTimes' = [stepTimes EXCEPT ![istep] = t] /\ left' = Present(istep)
          /\ istep' = istep /\ lasts' = lasts
      BY <2>1 DEF Longer
    <3> QED BY <1>1, <3>1, <3>2, TimingNext
  <2>2. ASSUME ~(dt < n.min), ~(dt < n.full),
               lasts' = [b \in PlanAxes |-> IF b \in Mates(a) THEN [lasts[b] EXCEPT ![istep] = dt] ELSE lasts[b]],
               left' = left \ Mates(a), UNCHANGED <<stepTimes, istep>>
        PROVE  Timing(stepTimes, istep, left, lasts)'
    <3>1. Mates(a) = {b \in left : SameRun(a, b, istep)}
      BY DEF Mates, SameRun
    <3>2. Timing(stepTimes, istep, left \ Mates(a),
                 [b \in PlanAxes |-> IF b \in Mates(a) THEN [lasts[b] EXCEPT ![istep] = dt] ELSE lasts[b]])
      BY <1>1, <1>2, <2>2, <3>1, TimingEnough
    <3> QED BY <1>1, <2>2, <3>2, TimingNext
  <2> QED BY <2>1, <2>2 DEF CalculateMoveStep
<1>4. IsTask' /\ IsRead' /\ (groups = AllGroups)'
  BY <1>1, <1>2, TaskStable, ReadStable
<1>5. (lasts \in [PlanAxes -> [Steps -> Nat]])'
  BY <1>3 DEF Timing
<1> QED BY <1>1, <1>2, <1>3, <1>4, <1>5 DEF PlanInv

LEMMA PlanGoesOn ==
  ASSUME PlanInv, NextMoveStep \/ GiveStartTimes
  PROVE  PlanInv'
<1>1. /\ stage = "times" /\ left = {}
      /\ UNCHANGED <<moveTask, need, phases, halted, taken, groups, stepTimes, lasts>>
  BY DEF NextMoveStep, GiveStartTimes
<1>2. IsTask /\ IsRead /\ taken = Len(moveTask) /\ Timing(stepTimes, istep, {}, lasts) /\ groups = AllGroups
  BY <1>1 DEF PlanInv
<1>3. IsTask' /\ IsRead' /\ (groups = AllGroups)' /\ (lasts \in [PlanAxes -> [Steps -> Nat]])'
  BY <1>1, <1>2, TaskStable, ReadStable DEF PlanInv
<1>4. CASE NextMoveStep
  <2>1. istep < taken /\ istep' = istep + 1 /\ left' = Present(istep + 1) /\ stage' = stage
    BY <1>4 DEF NextMoveStep, Present, Containing
  <2>2. Timing(stepTimes, istep + 1, Present(istep + 1), lasts)
    BY <1>2, <2>1, TimingSettled
  <2>3. Timing(stepTimes, istep, left, lasts)'
    BY <1>1, <2>1, <2>2, TimingNext
  <2> QED BY <1>1, <1>2, <1>3, <2>1, <2>3 DEF PlanInv
<1>5. CASE GiveStartTimes
  <2>1. /\ istep = taken /\ istep' = istep /\ left' = left /\ stage' = "done"
        /\ startTime' = [a \in PlanAxes |-> [p \in DOMAIN phases[a] |-> TimeBefore(phases[a][p].step)]]
    BY <1>5 DEF GiveStartTimes
  <2>2. Timing(stepTimes, istep, left, lasts)'
    BY <1>1, <1>2, <2>1, TimingNext
  <2>3. \A i : TimeBefore(i)' = TimeBefore(i)
    BY <1>1 DEF TimeBefore
  <2> QED BY <1>1, <1>2, <1>3, <2>1, <2>2, <2>3 DEF PlanInv
<1> QED BY <1>4, <1>5

(* The phases of an axis that contain a step.                              *)
LEMMA StepInPhase ==
  ASSUME IsTask, IsRead, taken = Len(moveTask), NEW a \in PlanAxes, NEW i \in Steps,
         NEW p \in DOMAIN phases[a]
  PROVE  /\ p \in 1 .. taken /\ phases[a][p] \in Phases
         /\ phases[a][p].step \in 1 .. taken /\ EndOf(phases[a][p]) \in 1 .. taken
         /\ DOMAIN phases[a][p].moves = 1 .. Len(phases[a][p].moves)
         /\ Len(phases[a][p].moves) \in Nat
         /\ \A k \in DOMAIN phases[a][p].moves : phases[a][p].moves[k] = phases[a][p].step + k - 1
         /\ p \in Containing(a, i) <=> phases[a][p].step <= i /\ i <= EndOf(phases[a][p])
<1>1. taken \in Nat /\ Steps = 1 .. taken
  BY TaskType DEF Positive
<1> DEFINE s == phases[a]
<1>2. Track(s, StepsOf(a), taken)
  BY DEF IsRead
<1> HIDE DEF s
<1>3. s \in Seq(Phases) /\ Len(s) \in Nat /\ Len(s) <= taken /\ DOMAIN s = 1 .. Len(s)
  BY <1>2 DEF Track
<1>4. p \in 1 .. Len(s) /\ p \in 1 .. taken
  BY <1>1, <1>3 DEF s
<1>5. s[p] \in Phases /\ s[p].step \in Nat /\ Len(s[p].moves) \in Nat /\ s[p].moves \in Seq(Nat) /\ EndOf(s[p]) \in Int
  BY <1>3, <1>4, PhaseType
<1>6. /\ 1 <= s[p].step /\ s[p].step <= EndOf(s[p]) /\ EndOf(s[p]) <= taken
      /\ \A k \in 1 .. Len(s[p].moves) : s[p].moves[k] = s[p].step + k - 1
  BY <1>2, <1>4 DEF Track
<1>7. DOMAIN s[p].moves = 1 .. Len(s[p].moves)
  BY <1>5
<1>8. s[p].step \in 1 .. taken /\ EndOf(s[p]) \in 1 .. taken
  BY <1>1, <1>5, <1>6
<1>9. p \in Containing(a, i) <=> i >= s[p].step /\ i - s[p].step < Len(s[p].moves)
  BY <1>3, <1>4 DEF Containing, s
<1>10. i - s[p].step < Len(s[p].moves) <=> i <= EndOf(s[p])
  BY <1>1, <1>5 DEF EndOf
<1>11. i >= s[p].step <=> s[p].step <= i
  BY <1>1, <1>5
<1> QED BY <1>4, <1>5, <1>6, <1>7, <1>8, <1>9, <1>10, <1>11 DEF s

LEMMA PlanMoves == PlanInv => EveryMoveInItsStep
<1> SUFFICES ASSUME PlanInv, stage = "done", NEW a \in PlanAxes
             PROVE  /\ \A x \in Moves(a) :
                          LET ph == phases[a][x[1]]
                          IN  /\ ph.moves[x[2]] = ph.step + x[2] - 1
                              /\ {ph.step + k - 1 : k \in DOMAIN ph.moves} = RunAt(a, ph.moves[x[2]])
                    /\ \A i \in Steps : a \in moveTask[i] <=> Cardinality(Containing(a, i)) = 1
  BY DEF EveryMoveInItsStep
<1>1. IsTask /\ IsRead /\ taken = Len(moveTask)
  BY DEF PlanInv
<1>2. taken \in Nat /\ Steps = 1 .. taken
  BY <1>1, TaskType DEF Positive
<1>3. ASSUME NEW x \in Moves(a)
      PROVE  /\ phases[a][x[1]].moves[x[2]] = phases[a][x[1]].step + x[2] - 1
             /\ {phases[a][x[1]].step + k - 1 : k \in DOMAIN phases[a][x[1]].moves}
                   = RunAt(a, phases[a][x[1]].moves[x[2]])
  <2> DEFINE p == x[1]
             ph == phases[a][p]
             i == ph.step + x[2] - 1
  <2>1. p \in DOMAIN phases[a] /\ x[2] \in DOMAIN ph.moves
    BY <1>3 DEF Moves
  <2>2. 1 \in Steps
    BY <1>1, <1>2, TaskType DEF Positive
  <2>3. /\ ph.step \in 1 .. taken /\ EndOf(ph) \in 1 .. taken
        /\ DOMAIN ph.moves = 1 .. Len(ph.moves) /\ Len(ph.moves) \in Nat
        /\ ph.moves[x[2]] = ph.step + x[2] - 1
    BY <1>1, <2>1, <2>2, StepInPhase
  <2> HIDE DEF ph
  <2>4. i \in Steps /\ ph.step <= i /\ i <= EndOf(ph)
    BY <1>2, <2>1, <2>3 DEF EndOf
  <2> HIDE DEF i
  <2>5. p \in Containing(a, i)
    BY <1>1, <2>1, <2>4, StepInPhase DEF ph
  <2>6. RunAt(a, i) = ph.step .. EndOf(ph)
    <3>1. a \in moveTask[i]
      BY <1>1, <2>4, <2>5, InPhase
    <3>2. PICK q \in DOMAIN phases[a] :
             Containing(a, i) = {q} /\ RunAt(a, i) = phases[a][q].step .. EndOf(phases[a][q])
      BY <1>1, <2>4, <3>1, InPhase
    <3>3. q = p
      BY <2>5, <3>2
    <3> QED BY <3>2, <3>3 DEF ph
  <2>7. {ph.step + k - 1 : k \in DOMAIN ph.moves} = ph.step .. EndOf(ph)
    <3>1. ASSUME NEW j \in ph.step .. EndOf(ph) PROVE \E k \in 1 .. Len(ph.moves) : j = ph.step + k - 1
      <4>1. j - ph.step + 1 \in 1 .. Len(ph.moves) /\ j = ph.step + (j - ph.step + 1) - 1
        BY <2>3 DEF EndOf
      <4> QED BY <4>1
    <3>2. ASSUME NEW k \in 1 .. Len(ph.moves) PROVE ph.step + k - 1 \in ph.step .. EndOf(ph)
      BY <2>3 DEF EndOf
    <3> QED BY <2>3, <3>1, <3>2
  <2> QED BY <2>3, <2>6, <2>7 DEF i, ph
<1>4. ASSUME NEW i \in Steps PROVE a \in moveTask[i] <=> Cardinality(Containing(a, i)) = 1
  <2>1. a \in moveTask[i] => \E p \in DOMAIN phases[a] : Containing(a, i) = {p}
    BY <1>1, InPhase
  <2>2. a \in moveTask[i] => Cardinality(Containing(a, i)) = 1
    BY <2>1, FS_Singleton
  <2>3. a \notin moveTask[i] => Cardinality(Containing(a, i)) = 0
    BY <1>1, InPhase, FS_EmptySet
  <2> QED BY <2>2, <2>3
<1> QED BY <1>3, <1>4

LEMMA PlanGroups == PlanInv => SameGroups
<1> SUFFICES ASSUME PlanInv, stage = "times", NEW a \in left
             PROVE  \E g \in groups :
                      g = {x \in PlanAxes \X (1 .. taken) : x[1] \in Mates(a) /\ x[2] \in Containing(x[1], istep)}
  BY DEF SameGroups
<1>1. IsTask /\ IsRead /\ taken = Len(moveTask) /\ groups = AllGroups
      /\ Timing(stepTimes, istep, left, lasts)
  BY DEF PlanInv
<1>2. taken \in Nat /\ Steps = 1 .. taken /\ istep \in Steps
  BY <1>1, TaskType DEF Positive, Timing
<1>3. left \subseteq Present(istep) /\ Present(istep) = moveTask[istep] /\ Present(istep) \subseteq PlanAxes
      /\ \A b \in Present(istep) : SameRun(a, b, istep) => b \in left
  BY <1>1, <1>2, PresentAxes DEF Timing, Present
<1>4. ASSUME NEW b \in PlanAxes, NEW p \in Containing(b, istep)
      PROVE  /\ p \in DOMAIN phases[b] /\ PhaseAt(b, istep) = phases[b][p] /\ b \in Present(istep)
             /\ Containing(b, istep) = {p}
  <2>1. b \in moveTask[istep]
    BY <1>1, <1>2, <1>4, InPhase
  <2>2. PICK q \in DOMAIN phases[b] : Containing(b, istep) = {q} /\ PhaseAt(b, istep) = phases[b][q]
    BY <1>1, <1>2, <2>1, InPhase
  <2> QED BY <1>3, <1>4, <2>1, <2>2
<1>5. PICK p \in Containing(a, istep) : TRUE
  BY <1>3 DEF Present
<1> DEFINE ph == phases[a][p]
           g == {y \in Starters(ph.step) : Length(y) = Len(ph.moves)}
           h == {x \in PlanAxes \X (1 .. taken) : x[1] \in Mates(a) /\ x[2] \in Containing(x[1], istep)}
<1>6. a \in PlanAxes /\ p \in DOMAIN phases[a] /\ PhaseAt(a, istep) = ph
  BY <1>3, <1>4, <1>5
<1>7. /\ p \in 1 .. taken /\ ph.step \in 1 .. taken /\ ph.step <= istep /\ istep <= EndOf(ph)
  BY <1>1, <1>2, <1>5, <1>6, StepInPhase
<1>8. g \in groups
  <2> DEFINE x == <<a, p>>
  <2>1. x \in Starters(ph.step) /\ Length(x) = Len(ph.moves)
    BY <1>6, <1>7 DEF Starters, Beginning, Length
  <2> HIDE DEF x
  <2>2. g = {y \in Starters(ph.step) : Length(y) = Length(x)}
    BY <2>1
  <2>3. g \in {{y \in Starters(ph.step) : Length(y) = Length(z)} : z \in Starters(ph.step)}
    BY <2>1, <2>2
  <2> QED BY <1>1, <1>7, <2>3 DEF AllGroups
<1>9. ASSUME NEW x \in PlanAxes \X (1 .. taken) PROVE x \in g <=> x \in h
  <2> DEFINE b == x[1]
             q == x[2]
             ps == phases[b][q]
  <2>1. b \in PlanAxes /\ q \in 1 .. taken
    OBVIOUS
  <2>2. x \in g <=> q \in DOMAIN phases[b] /\ ps.step = ph.step /\ Len(ps.moves) = Len(ph.moves)
    BY DEF Starters, Beginning, Length
  <2>3. x \in h <=> b \in left /\ SameRun(a, b, istep) /\ q \in Containing(b, istep)
    BY DEF Mates, SameRun
  <2> HIDE DEF b, q
  <2>4. ASSUME q \in DOMAIN phases[b], ps.step = ph.step, Len(ps.moves) = Len(ph.moves)
        PROVE  b \in left /\ SameRun(a, b, istep) /\ q \in Containing(b, istep)
    <3>1. q \in Containing(b, istep)
      BY <1>1, <1>2, <1>7, <2>1, <2>4, StepInPhase DEF EndOf
    <3>2. PhaseAt(b, istep) = ps /\ b \in Present(istep)
      BY <1>4, <2>1, <3>1
    <3>3. SameRun(a, b, istep)
      BY <1>6, <2>4, <3>2 DEF SameRun
    <3> QED BY <1>3, <3>1, <3>2, <3>3
  <2>5. ASSUME SameRun(a, b, istep), q \in Containing(b, istep)
        PROVE  q \in DOMAIN phases[b] /\ ps.step = ph.step /\ Len(ps.moves) = Len(ph.moves)
    <3>1. q \in DOMAIN phases[b] /\ PhaseAt(b, istep) = ps
      BY <1>4, <2>1, <2>5
    <3> QED BY <1>6, <2>5, <3>1 DEF SameRun
  <2> QED BY <2>2, <2>3, <2>4, <2>5
<1>10. g = h
  <2>1. g \subseteq PlanAxes \X (1 .. taken)
    BY DEF Starters
  <2>2. h \subseteq PlanAxes \X (1 .. taken)
    OBVIOUS
  <2> HIDE DEF g, h
  <2> QED BY <1>9, <2>1, <2>2
<1> QED BY <1>8, <1>10

(* A step begins when the steps before it have had their time.             *)
LEMMA StepBegins ==
  ASSUME taken \in Nat, stepTimes \in [1 .. taken -> Nat]
  PROVE  /\ TimeBefore(1) = 0
         /\ \A i, k \in 1 .. taken : i < k => TimeBefore(k) >= TimeBefore(i) + stepTimes[i]
<1> DEFINE S(n) == SumFunctionOnSet(stepTimes, 1 .. n)
<1>1. TimeBefore(1) = S(0) /\ \A i \in 1 .. taken : TimeBefore(i) = S(i - 1)
  BY DEF TimeBefore
<1>2. S(0) = 0
  <2>1. 1 .. 0 = {}
    OBVIOUS
  <2> QED BY <2>1, SumOfSet, FS_EmptySet
<1>3. ASSUME NEW k \in Nat, k + 1 <= taken
      PROVE  S(k) \in Int /\ S(k + 1) = S(k) + stepTimes[k + 1] /\ stepTimes[k + 1] \in Nat
  <2>1. \A i \in 1 .. k + 1 : stepTimes[i] \in Int
    BY <1>3
  <2>2. stepTimes[k + 1] \in Nat
    BY <1>3
  <2> QED BY <2>1, <2>2, SumOfFirst
<1> HIDE DEF S
<1>4. ASSUME NEW i \in 1 .. taken
      PROVE  \A n \in Nat : i + n <= taken => S(i + n) \in Int /\ S(i + n) >= S(i)
  <2> DEFINE T == {n \in Nat : i + n <= taken => S(i + n) \in Int /\ S(i + n) >= S(i)}
  <2>1. S(i) \in Int
    <3>1. i - 1 \in Nat /\ (i - 1) + 1 = i /\ i <= taken
      OBVIOUS
    <3>2. S(i - 1) \in Int /\ S(i) = S(i - 1) + stepTimes[i] /\ stepTimes[i] \in Nat
      BY <1>3, <3>1
    <3> QED BY <3>2
  <2>2. 0 \in T
    BY <2>1
  <2>3. ASSUME NEW n \in Nat, n \in T PROVE n + 1 \in T
    <3> SUFFICES ASSUME i + (n + 1) <= taken PROVE S(i + (n + 1)) \in Int /\ S(i + (n + 1)) >= S(i)
      OBVIOUS
    <3>1. i + n \in Nat /\ (i + n) + 1 = i + (n + 1) /\ i + n <= taken
      OBVIOUS
    <3>2. S(i + (n + 1)) = S(i + n) + stepTimes[i + (n + 1)] /\ stepTimes[i + (n + 1)] \in Nat
      BY <1>3, <3>1
    <3> QED BY <2>1, <2>3, <3>1, <3>2
  <2> HIDE DEF T
  <2>4. Nat \subseteq T
    BY <2>2, <2>3, NumberInduction
  <2> QED BY <2>4 DEF T
<1>5. ASSUME NEW i \in 1 .. taken, NEW k \in 1 .. taken, i < k
      PROVE  TimeBefore(k) >= TimeBefore(i) + stepTimes[i]
  <2>1. i - 1 \in Nat /\ (i - 1) + 1 = i /\ i <= taken
    OBVIOUS
  <2>2. S(i) = S(i - 1) + stepTimes[i]
    BY <1>3, <2>1
  <2>3. k - 1 - i \in Nat /\ i + (k - 1 - i) = k - 1 /\ k - 1 <= taken
    BY <1>5
  <2>4. S(k - 1) >= S(i)
    BY <1>4, <2>3
  <2> QED BY <1>1, <2>2, <2>4
<1> QED BY <1>1, <1>2, <1>5

LEMMA PlanStays == PlanInv => AxesStayInStep
<1> SUFFICES ASSUME PlanInv, stage = "done" PROVE AxesStayInStep
  BY DEF AxesStayInStep
<1>1. /\ IsTask /\ IsRead /\ taken = Len(moveTask) /\ istep = taken
      /\ Timing(stepTimes, istep, {}, lasts)
      /\ startTime = [a \in PlanAxes |-> [p \in DOMAIN phases[a] |-> TimeBefore(phases[a][p].step)]]
  BY DEF PlanInv
<1>2. taken \in Nat /\ Steps = 1 .. taken /\ 1 \in Steps
  BY <1>1, TaskType DEF Positive
<1>3. \A i \in Steps : Settled(stepTimes, lasts, i)
  BY <1>1, <1>2, TimingSettled
<1>4. stepTimes \in [1 .. taken -> Nat]
  BY <1>1 DEF Timing
<1>5. ASSUME NEW a \in PlanAxes, NEW p \in DOMAIN phases[a]
      PROVE  phases[a][p].step \in 1 .. taken /\ startTime[a][p] = TimeBefore(phases[a][p].step)
  BY <1>1, <1>2, StepInPhase
<1>6. \A i \in Steps :
        /\ \A a \in moveTask[i] : lasts[a][i] = stepTimes[i] /\ Need(i, a).full <= stepTimes[i]
        /\ \E a \in moveTask[i] : stepTimes[i] = Need(i, a).full
  BY <1>3 DEF Settled
<1>7. ASSUME NEW a \in PlanAxes, NEW p \in DOMAIN phases[a], NEW i \in Steps, i < phases[a][p].step
      PROVE  startTime[a][p] >= TimeBefore(i) + stepTimes[i]
  BY <1>2, <1>4, <1>5, <1>7, StepBegins
<1>8. ASSUME NEW a \in PlanAxes, NEW b \in PlanAxes, NEW p \in DOMAIN phases[a], NEW q \in DOMAIN phases[b],
             phases[a][p].step = phases[b][q].step
      PROVE  startTime[a][p] = startTime[b][q]
  BY <1>5, <1>8
<1>9. ASSUME NEW a \in PlanAxes, NEW p \in DOMAIN phases[a], phases[a][p].step = 1
      PROVE  startTime[a][p] = 0
  BY <1>2, <1>4, <1>5, <1>9, StepBegins
<1> QED BY <1>6, <1>7, <1>8, <1>9 DEF AxesStayInStep

LEMMA PlanIdles ==
  ASSUME PlanInv, UNCHANGED planVars
  PROVE  PlanInv'
<1>1. UNCHANGED <<moveTask, need, phases, halted, taken, groups, stepTimes, istep, left, lasts, startTime, stage>>
  BY DEF planVars
<1>2. IsTask' /\ Steps' = Steps
  BY <1>1, TaskStable DEF PlanInv
<1>3. IsRead' /\ AllGroups' = AllGroups
  BY <1>1, ReadStable DEF PlanInv
<1>4. Timing(stepTimes, istep, left, lasts) => Timing(stepTimes, istep, left, lasts)'
  BY <1>1, TimingNext
<1>5. \A i : TimeBefore(i)' = TimeBefore(i)
  BY <1>1 DEF TimeBefore
<1>6. (startTime = [a \in PlanAxes |-> [p \in DOMAIN phases[a] |-> TimeBefore(phases[a][p].step)]])
        => (startTime = [a \in PlanAxes |-> [p \in DOMAIN phases[a] |-> TimeBefore(phases[a][p].step)]])'
  BY <1>1, <1>5
<1> QED BY <1>1, <1>2, <1>3, <1>4, <1>6 DEF PlanInv

(***************************************************************************)
(* The plan is the task, for every task and whatever its steps ask: every    *)
(* move is made once, in its step; both loops find the same groups; and the  *)
(* axes of a step take the same time for it, the least that is enough.       *)
(***************************************************************************)
THEOREM PlanMatchesTask == MotionSpec => []PlanIsTask
<1>1. MotionInit => PlanInv
  BY PlanInitially DEF MotionInit
<1>2. PlanInv /\ [MotionNext]_motionVars => PlanInv'
  <2> SUFFICES ASSUME PlanInv, [MotionNext]_motionVars PROVE PlanInv'
    OBVIOUS
  <2>1. CASE PlanStep
    BY <2>1, PlanReads, PlanForms, PlanCalculates, PlanGoesOn DEF PlanStep, PlanNext
  <2>2. CASE UNCHANGED planVars
    BY <2>2, PlanIdles
  <2> QED BY <2>1, <2>2 DEF MotionNext, AccelStep, TimedStep, motionVars
<1>3. PlanInv => PlanIsTask
  BY PlanMoves, PlanGroups, PlanStays DEF PlanIsTask
<1> QED BY <1>1, <1>2, <1>3, PTL DEF MotionSpec
=============================================================================
