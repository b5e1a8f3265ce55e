----------------------------- MODULE DataLemmas -----------------------------
(***************************************************************************)
(* Lemmas about the data of all the components: induction over numbers and  *)
(* finite sets, sums, and queues of messages.                              *)
(*                                                                         *)
(* The library states induction for an operator P(_), which the provers     *)
(* cannot instantiate; that every set of numbers has a least element, from  *)
(* its theorem on well-founded relations, they can use.                    *)
(***************************************************************************)
EXTENDS Integers, SequencesExt, FiniteSetTheorems, SequenceTheorems, TLAPS

(* Every set of natural numbers but the empty one has a least element.     *)
LEMMA LeastNumber ==
  ASSUME NEW T, T \subseteq Nat, T # {}
  PROVE  \E m \in T : \A n \in T : m <= n
<1> DEFINE R == OpToRel(<, Nat)
<1>1. IsWellFoundedOn(R, Nat)
  BY NatLessThanWellFounded
<1>2. R = {ss \in Nat \X Nat : ss[1] < ss[2]}
  BY DEF OpToRel
<1> HIDE DEF R
<1>3. PICK m \in T : \A n \in T : ~ (<<n, m>> \in R)
  BY <1>1, WFMin
<1>4. ASSUME NEW n \in T PROVE m <= n
  <2>1. <<n, m>> \in Nat \X Nat
    OBVIOUS
  <2>2. ~(<<n, m>>[1] < <<n, m>>[2])
    BY <1>2, <1>3, <2>1
  <2> QED BY <2>2
<1> QED BY <1>4

(* Induction over the numbers, the statement being membership in a set.    *)
LEMMA NumberInduction ==
  ASSUME NEW T, 0 \in T, \A n \in Nat : n \in T => n + 1 \in T
  PROVE  Nat \subseteq T
<1> SUFFICES ASSUME {n \in Nat : n \notin T} # {} PROVE FALSE
  OBVIOUS
<1>1. PICK m \in {n \in Nat : n \notin T} : \A n \in {n \in Nat : n \notin T} : m <= n
  BY LeastNumber
<1>2. m - 1 \in Nat /\ m - 1 \in T
  BY <1>1
<1> QED BY <1>1, <1>2

(* Induction over the subsets of a finite set.                             *)
LEMMA SetInduction ==
  ASSUME NEW S, IsFiniteSet(S), NEW Q, {} \in Q,
         \A T \in SUBSET S : \A x \in S \ T : T \in Q => T \cup {x} \in Q
  PROVE  SUBSET S \subseteq Q
<1> DEFINE Bad(n) == \E T \in SUBSET S : T \notin Q /\ Cardinality(T) = n
           Worse == {n \in Nat : Bad(n)}
<1> SUFFICES ASSUME NEW T \in SUBSET S, T \notin Q PROVE FALSE
  OBVIOUS
<1>1. IsFiniteSet(T) /\ Cardinality(T) \in Nat
  BY FS_Subset, FS_CardinalityType
<1>2. Worse # {} /\ Worse \subseteq Nat
  BY <1>1
<1>3. PICK m \in Worse : \A n \in Worse : m <= n
  BY <1>2, LeastNumber
<1>4. PICK U \in SUBSET S : U \notin Q /\ Cardinality(U) = m
  BY <1>3
<1>5. PICK x : x \in U
  BY <1>4
<1>6. IsFiniteSet(U) /\ IsFiniteSet(U \ {x}) /\ Cardinality(U \ {x}) = m - 1 /\ m - 1 \in Nat
  BY <1>4, <1>5, FS_Subset, FS_RemoveElement, FS_CardinalityType
<1>7. U \ {x} \in Q
  BY <1>3, <1>6
<1>8. (U \ {x}) \cup {x} = U /\ x \in S \ (U \ {x})
  BY <1>5
<1> QED BY <1>4, <1>7, <1>8

-----------------------------------------------------------------------------
(***************************************************************************)
(* Sums over finite sets.  SumFunctionOnSet is a fold in some order; that    *)
(* the recursion of the fold has a solution is shown by the cardinality of  *)
(* the sets, that it has one only likewise, and then the order is no matter. *)
(***************************************************************************)
AnyOf(s) == CHOOSE x \in s : TRUE

IsSum(g, f, S) ==
  \A T \in SUBSET S : g[T] = IF T = {} THEN 0 ELSE f[AnyOf(T)] + g[T \ {AnyOf(T)}]

(* A function on the subsets that the recursion defines...                 *)
LEMMA SumExists ==
  ASSUME NEW S, IsFiniteSet(S), NEW f, \A x \in S : f[x] \in Int
  PROVE  \E g \in [SUBSET S -> Int] : IsSum(g, f, S)
<1> DEFINE RowsUpto(n) == \E g \in [SUBSET S -> Int] : \A T \in SUBSET S :
              Cardinality(T) <= n => g[T] = IF T = {} THEN 0 ELSE f[AnyOf(T)] + g[T \ {AnyOf(T)}]
           N == {n \in Nat : RowsUpto(n)}
<1>0. \A T \in SUBSET S : /\ IsFiniteSet(T) /\ Cardinality(T) \in Nat
                          /\ Cardinality(T) = 0 <=> T = {}
  BY FS_Subset, FS_CardinalityType, FS_EmptySet
<1>00. \A T \in SUBSET S : T # {} => /\ AnyOf(T) \in T /\ f[AnyOf(T)] \in Int
                          /\ T \ {AnyOf(T)} \in SUBSET S
                          /\ Cardinality(T \ {AnyOf(T)}) = Cardinality(T) - 1
  BY <1>0, FS_RemoveElement DEF AnyOf
<1>1. 0 \in N
  <2> DEFINE z == [T \in SUBSET S |-> 0]
  <2>1. z \in [SUBSET S -> Int] /\ \A T \in SUBSET S : Cardinality(T) <= 0 => T = {} /\ z[T] = 0
    BY <1>0
  <2> QED BY <2>1
<1>2. ASSUME NEW n \in Nat, n \in N PROVE n + 1 \in N
  <2>1. PICK g \in [SUBSET S -> Int] : \A T \in SUBSET S :
              Cardinality(T) <= n => g[T] = IF T = {} THEN 0 ELSE f[AnyOf(T)] + g[T \ {AnyOf(T)}]
    BY <1>2
  <2> DEFINE h == [T \in SUBSET S |-> IF T = {} THEN 0 ELSE IF Cardinality(T) <= n THEN g[T] ELSE f[AnyOf(T)] + g[T \ {AnyOf(T)}]]
  <2>2. h \in [SUBSET S -> Int]
    BY <1>00
  <2>3. \A T \in SUBSET S : Cardinality(T) <= n => h[T] = g[T]
    BY <2>1
  <2>4. ASSUME NEW T \in SUBSET S, Cardinality(T) <= n + 1, T # {}
        PROVE  h[T] = f[AnyOf(T)] + h[T \ {AnyOf(T)}]
    <3>1. Cardinality(T \ {AnyOf(T)}) <= n
      BY <1>0, <1>00, <2>4
    <3>2. h[T \ {AnyOf(T)}] = g[T \ {AnyOf(T)}]
      BY <3>1, <2>3
    <3>3. h[T] = f[AnyOf(T)] + g[T \ {AnyOf(T)}]
      BY <2>1, <2>4
    <3> QED BY <3>2, <3>3
  <2>5. h[{}] = 0
    OBVIOUS
  <2> HIDE DEF h
  <2>6. \A T \in SUBSET S :
          Cardinality(T) <= n + 1 => h[T] = IF T = {} THEN 0 ELSE f[AnyOf(T)] + h[T \ {AnyOf(T)}]
    BY <2>4, <2>5
  <2>7. RowsUpto(n + 1)
    BY <2>2, <2>6
  <2> QED BY <2>7
<1>3. Cardinality(S) \in N
  <2>1. Nat \subseteq N
    <3> HIDE DEF N
    <3> QED BY <1>1, <1>2, NumberInduction
  <2> QED BY <1>0, <2>1
<1>4. \A T \in SUBSET S : Cardinality(T) <= Cardinality(S)
  BY FS_Subset
<1> QED BY <1>3, <1>4 DEF IsSum

(* ... and no other, on the subsets of any subset.                         *)
LEMMA SumIsUnique ==
  ASSUME NEW S, IsFiniteSet(S), NEW f,
         NEW g, IsSum(g, f, S), NEW T \in SUBSET S, NEW h, IsSum(h, f, T)
  PROVE  h[T] = g[T]
<1> DEFINE Less(n) == \A U \in SUBSET T : Cardinality(U) = n => h[U] = g[U]
           N == {n \in Nat : Less(n)}
<1>0. \A U \in SUBSET T : IsFiniteSet(U) /\ Cardinality(U) \in Nat /\ (Cardinality(U) = 0 <=> U = {})
  BY FS_Subset, FS_CardinalityType, FS_EmptySet
<1>1. 0 \in N
  BY <1>0 DEF IsSum
<1>2. ASSUME NEW n \in Nat, n \in N PROVE n + 1 \in N
  <2> SUFFICES ASSUME NEW U \in SUBSET T, Cardinality(U) = n + 1 PROVE h[U] = g[U]
    OBVIOUS
  <2>1. U # {} /\ AnyOf(U) \in U
    BY <1>0 DEF AnyOf
  <2>2. Cardinality(U \ {AnyOf(U)}) = n
    BY <1>0, <2>1, FS_RemoveElement
  <2>3. h[U \ {AnyOf(U)}] = g[U \ {AnyOf(U)}]
    BY <1>2, <2>2
  <2> QED BY <2>1, <2>3 DEF IsSum
<1>3. Nat \subseteq N
  <2> HIDE DEF N
  <2> QED BY <1>1, <1>2, NumberInduction
<1>4. Cardinality(T) \in N
  BY <1>0, <1>3
<1> QED BY <1>4

LEMMA SumIs ==
  ASSUME NEW S, IsFiniteSet(S), NEW f, \A x \in S : f[x] \in Int,
         NEW g \in [SUBSET S -> Int], IsSum(g, f, S), NEW T \in SUBSET S
  PROVE  SumFunctionOnSet(f, T) = g[T]
<1> DEFINE it == CHOOSE iter : iter = [s \in SUBSET T |-> IF s = {} THEN 0 ELSE f[AnyOf(s)] + iter[s \ {AnyOf(s)}]]
<1>1. SumFunctionOnSet(f, T) = it[T]
  BY DEF SumFunctionOnSet, FoldFunctionOnSet, MapThenFoldSet, AnyOf
<1>2. \E iter : iter = [s \in SUBSET T |-> IF s = {} THEN 0 ELSE f[AnyOf(s)] + iter[s \ {AnyOf(s)}]]
  <2> DEFINE i == [s \in SUBSET T |-> g[s]]
  <2>1. \A s \in SUBSET T : s # {} => AnyOf(s) \in s
    BY DEF AnyOf
  <2>2. \A s \in SUBSET T : i[s] = IF s = {} THEN 0 ELSE f[AnyOf(s)] + i[s \ {AnyOf(s)}]
    BY <2>1 DEF IsSum
  <2>3. i = [s \in SUBSET T |-> i[s]]
    OBVIOUS
  <2> HIDE DEF i
  <2>4. i = [s \in SUBSET T |-> IF s = {} THEN 0 ELSE f[AnyOf(s)] + i[s \ {AnyOf(s)}]]
    BY <2>2, <2>3
  <2> QED BY <2>4
<1>3. it = [s \in SUBSET T |-> IF s = {} THEN 0 ELSE f[AnyOf(s)] + it[s \ {AnyOf(s)}]]
  BY <1>2
<1> HIDE DEF it
<1>4. IsSum(it, f, T)
  BY <1>3 DEF IsSum
<1> QED BY <1>1, <1>4, SumIsUnique

(* What a sum is, whichever element is taken first.                        *)
LEMMA SumOfSet ==
  ASSUME NEW S, IsFiniteSet(S), NEW f, \A x \in S : f[x] \in Int
  PROVE  /\ SumFunctionOnSet(f, S) \in Int
         /\ SumFunctionOnSet(f, {}) = 0
         /\ \A x \in S : SumFunctionOnSet(f, S) = f[x] + SumFunctionOnSet(f, S \ {x})
<1>1. PICK g \in [SUBSET S -> Int] : IsSum(g, f, S)
  BY SumExists
<1>2. \A T \in SUBSET S : SumFunctionOnSet(f, T) = g[T]
  BY <1>1, SumIs
<1> DEFINE At(n) == \A T \in SUBSET S : Cardinality(T) = n => \A x \in T : g[T] = f[x] + g[T \ {x}]
           N == {n \in Nat : At(n)}
<1>0. \A U \in SUBSET S : IsFiniteSet(U) /\ Cardinality(U) \in Nat /\ (Cardinality(U) = 0 <=> U = {})
  BY FS_Subset, FS_CardinalityType, FS_EmptySet
<1>3. 0 \in N
  BY <1>0
<1>4. ASSUME NEW n \in Nat, n \in N PROVE n + 1 \in N
  <2> SUFFICES ASSUME NEW T \in SUBSET S, Cardinality(T) = n + 1, NEW x \in T
               PROVE  g[T] = f[x] + g[T \ {x}]
    OBVIOUS
  <2> DEFINE y == AnyOf(T)
  <2>1. y \in T
    BY DEF AnyOf
  <2> HIDE DEF y
  <2>2. g[T] = f[y] + g[T \ {y}]
    BY <1>1 DEF IsSum, y
  <2>3. CASE y = x
    BY <2>2, <2>3
  <2>4. CASE y # x
    <3>1. Cardinality(T \ {y}) = n /\ Cardinality(T \ {x}) = n
      BY <1>0, <2>1, FS_RemoveElement
    <3>2. g[T \ {y}] = f[x] + g[(T \ {y}) \ {x}]
      BY <1>4, <2>4, <3>1
    <3>3. g[T \ {x}] = f[y] + g[(T \ {x}) \ {y}]
      BY <1>4, <2>1, <2>4, <3>1
    <3>4. (T \ {x}) \ {y} = (T \ {y}) \ {x}
      OBVIOUS
    <3>5. f[x] \in Int /\ f[y] \in Int /\ g[(T \ {y}) \ {x}] \in Int
      BY <1>1, <2>1
    <3>6. g[T \ {x}] = f[y] + g[(T \ {y}) \ {x}]
      BY <3>3, <3>4
    <3>7. g[T] = f[y] + (f[x] + g[(T \ {y}) \ {x}])
      BY <2>2, <3>2
    <3> QED BY <3>5, <3>6, <3>7
  <2> QED BY <2>3, <2>4
<1>5. Nat \subseteq N
  <2> HIDE DEF N
  <2> QED BY <1>3, <1>4, NumberInduction
<1>6. Cardinality(S) \in N
  BY <1>0, <1>5
<1>7. g[{}] = 0
  BY <1>1 DEF IsSum
<1> QED BY <1>1, <1>2, <1>6, <1>7

LEMMA SumOfZeros ==
  ASSUME NEW S, IsFiniteSet(S), NEW f, \A x \in S : f[x] = 0
  PROVE  SumFunctionOnSet(f, S) = 0
<1> DEFINE Q == {T \in SUBSET S : SumFunctionOnSet(f, T) = 0}
<1>1. {} \in Q
  BY SumOfSet
<1>2. ASSUME NEW T \in SUBSET S, NEW x \in S \ T, T \in Q PROVE T \cup {x} \in Q
  <2>1. IsFiniteSet(T \cup {x})
    BY FS_Subset
  <2>2. SumFunctionOnSet(f, T \cup {x}) = f[x] + SumFunctionOnSet(f, (T \cup {x}) \ {x})
    BY <2>1, SumOfSet
  <2>3. (T \cup {x}) \ {x} = T
    OBVIOUS
  <2>4. f[x] = 0 /\ SumFunctionOnSet(f, T) = 0
    BY <1>2
  <2>5. SumFunctionOnSet(f, T \cup {x}) = 0
    BY <2>2, <2>3, <2>4
  <2> QED BY <2>5
<1>3. SUBSET S \subseteq Q
  <2> HIDE DEF Q
  <2> QED BY <1>1, <1>2, SetInduction
<1> QED BY <1>3

(* A sum is that of the values, whatever else the function is.             *)
LEMMA SumOfSame ==
  ASSUME NEW S, IsFiniteSet(S), NEW f, NEW h,
         \A x \in S : f[x] \in Int /\ h[x] = f[x]
  PROVE  SumFunctionOnSet(h, S) = SumFunctionOnSet(f, S)
<1> DEFINE Q == {T \in SUBSET S : SumFunctionOnSet(h, T) = SumFunctionOnSet(f, T)}
<1>1. {} \in Q
  BY SumOfSet
<1>2. ASSUME NEW T \in SUBSET S, NEW x \in S \ T, T \in Q PROVE T \cup {x} \in Q
  <2>1. IsFiniteSet(T \cup {x})
    BY FS_Subset
  <2>2. \A y \in T \cup {x} : f[y] \in Int /\ h[y] \in Int
    OBVIOUS
  <2>3. /\ SumFunctionOnSet(h, T \cup {x}) = h[x] + SumFunctionOnSet(h, (T \cup {x}) \ {x})
        /\ SumFunctionOnSet(f, T \cup {x}) = f[x] + SumFunctionOnSet(f, (T \cup {x}) \ {x})
    BY <2>1, <2>2, SumOfSet
  <2>4. (T \cup {x}) \ {x} = T
    OBVIOUS
  <2>5. h[x] = f[x] /\ SumFunctionOnSet(h, T) = SumFunctionOnSet(f, T)
    BY <1>2
  <2>6. SumFunctionOnSet(h, T \cup {x}) = SumFunctionOnSet(f, T \cup {x})
    BY <2>3, <2>4, <2>5
  <2> QED BY <2>6
<1>3. SUBSET S \subseteq Q
  <2> HIDE DEF Q
  <2> QED BY <1>1, <1>2, SetInduction
<1> QED BY <1>3

(* The sums of the first values of a list.                                 *)
LEMMA SumOfFirst ==
  ASSUME NEW k \in Nat, NEW f, \A i \in 1 .. k + 1 : f[i] \in Int
  PROVE  /\ SumFunctionOnSet(f, 1 .. k) \in Int
         /\ SumFunctionOnSet(f, 1 .. k + 1) = SumFunctionOnSet(f, 1 .. k) + f[k + 1]
         /\ SumFunctionOnSet(f, 1 .. 0) = 0
<1>1. IsFiniteSet(1 .. k) /\ IsFiniteSet(1 .. k + 1)
  BY FS_Interval
<1>2. (1 .. k + 1) \ {k + 1} = 1 .. k /\ k + 1 \in 1 .. k + 1 /\ 1 .. 0 = {}
  OBVIOUS
<1>3. SumFunctionOnSet(f, 1 .. k) \in Int
  BY <1>1, SumOfSet
<1>4. /\ SumFunctionOnSet(f, {}) = 0
      /\ SumFunctionOnSet(f, 1 .. k + 1) = f[k + 1] + SumFunctionOnSet(f, (1 .. k + 1) \ {k + 1})
  BY <1>1, <1>2, SumOfSet
<1>5. f[k + 1] \in Int
  OBVIOUS
<1>6. SumFunctionOnSet(f, 1 .. k + 1) = f[k + 1] + SumFunctionOnSet(f, 1 .. k)
  BY <1>2, <1>4
<1>7. SumFunctionOnSet(f, 1 .. 0) = 0
  BY <1>2, <1>4
<1>8. SumFunctionOnSet(f, 1 .. k + 1) = SumFunctionOnSet(f, 1 .. k) + f[k + 1]
  BY <1>3, <1>5, <1>6
<1> QED BY <1>3, <1>7, <1>8

-----------------------------------------------------------------------------
(* Queues of messages, whatever travels in them: what Append and Tail do to *)
(* their elements, in the form the proofs about the wires need.            *)
IsQueue(q) == \E S : q \in Seq(S)

(* A new message goes last and moves no other.                             *)
LEMMA AppendQueue ==
  ASSUME NEW q, IsQueue(q), NEW e
  PROVE  /\ IsQueue(Append(q, e))
         /\ Append(q, e) # <<>>
         /\ Len(q) \in Nat
         /\ Len(Append(q, e)) = Len(q) + 1
         /\ Append(q, e)[Len(q) + 1] = e
         /\ \A i \in 1 .. Len(q) : Append(q, e)[i] = q[i]
<1>1. PICK S : q \in Seq(S)
  BY DEF IsQueue
<1>2. q \in Seq(S \cup {e})
  BY <1>1
<1>3. Append(q, e) \in Seq(S \cup {e})
  BY <1>2
<1>4. Len(q) \in Nat
  BY <1>1
<1>5. IsQueue(Append(q, e))
  BY <1>3 DEF IsQueue
<1> QED BY <1>2, <1>4, <1>5

LEMMA AppendPrefix ==
  ASSUME NEW q, IsQueue(q), NEW e
  PROVE  SubSeq(Append(q, e), 1, Len(q)) = q
<1>1. PICK S : q \in Seq(S)
  BY DEF IsQueue
<1>2. Append(q, e) \in Seq(S \cup {e}) /\ q \in Seq(S \cup {e})
  BY <1>1
<1>3. Len(q) \in Nat /\ Len(Append(q, e)) = Len(q) + 1
  BY <1>1
<1>4. DOMAIN q = 1 .. Len(q) /\ q = [i \in 1 .. Len(q) |-> q[i]]
  BY <1>1
<1>5. SubSeq(Append(q, e), 1, Len(q)) = [i \in 1 .. Len(q) |-> Append(q, e)[i]]
  BY <1>2, <1>3
<1>6. \A i \in 1 .. Len(q) : Append(q, e)[i] = q[i]
  BY AppendQueue
<1> QED BY <1>4, <1>5, <1>6

(* Taking the first message moves the others up.                           *)
LEMMA TailQueue ==
  ASSUME NEW q, IsQueue(q), q # <<>>
  PROVE  /\ IsQueue(Tail(q))
         /\ Len(q) \in Nat /\ Len(q) > 0
         /\ Len(Tail(q)) = Len(q) - 1
         /\ Head(q) = q[1]
         /\ \A i \in 1 .. Len(q) - 1 : Tail(q)[i] = q[i + 1]
<1>1. PICK S : q \in Seq(S)
  BY DEF IsQueue
<1>2. Tail(q) \in Seq(S)
  BY <1>1
<1>3. Len(q) \in Nat /\ Len(q) # 0
  BY <1>1
<1>4. Len(Tail(q)) = Len(q) - 1
  BY <1>1, <1>3
<1>5. Head(q) = q[1]
  BY <1>1, <1>3
<1>6. \A i \in 1 .. Len(q) - 1 : Tail(q)[i] = q[i + 1]
  BY <1>1, <1>3
<1>7. IsQueue(Tail(q))
  BY <1>2 DEF IsQueue
<1> QED BY <1>3, <1>4, <1>5, <1>6, <1>7

(* A queue is empty exactly when its length is 0.                          *)
LEMMA EmptyQueue ==
  ASSUME NEW q, IsQueue(q)
  PROVE  Len(q) \in Nat /\ (q = <<>> <=> Len(q) = 0)
<1>1. PICK S : q \in Seq(S)
  BY DEF IsQueue
<1> QED BY <1>1

(* The last message stays last until it is taken.                          *)
LEMMA TailKeepsLast ==
  ASSUME NEW q, IsQueue(q), q # <<>>
  PROVE  /\ Tail(q) = <<>> => Head(q) = q[Len(q)]
         /\ Tail(q) # <<>> => Tail(q)[Len(Tail(q))] = q[Len(q)]
<1>1. IsQueue(Tail(q)) /\ Len(q) \in Nat /\ Len(q) > 0 /\ Len(Tail(q)) = Len(q) - 1
  BY TailQueue
<1>2. Tail(q) = <<>> <=> Len(q) = 1
  <2>1. Tail(q) = <<>> <=> Len(Tail(q)) = 0
    BY <1>1, EmptyQueue
  <2> QED BY <1>1, <2>1
<1>3. ASSUME Tail(q) = <<>> PROVE Head(q) = q[Len(q)]
  <2>1. Len(q) = 1 /\ Head(q) = q[1]
    BY <1>2, <1>3, TailQueue
  <2> QED BY <2>1
<1>4. ASSUME Tail(q) # <<>> PROVE Tail(q)[Len(Tail(q))] = q[Len(q)]
  <2>1. Len(q) - 1 \in 1 .. Len(q) - 1
    BY <1>1, <1>2, <1>4
  <2>2. Tail(q)[Len(q) - 1] = q[(Len(q) - 1) + 1]
    BY <2>1, TailQueue
  <2>3. (Len(q) - 1) + 1 = Len(q)
    BY <1>1
  <2>4. Tail(q)[Len(q) - 1] = q[Len(q)]
    BY <2>2, <2>3
  <2> QED BY <1>1, <2>4
<1> QED BY <1>3, <1>4

-----------------------------------------------------------------------------
(* Queues of one repeated message m, and those with one message besides.    *)
AllAre(q, m) == \A i \in 1 .. Len(q) : q[i] = m

OneOther(q, m) == \A i, j \in 1 .. Len(q) : q[i] # m /\ q[j] # m => i = j

LEMMA NoneOther ==
  ASSUME NEW q, NEW m
  PROVE  /\ AllAre(q, m) => OneOther(q, m)
         /\ AllAre(<<>>, m)
  BY DEF AllAre, OneOther

(* One more m makes no difference; another message is the only one if all   *)
(* before it are m.                                                        *)
LEMMA AppendToAll ==
  ASSUME NEW q, IsQueue(q), NEW m, NEW e
  PROVE  /\ AllAre(q, m) => AllAre(Append(q, m), m)
         /\ OneOther(q, m) => OneOther(Append(q, m), m)
         /\ AllAre(q, m) => OneOther(Append(q, e), m)
<1>1. AllAre(q, m) => AllAre(Append(q, m), m)
  BY AppendQueue DEF AllAre
<1>2. OneOther(q, m) => OneOther(Append(q, m), m)
  BY AppendQueue DEF OneOther
<1>3. AllAre(q, m) => OneOther(Append(q, e), m)
  BY AppendQueue DEF AllAre, OneOther
<1> QED BY <1>1, <1>2, <1>3

(* The other message leaves only m behind.                                 *)
LEMMA TailOfAll ==
  ASSUME NEW q, IsQueue(q), q # <<>>, NEW m
  PROVE  /\ AllAre(q, m) => Head(q) = m /\ AllAre(Tail(q), m)
         /\ OneOther(q, m) => OneOther(Tail(q), m)
         /\ OneOther(q, m) /\ Head(q) # m => AllAre(Tail(q), m)
<1>1. /\ Len(q) \in Nat /\ Len(q) > 0 /\ Len(Tail(q)) = Len(q) - 1 /\ Head(q) = q[1]
      /\ \A i \in 1 .. Len(q) - 1 : Tail(q)[i] = q[i + 1]
  BY TailQueue
<1>2. AllAre(q, m) => Head(q) = m /\ AllAre(Tail(q), m)
  BY <1>1 DEF AllAre
<1>3. OneOther(q, m) => OneOther(Tail(q), m)
  BY <1>1 DEF OneOther
<1>4. OneOther(q, m) /\ Head(q) # m => AllAre(Tail(q), m)
  BY <1>1 DEF OneOther, AllAre
<1> QED BY <1>2, <1>3, <1>4

LEMMA ConcatOne ==
  ASSUME NEW q, IsQueue(q), NEW e
  PROVE  q \o <<>> = q /\ q \o <<e>> = Append(q, e)
<1>1. PICK S : q \in Seq(S)
  BY DEF IsQueue
<1>2. q \in Seq(S \cup {e}) /\ e \in S \cup {e}
  BY <1>1
<1>3. q \o <<>> = q
  BY <1>1
<1>4. q \o <<e>> = Append(q, e)
  BY <1>2
<1> QED BY <1>3, <1>4

-----------------------------------------------------------------------------
HandsOn(f, S, T, n) ==
  /\ f = [s \in S |-> f[s]]
  /\ \A s \in S : f[s] = IF s \in T THEN s ELSE f[n[s]]

(* A function that hands every argument on to the next until one is final   *)
(* exists, whether the hand-over ends or not: it takes each argument to the *)
(* final one that a finite path leads to, if any.                          *)
LEMMA TailRecursion ==
  ASSUME NEW S, NEW T, NEW n, \A s \in S \ T : n[s] \in S
  PROVE  \E f : HandsOn(f, S, T, n)
<1> DEFINE Path(p, k, s, t) == /\ p[0] = s /\ p[k] = t
                               /\ \A i \in 0 .. k - 1 : p[i] \notin T /\ p[i + 1] = n[p[i]]
           Ends(s) == {t \in S \cap T : \E k \in Nat : \E p \in [0 .. k -> S] : Path(p, k, s, t)}
           f == [s \in S |-> CHOOSE t : t \in Ends(s)]
<1>1. ASSUME NEW s \in S \cap T PROVE Ends(s) = {s}
  <2>1. s \in Ends(s)
    <3> DEFINE p == [i \in 0 .. 0 |-> s]
    <3>1. p \in [0 .. 0 -> S] /\ Path(p, 0, s, s)
      OBVIOUS
    <3> QED BY <3>1
  <2>2. ASSUME NEW t \in Ends(s) PROVE t = s
    <3>0. PICK k \in Nat : \E p \in [0 .. k -> S] : Path(p, k, s, t)
      OBVIOUS
    <3>1. PICK p \in [0 .. k -> S] : Path(p, k, s, t)
      BY <3>0
    <3>2. k = 0
      BY <3>1
    <3> QED BY <3>1, <3>2
  <2> QED BY <2>1, <2>2
<1>2. ASSUME NEW s \in S \ T PROVE Ends(s) = Ends(n[s])
  <2>1. ASSUME NEW t \in Ends(s) PROVE t \in Ends(n[s])
    <3>0. PICK k \in Nat : \E p \in [0 .. k -> S] : Path(p, k, s, t)
      OBVIOUS
    <3>1. PICK p \in [0 .. k -> S] : Path(p, k, s, t)
      BY <3>0
    <3>2. k # 0
      BY <3>1, <2>1
    <3> DEFINE q == [i \in 0 .. k - 1 |-> p[i + 1]]
    <3>3. k - 1 \in Nat /\ q \in [0 .. k - 1 -> S]
      BY <3>2
    <3>4. q[0] = n[s] /\ q[k - 1] = t
      BY <3>1, <3>2
    <3>5. ASSUME NEW i \in 0 .. (k - 1) - 1 PROVE q[i] \notin T /\ q[i + 1] = n[q[i]]
      <4>1. i + 1 \in 0 .. k - 1 /\ i \in 0 .. k - 1 /\ i \in 0 .. k - 1
        OBVIOUS
      <4>2. p[i + 1] \notin T /\ p[(i + 1) + 1] = n[p[i + 1]]
        BY <3>1, <4>1
      <4>3. q[i] = p[i + 1] /\ q[i + 1] = p[(i + 1) + 1]
        BY <4>1
      <4> QED BY <4>2, <4>3
    <3> HIDE DEF q
    <3>6. Path(q, k - 1, n[s], t)
      BY <3>4, <3>5
    <3> QED BY <2>1, <3>3, <3>6
  <2>2. ASSUME NEW t \in Ends(n[s]) PROVE t \in Ends(s)
    <3>0. PICK k \in Nat : \E p \in [0 .. k -> S] : Path(p, k, n[s], t)
      OBVIOUS
    <3>1. PICK p \in [0 .. k -> S] : Path(p, k, n[s], t)
      BY <3>0
    <3> DEFINE q == [i \in 0 .. k + 1 |-> IF i = 0 THEN s ELSE p[i - 1]]
    <3>3. k + 1 \in Nat /\ q \in [0 .. k + 1 -> S]
      OBVIOUS
    <3>4. q[0] = s /\ q[k + 1] = t
      BY <3>1
    <3>5. ASSUME NEW i \in 0 .. (k + 1) - 1 PROVE q[i] \notin T /\ q[i + 1] = n[q[i]]
      <4>1. q[i + 1] = p[i]
        OBVIOUS
      <4>2. CASE i = 0
        BY <3>1, <4>1, <4>2
      <4>3. CASE i # 0
        <5>1. i - 1 \in 0 .. k - 1 /\ (i - 1) + 1 = i
          BY <4>3
        <5>2. p[i - 1] \notin T /\ p[(i - 1) + 1] = n[p[i - 1]]
          BY <3>1, <5>1
        <5>3. q[i] = p[i - 1]
          BY <4>3
        <5> QED BY <4>1, <5>1, <5>2, <5>3
      <4> QED BY <4>2, <4>3
    <3> HIDE DEF q
    <3>6. Path(q, k + 1, s, t)
      BY <3>4, <3>5
    <3> QED BY <2>2, <3>3, <3>6
  <2> QED BY <2>1, <2>2
<1> HIDE DEF Ends
<1>3. \A s \in S : f[s] = IF s \in T THEN s ELSE f[n[s]]
  BY <1>1, <1>2
<1>4. f = [s \in S |-> f[s]]
  OBVIOUS
<1> HIDE DEF f
<1>5. HandsOn(f, S, T, n)
  BY <1>3, <1>4 DEF HandsOn
<1> QED BY <1>5

-----------------------------------------------------------------------------
(* Parts of lists and lists in another order, as what is at each place.     *)
LEMMA ConcatQueues ==
  ASSUME NEW p, IsQueue(p), NEW q, IsQueue(q)
  PROVE  /\ IsQueue(p \o q) /\ Len(p) \in Nat /\ Len(q) \in Nat
         /\ Len(p \o q) = Len(p) + Len(q)
         /\ \A i \in 1 .. Len(p) : (p \o q)[i] = p[i]
         /\ \A i \in 1 .. Len(q) : (p \o q)[Len(p) + i] = q[i]
<1>1. PICK S : p \in Seq(S)
  BY DEF IsQueue
<1>2. PICK T : q \in Seq(T)
  BY DEF IsQueue
<1>3. p \in Seq(S \cup T) /\ q \in Seq(S \cup T)
  BY <1>1, <1>2
<1>4. /\ p \o q \in Seq(S \cup T)
      /\ Len(p \o q) = Len(p) + Len(q)
      /\ \A i \in 1 .. Len(p) + Len(q) : (p \o q)[i] = IF i <= Len(p) THEN p[i] ELSE q[i - Len(p)]
  BY <1>3, ConcatProperties
<1>5. Len(p) \in Nat /\ Len(q) \in Nat
  BY <1>3
<1>6. \A i \in 1 .. Len(p) : (p \o q)[i] = p[i]
  BY <1>4, <1>5
<1>7. ASSUME NEW i \in 1 .. Len(q) PROVE (p \o q)[Len(p) + i] = q[i]
  <2>1. Len(p) + i \in 1 .. Len(p) + Len(q) /\ ~(Len(p) + i <= Len(p)) /\ (Len(p) + i) - Len(p) = i
    BY <1>5
  <2> QED BY <1>4, <2>1
<1>8. IsQueue(p \o q)
  BY <1>4 DEF IsQueue
<1> QED BY <1>4, <1>5, <1>6, <1>7, <1>8

LEMMA QueueOfOne ==
  ASSUME NEW e
  PROVE  IsQueue(<<e>>) /\ Len(<<e>>) = 1 /\ <<e>>[1] = e
<1>1. <<e>> \in Seq({e})
  OBVIOUS
<1> QED BY <1>1 DEF IsQueue

LEMMA PrependQueue ==
  ASSUME NEW q, IsQueue(q), NEW e
  PROVE  /\ IsQueue(<<e>> \o q) /\ Len(q) \in Nat
         /\ Len(<<e>> \o q) = Len(q) + 1
         /\ (<<e>> \o q)[1] = e
         /\ \A i \in 1 .. Len(q) : (<<e>> \o q)[i + 1] = q[i]
<1>1. IsQueue(<<e>>) /\ Len(<<e>>) = 1 /\ <<e>>[1] = e
  BY QueueOfOne
<1> DEFINE p == <<e>>
<1> HIDE DEF p
<1>2. /\ IsQueue(p \o q) /\ Len(p) \in Nat /\ Len(q) \in Nat
      /\ Len(p \o q) = Len(p) + Len(q)
      /\ \A i \in 1 .. Len(p) : (p \o q)[i] = p[i]
      /\ \A i \in 1 .. Len(q) : (p \o q)[Len(p) + i] = q[i]
  BY <1>1, ConcatQueues DEF p
<1>3. Len(p) = 1 /\ p[1] = e
  BY <1>1 DEF p
<1>4. Len(p \o q) = Len(q) + 1 /\ (p \o q)[1] = e
  BY <1>2, <1>3
<1>5. ASSUME NEW i \in 1 .. Len(q) PROVE (p \o q)[i + 1] = q[i]
  <2>1. Len(p) + i = i + 1
    BY <1>2, <1>3
  <2> QED BY <1>2, <2>1
<1> QED BY <1>2, <1>4, <1>5 DEF p

LEMMA FrontQueue ==
  ASSUME NEW q, IsQueue(q), q # <<>>
  PROVE  /\ IsQueue(Front(q)) /\ Len(q) \in Nat \ {0} /\ Len(Front(q)) = Len(q) - 1
         /\ \A i \in 1 .. Len(q) - 1 : Front(q)[i] = q[i]
         /\ Last(q) = q[Len(q)]
<1>1. PICK S : q \in Seq(S)
  BY DEF IsQueue
<1>2. Len(q) \in Nat \ {0}
  BY <1>1
<1>3. Front(q) \in Seq(S) /\ Len(Front(q)) = Len(q) - 1
  <2>1. \A i \in 1 .. Len(q) - 1 : q[i] \in S
    BY <1>1, <1>2
  <2>2. Front(q) = [i \in 1 .. Len(q) - 1 |-> q[i]]
    BY <1>1, <1>2 DEF Front
  <2>3. Len(q) - 1 \in Nat
    BY <1>2
  <2> QED BY <2>1, <2>2, <2>3
<1>4. \A i \in 1 .. Len(q) - 1 : Front(q)[i] = q[i]
  <2>1. Front(q) = [i \in 1 .. Len(q) - 1 |-> q[i]]
    BY <1>1, <1>2 DEF Front
  <2> QED BY <2>1
<1>5. IsQueue(Front(q)) /\ Last(q) = q[Len(q)]
  BY <1>3 DEF IsQueue, Last
<1> QED BY <1>2, <1>3, <1>4, <1>5

LEMMA RemoveAtQueue ==
  ASSUME NEW q, IsQueue(q), NEW k \in 1 .. Len(q)
  PROVE  /\ IsQueue(RemoveAt(q, k)) /\ Len(q) \in Nat \ {0} /\ Len(RemoveAt(q, k)) = Len(q) - 1
         /\ \A i \in 1 .. k - 1 : RemoveAt(q, k)[i] = q[i]
         /\ \A i \in k .. Len(q) - 1 : RemoveAt(q, k)[i] = q[i + 1]
<1>1. PICK S : q \in Seq(S)
  BY DEF IsQueue
<1>2. Len(q) \in Nat \ {0}
  BY <1>1
<1> DEFINE a == SubSeq(q, 1, k - 1)
           b == SubSeq(q, k + 1, Len(q))
<1>3. a \in Seq(S) /\ Len(a) = k - 1 /\ \A i \in 1 .. k - 1 : a[i] = q[i]
  <2>1. a = [i \in 1 .. k - 1 |-> q[i]]
    BY <1>1, <1>2
  <2>2. k - 1 \in Nat /\ \A i \in 1 .. k - 1 : q[i] \in S
    BY <1>1, <1>2
  <2> HIDE DEF a
  <2> QED BY <2>1, <2>2
<1>4. b \in Seq(S) /\ Len(b) = Len(q) - k /\ \A i \in 1 .. Len(q) - k : b[i] = q[k + i]
  <2>1. Len(q) - k \in Nat /\ \A i \in 1 .. Len(q) - k : q[k + i] \in S
    BY <1>1, <1>2
  <2>2. b = [i \in 1 .. Len(q) - k |-> q[k + i]]
    <3>1. b = [i \in 1 .. (Len(q) - (k + 1)) + 1 |-> q[i + (k + 1) - 1]]
      BY <1>1, <1>2
    <3>2. (Len(q) - (k + 1)) + 1 = Len(q) - k /\ \A i \in 1 .. Len(q) - k : i + (k + 1) - 1 = k + i
      BY <1>2
    <3> HIDE DEF b
    <3> QED BY <3>1, <3>2
  <2> HIDE DEF b
  <2> QED BY <2>1, <2>2
<1> HIDE DEF a, b
<1>5. RemoveAt(q, k) = a \o b /\ IsQueue(a) /\ IsQueue(b)
  BY <1>3, <1>4 DEF RemoveAt, a, b, IsQueue
<1>6. /\ IsQueue(a \o b) /\ Len(a \o b) = Len(a) + Len(b)
      /\ \A i \in 1 .. Len(a) : (a \o b)[i] = a[i]
      /\ \A i \in 1 .. Len(b) : (a \o b)[Len(a) + i] = b[i]
  BY <1>5, ConcatQueues
<1>7. Len(a \o b) = Len(q) - 1
  BY <1>2, <1>3, <1>4, <1>6
<1>8. \A i \in 1 .. k - 1 : (a \o b)[i] = q[i]
  BY <1>3, <1>6
<1>9. ASSUME NEW i \in k .. Len(q) - 1 PROVE (a \o b)[i] = q[i + 1]
  <2> DEFINE j == i - (k - 1)
  <2>0. k \in Nat /\ i \in Nat /\ Len(q) \in Nat /\ k <= i /\ i <= Len(q) - 1 /\ Len(a) = k - 1
    BY <1>2, <1>3
  <2>1. j \in 1 .. Len(q) - k /\ Len(a) + j = i /\ k + j = i + 1
    BY <2>0
  <2>2. (a \o b)[Len(a) + j] = b[j] /\ b[j] = q[k + j]
    <3> HIDE DEF j
    <3> QED BY <1>4, <1>6, <2>1
  <2> QED BY <2>1, <2>2
<1> QED BY <1>2, <1>5, <1>6, <1>7, <1>8, <1>9

(* An order of a finite set has all its members, each once.                *)
LEMMA OrdersOfSet ==
  ASSUME NEW S, IsFiniteSet(S), NEW o \in SetToSeqs(S)
  PROVE  /\ IsQueue(o) /\ Len(o) = Cardinality(S) /\ Cardinality(S) \in Nat
         /\ \A i \in 1 .. Len(o) : o[i] \in S
         /\ \A i, j \in 1 .. Len(o) : i # j => o[i] # o[j]
         /\ \A x \in S : \E i \in 1 .. Len(o) : o[i] = x
<1> DEFINE n == Cardinality(S)
<1>1. n \in Nat /\ o \in [1 .. n -> S] /\ \A i, j \in 1 .. n : i # j => o[i] # o[j]
  BY FS_CardinalityType DEF SetToSeqs
<1> HIDE DEF n
<1>2. o \in Seq(S) /\ Len(o) = n
  BY <1>1
<1>3. IsFiniteSet(1 .. n) /\ Cardinality(1 .. n) = n
  <2>1. IsFiniteSet(1 .. n) /\ Cardinality(1 .. n) = IF 1 > n THEN 0 ELSE n - 1 + 1
    BY <1>1, FS_Interval
  <2> QED BY <1>1, <2>1
<1>4. o \in Injection(1 .. n, S)
  BY <1>1 DEF Injection, IsInjective
<1>5. o \in Surjection(1 .. n, S)
  BY <1>3, <1>4, FS_Injection DEF n
<1>6. \A x \in S : \E i \in 1 .. n : o[i] = x
  BY <1>5 DEF Surjection
<1> QED BY <1>1, <1>2, <1>6 DEF IsQueue, n

-----------------------------------------------------------------------------
(***************************************************************************)
(* Counts of the members of one type in a list, and what putting a member   *)
(* into a list or taking it out does to them.                              *)
(***************************************************************************)
RowsUpto(s, t, n) == Cardinality({i \in 1 .. n : s[i] = t})

LEMMA RowsUptoIs ==
  ASSUME NEW s, NEW t
  PROVE  /\ RowsUpto(s, t, 0) = 0
         /\ \A n \in Nat : /\ RowsUpto(s, t, n) \in 0 .. n
                           /\ RowsUpto(s, t, n + 1) = RowsUpto(s, t, n) + (IF s[n + 1] = t THEN 1 ELSE 0)
<1> DEFINE R(n) == {i \in 1 .. n : s[i] = t}
<1>1. \A n \in Nat : IsFiniteSet(R(n)) /\ Cardinality(R(n)) \in 0 .. n
  <2> TAKE n \in Nat
  <2>1. IsFiniteSet(1 .. n) /\ Cardinality(1 .. n) = n
    BY FS_Interval
  <2>2. R(n) \subseteq 1 .. n
    OBVIOUS
  <2>3. IsFiniteSet(R(n)) /\ Cardinality(R(n)) <= n
    BY <2>1, <2>2, FS_Subset
  <2>4. Cardinality(R(n)) \in Nat
    BY <2>3, FS_CardinalityType
  <2> HIDE DEF R
  <2> QED BY <2>3, <2>4
<1>2. RowsUpto(s, t, 0) = 0
  <2>1. R(0) = {}
    OBVIOUS
  <2> QED BY <2>1, FS_EmptySet DEF RowsUpto
<1>3. ASSUME NEW n \in Nat
      PROVE  RowsUpto(s, t, n + 1) = RowsUpto(s, t, n) + (IF s[n + 1] = t THEN 1 ELSE 0)
  <2>1. CASE s[n + 1] = t
    <3>1. R(n + 1) = R(n) \cup {n + 1} /\ n + 1 \notin R(n)
      BY <2>1
    <3>2. Cardinality(R(n) \cup {n + 1}) = Cardinality(R(n)) + 1
      <4>1. IsFiniteSet(R(n)) /\ n + 1 \notin R(n)
        BY <1>1, <3>1
      <4> HIDE DEF R
      <4> QED BY <4>1, FS_AddElement
    <3> QED BY <2>1, <3>1, <3>2 DEF RowsUpto
  <2>2. CASE s[n + 1] # t
    <3>1. R(n + 1) = R(n)
      BY <2>2
    <3>2. RowsUpto(s, t, n) \in Nat /\ RowsUpto(s, t, n + 1) = RowsUpto(s, t, n)
      BY <1>1, <3>1 DEF RowsUpto
    <3> QED BY <2>2, <3>2
  <2> QED BY <2>1, <2>2
<1>4. \A n \in Nat : RowsUpto(s, t, n) \in 0 .. n
  BY <1>1 DEF RowsUpto
<1> QED BY <1>2, <1>3, <1>4

LEMMA RowsUptoGrows ==
  ASSUME NEW s, NEW t, NEW m \in Nat, NEW n \in Nat, m <= n
  PROVE  RowsUpto(s, t, m) <= RowsUpto(s, t, n)
<1> DEFINE S == {k \in Nat : RowsUpto(s, t, m) <= RowsUpto(s, t, m + k)}
<1>1. 0 \in S
  <2>1. RowsUpto(s, t, m) \in 0 .. m
    BY RowsUptoIs
  <2>2. m + 0 = m /\ \A x \in 0 .. m : x <= x
    OBVIOUS
  <2> QED BY <2>1, <2>2
<1>2. ASSUME NEW k \in Nat, k \in S PROVE k + 1 \in S
  <2>1. m + k \in Nat /\ m + (k + 1) = (m + k) + 1
    OBVIOUS
  <2>2. /\ RowsUpto(s, t, m) \in Int /\ RowsUpto(s, t, m + k) \in Int
        /\ RowsUpto(s, t, (m + k) + 1) = RowsUpto(s, t, m + k) + (IF s[(m + k) + 1] = t THEN 1 ELSE 0)
    BY <2>1, RowsUptoIs
  <2> QED BY <1>2, <2>1, <2>2
<1>3. Nat \subseteq S
  <2> HIDE DEF S
  <2> QED BY <1>1, <1>2, NumberInduction
<1>4. n - m \in Nat /\ m + (n - m) = n
  OBVIOUS
<1> QED BY <1>3, <1>4

(* The rows of a type have numbers of their own.                           *)
LEMMA NumberOfRow ==
  ASSUME NEW s, NEW l \in Nat, NEW i \in 1 .. l
  PROVE  /\ RowsUpto(s, s[i], i) = RowsUpto(s, s[i], i - 1) + 1
         /\ RowsUpto(s, s[i], i) \in 1 .. RowsUpto(s, s[i], l)
         /\ \A j \in 1 .. l : j # i /\ s[j] = s[i] => RowsUpto(s, s[i], j) # RowsUpto(s, s[i], i)
<1> PICK t : t = s[i]
  OBVIOUS
<1> DEFINE c(n) == RowsUpto(s, t, n)
<1>1. /\ \A n \in Nat : c(n) \in Nat /\ c(n + 1) = c(n) + (IF s[n + 1] = t THEN 1 ELSE 0)
      /\ \A m, n \in Nat : m <= n => c(m) <= c(n)
  <2>1. \A n \in Nat : c(n) \in 0 .. n /\ c(n + 1) = c(n) + (IF s[n + 1] = t THEN 1 ELSE 0)
    BY RowsUptoIs
  <2>2. \A m, n \in Nat : m <= n => c(m) <= c(n)
    BY RowsUptoGrows
  <2> HIDE DEF c
  <2>3. \A n \in Nat : c(n) \in Nat
    BY <2>1
  <2> QED BY <2>1, <2>2, <2>3
<1>2. t = s[i]
  OBVIOUS
<1> HIDE DEF c
<1>3. \A j \in 1 .. l : j - 1 \in Nat /\ (j - 1) + 1 = j /\ j \in Nat
  OBVIOUS
<1>4. ASSUME NEW j \in 1 .. l, s[j] = t PROVE c(j) = c(j - 1) + 1
  <2>1. c((j - 1) + 1) = c(j - 1) + (IF s[(j - 1) + 1] = t THEN 1 ELSE 0)
    BY <1>1, <1>3
  <2> QED BY <1>3, <1>4, <2>1
<1>5. c(i) \in 1 .. c(l)
  <2>1. c(i) = c(i - 1) + 1 /\ c(i - 1) \in Nat
    BY <1>1, <1>2, <1>3, <1>4
  <2>2. c(i) <= c(l) /\ c(l) \in Nat
    BY <1>1, <1>3
  <2> QED BY <2>1, <2>2
<1>6. ASSUME NEW j \in 1 .. l, NEW k \in 1 .. l, j < k, s[k] = t PROVE c(j) < c(k)
  <2>1. c(k) = c(k - 1) + 1 /\ c(k - 1) \in Nat /\ c(j) \in Nat
    BY <1>1, <1>3, <1>6, <1>4
  <2>2. j <= k - 1
    BY <1>6
  <2>3. c(j) <= c(k - 1)
    BY <1>1, <1>3, <2>2
  <2> QED BY <2>1, <2>3
<1>7. ASSUME NEW j \in 1 .. l, j # i, s[j] = t PROVE c(j) # c(i)
  <2>1. c(i) \in Nat /\ c(j) \in Nat
    BY <1>1, <1>3
  <2>2. CASE j < i
    BY <1>2, <1>6, <2>1, <2>2
  <2>3. CASE i < j
    BY <1>6, <1>7, <2>1, <2>3
  <2> QED BY <1>7, <2>2, <2>3
<1>8. c(i) = c(i - 1) + 1
  BY <1>2, <1>4
<1> QED BY <1>5, <1>7, <1>8 DEF c

(* u is s with x put in at place p.                                        *)
PutAt(u, s, p, x) ==
  /\ IsQueue(u) /\ IsQueue(s) /\ Len(s) \in Nat /\ p \in 1 .. Len(s) + 1 /\ Len(u) = Len(s) + 1
  /\ \A i \in 1 .. p - 1 : u[i] = s[i]
  /\ u[p] = x
  /\ \A i \in p .. Len(s) : u[i + 1] = s[i]

LEMMA QueuesEqual ==
  ASSUME NEW q, IsQueue(q), NEW r, IsQueue(r), Len(q) = Len(r), \A i \in 1 .. Len(q) : q[i] = r[i]
  PROVE  q = r
<1>1. PICK S : q \in Seq(S)
  BY DEF IsQueue
<1>2. PICK T : r \in Seq(T)
  BY DEF IsQueue
<1> QED BY <1>1, <1>2

LEMMA PutIsUnique ==
  ASSUME NEW u, NEW s, NEW p, NEW x, PutAt(u, s, p, x)
  PROVE  /\ \A v : PutAt(v, s, p, x) => v = u
         /\ \A r : PutAt(u, r, p, x) => r = s
<1>1. ASSUME NEW v, PutAt(v, s, p, x) PROVE v = u
  <2>1. ASSUME NEW i \in 1 .. Len(s) + 1 PROVE v[i] = u[i]
    <3>1. CASE i < p
      <4>1. i \in 1 .. p - 1
        BY <3>1 DEF PutAt
      <4> QED BY <1>1, <4>1 DEF PutAt
    <3>2. CASE i = p
      BY <1>1, <3>2 DEF PutAt
    <3>3. CASE i > p
      <4>1. i - 1 \in p .. Len(s) /\ (i - 1) + 1 = i
        BY <3>3 DEF PutAt
      <4>2. v[(i - 1) + 1] = s[i - 1] /\ u[(i - 1) + 1] = s[i - 1]
        BY <1>1, <4>1 DEF PutAt
      <4> QED BY <4>1, <4>2
    <3> QED BY <3>1, <3>2, <3>3 DEF PutAt
  <2> QED BY <1>1, <2>1, QueuesEqual DEF PutAt
<1>2. ASSUME NEW r, PutAt(u, r, p, x) PROVE r = s
  <2>1. Len(r) = Len(s) /\ Len(s) \in Nat
    BY <1>2 DEF PutAt
  <2>2. ASSUME NEW i \in 1 .. Len(s) PROVE r[i] = s[i]
    <3>1. CASE i < p
      <4>1. i \in 1 .. p - 1
        BY <3>1 DEF PutAt
      <4> QED BY <1>2, <4>1 DEF PutAt
    <3>2. CASE i >= p
      <4>1. i \in p .. Len(s)
        BY <3>2 DEF PutAt
      <4> QED BY <1>2, <2>1, <4>1 DEF PutAt
    <3> QED BY <3>1, <3>2 DEF PutAt
  <2> QED BY <1>2, <2>1, <2>2, QueuesEqual DEF PutAt
<1> QED BY <1>1, <1>2

LEMMA InsertPuts ==
  ASSUME NEW q, IsQueue(q), NEW p \in 1 .. Len(q) + 1, NEW e
  PROVE  PutAt(InsertAt(q, p, e), q, p, e)
<1>1. PICK S : q \in Seq(S)
  BY DEF IsQueue
<1> PICK n : n = Len(q)
  OBVIOUS
<1>2. n \in Nat
  BY <1>1
<1> DEFINE a == SubSeq(q, 1, p - 1)
           b == SubSeq(q, p, Len(q))
<1>3. IsQueue(a) /\ Len(a) = p - 1 /\ \A i \in 1 .. p - 1 : a[i] = q[i]
  <2>1. a = [i \in 1 .. p - 1 |-> q[i]]
    BY <1>1, <1>2
  <2>2. p - 1 \in Nat /\ \A i \in 1 .. p - 1 : q[i] \in S
    BY <1>1, <1>2
  <2> HIDE DEF a
  <2>3. a \in Seq(S) /\ Len(a) = p - 1 /\ \A i \in 1 .. p - 1 : a[i] = q[i]
    BY <2>1, <2>2
  <2> QED BY <2>3 DEF IsQueue
<1>4. IsQueue(b) /\ Len(b) = n - p + 1 /\ \A i \in 1 .. n - p + 1 : b[i] = q[i + p - 1]
  <2>1. b = [i \in 1 .. n - p + 1 |-> q[i + p - 1]]
    BY <1>1, <1>2
  <2>2. n - p + 1 \in Nat /\ \A i \in 1 .. n - p + 1 : q[i + p - 1] \in S
    BY <1>1, <1>2
  <2> HIDE DEF b
  <2>3. b \in Seq(S) /\ Len(b) = n - p + 1 /\ \A i \in 1 .. n - p + 1 : b[i] = q[i + p - 1]
    BY <2>1, <2>2
  <2> QED BY <2>3 DEF IsQueue
<1> HIDE DEF a, b
<1> PICK c : c = a \o <<e>>
  OBVIOUS
<1>5. /\ IsQueue(c) /\ Len(c) = p /\ c[p] = e /\ \A i \in 1 .. p - 1 : c[i] = q[i]
  <2>1. c = Append(a, e)
    BY <1>3, ConcatOne
  <2>2. /\ IsQueue(Append(a, e)) /\ Len(Append(a, e)) = Len(a) + 1
        /\ Append(a, e)[Len(a) + 1] = e /\ \A i \in 1 .. Len(a) : Append(a, e)[i] = a[i]
    BY <1>3, AppendQueue
  <2>3. p \in Int /\ (p - 1) + 1 = p
    BY <1>2
  <2> QED BY <1>3, <2>1, <2>2, <2>3
<1> PICK u : u = c \o b
  OBVIOUS
<1>6. u = InsertAt(q, p, e)
  BY DEF InsertAt, a, b
<1>7. /\ IsQueue(u) /\ Len(u) = Len(c) + Len(b)
      /\ (\A i \in 1 .. Len(c) : u[i] = c[i])
      /\ \A j \in 1 .. Len(b) : u[Len(c) + j] = b[j]
  <2>0. IsQueue(c) /\ IsQueue(b)
    BY <1>4, <1>5
  <2>1. /\ IsQueue(c \o b) /\ Len(c \o b) = Len(c) + Len(b)
        /\ (\A i \in 1 .. Len(c) : (c \o b)[i] = c[i])
        /\ \A j \in 1 .. Len(b) : (c \o b)[Len(c) + j] = b[j]
    BY ONLY <2>0, ConcatQueues
  <2> QED BY <2>1
<1>8. Len(u) = n + 1 /\ u[p] = e
  <2>1. p + (n - p + 1) = n + 1 /\ p \in 1 .. p
    BY <1>2
  <2> QED BY <1>4, <1>5, <1>7, <2>1
<1>9. \A i \in 1 .. p - 1 : u[i] = q[i]
  <2>1. \A i \in 1 .. p - 1 : i \in 1 .. p
    BY <1>2
  <2> QED BY <1>5, <1>7, <2>1
<1>10. \A i \in p .. n : u[i + 1] = q[i]
  <2> TAKE i \in p .. n
  <2>1. /\ i - p + 1 \in 1 .. n - p + 1 /\ p + (i - p + 1) = i + 1 /\ (i - p + 1) + p - 1 = i
        /\ p \in 1 .. p
    BY <1>2
  <2>2. u[p + (i - p + 1)] = b[i - p + 1]
    BY <1>4, <1>5, <1>7, <2>1
  <2> QED BY <1>4, <2>1, <2>2
<1> QED BY <1>2, <1>6, <1>7, <1>8, <1>9, <1>10 DEF PutAt

LEMMA RemovePuts ==
  ASSUME NEW q, IsQueue(q), NEW p \in 1 .. Len(q)
  PROVE  PutAt(q, RemoveAt(q, p), p, q[p])
<1> PICK r, n : r = RemoveAt(q, p) /\ n = Len(q)
  OBVIOUS
<1>1. /\ IsQueue(r) /\ n \in Nat \ {0} /\ Len(r) = n - 1
      /\ (\A i \in 1 .. p - 1 : r[i] = q[i])
      /\ \A j \in p .. n - 1 : r[j] = q[j + 1]
  BY RemoveAtQueue
<1>2. Len(r) \in Nat /\ p \in 1 .. Len(r) + 1 /\ Len(q) = Len(r) + 1
  BY <1>1
<1>3. \A j \in p .. Len(r) : q[j + 1] = r[j]
  <2> TAKE j \in p .. Len(r)
  <2>1. j \in p .. n - 1
    BY <1>1
  <2> QED BY <1>1, <2>1
<1>4. \A i \in 1 .. p - 1 : q[i] = r[i]
  BY <1>1
<1> QED BY <1>1, <1>2, <1>3, <1>4 DEF PutAt

(* What that does to the counts, of any type.                              *)
LEMMA RowsUptoPut ==
  ASSUME NEW u, NEW s, NEW p, NEW x, PutAt(u, s, p, x), NEW c
  PROVE  /\ \A n \in 0 .. p - 1 : RowsUpto(u, c, n) = RowsUpto(s, c, n)
         /\ \A n \in p - 1 .. Len(s) :
              RowsUpto(u, c, n + 1) = RowsUpto(s, c, n) + (IF x = c THEN 1 ELSE 0)
<1>0. /\ Len(s) \in Nat /\ p \in 1 .. Len(s) + 1 /\ u[p] = x
      /\ (\A i \in 1 .. p - 1 : u[i] = s[i]) /\ \A i \in p .. Len(s) : u[i + 1] = s[i]
  BY DEF PutAt
<1>1. \A n \in Nat : /\ RowsUpto(u, c, n) \in Nat /\ RowsUpto(s, c, n) \in Nat
                     /\ RowsUpto(u, c, n + 1) = RowsUpto(u, c, n) + (IF u[n + 1] = c THEN 1 ELSE 0)
                     /\ RowsUpto(s, c, n + 1) = RowsUpto(s, c, n) + (IF s[n + 1] = c THEN 1 ELSE 0)
  <2>1. \A n \in Nat : /\ RowsUpto(u, c, n) \in 0 .. n
                       /\ RowsUpto(u, c, n + 1) = RowsUpto(u, c, n) + (IF u[n + 1] = c THEN 1 ELSE 0)
    BY ONLY RowsUptoIs
  <2>2. \A n \in Nat : /\ RowsUpto(s, c, n) \in 0 .. n
                       /\ RowsUpto(s, c, n + 1) = RowsUpto(s, c, n) + (IF s[n + 1] = c THEN 1 ELSE 0)
    BY ONLY RowsUptoIs
  <2>3. \A n \in Nat : 0 .. n \subseteq Nat
    OBVIOUS
  <2> QED BY <2>1, <2>2, <2>3
<1>2. RowsUpto(u, c, 0) = 0 /\ RowsUpto(s, c, 0) = 0
  BY RowsUptoIs
<1> DEFINE S == {n \in Nat : n <= p - 1 => RowsUpto(u, c, n) = RowsUpto(s, c, n)}
           T == {k \in Nat : (p - 1) + k <= Len(s) =>
                   RowsUpto(u, c, ((p - 1) + k) + 1) = RowsUpto(s, c, (p - 1) + k) + (IF x = c THEN 1 ELSE 0)}
<1>3. Nat \subseteq S
  <2>1. 0 \in S
    BY <1>2
  <2>2. ASSUME NEW n \in Nat, n \in S PROVE n + 1 \in S
    <3>1. CASE n + 1 <= p - 1
      <4>1. n + 1 \in 1 .. p - 1
        BY <1>0, <3>1
      <4>2. u[n + 1] = s[n + 1] /\ n <= p - 1
        BY <1>0, <4>1
      <4> QED BY <1>1, <2>2, <4>2
    <3> QED BY <3>1
  <2> HIDE DEF S
  <2> QED BY <2>1, <2>2, NumberInduction
<1>4. \A n \in 0 .. p - 1 : RowsUpto(u, c, n) = RowsUpto(s, c, n)
  BY <1>0, <1>3
<1>5. Nat \subseteq T
  <2>1. 0 \in T
    <3>1. p - 1 \in 0 .. p - 1 /\ p - 1 \in Nat /\ (p - 1) + 1 = p /\ (p - 1) + 0 = p - 1
      BY <1>0
    <3>2. RowsUpto(u, c, (p - 1) + 1) = RowsUpto(u, c, p - 1) + (IF u[(p - 1) + 1] = c THEN 1 ELSE 0)
      BY <1>1, <3>1
    <3>3. RowsUpto(u, c, (p - 1) + 1) = RowsUpto(s, c, p - 1) + (IF x = c THEN 1 ELSE 0)
      BY <1>0, <1>4, <3>1, <3>2
    <3> QED BY <3>1, <3>3
  <2>2. ASSUME NEW k \in Nat, k \in T PROVE k + 1 \in T
    <3> PICK n : n = (p - 1) + k
      OBVIOUS
    <3>0. n \in Nat /\ (p - 1) + (k + 1) = n + 1
      BY <1>0
    <3>1. CASE n + 1 <= Len(s)
      <4>1. n + 1 \in p .. Len(s) /\ n <= Len(s) /\ n + 1 \in Nat
        BY <1>0, <3>0, <3>1
      <4>2. u[(n + 1) + 1] = s[n + 1]
        BY <1>0, <4>1
      <4>3. RowsUpto(u, c, (n + 1) + 1) = RowsUpto(u, c, n + 1) + (IF s[n + 1] = c THEN 1 ELSE 0)
        BY <1>1, <4>1, <4>2
      <4>4. RowsUpto(u, c, n + 1) = RowsUpto(s, c, n) + (IF x = c THEN 1 ELSE 0)
        BY <2>2, <4>1
      <4>5. RowsUpto(u, c, (n + 1) + 1) = RowsUpto(s, c, n + 1) + (IF x = c THEN 1 ELSE 0)
        BY <1>1, <3>0, <4>3, <4>4
      <4> QED BY <3>0, <4>5
    <3> QED BY <3>0, <3>1
  <2> HIDE DEF T
  <2> QED BY <2>1, <2>2, NumberInduction
<1>6. ASSUME NEW n \in p - 1 .. Len(s)
      PROVE  RowsUpto(u, c, n + 1) = RowsUpto(s, c, n) + (IF x = c THEN 1 ELSE 0)
  <2>1. n - (p - 1) \in Nat /\ (p - 1) + (n - (p - 1)) = n /\ n <= Len(s)
    BY <1>0
  <2> QED BY <1>5, <2>1
<1> QED BY <1>4, <1>6

LEMMA PutInSeq ==
  ASSUME NEW u, NEW s, NEW p, NEW x, PutAt(u, s, p, x), NEW T
  PROVE  /\ s \in Seq(T) /\ x \in T => u \in Seq(T)
         /\ u \in Seq(T) => s \in Seq(T)
<1>0. /\ IsQueue(u) /\ IsQueue(s) /\ Len(s) \in Nat /\ p \in 1 .. Len(s) + 1 /\ Len(u) = Len(s) + 1
      /\ (\A i \in 1 .. p - 1 : u[i] = s[i]) /\ u[p] = x /\ \A i \in p .. Len(s) : u[i + 1] = s[i]
  BY DEF PutAt
<1>1. ASSUME NEW q, IsQueue(q), \A i \in 1 .. Len(q) : q[i] \in T PROVE q \in Seq(T)
  <2>1. PICK S : q \in Seq(S)
    BY <1>1 DEF IsQueue
  <2>2. Len(q) \in Nat /\ q = [i \in 1 .. Len(q) |-> q[i]]
    BY <2>1
  <2> PICK m : m = Len(q)
    OBVIOUS
  <2>3. m \in Nat /\ q = [i \in 1 .. m |-> q[i]] /\ \A i \in 1 .. m : q[i] \in T
    BY <1>1, <2>2
  <2> QED BY ONLY <2>3
<1>2. ASSUME s \in Seq(T), x \in T PROVE u \in Seq(T)
  <2>1. ASSUME NEW i \in 1 .. Len(u) PROVE u[i] \in T
    <3>1. CASE i < p
      <4>1. i \in 1 .. p - 1 /\ i \in 1 .. Len(s)
        BY <1>0, <3>1
      <4> QED BY <1>0, <1>2, <4>1
    <3>2. CASE i = p
      BY <1>0, <1>2, <3>2
    <3>3. CASE i > p
      <4>1. i - 1 \in p .. Len(s) /\ i - 1 \in 1 .. Len(s) /\ (i - 1) + 1 = i
        BY <1>0, <3>3
      <4>2. u[(i - 1) + 1] = s[i - 1] /\ s[i - 1] \in T
        BY <1>0, <1>2, <4>1
      <4> QED BY <4>1, <4>2
    <3> QED BY <1>0, <3>1, <3>2, <3>3
  <2> QED BY <1>0, <1>1, <2>1
<1>3. ASSUME u \in Seq(T) PROVE s \in Seq(T)
  <2>1. ASSUME NEW i \in 1 .. Len(s) PROVE s[i] \in T
    <3>1. CASE i < p
      <4>1. i \in 1 .. p - 1 /\ i \in 1 .. Len(u)
        BY <1>0, <3>1
      <4> QED BY <1>0, <1>3, <4>1
    <3>2. CASE i >= p
      <4>1. i \in p .. Len(s) /\ i + 1 \in 1 .. Len(u)
        BY <1>0, <3>2
      <4> QED BY <1>0, <1>3, <4>1
    <3> QED BY <1>0, <3>1, <3>2
  <2> QED BY <1>0, <1>1, <2>1
<1> QED BY <1>2, <1>3
=============================================================================
