--------------------------- MODULE SchedulingProofs ---------------------------
(***************************************************************************)
(* Proofs about the scheduler and its planner, for any clusters, kinds,     *)
(* preferences, hashes and pods.                                            *)
(*                                                                         *)
(* The planner hands out in three stages, minima, running pods and passes   *)
(* by weight.  Each stage is a fold over the clusters in their order, which *)
(* is shown to be a sequence of steps (a Trace) that keeps Balanced: plan   *)
(* and remainder add up to the total, within the limits, and no more is set *)
(* aside for a cluster than its plan.  Every step that modifies the plan    *)
(* adds to Settled, which the total bounds, and with it the passes.  Floor, *)
(* what runs within the limits, stays below the plan in every step.         *)
(*                                                                         *)
(* Scheduled is not inductive.  UpToDate says what holds between two rests: *)
(* when nothing is due that would prompt a reconciliation, either one is    *)
(* under way with the current view, or the right result is written.         *)
(*                                                                         *)
(* Induction is that of a least counterexample (WFMin), as sets: S = Nat.   *)
(***************************************************************************)
EXTENDS Scheduling, FiniteSetTheorems, WellFoundedInduction, NaturalsInduction, TLAPS

-----------------------------------------------------------------------------
(* Induction and folds                                                     *)

\* A set of natural numbers that holds 0 and with each number the next holds them all.
LEMMA SetInduction ==
  ASSUME NEW S, S \subseteq Nat, 0 \in S, \A n \in S : n + 1 \in S
  PROVE  S = Nat
<1>1. SUFFICES ASSUME Nat \ S # {} PROVE FALSE
  OBVIOUS
<1>2. PICK x \in Nat \ S : \A y \in Nat \ S : ~(<<y, x>> \in OpToRel(<, Nat))
  <2> DEFINE T == Nat \ S
  <2>1. T \subseteq Nat /\ T # {}
    BY <1>1
  <2>2. IsWellFoundedOn(OpToRel(<, Nat), Nat)
    BY NatLessThanWellFounded
  <2> HIDE DEF T
  <2>3. \E x \in T : \A y \in T : ~(<<y, x>> \in OpToRel(<, Nat))
    BY <2>1, <2>2, WFMin
  <2> QED BY <2>3 DEF T
<1>3. x \in Nat /\ x \notin S /\ x # 0
  OBVIOUS
<1>4. x - 1 \in Nat /\ (x - 1) + 1 = x
  BY <1>3
<1>5. x - 1 \in Nat \ S
  BY <1>3, <1>4
<1>6. <<x - 1, x>> \in OpToRel(<, Nat)
  BY <1>4 DEF OpToRel
<1> QED BY <1>2, <1>5, <1>6

\* it folds the parts of S: ch says which element comes last, g is the step.
IsFold(it, S, St, base, ch, g) ==
  /\ it \in [SUBSET S -> St]
  /\ \A s \in SUBSET S : it[s] = IF s = {} THEN base ELSE g[<<ch[s], it[s \ {ch[s]}]>>]

\* A fold over a finite set, which takes out one element after the other, is defined, and
\* its results stay in a set that the step does not leave.
LEMMA FoldExists ==
  ASSUME NEW S, IsFiniteSet(S), NEW St, NEW base \in St,
         NEW ch, \A s \in SUBSET S : s # {} => ch[s] \in s,
         NEW g \in [S \X St -> St]
  PROVE  \E it : IsFold(it, S, St, base, ch, g)
<1> DEFINE Le(n) == {s \in SUBSET S : Cardinality(s) <= n}
           Rule(it, s) == IF s = {} THEN base ELSE g[<<ch[s], it[s \ {ch[s]}]>>]
           P == {n \in Nat : \E it \in [Le(n) -> St] : \A s \in Le(n) : it[s] = Rule(it, s)}
<1>1. \A s \in SUBSET S : IsFiniteSet(s) /\ Cardinality(s) \in Nat
  BY FS_Subset, FS_CardinalityType
<1>2. 0 \in P
  <2> DEFINE it == [s \in Le(0) |-> base]
  <2>1. \A s \in Le(0) : s = {}
    BY <1>1, FS_EmptySet
  <2>2. it \in [Le(0) -> St] /\ \A s \in Le(0) : it[s] = Rule(it, s)
    BY <2>1
  <2> HIDE DEF it
  <2> QED BY <2>2
<1>3. ASSUME NEW n \in P PROVE n + 1 \in P
  <2>1. PICK it \in [Le(n) -> St] : \A s \in Le(n) : it[s] = Rule(it, s)
    OBVIOUS
  <2> DEFINE it2 == [s \in Le(n + 1) |-> Rule(it, s)]
  <2>2. ASSUME NEW s \in Le(n + 1), s # {}
        PROVE  s \ {ch[s]} \in Le(n) /\ ch[s] \in S
    <3>1. ch[s] \in s /\ s \in SUBSET S /\ Cardinality(s) <= n + 1
      BY <2>2
    <3>2. Cardinality(s \ {ch[s]}) = Cardinality(s) - 1
      BY <3>1, <1>1, FS_RemoveElement
    <3> QED BY <3>1, <3>2, <1>1
  <2>3. it2 \in [Le(n + 1) -> St]
    <3>1. ASSUME NEW s \in Le(n + 1) PROVE Rule(it, s) \in St
      BY <2>2
    <3> QED BY <3>1
  <2>4. Le(n) \subseteq Le(n + 1)
    BY <1>1
  <2>5. \A s \in Le(n) : it2[s] = it[s]
    BY <2>1, <2>4
  <2>6. ASSUME NEW s \in Le(n + 1) PROVE it2[s] = Rule(it2, s)
    BY <2>2, <2>5
  <2>7. n + 1 \in Nat
    OBVIOUS
  <2> HIDE DEF it2, Le, Rule
  <2>8. \E jt \in [Le(n + 1) -> St] : \A s \in Le(n + 1) : jt[s] = Rule(jt, s)
    BY <2>3, <2>6
  <2> QED BY <2>7, <2>8
<1>4. P = Nat
  <2> HIDE DEF P
  <2>1. P \subseteq Nat
    BY DEF P
  <2> QED BY <1>2, <1>3, <2>1, SetInduction
<1>5. Cardinality(S) \in P
  BY <1>4, FS_CardinalityType
<1>6. Le(Cardinality(S)) = SUBSET S
  BY <1>1, FS_Subset
<1> QED BY <1>5, <1>6 DEF IsFold


\* A collection of subsets of a finite set that holds the empty set and can be extended by
\* any element holds the set.
LEMMA FiniteInduction ==
  ASSUME NEW S, IsFiniteSet(S), NEW P, {} \in P,
         \A s \in SUBSET S : s \in P => \A x \in S \ s : s \cup {x} \in P
  PROVE  \A s \in SUBSET S : s \in P
<1> DEFINE N == {n \in Nat : \A s \in SUBSET S : Cardinality(s) = n => s \in P}
<1>1. \A s \in SUBSET S : IsFiniteSet(s) /\ Cardinality(s) \in Nat
  BY FS_Subset, FS_CardinalityType
<1>2. 0 \in N
  BY <1>1, FS_EmptySet
<1>3. ASSUME NEW n \in N PROVE n + 1 \in N
  <2>1. SUFFICES ASSUME NEW s \in SUBSET S, Cardinality(s) = n + 1 PROVE s \in P
    OBVIOUS
  <2>2. s # {}
    BY <1>1, <2>1, FS_EmptySet
  <2>3. PICK x \in s : TRUE
    BY <2>2
  <2>4. Cardinality(s \ {x}) = n /\ s \ {x} \in SUBSET S
    <3>1. Cardinality(s \ {x}) = Cardinality(s) - 1
      BY <1>1, <2>3, FS_RemoveElement
    <3> QED BY <2>1, <3>1
  <2>5. s \ {x} \in P /\ x \in S \ (s \ {x}) /\ (s \ {x}) \cup {x} = s
    BY <2>3, <2>4
  <2> QED BY <2>4, <2>5
<1>4. N = Nat
  <2> HIDE DEF N
  <2>1. N \subseteq Nat
    BY DEF N
  <2> QED BY <1>2, <1>3, <2>1, SetInduction
<1> QED BY <1>1, <1>4

-----------------------------------------------------------------------------
(* Sums                                                                    *)

\* it has the sum of f over each part of S.
IsSum(it, f, S) ==
  /\ it \in [SUBSET S -> Int]
  /\ it[{}] = 0
  /\ \A s \in SUBSET S : \A c \in s : it[s] = f[c] + it[s \ {c}]

\* SumFunction takes the elements in an order of its own; none of them matters.
LEMMA SumIs ==
  ASSUME NEW S, IsFiniteSet(S), NEW f \in [S -> Int]
  PROVE  \E it : IsSum(it, f, S) /\ SumFunction(f) = it[S]
<1> DEFINE ch == [s \in SUBSET S |-> CHOOSE x \in s : TRUE]
           g == [x \in S \X Int |-> f[x[1]] + x[2]]
           Rule(it) == [s \in SUBSET S |->
             IF s = {} THEN 0 ELSE f[CHOOSE x \in s : TRUE] + it[s \ {CHOOSE x \in s : TRUE}]]
           it == CHOOSE it : it = Rule(it)
<1>1. \A s \in SUBSET S : s # {} => ch[s] \in s
  OBVIOUS
<1>2. g \in [S \X Int -> Int]
  OBVIOUS
<1>3. PICK jt \in [SUBSET S -> Int] :
        \A s \in SUBSET S : jt[s] = IF s = {} THEN 0 ELSE g[<<ch[s], jt[s \ {ch[s]}]>>]
  <2> DEFINE St == Int
             base == 0
  <2>1. base \in St /\ g \in [S \X St -> St]
    BY <1>2
  <2> HIDE DEF ch, g, St, base, it, Rule
  <2>2. \E jt : IsFold(jt, S, St, base, ch, g)
    BY <1>1, <2>1, FoldExists
  <2> QED BY <2>2 DEF St, base, IsFold
<1>4. ASSUME NEW s \in SUBSET S
      PROVE  jt[s] = IF s = {} THEN 0 ELSE f[CHOOSE x \in s : TRUE] + jt[s \ {CHOOSE x \in s : TRUE}]
  <2>1. CASE s = {}
    BY <1>3, <2>1
  <2>2. CASE s # {}
    <3>1. ch[s] \in S /\ jt[s \ {ch[s]}] \in Int
      BY <1>1, <1>3, <2>2
    <3>2. g[<<ch[s], jt[s \ {ch[s]}]>>] = f[ch[s]] + jt[s \ {ch[s]}]
      <4> HIDE DEF ch
      <4> QED BY <3>1
    <3>3. jt[s] = g[<<ch[s], jt[s \ {ch[s]}]>>]
      <4> HIDE DEF ch, g
      <4> QED BY <1>3, <2>2
    <3>4. ch[s] = CHOOSE x \in s : TRUE
      OBVIOUS
    <3> HIDE DEF g, ch
    <3> QED BY <2>2, <3>2, <3>3, <3>4
  <2> QED BY <2>1, <2>2
<1>5. jt = Rule(jt)
  BY <1>3, <1>4
<1>6. it = Rule(it)
  BY <1>5
<1>7. SumFunction(f) = it[S]
  <2>1. DOMAIN f = S
    OBVIOUS
  <2> QED BY <2>1 DEF SumFunction, SumFunctionOnSet, FoldFunctionOnSet, MapThenFoldSet
<1> HIDE DEF it
<1>8. it[{}] = 0
  BY <1>6
<1>9. ASSUME NEW s \in SUBSET S, s # {} PROVE \E x \in s : it[s] = f[x] + it[s \ {x}]
  BY <1>6, <1>9
<1> DEFINE P == {s \in SUBSET S : it[s] \in Int /\ \A c \in s : it[s] = f[c] + it[s \ {c}]}
<1>10. ASSUME NEW n \in Nat, \A s \in SUBSET S : Cardinality(s) <= n => s \in P,
              NEW s \in SUBSET S, Cardinality(s) <= n + 1
       PROVE  s \in P
  <2>1. IsFiniteSet(s) /\ Cardinality(s) \in Nat
    BY FS_Subset, FS_CardinalityType
  <2>2. ASSUME NEW c \in s PROVE s \ {c} \in P /\ f[c] \in Int
    <3>1. Cardinality(s \ {c}) = Cardinality(s) - 1
      BY <2>1, FS_RemoveElement
    <3>2. s \ {c} \in SUBSET S /\ Cardinality(s \ {c}) <= n
      BY <1>10, <2>1, <3>1
    <3>3. s \ {c} \in P
      <4> HIDE DEF P
      <4> QED BY <1>10, <3>2
    <3> QED BY <3>3
  <2>3. CASE s = {}
    BY <1>8, <2>3
  <2>4. CASE s # {}
    <3>1. PICK x \in s : it[s] = f[x] + it[s \ {x}]
      BY <1>9, <2>4
    <3>2. it[s] \in Int
      <4>1. it[s \ {x}] \in Int /\ f[x] \in Int
        BY <2>2
      <4> QED BY <3>1, <4>1
    <3>3. ASSUME NEW c \in s, c # x PROVE it[s] = f[c] + it[s \ {c}]
      <4>1. it[s \ {x}] = f[c] + it[(s \ {x}) \ {c}]
        BY <2>2, <3>3
      <4>2. it[s \ {c}] = f[x] + it[(s \ {c}) \ {x}]
        BY <2>2, <3>3
      <4>3. (s \ {x}) \ {c} = (s \ {c}) \ {x}
        OBVIOUS
      <4>4. it[(s \ {c}) \ {x}] \in Int /\ f[x] \in Int /\ f[c] \in Int
        <5>1. (s \ {c}) \ {x} \in SUBSET S
          OBVIOUS
        <5>2. Cardinality((s \ {c}) \ {x}) <= n
          <6>1. Cardinality(s \ {c}) = Cardinality(s) - 1 /\ IsFiniteSet(s \ {c})
            BY <2>1, FS_RemoveElement
          <6>2. Cardinality((s \ {c}) \ {x}) = Cardinality(s \ {c}) - 1
            BY <6>1, <3>3, FS_RemoveElement
          <6> QED BY <6>1, <6>2, <1>10, <2>1
        <5> QED BY <5>1, <5>2, <1>10, <2>2
      <4> DEFINE r == it[(s \ {c}) \ {x}]
      <4>5. it[s] = f[x] + (f[c] + r) /\ it[s \ {c}] = f[x] + r /\ r \in Int
        BY <4>1, <4>2, <4>3, <4>4, <3>1
      <4> HIDE DEF r
      <4> QED BY <4>4, <4>5
    <3> QED BY <3>1, <3>2, <3>3
  <2> QED BY <2>3, <2>4
<1>11. \A s \in SUBSET S : s \in P
  <2> DEFINE N == {n \in Nat : \A s \in SUBSET S : Cardinality(s) <= n => s \in P}
  <2>1. 0 \in N
    <3>1. ASSUME NEW s \in SUBSET S, Cardinality(s) <= 0 PROVE s = {}
      <4>1. IsFiniteSet(s) /\ Cardinality(s) \in Nat
        BY FS_Subset, FS_CardinalityType
      <4> QED BY <3>1, <4>1, FS_EmptySet
    <3>2. {} \in P
      BY <1>8
    <3> HIDE DEF P
    <3> QED BY <3>1, <3>2
  <2>2. ASSUME NEW n \in N PROVE n + 1 \in N
    <3> HIDE DEF P
    <3> QED BY <1>10
  <2>3. N = Nat
    <3>1. N \subseteq Nat
      OBVIOUS
    <3> HIDE DEF N
    <3> QED BY <2>1, <2>2, <3>1, SetInduction
  <2>4. Cardinality(S) \in N
    BY <2>3, FS_CardinalityType
  <2> HIDE DEF P
  <2> QED BY <2>4, FS_Subset
<1>12. it \in [SUBSET S -> Int]
  <2>1. DOMAIN it = SUBSET S /\ it = [s \in DOMAIN it |-> it[s]]
    BY <1>6
  <2>2. \A s \in SUBSET S : it[s] \in Int
    BY <1>11
  <2> HIDE DEF P
  <2> QED BY <2>1, <2>2
<1> QED BY <1>7, <1>8, <1>11, <1>12 DEF IsSum

\* A sum over finitely many numbers is a number.
LEMMA SumType ==
  ASSUME NEW S, IsFiniteSet(S), NEW f \in [S -> Int]
  PROVE  SumFunction(f) \in Int
<1>1. PICK it : IsSum(it, f, S) /\ SumFunction(f) = it[S]
  BY SumIs
<1>2. S \in SUBSET S
  OBVIOUS
<1> QED BY <1>1, <1>2 DEF IsSum

\* A larger function has a larger sum.
LEMMA SumMonotone ==
  ASSUME NEW S, IsFiniteSet(S), NEW f \in [S -> Int], NEW g \in [S -> Int],
         \A x \in S : f[x] <= g[x]
  PROVE  SumFunction(f) <= SumFunction(g)
<1>1. PICK it : IsSum(it, f, S) /\ SumFunction(f) = it[S]
  BY SumIs
<1>2. PICK jt : IsSum(jt, g, S) /\ SumFunction(g) = jt[S]
  BY SumIs
<1> DEFINE P == {s \in SUBSET S : it[s] <= jt[s]}
<1>3. {} \in P
  BY <1>1, <1>2 DEF IsSum
<1>4. ASSUME NEW s \in SUBSET S, s \in P, NEW x \in S \ s PROVE s \cup {x} \in P
  <2>1. s \cup {x} \in SUBSET S /\ x \in s \cup {x} /\ (s \cup {x}) \ {x} = s
    OBVIOUS
  <2>2. it[s \cup {x}] = f[x] + it[s] /\ jt[s \cup {x}] = g[x] + jt[s]
    BY <1>1, <1>2, <2>1 DEF IsSum
  <2>3. it[s] \in Int /\ jt[s] \in Int /\ f[x] \in Int /\ g[x] \in Int /\ f[x] <= g[x] /\ it[s] <= jt[s]
    BY <1>1, <1>2, <1>4 DEF IsSum
  <2> QED BY <2>1, <2>2, <2>3
<1>5. S \in P
  <2> HIDE DEF P
  <2> QED BY <1>3, <1>4, FiniteInduction
<1> QED BY <1>1, <1>2, <1>5

\* One value changes.
LEMMA SumExcept ==
  ASSUME NEW S, IsFiniteSet(S), NEW f \in [S -> Int], NEW g \in [S -> Int],
         NEW c \in S, \A x \in S \ {c} : f[x] = g[x]
  PROVE  SumFunction(g) = SumFunction(f) + g[c] - f[c]
<1>1. PICK it : IsSum(it, f, S) /\ SumFunction(f) = it[S]
  BY SumIs
<1>2. PICK jt : IsSum(jt, g, S) /\ SumFunction(g) = jt[S]
  BY SumIs
<1> DEFINE P == {s \in SUBSET S : c \notin s => it[s] = jt[s]}
<1>3. {} \in P
  BY <1>1, <1>2 DEF IsSum
<1>4. ASSUME NEW s \in SUBSET S, s \in P, NEW x \in S \ s PROVE s \cup {x} \in P
  <2>1. s \cup {x} \in SUBSET S /\ x \in s \cup {x} /\ (s \cup {x}) \ {x} = s
    OBVIOUS
  <2>2. it[s \cup {x}] = f[x] + it[s] /\ jt[s \cup {x}] = g[x] + jt[s]
    <3>1. it[s \cup {x}] = f[x] + it[s]
      BY <1>1, <2>1 DEF IsSum
    <3>2. jt[s \cup {x}] = g[x] + jt[s]
      BY <1>2, <2>1 DEF IsSum
    <3> QED BY <3>1, <3>2
  <2> QED BY <1>4, <2>1, <2>2
<1>5. S \ {c} \in P
  <2> HIDE DEF P
  <2>1. S \ {c} \in SUBSET S
    OBVIOUS
  <2> QED BY <1>3, <1>4, <2>1, FiniteInduction
<1>6. S \in SUBSET S /\ S \ {c} \in SUBSET S
  OBVIOUS
<1>7. it[S] = f[c] + it[S \ {c}] /\ jt[S] = g[c] + jt[S \ {c}]
  BY <1>1, <1>2, <1>6 DEF IsSum
<1>8. it[S \ {c}] \in Int /\ f[c] \in Int /\ g[c] \in Int /\ it[S \ {c}] = jt[S \ {c}]
  BY <1>1, <1>5, <1>6 DEF IsSum
<1> QED BY <1>1, <1>2, <1>7, <1>8

\* What is zero need not be summed.
LEMMA SumRestrict ==
  ASSUME NEW S, IsFiniteSet(S), NEW f \in [S -> Int], NEW T \in SUBSET S,
         \A x \in S \ T : f[x] = 0
  PROVE  SumFunction(f) = SumFunction([x \in T |-> f[x]])
<1> DEFINE g == [x \in T |-> f[x]]
<1>0. g \in [T -> Int] /\ IsFiniteSet(T)
  BY FS_Subset
<1>1. PICK it : IsSum(it, f, S) /\ SumFunction(f) = it[S]
  BY SumIs
<1>2. PICK jt : IsSum(jt, g, T) /\ SumFunction(g) = jt[T]
  <2> HIDE DEF g
  <2> QED BY <1>0, SumIs
<1>a. \A x \in T : g[x] = f[x]
  OBVIOUS
<1> HIDE DEF g
<1> DEFINE P == {s \in SUBSET S : it[s] = jt[s \cap T]}
<1>3. {} \in P
  <2>1. {} \cap T = {}
    OBVIOUS
  <2> QED BY <1>1, <1>2, <2>1 DEF IsSum
<1>4. ASSUME NEW s \in SUBSET S, s \in P, NEW x \in S \ s PROVE s \cup {x} \in P
  <2>1. s \cup {x} \in SUBSET S /\ x \in s \cup {x} /\ (s \cup {x}) \ {x} = s
    OBVIOUS
  <2>2. it[s \cup {x}] = f[x] + it[s] /\ it[s] \in Int
    BY <1>1, <2>1 DEF IsSum
  <2>3. CASE x \in T
    <3>1. (s \cup {x}) \cap T \in SUBSET T /\ x \in (s \cup {x}) \cap T
          /\ ((s \cup {x}) \cap T) \ {x} = s \cap T
      BY <2>3
    <3>2. jt[(s \cup {x}) \cap T] = g[x] + jt[s \cap T]
      BY <1>2, <3>1 DEF IsSum
    <3> QED BY <1>4, <1>a, <2>1, <2>2, <2>3, <3>2
  <2>4. CASE x \notin T
    <3>1. (s \cup {x}) \cap T = s \cap T
      BY <2>4
    <3>2. f[x] = 0
      BY <2>4
    <3> QED BY <1>4, <2>1, <2>2, <3>1, <3>2
  <2> QED BY <2>3, <2>4
<1>5. S \in P
  <2> HIDE DEF P
  <2> QED BY <1>3, <1>4, FiniteInduction
<1>6. S \cap T = T
  OBVIOUS
<1>7. SumFunction(f) = SumFunction(g)
  BY <1>1, <1>2, <1>5, <1>6
<1> QED BY <1>7 DEF g

\* A sum of zeros is zero.
LEMMA SumZero ==
  ASSUME NEW S, IsFiniteSet(S), NEW f \in [S -> Int], \A x \in S : f[x] = 0
  PROVE  SumFunction(f) = 0
<1>1. PICK it : IsSum(it, f, S) /\ SumFunction(f) = it[S]
  BY SumIs
<1> DEFINE P == {s \in SUBSET S : it[s] = 0}
<1>3. {} \in P
  BY <1>1 DEF IsSum
<1>4. ASSUME NEW s \in SUBSET S, s \in P, NEW x \in S \ s PROVE s \cup {x} \in P
  <2>1. s \cup {x} \in SUBSET S /\ x \in s \cup {x} /\ (s \cup {x}) \ {x} = s
    OBVIOUS
  <2>2. it[s \cup {x}] = f[x] + it[s]
    BY <1>1, <2>1 DEF IsSum
  <2> QED BY <1>4, <2>1, <2>2
<1>5. S \in P
  <2> HIDE DEF P
  <2> QED BY <1>3, <1>4, FiniteInduction
<1> QED BY <1>1, <1>5

\* No value is more than the sum when none is negative.
LEMMA SumPart ==
  ASSUME NEW S, IsFiniteSet(S), NEW f \in [S -> Int], \A x \in S : f[x] >= 0, NEW c \in S
  PROVE  f[c] <= SumFunction(f) /\ SumFunction(f) >= 0
<1> DEFINE g == [x \in S |-> IF x = c THEN f[c] ELSE 0]
           z == [x \in S |-> 0]
<1>1. g \in [S -> Int] /\ z \in [S -> Int] /\ (\A x \in S : g[x] <= f[x]) /\ (\A x \in S : z[x] = 0)
  OBVIOUS
<1>2. (\A x \in S \ {c} : z[x] = g[x]) /\ g[c] = f[c] /\ z[c] = 0 /\ f[c] \in Int /\ f[c] >= 0
  OBVIOUS
<1> HIDE DEF g, z
<1>3. SumFunction(z) = 0
  BY <1>1, SumZero
<1>4. SumFunction(g) = SumFunction(z) + g[c] - z[c]
  BY <1>1, <1>2, SumExcept
<1>5. SumFunction(g) <= SumFunction(f) /\ SumFunction(f) \in Int
  BY <1>1, SumMonotone, SumType
<1> QED BY <1>2, <1>3, <1>4, <1>5

-----------------------------------------------------------------------------
(* The order of the clusters                                               *)

\* An input as the scheduler makes it.
InputOK(i) ==
  /\ i.total \in Nat /\ i.rebalance \in BOOLEAN
  /\ i.available \subseteq Clusters
  /\ \A c \in DOMAIN i.clusters : i.clusters[c] \in Preference
  /\ \A c \in DOMAIN i.current : i.current[c] \in Nat
  /\ \A c \in DOMAIN i.capacity : i.capacity[c] \in Int

\* The preferences of the available clusters are natural numbers, for finitely many of them.
LEMMA PreferenceType ==
  ASSUME NEW i, InputOK(i)
  PROVE  /\ Preferred(i) \subseteq i.available
         /\ i.available \subseteq Clusters
         /\ IsFiniteSet(i.available) /\ IsFiniteSet(Preferred(i))
         /\ \A c \in Preferred(i) : /\ PreferenceOf(i, c).weight \in Nat
                                    /\ PreferenceOf(i, c).minimum \in Nat
                                    /\ PreferenceOf(i, c).maxima \subseteq Nat
<1>1. Preferred(i) \subseteq i.available /\ i.available \subseteq Clusters
  BY DEF Preferred, InputOK
<1>2. IsFiniteSet(i.available) /\ IsFiniteSet(Preferred(i))
  BY <1>1, ClustersAssumption, FS_Subset
<1>3. ASSUME NEW c \in Preferred(i) PROVE PreferenceOf(i, c) \in Preference
  BY DEF Preferred, PreferenceOf, InputOK
<1>4. ASSUME NEW c \in Preferred(i)
      PROVE  /\ PreferenceOf(i, c).weight \in Nat
             /\ PreferenceOf(i, c).minimum \in Nat
             /\ PreferenceOf(i, c).maxima \subseteq Nat
  BY <1>3 DEF Preference
<1> QED BY <1>1, <1>2, <1>4

\* One of some clusters comes before none of the others.
LEMMA LastExists ==
  ASSUME NEW i, InputOK(i), NEW T \in SUBSET Preferred(i), T # {}
  PROVE  \E m \in T : \A y \in T : ~Before(i, m, y)
<1> DEFINE S == Preferred(i)
           P == {U \in SUBSET S : U = {} \/ \E m \in U : \A y \in U : ~Before(i, m, y)}
<1>1. {} \in P
  OBVIOUS
<1>2. \A a \in S : ~Before(i, a, a)
  BY PreferenceType, HashAssumption DEF Before
<1>3. \A a, b, c \in S : Before(i, a, b) /\ Before(i, b, c) => Before(i, a, c)
  <2>1. \A c \in S : PreferenceOf(i, c).weight \in Int /\ Hash[c] \in Int
    BY PreferenceType, HashAssumption
  <2> QED BY <2>1 DEF Before
<1>4. ASSUME NEW U \in SUBSET S, U \in P, NEW x \in S \ U PROVE U \cup {x} \in P
  <2>1. CASE U = {}
    BY <1>2, <2>1
  <2>2. CASE U # {}
    <3>1. PICK m \in U : \A y \in U : ~Before(i, m, y)
      BY <1>4, <2>2
    <3>2. CASE Before(i, m, x)
      <4>1. \A y \in U \cup {x} : ~Before(i, x, y)
        BY <1>2, <1>3, <3>1, <3>2
      <4> QED BY <4>1
    <3>3. CASE ~Before(i, m, x)
      BY <3>1, <3>3
    <3> QED BY <3>2, <3>3
  <2> QED BY <2>1, <2>2
<1>5. T \in P
  <2>1. IsFiniteSet(S)
    BY PreferenceType
  <2> HIDE DEF P, S
  <2>2. T \in SUBSET S
    BY DEF S
  <2> QED BY <1>1, <1>4, <2>1, <2>2, FiniteInduction
<1> QED BY <1>5

\* Clusters can be sorted.
LEMMA OrderExists ==
  ASSUME NEW i, InputOK(i)
  PROVE  \E o \in SetToSeqs(Preferred(i)) : \A j, k \in DOMAIN o : j < k => ~Before(i, o[k], o[j])
<1> DEFINE S == Preferred(i)
           Good(o, n, T) == /\ o \in [1 .. n -> T]
                            /\ \A j, k \in 1 .. n : j # k => o[j] # o[k]
                            /\ \A j, k \in 1 .. n : j < k => ~Before(i, o[k], o[j])
           N == {n \in Nat : \A T \in SUBSET S : Cardinality(T) = n => \E o : Good(o, n, T)}
<1>1. \A T \in SUBSET S : IsFiniteSet(T) /\ Cardinality(T) \in Nat
  BY PreferenceType, FS_Subset, FS_CardinalityType
<1>2. 0 \in N
  <2>1. ASSUME NEW T \in SUBSET S PROVE Good([n \in {} |-> 0], 0, T)
    <3>1. 1 .. 0 = {}
      OBVIOUS
    <3>2. [n \in {} |-> 0] \in [1 .. 0 -> T]
      BY <3>1
    <3> QED BY <3>1, <3>2
  <2> HIDE DEF Good
  <2> QED BY <2>1
<1>3. ASSUME NEW n \in N PROVE n + 1 \in N
  <2>1. SUFFICES ASSUME NEW T \in SUBSET S, Cardinality(T) = n + 1
                 PROVE  \E o : Good(o, n + 1, T)
    <3> HIDE DEF Good
    <3> QED OBVIOUS
  <2>2. T # {}
    BY <1>1, <2>1, FS_EmptySet
  <2>3. PICK m \in T : \A y \in T : ~Before(i, m, y)
    BY <2>2, LastExists
  <2>4. Cardinality(T \ {m}) = n
    <3>1. Cardinality(T \ {m}) = Cardinality(T) - 1
      BY <1>1, FS_RemoveElement
    <3> QED BY <2>1, <3>1
  <2>5. PICK o : Good(o, n, T \ {m})
    <3> HIDE DEF Good
    <3> QED BY <2>4
  <2> DEFINE p == [k \in 1 .. n + 1 |-> IF k = n + 1 THEN m ELSE o[k]]
  <2>6. \A k \in 1 .. n : p[k] = o[k] /\ o[k] \in T \ {m}
    BY <2>5
  <2>7. p[n + 1] = m /\ 1 .. n + 1 = (1 .. n) \cup {n + 1}
    OBVIOUS
  <2>8. p \in [1 .. n + 1 -> T]
    <3>1. \A k \in 1 .. n + 1 : (IF k = n + 1 THEN m ELSE o[k]) \in T
      BY <2>6, <2>7
    <3> QED BY <3>1
  <2> HIDE DEF p
  <2>9. ASSUME NEW j \in 1 .. n + 1, NEW k \in 1 .. n + 1
        PROVE  (j # k => p[j] # p[k]) /\ (j < k => ~Before(i, p[k], p[j]))
    <3>1. CASE j \in 1 .. n /\ k \in 1 .. n
      BY <2>5, <2>6, <3>1
    <3>2. CASE j \in 1 .. n /\ k = n + 1
      BY <2>3, <2>6, <2>7, <3>2
    <3>3. CASE j = n + 1
      BY <2>6, <2>7, <3>3
    <3> QED BY <3>1, <3>2, <3>3
  <2>10. Good(p, n + 1, T)
    BY <2>8, <2>9
  <2> HIDE DEF Good
  <2> QED BY <2>10
<1>4. N = Nat
  <2> HIDE DEF N
  <2>1. N \subseteq Nat
    BY DEF N
  <2> QED BY <1>2, <1>3, <2>1, SetInduction
<1>5. PICK o : Good(o, Cardinality(S), S)
  <2> HIDE DEF Good
  <2>1. Cardinality(S) \in N
    BY <1>1, <1>4
  <2> QED BY <2>1
<1>6. o \in SetToSeqs(S)
  BY <1>5 DEF SetToSeqs
<1>7. DOMAIN o = 1 .. Cardinality(S)
  BY <1>5
<1> QED BY <1>5, <1>6, <1>7

\* byWeight has every preferred cluster once.
LEMMA Order ==
  ASSUME NEW i, InputOK(i)
  PROVE  /\ byWeight(i) \in Seq(Preferred(i))
         /\ \A j, k \in 1 .. Len(byWeight(i)) : j # k => byWeight(i)[j] # byWeight(i)[k]
         /\ \A c \in Preferred(i) : \E k \in 1 .. Len(byWeight(i)) : byWeight(i)[k] = c
<1> DEFINE S == Preferred(i)
           o == byWeight(i)
           n == Cardinality(S)
<1>1. o \in SetToSeqs(S)
  BY OrderExists DEF byWeight
<1>2. IsFiniteSet(S) /\ n \in Nat
  BY PreferenceType, FS_CardinalityType
<1> HIDE DEF o, S
<1>3. o \in [1 .. n -> S] /\ \A j, k \in 1 .. n : j # k => o[j] # o[k]
  BY <1>1 DEF SetToSeqs
<1> HIDE DEF n
<1>4. o \in Seq(S) /\ Len(o) = n
  BY <1>2, <1>3
<1>5. o \in Injection(1 .. n, S)
  BY <1>3 DEF Injection, IsInjective
<1>6. Cardinality(1 .. n) = n
  BY <1>2, FS_Interval
<1>7. o \in Surjection(1 .. n, S)
  BY <1>2, <1>5, <1>6, FS_Injection DEF n
<1>8. \A c \in S : \E k \in 1 .. n : o[k] = c
  BY <1>7 DEF Surjection
<1> QED BY <1>3, <1>4, <1>8 DEF o, S

-----------------------------------------------------------------------------
(* The least of some numbers                                               *)

\* A set of numbers with a lower bound has a least one.
LEMMA MinIs ==
  ASSUME NEW S, S \subseteq Int, S # {}, NEW b \in Int, \A x \in S : b <= x
  PROVE  Min(S) \in S /\ Min(S) \in Int /\ \A y \in S : Min(S) <= y
<1> DEFINE N == {n \in Nat : \A x \in S : b + n <= x}
<1>1. 0 \in N
  OBVIOUS
<1>2. PICK a \in S : TRUE
  OBVIOUS
<1>3. N # Nat
  <2>1. a - b + 1 \in Nat /\ b + (a - b + 1) > a /\ a \in Int
    BY <1>2
  <2>2. a - b + 1 \notin N
    BY <1>2, <2>1
  <2> QED BY <2>1, <2>2
<1>4. PICK n \in N : n + 1 \notin N
  <2>1. N \subseteq Nat
    OBVIOUS
  <2> HIDE DEF N
  <2> QED BY <1>1, <1>3, <2>1, SetInduction
<1>5. PICK x \in S : ~(b + (n + 1) <= x)
  BY <1>4
<1>6. x \in S /\ \A y \in S : x <= y
  <2>1. n \in Nat /\ \A y \in S : b + n <= y
    BY <1>4
  <2> QED BY <1>5, <2>1
<1>7. Min(S) \in S /\ \A y \in S : Min(S) <= y
  BY <1>6 DEF Min
<1> QED BY <1>7

\* Natural numbers and three others have a least.
LEMMA MinFew ==
  ASSUME NEW a \in Int, NEW b \in Int, NEW k \in Int, NEW S, S # {}, S \subseteq Nat \cup {a, b, k}
  PROVE  Min(S) \in S /\ Min(S) \in Int /\ \A y \in S : Min(S) <= y
<1> DEFINE e == IF a <= b THEN a ELSE b
           f == IF e <= 0 THEN e ELSE 0
           d == IF f <= k THEN f ELSE k
<1>1. d \in Int /\ d <= a /\ d <= b /\ d <= 0 /\ d <= k
  OBVIOUS
<1> HIDE DEF d
<1>2. ASSUME NEW x \in S PROVE x \in Int /\ d <= x
  <2>1. x \in Nat \/ x = a \/ x = b \/ x = k
    OBVIOUS
  <2> QED BY <1>1, <2>1
<1> QED BY <1>1, <1>2, MinIs

\* A cluster has at most one capacity.
LEMMA CapacityType ==
  ASSUME NEW i, InputOK(i), NEW c
  PROVE  \E k \in Int : Capacity(i, c) \subseteq {k}
<1> DEFINE k == IF c \in DOMAIN i.capacity THEN i.capacity[c] ELSE 0
<1>1. k \in Int /\ Capacity(i, c) \subseteq {k}
  BY DEF Capacity, InputOK
<1> HIDE DEF k
<1> QED BY <1>1

\* The least of two.
LEMMA MinPair ==
  ASSUME NEW a \in Int, NEW b \in Int
  PROVE  Min({a, b}) = IF a <= b THEN a ELSE b
<1>1. \A x \in {a, b} : (IF a <= b THEN a ELSE b) <= x
  OBVIOUS
<1>2. Min({a, b}) \in {a, b} /\ \A y \in {a, b} : Min({a, b}) <= y
  BY <1>1 DEF Min
<1> QED BY <1>2

\* The greatest of two.
LEMMA MaxPair ==
  ASSUME NEW a \in Int, NEW b \in Int
  PROVE  Max({a, b}) = IF a >= b THEN a ELSE b
<1>1. \A x \in {a, b} : (IF a >= b THEN a ELSE b) >= x
  OBVIOUS
<1>2. Max({a, b}) \in {a, b} /\ \A y \in {a, b} : Max({a, b}) >= y
  BY <1>1 DEF Max
<1> QED BY <1>2

\* The last of the first n indices is n.
LEMMA MaxInterval ==
  ASSUME NEW n \in Nat, n # 0
  PROVE  Max(1 .. n) = n /\ (1 .. n) \ {n} = 1 .. (n - 1)
<1>1. n \in 1 .. n /\ \A y \in 1 .. n : n >= y
  OBVIOUS
<1>2. Max(1 .. n) \in 1 .. n /\ \A y \in 1 .. n : Max(1 .. n) >= y
  BY <1>1 DEF Max
<1> QED BY <1>1, <1>2

-----------------------------------------------------------------------------
(* Folds over sequences                                                    *)

\* Induction up to a number.
LEMMA UpTo ==
  ASSUME NEW N \in Nat, NEW P, 0 \in P, \A n \in 1 .. N : n - 1 \in P => n \in P
  PROVE  \A n \in 0 .. N : n \in P
<1> DEFINE Q == {n \in Nat : n <= N => n \in P}
<1>1. 0 \in Q
  OBVIOUS
<1>2. ASSUME NEW n \in Q PROVE n + 1 \in Q
  <2>1. SUFFICES ASSUME n + 1 <= N PROVE n + 1 \in P
    OBVIOUS
  <2>2. n + 1 \in 1 .. N /\ (n + 1) - 1 = n /\ n \in P
    BY <2>1
  <2> QED BY <2>2
<1>3. Q = Nat
  <2>1. Q \subseteq Nat
    OBVIOUS
  <2> HIDE DEF Q
  <2> QED BY <1>1, <1>2, <2>1, SetInduction
<1> QED BY <1>3

\* A set of the first numbers has a greatest one.
LEMMA MaxIn ==
  ASSUME NEW N \in Nat, NEW s \in SUBSET (1 .. N), s # {}
  PROVE  Max(s) \in s
<1> DEFINE S == {N - x : x \in s}
<1>0. \A x \in s : x \in Int /\ N - x \in Nat
  OBVIOUS
<1>1. S \subseteq Nat /\ S # {}
  BY <1>0
<1>2. Min(S) \in S /\ \A y \in S : Min(S) <= y
  <2> HIDE DEF S
  <2>1. 0 \in Int /\ S \subseteq Int /\ \A x \in S : 0 <= x
    BY <1>1
  <2> QED BY <1>1, <2>1, MinIs
<1>3. PICK x \in s : Min(S) = N - x
  BY <1>2
<1>4. \A y \in s : x >= y
  <2>1. SUFFICES ASSUME NEW y \in s PROVE x >= y
    OBVIOUS
  <2>2. N - y \in S
    OBVIOUS
  <2>3. N - x <= N - y
    BY <1>2, <1>3, <2>2
  <2> QED BY <2>3
<1> QED BY <1>4 DEF Max

\* it folds sets of indices, h is the step for an index and a value.
FoldsIndices(it, N, St, base, h) ==
  /\ it[{}] = base
  /\ \A s \in SUBSET (1 .. N) : s # {} /\ it[s \ {Max(s)}] \in St =>
       it[s] = h[<<Max(s), it[s \ {Max(s)}]>>]

\* f has the values after each of the indices.
PrefixesOf(f, it, N, St, base, h) ==
  /\ f \in [0 .. N -> St]
  /\ f[0] = base
  /\ \A n \in 1 .. N : f[n] = h[<<n, f[n - 1]>>]
  /\ it[1 .. N] = f[N]

\* A fold that takes the indices from the last to the first is defined.
LEMMA IndexFoldExists ==
  ASSUME NEW N \in Nat, NEW St, NEW base \in St, NEW h \in [(1 .. N) \X St -> St]
  PROVE  \E it : it \in [SUBSET (1 .. N) -> St] /\ FoldsIndices(it, N, St, base, h)
<1> DEFINE ch == [s \in SUBSET (1 .. N) |-> Max(s)]
           S == 1 .. N
<1>1. \A s \in SUBSET S : s # {} => ch[s] \in s
  BY MaxIn
<1>2. IsFiniteSet(S)
  BY FS_Interval
<1>3. \E it : IsFold(it, S, St, base, ch, h)
  <2> HIDE DEF ch, S
  <2>1. h \in [S \X St -> St]
    BY DEF S
  <2> QED BY <1>1, <1>2, <2>1, FoldExists
<1>4. PICK it : IsFold(it, S, St, base, ch, h)
  BY <1>3
<1>5. it \in [SUBSET S -> St] /\ it[{}] = base
  BY <1>4 DEF IsFold
<1>6. ASSUME NEW s \in SUBSET S, s # {} PROVE it[s] = h[<<Max(s), it[s \ {Max(s)}]>>]
  <2>1. ch[s] = Max(s)
    OBVIOUS
  <2>2. it[s] = h[<<ch[s], it[s \ {ch[s]}]>>]
    <3> HIDE DEF ch
    <3> QED BY <1>4, <1>6 DEF IsFold
  <2> HIDE DEF ch
  <2> QED BY <2>1, <2>2
<1> QED BY <1>5, <1>6 DEF FoldsIndices

\* Its value after each of the indices.
LEMMA IndexFoldPrefixes ==
  ASSUME NEW N \in Nat, NEW St, NEW base \in St, NEW h \in [(1 .. N) \X St -> St],
         NEW it, FoldsIndices(it, N, St, base, h)
  PROVE  \E f : PrefixesOf(f, it, N, St, base, h)
<1> DEFINE f == [n \in 0 .. N |-> it[1 .. n]]
           P == {n \in 0 .. N : it[1 .. n] \in St}
<1>1. 1 .. 0 = {}
  OBVIOUS
<1>2. 0 \in P
  BY <1>1 DEF FoldsIndices
<1>3. ASSUME NEW n \in 1 .. N
      PROVE  /\ 1 .. n \in SUBSET (1 .. N) /\ 1 .. n # {}
             /\ Max(1 .. n) = n /\ (1 .. n) \ {n} = 1 .. (n - 1)
  BY MaxInterval
<1>4. ASSUME NEW n \in 1 .. N, n - 1 \in P
      PROVE  n \in P /\ it[1 .. n] = h[<<n, it[1 .. (n - 1)]>>]
  <2>1. it[1 .. (n - 1)] \in St
    BY <1>4
  <2>2. it[1 .. n] = h[<<n, it[1 .. (n - 1)]>>]
    BY <1>3, <2>1 DEF FoldsIndices
  <2>3. h[<<n, it[1 .. (n - 1)]>>] \in St
    BY <2>1
  <2> QED BY <2>2, <2>3
<1>5. \A n \in 0 .. N : n \in P
  <2> HIDE DEF P
  <2> QED BY <1>2, <1>4, UpTo
<1>6. f \in [0 .. N -> St]
  BY <1>5
<1>7. ASSUME NEW n \in 1 .. N PROVE f[n] = h[<<n, f[n - 1]>>]
  <2>1. n - 1 \in 0 .. N /\ n \in 0 .. N
    OBVIOUS
  <2>2. it[1 .. n] = h[<<n, it[1 .. (n - 1)]>>]
    BY <1>4, <1>5, <2>1
  <2> QED BY <2>1, <2>2
<1>8. f[0] = base /\ f[N] = it[1 .. N]
  BY <1>1 DEF FoldsIndices
<1> HIDE DEF f
<1> QED BY <1>6, <1>7, <1>8 DEF PrefixesOf
-----------------------------------------------------------------------------
(* The steps of the planner                                                *)

PlanState(i) ==
  [plan : [i.available -> Int], preallocated : [i.available -> Int],
   overflow : [i.available -> Int], remaining : Int, left : Seq(Preferred(i)),
   modified : BOOLEAN, passes : Nat]

\* What a step reads.
LEMMA StateParts ==
  ASSUME NEW i, InputOK(i), NEW s \in PlanState(i), NEW c \in Preferred(i)
  PROVE  /\ c \in i.available
         /\ s.plan \in [i.available -> Int] /\ s.plan[c] \in Int
         /\ s.preallocated \in [i.available -> Int] /\ s.preallocated[c] \in Int
         /\ s.overflow \in [i.available -> Int] /\ s.overflow[c] \in Int
         /\ s.remaining \in Int /\ s.left \in Seq(Preferred(i))
         /\ s.modified \in BOOLEAN /\ s.passes \in Nat
  BY PreferenceType DEF PlanState

\* t follows s as a cluster gets its minimum.
MinimumStep(i, s, c, t) ==
  /\ t \in PlanState(i)
  /\ t.preallocated = s.preallocated /\ t.overflow = s.overflow /\ t.left = s.left
  /\ t.modified = s.modified /\ t.passes = s.passes
  /\ t.plan = [s.plan EXCEPT ![c] = t.plan[c]]
  /\ t.remaining = s.remaining - t.plan[c]
  /\ t.plan[c] <= PreferenceOf(i, c).minimum /\ t.plan[c] <= s.remaining
  /\ \A limit \in Capacity(i, c) : t.plan[c] <= limit
  /\ t.plan[c] \in {PreferenceOf(i, c).minimum, s.remaining} \cup Capacity(i, c)

\* Handing out a minimum is such a step.
LEMMA AssignMinimumDoes ==
  ASSUME NEW i, InputOK(i), NEW s \in PlanState(i), NEW c \in Preferred(i)
  PROVE  MinimumStep(i, s, c, AssignMinimum(i, s, c))
<1> DEFINE least == Min({PreferenceOf(i, c).minimum, s.remaining} \cup Capacity(i, c))
           t == AssignMinimum(i, s, c)
<1>1. least \in {PreferenceOf(i, c).minimum, s.remaining} \cup Capacity(i, c) /\ least \in Int
      /\ \A y \in {PreferenceOf(i, c).minimum, s.remaining} \cup Capacity(i, c) : least <= y
  <2>1. PICK k \in Int : Capacity(i, c) \subseteq {k}
    BY CapacityType
  <2> DEFINE S == {PreferenceOf(i, c).minimum, s.remaining} \cup Capacity(i, c)
             a == PreferenceOf(i, c).minimum
             b == s.remaining
  <2>2. a \in Int /\ b \in Int
    BY PreferenceType, StateParts
  <2>3. S # {} /\ S \subseteq Nat \cup {a, b, k}
    BY <2>1
  <2> HIDE DEF a, b, S
  <2>4. Min(S) \in S /\ Min(S) \in Int /\ \A y \in S : Min(S) <= y
    BY <2>2, <2>3, MinFew
  <2> QED BY <2>4 DEF S
<1>2. t = [s EXCEPT !.remaining = s.remaining - least, !.plan = [s.plan EXCEPT ![c] = least]]
  BY DEF AssignMinimum
<1> HIDE DEF least, t
<1>3. s.plan \in [i.available -> Int] /\ c \in i.available /\ s.remaining \in Int
  BY StateParts
<1>4. [s.plan EXCEPT ![c] = least] \in [i.available -> Int] /\ [s.plan EXCEPT ![c] = least][c] = least
      /\ s.remaining - least \in Int
  BY <1>1, <1>3
<1>5. t \in PlanState(i)
  BY <1>2, <1>4 DEF PlanState
<1>6. /\ t.preallocated = s.preallocated /\ t.overflow = s.overflow /\ t.left = s.left
      /\ t.modified = s.modified /\ t.passes = s.passes
      /\ t.plan = [s.plan EXCEPT ![c] = least] /\ t.remaining = s.remaining - least
  BY <1>2 DEF PlanState
<1>7. t.plan[c] = least
  BY <1>4, <1>6
<1> QED BY <1>1, <1>5, <1>6, <1>7 DEF t, MinimumStep

\* t follows s as a cluster keeps what runs in it.
PreallocateStep(i, s, c, t) ==
  LET extra == t.plan[c] - s.plan[c]
  IN  /\ t \in PlanState(i)
      /\ t.overflow = s.overflow /\ t.left = s.left
      /\ t.modified = s.modified /\ t.passes = s.passes
      /\ t.plan = [s.plan EXCEPT ![c] = t.plan[c]]
      /\ t.remaining = s.remaining - extra
      /\ t.preallocated = [s.preallocated EXCEPT ![c] = t.preallocated[c]]
      /\ extra >= 0 /\ (s.remaining >= 0 => extra <= s.remaining)
      /\ extra > 0 => /\ c \in DOMAIN i.current
                      /\ t.plan[c] <= i.current[c]
                      /\ \A limit \in Limits(i, c) : t.plan[c] <= limit
      /\ t.preallocated[c] = s.preallocated[c] \/ t.preallocated[c] = extra
      /\ extra > 0 => t.preallocated[c] = extra
      /\ ~i.rebalance /\ c \in DOMAIN i.current =>
           \/ t.plan[c] >= i.current[c]
           \/ \E limit \in Limits(i, c) : t.plan[c] >= limit
           \/ extra >= s.remaining

\* What is preallocated to a cluster.
LEMMA PreallocateDoes ==
  ASSUME NEW i, InputOK(i), NEW s \in PlanState(i), NEW c \in Preferred(i)
  PROVE  PreallocateStep(i, s, c, Preallocate(i, s, c))
<1> DEFINE target == Min({i.current[c]} \cup Limits(i, c))
           extra == Max({0, Min({target - s.plan[c], s.remaining})})
           t == Preallocate(i, s, c)
<1>1. s.plan \in [i.available -> Int] /\ c \in i.available /\ s.remaining \in Int /\ s.plan[c] \in Int
      /\ s.preallocated \in [i.available -> Int] /\ s.preallocated[c] \in Int
  BY StateParts
<1>2. CASE i.rebalance \/ c \notin DOMAIN i.current \/ i.current[c] <= s.plan[c]
  <2>1. t = s
    BY <1>2 DEF Preallocate
  <2>2. ~i.rebalance /\ c \in DOMAIN i.current => s.plan[c] >= i.current[c]
    BY <1>1, <1>2 DEF InputOK
  <2>3. s.plan = [s.plan EXCEPT ![c] = s.plan[c]] /\ s.preallocated = [s.preallocated EXCEPT ![c] = s.preallocated[c]]
    BY <1>1
  <2>4. s.plan[c] - s.plan[c] = 0 /\ s.remaining = s.remaining - 0
    BY <1>1
  <2> HIDE DEF t
  <2> QED BY <1>1, <2>1, <2>2, <2>3, <2>4 DEF t, PreallocateStep
<1>3. CASE ~(i.rebalance \/ c \notin DOMAIN i.current \/ i.current[c] <= s.plan[c])
  <2>0. c \in DOMAIN i.current /\ i.current[c] \in Nat
    BY <1>3 DEF InputOK
  <2>1. target \in {i.current[c]} \cup Limits(i, c) /\ target \in Int
        /\ \A y \in {i.current[c]} \cup Limits(i, c) : target <= y
    <3>1. PICK k \in Int : Capacity(i, c) \subseteq {k}
      BY CapacityType
    <3> DEFINE S == {i.current[c]} \cup Limits(i, c)
               a == i.current[c]
    <3>2. PreferenceOf(i, c).maxima \subseteq Nat
      BY PreferenceType
    <3>3. S # {} /\ S \subseteq Nat \cup {a, a, k} /\ a \in Int
      BY <3>1, <3>2, <2>0 DEF Limits
    <3> HIDE DEF S, a
    <3>4. Min(S) \in S /\ Min(S) \in Int /\ \A y \in S : Min(S) <= y
      BY <3>3, MinFew
    <3> QED BY <3>4 DEF S
  <2>2. t = [s EXCEPT !.remaining = s.remaining - extra,
                      !.preallocated = [s.preallocated EXCEPT ![c] = extra],
                      !.plan = [s.plan EXCEPT ![c] = s.plan[c] + extra]]
    BY <1>3 DEF Preallocate
  <2> HIDE DEF target, t
  <2>3. /\ extra \in Int /\ extra >= 0
        /\ s.remaining >= 0 => extra <= s.remaining
        /\ extra > 0 => s.plan[c] + extra <= target
        /\ s.plan[c] + extra >= target \/ extra >= s.remaining
    <3>1. target - s.plan[c] \in Int
      BY <1>1, <2>1
    <3>2. Min({target - s.plan[c], s.remaining}) =
            IF target - s.plan[c] <= s.remaining THEN target - s.plan[c] ELSE s.remaining
      BY <1>1, <3>1, MinPair
    <3> DEFINE m == Min({target - s.plan[c], s.remaining})
    <3>3. m \in Int
      BY <1>1, <3>1, <3>2
    <3>4. Max({0, m}) = IF 0 >= m THEN 0 ELSE m
      <4> HIDE DEF m
      <4> QED BY <3>3, MaxPair
    <3>5. extra = Max({0, m})
      OBVIOUS
    <3>6. m = IF target - s.plan[c] <= s.remaining THEN target - s.plan[c] ELSE s.remaining
      BY <3>2
    <3> HIDE DEF m, extra
    <3> QED BY <1>1, <2>1, <3>3, <3>4, <3>5, <3>6
  <2> HIDE DEF extra
  <2>4. /\ [s.plan EXCEPT ![c] = s.plan[c] + extra] \in [i.available -> Int]
        /\ [s.plan EXCEPT ![c] = s.plan[c] + extra][c] = s.plan[c] + extra
        /\ [s.preallocated EXCEPT ![c] = extra] \in [i.available -> Int]
        /\ [s.preallocated EXCEPT ![c] = extra][c] = extra
        /\ s.remaining - extra \in Int
    BY <1>1, <2>3
  <2>5. t \in PlanState(i)
    BY <2>2, <2>4 DEF PlanState
  <2>6. /\ t.overflow = s.overflow /\ t.left = s.left
        /\ t.modified = s.modified /\ t.passes = s.passes
        /\ t.plan = [s.plan EXCEPT ![c] = s.plan[c] + extra] /\ t.remaining = s.remaining - extra
        /\ t.preallocated = [s.preallocated EXCEPT ![c] = extra]
    BY <2>2 DEF PlanState
  <2>7. t.plan[c] = s.plan[c] + extra /\ t.preallocated[c] = extra /\ t.plan[c] - s.plan[c] = extra
    BY <1>1, <2>3, <2>4, <2>6
  <2>8. extra > 0 => t.plan[c] <= i.current[c] /\ \A limit \in Limits(i, c) : t.plan[c] <= limit
    <3>1. ASSUME extra > 0, NEW y \in {i.current[c]} \cup Limits(i, c) PROVE t.plan[c] <= y
      <4>1. y \in Int
        BY <2>0, PreferenceType, CapacityType DEF Limits
      <4>2. target <= y
        BY <2>1
      <4>3. t.plan[c] <= target /\ t.plan[c] \in Int
        BY <1>1, <2>3, <2>7, <3>1
      <4> QED BY <2>1, <4>1, <4>2, <4>3
    <3> QED BY <3>1
  <2>9. \/ t.plan[c] >= i.current[c]
        \/ \E limit \in Limits(i, c) : t.plan[c] >= limit
        \/ extra >= s.remaining
    BY <2>1, <2>3, <2>7
  <2> QED BY <2>0, <2>3, <2>5, <2>6, <2>7, <2>8, <2>9 DEF t, PreallocateStep
<1> QED BY <1>2, <1>3

\* A share is a natural number, and nobody with a weight gets nothing while something is left.
LEMMA ShareType ==
  ASSUME NEW due \in Nat, NEW weight \in Nat, NEW sum \in Nat \ {0}
  PROVE  Share(due, weight, sum) \in Nat /\ (due > 0 /\ weight > 0 => Share(due, weight, sum) >= 1)
<1> DEFINE p == due * weight
<1>1. p \in Nat /\ (due > 0 /\ weight > 0 => p >= 1)
  OBVIOUS
<1>2. Share(due, weight, sum) = (p + sum - 1) \div sum
  BY DEF Share
<1> HIDE DEF p
<1>3. p + sum - 1 \in Nat /\ (p >= 1 => p + sum - 1 >= sum)
  BY <1>1
<1> DEFINE q == p + sum - 1
<1>4. q \in Nat /\ (p >= 1 => q >= sum) /\ Share(due, weight, sum) = q \div sum
  BY <1>2, <1>3
<1> HIDE DEF q
<1>5. q \div sum \in Nat /\ (q >= sum => q \div sum >= 1)
  BY <1>4
<1> QED BY <1>1, <1>4, <1>5

\* t follows s as a cluster gets a share: extra is due to it, used of that is there already.
DistributeStep(i, due, s, c, t) ==
  /\ t \in PlanState(i)
  /\ t.passes = s.passes
  /\ t.plan = [s.plan EXCEPT ![c] = t.plan[c]]
  /\ t.preallocated = [s.preallocated EXCEPT ![c] = t.preallocated[c]]
  /\ t.remaining = s.remaining - (t.plan[c] - s.plan[c])
  /\ \A limit \in Limits(i, c) : t.plan[c] <= limit
  /\ \E extra, used \in Int :
       /\ extra <= s.remaining
       /\ extra >= 0 \/ extra = s.remaining
       /\ due > 0 /\ PreferenceOf(i, c).weight > 0 => extra >= 1 \/ extra = s.remaining
       /\ used <= extra /\ (used = extra \/ used = s.preallocated[c])
       /\ used <= s.preallocated[c]
       /\ t.preallocated[c] = s.preallocated[c] - used
       /\ t.plan[c] <= s.plan[c] + extra - used
       /\ t.plan[c] \in {s.plan[c] + extra - used} \cup Limits(i, c)
       /\ t.left = IF t.plan[c] < s.plan[c] + extra - used THEN s.left ELSE Append(s.left, c)
       /\ t.modified = (s.modified \/ used > 0 \/ t.plan[c] > s.plan[c])

\* One cluster in a pass: extra is due to it, used of that is there already.
LEMMA DistributeDoes ==
  ASSUME NEW i, InputOK(i), NEW s \in PlanState(i), NEW c \in Preferred(i),
         NEW due \in Nat, NEW sum \in Nat \ {0}
  PROVE  DistributeStep(i, due, s, c, Distribute(i, due, sum, s, c))
<1> DEFINE w == PreferenceOf(i, c).weight
           start == s.plan[c]
           rem == s.remaining
           pre == s.preallocated[c]
           share == Share(due, w, sum)
           extra == Min({share, rem})
           used == Min({extra, pre})
           x == start + extra - used
           upto == Min({x} \cup PreferenceOf(i, c).maxima)
           total == Min({upto} \cup Capacity(i, c))
           ov == IF total < upto THEN upto - total ELSE s.overflow[c]
           left == IF total < x THEN s.left ELSE Append(s.left, c)
           mod == s.modified \/ used > 0 \/ total > start
           t == Distribute(i, due, sum, s, c)
<1>1. /\ c \in i.available /\ w \in Nat /\ start \in Int /\ rem \in Int /\ pre \in Int
      /\ s.plan \in [i.available -> Int] /\ s.preallocated \in [i.available -> Int]
      /\ s.overflow \in [i.available -> Int] /\ s.overflow[c] \in Int
      /\ s.left \in Seq(Preferred(i)) /\ s.modified \in BOOLEAN
      /\ PreferenceOf(i, c).maxima \subseteq Nat
  BY StateParts, PreferenceType
<1>2. t = [s EXCEPT !.preallocated = [s.preallocated EXCEPT ![c] = s.preallocated[c] - used],
                    !.plan = [s.plan EXCEPT ![c] = total],
                    !.remaining = s.remaining - (total - start),
                    !.overflow = [s.overflow EXCEPT ![c] = ov],
                    !.left = left,
                    !.modified = mod]
  BY DEF Distribute
<1>3. share \in Nat /\ (due > 0 /\ w > 0 => share >= 1)
  BY <1>1, ShareType
<1> HIDE DEF share, t
<1>4. extra = IF share <= rem THEN share ELSE rem
  BY <1>1, <1>3, MinPair
<1> HIDE DEF extra
<1>5. extra \in Int /\ used = IF extra <= pre THEN extra ELSE pre
  <2>1. extra \in Int
    BY <1>1, <1>3, <1>4
  <2> QED BY <1>1, <2>1, MinPair
<1> HIDE DEF used
<1>6. used \in Int /\ x \in Int
  BY <1>1, <1>5
<1> HIDE DEF x
<1>7. upto \in {x} \cup PreferenceOf(i, c).maxima /\ upto \in Int
      /\ \A y \in {x} \cup PreferenceOf(i, c).maxima : upto <= y
  <2> DEFINE S == {x} \cup PreferenceOf(i, c).maxima
  <2>1. S # {} /\ S \subseteq Nat \cup {x, x, x}
    BY <1>1
  <2>2. upto = Min(S)
    OBVIOUS
  <2> HIDE DEF S, upto
  <2>3. Min(S) \in S /\ Min(S) \in Int /\ \A y \in S : Min(S) <= y
    BY <1>6, <2>1, MinFew
  <2> QED BY <2>2, <2>3 DEF S
<1> HIDE DEF upto
<1>8. total \in {upto} \cup Capacity(i, c) /\ total \in Int
      /\ \A y \in {upto} \cup Capacity(i, c) : total <= y
  <2>1. PICK k \in Int : Capacity(i, c) \subseteq {k}
    BY CapacityType
  <2> DEFINE S == {upto} \cup Capacity(i, c)
  <2>2. S # {} /\ S \subseteq Nat \cup {upto, upto, k}
    BY <2>1
  <2>3. total = Min(S)
    OBVIOUS
  <2> HIDE DEF S, total
  <2>4. Min(S) \in S /\ Min(S) \in Int /\ \A y \in S : Min(S) <= y
    BY <1>7, <2>1, <2>2, MinFew
  <2> QED BY <2>3, <2>4 DEF S
<1> HIDE DEF total
<1>9. total <= x /\ total \in {x} \cup Limits(i, c)
  <2>1. total <= upto /\ upto <= x
    BY <1>7, <1>8
  <2>2. total <= x
    BY <1>6, <1>7, <1>8, <2>1
  <2> QED BY <1>7, <1>8, <2>2 DEF Limits
<1>10. ASSUME NEW limit \in Limits(i, c) PROVE total <= limit
  <2>1. CASE limit \in Capacity(i, c)
    BY <1>8, <2>1
  <2>2. CASE limit \in PreferenceOf(i, c).maxima
    <3>1. upto <= limit /\ total <= upto /\ limit \in Int
      BY <1>1, <1>7, <1>8, <2>2
    <3> QED BY <1>7, <1>8, <3>1
  <2> QED BY <2>1, <2>2 DEF Limits
<1>11. ov \in Int /\ left \in Seq(Preferred(i)) /\ mod \in BOOLEAN
  BY <1>1, <1>7, <1>8
<1> HIDE DEF ov, left, mod
<1> DEFINE plan == [s.plan EXCEPT ![c] = total]
           prealloc == [s.preallocated EXCEPT ![c] = s.preallocated[c] - used]
           overflow == [s.overflow EXCEPT ![c] = ov]
<1>12. /\ plan \in [i.available -> Int] /\ plan[c] = total
       /\ prealloc \in [i.available -> Int] /\ prealloc[c] = pre - used
       /\ overflow \in [i.available -> Int]
       /\ rem - (total - start) \in Int
  BY <1>1, <1>6, <1>8, <1>11
<1>13. t \in PlanState(i)
  <2> HIDE DEF plan, prealloc, overflow
  <2>1. t = [s EXCEPT !.preallocated = prealloc, !.plan = plan, !.remaining = rem - (total - start),
                      !.overflow = overflow, !.left = left, !.modified = mod]
    BY <1>2 DEF plan, prealloc, overflow
  <2> HIDE DEF rem, start
  <2> QED BY <1>11, <1>12, <2>1 DEF PlanState
<1>14. /\ t.passes = s.passes /\ t.plan = plan /\ t.preallocated = prealloc
       /\ t.remaining = rem - (total - start) /\ t.left = left /\ t.modified = mod
  BY <1>2 DEF PlanState
<1>15. t.plan[c] = total /\ t.preallocated[c] = pre - used
  <2> HIDE DEF plan, prealloc
  <2> QED BY <1>12, <1>14
<1>16. /\ t.plan = [s.plan EXCEPT ![c] = t.plan[c]]
       /\ t.preallocated = [s.preallocated EXCEPT ![c] = t.preallocated[c]]
  BY <1>14, <1>15
<1>17. /\ extra <= rem
       /\ extra >= 0 \/ extra = rem
       /\ due > 0 /\ w > 0 => extra >= 1 \/ extra = rem
       /\ used <= extra /\ (used = extra \/ used = pre)
       /\ used <= pre
  BY <1>1, <1>3, <1>4, <1>5
<1>18. /\ left = IF total < start + extra - used THEN s.left ELSE Append(s.left, c)
       /\ mod = (s.modified \/ used > 0 \/ total > start)
       /\ x = start + extra - used
  BY DEF left, mod, x
<1> HIDE DEF plan, prealloc, overflow, start, rem, pre, w
<1>19. /\ t \in PlanState(i)
       /\ t.passes = s.passes
       /\ t.plan = [s.plan EXCEPT ![c] = t.plan[c]]
       /\ t.preallocated = [s.preallocated EXCEPT ![c] = t.preallocated[c]]
       /\ t.remaining = s.remaining - (t.plan[c] - s.plan[c])
       /\ \A limit \in Limits(i, c) : t.plan[c] <= limit
  BY <1>10, <1>13, <1>14, <1>15, <1>16 DEF start, rem
<1>20. \E e, u \in Int :
          /\ e <= rem
          /\ e >= 0 \/ e = rem
          /\ due > 0 /\ w > 0 => e >= 1 \/ e = rem
          /\ u <= e /\ (u = e \/ u = pre)
          /\ u <= pre
          /\ t.preallocated[c] = pre - u
          /\ t.plan[c] <= start + e - u
          /\ t.plan[c] \in {start + e - u} \cup Limits(i, c)
          /\ t.left = IF t.plan[c] < start + e - u THEN s.left ELSE Append(s.left, c)
          /\ t.modified = (s.modified \/ u > 0 \/ t.plan[c] > start)
  <2> extra \in Int /\ used \in Int
    BY <1>5, <1>6
  <2> WITNESS extra \in Int, used \in Int
  <2> QED BY <1>5, <1>6, <1>9, <1>14, <1>15, <1>17, <1>18
<1> QED BY <1>19, <1>20 DEF t, start, rem, pre, w, DistributeStep


\* The minima are assigned to one cluster after the other.
MinimaFrom(i, first, order) == FoldLeft(LAMBDA s, c : AssignMinimum(i, s, c), first, order)

MinimaTrace(i, first, order, f) ==
  /\ f \in [0 .. Len(order) -> PlanState(i)]
  /\ f[0] = first
  /\ \A n \in 1 .. Len(order) : f[n] = AssignMinimum(i, f[n - 1], order[n])
  /\ MinimaFrom(i, first, order) = f[Len(order)]

\* Handing out the minima goes through the clusters in their order.
LEMMA MinimaFold ==
  ASSUME NEW i, InputOK(i), NEW first \in PlanState(i), NEW order \in Seq(Preferred(i))
  PROVE  \E f : MinimaTrace(i, first, order, f)
<1> DEFINE N == Len(order)
           St == PlanState(i)
           h == [x \in (1 .. N) \X St |-> AssignMinimum(i, x[2], order[x[1]])]
           Rule(it) == [s \in SUBSET (DOMAIN order) |->
             IF s = {} THEN first ELSE AssignMinimum(i, it[s \ {Max(s)}], order[Max(s)])]
           it == CHOOSE it : it = Rule(it)
<1>1. N \in Nat /\ DOMAIN order = 1 .. N /\ \A n \in 1 .. N : order[n] \in Preferred(i)
  OBVIOUS
<1>2. ASSUME NEW n \in 1 .. N, NEW s \in St
      PROVE  AssignMinimum(i, s, order[n]) \in St /\ h[<<n, s>>] = AssignMinimum(i, s, order[n])
  <2>1. AssignMinimum(i, s, order[n]) \in St
    BY <1>1, AssignMinimumDoes DEF MinimumStep
  <2>2. <<n, s>> \in (1 .. N) \X St /\ <<n, s>>[1] = n /\ <<n, s>>[2] = s
    OBVIOUS
  <2> QED BY <2>1, <2>2
<1>3. h \in [(1 .. N) \X St -> St]
  <2>1. ASSUME NEW x \in (1 .. N) \X St PROVE AssignMinimum(i, x[2], order[x[1]]) \in St
    BY <1>2
  <2> QED BY <2>1
<1> HIDE DEF N, St, h
<1>4. PICK jt : jt \in [SUBSET (1 .. N) -> St] /\ FoldsIndices(jt, N, St, first, h)
  <2>1. first \in St
    BY DEF St
  <2> HIDE DEF it, Rule
  <2> QED BY <1>1, <1>3, <2>1, IndexFoldExists
<1>5. ASSUME NEW s \in SUBSET (1 .. N), s # {}
      PROVE  jt[s] = AssignMinimum(i, jt[s \ {Max(s)}], order[Max(s)])
  <2>1. Max(s) \in 1 .. N
    BY <1>1, <1>5, MaxIn
  <2>2. jt[s \ {Max(s)}] \in St
    BY <1>4
  <2>3. jt[s] = h[<<Max(s), jt[s \ {Max(s)}]>>]
    BY <1>4, <1>5, <2>2 DEF FoldsIndices
  <2> QED BY <1>2, <2>1, <2>2, <2>3
<1>6. jt = Rule(jt)
  <2>1. jt = [s \in SUBSET (1 .. N) |-> jt[s]]
    BY <1>4
  <2>2. \A s \in SUBSET (1 .. N) :
          jt[s] = IF s = {} THEN first ELSE AssignMinimum(i, jt[s \ {Max(s)}], order[Max(s)])
    BY <1>4, <1>5 DEF FoldsIndices
  <2> QED BY <1>1, <2>1, <2>2
<1>7. it = Rule(it)
  BY <1>6
<1>8. MinimaFrom(i, first, order) = it[DOMAIN order]
  BY DEF MinimaFrom, FoldLeft, MapThenFoldSet
<1> HIDE DEF it
<1>9. it[{}] = first
  BY <1>7
<1>10. ASSUME NEW s \in SUBSET (1 .. N), s # {}, it[s \ {Max(s)}] \in St
       PROVE  it[s] = h[<<Max(s), it[s \ {Max(s)}]>>]
  <2>1. Max(s) \in 1 .. N
    BY <1>1, <1>10, MaxIn
  <2>2. it[s] = AssignMinimum(i, it[s \ {Max(s)}], order[Max(s)])
    BY <1>1, <1>7, <1>10
  <2> QED BY <1>2, <1>10, <2>1, <2>2
<1>11. PICK f : PrefixesOf(f, it, N, St, first, h)
  <2>1. first \in St
    BY DEF St
  <2>2. FoldsIndices(it, N, St, first, h)
    BY <1>9, <1>10 DEF FoldsIndices
  <2> HIDE DEF Rule
  <2> QED BY <1>1, <1>3, <2>1, <2>2, IndexFoldPrefixes
<1>12. ASSUME NEW n \in 1 .. N PROVE f[n] = AssignMinimum(i, f[n - 1], order[n])
  <2>1. n - 1 \in 0 .. N
    BY <1>1
  <2>2. f[n - 1] \in St
    BY <1>11, <2>1 DEF PrefixesOf
  <2> QED BY <1>2, <1>11, <2>2 DEF PrefixesOf
<1> QED BY <1>1, <1>8, <1>11, <1>12 DEF N, St, PrefixesOf, MinimaTrace

\* So is what runs.
KeptFrom(i, first, order) == FoldLeft(LAMBDA s, c : Preallocate(i, s, c), first, order)

KeptTrace(i, first, order, f) ==
  /\ f \in [0 .. Len(order) -> PlanState(i)]
  /\ f[0] = first
  /\ \A n \in 1 .. Len(order) : f[n] = Preallocate(i, f[n - 1], order[n])
  /\ KeptFrom(i, first, order) = f[Len(order)]

\* So does handing out what runs.
LEMMA KeptFold ==
  ASSUME NEW i, InputOK(i), NEW first \in PlanState(i), NEW order \in Seq(Preferred(i))
  PROVE  \E f : KeptTrace(i, first, order, f)
<1> DEFINE N == Len(order)
           St == PlanState(i)
           h == [x \in (1 .. N) \X St |-> Preallocate(i, x[2], order[x[1]])]
           Rule(it) == [s \in SUBSET (DOMAIN order) |->
             IF s = {} THEN first ELSE Preallocate(i, it[s \ {Max(s)}], order[Max(s)])]
           it == CHOOSE it : it = Rule(it)
<1>1. N \in Nat /\ DOMAIN order = 1 .. N /\ \A n \in 1 .. N : order[n] \in Preferred(i)
  OBVIOUS
<1>2. ASSUME NEW n \in 1 .. N, NEW s \in St
      PROVE  Preallocate(i, s, order[n]) \in St /\ h[<<n, s>>] = Preallocate(i, s, order[n])
  <2>1. Preallocate(i, s, order[n]) \in St
    BY <1>1, PreallocateDoes DEF PreallocateStep
  <2>2. <<n, s>> \in (1 .. N) \X St /\ <<n, s>>[1] = n /\ <<n, s>>[2] = s
    OBVIOUS
  <2> QED BY <2>1, <2>2
<1>3. h \in [(1 .. N) \X St -> St]
  <2>1. ASSUME NEW x \in (1 .. N) \X St PROVE Preallocate(i, x[2], order[x[1]]) \in St
    BY <1>2
  <2> QED BY <2>1
<1> HIDE DEF N, St, h
<1>4. PICK jt : jt \in [SUBSET (1 .. N) -> St] /\ FoldsIndices(jt, N, St, first, h)
  <2>1. first \in St
    BY DEF St
  <2> HIDE DEF it, Rule
  <2> QED BY <1>1, <1>3, <2>1, IndexFoldExists
<1>5. ASSUME NEW s \in SUBSET (1 .. N), s # {}
      PROVE  jt[s] = Preallocate(i, jt[s \ {Max(s)}], order[Max(s)])
  <2>1. Max(s) \in 1 .. N
    BY <1>1, <1>5, MaxIn
  <2>2. jt[s \ {Max(s)}] \in St
    BY <1>4
  <2>3. jt[s] = h[<<Max(s), jt[s \ {Max(s)}]>>]
    BY <1>4, <1>5, <2>2 DEF FoldsIndices
  <2> QED BY <1>2, <2>1, <2>2, <2>3
<1>6. jt = Rule(jt)
  <2>1. jt = [s \in SUBSET (1 .. N) |-> jt[s]]
    BY <1>4
  <2>2. \A s \in SUBSET (1 .. N) :
          jt[s] = IF s = {} THEN first ELSE Preallocate(i, jt[s \ {Max(s)}], order[Max(s)])
    BY <1>4, <1>5 DEF FoldsIndices
  <2> QED BY <1>1, <2>1, <2>2
<1>7. it = Rule(it)
  BY <1>6
<1>8. KeptFrom(i, first, order) = it[DOMAIN order]
  BY DEF KeptFrom, FoldLeft, MapThenFoldSet
<1> HIDE DEF it
<1>9. it[{}] = first
  BY <1>7
<1>10. ASSUME NEW s \in SUBSET (1 .. N), s # {}, it[s \ {Max(s)}] \in St
       PROVE  it[s] = h[<<Max(s), it[s \ {Max(s)}]>>]
  <2>1. Max(s) \in 1 .. N
    BY <1>1, <1>10, MaxIn
  <2>2. it[s] = Preallocate(i, it[s \ {Max(s)}], order[Max(s)])
    BY <1>1, <1>7, <1>10
  <2> QED BY <1>2, <1>10, <2>1, <2>2
<1>11. PICK f : PrefixesOf(f, it, N, St, first, h)
  <2>1. first \in St
    BY DEF St
  <2>2. FoldsIndices(it, N, St, first, h)
    BY <1>9, <1>10 DEF FoldsIndices
  <2> HIDE DEF Rule
  <2> QED BY <1>1, <1>3, <2>1, <2>2, IndexFoldPrefixes
<1>12. ASSUME NEW n \in 1 .. N PROVE f[n] = Preallocate(i, f[n - 1], order[n])
  <2>1. n - 1 \in 0 .. N
    BY <1>1
  <2>2. f[n - 1] \in St
    BY <1>11, <2>1 DEF PrefixesOf
  <2> QED BY <1>2, <1>11, <2>2 DEF PrefixesOf
<1> QED BY <1>1, <1>8, <1>11, <1>12 DEF N, St, PrefixesOf, KeptTrace

\* So are the shares of a pass.
PassFrom(i, due, sum, first, order) == FoldLeft(LAMBDA s, c : Distribute(i, due, sum, s, c), first, order)

PassTrace(i, due, sum, first, order, f) ==
  /\ f \in [0 .. Len(order) -> PlanState(i)]
  /\ f[0] = first
  /\ \A n \in 1 .. Len(order) : f[n] = Distribute(i, due, sum, f[n - 1], order[n])
  /\ PassFrom(i, due, sum, first, order) = f[Len(order)]

\* So does a pass.
LEMMA PassFold ==
  ASSUME NEW i, InputOK(i), NEW first \in PlanState(i), NEW order \in Seq(Preferred(i)),
         NEW due \in Nat, NEW sum \in Nat \ {0}
  PROVE  \E f : PassTrace(i, due, sum, first, order, f)
<1> DEFINE N == Len(order)
           St == PlanState(i)
           h == [x \in (1 .. N) \X St |-> Distribute(i, due, sum, x[2], order[x[1]])]
           Rule(it) == [s \in SUBSET (DOMAIN order) |->
             IF s = {} THEN first ELSE Distribute(i, due, sum, it[s \ {Max(s)}], order[Max(s)])]
           it == CHOOSE it : it = Rule(it)
<1>1. N \in Nat /\ DOMAIN order = 1 .. N /\ \A n \in 1 .. N : order[n] \in Preferred(i)
  OBVIOUS
<1>2. ASSUME NEW n \in 1 .. N, NEW s \in St
      PROVE  Distribute(i, due, sum, s, order[n]) \in St /\ h[<<n, s>>] = Distribute(i, due, sum, s, order[n])
  <2>1. Distribute(i, due, sum, s, order[n]) \in St
    BY <1>1, DistributeDoes DEF DistributeStep
  <2>2. <<n, s>> \in (1 .. N) \X St /\ <<n, s>>[1] = n /\ <<n, s>>[2] = s
    OBVIOUS
  <2> QED BY <2>1, <2>2
<1>3. h \in [(1 .. N) \X St -> St]
  <2>1. ASSUME NEW x \in (1 .. N) \X St PROVE Distribute(i, due, sum, x[2], order[x[1]]) \in St
    BY <1>2
  <2> QED BY <2>1
<1> HIDE DEF N, St, h
<1>4. PICK jt : jt \in [SUBSET (1 .. N) -> St] /\ FoldsIndices(jt, N, St, first, h)
  <2>1. first \in St
    BY DEF St
  <2> HIDE DEF it, Rule
  <2> QED BY <1>1, <1>3, <2>1, IndexFoldExists
<1>5. ASSUME NEW s \in SUBSET (1 .. N), s # {}
      PROVE  jt[s] = Distribute(i, due, sum, jt[s \ {Max(s)}], order[Max(s)])
  <2>1. Max(s) \in 1 .. N
    BY <1>1, <1>5, MaxIn
  <2>2. jt[s \ {Max(s)}] \in St
    BY <1>4
  <2>3. jt[s] = h[<<Max(s), jt[s \ {Max(s)}]>>]
    BY <1>4, <1>5, <2>2 DEF FoldsIndices
  <2> QED BY <1>2, <2>1, <2>2, <2>3
<1>6. jt = Rule(jt)
  <2>1. jt = [s \in SUBSET (1 .. N) |-> jt[s]]
    BY <1>4
  <2>2. \A s \in SUBSET (1 .. N) :
          jt[s] = IF s = {} THEN first ELSE Distribute(i, due, sum, jt[s \ {Max(s)}], order[Max(s)])
    BY <1>4, <1>5 DEF FoldsIndices
  <2> QED BY <1>1, <2>1, <2>2
<1>7. it = Rule(it)
  BY <1>6
<1>8. PassFrom(i, due, sum, first, order) = it[DOMAIN order]
  BY DEF PassFrom, FoldLeft, MapThenFoldSet
<1> HIDE DEF it
<1>9. it[{}] = first
  BY <1>7
<1>10. ASSUME NEW s \in SUBSET (1 .. N), s # {}, it[s \ {Max(s)}] \in St
       PROVE  it[s] = h[<<Max(s), it[s \ {Max(s)}]>>]
  <2>1. Max(s) \in 1 .. N
    BY <1>1, <1>10, MaxIn
  <2>2. it[s] = Distribute(i, due, sum, it[s \ {Max(s)}], order[Max(s)])
    BY <1>1, <1>7, <1>10
  <2> QED BY <1>2, <1>10, <2>1, <2>2
<1>11. PICK f : PrefixesOf(f, it, N, St, first, h)
  <2>1. first \in St
    BY DEF St
  <2>2. FoldsIndices(it, N, St, first, h)
    BY <1>9, <1>10 DEF FoldsIndices
  <2> HIDE DEF Rule
  <2> QED BY <1>1, <1>3, <2>1, <2>2, IndexFoldPrefixes
<1>12. ASSUME NEW n \in 1 .. N PROVE f[n] = Distribute(i, due, sum, f[n - 1], order[n])
  <2>1. n - 1 \in 0 .. N
    BY <1>1
  <2>2. f[n - 1] \in St
    BY <1>11, <2>1 DEF PrefixesOf
  <2> QED BY <1>2, <1>11, <2>2 DEF PrefixesOf
<1> QED BY <1>1, <1>8, <1>11, <1>12 DEF N, St, PrefixesOf, PassTrace
-----------------------------------------------------------------------------
(* What every step of the planner keeps                                    *)

\* Nothing is handed out twice, no limit is exceeded, and what is preallocated is a part
\* of the plan.
Balanced(i, s) ==
  /\ s.remaining >= 0
  /\ SumFunction(s.plan) + s.remaining = i.total
  /\ \A c \in i.available : s.plan[c] >= 0 /\ s.preallocated[c] >= 0
  /\ \A c \in Preferred(i) :
       /\ Within(i, c, s.plan[c])
       /\ s.preallocated[c] <= s.plan[c]
       /\ s.preallocated[c] > 0 => \A limit \in Limits(i, c) : s.plan[c] <= limit

\* The limits are numbers, of a preference and of a capacity; what keeps to all of them is Within.
LEMMA LimitsType ==
  ASSUME NEW i, InputOK(i), NEW c \in Preferred(i)
  PROVE  /\ Limits(i, c) \subseteq Int
         /\ Capacity(i, c) \subseteq Limits(i, c) /\ PreferenceOf(i, c).maxima \subseteq Limits(i, c)
         /\ Readable(i) => \A limit \in Limits(i, c) : limit >= 0
         /\ \A v \in Int : (\A limit \in Limits(i, c) : v <= limit) => Within(i, c, v)
<1>1. PICK k \in Int : Capacity(i, c) \subseteq {k}
  BY CapacityType
<1>2. PreferenceOf(i, c).maxima \subseteq Nat /\ PreferenceOf(i, c).minimum \in Nat
  BY PreferenceType
<1>3. Limits(i, c) \subseteq Int
  BY <1>1, <1>2 DEF Limits
<1>4. Readable(i) => \A limit \in Limits(i, c) : limit >= 0
  BY <1>2 DEF Limits, Capacity, Readable
<1>5. ASSUME NEW v \in Int, \A limit \in Limits(i, c) : v <= limit PROVE Within(i, c, v)
  <2>1. ASSUME NEW limit \in PreferenceOf(i, c).maxima
        PROVE  v <= Max({limit, PreferenceOf(i, c).minimum})
    <3>1. Max({limit, PreferenceOf(i, c).minimum}) =
            IF limit >= PreferenceOf(i, c).minimum THEN limit ELSE PreferenceOf(i, c).minimum
      BY <1>2, MaxPair
    <3>2. v <= limit
      BY <1>5 DEF Limits
    <3> QED BY <1>2, <3>1, <3>2
  <2> QED BY <1>5, <2>1 DEF Limits, Within
<1> QED BY <1>3, <1>4, <1>5 DEF Limits

\* One cluster gets another number.
LEMMA StepBalanced ==
  ASSUME NEW i, InputOK(i), NEW s \in PlanState(i), NEW t \in PlanState(i), NEW c \in Preferred(i),
         Balanced(i, s),
         t.plan = [s.plan EXCEPT ![c] = t.plan[c]],
         t.preallocated = [s.preallocated EXCEPT ![c] = t.preallocated[c]],
         t.remaining = s.remaining - (t.plan[c] - s.plan[c]),
         t.plan[c] >= 0, t.plan[c] - s.plan[c] <= s.remaining,
         t.preallocated[c] >= 0, t.preallocated[c] <= t.plan[c],
         Within(i, c, t.plan[c]),
         t.preallocated[c] > 0 => \A limit \in Limits(i, c) : t.plan[c] <= limit
  PROVE  Balanced(i, t)
<1>1. /\ c \in i.available /\ IsFiniteSet(i.available) /\ Preferred(i) \subseteq i.available
      /\ s.plan \in [i.available -> Int] /\ s.plan[c] \in Int
      /\ t.plan \in [i.available -> Int] /\ t.plan[c] \in Int
      /\ s.preallocated \in [i.available -> Int] /\ s.remaining \in Int
  BY StateParts, PreferenceType
<1>2. \A d \in i.available \ {c} : t.plan[d] = s.plan[d] /\ t.preallocated[d] = s.preallocated[d]
  BY <1>1
<1>3. SumFunction(t.plan) = SumFunction(s.plan) + t.plan[c] - s.plan[c]
  BY <1>1, <1>2, SumExcept
<1>4. SumFunction(s.plan) \in Int /\ i.total \in Int
  BY <1>1, SumType DEF InputOK
<1>5. t.remaining >= 0 /\ SumFunction(t.plan) + t.remaining = i.total
  BY <1>1, <1>3, <1>4 DEF Balanced
<1>6. \A d \in i.available : t.plan[d] >= 0 /\ t.preallocated[d] >= 0
  BY <1>2 DEF Balanced
<1>7. ASSUME NEW d \in Preferred(i)
      PROVE  /\ Within(i, d, t.plan[d])
             /\ t.preallocated[d] <= t.plan[d]
             /\ t.preallocated[d] > 0 => \A limit \in Limits(i, d) : t.plan[d] <= limit
  <2>1. CASE d = c
    BY <2>1
  <2>2. CASE d # c
    BY <1>1, <1>2, <2>2 DEF Balanced
  <2> QED BY <2>1, <2>2
<1> QED BY <1>5, <1>6, <1>7 DEF Balanced

\* A minimum leaves the books in balance.
LEMMA AssignMinimumBalanced ==
  ASSUME NEW i, InputOK(i), Readable(i), NEW s \in PlanState(i), NEW c \in Preferred(i),
         Balanced(i, s), s.plan[c] = 0
  PROVE  Balanced(i, AssignMinimum(i, s, c))
<1> DEFINE t == AssignMinimum(i, s, c)
<1>1. /\ t \in PlanState(i)
      /\ t.preallocated = s.preallocated
      /\ t.plan = [s.plan EXCEPT ![c] = t.plan[c]]
      /\ t.remaining = s.remaining - t.plan[c]
      /\ t.plan[c] <= PreferenceOf(i, c).minimum /\ t.plan[c] <= s.remaining
      /\ \A limit \in Capacity(i, c) : t.plan[c] <= limit
      /\ t.plan[c] \in {PreferenceOf(i, c).minimum, s.remaining} \cup Capacity(i, c)
  BY AssignMinimumDoes DEF MinimumStep
<1> HIDE DEF t
<1>2. /\ PreferenceOf(i, c).minimum \in Nat /\ PreferenceOf(i, c).maxima \subseteq Nat
      /\ s.remaining \in Int /\ t.plan[c] \in Int /\ c \in i.available
      /\ s.preallocated \in [i.available -> Int] /\ s.preallocated[c] \in Int
  BY <1>1, PreferenceType, StateParts
<1>3. t.plan[c] >= 0
  <2>1. \A limit \in Capacity(i, c) : limit >= 0
    BY LimitsType
  <2> QED BY <1>1, <1>2, <2>1 DEF Balanced
<1>4. Within(i, c, t.plan[c])
  <2>1. ASSUME NEW limit \in PreferenceOf(i, c).maxima
        PROVE  t.plan[c] <= Max({limit, PreferenceOf(i, c).minimum})
    <3>1. Max({limit, PreferenceOf(i, c).minimum}) =
            IF limit >= PreferenceOf(i, c).minimum THEN limit ELSE PreferenceOf(i, c).minimum
      BY <1>2, MaxPair
    <3> QED BY <1>1, <1>2, <3>1
  <2> QED BY <1>1, <2>1 DEF Within
<1>5. t.preallocated[c] = 0
  <2>1. s.preallocated[c] <= 0 /\ s.preallocated[c] >= 0
    BY <1>2 DEF Balanced
  <2> QED BY <1>1, <1>2, <2>1
<1>6. t.preallocated = [s.preallocated EXCEPT ![c] = t.preallocated[c]]
  BY <1>1, <1>2
<1>7. /\ t.remaining = s.remaining - (t.plan[c] - s.plan[c])
      /\ t.plan[c] - s.plan[c] <= s.remaining
  BY <1>1, <1>2
<1>8. Balanced(i, t)
  BY <1>1, <1>3, <1>4, <1>5, <1>6, <1>7, StepBalanced
<1> QED BY <1>8 DEF t

\* What is set aside for the running pods leaves them in balance.
LEMMA PreallocateBalanced ==
  ASSUME NEW i, InputOK(i), NEW s \in PlanState(i), NEW c \in Preferred(i), Balanced(i, s)
  PROVE  Balanced(i, Preallocate(i, s, c))
<1> DEFINE t == Preallocate(i, s, c)
           extra == t.plan[c] - s.plan[c]
<1>1. /\ t \in PlanState(i)
      /\ t.plan = [s.plan EXCEPT ![c] = t.plan[c]]
      /\ t.remaining = s.remaining - extra
      /\ t.preallocated = [s.preallocated EXCEPT ![c] = t.preallocated[c]]
      /\ extra >= 0 /\ (s.remaining >= 0 => extra <= s.remaining)
      /\ extra > 0 => \A limit \in Limits(i, c) : t.plan[c] <= limit
      /\ t.preallocated[c] = s.preallocated[c] \/ t.preallocated[c] = extra
      /\ extra > 0 => t.preallocated[c] = extra
  BY PreallocateDoes DEF PreallocateStep
<1> HIDE DEF t
<1>2. /\ s.remaining \in Int /\ s.plan[c] \in Int /\ t.plan[c] \in Int /\ c \in i.available
      /\ s.preallocated[c] \in Int /\ t.preallocated[c] \in Int
  BY <1>1, StateParts
<1>3. /\ s.remaining >= 0 /\ s.plan[c] >= 0 /\ s.preallocated[c] >= 0
      /\ Within(i, c, s.plan[c]) /\ s.preallocated[c] <= s.plan[c]
      /\ s.preallocated[c] > 0 => \A limit \in Limits(i, c) : s.plan[c] <= limit
  BY <1>2 DEF Balanced
<1>4. t.plan[c] >= 0 /\ extra <= s.remaining /\ t.preallocated[c] >= 0 /\ t.preallocated[c] <= t.plan[c]
  BY <1>1, <1>2, <1>3
<1>5. CASE extra > 0
  <2>1. Within(i, c, t.plan[c])
    BY <1>1, <1>2, <1>5, LimitsType
  <2>2. Balanced(i, t)
    BY <1>1, <1>4, <1>5, <2>1, StepBalanced
  <2> QED BY <2>2 DEF t
<1>6. CASE extra = 0
  <2>1. t.plan[c] = s.plan[c]
    BY <1>2, <1>6
  <2>2. Within(i, c, t.plan[c])
    BY <1>3, <2>1
  <2>3. t.preallocated[c] > 0 => \A limit \in Limits(i, c) : t.plan[c] <= limit
    BY <1>1, <1>2, <1>3, <1>6, <2>1
  <2>4. Balanced(i, t)
    BY <1>1, <1>4, <2>2, <2>3, StepBalanced
  <2> QED BY <2>4 DEF t
<1> QED BY <1>1, <1>2, <1>5, <1>6

\* A share that is used moves from what is preallocated; the plan shrinks only where the
\* minimum has exceeded a limit.
LEMMA DistributeBalanced ==
  ASSUME NEW i, InputOK(i), Readable(i), NEW s \in PlanState(i), NEW c \in Preferred(i), Balanced(i, s),
         NEW due \in Nat, NEW sum \in Nat \ {0}
  PROVE  Balanced(i, Distribute(i, due, sum, s, c))
<1> DEFINE t == Distribute(i, due, sum, s, c)
<1>1. /\ t \in PlanState(i)
      /\ t.plan = [s.plan EXCEPT ![c] = t.plan[c]]
      /\ t.preallocated = [s.preallocated EXCEPT ![c] = t.preallocated[c]]
      /\ t.remaining = s.remaining - (t.plan[c] - s.plan[c])
      /\ \A limit \in Limits(i, c) : t.plan[c] <= limit
  BY DistributeDoes DEF DistributeStep
<1>2. PICK extra \in Int, used \in Int :
        /\ extra <= s.remaining
        /\ extra >= 0 \/ extra = s.remaining
        /\ used <= extra /\ (used = extra \/ used = s.preallocated[c])
        /\ used <= s.preallocated[c]
        /\ t.preallocated[c] = s.preallocated[c] - used
        /\ t.plan[c] <= s.plan[c] + extra - used
        /\ t.plan[c] \in {s.plan[c] + extra - used} \cup Limits(i, c)
  BY DistributeDoes DEF DistributeStep
<1> HIDE DEF t
<1>3. /\ s.remaining \in Int /\ s.plan[c] \in Int /\ t.plan[c] \in Int /\ c \in i.available
      /\ s.preallocated[c] \in Int /\ t.preallocated[c] \in Int
  BY <1>1, StateParts
<1>4. /\ s.remaining >= 0 /\ s.plan[c] >= 0 /\ s.preallocated[c] >= 0
      /\ s.preallocated[c] <= s.plan[c]
      /\ s.preallocated[c] > 0 => \A limit \in Limits(i, c) : s.plan[c] <= limit
  BY <1>3 DEF Balanced
<1>5. extra >= 0 /\ used >= 0
  BY <1>2, <1>3, <1>4
<1>6. Limits(i, c) \subseteq Int /\ (\A limit \in Limits(i, c) : limit >= 0) /\ Within(i, c, t.plan[c])
  BY <1>1, <1>3, LimitsType
<1>7. t.plan[c] >= 0
  BY <1>2, <1>3, <1>4, <1>5, <1>6
<1>8. t.plan[c] - s.plan[c] <= s.remaining /\ t.preallocated[c] >= 0
  BY <1>2, <1>3, <1>4, <1>5
<1>9. t.preallocated[c] <= t.plan[c]
  <2>1. CASE t.plan[c] = s.plan[c] + extra - used
    BY <1>2, <1>3, <1>4, <1>5, <2>1
  <2>2. CASE t.plan[c] \in Limits(i, c) /\ s.preallocated[c] > 0
    <3>1. s.plan[c] <= t.plan[c]
      BY <1>4, <2>2
    <3> QED BY <1>2, <1>3, <1>4, <1>5, <3>1
  <2>3. CASE s.preallocated[c] = 0
    BY <1>2, <1>3, <1>5, <1>7, <2>3
  <2> QED BY <1>2, <1>3, <1>4, <2>1, <2>2, <2>3
<1>10. Balanced(i, t)
  BY <1>1, <1>6, <1>7, <1>8, <1>9, StepBalanced
<1> QED BY <1>10 DEF t

-----------------------------------------------------------------------------
(* The minima and what runs                                                *)

Empty(i) ==
  LET zero == [c \in i.available |-> 0]
  IN  [plan |-> zero, preallocated |-> zero, overflow |-> zero, remaining |-> i.total,
       left |-> byWeight(i), modified |-> TRUE, passes |-> 0]
Minima(i) == MinimaFrom(i, Empty(i), byWeight(i))
Started(i) == KeptFrom(i, Minima(i), byWeight(i))

\* As the passes begin.
Begins(i, s) == s.left = byWeight(i) /\ s.modified = TRUE /\ s.passes = 0

\* The plan begins with nothing handed out.
LEMMA EmptyOK ==
  ASSUME NEW i, InputOK(i)
  PROVE  /\ Empty(i) \in PlanState(i) /\ Begins(i, Empty(i))
         /\ \A c \in i.available : Empty(i).plan[c] = 0
         /\ Readable(i) => Balanced(i, Empty(i))
<1>1. /\ byWeight(i) \in Seq(Preferred(i)) /\ i.total \in Nat
      /\ IsFiniteSet(i.available) /\ Preferred(i) \subseteq i.available
  BY Order, PreferenceType DEF InputOK
<1> DEFINE zero == [c \in i.available |-> 0]
<1>2. zero \in [i.available -> Int] /\ \A c \in i.available : zero[c] = 0
  OBVIOUS
<1> HIDE DEF zero
<1>3. Empty(i) = [plan |-> zero, preallocated |-> zero, overflow |-> zero, remaining |-> i.total,
                  left |-> byWeight(i), modified |-> TRUE, passes |-> 0]
  BY DEF Empty, zero
<1>4. Empty(i) \in PlanState(i)
  BY <1>1, <1>2, <1>3 DEF PlanState
<1>5. Empty(i).plan = zero /\ Empty(i).preallocated = zero /\ Empty(i).remaining = i.total
      /\ Begins(i, Empty(i))
  BY <1>3 DEF Begins
<1>6. SumFunction(zero) = 0
  BY <1>1, <1>2, SumZero
<1>7. ASSUME Readable(i), NEW c \in Preferred(i) PROVE \A limit \in Limits(i, c) : 0 <= limit
  <2>1. Limits(i, c) \subseteq Int /\ \A limit \in Limits(i, c) : limit >= 0
    BY <1>7, LimitsType
  <2> QED BY <2>1
<1>8. ASSUME Readable(i) PROVE Balanced(i, Empty(i))
  <2>1. \A c \in Preferred(i) : Within(i, c, zero[c])
    BY <1>1, <1>2, <1>7, <1>8, LimitsType
  <2> QED BY <1>1, <1>2, <1>5, <1>6, <2>1 DEF Balanced
<1> QED BY <1>2, <1>4, <1>5, <1>8

\* After the minima it is in balance.
LEMMA MinimaOK ==
  ASSUME NEW i, InputOK(i)
  PROVE  /\ Minima(i) \in PlanState(i) /\ Begins(i, Minima(i))
         /\ Readable(i) => Balanced(i, Minima(i))
<1> DEFINE order == byWeight(i)
           N == Len(order)
<1>1. /\ order \in Seq(Preferred(i)) /\ N \in Nat
      /\ \A k \in 1 .. N : order[k] \in Preferred(i)
      /\ \A j, k \in 1 .. N : j # k => order[j] # order[k]
  BY Order
<1>2. PICK f \in [0 .. N -> PlanState(i)] :
        /\ f[0] = Empty(i)
        /\ \A n \in 1 .. N : f[n] = AssignMinimum(i, f[n - 1], order[n])
        /\ Minima(i) = f[N]
  <2>1. Empty(i) \in PlanState(i)
    BY EmptyOK
  <2>2. \E f : MinimaTrace(i, Empty(i), order, f)
    BY <1>1, <2>1, MinimaFold
  <2> QED BY <2>2 DEF Minima, MinimaTrace
<1> HIDE DEF order, N
<1> DEFINE P == {n \in 0 .. N : /\ Begins(i, f[n])
                                /\ \A k \in 1 .. N : k > n => f[n].plan[order[k]] = 0
                                /\ Readable(i) => Balanced(i, f[n])}
<1>3. 0 \in P
  <2>1. \A k \in 1 .. N : order[k] \in i.available
    BY <1>1, PreferenceType
  <2> QED BY <1>1, <1>2, <2>1, EmptyOK
<1>4. ASSUME NEW n \in 1 .. N, n - 1 \in P PROVE n \in P
  <2> DEFINE s == f[n - 1]
             c == order[n]
             t == f[n]
  <2>1. s \in PlanState(i) /\ c \in Preferred(i) /\ t = AssignMinimum(i, s, c) /\ n \in 0 .. N
        /\ n - 1 \in 0 .. N
    BY <1>1, <1>2
  <2>2. /\ Begins(i, s)
        /\ \A k \in 1 .. N : k > n - 1 => s.plan[order[k]] = 0
        /\ Readable(i) => Balanced(i, s)
    BY <1>4
  <2> HIDE DEF s, t, c
  <2>3. /\ t.left = s.left /\ t.modified = s.modified /\ t.passes = s.passes
        /\ t.plan = [s.plan EXCEPT ![c] = t.plan[c]]
    <3>1. MinimumStep(i, s, c, t)
      BY <2>1, AssignMinimumDoes
    <3> QED BY <3>1 DEF MinimumStep
  <2>4. Begins(i, t)
    BY <2>2, <2>3 DEF Begins
  <2>5. ASSUME NEW k \in 1 .. N, k > n PROVE t.plan[order[k]] = 0
    <3>1. order[k] # c /\ k > n - 1 /\ order[k] \in i.available /\ s.plan \in [i.available -> Int]
      <4>1. order[k] # c /\ k > n - 1 /\ order[k] \in Preferred(i)
        BY <1>1, <2>5 DEF c
      <4> QED BY <2>1, <4>1, PreferenceType, StateParts
    <3> QED BY <2>2, <2>3, <3>1
  <2>6. Readable(i) => Balanced(i, t)
    <3>1. s.plan[c] = 0
      BY <2>2, <1>1 DEF c
    <3> QED BY <2>1, <2>2, <3>1, AssignMinimumBalanced
  <2> QED BY <2>1, <2>4, <2>5, <2>6 DEF t
<1>5. N \in P
  <2> HIDE DEF P
  <2>1. N \in 0 .. N
    BY <1>1
  <2> QED BY <1>1, <1>3, <1>4, <2>1, UpTo
<1>6. f[N] \in PlanState(i)
  BY <1>1, <1>2
<1> QED BY <1>2, <1>5, <1>6

\* After the running pods too.
LEMMA StartedOK ==
  ASSUME NEW i, InputOK(i)
  PROVE  /\ Started(i) \in PlanState(i) /\ Begins(i, Started(i))
         /\ Readable(i) => Balanced(i, Started(i))
<1> DEFINE order == byWeight(i)
           N == Len(order)
<1>1. order \in Seq(Preferred(i)) /\ N \in Nat /\ \A k \in 1 .. N : order[k] \in Preferred(i)
  BY Order
<1>2. PICK f \in [0 .. N -> PlanState(i)] :
        /\ f[0] = Minima(i)
        /\ \A n \in 1 .. N : f[n] = Preallocate(i, f[n - 1], order[n])
        /\ Started(i) = f[N]
  <2>1. Minima(i) \in PlanState(i)
    BY MinimaOK
  <2>2. \E f : KeptTrace(i, Minima(i), order, f)
    BY <1>1, <2>1, KeptFold
  <2> QED BY <2>2 DEF Started, KeptTrace
<1> HIDE DEF order, N
<1> DEFINE P == {n \in 0 .. N : Begins(i, f[n]) /\ (Readable(i) => Balanced(i, f[n]))}
<1>3. 0 \in P
  BY <1>1, <1>2, MinimaOK
<1>4. ASSUME NEW n \in 1 .. N, n - 1 \in P PROVE n \in P
  <2> DEFINE s == f[n - 1]
             c == order[n]
             t == f[n]
  <2>1. s \in PlanState(i) /\ c \in Preferred(i) /\ t = Preallocate(i, s, c) /\ n \in 0 .. N
    BY <1>1, <1>2
  <2>2. Begins(i, s) /\ (Readable(i) => Balanced(i, s))
    BY <1>4
  <2> HIDE DEF s, t, c
  <2>3. t.left = s.left /\ t.modified = s.modified /\ t.passes = s.passes
    <3>1. PreallocateStep(i, s, c, t)
      BY <2>1, PreallocateDoes
    <3> QED BY <3>1 DEF PreallocateStep
  <2>4. Begins(i, t) /\ (Readable(i) => Balanced(i, t))
    BY <2>1, <2>2, <2>3, PreallocateBalanced DEF Begins
  <2> QED BY <2>1, <2>4 DEF t
<1>5. N \in P
  <2> HIDE DEF P
  <2>1. N \in 0 .. N
    BY <1>1
  <2> QED BY <1>1, <1>3, <1>4, <2>1, UpTo
<1>6. f[N] \in PlanState(i)
  BY <1>1, <1>2
<1> QED BY <1>2, <1>5, <1>6

-----------------------------------------------------------------------------
(* The passes                                                              *)

\* What a cluster may have of v, and what is settled: each pass that changes anything
\* settles at least one replica more, and not more than all of them can be settled.
Capped(i, c, v) == Min({v} \cup Limits(i, c))
SettledAt(i, s) ==
  [c \in i.available |->
     IF c \in Preferred(i) THEN Capped(i, c, s.plan[c]) - s.preallocated[c] ELSE 0]
Settled(i, s) == SumFunction(SettledAt(i, s))

\* Capped keeps to every limit, and takes away no more than they ask for.
LEMMA CappedIs ==
  ASSUME NEW i, InputOK(i), NEW c \in Preferred(i), NEW v \in Int
  PROVE  /\ Capped(i, c, v) \in Int /\ Capped(i, c, v) <= v
         /\ \A limit \in Limits(i, c) : Capped(i, c, v) <= limit
         /\ Capped(i, c, v) \in {v} \cup Limits(i, c)
<1>1. PICK k \in Int : Capacity(i, c) \subseteq {k}
  BY CapacityType
<1>2. PreferenceOf(i, c).maxima \subseteq Nat
  BY PreferenceType
<1> DEFINE S == {v} \cup Limits(i, c)
<1>3. S # {} /\ S \subseteq Nat \cup {v, v, k}
  BY <1>1, <1>2 DEF Limits
<1> HIDE DEF S
<1>4. Min(S) \in S /\ Min(S) \in Int /\ \A y \in S : Min(S) <= y
  BY <1>3, MinFew
<1> QED BY <1>4 DEF S, Capped

\* Before and after a limit is applied.
LEMMA CappedMonotone ==
  ASSUME NEW i, InputOK(i), NEW c \in Preferred(i), NEW v \in Int, NEW w \in Int, v <= w
  PROVE  Capped(i, c, v) <= Capped(i, c, w)
<1>1. /\ Capped(i, c, v) \in Int /\ Capped(i, c, w) \in Int /\ Capped(i, c, v) <= v
      /\ \A limit \in Limits(i, c) : Capped(i, c, v) <= limit
      /\ Capped(i, c, w) \in {w} \cup Limits(i, c)
  BY CappedIs
<1>2. CASE Capped(i, c, w) = w
  BY <1>1, <1>2
<1>3. CASE Capped(i, c, w) \in Limits(i, c)
  BY <1>1, <1>3
<1> QED BY <1>1, <1>2, <1>3

\* What is settled is a number.
LEMMA SettledType ==
  ASSUME NEW i, InputOK(i), NEW s \in PlanState(i)
  PROVE  SettledAt(i, s) \in [i.available -> Int] /\ Settled(i, s) \in Int
<1>1. ASSUME NEW c \in Preferred(i) PROVE Capped(i, c, s.plan[c]) - s.preallocated[c] \in Int
  <2>1. s.plan[c] \in Int /\ s.preallocated[c] \in Int
    BY StateParts
  <2>2. Capped(i, c, s.plan[c]) \in Int
    BY <2>1, CappedIs
  <2> QED BY <2>1, <2>2
<1>2. SettledAt(i, s) \in [i.available -> Int]
  BY <1>1 DEF SettledAt
<1> QED BY <1>2, PreferenceType, SumType DEF Settled

\* It lies between nothing and the total.
LEMMA SettledBounds ==
  ASSUME NEW i, InputOK(i), Readable(i), NEW s \in PlanState(i), Balanced(i, s)
  PROVE  0 <= Settled(i, s) /\ Settled(i, s) <= i.total
<1> DEFINE zero == [c \in i.available |-> 0]
<1>1. /\ IsFiniteSet(i.available) /\ Preferred(i) \subseteq i.available
      /\ s.plan \in [i.available -> Int] /\ s.remaining \in Int /\ i.total \in Int
  <2>1. s.plan \in [i.available -> Int] /\ s.remaining \in Int
    BY DEF PlanState
  <2>2. i.total \in Int
    BY DEF InputOK
  <2> QED BY <2>1, <2>2, PreferenceType
<1>2. SettledAt(i, s) \in [i.available -> Int]
  BY SettledType
<1>3. ASSUME NEW c \in i.available PROVE 0 <= SettledAt(i, s)[c] /\ SettledAt(i, s)[c] <= s.plan[c]
  <2>0. s.plan[c] \in Int /\ s.plan[c] >= 0
    BY <1>1 DEF Balanced
  <2>1. CASE c \notin Preferred(i)
    BY <2>0, <2>1 DEF SettledAt
  <2>2. CASE c \in Preferred(i)
    <3> DEFINE v == Capped(i, c, s.plan[c])
    <3>1. v \in Int /\ v <= s.plan[c] /\ v \in {s.plan[c]} \cup Limits(i, c)
      BY <2>0, <2>2, CappedIs
    <3>2. s.preallocated[c] \in Int /\ s.preallocated[c] >= 0 /\ s.preallocated[c] <= s.plan[c]
      BY <2>2, StateParts DEF Balanced
    <3>3. s.preallocated[c] > 0 => \A limit \in Limits(i, c) : s.plan[c] <= limit
      BY <2>2 DEF Balanced
    <3>4. \A limit \in Limits(i, c) : limit >= 0
      BY <2>2, LimitsType
    <3>5. SettledAt(i, s)[c] = v - s.preallocated[c]
      BY <2>2 DEF SettledAt
    <3> HIDE DEF v
    <3>6. CASE v = s.plan[c]
      BY <2>0, <3>1, <3>2, <3>5, <3>6
    <3>7. CASE v \in Limits(i, c) /\ s.preallocated[c] > 0
      BY <2>0, <3>1, <3>2, <3>3, <3>5, <3>7
    <3>8. CASE v \in Limits(i, c) /\ s.preallocated[c] = 0
      BY <2>0, <3>1, <3>2, <3>4, <3>5, <3>8
    <3> QED BY <3>1, <3>2, <3>6, <3>7, <3>8
  <2> QED BY <2>1, <2>2
<1>4. Settled(i, s) <= SumFunction(s.plan)
  BY <1>1, <1>2, <1>3, SumMonotone DEF Settled
<1>5. SumFunction(s.plan) <= i.total
  <2>1. SumFunction(s.plan) \in Int
    BY <1>1, SumType
  <2> QED BY <1>1, <2>1 DEF Balanced
<1>6. 0 <= Settled(i, s)
  <2>1. zero \in [i.available -> Int] /\ \A c \in i.available : zero[c] = 0
    OBVIOUS
  <2> HIDE DEF zero
  <2>2. SumFunction(zero) = 0
    BY <1>1, <2>1, SumZero
  <2>3. \A c \in i.available : zero[c] <= SettledAt(i, s)[c]
    BY <1>3, <2>1
  <2>4. SumFunction(zero) <= SumFunction(SettledAt(i, s))
    BY <1>1, <1>2, <2>1, <2>3, SumMonotone
  <2> QED BY <2>2, <2>4 DEF Settled
<1>7. Settled(i, s) \in Int /\ SumFunction(s.plan) \in Int
  BY <1>1, SettledType, SumType
<1> QED BY <1>1, <1>4, <1>5, <1>6, <1>7

\* A share settles replicas, or changes nothing.
LEMMA DistributeSettles ==
  ASSUME NEW i, InputOK(i), NEW s \in PlanState(i), NEW c \in Preferred(i), Balanced(i, s),
         NEW due \in Nat, NEW sum \in Nat \ {0}
  PROVE  LET t == Distribute(i, due, sum, s, c)
         IN  /\ Settled(i, t) >= Settled(i, s)
             /\ t.modified /\ ~s.modified => Settled(i, t) >= Settled(i, s) + 1
<1> DEFINE t == Distribute(i, due, sum, s, c)
<1>1. DistributeStep(i, due, s, c, t)
  BY DistributeDoes
<1> HIDE DEF t
<1>2. /\ t \in PlanState(i)
      /\ t.plan = [s.plan EXCEPT ![c] = t.plan[c]]
      /\ t.preallocated = [s.preallocated EXCEPT ![c] = t.preallocated[c]]
      /\ \A limit \in Limits(i, c) : t.plan[c] <= limit
  BY <1>1 DEF DistributeStep
<1>3. PICK extra \in Int, used \in Int :
        /\ extra <= s.remaining
        /\ extra >= 0 \/ extra = s.remaining
        /\ used <= extra /\ (used = extra \/ used = s.preallocated[c])
        /\ used <= s.preallocated[c]
        /\ t.preallocated[c] = s.preallocated[c] - used
        /\ t.plan[c] <= s.plan[c] + extra - used
        /\ t.plan[c] \in {s.plan[c] + extra - used} \cup Limits(i, c)
        /\ t.modified = (s.modified \/ used > 0 \/ t.plan[c] > s.plan[c])
  BY <1>1 DEF DistributeStep
<1>4. /\ s.remaining \in Int /\ s.plan[c] \in Int /\ t.plan[c] \in Int /\ c \in i.available
      /\ s.preallocated[c] \in Int /\ t.preallocated[c] \in Int
      /\ s.plan \in [i.available -> Int] /\ s.preallocated \in [i.available -> Int]
      /\ s.modified \in BOOLEAN
  BY <1>2, StateParts
<1>5. s.remaining >= 0 /\ s.preallocated[c] >= 0
  BY <1>4 DEF Balanced
<1>6. extra >= 0 /\ used >= 0
  BY <1>3, <1>4, <1>5
<1> DEFINE a == SettledAt(i, s)
           b == SettledAt(i, t)
           v == Capped(i, c, s.plan[c])
           w == Capped(i, c, t.plan[c])
<1>7. a \in [i.available -> Int] /\ b \in [i.available -> Int] /\ a[c] \in Int /\ b[c] \in Int
  BY <1>2, <1>4, SettledType
<1>8. \A d \in i.available \ {c} : a[d] = b[d]
  <2>1. \A d \in i.available \ {c} : t.plan[d] = s.plan[d] /\ t.preallocated[d] = s.preallocated[d]
    BY <1>2, <1>4
  <2> QED BY <2>1 DEF SettledAt
<1>9. a[c] = v - s.preallocated[c] /\ b[c] = w - t.preallocated[c]
  BY <1>4 DEF SettledAt
<1>10. /\ v \in Int /\ w \in Int /\ v <= s.plan[c]
       /\ \A limit \in Limits(i, c) : v <= limit
       /\ w \in {t.plan[c]} \cup Limits(i, c) /\ w <= t.plan[c]
  BY <1>4, CappedIs
<1> HIDE DEF a, b, v, w
<1>11. w = t.plan[c]
  BY <1>2, <1>4, <1>10
<1>12. v <= t.plan[c]
  <2>1. CASE t.plan[c] \in Limits(i, c)
    BY <1>10, <2>1
  <2>2. CASE t.plan[c] = s.plan[c] + extra - used
    BY <1>3, <1>4, <1>6, <1>10, <2>2
  <2> QED BY <1>3, <2>1, <2>2
<1>13. b[c] >= a[c] /\ (used > 0 \/ t.plan[c] > s.plan[c] => b[c] >= a[c] + 1)
  BY <1>3, <1>4, <1>6, <1>9, <1>10, <1>11, <1>12
<1>14. SumFunction(b) = SumFunction(a) + b[c] - a[c] /\ SumFunction(a) \in Int
  BY <1>4, <1>7, <1>8, SumExcept, SumType, PreferenceType
<1>15. Settled(i, s) = SumFunction(a) /\ Settled(i, t) = SumFunction(b)
  BY DEF Settled, a, b
<1>16. Settled(i, t) >= Settled(i, s)
  BY <1>7, <1>13, <1>14, <1>15
<1>17. ASSUME t.modified, ~s.modified PROVE Settled(i, t) >= Settled(i, s) + 1
  <2>1. used > 0 \/ t.plan[c] > s.plan[c]
    BY <1>3, <1>17
  <2> QED BY <1>7, <1>13, <1>14, <1>15, <2>1
<1> QED BY <1>16, <1>17 DEF t

InLeft(s, c) == \E k \in 1 .. Len(s.left) : s.left[k] = c

\* t follows s as a cluster gets a share: it takes part in the next pass or is full, the
\* others do not change, it keeps what is within its limits, and where nothing changes
\* although something is due to it, it is full.
FillStep(i, due, s, c, t) ==
  /\ \A d \in i.available \ {c} : t.plan[d] = s.plan[d]
  /\ \A d : InLeft(s, d) => InLeft(t, d)
  /\ InLeft(t, c) \/ Full(i, t, c)
  /\ s.modified => t.modified
  /\ ~t.modified => t.remaining >= s.remaining
  /\ ~t.modified /\ due > 0 /\ s.remaining > 0 /\ PreferenceOf(i, c).weight > 0 => Full(i, t, c)
  /\ \A r \in Int : r <= s.plan[c] /\ (\A limit \in Limits(i, c) : r <= limit) => r <= t.plan[c]

\* A step of a pass fills one cluster.
LEMMA DistributeFills ==
  ASSUME NEW i, InputOK(i), NEW s \in PlanState(i), NEW c \in Preferred(i), Balanced(i, s),
         NEW due \in Nat, NEW sum \in Nat \ {0}
  PROVE  FillStep(i, due, s, c, Distribute(i, due, sum, s, c))
<1> DEFINE t == Distribute(i, due, sum, s, c)
<1>1. DistributeStep(i, due, s, c, t)
  BY DistributeDoes
<1> HIDE DEF t
<1>2. /\ t \in PlanState(i)
      /\ t.plan = [s.plan EXCEPT ![c] = t.plan[c]]
      /\ t.remaining = s.remaining - (t.plan[c] - s.plan[c])
      /\ \A limit \in Limits(i, c) : t.plan[c] <= limit
  BY <1>1 DEF DistributeStep
<1>3. PICK extra \in Int, used \in Int :
        /\ extra <= s.remaining
        /\ extra >= 0 \/ extra = s.remaining
        /\ due > 0 /\ PreferenceOf(i, c).weight > 0 => extra >= 1 \/ extra = s.remaining
        /\ used <= extra /\ (used = extra \/ used = s.preallocated[c])
        /\ used <= s.preallocated[c]
        /\ t.plan[c] <= s.plan[c] + extra - used
        /\ t.plan[c] \in {s.plan[c] + extra - used} \cup Limits(i, c)
        /\ t.left = IF t.plan[c] < s.plan[c] + extra - used THEN s.left ELSE Append(s.left, c)
        /\ t.modified = (s.modified \/ used > 0 \/ t.plan[c] > s.plan[c])
  BY <1>1 DEF DistributeStep
<1>4. /\ s.remaining \in Int /\ s.plan[c] \in Int /\ t.plan[c] \in Int /\ c \in i.available
      /\ s.preallocated[c] \in Int
      /\ s.plan \in [i.available -> Int]
      /\ s.modified \in BOOLEAN /\ s.left \in Seq(Preferred(i))
  BY <1>2, StateParts
<1>5. s.remaining >= 0 /\ s.preallocated[c] >= 0
  BY <1>4 DEF Balanced
<1>6. extra >= 0 /\ used >= 0
  BY <1>3, <1>4, <1>5
<1>7. \A d \in i.available \ {c} : t.plan[d] = s.plan[d]
  BY <1>2, <1>4
<1>8. ASSUME NEW d, InLeft(s, d) PROVE InLeft(t, d)
  <2>1. PICK k \in 1 .. Len(s.left) : s.left[k] = d
    BY <1>8 DEF InLeft
  <2>2. CASE t.left = s.left
    BY <2>1, <2>2 DEF InLeft
  <2>3. CASE t.left = Append(s.left, c)
    <3>1. Len(t.left) = Len(s.left) + 1 /\ t.left[k] = s.left[k] /\ k \in 1 .. Len(t.left)
      BY <1>4, <2>1, <2>3
    <3> QED BY <2>1, <3>1 DEF InLeft
  <2> QED BY <1>3, <2>2, <2>3
<1>9. InLeft(t, c) \/ Full(i, t, c)
  <2>1. CASE t.plan[c] < s.plan[c] + extra - used
    <3>1. t.plan[c] \in Limits(i, c)
      BY <1>3, <1>4, <2>1
    <3>2. t.plan[c] >= t.plan[c]
      BY <1>4
    <3> QED BY <3>1, <3>2 DEF Full
  <2>2. CASE ~(t.plan[c] < s.plan[c] + extra - used)
    <3>1. t.left = Append(s.left, c)
      BY <1>3, <2>2
    <3>2. Len(t.left) \in 1 .. Len(t.left) /\ t.left[Len(t.left)] = c
      BY <1>4, <3>1
    <3> QED BY <3>2 DEF InLeft
  <2> QED BY <2>1, <2>2
<1>10. s.modified => t.modified
  BY <1>3
<1>11. ASSUME ~t.modified PROVE t.remaining >= s.remaining /\ used = 0 /\ t.plan[c] <= s.plan[c]
  <2>1. ~(used > 0) /\ ~(t.plan[c] > s.plan[c])
    BY <1>3, <1>11
  <2> QED BY <1>2, <1>4, <1>6, <2>1
<1>12. ASSUME ~t.modified, due > 0, s.remaining > 0, PreferenceOf(i, c).weight > 0
       PROVE  Full(i, t, c)
  <2>1. extra >= 1
    BY <1>3, <1>4, <1>12
  <2>2. used = 0 /\ t.plan[c] <= s.plan[c]
    BY <1>11, <1>12
  <2>3. t.plan[c] # s.plan[c] + extra - used
    BY <1>4, <2>1, <2>2
  <2>4. t.plan[c] \in Limits(i, c) /\ t.plan[c] >= t.plan[c]
    BY <1>3, <1>4, <2>3
  <2> QED BY <2>4 DEF Full
<1>13. ASSUME NEW r \in Int, r <= s.plan[c], \A limit \in Limits(i, c) : r <= limit
       PROVE  r <= t.plan[c]
  <2>1. CASE t.plan[c] \in Limits(i, c)
    BY <1>13, <2>1
  <2>2. CASE t.plan[c] = s.plan[c] + extra - used
    BY <1>3, <1>4, <1>13, <2>2
  <2> QED BY <1>3, <2>1, <2>2
<1>14. FillStep(i, due, s, c, t)
  BY <1>7, <1>8, <1>9, <1>10, <1>11, <1>12, <1>13 DEF FillStep
<1> QED BY <1>14 DEF t

\* r is what every cluster of a plan has at least.
Floor(i, r) == \A c \in Preferred(i) : r[c] \in Int /\ \A limit \in Limits(i, c) : r[c] <= limit

\* What holds before and after each pass.
PassInv(i, r, s) ==
  /\ s \in PlanState(i) /\ Balanced(i, s)
  /\ s.passes <= Settled(i, s) + 1 /\ (s.modified => s.passes <= Settled(i, s))
  /\ \A c \in Preferred(i) :
       /\ PreferenceOf(i, c).weight > 0 => InLeft(s, c) \/ Full(i, s, c)
       /\ PreferenceOf(i, c).weight > 0 /\ ~s.modified => Full(i, s, c)
       /\ r[c] <= s.plan[c]

WeightSum(i, s) == SumFunction([n \in 1 .. Len(s.left) |-> PreferenceOf(i, s.left[n]).weight])
PassBegin(s) == [s EXCEPT !.left = << >>, !.modified = FALSE, !.passes = @ + 1]

\* A pass without weights does nothing but begin.
LEMMA PassIs ==
  ASSUME NEW i, NEW s
  PROVE  Pass(i, s) = IF WeightSum(i, s) = 0 THEN PassBegin(s)
                      ELSE PassFrom(i, s.remaining, WeightSum(i, s), PassBegin(s), s.left)
  BY DEF Pass, WeightSum, PassBegin, PassFrom

\* What the beginning of a pass resets.
LEMMA PassBeginIs ==
  ASSUME NEW i, NEW s \in PlanState(i)
  PROVE  LET t == PassBegin(s)
         IN  /\ t \in PlanState(i)
             /\ t.plan = s.plan /\ t.preallocated = s.preallocated /\ t.remaining = s.remaining
             /\ t.left = << >> /\ t.modified = FALSE /\ t.passes = s.passes + 1
<1>1. << >> \in Seq(Preferred(i)) /\ s.passes + 1 \in Nat
  BY DEF PlanState
<1> QED BY <1>1 DEF PassBegin, PlanState

\* The weights sum up to a natural number, which no single weight exceeds.
LEMMA WeightSumIs ==
  ASSUME NEW i, InputOK(i), NEW s \in PlanState(i)
  PROVE  /\ WeightSum(i, s) \in Nat
         /\ \A k \in 1 .. Len(s.left) : /\ s.left[k] \in Preferred(i)
                                        /\ PreferenceOf(i, s.left[k]).weight <= WeightSum(i, s)
<1> DEFINE S == 1 .. Len(s.left)
           f == [n \in 1 .. Len(s.left) |-> PreferenceOf(i, s.left[n]).weight]
<1>1. s.left \in Seq(Preferred(i))
  BY DEF PlanState
<1>2. Len(s.left) \in Nat /\ \A k \in S : s.left[k] \in Preferred(i)
  BY <1>1
<1>3. IsFiniteSet(S)
  BY <1>2, FS_Interval
<1>4. f \in [S -> Int] /\ \A k \in S : f[k] >= 0 /\ f[k] = PreferenceOf(i, s.left[k]).weight
  BY <1>2, PreferenceType
<1>5. WeightSum(i, s) = SumFunction(f)
  BY DEF WeightSum
<1> HIDE DEF f, S
<1>6. SumFunction(f) \in Int /\ \A k \in S : f[k] <= SumFunction(f)
  BY <1>3, <1>4, SumType, SumPart
<1>7. SumFunction(f) >= 0
  <2>1. CASE S = {}
    <3>1. SumFunction(f) = 0
      BY <1>3, <1>4, <2>1, SumZero
    <3> QED BY <3>1
  <2>2. CASE S # {}
    BY <1>3, <1>4, <2>2, SumPart
  <2> QED BY <2>1, <2>2
<1> QED BY <1>2, <1>4, <1>5, <1>6, <1>7 DEF S

\* Some of the clusters of a pass are still to come.
ToCome(s, n, c) == \E k \in 1 .. Len(s.left) : k > n /\ s.left[k] = c

\* What holds of u in the pass that begins with s, after n clusters.
During(i, r, s, n, u) ==
  /\ u \in PlanState(i) /\ Balanced(i, u) /\ u.passes = s.passes + 1
  /\ Settled(i, u) >= Settled(i, s)
  /\ u.modified => Settled(i, u) >= Settled(i, s) + 1
  /\ ~u.modified => u.remaining >= s.remaining
  /\ \A c \in Preferred(i) :
       /\ r[c] <= u.plan[c]
       /\ PreferenceOf(i, c).weight > 0 => InLeft(u, c) \/ Full(i, u, c) \/ ToCome(s, n, c)
       /\ PreferenceOf(i, c).weight > 0 /\ ~u.modified => Full(i, u, c) \/ ToCome(s, n, c)

\* The invariant of a pass holds when it begins.
LEMMA DuringBegin ==
  ASSUME NEW i, InputOK(i), NEW r, NEW s, PassInv(i, r, s)
  PROVE  During(i, r, s, 0, PassBegin(s))
<1> DEFINE u == PassBegin(s)
<1>0. s \in PlanState(i) /\ Balanced(i, s)
  BY DEF PassInv
<1>1. /\ u \in PlanState(i)
      /\ u.plan = s.plan /\ u.preallocated = s.preallocated /\ u.remaining = s.remaining
      /\ u.modified = FALSE /\ u.passes = s.passes + 1
  BY <1>0, PassBeginIs
<1> HIDE DEF u
<1>2. Balanced(i, u)
  BY <1>0, <1>1 DEF Balanced
<1>3. Settled(i, u) = Settled(i, s) /\ Settled(i, s) \in Int
  <2>1. SettledAt(i, u) = SettledAt(i, s)
    BY <1>1 DEF SettledAt
  <2> QED BY <1>0, <2>1, SettledType DEF Settled
<1>4. s.remaining \in Int
  BY <1>0 DEF PlanState
<1>5. ASSUME NEW c \in Preferred(i)
      PROVE  /\ r[c] <= u.plan[c]
             /\ PreferenceOf(i, c).weight > 0 => Full(i, u, c) \/ ToCome(s, 0, c)
  <2>1. InLeft(s, c) => ToCome(s, 0, c)
    BY DEF InLeft, ToCome
  <2>2. Full(i, s, c) => Full(i, u, c)
    BY <1>1 DEF Full
  <2> QED BY <1>1, <2>1, <2>2 DEF PassInv
<1>6. During(i, r, s, 0, u)
  BY <1>1, <1>2, <1>3, <1>4, <1>5 DEF During
<1> QED BY <1>6 DEF u

\* Each of its steps preserves it.
LEMMA DuringStep ==
  ASSUME NEW i, InputOK(i), Readable(i), NEW r, Floor(i, r), NEW s \in PlanState(i), s.remaining > 0,
         NEW n \in 1 .. Len(s.left), NEW u, During(i, r, s, n - 1, u), NEW sum \in Nat \ {0}
  PROVE  During(i, r, s, n, Distribute(i, s.remaining, sum, u, s.left[n]))
<1> DEFINE d == s.left[n]
           due == s.remaining
           t == Distribute(i, due, sum, u, d)
<1>1. d \in Preferred(i) /\ due \in Nat /\ due > 0 /\ n \in Int
  <2>1. s.left \in Seq(Preferred(i)) /\ s.remaining \in Int
    BY DEF PlanState
  <2> QED BY <2>1
<1>2. u \in PlanState(i) /\ Balanced(i, u)
  BY DEF During
<1> HIDE DEF d, due
<1>3. FillStep(i, due, u, d, t) /\ DistributeStep(i, due, u, d, t) /\ Balanced(i, t)
  BY <1>1, <1>2, DistributeFills, DistributeDoes, DistributeBalanced
<1>4. /\ Settled(i, t) >= Settled(i, u)
      /\ t.modified /\ ~u.modified => Settled(i, t) >= Settled(i, u) + 1
  BY <1>1, <1>2, DistributeSettles
<1> HIDE DEF t
<1>5. t \in PlanState(i) /\ t.passes = u.passes
  BY <1>3 DEF DistributeStep
<1>6. Settled(i, t) \in Int /\ Settled(i, u) \in Int /\ Settled(i, s) \in Int
  BY <1>2, <1>5, SettledType
<1>7. Settled(i, t) >= Settled(i, s)
  BY <1>4, <1>6 DEF During
<1>8. t.modified => Settled(i, t) >= Settled(i, s) + 1
  BY <1>4, <1>6 DEF During
<1>9. u.remaining \in Int /\ t.remaining \in Int /\ s.remaining \in Int
  BY <1>2, <1>5 DEF PlanState
<1>10. ~t.modified => ~u.modified /\ t.remaining >= s.remaining /\ u.remaining >= s.remaining
  BY <1>3, <1>9 DEF FillStep, During
<1>11. ASSUME NEW c \in Preferred(i)
       PROVE  /\ r[c] <= t.plan[c]
              /\ PreferenceOf(i, c).weight > 0 => InLeft(t, c) \/ Full(i, t, c) \/ ToCome(s, n, c)
              /\ PreferenceOf(i, c).weight > 0 /\ ~t.modified => Full(i, t, c) \/ ToCome(s, n, c)
  <2>1. CASE c = d
    <3>1. r[c] <= t.plan[c]
      BY <1>3, <2>1 DEF FillStep, Floor, During
    <3>2. InLeft(t, c) \/ Full(i, t, c)
      BY <1>3, <2>1 DEF FillStep
    <3>3. ASSUME PreferenceOf(i, c).weight > 0, ~t.modified PROVE Full(i, t, c)
      <4>1. u.remaining > 0
        BY <1>9, <1>10, <3>3
      <4> QED BY <1>1, <1>3, <2>1, <3>3, <4>1 DEF FillStep
    <3> QED BY <3>1, <3>2, <3>3
  <2>2. CASE c # d
    <3>1. t.plan[c] = u.plan[c]
      BY <1>3, <2>2, PreferenceType DEF FillStep
    <3>2. Full(i, u, c) => Full(i, t, c)
      BY <3>1 DEF Full
    <3>3. InLeft(u, c) => InLeft(t, c)
      BY <1>3 DEF FillStep
    <3>4. ToCome(s, n - 1, c) => ToCome(s, n, c)
      <4>1. SUFFICES ASSUME NEW k \in 1 .. Len(s.left), k > n - 1, s.left[k] = c
                     PROVE  k > n
        BY DEF ToCome
      <4>2. k # n
        BY <2>2, <4>1 DEF d
      <4> QED BY <1>1, <4>1, <4>2
    <3> QED BY <1>10, <3>1, <3>2, <3>3, <3>4 DEF During
  <2> QED BY <2>1, <2>2
<1>12. t.passes = s.passes + 1
  BY <1>5 DEF During
<1>13. During(i, r, s, n, t)
  BY <1>3, <1>5, <1>7, <1>8, <1>10, <1>11, <1>12 DEF During
<1> QED BY <1>13 DEF t, d, due

\* A pass.
LEMMA PassType ==
  ASSUME NEW i, InputOK(i), NEW s \in PlanState(i), s.remaining > 0
  PROVE  Pass(i, s) \in PlanState(i)
<1> DEFINE sum == WeightSum(i, s)
           first == PassBegin(s)
<1>1. first \in PlanState(i) /\ sum \in Nat
  BY PassBeginIs, WeightSumIs
<1>2. s.left \in Seq(Preferred(i)) /\ s.remaining \in Nat /\ Len(s.left) \in 0 .. Len(s.left)
  <2>1. s.left \in Seq(Preferred(i)) /\ s.remaining \in Int
    BY DEF PlanState
  <2> QED BY <2>1
<1>3. CASE sum = 0
  BY <1>1, <1>3, PassIs
<1>4. CASE sum # 0
  <2>1. Pass(i, s) = PassFrom(i, s.remaining, sum, first, s.left)
    BY <1>4, PassIs
  <2> HIDE DEF sum, first
  <2>2. PICK f : PassTrace(i, s.remaining, sum, first, s.left, f)
    <3>1. sum \in Nat \ {0}
      BY <1>1, <1>4
    <3> QED BY <1>1, <1>2, <3>1, PassFold
  <2> QED BY <1>2, <2>1, <2>2 DEF PassTrace
<1> QED BY <1>3, <1>4

\* A whole pass preserves the invariant of the passes.
LEMMA PassKeeps ==
  ASSUME NEW i, InputOK(i), Readable(i), NEW r, Floor(i, r), NEW s, PassInv(i, r, s),
         s.modified, s.remaining > 0
  PROVE  PassInv(i, r, Pass(i, s)) /\ Pass(i, s).passes = s.passes + 1
<1> DEFINE N == Len(s.left)
           sum == WeightSum(i, s)
           t == Pass(i, s)
<1>1. /\ s \in PlanState(i) /\ Balanced(i, s) /\ s.passes <= Settled(i, s) /\ s.passes \in Nat
      /\ s.left \in Seq(Preferred(i)) /\ N \in Nat /\ s.remaining \in Nat
  <2>1. s \in PlanState(i) /\ Balanced(i, s) /\ s.passes <= Settled(i, s)
    BY DEF PassInv
  <2>2. s.passes \in Nat /\ s.left \in Seq(Preferred(i)) /\ s.remaining \in Int
    BY <2>1 DEF PlanState
  <2> QED BY <2>1, <2>2
<1>2. sum \in Nat /\ \A k \in 1 .. N : s.left[k] \in Preferred(i) /\ PreferenceOf(i, s.left[k]).weight <= sum
  BY <1>1, WeightSumIs
<1>3. During(i, r, s, 0, PassBegin(s))
  BY DuringBegin
<1>4. t \in PlanState(i) /\ \A c \in Preferred(i) : PreferenceOf(i, c).weight \in Nat
  BY <1>1, PassType, PreferenceType
<1>5. ASSUME During(i, r, s, N, t) PROVE PassInv(i, r, t) /\ t.passes = s.passes + 1
  <2> HIDE DEF t
  <2>1. \A c : ~ToCome(s, N, c)
    BY <1>1 DEF ToCome
  <2>2. Settled(i, t) \in Int /\ Settled(i, s) \in Int
    BY <1>1, <1>4, SettledType
  <2>3. t.passes <= Settled(i, t) + 1 /\ (t.modified => t.passes <= Settled(i, t))
    BY <1>1, <1>5, <2>2 DEF During
  <2> QED BY <1>5, <2>1, <2>3 DEF During, PassInv
<1>6. CASE sum = 0
  <2>1. t = PassBegin(s)
    BY <1>6, PassIs
  <2>2. \A c \in Preferred(i) : PreferenceOf(i, c).weight > 0 => ~ToCome(s, 0, c)
    BY <1>2, <1>4, <1>6 DEF ToCome
  <2>3. During(i, r, s, N, t)
    BY <1>3, <2>1, <2>2 DEF During
  <2> QED BY <1>5, <2>3
<1>7. CASE sum # 0
  <2>1. sum \in Nat \ {0}
    BY <1>2, <1>7
  <2>2. t = PassFrom(i, s.remaining, sum, PassBegin(s), s.left)
    BY <1>7, PassIs
  <2>3. PassBegin(s) \in PlanState(i)
    BY <1>3 DEF During
  <2> HIDE DEF sum, t
  <2>4. PICK f \in [0 .. Len(s.left) -> PlanState(i)] :
          /\ f[0] = PassBegin(s)
          /\ \A n \in 1 .. Len(s.left) : f[n] = Distribute(i, s.remaining, sum, f[n - 1], s.left[n])
          /\ PassFrom(i, s.remaining, sum, PassBegin(s), s.left) = f[Len(s.left)]
    <3>1. \E f : PassTrace(i, s.remaining, sum, PassBegin(s), s.left, f)
      BY <1>1, <2>1, <2>3, PassFold
    <3> QED BY <3>1 DEF PassTrace
  <2> DEFINE P == {n \in 0 .. N : During(i, r, s, n, f[n])}
  <2>5. 0 \in P
    BY <1>1, <1>3, <2>4
  <2>6. ASSUME NEW n \in 1 .. N, n - 1 \in P PROVE n \in P
    <3>1. During(i, r, s, n - 1, f[n - 1])
      BY <2>6
    <3>2. During(i, r, s, n, Distribute(i, s.remaining, sum, f[n - 1], s.left[n]))
      BY <1>1, <2>1, <3>1, DuringStep
    <3> QED BY <1>1, <2>4, <3>2
  <2>7. N \in P
    <3> HIDE DEF P, N
    <3>1. N \in 0 .. N
      BY <1>1
    <3> QED BY <1>1, <2>5, <2>6, <3>1, UpTo
  <2> QED BY <1>5, <2>2, <2>4, <2>7 DEF t
<1> QED BY <1>6, <1>7

Round(i, s) == IF s.modified /\ s.remaining > 0 THEN Pass(i, s) ELSE s
PassesTrace(i, first, f) ==
  /\ f \in [0 .. 2 * i.total + 2 -> PlanState(i)]
  /\ f[0] = first
  /\ \A n \in 1 .. 2 * i.total + 2 : f[n] = Round(i, f[n - 1])
  /\ Passes(i, first) = f[2 * i.total + 2]

\* The passes, one after the other.
LEMMA PassesFold ==
  ASSUME NEW i, InputOK(i), NEW first \in PlanState(i)
  PROVE  \E f : PassesTrace(i, first, f)
<1> DEFINE N == 2 * i.total + 2
           St == PlanState(i)
           h == [x \in (1 .. N) \X St |-> Round(i, x[2])]
           Rule(f) == [n \in 0 .. N |->
             IF n = 0 THEN first
             ELSE IF f[n - 1].modified /\ f[n - 1].remaining > 0 THEN Pass(i, f[n - 1]) ELSE f[n - 1]]
           g == CHOOSE f : f = Rule(f)
<1>1. N \in Nat
  BY DEF InputOK
<1>2. ASSUME NEW s \in St PROVE Round(i, s) \in St
  BY PassType DEF Round
<1>3. ASSUME NEW n \in 1 .. N, NEW s \in St PROVE h[<<n, s>>] = Round(i, s)
  OBVIOUS
<1>4. h \in [(1 .. N) \X St -> St]
  BY <1>2
<1>a. first \in St
  OBVIOUS
<1> HIDE DEF h, St
<1>5. PICK f \in [0 .. N -> St] : f[0] = first /\ \A n \in 1 .. N : f[n] = h[<<n, f[n - 1]>>]
  <2> HIDE DEF N, g, Rule
  <2>1. PICK it : it \in [SUBSET (1 .. N) -> St] /\ FoldsIndices(it, N, St, first, h)
    BY <1>1, <1>4, <1>a, IndexFoldExists
  <2>2. PICK f : PrefixesOf(f, it, N, St, first, h)
    BY <1>1, <1>4, <1>a, <2>1, IndexFoldPrefixes
  <2> QED BY <2>2 DEF PrefixesOf
<1> HIDE DEF N
<1>6. ASSUME NEW n \in 1 .. N PROVE f[n] = Round(i, f[n - 1]) /\ f[n - 1] \in St
  <2>1. n - 1 \in 0 .. N
    BY <1>1
  <2> QED BY <1>3, <1>5, <2>1
<1>7. f = Rule(f)
  <2>1. ASSUME NEW n \in 0 .. N, n # 0 PROVE n \in 1 .. N
    BY <1>1, <2>1
  <2>2. \A n \in 0 .. N : f[n] =
          IF n = 0 THEN first
          ELSE IF f[n - 1].modified /\ f[n - 1].remaining > 0 THEN Pass(i, f[n - 1]) ELSE f[n - 1]
    BY <1>5, <1>6, <2>1 DEF Round
  <2>3. f = [n \in 0 .. N |-> f[n]]
    BY <1>5
  <2> QED BY <2>2, <2>3
<1>8. g = Rule(g)
  BY <1>7
<1>9. Passes(i, first) = g[N]
  BY DEF Passes, N
<1> HIDE DEF g
<1>10. g[0] = first
  BY <1>1, <1>8
<1>11. ASSUME NEW n \in 1 .. N PROVE g[n] = Round(i, g[n - 1])
  <2>1. n \in 0 .. N /\ n # 0
    BY <1>1
  <2> QED BY <1>8, <2>1 DEF Round
<1> DEFINE P == {n \in 0 .. N : g[n] \in St}
<1>12. \A n \in 0 .. N : n \in P
  <2>1. 0 \in P
    BY <1>1, <1>10, <1>a
  <2>2. ASSUME NEW n \in 1 .. N, n - 1 \in P PROVE n \in P
    <3>1. n \in 0 .. N
      BY <1>1
    <3> QED BY <1>2, <1>11, <2>2, <3>1
  <2> HIDE DEF P
  <2> QED BY <1>1, <2>1, <2>2, UpTo
<1>13. g \in [0 .. N -> St]
  <2>1. DOMAIN g = 0 .. N /\ g = [n \in DOMAIN g |-> g[n]]
    BY <1>8
  <2> QED BY <1>12, <2>1
<1> QED BY <1>9, <1>10, <1>11, <1>13 DEF PassesTrace, N, St

\* More passes than there can be are enough.
LEMMA PassesKeep ==
  ASSUME NEW i, InputOK(i), Readable(i), NEW r, Floor(i, r), NEW first, PassInv(i, r, first),
         first.passes = 0
  PROVE  LET s == Passes(i, first)
         IN  PassInv(i, r, s) /\ ~(s.modified /\ s.remaining > 0)
<1> DEFINE N == 2 * i.total + 2
<1>1. N \in Nat /\ i.total \in Nat
  BY DEF InputOK
<1>2. PICK f : PassesTrace(i, first, f)
  <2>1. first \in PlanState(i)
    BY DEF PassInv
  <2> QED BY <2>1, PassesFold
<1>3. /\ f[0] = first /\ Passes(i, first) = f[N]
      /\ \A n \in 1 .. N : f[n] = Round(i, f[n - 1])
  BY <1>2 DEF PassesTrace
<1> DEFINE P == {n \in 0 .. N : /\ PassInv(i, r, f[n])
                                /\ f[n].modified /\ f[n].remaining > 0 => f[n].passes = n}
<1>4. \A n \in 0 .. N : n \in P
  <2> HIDE DEF N
  <2>1. 0 \in P
    BY <1>1, <1>3
  <2>2. ASSUME NEW n \in 1 .. N, n - 1 \in P PROVE n \in P
    <3> DEFINE s == f[n - 1]
    <3>1. /\ PassInv(i, r, s) /\ f[n] = Round(i, s) /\ n \in 0 .. N /\ n \in Int
          /\ s.modified /\ s.remaining > 0 => s.passes = n - 1
      BY <1>1, <1>3, <2>2
    <3> HIDE DEF s
    <3>2. CASE s.modified /\ s.remaining > 0
      <4>1. f[n] = Pass(i, s)
        BY <3>1, <3>2 DEF Round
      <4>2. PassInv(i, r, f[n]) /\ f[n].passes = s.passes + 1
        BY <3>1, <3>2, <4>1, PassKeeps
      <4> QED BY <3>1, <3>2, <4>2
    <3>3. CASE ~(s.modified /\ s.remaining > 0)
      BY <3>1, <3>3 DEF Round
    <3> QED BY <3>2, <3>3
  <2> HIDE DEF P
  <2> QED BY <1>1, <2>1, <2>2, UpTo
<1>5. PassInv(i, r, f[N]) /\ (f[N].modified /\ f[N].remaining > 0 => f[N].passes = N)
  BY <1>1, <1>4
<1>6. Settled(i, f[N]) <= i.total /\ Settled(i, f[N]) \in Int
  BY <1>5, SettledBounds, SettledType DEF PassInv
<1>7. f[N].modified => f[N].passes <= Settled(i, f[N])
  BY <1>5 DEF PassInv
<1>8. ~(f[N].modified /\ f[N].remaining > 0)
  BY <1>1, <1>5, <1>6, <1>7
<1> QED BY <1>3, <1>5, <1>8
-----------------------------------------------------------------------------
(* The plan                                                                *)

\* The plan is what the passes leave.
LEMMA PlanIs ==
  ASSUME NEW i
  PROVE  LET s == Passes(i, Started(i))
         IN  /\ Plan(i).plan = s.plan /\ Plan(i).passes = s.passes
             /\ Plan(i).overflow = Trimmed(i, s)
  BY DEF Plan, Started, KeptFrom, Minima, MinimaFrom, Empty

\* The passes begin well.
LEMMA StartedInv ==
  ASSUME NEW i, InputOK(i), Readable(i), NEW r,
         \A c \in Preferred(i) : r[c] <= Started(i).plan[c]
  PROVE  PassInv(i, r, Started(i)) /\ Started(i).passes = 0
<1> DEFINE s == Started(i)
<1>1. s \in PlanState(i) /\ Begins(i, s) /\ Balanced(i, s)
  BY StartedOK
<1> HIDE DEF s
<1>2. s.passes = 0 /\ s.modified = TRUE /\ s.left = byWeight(i)
  BY <1>1 DEF Begins
<1>3. 0 <= Settled(i, s) /\ Settled(i, s) \in Int
  BY <1>1, SettledBounds, SettledType
<1>4. \A c \in Preferred(i) : InLeft(s, c)
  BY <1>2, Order DEF InLeft
<1>5. \A c \in Preferred(i) : r[c] <= s.plan[c]
  BY DEF s
<1>6. PassInv(i, r, s)
  BY <1>1, <1>2, <1>3, <1>4, <1>5 DEF PassInv
<1> QED BY <1>2, <1>6 DEF s

\* Every plan for an input with readable capacities hands out what it can, within the
\* limits, in few passes (planner.go:60).
LEMMA PlanComplete ==
  ASSUME NEW i, InputOK(i), Readable(i)
  PROVE  Complete(i, Plan(i)) /\ Quick(i, Plan(i))
<1> DEFINE r == [c \in Preferred(i) |-> 0]
           first == Started(i)
           s == Passes(i, first)
           p == Plan(i)
<1>1. Floor(i, r)
  <2>1. ASSUME NEW c \in Preferred(i) PROVE r[c] \in Int /\ \A limit \in Limits(i, c) : r[c] <= limit
    <3>1. Limits(i, c) \subseteq Int /\ \A limit \in Limits(i, c) : limit >= 0
      BY LimitsType
    <3> QED BY <3>1
  <2> QED BY <2>1 DEF Floor
<1>2. \A c \in Preferred(i) : r[c] <= first.plan[c]
  <2>1. first \in PlanState(i) /\ Balanced(i, first)
    BY StartedOK
  <2> HIDE DEF first
  <2>2. ASSUME NEW c \in Preferred(i) PROVE first.plan[c] \in Int /\ first.plan[c] >= 0
    BY <2>1, StateParts DEF Balanced
  <2> QED BY <2>2
<1> HIDE DEF r
<1>3. PassInv(i, r, first) /\ first.passes = 0
  BY <1>2, StartedInv
<1>4. PassInv(i, r, s) /\ ~(s.modified /\ s.remaining > 0)
  BY <1>1, <1>3, PassesKeep
<1>5. p.plan = s.plan /\ p.passes = s.passes
  BY PlanIs
<1> HIDE DEF first, s, p
<1>6. s \in PlanState(i) /\ Balanced(i, s)
  BY <1>4 DEF PassInv
<1>7. s.remaining \in Int /\ s.remaining >= 0 /\ s.passes \in Nat /\ i.total \in Nat /\ s.modified \in BOOLEAN
      /\ s.plan \in [i.available -> Int]
  <2>1. i.total \in Nat
    BY DEF InputOK
  <2>2. s.remaining \in Int /\ s.passes \in Nat /\ s.modified \in BOOLEAN /\ s.plan \in [i.available -> Int]
    BY <1>6 DEF PlanState
  <2> QED BY <1>6, <2>1, <2>2 DEF Balanced
<1>8. SumFunction(s.plan) \in Int /\ SumFunction(s.plan) + s.remaining = i.total
  BY <1>6, <1>7, SumType, PreferenceType DEF Balanced
<1>9. SumFunction(p.plan) <= i.total
  BY <1>5, <1>7, <1>8
<1>10. \A c \in Preferred(i) : p.plan[c] >= 0 /\ Within(i, c, p.plan[c])
  BY <1>5, <1>6, PreferenceType DEF Balanced
<1>11. \/ SumFunction(p.plan) = i.total
       \/ \A c \in Preferred(i) : PreferenceOf(i, c).weight > 0 => Full(i, p, c)
  <2>1. CASE s.remaining = 0
    BY <1>5, <1>8, <2>1
  <2>2. CASE s.remaining # 0
    <3>1. ~s.modified
      BY <1>4, <1>7, <2>2
    <3>2. \A c \in Preferred(i) : PreferenceOf(i, c).weight > 0 => Full(i, s, c)
      BY <1>4, <3>1 DEF PassInv
    <3> QED BY <1>5, <3>2 DEF Full
  <2> QED BY <2>1, <2>2
<1>12. Quick(i, p)
  <2>1. Settled(i, s) <= i.total /\ Settled(i, s) \in Int
    BY <1>6, SettledBounds, SettledType
  <2>2. s.passes <= Settled(i, s) + 1
    BY <1>4 DEF PassInv
  <2> QED BY <1>5, <1>7, <2>1, <2>2 DEF Quick
<1>13. Complete(i, p)
  BY <1>9, <1>10, <1>11 DEF Complete
<1> QED BY <1>12, <1>13 DEF p

-----------------------------------------------------------------------------
(* What runs is kept                                                       *)

\* What runs in a cluster, within the limits, and what it gets before the passes when
\* there is enough for all of them.
RunsIn(i, c) == IF c \in DOMAIN i.current THEN Min({i.current[c]} \cup Limits(i, c)) ELSE 0
LeastOf(i, c) == Max({PreferenceOf(i, c).minimum, RunsIn(i, c)})
Wanted(i) == [c \in i.available |-> IF c \in Preferred(i) THEN LeastOf(i, c) ELSE 0]
Enough(i) == SumFunction([c \in Preferred(i) |-> LeastOf(i, c)]) <= i.total

\* No cluster has more than that.
Modest(i, s) == \A c \in i.available : s.plan[c] <= Wanted(i)[c]

\* What runs within the limits, and the least a cluster should have for it.
LEMMA RunsInIs ==
  ASSUME NEW i, InputOK(i), Readable(i), NEW c \in Preferred(i)
  PROVE  /\ RunsIn(i, c) \in Int /\ LeastOf(i, c) \in Int
         /\ LeastOf(i, c) >= PreferenceOf(i, c).minimum /\ LeastOf(i, c) >= RunsIn(i, c)
         /\ \A limit \in Limits(i, c) : RunsIn(i, c) <= limit
         /\ c \notin DOMAIN i.current => RunsIn(i, c) = 0
         /\ c \in DOMAIN i.current => /\ RunsIn(i, c) <= i.current[c]
                                      /\ RunsIn(i, c) \in {i.current[c]} \cup Limits(i, c)
<1>1. Limits(i, c) \subseteq Int /\ \A limit \in Limits(i, c) : limit >= 0
  BY LimitsType
<1>2. ASSUME c \in DOMAIN i.current
      PROVE  /\ RunsIn(i, c) \in Int /\ RunsIn(i, c) <= i.current[c]
             /\ \A limit \in Limits(i, c) : RunsIn(i, c) <= limit
             /\ RunsIn(i, c) \in {i.current[c]} \cup Limits(i, c)
  <2>1. i.current[c] \in Int
    BY <1>2 DEF InputOK
  <2>2. RunsIn(i, c) = Capped(i, c, i.current[c])
    BY <1>2 DEF RunsIn, Capped
  <2> QED BY <2>1, <2>2, CappedIs
<1>3. ASSUME c \notin DOMAIN i.current PROVE RunsIn(i, c) = 0
  BY <1>3 DEF RunsIn
<1>4. RunsIn(i, c) \in Int /\ \A limit \in Limits(i, c) : RunsIn(i, c) <= limit
  BY <1>1, <1>2, <1>3
<1>5. PreferenceOf(i, c).minimum \in Int
  BY PreferenceType
<1>6. LeastOf(i, c) = IF PreferenceOf(i, c).minimum >= RunsIn(i, c)
                      THEN PreferenceOf(i, c).minimum ELSE RunsIn(i, c)
  BY <1>4, <1>5, MaxPair DEF LeastOf
<1> QED BY <1>2, <1>3, <1>4, <1>5, <1>6

\* The sum of these, over the clusters with a preference.
LEMMA WantedIs ==
  ASSUME NEW i, InputOK(i), Readable(i)
  PROVE  /\ Wanted(i) \in [i.available -> Int]
         /\ \A c \in Preferred(i) : Wanted(i)[c] = LeastOf(i, c)
         /\ \A c \in i.available : c \notin Preferred(i) => Wanted(i)[c] = 0
         /\ Enough(i) => SumFunction(Wanted(i)) <= i.total
<1>1. \A c \in Preferred(i) : LeastOf(i, c) \in Int
  BY RunsInIs
<1>2. Wanted(i) \in [i.available -> Int]
  BY <1>1 DEF Wanted
<1>3. Preferred(i) \in SUBSET i.available /\ IsFiniteSet(i.available)
  BY PreferenceType
<1>4. /\ \A c \in Preferred(i) : Wanted(i)[c] = LeastOf(i, c)
      /\ \A c \in i.available : c \notin Preferred(i) => Wanted(i)[c] = 0
  BY <1>3 DEF Wanted
<1>5. SumFunction(Wanted(i)) = SumFunction([c \in Preferred(i) |-> Wanted(i)[c]])
  <2> DEFINE f == Wanted(i)
             T == Preferred(i)
             S == i.available
  <2>1. f \in [S -> Int] /\ T \in SUBSET S /\ IsFiniteSet(S) /\ \A x \in S \ T : f[x] = 0
    BY <1>2, <1>3, <1>4
  <2> HIDE DEF f, T, S
  <2>2. SumFunction(f) = SumFunction([x \in T |-> f[x]])
    BY <2>1, SumRestrict
  <2> QED BY <2>2 DEF f, T
<1>6. [c \in Preferred(i) |-> Wanted(i)[c]] = [c \in Preferred(i) |-> LeastOf(i, c)]
  BY <1>4
<1> QED BY <1>2, <1>4, <1>5, <1>6 DEF Enough

\* What remains is enough for each of them.
LEMMA EnoughRemains ==
  ASSUME NEW i, InputOK(i), Readable(i), Enough(i), NEW s \in PlanState(i), Balanced(i, s),
         Modest(i, s), NEW c \in Preferred(i)
  PROVE  s.plan[c] + s.remaining >= LeastOf(i, c)
<1> DEFINE g == Wanted(i)
           S == i.available
           f == s.plan
           h == [g EXCEPT ![c] = f[c]]
<1>1. g \in [S -> Int] /\ g[c] = LeastOf(i, c) /\ SumFunction(g) <= i.total
  BY WantedIs
<1>2. f \in [S -> Int] /\ IsFiniteSet(S) /\ c \in S /\ f[c] \in Int /\ s.remaining \in Int
  BY StateParts, PreferenceType
<1>3. SumFunction(f) + s.remaining = i.total /\ i.total \in Int
  BY DEF Balanced, InputOK
<1>4. \A x \in S : f[x] <= g[x]
  BY DEF Modest
<1> HIDE DEF g, S, f
<1>5. h \in [S -> Int] /\ h[c] = f[c] /\ (\A x \in S \ {c} : g[x] = h[x]) /\ \A x \in S : f[x] <= h[x]
  BY <1>1, <1>2, <1>4
<1> HIDE DEF h
<1>6. SumFunction(h) = SumFunction(g) + h[c] - g[c]
  BY <1>1, <1>2, <1>5, SumExcept
<1>7. SumFunction(f) <= SumFunction(h)
  BY <1>2, <1>5, SumMonotone
<1>8. SumFunction(f) \in Int /\ SumFunction(g) \in Int /\ g[c] \in Int
  BY <1>1, <1>2, SumType
<1>9. f[c] + s.remaining >= g[c]
  BY <1>1, <1>2, <1>3, <1>5, <1>6, <1>7, <1>8
<1> QED BY <1>1, <1>9 DEF f

\* The minima leave every cluster at no more than the least it should have.
LEMMA MinimaModest ==
  ASSUME NEW i, InputOK(i), Readable(i)
  PROVE  Modest(i, Minima(i))
<1> DEFINE order == byWeight(i)
           N == Len(order)
<1>1. order \in Seq(Preferred(i)) /\ N \in Nat /\ \A k \in 1 .. N : order[k] \in Preferred(i)
  BY Order
<1>2. PICK f \in [0 .. N -> PlanState(i)] :
        /\ f[0] = Empty(i)
        /\ \A n \in 1 .. N : f[n] = AssignMinimum(i, f[n - 1], order[n])
        /\ Minima(i) = f[N]
  <2>1. Empty(i) \in PlanState(i)
    BY EmptyOK
  <2>2. \E f : MinimaTrace(i, Empty(i), order, f)
    BY <1>1, <2>1, MinimaFold
  <2> QED BY <2>2 DEF Minima, MinimaTrace
<1> HIDE DEF order, N
<1>a. \A c \in i.available : Wanted(i)[c] \in Int /\ Wanted(i)[c] >= 0
  <2>1. ASSUME NEW c \in Preferred(i) PROVE LeastOf(i, c) >= 0
    <3>1. LeastOf(i, c) \in Int /\ LeastOf(i, c) >= PreferenceOf(i, c).minimum /\ PreferenceOf(i, c).minimum \in Nat
      BY RunsInIs, PreferenceType
    <3> QED BY <3>1
  <2> QED BY <2>1, WantedIs
<1> DEFINE P == {n \in 0 .. N : Modest(i, f[n])}
<1>3. 0 \in P
  <2>1. Modest(i, Empty(i))
    BY <1>a, EmptyOK DEF Modest
  <2> QED BY <1>1, <1>2, <2>1
<1>4. ASSUME NEW n \in 1 .. N, n - 1 \in P PROVE n \in P
  <2> DEFINE s == f[n - 1]
             c == order[n]
             t == f[n]
  <2>1. s \in PlanState(i) /\ c \in Preferred(i) /\ t = AssignMinimum(i, s, c) /\ n \in 0 .. N
    BY <1>1, <1>2
  <2>2. Modest(i, s)
    BY <1>4
  <2> HIDE DEF s, t, c
  <2>3. /\ t.plan = [s.plan EXCEPT ![c] = t.plan[c]] /\ t \in PlanState(i)
        /\ t.plan[c] <= PreferenceOf(i, c).minimum
    <3>1. MinimumStep(i, s, c, t)
      BY <2>1, AssignMinimumDoes
    <3> QED BY <3>1 DEF MinimumStep
  <2>4. t.plan[c] <= Wanted(i)[c]
    <3>1. /\ LeastOf(i, c) \in Int /\ LeastOf(i, c) >= PreferenceOf(i, c).minimum
          /\ PreferenceOf(i, c).minimum \in Nat /\ Wanted(i)[c] = LeastOf(i, c)
      BY <2>1, RunsInIs, PreferenceType, WantedIs
    <3>2. t.plan[c] \in Int
      BY <2>1, <2>3, StateParts
    <3> QED BY <2>3, <3>1, <3>2
  <2>5. s.plan \in [i.available -> Int]
    BY <2>1, StateParts
  <2>6. Modest(i, t)
    BY <2>2, <2>3, <2>4, <2>5 DEF Modest
  <2> QED BY <2>1, <2>6 DEF t
<1>5. N \in P
  <2> HIDE DEF P
  <2>1. N \in 0 .. N
    BY <1>1
  <2> QED BY <1>1, <1>3, <1>4, <2>1, UpTo
<1> QED BY <1>2, <1>5

\* Each cluster keeps what runs as it is looked at.
LEMMA PreallocateKeeps ==
  ASSUME NEW i, InputOK(i), Readable(i), ~i.rebalance, Enough(i),
         NEW s \in PlanState(i), Balanced(i, s), Modest(i, s), NEW c \in Preferred(i),
         NEW t, PreallocateStep(i, s, c, t)
  PROVE  /\ Modest(i, t) /\ t.plan[c] >= RunsIn(i, c)
         /\ \A d \in i.available : t.plan[d] >= s.plan[d]
<1> DEFINE extra == t.plan[c] - s.plan[c]
<1>1. /\ t \in PlanState(i)
      /\ t.plan = [s.plan EXCEPT ![c] = t.plan[c]]
      /\ extra >= 0
      /\ extra > 0 => /\ c \in DOMAIN i.current
                      /\ t.plan[c] <= i.current[c]
                      /\ \A limit \in Limits(i, c) : t.plan[c] <= limit
      /\ ~i.rebalance /\ c \in DOMAIN i.current =>
           \/ t.plan[c] >= i.current[c]
           \/ \E limit \in Limits(i, c) : t.plan[c] >= limit
           \/ extra >= s.remaining
  BY DEF PreallocateStep
<1>2. /\ s.plan \in [i.available -> Int] /\ s.plan[c] \in Int /\ t.plan[c] \in Int
      /\ s.remaining \in Int /\ c \in i.available
  BY <1>1, StateParts
<1>3. /\ RunsIn(i, c) \in Int /\ LeastOf(i, c) \in Int /\ LeastOf(i, c) >= RunsIn(i, c)
      /\ \A limit \in Limits(i, c) : RunsIn(i, c) <= limit
      /\ c \notin DOMAIN i.current => RunsIn(i, c) = 0
      /\ c \in DOMAIN i.current => /\ RunsIn(i, c) <= i.current[c]
                                   /\ RunsIn(i, c) \in {i.current[c]} \cup Limits(i, c)
  BY RunsInIs
<1>4. Wanted(i)[c] = LeastOf(i, c)
  BY WantedIs
<1>5. s.plan[c] + s.remaining >= LeastOf(i, c)
  BY EnoughRemains
<1>6. c \in DOMAIN i.current => i.current[c] \in Int
  BY DEF InputOK
<1>7. Limits(i, c) \subseteq Int
  BY LimitsType
<1>8. t.plan[c] <= LeastOf(i, c)
  <2>1. CASE extra > 0
    <3>1. t.plan[c] <= RunsIn(i, c)
      BY <1>1, <1>3, <2>1
    <3> QED BY <1>2, <1>3, <3>1
  <2>2. CASE ~(extra > 0)
    <3>1. t.plan[c] = s.plan[c]
      BY <1>1, <1>2, <2>2
    <3> QED BY <1>2, <1>4, <3>1 DEF Modest
  <2> QED BY <2>1, <2>2
<1>9. t.plan[c] >= RunsIn(i, c)
  <2>1. CASE c \notin DOMAIN i.current
    <3>1. s.plan[c] >= 0
      BY <1>2 DEF Balanced
    <3> QED BY <1>1, <1>2, <1>3, <2>1, <3>1
  <2>2. CASE c \in DOMAIN i.current /\ t.plan[c] >= i.current[c]
    BY <1>2, <1>3, <1>6, <2>2
  <2>3. CASE \E limit \in Limits(i, c) : t.plan[c] >= limit
    BY <1>2, <1>3, <1>7, <2>3
  <2>4. CASE extra >= s.remaining
    BY <1>2, <1>3, <1>5, <2>4
  <2> QED BY <1>1, <2>1, <2>2, <2>3, <2>4
<1>10. Modest(i, t)
  BY <1>1, <1>2, <1>4, <1>8 DEF Modest
<1>11. \A d \in i.available : t.plan[d] >= s.plan[d]
  BY <1>1, <1>2
<1> QED BY <1>9, <1>10, <1>11


\* When there is enough, the passes begin with all that runs handed out.
LEMMA StartedKeeps ==
  ASSUME NEW i, InputOK(i), Readable(i), ~i.rebalance, Enough(i)
  PROVE  \A c \in Preferred(i) : RunsIn(i, c) <= Started(i).plan[c]
<1> DEFINE order == byWeight(i)
           N == Len(order)
<1>1. /\ order \in Seq(Preferred(i)) /\ N \in Nat /\ \A k \in 1 .. N : order[k] \in Preferred(i)
      /\ \A c \in Preferred(i) : \E k \in 1 .. N : order[k] = c
  BY Order
<1>2. PICK f \in [0 .. N -> PlanState(i)] :
        /\ f[0] = Minima(i)
        /\ \A n \in 1 .. N : f[n] = Preallocate(i, f[n - 1], order[n])
        /\ Started(i) = f[N]
  <2>1. Minima(i) \in PlanState(i)
    BY MinimaOK
  <2>2. \E f : KeptTrace(i, Minima(i), order, f)
    BY <1>1, <2>1, KeptFold
  <2> QED BY <2>2 DEF Started, KeptTrace
<1> HIDE DEF order, N
<1> DEFINE P == {n \in 0 .. N : /\ Balanced(i, f[n]) /\ Modest(i, f[n])
                                /\ \A k \in 1 .. N : k <= n => RunsIn(i, order[k]) <= f[n].plan[order[k]]}
<1>3. 0 \in P
  BY <1>1, <1>2, MinimaOK, MinimaModest
<1>4. ASSUME NEW n \in 1 .. N, n - 1 \in P PROVE n \in P
  <2> DEFINE s == f[n - 1]
             c == order[n]
             t == f[n]
  <2>1. s \in PlanState(i) /\ c \in Preferred(i) /\ t = Preallocate(i, s, c) /\ n \in 0 .. N
        /\ t \in PlanState(i)
    BY <1>1, <1>2
  <2>2. /\ Balanced(i, s) /\ Modest(i, s)
        /\ \A k \in 1 .. N : k <= n - 1 => RunsIn(i, order[k]) <= s.plan[order[k]]
    BY <1>4
  <2> HIDE DEF s, t
  <2>3. Balanced(i, t)
    <3> HIDE DEF c
    <3> QED BY <2>1, <2>2, PreallocateBalanced
  <2>4. /\ Modest(i, t) /\ t.plan[c] >= RunsIn(i, c)
        /\ \A d \in i.available : t.plan[d] >= s.plan[d]
    <3> HIDE DEF c
    <3>1. PreallocateStep(i, s, c, t)
      BY <2>1, PreallocateDoes
    <3> QED BY <2>1, <2>2, <3>1, PreallocateKeeps
  <2>5. ASSUME NEW k \in 1 .. N, k <= n PROVE RunsIn(i, order[k]) <= t.plan[order[k]]
    <3> DEFINE d == order[k]
    <3>1. d \in Preferred(i)
      BY <1>1
    <3>3. k = n \/ k <= n - 1
      BY <1>1, <2>5
    <3>4. k = n => d = c
      OBVIOUS
    <3>5. k <= n - 1 => RunsIn(i, d) <= s.plan[d]
      BY <2>2
    <3> HIDE DEF d, c
    <3>2. RunsIn(i, d) \in Int /\ s.plan[d] \in Int /\ t.plan[d] \in Int /\ d \in i.available
      BY <2>1, <3>1, RunsInIs, StateParts
    <3>6. RunsIn(i, d) <= t.plan[d]
      BY <2>4, <3>2, <3>3, <3>4, <3>5
    <3> QED BY <3>6 DEF d
  <2> QED BY <2>1, <2>3, <2>4, <2>5 DEF t
<1>5. N \in P
  <2> HIDE DEF P
  <2>1. N \in 0 .. N
    BY <1>1
  <2> QED BY <1>1, <1>3, <1>4, <2>1, UpTo
<1> QED BY <1>1, <1>2, <1>5

\* No pass takes from a cluster what runs in it within the limits.
LEMMA PlanKept ==
  ASSUME NEW i, InputOK(i), Readable(i), ~i.rebalance
  PROVE  Kept(i, Plan(i))
<1>1. SUFFICES ASSUME Enough(i) PROVE \A c \in Preferred(i) : Plan(i).plan[c] >= RunsIn(i, c)
  BY DEF Kept, Enough, RunsIn, LeastOf
<1> DEFINE r == [c \in Preferred(i) |-> RunsIn(i, c)]
           first == Started(i)
           s == Passes(i, first)
<1>2. Floor(i, r)
  BY RunsInIs DEF Floor
<1>3. \A c \in Preferred(i) : r[c] <= first.plan[c]
  BY <1>1, StartedKeeps
<1>4. \A c \in Preferred(i) : r[c] = RunsIn(i, c)
  OBVIOUS
<1> HIDE DEF r
<1>5. PassInv(i, r, first) /\ first.passes = 0
  BY <1>3, StartedInv
<1>6. PassInv(i, r, s)
  BY <1>2, <1>5, PassesKeep
<1>7. Plan(i).plan = s.plan
  BY PlanIs
<1> HIDE DEF first, s
<1>8. ASSUME NEW c \in Preferred(i) PROVE s.plan[c] >= RunsIn(i, c)
  <2>1. r[c] <= s.plan[c] /\ s \in PlanState(i)
    BY <1>6 DEF PassInv
  <2>2. s.plan[c] \in Int /\ RunsIn(i, c) \in Int
    BY <2>1, StateParts, RunsInIs
  <2> QED BY <1>4, <2>1, <2>2
<1> QED BY <1>7, <1>8

\* Whatever the input, every cluster gets a number.
LEMMA ScheduleType ==
  ASSUME NEW i, InputOK(i)
  PROVE  schedule(i) \in [i.available -> Int]
<1> DEFINE first == Started(i)
           s == Passes(i, first)
<1>1. first \in PlanState(i)
  BY StartedOK
<1>2. s \in PlanState(i)
  <2> HIDE DEF first
  <2>1. PICK f : PassesTrace(i, first, f)
    BY <1>1, PassesFold
  <2>2. i.total \in Nat
    BY DEF InputOK
  <2>3. 2 * i.total + 2 \in 0 .. 2 * i.total + 2
    BY <2>2
  <2> QED BY <2>1, <2>3 DEF PassesTrace
<1>3. Plan(i).plan = s.plan /\ Plan(i).overflow = Trimmed(i, s)
  BY PlanIs
<1> HIDE DEF s, first
<1>4. s.plan \in [i.available -> Int] /\ s.overflow \in [i.available -> Int] /\ s.remaining \in Int
  BY <1>2 DEF PlanState
<1>5. Trimmed(i, s) \in [i.available -> Int]
  <2>1. ASSUME NEW c \in i.available PROVE Min({s.overflow[c], s.remaining}) \in Int
    <3>1. s.overflow[c] \in Int
      BY <1>4
    <3> QED BY <1>4, <3>1, MinPair
  <2> QED BY <1>4, <2>1 DEF Trimmed
<1>6. ASSUME NEW c \in i.available PROVE Plan(i).plan[c] + Plan(i).overflow[c] \in Int
  BY <1>3, <1>4, <1>5
<1> QED BY <1>6 DEF schedule

-----------------------------------------------------------------------------
(* The invariant of the scheduler                                          *)

Preferences == Specs \cup {s.spec : s \in Starts} \cup {NoSpec}
Assigned == UNION {[S -> Int] : S \in SUBSET Clusters}
Federated == [exists : BOOLEAN, placement : SUBSET Clusters, replicas : Assigned]

\* A reconciliation keeps what it has read; what it has planned follows from an input of
\* natural numbers, whatever the stores had.
WorkOK(w) ==
  /\ w \in [live : BOOLEAN, phase : {"checked", "planned"}, spec : Preferences,
            available : SUBSET Clusters, input : {w.input}, result : Assigned]
  /\ w.phase = "planned" => InputOK(w.input)

StateOK ==
  /\ room \in [Clusters -> Nat]
  /\ rsp \in [api : Preferences, cached : Preferences]
  /\ fed \in Federated /\ fedStore \in Federated
  /\ ready \in SUBSET Clusters
  /\ members \in [Clusters -> Member] /\ store \in [Clusters -> Member]
  /\ news \in SUBSET (Clusters \cup {"fed"})
  /\ types \in [api : SUBSET Kinds, cached : SUBSET Kinds]
  /\ manager \in [keys : SUBSET Kinds, running : BOOLEAN, plugins : SUBSET Kinds,
                  synced : SUBSET (Kinds \cup {"RSP"})]
  /\ manager.synced \subseteq manager.plugins \cup {"RSP"}
  /\ queue \in [pending : BOOLEAN, all : BOOLEAN]

WorksOK ==
  /\ \A w \in works : WorkOK(w)
  /\ \A v, w \in works : v.live /\ w.live => v = w

\* The scheduler runs while there is a plugin, a store is behind only where there is news,
\* and no more pods are stuck than do not run.
Fresh ==
  /\ manager.plugins # {} => manager.running
  /\ Target \in manager.synced /\ "fed" \notin news => fedStore = fed
  /\ Target \in manager.synced => \A c \in Clusters \ news :
       store[c].exists = members[c].exists /\ store[c].replicas = members[c].replicas
  /\ \A c \in Clusters : members[c].stuck <= members[c].replicas - members[c].running

\* What follows from the preference that the controller has seen, when all the pods of
\* the ready clusters run.
RunReady == \A c \in ready : members[c].running = members[c].replicas
Ideal ==
  Input(rsp.cached, ready, [c \in {d \in ready : members[d].exists} |-> members[c].running], << >>)

\* No reconciliation is to come because of what has changed.
Unprompted ==
  /\ Target \in manager.plugins /\ Target \in manager.synced
  /\ rsp.cached # NoSpec /\ fed.exists /\ ready # {}
  /\ news \cap (ready \cup {"fed"}) = {}
  /\ ~queue.pending /\ ~queue.all

Checked(w) == w.live /\ w.phase = "checked" /\ w.spec = rsp.cached /\ w.available = ready
Planned(w) ==
  /\ w.live /\ w.phase = "planned"
  /\ DOMAIN w.result = ready /\ (RunReady => w.result = schedule(Ideal))
Written == fed.placement = ready /\ (RunReady => fed.replicas = schedule(Ideal))

\* Then one is under way with what there is now, or has been written.
UpToDate == Unprompted => (\E w \in works : Checked(w)) \/ (\E w \in works : Planned(w)) \/ Written

SchedulingInv == StateOK /\ WorksOK /\ Fresh /\ UpToDate


\* Functions from clusters to numbers are what a plan may assign.
LEMMA AssignedIs ==
  /\ \A f \in Assigned : /\ f \in [DOMAIN f -> Int] /\ DOMAIN f \in SUBSET Clusters
                         /\ Replicas(f)
  /\ \A S \in SUBSET Clusters : \A f \in [S -> Int] : f \in Assigned
  /\ << >> \in Assigned
<1>1. ASSUME NEW f \in Assigned
      PROVE  f \in [DOMAIN f -> Int] /\ DOMAIN f \in SUBSET Clusters /\ Replicas(f)
  <2>1. PICK S \in SUBSET Clusters : f \in [S -> Int]
    BY DEF Assigned
  <2>2. DOMAIN f = S
    BY <2>1
  <2> QED BY <2>1, <2>2 DEF Replicas
<1>2. ASSUME NEW S \in SUBSET Clusters, NEW f \in [S -> Int] PROVE f \in Assigned
  BY DEF Assigned
<1>3. << >> \in [{} -> Int] /\ {} \in SUBSET Clusters
  OBVIOUS
<1> QED BY <1>1, <1>2, <1>3

\* The values that stand for what is not there have their types.
LEMMA NothingIs ==
  /\ NoFed \in Federated /\ NoFed.exists = FALSE
  /\ NoObject \in Member
  /\ NoObject.stuck <= NoObject.replicas - NoObject.running
  /\ NoSpec \in Preferences
  BY AssignedIs DEF NoFed, Federated, NoObject, Member, Preferences

\* What a user asks for and what is there make an input of the planner.
LEMMA SpecIs ==
  ASSUME NEW s \in Preferences
  PROVE  /\ s.total \in Nat /\ s.rebalance \in BOOLEAN
         /\ \A c \in DOMAIN s.clusters : s.clusters[c] \in Preference
<1>1. CASE s = NoSpec
  <2>1. s.total = 0 /\ s.clusters = << >>
    BY <1>1 DEF NoSpec
  <2>2. s.total \in Nat /\ s.rebalance \in BOOLEAN
    BY <1>1 DEF NoSpec
  <2>3. ASSUME NEW c \in DOMAIN s.clusters PROVE FALSE
    BY <2>1
  <2> QED BY <2>2, <2>3
<1>2. CASE s \in Specs \cup {start.spec : start \in Starts}
  BY <1>2, SpecsAssumption
<1> QED BY <1>1, <1>2 DEF Preferences

\* The planner gets an input of its type.
LEMMA InputIs ==
  ASSUME NEW s \in Preferences, NEW available \in SUBSET Clusters, NEW cur, NEW cap,
         \A c \in DOMAIN cur : cur[c] \in Nat, \A c \in DOMAIN cap : cap[c] \in Int
  PROVE  /\ InputOK(Input(s, available, cur, cap))
         /\ Input(s, available, cur, cap).available = available
<1> DEFINE i == Input(s, available, cur, cap)
           d == Defaulted(s.clusters)
<1>1. \A c \in DOMAIN d : d[c] \in Preference
  <2>1. CASE s.clusters = << >>
    <3>1. [weight |-> 1, minimum |-> 0, maxima |-> {}] \in Preference
      BY DEF Preference
    <3> QED BY <2>1, <3>1 DEF Defaulted
  <2>2. CASE s.clusters # << >>
    BY <2>2, SpecIs DEF Defaulted
  <2> QED BY <2>1, <2>2
<1>2. i = [total |-> s.total, rebalance |-> s.rebalance, clusters |-> d,
           available |-> available, current |-> cur, capacity |-> cap]
  BY DEF Input
<1> HIDE DEF d, i
<1>3. /\ i.total = s.total /\ i.rebalance = s.rebalance /\ i.clusters = d
      /\ i.available = available /\ i.current = cur /\ i.capacity = cap
  BY <1>2
<1>4. InputOK(i)
  BY <1>1, <1>3, SpecIs DEF InputOK
<1> QED BY <1>3, <1>4 DEF i


\* The first states.
LEMMA InitState ==
  ASSUME Init
  PROVE  StateOK /\ WorksOK /\ Fresh
<1>1. PICK s \in Starts :
    /\ room = s.room
    /\ ready = s.ready
    /\ members = [c \in Clusters |->
         IF c \notin DOMAIN s.replicas THEN NoObject
         ELSE LET fits == Least(s.replicas[c], s.room[c])
              IN  [exists |-> TRUE, replicas |-> s.replicas[c], running |-> fits,
                   stuck |-> s.replicas[c] - fits]]
    /\ fed = [exists |-> TRUE, placement |-> DOMAIN s.replicas, replicas |-> s.replicas]
    /\ news = {}
    /\ works = {}
    /\ IF s.plugins = {}
       THEN /\ rsp = [api |-> s.spec, cached |-> NoSpec]
            /\ fedStore = NoFed
            /\ store = [c \in Clusters |-> NoObject]
            /\ types = [api |-> s.types, cached |-> s.types]
            /\ manager = [keys |-> s.types, running |-> FALSE, plugins |-> {}, synced |-> {}]
            /\ queue = [pending |-> FALSE, all |-> FALSE]
       ELSE /\ rsp = [api |-> s.spec, cached |-> s.spec]
            /\ fedStore = fed
            /\ store = members
            /\ types = [api |-> s.types, cached |-> s.plugins]
            /\ manager = [keys |-> {}, running |-> TRUE, plugins |-> s.plugins,
                          synced |-> s.plugins \cup {"RSP"}]
            /\ queue = [pending |-> TRUE, all |-> FALSE]
  BY DEF Init
<1>2. /\ s.room \in [Clusters -> Nat] /\ s.ready \subseteq Clusters
      /\ DOMAIN s.replicas \subseteq Clusters /\ s.replicas \in [DOMAIN s.replicas -> Nat]
      /\ s.types \subseteq Kinds /\ s.plugins \subseteq Kinds
  BY StartsAssumption
<1>3. s.spec \in Preferences /\ NoSpec \in Preferences
  BY DEF Preferences
<1>4. s.replicas \in Assigned
  <2>1. s.replicas \in [DOMAIN s.replicas -> Int]
    BY <1>2
  <2> QED BY <1>2, <2>1, AssignedIs
<1>5. ASSUME NEW c \in Clusters
      PROVE  members[c] \in Member /\ members[c].stuck <= members[c].replicas - members[c].running
  <2>1. CASE c \notin DOMAIN s.replicas
    BY <1>1, <2>1, NothingIs
  <2>2. CASE c \in DOMAIN s.replicas
    <3> DEFINE n == s.replicas[c]
               fits == Least(s.replicas[c], s.room[c])
    <3>1. n \in Nat /\ fits \in Nat /\ fits <= n
      BY <1>2, <2>2 DEF Least
    <3> HIDE DEF n, fits
    <3>2. members[c] = [exists |-> TRUE, replicas |-> n, running |-> fits, stuck |-> n - fits]
      BY <1>1, <2>2 DEF n, fits
    <3>3. n - fits \in Nat
      BY <3>1
    <3> QED BY <3>1, <3>2, <3>3 DEF Member
  <2> QED BY <2>1, <2>2
<1>6. members \in [Clusters -> Member]
  BY <1>1, <1>5
<1>7. fed \in Federated
  BY <1>1, <1>2, <1>4 DEF Federated
<1>8. [c \in Clusters |-> NoObject] \in [Clusters -> Member]
  BY NothingIs
<1>9. StateOK
  <2>1. /\ room \in [Clusters -> Nat] /\ ready \in SUBSET Clusters
        /\ news \in SUBSET (Clusters \cup {"fed"})
    BY <1>1, <1>2
  <2>2. fedStore \in Federated /\ store \in [Clusters -> Member]
    BY <1>1, <1>6, <1>7, <1>8, NothingIs
  <2>3. rsp \in [api : Preferences, cached : Preferences]
    BY <1>1, <1>3
  <2>4. types \in [api : SUBSET Kinds, cached : SUBSET Kinds]
    BY <1>1, <1>2
  <2>5. /\ manager \in [keys : SUBSET Kinds, running : BOOLEAN, plugins : SUBSET Kinds,
                        synced : SUBSET (Kinds \cup {"RSP"})]
        /\ manager.synced \subseteq manager.plugins \cup {"RSP"}
    <3>1. CASE s.plugins = {}
      <4>1. manager = [keys |-> s.types, running |-> FALSE, plugins |-> {}, synced |-> {}]
        BY <1>1, <3>1
      <4> QED BY <1>2, <4>1
    <3>2. CASE s.plugins # {}
      <4>1. manager = [keys |-> {}, running |-> TRUE, plugins |-> s.plugins,
                       synced |-> s.plugins \cup {"RSP"}]
        BY <1>1, <3>2
      <4> QED BY <1>2, <4>1
    <3> QED BY <3>1, <3>2
  <2>6. queue \in [pending : BOOLEAN, all : BOOLEAN]
    <3>1. queue = [pending |-> FALSE, all |-> FALSE] \/ queue = [pending |-> TRUE, all |-> FALSE]
      BY <1>1
    <3>2. CASE queue = [pending |-> FALSE, all |-> FALSE]
      BY <3>2
    <3>3. CASE queue = [pending |-> TRUE, all |-> FALSE]
      BY <3>3
    <3> QED BY <3>1, <3>2, <3>3
  <2> QED BY <1>6, <1>7, <2>1, <2>2, <2>3, <2>4, <2>5, <2>6 DEF StateOK
<1>10. WorksOK
  BY <1>1 DEF WorksOK
<1>11. Fresh
  <2>1. manager.plugins # {} => manager.running
    BY <1>1
  <2>2. Target \in manager.synced => fedStore = fed /\ store = members
    BY <1>1
  <2> QED BY <1>5, <2>1, <2>2 DEF Fresh
<1> QED BY <1>9, <1>10, <1>11

\* Pods of an object that has changed.
LEMMA PropagatedIs ==
  ASSUME StateOK, NEW c \in Clusters, Sync(c)
  PROVE  /\ Propagated(c) \in Member
         /\ Propagated(c).stuck <= Propagated(c).replicas - Propagated(c).running
<1>1. CASE c \notin fed.placement
  BY <1>1, NothingIs DEF Propagated
<1>2. CASE c \in fed.placement
  <2> DEFINE n == IF c \in DOMAIN fed.replicas THEN fed.replicas[c] ELSE Template
             run == Least(members[c].running, n)
             hung == Least(members[c].stuck, n - run)
  <2>1. n \in Nat
    <3>1. fed.replicas \in Assigned
      BY DEF StateOK, Federated
    <3>2. c \in DOMAIN fed.replicas => fed.replicas[c] \in Int
      BY <3>1, AssignedIs
    <3>3. c \in DOMAIN fed.replicas => fed.replicas[c] >= 0
      BY <1>2 DEF Sync
    <3> QED BY <3>2, <3>3, TemplateAssumption
  <2>2. members[c].running \in Nat /\ members[c].stuck \in Nat
    BY DEF StateOK, Member
  <2>3. Propagated(c) = [exists |-> TRUE, replicas |-> n, running |-> run, stuck |-> hung]
    BY <1>2 DEF Propagated
  <2> HIDE DEF n
  <2>4. run \in Nat /\ run <= n
    BY <2>1, <2>2 DEF Least
  <2> HIDE DEF run
  <2>5. hung \in Nat /\ hung <= n - run
    BY <2>1, <2>2, <2>4 DEF Least
  <2> HIDE DEF hung
  <2> QED BY <2>1, <2>3, <2>4, <2>5 DEF Member
<1> QED BY <1>1, <1>2


\* Whatever is assigned to the fields of the queue is a Boolean.
LEMMA QueueIs ==
  ASSUME queue \in [pending : BOOLEAN, all : BOOLEAN], NEW p \in BOOLEAN
  PROVE  /\ [queue EXCEPT !.pending = p] \in [pending : BOOLEAN, all : BOOLEAN]
         /\ [queue EXCEPT !.all = p] \in [pending : BOOLEAN, all : BOOLEAN]
         /\ [queue EXCEPT !.pending = p].pending = p /\ [queue EXCEPT !.pending = p].all = queue.all
         /\ [queue EXCEPT !.all = p].all = p /\ [queue EXCEPT !.all = p].pending = queue.pending
         /\ [pending |-> p, all |-> FALSE] \in [pending : BOOLEAN, all : BOOLEAN]
  OBVIOUS

\* Users and clusters change what is of its type.
LEMMA UserChangesState ==
  ASSUME StateOK, UserChanges PROVE StateOK'
<1>1. UNCHANGED <<room, fedStore, members, store, manager, works>>
  BY DEF UserChanges
<1>2. queue' \in [pending : BOOLEAN, all : BOOLEAN]
  BY QueueIs DEF StateOK, UserChanges
<1>3. news' \in SUBSET (Clusters \cup {"fed"})
  BY DEF StateOK, UserChanges
<1>4. rsp' \in [api : Preferences, cached : Preferences]
  <2>1. ASSUME NEW s \in Specs \cup {NoSpec}, rsp' = [rsp EXCEPT !.api = s]
        PROVE  rsp' \in [api : Preferences, cached : Preferences]
    <3>1. s \in Preferences
      BY DEF Preferences
    <3> QED BY <2>1, <3>1 DEF StateOK
  <2> QED BY <2>1 DEF StateOK, UserChanges
<1>5. fed' \in Federated
  <2>1. CASE fed' = IF fed.exists THEN NoFed ELSE [NoFed EXCEPT !.exists = TRUE]
    <3>1. NoFed \in Federated /\ [NoFed EXCEPT !.exists = TRUE] \in Federated
      BY AssignedIs DEF NoFed, Federated
    <3> QED BY <2>1, <3>1
  <2>2. ASSUME NEW c \in fed.placement, fed' = [fed EXCEPT !.placement = @ \ {c}] PROVE fed' \in Federated
    BY <2>2 DEF StateOK, Federated
  <2>3. CASE UNCHANGED fed
    BY <2>3 DEF StateOK
  <2> QED BY <2>1, <2>2, <2>3 DEF UserChanges
<1>6. ready' \in SUBSET Clusters
  BY DEF StateOK, UserChanges, SymDiff
<1>7. types' \in [api : SUBSET Kinds, cached : SUBSET Kinds]
  <2>1. ASSUME NEW k \in Kinds, types' = [types EXCEPT !.api = SymDiff(@, {k})]
        PROVE  types' \in [api : SUBSET Kinds, cached : SUBSET Kinds]
    BY <2>1 DEF StateOK, SymDiff
  <2> QED BY <2>1 DEF StateOK, UserChanges
<1> QED BY <1>1, <1>2, <1>3, <1>4, <1>5, <1>6, <1>7 DEF StateOK

\* So do the members and their informers.
LEMMA MembersState ==
  ASSUME StateOK, NEW c \in Clusters, Sync(c) \/ PodsRun(c) \/ PodsStuck(c) \/ TargetInformed(c)
  PROVE  StateOK'
<1>1. CASE Sync(c)
  <2>1. members' \in [Clusters -> Member]
    BY <1>1, PropagatedIs DEF Sync, StateOK
  <2>2. news' \in SUBSET (Clusters \cup {"fed"})
    BY <1>1 DEF Sync, StateOK
  <2> QED BY <1>1, <2>1, <2>2 DEF Sync, StateOK
<1>m. members[c] \in Member /\ room[c] \in Nat
  BY DEF StateOK
<1>n. members[c].replicas \in Int /\ members[c].running \in Nat /\ members[c].stuck \in Nat
  BY <1>m DEF Member
<1>2. CASE PodsRun(c)
  <2> DEFINE fits == Least(members[c].replicas, room[c])
             m == [members[c] EXCEPT !.running = fits, !.stuck = 0]
  <2>1. fits \in Nat
    BY <1>2, <1>m, <1>n DEF PodsRun, Least
  <2>2. members' = [members EXCEPT ![c] = m]
    BY <1>2 DEF PodsRun, StateOK
  <2> HIDE DEF fits
  <2>3. m \in Member
    BY <1>m, <2>1 DEF Member
  <2> HIDE DEF m
  <2>4. members' \in [Clusters -> Member]
    BY <2>2, <2>3 DEF StateOK
  <2>5. news' \in SUBSET (Clusters \cup {"fed"})
    BY <1>2 DEF PodsRun, StateOK
  <2> QED BY <1>2, <2>4, <2>5 DEF PodsRun, StateOK
<1>3. CASE PodsStuck(c)
  <2> DEFINE rest == members[c].replicas - members[c].running
             m == [members[c] EXCEPT !.stuck = rest]
  <2>1. rest \in Nat
    BY <1>3, <1>n DEF PodsStuck
  <2>2. members' = [members EXCEPT ![c] = m]
    BY <1>3 DEF PodsStuck, StateOK
  <2> HIDE DEF rest
  <2>3. m \in Member
    BY <1>m, <2>1 DEF Member
  <2> HIDE DEF m
  <2>4. members' \in [Clusters -> Member]
    BY <2>2, <2>3 DEF StateOK
  <2> QED BY <1>3, <2>4 DEF PodsStuck, StateOK
<1>4. CASE TargetInformed(c)
  <2>1. queue' \in [pending : BOOLEAN, all : BOOLEAN]
    BY <1>4, QueueIs DEF TargetInformed, StateOK
  <2>2. store' \in [Clusters -> Member] /\ news' \in SUBSET (Clusters \cup {"fed"})
    BY <1>4 DEF TargetInformed, StateOK
  <2> QED BY <1>4, <2>1, <2>2 DEF TargetInformed, StateOK
<1> QED BY <1>1, <1>2, <1>3, <1>4


\* What the manager has running.
ManagerOK(m) ==
  /\ m \in [keys : SUBSET Kinds, running : BOOLEAN, plugins : SUBSET Kinds,
            synced : SUBSET (Kinds \cup {"RSP"})]
  /\ m.synced \subseteq m.plugins \cup {"RSP"}

\* What the manager keeps.
LEMMA StateManager ==
  ASSUME StateOK PROVE ManagerOK(manager)
  BY DEF StateOK, ManagerOK

\* A step that leaves the members alone has only these types to keep.
LEMMA StateChanges ==
  ASSUME StateOK, UNCHANGED <<room, ready, members>>, ManagerOK(manager'),
         rsp' \in [api : Preferences, cached : Preferences],
         fed' \in Federated, fedStore' \in Federated, store' \in [Clusters -> Member],
         news' \in SUBSET (Clusters \cup {"fed"}),
         types' \in [api : SUBSET Kinds, cached : SUBSET Kinds],
         queue' \in [pending : BOOLEAN, all : BOOLEAN]
  PROVE  StateOK'
  BY DEF StateOK, ManagerOK

\* The types a step may rely on.
LEMMA StateRest ==
  ASSUME StateOK
  PROVE  /\ rsp \in [api : Preferences, cached : Preferences]
         /\ fed \in Federated /\ fedStore \in Federated /\ store \in [Clusters -> Member]
         /\ members \in [Clusters -> Member] /\ ready \in SUBSET Clusters
         /\ news \in SUBSET (Clusters \cup {"fed"})
         /\ types \in [api : SUBSET Kinds, cached : SUBSET Kinds]
         /\ queue \in [pending : BOOLEAN, all : BOOLEAN]
  BY DEF StateOK

\* The steps of the scheduling manager and its plugins keep the types.
LEMMA TypesState ==
  ASSUME StateOK, NEW k \in Kinds, TypeInformed(k) \/ reconcileType(k) \/ PluginSyncs(k)
  PROVE  StateOK'
<1>1. ManagerOK(manager)
  BY StateManager
<1>2. CASE TypeInformed(k)
  <2>1. ManagerOK(manager')
    BY <1>1, <1>2 DEF TypeInformed, ManagerOK
  <2>2. types' \in [api : SUBSET Kinds, cached : SUBSET Kinds]
    BY <1>2, StateRest DEF TypeInformed, SymDiff
  <2> QED BY <1>2, <2>1, <2>2, StateRest, StateChanges DEF TypeInformed
<1>3. CASE reconcileType(k) /\ startPlugin(k)
  <2>1. UNCHANGED <<room, fed, ready, members, types, fedStore, store, news, works, rsp>>
    BY <1>3 DEF reconcileType, startPlugin
  <2>2. queue' = queue
    BY <1>3 DEF startPlugin
  <2>3. ManagerOK(manager')
    <3>1. CASE UNCHANGED manager
      BY <1>1, <3>1
    <3>2. CASE manager' = [manager EXCEPT !.running = TRUE]
      BY <1>1, <3>2 DEF ManagerOK
    <3>3. CASE manager' = [manager EXCEPT !.running = TRUE, !.plugins = @ \cup {k}, !.keys = @ \ {k}]
      BY <1>1, <3>3 DEF ManagerOK
    <3> QED BY <1>3, <3>1, <3>2, <3>3 DEF startPlugin
  <2> QED BY <2>1, <2>2, <2>3, StateRest, StateChanges
<1>4. CASE reconcileType(k) /\ stopScheduler(k)
  <2>1. UNCHANGED <<room, fed, ready, members, types, news>>
    BY <1>4 DEF reconcileType, stopScheduler, StopPlugin
  <2>2. ManagerOK(manager')
    <3> DEFINE left == manager.plugins \ {k}
               stops == manager.running /\ Stopped(left)
               run == manager.running /\ ~stops
               synced == IF stops THEN {} ELSE manager.synced \ {k}
    <3>1. manager' = [keys |-> manager.keys \ {k}, running |-> run, plugins |-> left, synced |-> synced]
      BY <1>4 DEF stopScheduler
    <3>2. run \in BOOLEAN
      OBVIOUS
    <3>3. synced \subseteq left \cup {"RSP"} /\ left \subseteq Kinds /\ manager.keys \subseteq Kinds
      BY <1>1 DEF ManagerOK
    <3> HIDE DEF left, run, synced
    <3> QED BY <3>1, <3>2, <3>3 DEF ManagerOK
  <2>3. fedStore' \in Federated /\ store' \in [Clusters -> Member]
    <3>1. [c \in Clusters |-> NoObject] \in [Clusters -> Member] /\ NoFed \in Federated
      BY NothingIs
    <3> QED BY <1>4, <3>1, StateRest DEF stopScheduler, StopPlugin
  <2>4. queue' \in [pending : BOOLEAN, all : BOOLEAN]
    <3>1. queue' = [pending |-> FALSE, all |-> FALSE] \/ queue' = queue
      BY <1>4 DEF stopScheduler
    <3>2. CASE queue' = [pending |-> FALSE, all |-> FALSE]
      BY <3>2
    <3>3. CASE queue' = queue
      BY <3>3, StateRest
    <3> QED BY <3>1, <3>2, <3>3
  <2>5. rsp' \in [api : Preferences, cached : Preferences]
    <3>1. rsp' = [rsp EXCEPT !.cached = NoSpec] \/ rsp' = rsp
      BY <1>4 DEF stopScheduler
    <3>2. NoSpec \in Preferences
      BY NothingIs
    <3> QED BY <3>1, <3>2, StateRest
  <2> QED BY <2>1, <2>2, <2>3, <2>4, <2>5, StateRest, StateChanges
<1>5. CASE PluginSyncs(k)
  <2>1. UNCHANGED <<room, rsp, fed, ready, members, types>>
    BY <1>5 DEF PluginSyncs
  <2>2. ManagerOK(manager')
    BY <1>1, <1>5 DEF PluginSyncs, ManagerOK
  <2>3. /\ store' \in [Clusters -> Member] /\ fedStore' \in Federated
        /\ news' \in SUBSET (Clusters \cup {"fed"})
    BY <1>5, StateRest DEF PluginSyncs
  <2>4. queue' \in [pending : BOOLEAN, all : BOOLEAN]
    <3> DEFINE p == queue.pending \/ fed.exists \/ \E c \in Clusters : members[c].exists
    <3>1. p \in BOOLEAN
      OBVIOUS
    <3>2. queue' = [queue EXCEPT !.pending = p] \/ queue' = queue
      BY <1>5 DEF PluginSyncs
    <3> HIDE DEF p
    <3> QED BY <3>1, <3>2, StateRest, QueueIs
  <2> QED BY <2>1, <2>2, <2>3, <2>4, StateRest, StateChanges
<1> QED BY <1>2, <1>3, <1>4, <1>5 DEF reconcileType

\* The steps of the preference controller keep them.
LEMMA ControllerState ==
  ASSUME StateOK, RSPInformed \/ FederatedInformed \/ reconcileOnClusterChange \/ Check
  PROVE  StateOK'
<1>1. ManagerOK(manager)
  BY StateManager
<1>2. CASE RSPInformed
  <2>1. ManagerOK(manager')
    BY <1>1, <1>2 DEF RSPInformed, ManagerOK
  <2>2. rsp' \in [api : Preferences, cached : Preferences]
    BY <1>2, StateRest DEF RSPInformed
  <2>3. queue' \in [pending : BOOLEAN, all : BOOLEAN]
    <3> DEFINE p == queue.pending \/ rsp.cached # rsp.api
    <3>1. p \in BOOLEAN
      OBVIOUS
    <3>2. queue' = [queue EXCEPT !.pending = p]
      BY <1>2 DEF RSPInformed
    <3> HIDE DEF p
    <3> QED BY <3>1, <3>2, StateRest, QueueIs
  <2> QED BY <1>2, <2>1, <2>2, <2>3, StateRest, StateChanges DEF RSPInformed
<1>3. CASE FederatedInformed
  <2>1. queue' \in [pending : BOOLEAN, all : BOOLEAN] /\ news' \in SUBSET (Clusters \cup {"fed"})
    BY <1>3, StateRest, QueueIs DEF FederatedInformed
  <2> QED BY <1>1, <1>3, <2>1, StateRest, StateChanges DEF FederatedInformed
<1>4. CASE reconcileOnClusterChange
  <2>1. queue' \in [pending : BOOLEAN, all : BOOLEAN]
    <3> DEFINE p == queue.pending \/ rsp.cached # NoSpec
    <3>1. p \in BOOLEAN
      OBVIOUS
    <3>2. queue' = [pending |-> p, all |-> FALSE]
      BY <1>4 DEF reconcileOnClusterChange
    <3> HIDE DEF p
    <3> QED BY <3>1, <3>2, StateRest, QueueIs
  <2> QED BY <1>1, <1>4, <2>1, StateRest, StateChanges DEF reconcileOnClusterChange
<1>5. CASE Check
  <2>1. queue' \in [pending : BOOLEAN, all : BOOLEAN]
    BY <1>5, StateRest, QueueIs DEF Check
  <2> QED BY <1>1, <1>5, <2>1, StateRest, StateChanges DEF Check
<1> QED BY <1>2, <1>3, <1>4, <1>5


\* What a reconciliation finds makes an input of the planner.
LEMMA FoundIs ==
  ASSUME StateOK, NEW w, WorkOK(w)
  PROVE  LET i == Input(w.spec, w.available, current(w), estimatedCapacity(w))
         IN  /\ InputOK(i) /\ schedule(i) \in [w.available -> Int] /\ schedule(i) \in Assigned
<1> DEFINE cur == current(w)
           cap == estimatedCapacity(w)
           i == Input(w.spec, w.available, cur, cap)
<1>1. w.available \in SUBSET Clusters /\ w.spec \in Preferences
  BY DEF WorkOK
<1>2. members \in [Clusters -> Member] /\ store \in [Clusters -> Member]
  BY StateRest
<1>3. ASSUME NEW c \in DOMAIN cur PROVE cur[c] \in Nat
  <2>1. c \in Clusters
    BY <1>1 DEF current, Found
  <2>2. members[c].running \in Nat
    BY <1>2, <2>1 DEF Member
  <2> QED BY <2>2 DEF current
<1>4. ASSUME NEW c \in DOMAIN cap PROVE cap[c] \in Int
  <2>1. c \in Clusters
    BY <1>1 DEF estimatedCapacity, Found
  <2>2. members[c].stuck \in Nat /\ store[c].replicas \in Int
    BY <1>2, <2>1 DEF Member
  <2> QED BY <2>2 DEF estimatedCapacity
<1> HIDE DEF cur, cap
<1>5. InputOK(i) /\ i.available = w.available
  BY <1>1, <1>3, <1>4, InputIs
<1> HIDE DEF i
<1>6. schedule(i) \in [w.available -> Int]
  BY <1>5, ScheduleType
<1>7. schedule(i) \in Assigned
  BY <1>1, <1>6, AssignedIs
<1> QED BY <1>5, <1>6, <1>7 DEF i, cur, cap

\* The steps of a reconciliation keep them.
LEMMA WorkState ==
  ASSUME StateOK, WorksOK, NEW w \in works, GetSchedulingResult(w) \/ ReconcilePlugin(w)
  PROVE  StateOK'
<1>1. ManagerOK(manager)
  BY StateManager
<1>2. UNCHANGED <<room, rsp, fedStore, ready, members, store, types, manager>>
  BY DEF GetSchedulingResult, ReconcilePlugin
<1>3. queue' \in [pending : BOOLEAN, all : BOOLEAN]
  <2> DEFINE p == queue.pending \/ (w.live /\ ~FALSE)
  <2>1. p \in BOOLEAN
    OBVIOUS
  <2>2. queue' = [queue EXCEPT !.pending = p] \/ queue' = queue
    BY DEF GetSchedulingResult, ReconcilePlugin, Returns
  <2> HIDE DEF p
  <2> QED BY <2>1, <2>2, StateRest, QueueIs
<1>4. news' \in SUBSET (Clusters \cup {"fed"})
  BY StateRest DEF GetSchedulingResult, ReconcilePlugin
<1>5. fed' \in Federated
  <2>1. CASE fed' = [fed EXCEPT !.placement = DOMAIN w.result, !.replicas = w.result]
    <3>1. w.result \in Assigned /\ DOMAIN w.result \in SUBSET Clusters
      BY AssignedIs DEF WorksOK, WorkOK
    <3> QED BY <2>1, <3>1, StateRest DEF Federated
  <2>2. CASE UNCHANGED fed
    BY <2>2, StateRest
  <2> QED BY <2>1, <2>2 DEF GetSchedulingResult, ReconcilePlugin
<1> QED BY <1>1, <1>2, <1>3, <1>4, <1>5, StateRest, StateChanges

\* Every step keeps the types.
LEMMA StateStep ==
  ASSUME StateOK, WorksOK, [Next]_vars
  PROVE  StateOK'
<1>1. CASE UNCHANGED vars
  BY <1>1 DEF vars, StateOK
<1>2. CASE UserChanges
  BY <1>2, UserChangesState
<1>3. CASE \E c \in Clusters : Sync(c) \/ PodsRun(c) \/ PodsStuck(c) \/ TargetInformed(c)
  BY <1>3, MembersState
<1>4. CASE \E k \in Kinds : TypeInformed(k) \/ reconcileType(k) \/ PluginSyncs(k)
  BY <1>4, TypesState
<1>5. CASE RSPInformed \/ FederatedInformed \/ reconcileOnClusterChange \/ Check
  BY <1>5, ControllerState
<1>6. CASE \E w \in works : GetSchedulingResult(w) \/ ReconcilePlugin(w)
  BY <1>6, WorkState
<1> QED BY <1>1, <1>2, <1>3, <1>4, <1>5, <1>6 DEF Next

\* A reconciliation that is stopped.
LEMMA Dies ==
  ASSUME NEW w, WorkOK(w)
  PROVE  WorkOK([w EXCEPT !.live = FALSE]) /\ ~[w EXCEPT !.live = FALSE].live
<1> DEFINE v == [w EXCEPT !.live = FALSE]
<1>1. v \in [live : BOOLEAN, phase : {"checked", "planned"}, spec : Preferences,
             available : SUBSET Clusters, input : {w.input}, result : Assigned]
  BY DEF WorkOK
<1>2. v.input = w.input /\ v.phase = w.phase
  BY DEF WorkOK
<1>3. ~v.live
  BY DEF WorkOK
<1> HIDE DEF v
<1>4. WorkOK(v)
  BY <1>1, <1>2 DEF WorkOK
<1> QED BY <1>3, <1>4 DEF v

\* One that has its plan.
WithPlan(w, i, r) == [w EXCEPT !.phase = "planned", !.input = i, !.result = r]

\* A work that has planned.
LEMMA Plans ==
  ASSUME NEW w, WorkOK(w), NEW i, InputOK(i), NEW r \in Assigned
  PROVE  /\ WorkOK(WithPlan(w, i, r)) /\ WithPlan(w, i, r).live = w.live
         /\ WithPlan(w, i, r).phase = "planned" /\ WithPlan(w, i, r).input = i
         /\ WithPlan(w, i, r).result = r
<1> DEFINE v == WithPlan(w, i, r)
<1>1. v \in [live : BOOLEAN, phase : {"checked", "planned"}, spec : Preferences,
             available : SUBSET Clusters, input : {i}, result : Assigned]
  BY DEF WorkOK, WithPlan
<1>2. v.live = w.live /\ v.phase = "planned" /\ v.input = i /\ v.result = r
  BY DEF WorkOK, WithPlan
<1> HIDE DEF v
<1>3. WorkOK(v)
  BY <1>1, <1>2 DEF WorkOK
<1> QED BY <1>2, <1>3 DEF v

\* Every work stays one that the code can be in.
LEMMA WorksStep ==
  ASSUME StateOK, WorksOK, [Next]_vars
  PROVE  WorksOK'
<1>1. CASE UNCHANGED works
  BY <1>1 DEF WorksOK, WorkOK
<1>2. CASE works' = {[w EXCEPT !.live = FALSE] : w \in works}
  <2>1. ASSUME NEW v \in works' PROVE WorkOK(v) /\ ~v.live
    <3>1. PICK w \in works : v = [w EXCEPT !.live = FALSE]
      BY <1>2
    <3>2. WorkOK(w)
      BY DEF WorksOK
    <3> QED BY <3>1, <3>2, Dies
  <2>2. \A v \in works' : WorkOK(v)'
    BY <2>1 DEF WorkOK
  <2> QED BY <2>1, <2>2 DEF WorksOK
<1>3. CASE Check
  <2> DEFINE v == [live |-> TRUE, phase |-> "checked", spec |-> rsp.cached,
                   available |-> ready, input |-> << >>, result |-> << >>]
  <2>1. works' \subseteq works \cup {v} /\ \A w \in works : ~w.live
    BY <1>3 DEF Check
  <2>2. WorkOK(v)
    BY StateRest, AssignedIs DEF WorkOK
  <2> HIDE DEF v
  <2>3. \A w \in works' : WorkOK(w)
    BY <2>1, <2>2 DEF WorksOK
  <2>4. \A w \in works' : w.live => w = v
    BY <2>1
  <2> QED BY <2>3, <2>4 DEF WorksOK, WorkOK
<1>4. ASSUME NEW w \in works, GetSchedulingResult(w) \/ ReconcilePlugin(w)
      PROVE  WorksOK'
  <2>1. CASE works' = works \ {w}
    BY <2>1 DEF WorksOK, WorkOK
  <2>2. CASE LET i == Input(w.spec, w.available, current(w), estimatedCapacity(w))
             IN  works' = (works \ {w}) \cup
                   {[w EXCEPT !.phase = "planned", !.input = i, !.result = schedule(i)]}
    <3> DEFINE i == Input(w.spec, w.available, current(w), estimatedCapacity(w))
               r == schedule(i)
               v == WithPlan(w, i, r)
    <3>1. WorkOK(w)
      BY DEF WorksOK
    <3>2. InputOK(i) /\ r \in Assigned
      BY <3>1, FoundIs
    <3>3. works' = (works \ {w}) \cup {v}
      BY <2>2 DEF WithPlan
    <3> HIDE DEF i, r
    <3>4. WorkOK(v) /\ v.live = w.live
      BY <3>1, <3>2, Plans
    <3> HIDE DEF v
    <3>5. \A u \in works' : WorkOK(u)
      BY <3>3, <3>4 DEF WorksOK
    <3>6. ASSUME NEW u \in works', NEW x \in works', u.live, x.live PROVE u = x
      <4>1. CASE u = v /\ x # v
        <5>1. x \in works \ {w} /\ w.live
          BY <3>3, <3>4, <3>6, <4>1
        <5> QED BY <3>6, <5>1 DEF WorksOK
      <4>2. CASE u # v /\ x = v
        <5>1. u \in works \ {w} /\ w.live
          BY <3>3, <3>4, <3>6, <4>2
        <5> QED BY <3>6, <5>1 DEF WorksOK
      <4>3. CASE u # v /\ x # v
        BY <3>3, <3>6, <4>3 DEF WorksOK
      <4> QED BY <4>1, <4>2, <4>3
    <3> QED BY <3>5, <3>6 DEF WorksOK, WorkOK
  <2> QED BY <1>4, <2>1, <2>2 DEF GetSchedulingResult, ReconcilePlugin
<1>5. CASE UserChanges
  BY <1>1, <1>5 DEF UserChanges
<1>6. CASE \E c \in Clusters : Sync(c) \/ PodsRun(c) \/ PodsStuck(c) \/ TargetInformed(c)
  BY <1>1, <1>6 DEF Sync, PodsRun, PodsStuck, TargetInformed
<1>7. CASE \E k \in Kinds : TypeInformed(k) \/ reconcileType(k) \/ PluginSyncs(k)
  <2>1. UNCHANGED works \/ works' = {[w EXCEPT !.live = FALSE] : w \in works}
    BY <1>7 DEF TypeInformed, reconcileType, PluginSyncs, startPlugin, stopScheduler
  <2> QED BY <1>1, <1>2, <2>1
<1>8. CASE RSPInformed \/ FederatedInformed \/ reconcileOnClusterChange
  BY <1>1, <1>8 DEF RSPInformed, FederatedInformed, reconcileOnClusterChange
<1>9. CASE UNCHANGED vars
  BY <1>1, <1>9 DEF vars
<1> QED BY <1>3, <1>4, <1>5, <1>6, <1>7, <1>8, <1>9 DEF Next


\* The parts of Fresh that a step leaves alone.
FedFresh == Target \in manager.synced /\ "fed" \notin news => fedStore = fed
StoreFresh ==
  Target \in manager.synced => \A c \in Clusters \ news :
    store[c].exists = members[c].exists /\ store[c].replicas = members[c].replicas
NotStuck == \A c \in Clusters : members[c].stuck <= members[c].replicas - members[c].running

\* The parts of Fresh, one by one.
LEMMA FreshParts ==
  Fresh <=> (manager.plugins # {} => manager.running) /\ FedFresh /\ StoreFresh /\ NotStuck
  BY DEF Fresh, FedFresh, StoreFresh, NotStuck

\* What a member changes is news until the informer has it.
LEMMA MembersFresh ==
  ASSUME StateOK, Fresh, NEW c \in Clusters,
         Sync(c) \/ PodsRun(c) \/ PodsStuck(c) \/ TargetInformed(c)
  PROVE  Fresh'
<1>1. UNCHANGED <<manager, fed, fedStore>>
  BY DEF Sync, PodsRun, PodsStuck, TargetInformed
<1>2. "fed" \notin news' => "fed" \notin news
  BY ClustersAssumption DEF Sync, PodsRun, PodsStuck, TargetInformed
<1>3. FedFresh'
  BY <1>1, <1>2 DEF Fresh, FedFresh
<1>4. \A d \in Clusters : d # c => members'[d] = members[d] /\ store'[d] = store[d]
  BY StateRest DEF Sync, PodsRun, PodsStuck, TargetInformed
<1>5. \A d \in Clusters : d # c /\ d \notin news' => d \notin news
  BY DEF Sync, PodsRun, PodsStuck, TargetInformed
<1>m. members[c] \in Member /\ members \in [Clusters -> Member]
  BY StateRest
<1>n. members[c].replicas \in Int /\ members[c].running \in Nat /\ members[c].stuck \in Nat
  BY <1>m DEF Member
<1>6. c \in news' \/ (/\ store'[c].exists = members'[c].exists
                      /\ store'[c].replicas = members'[c].replicas)
      \/ ~(Target \in manager.synced)
  <2>1. CASE Sync(c) \/ PodsRun(c)
    BY <2>1 DEF Sync, PodsRun
  <2>2. CASE PodsStuck(c)
    <3>1. UNCHANGED <<store, news>>
      BY <2>2 DEF PodsStuck
    <3>2. members'[c].exists = members[c].exists /\ members'[c].replicas = members[c].replicas
      BY <1>m, <2>2 DEF PodsStuck, Member
    <3> QED BY <3>1, <3>2 DEF Fresh
  <2>3. CASE TargetInformed(c)
    BY <2>3, StateRest DEF TargetInformed
  <2> QED BY <2>1, <2>2, <2>3
<1>7. StoreFresh'
  <2>1. ASSUME Target \in manager.synced, NEW d \in Clusters, d \notin news'
        PROVE  store'[d].exists = members'[d].exists /\ store'[d].replicas = members'[d].replicas
    <3>1. CASE d = c
      BY <1>6, <2>1, <3>1
    <3>2. CASE d # c
      BY <1>4, <1>5, <2>1, <3>2 DEF Fresh
    <3> QED BY <3>1, <3>2
  <2> QED BY <1>1, <2>1 DEF StoreFresh
<1>8. members'[c].stuck <= members'[c].replicas - members'[c].running
  <2>1. CASE Sync(c)
    <3>1. members'[c] = Propagated(c)
      BY <1>m, <2>1 DEF Sync
    <3> QED BY <2>1, <3>1, PropagatedIs
  <2>2. CASE PodsRun(c)
    <3> DEFINE fits == Least(members[c].replicas, room[c])
    <3>1. /\ members'[c].replicas = members[c].replicas /\ members'[c].running = fits
          /\ members'[c].stuck = 0
      BY <1>m, <2>2 DEF PodsRun, Member
    <3>2. room[c] \in Nat
      BY DEF StateOK
    <3>3. fits \in Int /\ fits <= members[c].replicas
      BY <1>n, <3>2 DEF Least
    <3> HIDE DEF fits
    <3> QED BY <1>n, <3>1, <3>3
  <2>3. CASE PodsStuck(c)
    <3>1. /\ members'[c].replicas = members[c].replicas /\ members'[c].running = members[c].running
          /\ members'[c].stuck = members[c].replicas - members[c].running
      BY <1>m, <2>3 DEF PodsStuck, Member
    <3> QED BY <1>n, <3>1
  <2>4. CASE TargetInformed(c)
    BY <2>4 DEF TargetInformed, Fresh
  <2> QED BY <2>1, <2>2, <2>3, <2>4
<1>9. NotStuck'
  <2>1. ASSUME NEW d \in Clusters
        PROVE  members'[d].stuck <= members'[d].replicas - members'[d].running
    BY <1>4, <1>8 DEF Fresh
  <2> QED BY <2>1 DEF NotStuck
<1>10. manager'.plugins # {} => manager'.running
  BY <1>1 DEF Fresh
<1> QED BY <1>3, <1>7, <1>9, <1>10 DEF Fresh, FedFresh, StoreFresh, NotStuck

\* Plugins that start afresh have everything for news.
LEMMA TypesFresh ==
  ASSUME StateOK, Fresh, NEW k \in Kinds, TypeInformed(k) \/ reconcileType(k) \/ PluginSyncs(k)
  PROVE  Fresh'
<1>1. ManagerOK(manager) /\ UNCHANGED members
  BY StateManager DEF TypeInformed, reconcileType, PluginSyncs
<1>2. NotStuck'
  BY <1>1, FreshParts DEF NotStuck
<1>3. CASE TypeInformed(k)
  <2>1. manager'.plugins = manager.plugins /\ manager'.running = manager.running
        /\ manager'.synced = manager.synced /\ UNCHANGED <<fed, fedStore, store, news, members>>
    BY <1>1, <1>3 DEF TypeInformed, ManagerOK
  <2> QED BY <2>1 DEF Fresh
<1>4. CASE reconcileType(k) /\ startPlugin(k)
  <2>1. UNCHANGED <<fed, fedStore, store, news, members>>
    BY <1>4 DEF reconcileType, startPlugin
  <2>2. manager'.synced = manager.synced /\ (manager'.plugins # {} => manager'.running)
    <3>1. CASE UNCHANGED manager
      BY <3>1 DEF Fresh
    <3>2. CASE manager' = [manager EXCEPT !.running = TRUE]
      BY <1>1, <3>2 DEF ManagerOK
    <3>3. CASE manager' = [manager EXCEPT !.running = TRUE, !.plugins = @ \cup {k}, !.keys = @ \ {k}]
      BY <1>1, <3>3 DEF ManagerOK
    <3> QED BY <1>4, <3>1, <3>2, <3>3 DEF startPlugin
  <2> QED BY <2>1, <2>2 DEF Fresh
<1>5. CASE reconcileType(k) /\ stopScheduler(k)
  <2> DEFINE left == manager.plugins \ {k}
             stops == manager.running /\ Stopped(left)
             run == manager.running /\ ~stops
             synced == IF stops THEN {} ELSE manager.synced \ {k}
  <2>1. manager' = [keys |-> manager.keys \ {k}, running |-> run, plugins |-> left, synced |-> synced]
    BY <1>5 DEF stopScheduler
  <2>2. manager'.plugins = left /\ (manager'.running <=> run) /\ manager'.synced = synced
    <3> HIDE DEF left, run, synced
    <3> QED BY <2>1
  <2>3. manager'.plugins # {} => manager'.running
    BY <2>2 DEF Fresh, Stopped
  <2>4. UNCHANGED <<fed, news>>
    BY <1>5 DEF reconcileType, stopScheduler, StopPlugin
  <2>5. synced \subseteq manager.synced \ {k}
    OBVIOUS
  <2>6. CASE k = Target
    <3>1. Target \notin manager'.synced
      BY <2>2, <2>5, <2>6
    <3> QED BY <1>2, <2>3, <3>1 DEF Fresh, NotStuck
  <2>7. CASE k # Target
    <3>1. UNCHANGED <<store, fedStore>>
      BY <1>5, <2>7 DEF stopScheduler, StopPlugin
    <3>2. Target \in manager'.synced => Target \in manager.synced
      BY <2>2, <2>5
    <3> QED BY <1>1, <2>3, <2>4, <3>1, <3>2 DEF Fresh
  <2> QED BY <2>6, <2>7
<1>6. CASE PluginSyncs(k)
  <2>1. manager'.plugins = manager.plugins /\ manager'.running = manager.running
        /\ manager'.synced = manager.synced \cup {k} /\ UNCHANGED <<fed, members>>
    BY <1>1, <1>6 DEF PluginSyncs, ManagerOK
  <2>2. CASE k = Target
    BY <1>2, <1>6, <2>1, <2>2 DEF Fresh, PluginSyncs, NotStuck
  <2>3. CASE k # Target
    BY <1>6, <2>1, <2>3 DEF Fresh, PluginSyncs
  <2> QED BY <2>2, <2>3
<1> QED BY <1>3, <1>4, <1>5, <1>6 DEF reconcileType

\* A store that is behind has news.
LEMMA FreshStep ==
  ASSUME StateOK, WorksOK, Fresh, [Next]_vars
  PROVE  Fresh'
<1>1. CASE UNCHANGED vars
  BY <1>1 DEF vars, Fresh
<1>2. CASE UserChanges
  <2>1. UNCHANGED <<manager, fedStore, store, members>> /\ news \subseteq news'
        /\ ("fed" \notin news' => fed' = fed)
    BY <1>2 DEF UserChanges
  <2> QED BY <2>1 DEF Fresh
<1>3. CASE \E c \in Clusters : Sync(c) \/ PodsRun(c) \/ PodsStuck(c) \/ TargetInformed(c)
  BY <1>3, MembersFresh
<1>4. CASE \E k \in Kinds : TypeInformed(k) \/ reconcileType(k) \/ PluginSyncs(k)
  BY <1>4, TypesFresh
<1>5. CASE RSPInformed
  <2>1. ManagerOK(manager)
    BY StateManager
  <2>2. manager'.plugins = manager.plugins /\ manager'.running = manager.running
        /\ manager'.synced = manager.synced \cup {"RSP"}
    BY <1>5, <2>1 DEF RSPInformed, ManagerOK
  <2>3. UNCHANGED <<fed, fedStore, store, news, members>> /\ Target # "RSP"
    BY <1>5, KindsAssumption DEF RSPInformed
  <2> QED BY <2>2, <2>3 DEF Fresh
<1>6. CASE FederatedInformed
  <2>1. UNCHANGED <<manager, fed, store, members>> /\ fedStore' = fed /\ news' = news \ {"fed"}
    BY <1>6 DEF FederatedInformed
  <2>2. \A c \in Clusters : c \notin news' => c \notin news
    BY <2>1, ClustersAssumption
  <2> QED BY <2>1, <2>2 DEF Fresh
<1>7. CASE reconcileOnClusterChange \/ Check
  BY <1>7 DEF reconcileOnClusterChange, Check, Fresh
<1>8. CASE \E w \in works : GetSchedulingResult(w) \/ ReconcilePlugin(w)
  <2>1. UNCHANGED <<manager, fedStore, store, members>> /\ news \subseteq news'
        /\ ("fed" \notin news' => fed' = fed)
    BY <1>8 DEF GetSchedulingResult, ReconcilePlugin
  <2> QED BY <2>1 DEF Fresh
<1> QED BY <1>1, <1>2, <1>3, <1>4, <1>5, <1>6, <1>7, <1>8 DEF Next

-----------------------------------------------------------------------------
(* No older plan stays                                                     *)

\* A step after which the same plan is right.
SameView ==
  /\ ready' = ready /\ rsp'.cached = rsp.cached
  /\ \A c \in ready : /\ members'[c].exists = members[c].exists
                      /\ members'[c].replicas = members[c].replicas
                      /\ members'[c].running = members[c].running

\* The right result depends on the view alone.
LEMMA IdealSame ==
  ASSUME SameView PROVE Ideal' = Ideal /\ (RunReady' <=> RunReady)
<1>1. RunReady' <=> RunReady
  BY DEF SameView, RunReady
<1> DEFINE f == [c \in {d \in ready : members[d].exists} |-> members[c].running]
           g == [c \in {d \in ready' : members'[d].exists} |-> members'[c].running]
<1>2. f = g
  <2>1. {d \in ready : members[d].exists} = {d \in ready' : members'[d].exists}
    BY DEF SameView
  <2>2. \A c \in {d \in ready : members[d].exists} : members[c].running = members'[c].running
    BY DEF SameView
  <2> QED BY <2>1, <2>2
<1>3. Ideal = Input(rsp.cached, ready, f, << >>) /\ Ideal' = Input(rsp'.cached, ready', g, << >>)
  BY DEF Ideal, Input, Defaulted
<1> HIDE DEF f, g
<1>4. Ideal' = Ideal
  BY <1>2, <1>3 DEF SameView
<1> QED BY <1>1, <1>4

\* A step that changes neither view nor resource, and takes no live work away, keeps UpToDate.
LEMMA ViewKeeps ==
  ASSUME UpToDate, SameView, UNCHANGED fed, Unprompted' => Unprompted,
         \A w \in works : Checked(w) \/ Planned(w) => w \in works'
  PROVE  UpToDate'
<1>1. Ideal' = Ideal /\ (RunReady' <=> RunReady)
  BY IdealSame
<1>s. schedule(Ideal)' = schedule(Ideal)
  BY <1>1 DEF schedule
<1>2. SUFFICES ASSUME Unprompted
      PROVE  (\E w \in works' : Checked(w)') \/ (\E w \in works' : Planned(w)') \/ Written'
  BY DEF UpToDate
<1>3. ASSUME NEW w \in works, Checked(w) PROVE w \in works' /\ Checked(w)'
  BY <1>3 DEF Checked, SameView
<1>4. ASSUME NEW w \in works, Planned(w) PROVE w \in works' /\ Planned(w)'
  BY <1>1, <1>s, <1>4 DEF Planned, SameView
<1>5. ASSUME Written PROVE Written'
  BY <1>1, <1>s, <1>5 DEF Written, SameView
<1> QED BY <1>2, <1>3, <1>4, <1>5 DEF UpToDate

\* What a user changes prompts a reconciliation.
LEMMA UserUpToDate ==
  ASSUME StateOK, Fresh, UpToDate, UserChanges PROVE UpToDate'
<1> DEFINE p == queue.all \/ (ready' # ready /\ manager.running)
<1>1. UNCHANGED <<manager, members, works>> /\ queue' = [queue EXCEPT !.all = p]
      /\ news' = (IF fed' = fed THEN news ELSE news \cup {"fed"})
  BY DEF UserChanges
<1>2. rsp'.cached = rsp.cached
  BY StateRest DEF UserChanges
<1>3. p \in BOOLEAN
  OBVIOUS
<1>4. queue'.all = p /\ queue'.pending = queue.pending
  <2> HIDE DEF p
  <2> QED BY <1>1, <1>3, StateRest, QueueIs
<1>5. CASE ready' # ready /\ manager.running
  BY <1>4, <1>5 DEF UpToDate, Unprompted
<1>6. CASE ~manager.running
  BY <1>1, <1>6 DEF UpToDate, Unprompted, Fresh
<1>7. CASE fed' # fed
  BY <1>1, <1>7 DEF UpToDate, Unprompted
<1>8. CASE ready' = ready /\ fed' = fed
  <2>1. SameView
    BY <1>1, <1>2, <1>8 DEF SameView
  <2>2. Unprompted' => Unprompted
    BY <1>1, <1>2, <1>4, <1>8 DEF Unprompted
  <2> QED BY <1>1, <1>8, <2>1, <2>2, ViewKeeps
<1> QED BY <1>5, <1>6, <1>7, <1>8

\* What a member changes prompts one as well.
LEMMA MembersUpToDate ==
  ASSUME StateOK, UpToDate, NEW c \in Clusters,
         Sync(c) \/ PodsRun(c) \/ PodsStuck(c) \/ TargetInformed(c)
  PROVE  UpToDate'
<1>1. CASE TargetInformed(c)
  <2>1. queue'.pending = TRUE
    BY <1>1, StateRest, QueueIs DEF TargetInformed
  <2> QED BY <2>1 DEF UpToDate, Unprompted
<1>2. CASE (Sync(c) \/ PodsRun(c)) /\ c \in ready
  <2>1. c \in news' /\ ready' = ready
    BY <1>2 DEF Sync, PodsRun
  <2>2. ~Unprompted'
    BY <1>2, <2>1 DEF Unprompted
  <2> QED BY <2>2 DEF UpToDate
<1>3. CASE (PodsRun(c) /\ c \notin ready) \/ PodsStuck(c)
  <2>1. UNCHANGED <<rsp, fed, ready, manager, queue, works>> /\ news \subseteq news'
    BY <1>3 DEF PodsRun, PodsStuck
  <2>2. members \in [Clusters -> Member] /\ ready \subseteq Clusters /\ members[c] \in Member
    BY StateRest
  <2>3. \A d \in Clusters : d # c => members'[d] = members[d]
    BY <1>3, <2>2 DEF PodsRun, PodsStuck
  <2>4. c \in ready => /\ members'[c].exists = members[c].exists
                       /\ members'[c].replicas = members[c].replicas
                       /\ members'[c].running = members[c].running
    BY <1>3, <2>2 DEF PodsStuck, Member
  <2>5. SameView
    BY <2>1, <2>2, <2>3, <2>4 DEF SameView
  <2>6. Unprompted' => Unprompted
    BY <2>1 DEF Unprompted
  <2> QED BY <2>1, <2>5, <2>6, ViewKeeps
<1>4. Sync(c) => c \in ready
  BY DEF Sync
<1> QED BY <1>1, <1>2, <1>3, <1>4

\* A plugin that starts or stops leaves one prompted, or nothing to do.
LEMMA TypesUpToDate ==
  ASSUME StateOK, Fresh, UpToDate, NEW k \in Kinds,
         TypeInformed(k) \/ reconcileType(k) \/ PluginSyncs(k)
  PROVE  UpToDate'
<1>1. ManagerOK(manager) /\ Target # "RSP" /\ UNCHANGED <<members, ready, fed>>
  BY StateManager, KindsAssumption DEF TypeInformed, reconcileType, PluginSyncs
<1>2. CASE TypeInformed(k)
  <2>1. manager'.plugins = manager.plugins /\ manager'.synced = manager.synced
    BY <1>1, <1>2 DEF TypeInformed, ManagerOK
  <2>2. UNCHANGED <<rsp, news, queue, works>>
    BY <1>2 DEF TypeInformed
  <2>3. SameView /\ (Unprompted' => Unprompted)
    BY <1>1, <2>1, <2>2 DEF SameView, Unprompted
  <2> QED BY <1>1, <2>2, <2>3, ViewKeeps
<1>3. CASE reconcileType(k) /\ startPlugin(k)
  <2>1. UNCHANGED <<rsp, news, queue, works>>
    BY <1>3 DEF startPlugin
  <2>2. manager'.synced = manager.synced
    BY <1>1, <1>3 DEF startPlugin, ManagerOK
  <2>3. Target \in manager.synced => Target \in manager.plugins
    BY <1>1 DEF ManagerOK
  <2>4. SameView /\ (Unprompted' => Unprompted)
    BY <1>1, <2>1, <2>2, <2>3 DEF SameView, Unprompted
  <2> QED BY <1>1, <2>1, <2>4, ViewKeeps
<1>4. CASE reconcileType(k) /\ stopScheduler(k)
  <2> DEFINE left == manager.plugins \ {k}
             stops == manager.running /\ Stopped(left)
             run == manager.running /\ ~stops
             synced == IF stops THEN {} ELSE manager.synced \ {k}
  <2>1. manager' = [keys |-> manager.keys \ {k}, running |-> run, plugins |-> left, synced |-> synced]
    BY <1>4 DEF stopScheduler
  <2>2. manager'.plugins = left /\ manager'.synced = synced
    <3> HIDE DEF left, run, synced
    <3> QED BY <2>1
  <2>3. CASE Target \notin left
    BY <2>2, <2>3 DEF UpToDate, Unprompted
  <2>4. CASE Target \in left
    <3>1. ~stops
      BY <2>4 DEF Stopped
    <3>2. UNCHANGED <<queue, works, rsp, news>>
      BY <1>4, <3>1 DEF stopScheduler, StopPlugin
    <3>3. Target \in manager'.synced => Target \in manager.synced
      BY <2>2
    <3>4. SameView /\ (Unprompted' => Unprompted)
      BY <1>1, <2>2, <3>2, <3>3 DEF SameView, Unprompted
    <3> QED BY <1>1, <3>2, <3>4, ViewKeeps
  <2> QED BY <2>3, <2>4
<1>5. CASE PluginSyncs(k)
  <2>1. manager'.plugins = manager.plugins /\ manager'.synced = manager.synced \cup {k}
        /\ UNCHANGED <<rsp, works>>
    BY <1>1, <1>5 DEF PluginSyncs, ManagerOK
  <2>2. CASE k = Target
    <3> DEFINE p == queue.pending \/ fed.exists \/ \E c \in Clusters : members[c].exists
    <3>1. p \in BOOLEAN /\ (fed.exists => p)
      OBVIOUS
    <3>2. queue' = [queue EXCEPT !.pending = p]
      BY <1>5, <2>2 DEF PluginSyncs
    <3> HIDE DEF p
    <3>3. queue'.pending = p
      BY <3>1, <3>2, StateRest, QueueIs
    <3> QED BY <1>1, <3>1, <3>3 DEF UpToDate, Unprompted
  <2>3. CASE k # Target
    <3>1. UNCHANGED <<news, queue>>
      BY <1>5, <2>3 DEF PluginSyncs
    <3>2. SameView /\ (Unprompted' => Unprompted)
      BY <1>1, <2>1, <2>3, <3>1 DEF SameView, Unprompted
    <3> QED BY <1>1, <2>1, <3>2, ViewKeeps
  <2> QED BY <2>2, <2>3
<1> QED BY <1>2, <1>3, <1>4, <1>5 DEF reconcileType


\* A reconciliation that begins has the current preference and clusters.
LEMMA ControllerUpToDate ==
  ASSUME StateOK, Fresh, UpToDate,
         RSPInformed \/ FederatedInformed \/ reconcileOnClusterChange \/ Check
  PROVE  UpToDate'
<1>1. ManagerOK(manager) /\ Target # "RSP" /\ UNCHANGED <<members, ready, fed>>
  BY StateManager, KindsAssumption DEF RSPInformed, FederatedInformed, reconcileOnClusterChange, Check
<1>2. CASE RSPInformed
  <2> DEFINE p == queue.pending \/ rsp.cached # rsp.api
  <2>1. p \in BOOLEAN
    OBVIOUS
  <2>2. queue' = [queue EXCEPT !.pending = p]
    BY <1>2 DEF RSPInformed
  <2>3. queue'.pending = p /\ queue'.all = queue.all
    <3> HIDE DEF p
    <3> QED BY <2>1, <2>2, StateRest, QueueIs
  <2>4. CASE rsp.cached # rsp.api
    BY <2>3, <2>4 DEF UpToDate, Unprompted
  <2>5. CASE rsp.cached = rsp.api
    <3>1. rsp'.cached = rsp.cached
      BY <1>2, <2>5, StateRest DEF RSPInformed
    <3>2. manager'.plugins = manager.plugins /\ manager'.synced = manager.synced \cup {"RSP"}
          /\ UNCHANGED <<news, works>>
      BY <1>1, <1>2 DEF RSPInformed, ManagerOK
    <3>3. SameView /\ (Unprompted' => Unprompted)
      BY <1>1, <2>3, <3>1, <3>2 DEF SameView, Unprompted
    <3> QED BY <1>1, <3>2, <3>3, ViewKeeps
  <2> QED BY <2>4, <2>5
<1>3. CASE FederatedInformed
  <2>1. queue'.pending = TRUE
    BY <1>3, StateRest, QueueIs DEF FederatedInformed
  <2> QED BY <2>1 DEF UpToDate, Unprompted
<1>4. CASE reconcileOnClusterChange
  <2>1. UNCHANGED rsp /\ queue' = [pending |-> queue.pending \/ rsp.cached # NoSpec, all |-> FALSE]
    BY <1>4 DEF reconcileOnClusterChange
  <2>2. rsp.cached # NoSpec => queue'.pending
    BY <2>1
  <2> QED BY <2>1, <2>2 DEF UpToDate, Unprompted
<1>5. CASE Check
  <2>1. SUFFICES ASSUME Unprompted' PROVE \E w \in works' : Checked(w)'
    BY DEF UpToDate
  <2>2. UNCHANGED <<manager, rsp, news, fedStore, ready, fed>>
    BY <1>5 DEF Check
  <2>3. rsp.cached # NoSpec /\ ready # {} /\ Target \in manager.plugins /\ fedStore.exists
    BY <2>1, <2>2 DEF Unprompted, Fresh
  <2>4. PICK v \in works' : v.live /\ v.phase = "checked" /\ v.spec = rsp.cached /\ v.available = ready
    <3> DEFINE u == [live |-> TRUE, phase |-> "checked", spec |-> rsp.cached,
                     available |-> ready, input |-> << >>, result |-> << >>]
    <3>1. u \in works'
      BY <1>5, <2>3 DEF Check
    <3>2. u.live /\ u.phase = "checked" /\ u.spec = rsp.cached /\ u.available = ready
      OBVIOUS
    <3> HIDE DEF u
    <3> QED BY <3>1, <3>2
  <2>5. Checked(v)'
    BY <2>2, <2>4 DEF Checked
  <2> QED BY <2>4, <2>5
<1> QED BY <1>2, <1>3, <1>4, <1>5

\* With the stores as they are and all pods running, the input is the ideal one.
LEMMA FoundIdeal ==
  ASSUME StateOK, Fresh, Unprompted, RunReady, NEW w, Checked(w)
  PROVE  Input(w.spec, w.available, current(w), estimatedCapacity(w)) = Ideal
<1>1. w.live /\ w.spec = rsp.cached /\ w.available = ready /\ ready \subseteq Clusters
  BY StateRest DEF Checked
<1>2. ASSUME NEW c \in ready
      PROVE  /\ store[c].exists = members[c].exists /\ store[c].replicas = members[c].replicas
             /\ members[c].running = members[c].replicas /\ members[c].stuck = 0
  <2>1. c \in Clusters \ news
    BY <1>1 DEF Unprompted
  <2>2. store[c].exists = members[c].exists /\ store[c].replicas = members[c].replicas
    BY <2>1 DEF Fresh, Unprompted
  <2>3. members[c].running = members[c].replicas
    BY DEF RunReady
  <2>4. members[c] \in Member
    BY <2>1, StateRest
  <2>5. members[c].stuck \in Nat /\ members[c].running \in Nat
    BY <2>4 DEF Member
  <2>6. members[c].stuck <= members[c].replicas - members[c].running
    BY <2>1 DEF Fresh
  <2>7. members[c].stuck = 0
    BY <2>3, <2>5, <2>6
  <2> QED BY <2>2, <2>3, <2>7
<1> DEFINE D == {d \in ready : members[d].exists}
           f == [c \in D |-> members[c].running]
<1>3. Found(w) = D
  BY <1>1, <1>2 DEF Found, Unprompted
<1>4. current(w) = f
  <2>1. \A c \in D : (IF store[c].replicas = 0 THEN 0 ELSE members[c].running) = members[c].running
    BY <1>2
  <2> QED BY <1>3, <2>1 DEF current
<1>5. estimatedCapacity(w) = << >>
  <2>1. {d \in Found(w) : store[d].replicas # 0 /\ members[d].stuck > 0} = {}
    BY <1>2, <1>3
  <2> QED BY <2>1 DEF estimatedCapacity
<1> HIDE DEF f
<1>6. Input(w.spec, w.available, current(w), estimatedCapacity(w)) = Input(rsp.cached, ready, f, << >>)
  BY <1>1, <1>4, <1>5
<1> QED BY <1>6 DEF Ideal, f


\* A reconciliation that fails comes again, when its controller still runs.
LEMMA FailureUpToDate ==
  ASSUME StateOK, UpToDate, NEW w \in works, works' = works \ {w}, Returns(w, FALSE),
         UNCHANGED <<rsp, ready, members, manager, fed, news>>
  PROVE  UpToDate'
<1> DEFINE p == queue.pending \/ (w.live /\ ~FALSE)
<1>1. p \in BOOLEAN /\ queue' = [queue EXCEPT !.pending = p]
  BY DEF Returns
<1>2. queue'.pending = p /\ queue'.all = queue.all
  <2> HIDE DEF p
  <2> QED BY <1>1, StateRest, QueueIs
<1>3. CASE w.live
  BY <1>2, <1>3 DEF UpToDate, Unprompted
<1>4. CASE ~w.live
  <2>1. SameView /\ (Unprompted' => Unprompted)
    BY <1>2, <1>4 DEF SameView, Unprompted
  <2>2. \A v \in works : Checked(v) \/ Planned(v) => v \in works'
    BY <1>4 DEF Checked, Planned
  <2> QED BY <2>1, <2>2, ViewKeeps
<1> QED BY <1>3, <1>4

\* A plan made now is the right one, unless something has changed again.
LEMMA PlansUpToDate ==
  ASSUME StateOK, WorksOK, Fresh, UpToDate, NEW w \in works, GetSchedulingResult(w)
  PROVE  UpToDate'
<1>1. UNCHANGED <<rsp, ready, members, store, manager, fed, news>> /\ w.phase = "checked"
  BY DEF GetSchedulingResult
<1> DEFINE i == Input(w.spec, w.available, current(w), estimatedCapacity(w))
<1>2. CASE works' = works \ {w} /\ Returns(w, FALSE)
  BY <1>1, <1>2, FailureUpToDate
<1>3. CASE queue' = queue /\ works' = (works \ {w}) \cup {WithPlan(w, i, schedule(i))}
  <2>1. SameView /\ WorkOK(w) /\ (Unprompted' => Unprompted)
    BY <1>1, <1>3 DEF SameView, WorksOK, Unprompted
  <2>2. Ideal' = Ideal /\ (RunReady' <=> RunReady)
    BY <2>1, IdealSame
  <2>3. schedule(Ideal)' = schedule(Ideal)
    BY <2>2 DEF schedule
  <2>4. CASE ~(Unprompted /\ Checked(w))
    <3>1. \A v \in works : Unprompted /\ (Checked(v) \/ Planned(v)) => v \in works'
      BY <1>1, <1>3, <2>4 DEF Planned
    <3>2. CASE Unprompted
      BY <1>1, <2>1, <3>1, <3>2, ViewKeeps
    <3>3. CASE ~Unprompted
      BY <2>1, <3>3 DEF UpToDate
    <3> QED BY <3>2, <3>3
  <2>5. CASE Unprompted /\ Checked(w)
    <3>1. InputOK(i) /\ schedule(i) \in [w.available -> Int] /\ schedule(i) \in Assigned
      BY <2>1, FoundIs
    <3>2. RunReady => i = Ideal
      BY <2>5, FoundIdeal
    <3> HIDE DEF i
    <3>3. PICK v : v = WithPlan(w, i, schedule(i))
      OBVIOUS
    <3>4. v \in works'
      BY <1>3, <3>3
    <3>5. v.live = w.live /\ v.phase = "planned" /\ v.result = schedule(i)
      BY <2>1, <3>1, <3>3, Plans
    <3>6. w.live /\ w.available = ready
      BY <2>5 DEF Checked
    <3>7. DOMAIN v.result = ready
      BY <3>1, <3>5, <3>6
    <3>8. RunReady => v.result = schedule(Ideal)
      BY <3>2, <3>5
    <3>9. Planned(v)'
      BY <1>1, <2>2, <2>3, <3>5, <3>6, <3>7, <3>8 DEF Planned
    <3> QED BY <3>4, <3>9 DEF UpToDate
  <2> QED BY <2>4, <2>5
<1> QED BY <1>2, <1>3 DEF GetSchedulingResult, WithPlan

\* A live plan that is written is the right one; an older one makes news.
LEMMA WritesUpToDate ==
  ASSUME StateOK, UpToDate, NEW w \in works, ReconcilePlugin(w)
  PROVE  UpToDate'
<1>1. UNCHANGED <<rsp, ready, members, manager>> /\ w.phase = "planned" /\ works' = works \ {w}
  BY DEF ReconcilePlugin
<1>2. CASE "fed" \in news'
  BY <1>2 DEF UpToDate, Unprompted
<1>3. CASE Returns(w, FALSE) /\ UNCHANGED <<fed, news>>
  BY <1>1, <1>3, FailureUpToDate
<1>4. CASE /\ ~(fed.exists /\ (PlacementUpdateNeeded(w) \/ OverrideUpdateNeeded(w)))
           /\ UNCHANGED <<fed, news, queue>>
  <2>1. SameView /\ (Unprompted' => Unprompted)
    BY <1>1, <1>4 DEF SameView, Unprompted
  <2>2. Ideal' = Ideal /\ (RunReady' <=> RunReady)
    BY <2>1, IdealSame
  <2>3. schedule(Ideal)' = schedule(Ideal)
    BY <2>2 DEF schedule
  <2>4. CASE ~(Unprompted /\ Planned(w))
    <3>1. \A v \in works : Unprompted /\ (Checked(v) \/ Planned(v)) => v \in works'
      BY <1>1, <2>4 DEF Checked
    <3>2. CASE Unprompted
      BY <1>4, <2>1, <3>1, <3>2, ViewKeeps
    <3>3. CASE ~Unprompted
      BY <2>1, <3>3 DEF UpToDate
    <3> QED BY <3>2, <3>3
  <2>5. CASE Unprompted /\ Planned(w)
    <3>1. fed.placement = DOMAIN w.result /\ fed.replicas = w.result
      BY <1>4, <2>5 DEF Unprompted, PlacementUpdateNeeded, OverrideUpdateNeeded
    <3>2. Written'
      BY <1>1, <1>4, <2>2, <2>3, <2>5, <3>1 DEF Planned, Written
    <3> QED BY <3>2 DEF UpToDate
  <2> QED BY <2>4, <2>5
<1> QED BY <1>2, <1>3, <1>4 DEF ReconcilePlugin

\* No order of events leaves an older plan with nothing to replace it.
LEMMA UpToDateStep ==
  ASSUME StateOK, WorksOK, Fresh, UpToDate, [Next]_vars
  PROVE  UpToDate'
<1>1. CASE UNCHANGED vars
  <2>1. UNCHANGED <<rsp, fed, ready, members, news, manager, queue, works>>
    BY <1>1 DEF vars
  <2>2. SameView /\ (Unprompted' => Unprompted)
    BY <2>1 DEF SameView, Unprompted
  <2> QED BY <2>1, <2>2, ViewKeeps
<1>2. CASE UserChanges
  BY <1>2, UserUpToDate
<1>3. CASE \E c \in Clusters : Sync(c) \/ PodsRun(c) \/ PodsStuck(c) \/ TargetInformed(c)
  BY <1>3, MembersUpToDate
<1>4. CASE \E k \in Kinds : TypeInformed(k) \/ reconcileType(k) \/ PluginSyncs(k)
  BY <1>4, TypesUpToDate
<1>5. CASE RSPInformed \/ FederatedInformed \/ reconcileOnClusterChange \/ Check
  BY <1>5, ControllerUpToDate
<1>6. CASE \E w \in works : GetSchedulingResult(w)
  BY <1>6, PlansUpToDate
<1>7. CASE \E w \in works : ReconcilePlugin(w)
  BY <1>7, WritesUpToDate
<1> QED BY <1>1, <1>2, <1>3, <1>4, <1>5, <1>6, <1>7 DEF Next
-----------------------------------------------------------------------------
(* The theorems                                                            *)

\* The first states satisfy the invariant.
LEMMA InitInv ==
  ASSUME Init PROVE SchedulingInv
<1>1. UpToDate
  <2>1. ~Unprompted
    <3>1. CASE queue = [pending |-> TRUE, all |-> FALSE]
      BY <3>1 DEF Unprompted
    <3>2. CASE manager = [keys |-> types.api, running |-> FALSE, plugins |-> {}, synced |-> {}]
      BY <3>2 DEF Unprompted
    <3> QED BY <3>1, <3>2 DEF Init
  <2> QED BY <2>1 DEF UpToDate
<1> QED BY <1>1, InitState DEF SchedulingInv

\* Every step preserves it.
LEMMA StepInv ==
  ASSUME SchedulingInv, [Next]_vars PROVE SchedulingInv'
  BY StateStep, WorksStep, FreshStep, UpToDateStep DEF SchedulingInv

\* The types, and at most one live reconciliation (the worker of the controller).
LEMMA InvTypes ==
  ASSUME StateOK, WorksOK PROVE TypeOK
<1>1. \A f \in {fed, fedStore} :
        f.exists \in BOOLEAN /\ f.placement \subseteq Clusters /\ Replicas(f.replicas)
  BY StateRest, AssignedIs DEF Federated
<1>2. {rsp.api, rsp.cached} \subseteq Specs \cup {s.spec : s \in Starts} \cup {NoSpec}
  BY StateRest DEF Preferences
<1>3. \A w \in works : w.phase \in {"checked", "planned"} /\ Replicas(w.result)
  <2>1. ASSUME NEW w \in works PROVE w.phase \in {"checked", "planned"} /\ w.result \in Assigned
    BY DEF WorksOK, WorkOK
  <2> QED BY <2>1, AssignedIs
<1>4. Cardinality({w \in works : w.live}) <= 1
  <2> DEFINE L == {w \in works : w.live}
  <2>1. \A v, w \in L : v = w
    BY DEF WorksOK
  <2> HIDE DEF L
  <2>2. Cardinality(L) <= 1
    <3>1. CASE L = {}
      BY <3>1, FS_EmptySet
    <3>2. CASE L # {}
      <4>1. PICK w \in L : TRUE
        BY <3>2
      <4>2. L = {w}
        BY <2>1, <4>1
      <4>3. Cardinality(L) = 1
        BY <4>2, FS_Singleton
      <4> QED BY <4>3
    <3> QED BY <3>1, <3>2
  <2> QED BY <2>2 DEF L
<1>5. /\ manager.keys \subseteq Kinds /\ manager.running \in BOOLEAN
      /\ manager.plugins \subseteq Kinds /\ manager.synced \subseteq manager.plugins \cup {"RSP"}
  BY StateManager DEF ManagerOK
<1>6. types.api \subseteq Kinds /\ types.cached \subseteq Kinds
  BY StateRest
<1> QED BY <1>1, <1>2, <1>3, <1>4, <1>5, <1>6, StateRest DEF TypeOK

\* At rest nothing is prompted and no work is left, so that the right result is written.
LEMMA InvScheduled ==
  ASSUME SchedulingInv PROVE Scheduled
<1>1. TypeOK
  BY InvTypes DEF SchedulingInv
<1>2. SUFFICES ASSUME Quiet, Target \in manager.plugins, rsp.api # NoSpec, fed.exists, ready # {},
                      \A c \in Clusters : members[c].running = members[c].replicas
      PROVE  LET runs == [c \in {d \in ready : members[d].exists} |-> members[c].running]
                 result == schedule(Input(rsp.api, ready, runs, << >>))
             IN  fed.placement = ready /\ fed.replicas = result
  BY <1>1 DEF Scheduled
<1>3. manager.running
  BY <1>2 DEF SchedulingInv, Fresh
<1>4. isSynced /\ rsp.cached = rsp.api /\ news \cap (ready \cup {"fed"}) = {}
      /\ ~queue.pending /\ ~queue.all /\ works = {}
  BY <1>2, <1>3 DEF Quiet
<1>5. Unprompted
  BY <1>2, <1>4 DEF Unprompted, isSynced
<1>6. RunReady
  BY <1>2, StateRest DEF RunReady, SchedulingInv
<1>7. Written
  BY <1>4, <1>5 DEF SchedulingInv, UpToDate
<1> QED BY <1>4, <1>6, <1>7 DEF Written, Ideal

\* The invariant, for any number of clusters, kinds, preferences, events and faults.
THEOREM SchedulingInvariant == Spec => []SchedulingInv
<1>1. Init => SchedulingInv
  BY InitInv
<1>2. SchedulingInv /\ [Next]_vars => SchedulingInv'
  BY StepInv
<1> QED BY <1>1, <1>2, PTL DEF Spec

\* Every plan hands out what the limits allow and no more, in at most one pass more than
\* there are replicas, whatever the preferences, clusters and pods are (planner.go:60).
THEOREM PlansSound == Spec => []PlanSound
<1>1. SchedulingInv => PlanSound
  <2>1. ASSUME SchedulingInv, NEW w \in works, w.phase = "planned", Readable(w.input)
        PROVE  Complete(w.input, Plan(w.input)) /\ Quick(w.input, Plan(w.input))
    <3>1. InputOK(w.input)
      BY <2>1 DEF SchedulingInv, WorksOK, WorkOK
    <3> QED BY <2>1, <3>1, PlanComplete
  <2> QED BY <2>1 DEF PlanSound
<1> QED BY <1>1, SchedulingInvariant, PTL

\* Without rebalancing no plan takes from a cluster what runs there within its limits, when
\* the minima leave enough for it (planner.go:100).
THEOREM PlansKeepRunning == Spec => []RunningKept
<1>1. SchedulingInv => RunningKept
  <2>1. ASSUME SchedulingInv, NEW w \in works, w.phase = "planned", Readable(w.input), ~w.input.rebalance
        PROVE  Kept(w.input, Plan(w.input))
    <3>1. InputOK(w.input)
      BY <2>1 DEF SchedulingInv, WorksOK, WorkOK
    <3> QED BY <2>1, <3>1, PlanKept
  <2> QED BY <2>1 DEF RunningKept
<1> QED BY <1>1, SchedulingInvariant, PTL

\* At rest, with all pods running, the federated resource has what follows from the
\* preference and the ready clusters: nothing that happened before leaves an older plan.
THEOREM AtRestScheduled == Spec => []Scheduled
<1>1. SchedulingInv => Scheduled
  BY InvScheduled
<1> QED BY <1>1, SchedulingInvariant, PTL
=============================================================================
