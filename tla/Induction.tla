------------------------------ MODULE Induction ------------------------------
(***************************************************************************)
(* Induction over data as facts about sets, which the provers can use      *)
(* where a rule over predicates is out of their reach: an induction        *)
(* hypothesis is the set of the numbers that satisfy it.                   *)
(***************************************************************************)
EXTENDS Integers, FiniteSets, FiniteSetsExt, FiniteSetTheorems, WellFoundedInduction,
        TLAPS

(* A set of integers in which every element has finitely many below it has *)
(* a least one.                                                            *)
LEMMA LeastElement ==
    ASSUME NEW T \in SUBSET Int, T # {},
           \A n \in T : IsFiniteSet({y \in T : y <= n})
    PROVE  \E n \in T : \A y \in T : n <= y
<1> DEFINE Below(n) == {y \in T : y <= n}
           I == {Below(n) : n \in T}
           R == StrictSubsetOrdering(T)
<1>1. I \subseteq FiniteSubsetsOf(T) /\ I # {}
  BY DEF FiniteSubsetsOf
<1>2. IsWellFoundedOn(R, FiniteSubsetsOf(T))
  BY FS_StrictSubsetOrderingWellFounded
<1> HIDE DEF I, R
<1>3. \E m \in I : \A y \in I : ~(<<y, m>> \in R)
  BY <1>1, <1>2, WFMin
<1>4. PICK n \in T : \A y \in T : ~(<<Below(y), Below(n)>> \in R)
  BY <1>3 DEF I
<1>5. ASSUME NEW y \in T, y < n PROVE FALSE
  <2>1. Below(y) \subseteq Below(n)
    <3>1. \A z \in T : z \in Int /\ (z <= y => z <= n)
      BY <1>5
    <3> QED BY <3>1
  <2>2. n \in Below(n) /\ n \notin Below(y)
    BY <1>5
  <2>3. <<Below(y), Below(n)>> \in (SUBSET T) \X (SUBSET T)
    OBVIOUS
  <2> HIDE DEF Below
  <2> QED BY <2>1, <2>2, <2>3, <1>4 DEF R, StrictSubsetOrdering
<1> QED BY <1>5

(* A finite set of integers has a least element.                           *)
LEMMA LeastOfFinite ==
    ASSUME NEW T \in SUBSET Int, T # {}, IsFiniteSet(T)
    PROVE  \E n \in T : \A y \in T : n <= y
<1>1. \A n \in T : IsFiniteSet({y \in T : y <= n})
  BY FS_Subset
<1> QED BY <1>1, LeastElement

(* And a greatest one.                                                     *)
LEMMA GreatestOfFinite ==
    ASSUME NEW T \in SUBSET Int, T # {}, IsFiniteSet(T)
    PROVE  \E n \in T : \A y \in T : y <= n
<1> DEFINE N == {-y : y \in T}
           neg == [y \in T |-> -y]
<1>1. neg \in Surjection(T, N)
  BY DEF Surjection
<1>2. IsFiniteSet(N)
  BY <1>1, FS_Surjection
<1>3. PICK n \in N : \A y \in N : n <= y
  <2>1. N \in SUBSET Int /\ N # {}
    <3>1. \A y \in T : -y \in Int
      OBVIOUS
    <3> QED BY <3>1
  <2> HIDE DEF N
  <2> QED BY <1>2, <2>1, LeastOfFinite
<1>4. PICK x \in T : n = -x
  OBVIOUS
<1>5. \A y \in T : -x <= -y
  BY <1>3, <1>4
<1> QED BY <1>5

(* A set of naturals has a least element, so what holds at 0 and carries   *)
(* over to the next number holds everywhere.                               *)
LEMMA LeastNatural ==
    ASSUME NEW T \in SUBSET Nat, T # {}
    PROVE  \E n \in T : \A y \in T : n <= y
<1>1. \A n \in T : IsFiniteSet({y \in T : y <= n})
  <2> SUFFICES ASSUME NEW n \in T PROVE IsFiniteSet({y \in T : y <= n})
    OBVIOUS
  <2>1. n \in Nat /\ IsFiniteSet(0 .. n)
    BY FS_Interval
  <2>2. \A y \in T : y <= n => y \in 0 .. n
    BY <2>1
  <2>3. {y \in T : y <= n} \in SUBSET (0 .. n)
    BY <2>2
  <2> QED BY <2>1, <2>3, FS_Subset
<1> QED BY <1>1, LeastElement

(* A set that contains 0 and with each number the next one contains all    *)
(* naturals.                                                               *)
LEMMA NaturalInduction ==
    ASSUME NEW T, 0 \in T, \A n \in Nat : n \in T => n + 1 \in T
    PROVE  Nat \subseteq T
<1> SUFFICES ASSUME Nat \ T # {} PROVE FALSE
  OBVIOUS
<1>1. PICK n \in Nat \ T : \A y \in Nat \ T : n <= y
  BY LeastNatural
<1>2. n # 0 /\ n - 1 \in Nat
  OBVIOUS
<1>3. n - 1 \in T
  BY <1>1, <1>2
<1> QED BY <1>2, <1>3

(* The greatest element of a finite set of integers, and of an interval.   *)
LEMMA GreatestIsMax ==
    ASSUME NEW T \in SUBSET Int, T # {}, IsFiniteSet(T)
    PROVE  Max(T) \in T /\ \A y \in T : y <= Max(T)
<1>1. PICK n \in T : \A y \in T : y <= n
  BY GreatestOfFinite
<1>2. \A y \in T : n >= y
  BY <1>1
<1>3. Max(T) \in T /\ \A y \in T : Max(T) >= y
  BY <1>2 DEF Max
<1> QED BY <1>3

(* The greatest of the numbers up to n is n, and without it they are those *)
(* up to n - 1.                                                            *)
LEMMA GreatestOfInterval ==
    ASSUME NEW n \in Nat, n > 0
    PROVE  Max(1 .. n) = n /\ (1 .. n) \ {n} = 1 .. (n - 1)
<1>1. IsFiniteSet(1 .. n) /\ n \in 1 .. n /\ 1 .. n \in SUBSET Int
  BY FS_Interval
<1>2. Max(1 .. n) \in 1 .. n /\ \A y \in 1 .. n : y <= Max(1 .. n)
  BY <1>1, GreatestIsMax
<1>3. n <= Max(1 .. n)
  BY <1>1, <1>2
<1>4. Max(1 .. n) = n
  BY <1>2, <1>3
<1>5. (1 .. n) \ {n} = 1 .. (n - 1)
  OBVIOUS
<1> QED BY <1>4, <1>5

(* The iteration inside a left fold over n elements: step[i][a] is the     *)
(* accumulator after element i, when it was a before it.                   *)
Iterates(it, n, Acc, base, step) ==
    /\ it \in [SUBSET (1 .. n) -> Acc]
    /\ \A s \in SUBSET (1 .. n) :
          it[s] = IF s = {} THEN base ELSE step[Max(s)][it[s \ {Max(s)}]]

(* It exists.  The proof extends the iteration from the sets of k elements *)
(* to those of k + 1.                                                      *)
LEMMA FoldExists ==
    ASSUME NEW n \in Nat, NEW Acc, NEW base \in Acc, NEW step,
           \A i \in 1 .. n : \A a \in Acc : step[i][a] \in Acc
    PROVE  \E it : Iterates(it, n, Acc, base, step)
<1> DEFINE All == SUBSET (1 .. n)
           Sub(k) == {s \in All : Cardinality(s) <= k}
           Good(k) == \E g \in [Sub(k) -> Acc] : \A s \in Sub(k) :
                        g[s] = IF s = {} THEN base ELSE step[Max(s)][g[s \ {Max(s)}]]
           T == {k \in Nat : Good(k)}
<1>1. \A s \in All : /\ IsFiniteSet(s) /\ Cardinality(s) \in Nat
                     /\ s # {} => Max(s) \in s /\ Max(s) \in 1 .. n
  <2> SUFFICES ASSUME NEW s \in All
               PROVE  /\ IsFiniteSet(s) /\ Cardinality(s) \in Nat
                      /\ s # {} => Max(s) \in s /\ Max(s) \in 1 .. n
    OBVIOUS
  <2>0. IsFiniteSet(1 .. n) /\ s \in SUBSET (1 .. n)
    BY FS_Interval
  <2>1. IsFiniteSet(s) /\ Cardinality(s) \in Nat
    BY <2>0, FS_Subset, FS_CardinalityType
  <2>2. s \in SUBSET Int
    OBVIOUS
  <2>3. s # {} => Max(s) \in s
    BY <2>1, <2>2, GreatestIsMax
  <2> QED BY <2>1, <2>3
<1>2. \A s \in All : s # {} => s \ {Max(s)} \in All
                               /\ Cardinality(s \ {Max(s)}) = Cardinality(s) - 1
  BY <1>1, FS_RemoveElement
<1> HIDE DEF All
<1>3. 0 \in T
  <2>1. \A s \in Sub(0) : s = {}
    BY <1>1, FS_EmptySet
  <2>2. [s \in Sub(0) |-> base] \in [Sub(0) -> Acc]
    OBVIOUS
  <2> QED BY <2>1, <2>2
<1>4. ASSUME NEW k \in Nat, k \in T PROVE k + 1 \in T
  <2>1. PICK g \in [Sub(k) -> Acc] : \A s \in Sub(k) :
            g[s] = IF s = {} THEN base ELSE step[Max(s)][g[s \ {Max(s)}]]
    BY <1>4
  <2> DEFINE gg == [s \in Sub(k + 1) |->
                      IF s = {} THEN base ELSE step[Max(s)][g[s \ {Max(s)}]]]
  <2>2. \A s \in Sub(k + 1) : s # {} => s \ {Max(s)} \in Sub(k)
    BY <1>1, <1>2
  <2>3. \A s \in Sub(k) : s \in Sub(k + 1) /\ gg[s] = g[s]
    BY <1>1, <2>1
  <2>4. gg \in [Sub(k + 1) -> Acc]
    <3> SUFFICES ASSUME NEW s \in Sub(k + 1), s # {}
                 PROVE  step[Max(s)][g[s \ {Max(s)}]] \in Acc
      OBVIOUS
    <3>1. g[s \ {Max(s)}] \in Acc
      BY <2>1, <2>2
    <3> QED BY <1>1, <3>1
  <2>5. \A s \in Sub(k + 1) :
            gg[s] = IF s = {} THEN base ELSE step[Max(s)][gg[s \ {Max(s)}]]
    BY <2>2, <2>3
  <2> HIDE DEF gg
  <2>6. Good(k + 1)
    BY <2>4, <2>5
  <2> HIDE DEF Good
  <2> QED BY <2>6
<1>5. Nat \subseteq T
  <2> HIDE DEF T
  <2> QED BY <1>3, <1>4, NaturalInduction
<1>6. n \in T
  BY <1>5
<1>7. \A s \in All : Cardinality(s) <= n
  <2>1. Cardinality(1 .. n) = n /\ IsFiniteSet(1 .. n)
    BY FS_Interval
  <2>2. \A s \in SUBSET (1 .. n) : Cardinality(s) <= Cardinality(1 .. n)
    BY <2>1, FS_Subset
  <2> QED BY <2>1, <2>2 DEF All
<1>8. Sub(n) = All
  BY <1>7
<1> QED BY <1>6, <1>8 DEF All, Iterates

=============================================================================
