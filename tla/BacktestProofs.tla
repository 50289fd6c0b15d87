--------------------------- MODULE BacktestProofs ---------------------------
(***************************************************************************)
(* Proofs about the backtest: that its calendar arithmetic finds the days  *)
(* the definition of a trade asks for, that its loop puts every entry in   *)
(* the right bucket, that its detail is the best of all trades and its     *)
(* warning honest, and what a price upload can do to a request that reads. *)
(***************************************************************************)
EXTENDS Backtest, Induction, FunctionTheorems, TLAPS

Facts == QuestionAssumption /\ StoredAssumption

-----------------------------------------------------------------------------
(* Counting.                                                               *)

(* Two sets whose elements pair off have as many elements.                 *)
LEMMA PairedOff ==
    ASSUME NEW A, NEW B, IsFiniteSet(A), NEW f \in [A -> B],
           \A x, y \in A : f[x] = f[y] => x = y,
           \A z \in B : \E x \in A : f[x] = z
    PROVE  IsFiniteSet(B) /\ Cardinality(B) = Cardinality(A)
<1>1. f \in Bijection(A, B)
  BY Fun_IsBij
<1>2. ExistsBijection(A, B)
  BY <1>1 DEF ExistsBijection
<1> QED BY <1>2, FS_Bijection

(* The numbers up to n are n.                                              *)
LEMMA UpToSize ==
    ASSUME NEW n \in Nat
    PROVE  IsFiniteSet(1 .. n) /\ Cardinality(1 .. n) = n
<1>1. IsFiniteSet(1 .. n) /\ Cardinality(1 .. n) = IF 1 > n THEN 0 ELSE n - 1 + 1
  BY FS_Interval
<1> QED BY <1>1

(* The places of a finite set in a strict total order, where below[x] is   *)
(* what comes before x: the number of elements before it tells an element, *)
(* and every number up to the size of the set is taken.                    *)
LEMMA Ranks ==
    ASSUME NEW S, IsFiniteSet(S), NEW below \in [S -> SUBSET S],
           \A x \in S : x \notin below[x],
           \A x, y \in S : x = y \/ x \in below[y] \/ y \in below[x],
           \A x, y \in S : y \in below[x] => below[y] \subseteq below[x]
    PROVE  /\ \A x \in S : /\ Cardinality(below[x]) \in Nat
                           /\ Cardinality(below[x]) < Cardinality(S)
           /\ \A x, y \in S :
                  y \in below[x] <=> Cardinality(below[y]) < Cardinality(below[x])
           /\ \A x, y \in S : Cardinality(below[x]) = Cardinality(below[y]) => x = y
           /\ \A k \in 1 .. Cardinality(S) : \E x \in S : Cardinality(below[x]) = k - 1
<1> DEFINE n == Cardinality(S)
           rank == [x \in S |-> Cardinality(below[x])]
<1>1. n \in Nat
  BY FS_CardinalityType
<1>2. ASSUME NEW x \in S
      PROVE  /\ IsFiniteSet(below[x]) /\ Cardinality(below[x]) \in Nat
             /\ Cardinality(below[x]) < n
  <2>1. below[x] \in SUBSET S /\ below[x] # S
    OBVIOUS
  <2> QED BY <1>1, <2>1, FS_Subset, FS_CardinalityType
<1>3. ASSUME NEW x \in S, NEW y \in S, y \in below[x]
      PROVE  Cardinality(below[y]) < Cardinality(below[x])
  <2>1. below[y] \in SUBSET below[x] /\ below[y] # below[x]
    BY <1>3
  <2> QED BY <1>2, <2>1, FS_Subset
<1>4. \A x, y \in S : y \in below[x] <=> Cardinality(below[y]) < Cardinality(below[x])
  BY <1>2, <1>3
<1>5. \A x, y \in S : Cardinality(below[x]) = Cardinality(below[y]) => x = y
  BY <1>2, <1>3
<1>6. rank \in [S -> 0 .. n - 1]
  BY <1>1, <1>2
<1>7. rank \in Injection(S, 0 .. n - 1)
  <2>1. \A x, y \in S : rank[x] = rank[y] => x = y
    BY <1>5
  <2> HIDE DEF rank
  <2> QED BY <1>6, <2>1, Fun_IsInj
<1>8. IsFiniteSet(0 .. n - 1) /\ Cardinality(0 .. n - 1) = n
  BY <1>1, FS_Interval
<1>9. rank \in Surjection(S, 0 .. n - 1)
  BY <1>7, <1>8, FS_Injection
<1>10. \A k \in 1 .. n : \E x \in S : rank[x] = k - 1
  <2>1. \A k \in 1 .. n : k - 1 \in 0 .. n - 1
    BY <1>1
  <2>2. \A z \in 0 .. n - 1 : \E x \in S : rank[x] = z
    BY <1>9 DEF Surjection
  <2> HIDE DEF rank
  <2> QED BY <2>1, <2>2
<1> QED BY <1>2, <1>4, <1>5, <1>10

-----------------------------------------------------------------------------
(* The calendar.                                                           *)

Below(S, x) == {y \in S : y < x}
UpTo(S, x) == {y \in S : y <= x}

(* How many elements of a finite set of integers are below, or up to, a    *)
(* number.                                                                 *)
LEMMA Counts ==
    ASSUME NEW S \in SUBSET Int, IsFiniteSet(S)
    PROVE  /\ Cardinality(S) \in Nat
           /\ \A x \in Int : /\ IsFiniteSet(Below(S, x)) /\ Cardinality(Below(S, x)) \in Nat
                             /\ IsFiniteSet(UpTo(S, x)) /\ Cardinality(UpTo(S, x)) \in Nat
                             /\ Cardinality(UpTo(S, x)) <= Cardinality(S)
           /\ \A x \in S : Cardinality(UpTo(S, x)) = Cardinality(Below(S, x)) + 1
<1>1. \A x \in Int : Below(S, x) \in SUBSET S /\ UpTo(S, x) \in SUBSET S
  BY DEF Below, UpTo
<1>2. ASSUME NEW x \in S
      PROVE  UpTo(S, x) = Below(S, x) \cup {x} /\ x \notin Below(S, x)
  <2>1. \A y \in S : y \in Int /\ x \in Int
    OBVIOUS
  <2>2. \A y \in S : y <= x <=> y < x \/ y = x
    BY <2>1
  <2>3. x \in UpTo(S, x) /\ x \notin Below(S, x)
    BY <2>1 DEF Below, UpTo
  <2>4. \A y : y \in UpTo(S, x) <=> y \in Below(S, x) \/ y = x
    BY <2>2, <2>3 DEF Below, UpTo
  <2> QED BY <2>3, <2>4
<1>3. \A x \in Int : /\ IsFiniteSet(Below(S, x)) /\ Cardinality(Below(S, x)) \in Nat
                     /\ IsFiniteSet(UpTo(S, x)) /\ Cardinality(UpTo(S, x)) \in Nat
                     /\ Cardinality(UpTo(S, x)) <= Cardinality(S)
  BY <1>1, FS_Subset, FS_CardinalityType
<1>4. ASSUME NEW x \in S
      PROVE  Cardinality(UpTo(S, x)) = Cardinality(Below(S, x)) + 1
  BY <1>2, <1>3, FS_AddElement
<1> QED BY <1>3, <1>4, FS_CardinalityType

(* Ascending lists a finite set of integers in order.                      *)
LEMMA AscendingLists ==
    ASSUME NEW S \in SUBSET Int, IsFiniteSet(S)
    PROVE  LET f == Ascending(S) IN
           /\ Cardinality(S) \in Nat /\ f \in [1 .. Cardinality(S) -> S]
           /\ f \in Seq(S) /\ Len(f) = Cardinality(S) /\ DOMAIN f = 1 .. Cardinality(S)
           /\ \A k \in 1 .. Cardinality(S) : Cardinality(Below(S, f[k])) = k - 1
           /\ \A x \in S : /\ Cardinality(Below(S, x)) + 1 \in 1 .. Cardinality(S)
                           /\ f[Cardinality(Below(S, x)) + 1] = x
           /\ \A i, j \in 1 .. Cardinality(S) : i < j <=> f[i] < f[j]
<1> DEFINE n == Cardinality(S)
           f == Ascending(S)
           below == [x \in S |-> Below(S, x)]
<1>1. n \in Nat
  BY FS_CardinalityType
<1>2. below \in [S -> SUBSET S]
  BY DEF Below
<1>3. \A x \in S : x \in Int
  OBVIOUS
<1>4. /\ \A x \in S : x \notin below[x]
      /\ \A x, y \in S : x = y \/ x \in below[y] \/ y \in below[x]
      /\ \A x, y \in S : y \in below[x] => below[y] \subseteq below[x]
  <2>1. \A x, y \in S : y \in below[x] <=> y < x
    BY DEF Below
  <2>2. \A x, y, z \in S : /\ ~(x < x) /\ (x = y \/ x < y \/ y < x)
                           /\ z < y /\ y < x => z < x
    BY <1>3
  <2> HIDE DEF below
  <2> QED BY <1>2, <2>1, <2>2
<1>5. \A x \in S : below[x] = Below(S, x)
  OBVIOUS
<1>6. /\ \A x \in S : /\ Cardinality(below[x]) \in Nat
                      /\ Cardinality(below[x]) < n
      /\ \A x, y \in S :
             y \in below[x] <=> Cardinality(below[y]) < Cardinality(below[x])
      /\ \A x, y \in S : Cardinality(below[x]) = Cardinality(below[y]) => x = y
      /\ \A k \in 1 .. n : \E x \in S : Cardinality(below[x]) = k - 1
  <2> HIDE DEF below
  <2> QED BY <1>2, <1>4, Ranks
<1> HIDE DEF below, n
<1>7. \A k \in 1 .. n : f[k] = CHOOSE x \in S : Cardinality(Below(S, x)) = k - 1
  BY DEF Ascending, Below, n
<1>8. \A k \in 1 .. n : f[k] \in S /\ Cardinality(Below(S, f[k])) = k - 1
  BY <1>5, <1>6, <1>7
<1>9. DOMAIN f = 1 .. n /\ f = [k \in 1 .. n |-> f[k]]
  <2> DEFINE g(k) == CHOOSE x \in S : Cardinality({y \in S : y < x}) = k - 1
  <2>1. f = [k \in 1 .. n |-> g(k)]
    BY DEF Ascending, n
  <2> HIDE DEF f, g
  <2> QED BY <2>1
<1> HIDE DEF f
<1>10. f \in [1 .. n -> S]
  BY <1>8, <1>9
<1>11. ASSUME NEW x \in S
       PROVE  Cardinality(Below(S, x)) + 1 \in 1 .. n /\ f[Cardinality(Below(S, x)) + 1] = x
  <2>1. Cardinality(Below(S, x)) \in Nat /\ Cardinality(Below(S, x)) < n
    BY <1>5, <1>6
  <2>2. Cardinality(Below(S, x)) + 1 \in 1 .. n
    BY <1>1, <2>1
  <2>3. Cardinality(Below(S, f[Cardinality(Below(S, x)) + 1])) = Cardinality(Below(S, x))
    BY <1>8, <2>1, <2>2
  <2> QED BY <1>5, <1>6, <1>8, <2>2, <2>3
<1>12. \A i, j \in 1 .. n : i < j <=> f[i] < f[j]
  <2>1. \A i, j \in 1 .. n : f[i] \in Below(S, f[j]) <=> i - 1 < j - 1
    <3> SUFFICES ASSUME NEW i \in 1 .. n, NEW j \in 1 .. n
                 PROVE  f[i] \in Below(S, f[j]) <=> i - 1 < j - 1
      OBVIOUS
    <3>1. f[i] \in S /\ f[j] \in S
      BY <1>8
    <3>2. f[i] \in below[f[j]] <=>
              Cardinality(below[f[i]]) < Cardinality(below[f[j]])
      BY <1>6, <3>1
    <3> QED BY <1>5, <1>8, <3>1, <3>2
  <2>2. \A i, j \in 1 .. n : f[i] \in Below(S, f[j]) <=> f[i] < f[j]
    BY <1>8 DEF Below
  <2> QED BY <2>1, <2>2
<1>13. f \in Seq(S) /\ Len(f) = n
  BY <1>1, <1>10
<1> QED BY <1>1, <1>8, <1>9, <1>10, <1>11, <1>12, <1>13 DEF n, f

(* A bisection of the calendar counts the days before, or up to, a day.    *)
LEMMA Bisections ==
    ASSUME NEW S \in SUBSET Int, IsFiniteSet(S), NEW day \in Int
    PROVE  /\ bisect_left(Ascending(S), day) = Cardinality(Below(S, day))
           /\ bisect_right(Ascending(S), day) = Cardinality(UpTo(S, day))
<1> DEFINE f == Ascending(S)
           n == Cardinality(S)
<1>1. /\ n \in Nat /\ f \in [1 .. n -> S] /\ DOMAIN f = 1 .. n
      /\ \A x \in S : \E k \in 1 .. n : f[k] = x
      /\ \A i, j \in 1 .. n : i < j <=> f[i] < f[j]
  BY AscendingLists
<1> HIDE DEF f, n
<1>2. \A i, j \in 1 .. n : f[i] = f[j] => i = j
  <2> SUFFICES ASSUME NEW i \in 1 .. n, NEW j \in 1 .. n, f[i] = f[j] PROVE i = j
    OBVIOUS
  <2>1. f[i] \in Int /\ f[j] \in Int
    BY <1>1
  <2>2. ~(i < j) /\ ~(j < i)
    BY <1>1, <2>1
  <2> QED BY <1>1, <2>2
<1>3. ASSUME NEW B \in SUBSET S
      PROVE  Cardinality({i \in 1 .. n : f[i] \in B}) = Cardinality(B)
  <2> DEFINE A == {i \in 1 .. n : f[i] \in B}
             g == [i \in A |-> f[i]]
  <2>1. IsFiniteSet(A)
    BY <1>1, FS_Interval, FS_Subset
  <2>2. g \in [A -> B]
    OBVIOUS
  <2>3. \A x, y \in A : g[x] = g[y] => x = y
    BY <1>2
  <2>4. \A z \in B : \E x \in A : g[x] = z
    BY <1>1
  <2> HIDE DEF A, g
  <2>5. Cardinality(B) = Cardinality(A)
    BY <2>1, <2>2, <2>3, <2>4, PairedOff
  <2> QED BY <2>5 DEF A
<1>4. {i \in 1 .. n : f[i] \in Below(S, day)} = {i \in DOMAIN f : f[i] < day}
  BY <1>1 DEF Below
<1>5. {i \in 1 .. n : f[i] \in UpTo(S, day)} = {i \in DOMAIN f : f[i] <= day}
  BY <1>1 DEF UpTo
<1>6. Below(S, day) \in SUBSET S /\ UpTo(S, day) \in SUBSET S
  BY DEF Below, UpTo
<1> QED BY <1>3, <1>4, <1>5, <1>6 DEF bisect_left, bisect_right, f

(* The days of S that are the n-th after a day: at most one, and the one   *)
(* that nth_trading_day finds.                                             *)
NthDays(S, day, n) ==
    {d \in S : day <= d /\ Cardinality({c \in S : day < c /\ c <= d}) = n}

(* How many elements come after one day, up to another.                    *)
LEMMA Between ==
    ASSUME NEW S \in SUBSET Int, IsFiniteSet(S), NEW day \in Int, NEW d \in S
    PROVE  Cardinality({c \in S : day < c /\ c <= d}) =
             IF day < d THEN Cardinality(UpTo(S, d)) - Cardinality(UpTo(S, day)) ELSE 0
<1> DEFINE M == {c \in S : day < c /\ c <= d}
<1>1. d \in Int /\ \A c \in S : c \in Int
  OBVIOUS
<1>2. CASE day < d
  <2>0. \A c \in S : /\ day < c <=> ~(c <= day)
                     /\ c <= day => c <= d
    BY <1>1, <1>2
  <2>1. M = UpTo(S, d) \ UpTo(S, day)
    BY <2>0 DEF UpTo
  <2>2. UpTo(S, d) \cap UpTo(S, day) = UpTo(S, day)
    BY <2>0 DEF UpTo
  <2>3. IsFiniteSet(UpTo(S, d))
    BY Counts
  <2>4. Cardinality(M) = Cardinality(UpTo(S, d)) - Cardinality(UpTo(S, day))
    BY <2>1, <2>2, <2>3, FS_Difference
  <2> QED BY <1>2, <2>4
<1>3. CASE ~(day < d)
  <2>0. \A c \in S : ~(day < c /\ c <= d)
    BY <1>1, <1>3
  <2>1. M = {}
    BY <2>0
  <2> QED BY <1>3, <2>1, FS_EmptySet
<1> QED BY <1>2, <1>3

(* nth_trading_day finds the day the definition asks for, if there is one: *)
(* for N >= 1 there is none exactly when too few days are left.            *)
LEMMA NthTradingDay ==
    ASSUME NEW S \in SUBSET Int, IsFiniteSet(S), NEW day \in Int, NEW n \in Nat,
           None \notin Int
    PROVE  LET x == nth_trading_day(Ascending(S), day, n) IN
           /\ NthDays(S, day, n) = IF x = None THEN {} ELSE {x}
           /\ x # None => x \in S
           /\ n > 0 => (x = None <=>
                            Cardinality(UpTo(S, day)) + n > Cardinality(S))
<1> DEFINE f == Ascending(S)
           N == Cardinality(S)
           x == nth_trading_day(f, day, n)
<1>1. /\ N \in Nat /\ f \in [1 .. N -> S] /\ Len(f) = N /\ DOMAIN f = 1 .. N
      /\ \A k \in 1 .. N : Cardinality(Below(S, f[k])) = k - 1
      /\ \A y \in S : /\ Cardinality(Below(S, y)) + 1 \in 1 .. N
                       /\ f[Cardinality(Below(S, y)) + 1] = y
  BY AscendingLists
<1>2. /\ bisect_left(f, day) = Cardinality(Below(S, day))
      /\ bisect_right(f, day) = Cardinality(UpTo(S, day))
  BY Bisections
<1>3. /\ \A d \in S : d \in Int /\ Cardinality(UpTo(S, d)) = Cardinality(Below(S, d)) + 1
      /\ \A d \in Int : Cardinality(Below(S, d)) \in Nat /\ Cardinality(UpTo(S, d)) \in Nat
  BY Counts
<1> HIDE DEF f, N
<1>4. ASSUME NEW d \in S
      PROVE  d \in NthDays(S, day, n) <=>
               IF day < d THEN Cardinality(UpTo(S, d)) - Cardinality(UpTo(S, day)) = n
               ELSE d = day /\ n = 0
  <2>1. Cardinality({c \in S : day < c /\ c <= d}) =
           IF day < d THEN Cardinality(UpTo(S, d)) - Cardinality(UpTo(S, day)) ELSE 0
    BY Between
  <2>2. d \in Int
    OBVIOUS
  <2> QED BY <2>1, <2>2 DEF NthDays
<1>5. ASSUME NEW d \in S, day < d
      PROVE  Cardinality(UpTo(S, day)) < Cardinality(UpTo(S, d))
  <2>1. UpTo(S, day) \in SUBSET UpTo(S, d) /\ d \in UpTo(S, d) /\ d \notin UpTo(S, day)
    <3>1. d \in Int /\ \A c \in S : c \in Int
      OBVIOUS
    <3>2. \A c \in S : c <= day => c <= d
      BY <1>5, <3>1
    <3>3. ~(d <= day) /\ d <= d
      BY <1>5, <3>1
    <3> QED BY <3>2, <3>3 DEF UpTo
  <2>2. IsFiniteSet(UpTo(S, d)) /\ d \in Int
    BY Counts
  <2>3. /\ Cardinality(UpTo(S, day)) <= Cardinality(UpTo(S, d))
        /\ Cardinality(UpTo(S, day)) # Cardinality(UpTo(S, d))
    BY <2>1, <2>2, FS_Subset
  <2> QED BY <1>3, <2>2, <2>3
<1>6. CASE n = 0
  <2>1. \A d \in S : d \in NthDays(S, day, n) <=> d = day
    BY <1>3, <1>4, <1>5, <1>6
  <2>2. x = IF day \in S THEN day ELSE None
    <3>1. (\E i \in DOMAIN f : i = bisect_left(f, day) + 1 /\ f[i] = day) <=> day \in S
      BY <1>1, <1>2
    <3> QED BY <1>6, <3>1 DEF nth_trading_day
  <2>3. NthDays(S, day, n) \subseteq S
    BY DEF NthDays
  <2> HIDE DEF x
  <2>4. NthDays(S, day, n) = IF x = None THEN {} ELSE {x}
    BY <2>1, <2>2, <2>3
  <2> QED BY <1>6, <2>2, <2>4 DEF x, f
<1>7. CASE n > 0
  <2> DEFINE idx == Cardinality(UpTo(S, day)) + n - 1
  <2>1. x = IF idx < N THEN f[idx + 1] ELSE None
    BY <1>1, <1>2, <1>7 DEF nth_trading_day
  <2>2. idx \in Nat
    BY <1>3, <1>7
  <2>3. \A d \in S : d \in NthDays(S, day, n) <=> Cardinality(Below(S, d)) = idx
    <3> SUFFICES ASSUME NEW d \in S
                 PROVE  d \in NthDays(S, day, n) <=> Cardinality(Below(S, d)) = idx
      OBVIOUS
    <3>1. CASE day < d
      BY <1>3, <1>4, <3>1
    <3>2. CASE ~(day < d)
      <4>1. UpTo(S, d) \in SUBSET UpTo(S, day) /\ IsFiniteSet(UpTo(S, day))
        <5>1. d \in Int /\ \A c \in S : c \in Int
          OBVIOUS
        <5>2. \A c \in S : c <= d => c <= day
          BY <3>2, <5>1
        <5> QED BY <5>2, Counts DEF UpTo
      <4>2. Cardinality(UpTo(S, d)) <= Cardinality(UpTo(S, day))
        BY <4>1, FS_Subset
      <4> QED BY <1>3, <1>4, <1>7, <3>2, <4>2
    <3> QED BY <3>1, <3>2
  <2>4. NthDays(S, day, n) \subseteq S
    BY DEF NthDays
  <2> HIDE DEF idx, x
  <2>5. CASE idx < N
    <3>1. idx + 1 \in 1 .. N
      BY <1>1, <2>2, <2>5
    <3>2. f[idx + 1] \in S /\ Cardinality(Below(S, f[idx + 1])) = idx
      BY <1>1, <2>2, <3>1
    <3>3. x \in S /\ x # None /\ x \in NthDays(S, day, n)
      BY <1>3, <2>1, <2>3, <2>5, <3>2
    <3>4. \A d \in NthDays(S, day, n) : d = x
      BY <1>1, <2>1, <2>3, <2>4, <2>5
    <3>5. ~(Cardinality(UpTo(S, day)) + n > N)
      BY <1>1, <1>3, <1>7, <2>5 DEF idx
    <3> QED BY <1>7, <3>3, <3>4, <3>5 DEF x, f, N
  <2>6. CASE ~(idx < N)
    <3>1. \A d \in S : d \notin NthDays(S, day, n)
      BY <1>1, <1>3, <2>2, <2>3, <2>6
    <3>2. x = None /\ NthDays(S, day, n) = {}
      BY <2>1, <2>4, <2>6, <3>1
    <3>3. Cardinality(UpTo(S, day)) + n > N
      BY <1>1, <1>3, <1>7, <2>6 DEF idx
    <3> QED BY <1>7, <3>2, <3>3 DEF x, f, N
  <2> QED BY <2>5, <2>6
<1> QED BY <1>6, <1>7

-----------------------------------------------------------------------------
(* The order of the detail.                                                *)

RowSet == [trade_date : Int, symbol : Int, entry_price : Int, exit_date : Int,
           exit_price : Int, change : Int, return_pct : Int]

(* The key as three numbers, compared from the first to the last.          *)
Key(sort, row) ==
    CASE sort = "trade_date" -> <<row.trade_date, row.symbol, row.symbol>>
      [] sort = "symbol"     -> <<row.symbol, row.trade_date, row.trade_date>>
      [] OTHER               -> <<row[sort], row.trade_date, row.symbol>>
Lex(x, y) == x[1] < y[1] \/ (x[1] = y[1] /\ (x[2] < y[2] \/ (x[2] = y[2] /\ x[3] < y[3])))

(* A sort key is three numbers.                                            *)
LEMMA KeyTyped ==
    ASSUME NEW sort \in DETAIL_SORT_KEYS, NEW a \in RowSet
    PROVE  /\ Key(sort, a) \in Int \X Int \X Int
           /\ sort = "trade_date" => Key(sort, a) = <<a.trade_date, a.symbol, a.symbol>>
           /\ sort = "symbol" => Key(sort, a) = <<a.symbol, a.trade_date, a.trade_date>>
           /\ sort \notin {"trade_date", "symbol"} =>
                  Key(sort, a) = <<a[sort], a.trade_date, a.symbol>> /\ a[sort] \in Int
<1>1. a[sort] \in Int /\ a.trade_date \in Int /\ a.symbol \in Int
  BY DEF RowSet, DETAIL_SORT_KEYS
<1>2. CASE sort = "trade_date"
  BY <1>1, <1>2 DEF Key
<1>3. CASE sort = "symbol"
  BY <1>1, <1>3 DEF Key
<1>4. CASE sort \notin {"trade_date", "symbol"}
  BY <1>1, <1>4 DEF Key
<1> QED BY <1>2, <1>3, <1>4

(* The key of _detail_sort_key, which may have two parts, orders rows like *)
(* the three numbers.                                                      *)
LEMMA KeyCompares ==
    ASSUME NEW sort \in DETAIL_SORT_KEYS, NEW a \in RowSet, NEW b \in RowSet
    PROVE  LET x == detail_sort_key(sort, a)
               y == detail_sort_key(sort, b)
           IN (\E i \in DOMAIN x : x[i] < y[i] /\ \A j \in 1 .. i - 1 : x[j] = y[j])
                 <=> Lex(Key(sort, a), Key(sort, b))
<1> DEFINE x == detail_sort_key(sort, a)
           y == detail_sort_key(sort, b)
           Less == \E i \in DOMAIN x : x[i] < y[i] /\ \A j \in 1 .. i - 1 : x[j] = y[j]
<1>0. 1 .. 1 - 1 = {} /\ 1 .. 2 - 1 = {1} /\ 1 .. 3 - 1 = {1, 2}
  OBVIOUS
<1>1. CASE sort = "trade_date"
  <2>1. x = <<a.trade_date, a.symbol>> /\ y = <<b.trade_date, b.symbol>>
    BY <1>1 DEF detail_sort_key
  <2>2. DOMAIN x = {1, 2}
    BY <2>1
  <2>3. Less <=> x[1] < y[1] \/ (x[2] < y[2] /\ x[1] = y[1])
    <3> HIDE DEF x, y
    <3> QED BY <1>0, <2>2
  <2>4. Key(sort, a) = <<a.trade_date, a.symbol, a.symbol>>
        /\ Key(sort, b) = <<b.trade_date, b.symbol, b.symbol>>
    BY <1>1, KeyTyped
  <2>5. a.symbol \in Int /\ b.symbol \in Int
    BY DEF RowSet
  <2> QED BY <2>1, <2>3, <2>4, <2>5 DEF Lex
<1>2. CASE sort = "symbol"
  <2>1. x = <<a.symbol, a.trade_date>> /\ y = <<b.symbol, b.trade_date>>
    BY <1>2 DEF detail_sort_key
  <2>2. DOMAIN x = {1, 2}
    BY <2>1
  <2>3. Less <=> x[1] < y[1] \/ (x[2] < y[2] /\ x[1] = y[1])
    <3> HIDE DEF x, y
    <3> QED BY <1>0, <2>2
  <2>4. Key(sort, a) = <<a.symbol, a.trade_date, a.trade_date>>
        /\ Key(sort, b) = <<b.symbol, b.trade_date, b.trade_date>>
    BY <1>2, KeyTyped
  <2>5. a.trade_date \in Int /\ b.trade_date \in Int
    BY DEF RowSet
  <2> QED BY <2>1, <2>3, <2>4, <2>5 DEF Lex
<1>3. CASE sort \notin {"trade_date", "symbol"}
  <2>1. x = <<a[sort], a.trade_date, a.symbol>> /\ y = <<b[sort], b.trade_date, b.symbol>>
    BY <1>3 DEF detail_sort_key
  <2>2. DOMAIN x = {1, 2, 3}
    BY <2>1
  <2>3. Less <=> \/ x[1] < y[1]
                 \/ x[2] < y[2] /\ x[1] = y[1]
                 \/ x[3] < y[3] /\ x[1] = y[1] /\ x[2] = y[2]
    <3> HIDE DEF x, y
    <3> QED BY <1>0, <2>2
  <2>4. Key(sort, a) = <<a[sort], a.trade_date, a.symbol>>
        /\ Key(sort, b) = <<b[sort], b.trade_date, b.symbol>>
    BY <1>3, KeyTyped
  <2> QED BY <2>1, <2>3, <2>4 DEF Lex
<1> QED BY <1>1, <1>2, <1>3

(* So the order of the detail is lexicographic, turned round for desc.     *)
LEMMA BeforeIsLex ==
    ASSUME NEW q \in Question, NEW a \in RowSet, NEW b \in RowSet
    PROVE  Before(q, a, b) <=> IF q.order = "asc" THEN Lex(Key(q.sort, a), Key(q.sort, b))
                               ELSE Lex(Key(q.sort, b), Key(q.sort, a))
<1>1. q.sort \in DETAIL_SORT_KEYS
  BY DEF Question
<1>2. CASE q.order = "asc"
  BY <1>1, <1>2, KeyCompares DEF Before
<1>3. CASE q.order # "asc"
  BY <1>1, <1>3, KeyCompares DEF Before
<1> QED BY <1>2, <1>3

(* The lexicographic order is strict, and a third key is always after the  *)
(* lesser or before the greater of two that differ.                        *)
LEMMA LexOrder ==
    ASSUME NEW x \in Int \X Int \X Int, NEW y \in Int \X Int \X Int,
           NEW z \in Int \X Int \X Int
    PROVE  /\ ~Lex(x, x)
           /\ Lex(x, y) /\ Lex(y, z) => Lex(x, z)
           /\ Lex(x, z) => Lex(x, y) \/ Lex(y, z)
<1>1. /\ x[1] \in Int /\ x[2] \in Int /\ x[3] \in Int
      /\ y[1] \in Int /\ y[2] \in Int /\ y[3] \in Int
      /\ z[1] \in Int /\ z[2] \in Int /\ z[3] \in Int
  OBVIOUS
<1> QED BY <1>1 DEF Lex

(* Before compares keys, so it is a strict order, and two rows of which    *)
(* neither is before the other have the same rows before them.             *)
LEMMA BeforeOrders ==
    ASSUME NEW q \in Question, NEW a \in RowSet, NEW b \in RowSet, NEW c \in RowSet
    PROVE  /\ ~Before(q, a, a)
           /\ Before(q, a, b) /\ Before(q, b, c) => Before(q, a, c)
           /\ Before(q, a, c) => Before(q, a, b) \/ Before(q, b, c)
<1>1. q.sort \in DETAIL_SORT_KEYS
  BY DEF Question
<1> DEFINE x == Key(q.sort, a)
           y == Key(q.sort, b)
           z == Key(q.sort, c)
<1>2. x \in Int \X Int \X Int /\ y \in Int \X Int \X Int /\ z \in Int \X Int \X Int
  BY <1>1, KeyTyped
<1>3. /\ Before(q, a, a) <=> Lex(x, x)
      /\ Before(q, a, b) <=> IF q.order = "asc" THEN Lex(x, y) ELSE Lex(y, x)
      /\ Before(q, b, c) <=> IF q.order = "asc" THEN Lex(y, z) ELSE Lex(z, y)
      /\ Before(q, a, c) <=> IF q.order = "asc" THEN Lex(x, z) ELSE Lex(z, x)
  BY BeforeIsLex
<1> HIDE DEF x, y, z
<1>4. /\ ~Lex(x, x)
      /\ Lex(x, y) /\ Lex(y, z) => Lex(x, z)
      /\ Lex(x, z) => Lex(x, y) \/ Lex(y, z)
      /\ Lex(z, y) /\ Lex(y, x) => Lex(z, x)
      /\ Lex(z, x) => Lex(z, y) \/ Lex(y, x)
  BY <1>2, LexOrder
<1> QED BY <1>3, <1>4

(* The places of rows in a list: ahead is a total order.                   *)
LEMMA AheadOrders ==
    ASSUME NEW q \in Question, NEW a \in RowSet, NEW b \in RowSet, NEW c \in RowSet,
           NEW i \in Int, NEW j \in Int, NEW k \in Int
    PROVE  /\ ~Ahead(q, a, i, a, i)
           /\ i # j => Ahead(q, a, i, b, j) \/ Ahead(q, b, j, a, i)
           /\ Ahead(q, a, i, b, j) /\ Ahead(q, b, j, c, k) => Ahead(q, a, i, c, k)
<1>1. /\ ~Before(q, a, a)
      /\ Before(q, a, b) /\ Before(q, b, c) => Before(q, a, c)
      /\ Before(q, a, b) => Before(q, a, c) \/ Before(q, c, b)
      /\ Before(q, b, c) => Before(q, b, a) \/ Before(q, a, c)
      /\ Before(q, c, a) => Before(q, c, b) \/ Before(q, b, a)
      /\ Before(q, a, b) /\ Before(q, b, a) => Before(q, a, a)
  BY BeforeOrders
<1> QED BY <1>1 DEF Ahead

(* Sorted puts every row once, each ahead of those below it.               *)
LEMMA SortedLists ==
    ASSUME NEW q \in Question, NEW rows \in Seq(RowSet)
    PROVE  \E p \in [1 .. Len(rows) -> 1 .. Len(rows)] :
              /\ Sorted(q, rows) = [k \in 1 .. Len(rows) |-> rows[p[k]]]
              /\ \A j, k \in 1 .. Len(rows) : p[j] = p[k] => j = k
              /\ \A i \in 1 .. Len(rows) : \E k \in 1 .. Len(rows) : p[k] = i
              /\ \A j, k \in 1 .. Len(rows) : j < k =>
                    Ahead(q, rows[p[j]], p[j], rows[p[k]], p[k])
<1> DEFINE n == Len(rows)
           S == 1 .. n
           below == [i \in S |-> {j \in S : Ahead(q, rows[j], j, rows[i], i)}]
           p == [k \in S |-> CHOOSE i \in S : Cardinality(below[i]) = k - 1]
<1>1. n \in Nat /\ DOMAIN rows = S /\ \A i \in S : i \in Int /\ rows[i] \in RowSet
  OBVIOUS
<1>2. IsFiniteSet(S) /\ Cardinality(S) = n
  BY <1>1, UpToSize
<1> HIDE DEF n
<1>3. below \in [S -> SUBSET S]
  OBVIOUS
<1>4. /\ \A x \in S : x \notin below[x]
      /\ \A x, y \in S : x = y \/ x \in below[y] \/ y \in below[x]
      /\ \A x, y \in S : y \in below[x] => below[y] \subseteq below[x]
  <2>1. \A x, y \in S : y \in below[x] <=> Ahead(q, rows[y], y, rows[x], x)
    OBVIOUS
  <2>2. \A x, y, z \in S :
          /\ ~Ahead(q, rows[x], x, rows[x], x)
          /\ x = y \/ Ahead(q, rows[x], x, rows[y], y) \/ Ahead(q, rows[y], y, rows[x], x)
          /\ Ahead(q, rows[z], z, rows[y], y) /\ Ahead(q, rows[y], y, rows[x], x) =>
                Ahead(q, rows[z], z, rows[x], x)
    BY <1>1, AheadOrders
  <2> HIDE DEF below, S
  <2> QED BY <1>3, <2>1, <2>2
<1>5. /\ \A x \in S : Cardinality(below[x]) \in Nat /\ Cardinality(below[x]) < n
      /\ \A x, y \in S :
             y \in below[x] <=> Cardinality(below[y]) < Cardinality(below[x])
      /\ \A x, y \in S : Cardinality(below[x]) = Cardinality(below[y]) => x = y
      /\ \A k \in 1 .. n : \E x \in S : Cardinality(below[x]) = k - 1
  <2> HIDE DEF below, S
  <2> QED BY <1>2, <1>3, <1>4, Ranks
<1>6. \A k \in S : p[k] \in S /\ Cardinality(below[p[k]]) = k - 1
  <2> HIDE DEF below
  <2> QED BY <1>5
<1>7. p \in [S -> S]
  BY <1>6
<1>8. Sorted(q, rows) = [k \in S |-> rows[p[k]]]
  <2>1. \A k \in S : p[k] = CHOOSE i \in S : Cardinality({j \in S :
                          Ahead(q, rows[j], j, rows[i], i)}) = k - 1
    OBVIOUS
  <2>2. Sorted(q, rows) = [k \in S |-> rows[CHOOSE i \in S : Cardinality({j \in S :
                              Ahead(q, rows[j], j, rows[i], i)}) = k - 1]]
    BY <1>1 DEF Sorted
  <2> HIDE DEF p
  <2> QED BY <2>1, <2>2
<1>9. ASSUME NEW j \in S, NEW k \in S, j < k
      PROVE  Ahead(q, rows[p[j]], p[j], rows[p[k]], p[k])
  <2>1. p[j] \in below[p[k]]
    <3>1. p[j] \in S /\ p[k] \in S /\ Cardinality(below[p[j]]) = j - 1
          /\ Cardinality(below[p[k]]) = k - 1 /\ j \in Int /\ k \in Int
      BY <1>1, <1>6
    <3> HIDE DEF below, p
    <3>2. Cardinality(below[p[j]]) < Cardinality(below[p[k]])
      BY <1>9, <3>1
    <3> QED BY <1>5, <3>1, <3>2
  <2>2. below[p[k]] = {l \in S : Ahead(q, rows[l], l, rows[p[k]], p[k])}
    BY <1>6
  <2> QED BY <2>1, <2>2
<1> HIDE DEF below, p
<1>10. \A j, k \in S : p[j] = p[k] => j = k
  BY <1>1, <1>6
<1>11. ASSUME NEW i \in S PROVE \E k \in S : p[k] = i
  <2>1. Cardinality(below[i]) + 1 \in S
    <3>1. Cardinality(below[i]) \in Nat /\ Cardinality(below[i]) < n
      BY <1>5
    <3> QED BY <1>1, <3>1
  <2>2. PICK k \in S : k = Cardinality(below[i]) + 1
    BY <2>1
  <2>3. p[k] \in S /\ Cardinality(below[p[k]]) = k - 1 /\ Cardinality(below[i]) \in Nat
    BY <1>5, <1>6
  <2>4. Cardinality(below[p[k]]) = Cardinality(below[i])
    BY <2>2, <2>3
  <2> QED BY <1>5, <2>3, <2>4
<1> QED BY <1>7, <1>8, <1>9, <1>10, <1>11 DEF n

-----------------------------------------------------------------------------
(* The loop over the entries.                                              *)

(* What a request has read, as far as its types go.                        *)
Readable(r) ==
    /\ r.q \in Question /\ normalize_horizons(r.q)
    /\ r.entries \in Seq(Entry) /\ r.prices \in Table
    /\ \E S \in SUBSET Days : r.calendar = Ascending(S)

Counted1 == [missing : Nat, rows : Seq(RowSet)]
Accs(r) == [r.q.horizons -> Counted1]
Zero(r) == [n \in r.q.horizons |-> [missing |-> 0, rows |-> <<>>]]

Trading(r, e, n) ==
    EntryPrice(r, e) # None /\ EntryPrice(r, e) > 0 /\ Settled(r, e, n)
Places(r, n, k) == {i \in 1 .. k : Trading(r, r.entries[i], n)}

(* The rows of horizon n after k entries: those of the entries that trade, *)
(* in the order of the entries.                                            *)
RowsAt(r, n, k, rows, pos) ==
    /\ pos \in [1 .. Len(rows) -> Places(r, n, k)]
    /\ \A i, j \in 1 .. Len(rows) : i < j => pos[i] < pos[j]
    /\ \A i \in Places(r, n, k) : \E j \in 1 .. Len(rows) : pos[j] = i
    /\ \A j \in 1 .. Len(rows) : rows[j] = Row(r, r.entries[pos[j]], n)
Tallied(r, n, k, c) ==
    /\ c \in Counted1
    /\ \E pos : RowsAt(r, n, k, c.rows, pos)
    /\ c.missing + Len(c.rows) = k

(* The horizons of a valid question are finitely many naturals.            *)
LEMMA HorizonsTyped ==
    ASSUME Facts, NEW r, Readable(r)
    PROVE  /\ r.q.horizons \in SUBSET (0 .. MAX_HORIZON) /\ IsFiniteSet(r.q.horizons)
           /\ r.q.horizons # {} /\ r.q.horizons \in SUBSET Nat
<1>1. r.q.horizons \in SUBSET Int
  BY DEF Readable, Question
<1>2. MAX_HORIZON \in Nat
  BY DEF Facts, QuestionAssumption
<1>3. r.q.horizons \in SUBSET (0 .. MAX_HORIZON) /\ r.q.horizons # {}
  BY <1>1, <1>2 DEF Readable, normalize_horizons
<1>4. IsFiniteSet(0 .. MAX_HORIZON)
  BY <1>2, FS_Interval
<1> QED BY <1>2, <1>3, <1>4, FS_Subset

(* An exit is a day or none.                                               *)
LEMMA ExitTyped ==
    ASSUME Facts, NEW r, Readable(r), NEW e \in Entry, NEW n \in r.q.horizons
    PROVE  ExitDay(r, e, n) \in Days \cup {None} /\ None \notin Days
<1>1. PICK S \in SUBSET Days : r.calendar = Ascending(S)
  BY DEF Readable
<1>2. Days \subseteq Int /\ IsFiniteSet(Days) /\ None \notin Int
  BY DEF Facts, QuestionAssumption
<1>3. S \in SUBSET Int /\ IsFiniteSet(S) /\ e.day \in Int /\ n \in Nat
  BY <1>2, FS_Subset, HorizonsTyped DEF Entry
<1>4. /\ nth_trading_day(Ascending(S), e.day, n) # None =>
               nth_trading_day(Ascending(S), e.day, n) \in S
  BY <1>2, <1>3, NthTradingDay
<1> QED BY <1>1, <1>2, <1>4 DEF ExitDay

(* A row that trades is made of numbers: its entry price is there and not  *)
(* zero.                                                                   *)
LEMMA RowTyped ==
    ASSUME Facts, NEW r, Readable(r), NEW e \in Entry, NEW n \in r.q.horizons,
           Trading(r, e, n)
    PROVE  Row(r, e, n) \in RowSet
<1>1. ExitDay(r, e, n) \in Days
  BY ExitTyped DEF Trading, Settled
<1>2. r.prices \in Table /\ e.day \in Days /\ e.symbol \in Symbols /\ Days \subseteq Int
      /\ Symbols \subseteq Int /\ Closes \subseteq Int /\ e.price \in Int \cup {None}
  BY DEF Readable, Entry, Facts, QuestionAssumption
<1>3. r.prices[ExitDay(r, e, n)][e.symbol] \in Int
  <2>1. r.prices \in [Days -> [Symbols -> Closes \cup {None}]]
    BY <1>2 DEF Table
  <2>2. r.prices[ExitDay(r, e, n)][e.symbol] \in Closes \cup {None}
    BY <1>1, <1>2, <2>1
  <2>3. r.prices[ExitDay(r, e, n)][e.symbol] # None
    BY DEF Trading, Settled
  <2> QED BY <1>2, <2>2, <2>3
<1>4. EntryPrice(r, e) \in Int
  <2>1. r.prices[e.day][e.symbol] \in Closes \cup {None}
    BY <1>2 DEF Table
  <2> QED BY <1>2, <2>1 DEF Trading, EntryPrice
<1>5. EntryPrice(r, e) > 0
  BY DEF Trading
<1>6. e.day \in Int /\ e.symbol \in Int /\ ExitDay(r, e, n) \in Int
  BY <1>1, <1>2
<1> DEFINE entry == EntryPrice(r, e)
           exit == r.prices[ExitDay(r, e, n)][e.symbol]
<1> HIDE DEF entry, exit
<1>7. entry \in Int /\ exit \in Int /\ entry > 0
  BY <1>3, <1>4, <1>5 DEF entry, exit
<1>8. exit - entry \in Int /\ ((exit - entry) * 100) \div entry \in Int
  BY <1>7
<1>9. Row(r, e, n) =
        [trade_date |-> e.day, symbol |-> e.symbol, entry_price |-> entry,
         exit_date |-> ExitDay(r, e, n), exit_price |-> exit, change |-> exit - entry,
         return_pct |-> ((exit - entry) * 100) \div entry]
  BY DEF Row, entry, exit
<1> QED BY <1>6, <1>7, <1>8, <1>9 DEF RowSet

(* One turn of the loop, horizon by horizon.                               *)
LEMMA CountTyped ==
    ASSUME Facts, NEW r, Readable(r), NEW e \in Entry, NEW a \in Accs(r)
    PROVE  /\ Count(r, a, e) \in Accs(r)
           /\ \A n \in r.q.horizons :
                 /\ Trading(r, e, n) =>
                      /\ Count(r, a, e)[n].missing = a[n].missing
                      /\ Count(r, a, e)[n].rows = Append(a[n].rows, Row(r, e, n))
                 /\ ~Trading(r, e, n) =>
                      /\ Count(r, a, e)[n].missing = a[n].missing + 1
                      /\ Count(r, a, e)[n].rows = a[n].rows
<1>1. \A n \in r.q.horizons : a[n] \in Counted1
  BY DEF Accs
<1>2. ASSUME NEW n \in r.q.horizons
      PROVE  /\ Trading(r, e, n) =>
                   /\ Count(r, a, e)[n].missing = a[n].missing
                   /\ Count(r, a, e)[n].rows = Append(a[n].rows, Row(r, e, n))
             /\ ~Trading(r, e, n) =>
                   /\ Count(r, a, e)[n].missing = a[n].missing + 1
                   /\ Count(r, a, e)[n].rows = a[n].rows
             /\ Count(r, a, e)[n] \in Counted1
  <2>1. a[n] = [missing |-> a[n].missing, rows |-> a[n].rows] /\ a[n].missing \in Nat
        /\ a[n].rows \in Seq(RowSet)
    BY <1>1 DEF Counted1
  <2>2. CASE Trading(r, e, n)
    <3>1. Count(r, a, e)[n] = [a[n] EXCEPT !.rows = Append(@, Row(r, e, n))]
      BY <2>2 DEF Count, Trading
    <3>2. Append(a[n].rows, Row(r, e, n)) \in Seq(RowSet)
      BY <2>1, <2>2, RowTyped
    <3> QED BY <2>1, <2>2, <3>1, <3>2 DEF Counted1
  <2>3. CASE ~Trading(r, e, n)
    <3>1. Count(r, a, e)[n] = [a[n] EXCEPT !.missing = @ + 1]
      BY <2>3 DEF Count, Trading
    <3> QED BY <2>1, <2>3, <3>1 DEF Counted1
  <2> QED BY <2>2, <2>3
<1>3. Count(r, a, e) = [n \in r.q.horizons |-> Count(r, a, e)[n]]
  BY DEF Count
<1> QED BY <1>2, <1>3 DEF Accs

(* The loop is an iteration over the entries.                              *)
LEMMA LoopFolds ==
    ASSUME Facts, NEW r, Readable(r)
    PROVE  \E F : /\ F[0] = Zero(r) /\ Counted(r) = F[Len(r.entries)]
                  /\ \A i \in 1 .. Len(r.entries) : F[i] = Count(r, F[i - 1], r.entries[i])
<1> DEFINE b == r.entries
           n == Len(b)
           Acc == Accs(r)
           step == [i \in 1 .. n |-> [a \in Acc |-> Count(r, a, b[i])]]
<1>1. n \in Nat /\ DOMAIN b = 1 .. n /\ \A i \in 1 .. n : b[i] \in Entry
  BY DEF Readable
<1> HIDE DEF n, b, Acc
<1>2. \A i \in 1 .. n : \A a \in Acc : step[i][a] = Count(r, a, b[i]) /\ step[i][a] \in Acc
  BY <1>1, CountTyped DEF Acc
<1>3. Zero(r) \in Acc
  BY DEF Zero, Acc, Accs, Counted1
<1>4. PICK g : Iterates(g, n, Acc, Zero(r), step)
  <2>1. \A i \in 1 .. n : \A a \in Acc : step[i][a] \in Acc
    BY <1>2
  <2> HIDE DEF step
  <2> QED BY <1>1, <1>3, <2>1, FoldExists
<1> HIDE DEF step
<1>5. \A s \in SUBSET (1 .. n) : s # {} => Max(s) \in 1 .. n
  <2> SUFFICES ASSUME NEW s \in SUBSET (1 .. n), s # {} PROVE Max(s) \in 1 .. n
    OBVIOUS
  <2>1. s \in SUBSET Int /\ IsFiniteSet(1 .. n)
    BY <1>1, FS_Interval
  <2>2. IsFiniteSet(s)
    BY <2>1, FS_Subset
  <2> QED BY <2>1, <2>2, GreatestIsMax
<1>6. \A s \in SUBSET (1 .. n) :
          g[s] = IF s = {} THEN Zero(r) ELSE Count(r, g[s \ {Max(s)}], b[Max(s)])
  <2> SUFFICES ASSUME NEW s \in SUBSET (1 .. n), s # {}
               PROVE  g[s] = Count(r, g[s \ {Max(s)}], b[Max(s)])
    BY <1>4 DEF Iterates
  <2>1. g[s \ {Max(s)}] \in Acc
    BY <1>4 DEF Iterates
  <2> QED BY <1>2, <1>4, <1>5, <2>1 DEF Iterates
<1>7. g = [s \in SUBSET DOMAIN b |->
             IF s = {} THEN Zero(r) ELSE Count(r, g[s \ {Max(s)}], b[Max(s)])]
  BY <1>1, <1>4, <1>6 DEF Iterates
<1> DEFINE it == CHOOSE it : it = [s \in SUBSET DOMAIN b |->
                    IF s = {} THEN Zero(r) ELSE Count(r, it[s \ {Max(s)}], b[Max(s)])]
<1>8. Counted(r) = it[DOMAIN b]
  BY DEF Counted, Zero, FoldLeft, MapThenFoldSet, b
<1>9. it = [s \in SUBSET DOMAIN b |->
              IF s = {} THEN Zero(r) ELSE Count(r, it[s \ {Max(s)}], b[Max(s)])]
  BY <1>7
<1> HIDE DEF it
<1> DEFINE F == [i \in 0 .. n |-> it[1 .. i]]
<1>10. F[0] = Zero(r)
  BY <1>1, <1>9
<1>11. \A i \in 1 .. n : F[i] = Count(r, F[i - 1], b[i])
  <2> SUFFICES ASSUME NEW i \in 1 .. n PROVE F[i] = Count(r, F[i - 1], b[i])
    OBVIOUS
  <2>1. Max(1 .. i) = i /\ (1 .. i) \ {i} = 1 .. (i - 1)
    BY <1>1, GreatestOfInterval
  <2>2. 1 .. i \in SUBSET DOMAIN b /\ 1 .. i # {} /\ i \in 0 .. n /\ i - 1 \in 0 .. n
    BY <1>1
  <2> QED BY <1>9, <2>1, <2>2
<1>12. Counted(r) = F[n]
  BY <1>1, <1>8
<1> HIDE DEF F
<1> QED BY <1>10, <1>11, <1>12 DEF n, b

(* Before the first entry nothing is counted.                              *)
LEMMA TalliedStart ==
    ASSUME NEW r, NEW n \in r.q.horizons
    PROVE  Tallied(r, n, 0, Zero(r)[n])
<1>1. Zero(r)[n] = [missing |-> 0, rows |-> <<>>] /\ Len(<<>>) = 0 /\ <<>> \in Seq(RowSet)
  BY DEF Zero
<1>2. 1 .. 0 = {} /\ Places(r, n, 0) = {}
  BY DEF Places
<1>3. RowsAt(r, n, 0, <<>>, [j \in {} |-> 0])
  BY <1>1, <1>2 DEF RowsAt
<1>4. Zero(r)[n].missing = 0 /\ Zero(r)[n].rows = <<>> /\ 0 + Len(<<>>) = 0
  BY <1>1
<1>5. Zero(r)[n] \in Counted1
  BY <1>1 DEF Counted1
<1> QED BY <1>3, <1>4, <1>5 DEF Tallied

(* The places of one entry more.                                           *)
LEMMA PlacesStep ==
    ASSUME NEW r, NEW n, NEW k \in Nat
    PROVE  /\ Places(r, n, k + 1) = IF Trading(r, r.entries[k + 1], n)
                                    THEN Places(r, n, k) \cup {k + 1} ELSE Places(r, n, k)
           /\ \A i \in Places(r, n, k) : i \in Nat /\ i <= k
<1>1. \A i : i \in 1 .. k + 1 <=> i \in 1 .. k \/ i = k + 1
  OBVIOUS
<1>2. \A i \in 1 .. k : i \in Nat /\ i <= k
  OBVIOUS
<1> QED BY <1>1, <1>2 DEF Places

(* One turn of the loop counts one entry more.                             *)
LEMMA TalliedStep ==
    ASSUME Facts, NEW r, Readable(r), NEW n \in r.q.horizons, NEW k \in Nat,
           k + 1 <= Len(r.entries), NEW a \in Accs(r), Tallied(r, n, k, a[n])
    PROVE  Tallied(r, n, k + 1, Count(r, a, r.entries[k + 1])[n])
<1> DEFINE e == r.entries[k + 1]
           c == Count(r, a, e)[n]
           m == Len(a[n].rows)
<1>1. e \in Entry
  <2>1. k + 1 \in 1 .. Len(r.entries) /\ r.entries \in Seq(Entry)
    BY DEF Readable
  <2> QED BY <2>1
<1>2. /\ c \in Counted1
      /\ Trading(r, e, n) => c.missing = a[n].missing /\ c.rows = Append(a[n].rows, Row(r, e, n))
      /\ ~Trading(r, e, n) => c.missing = a[n].missing + 1 /\ c.rows = a[n].rows
  <2> HIDE DEF e, m
  <2> QED BY <1>1, CountTyped DEF Accs
<1>3. PICK pos : RowsAt(r, n, k, a[n].rows, pos)
  BY DEF Tallied
<1>4. a[n].missing + m = k /\ a[n].missing \in Nat /\ a[n].rows \in Seq(RowSet) /\ m \in Nat
  BY DEF Tallied, Counted1
<1> HIDE DEF c
<1>5. CASE ~Trading(r, e, n)
  <2>1. Places(r, n, k + 1) = Places(r, n, k)
    BY <1>5, PlacesStep
  <2>2. c.rows = a[n].rows /\ c.missing + m = k + 1
    <3>1. c.rows = a[n].rows /\ c.missing = a[n].missing + 1
      BY <1>2, <1>5
    <3> HIDE DEF m
    <3> QED BY <1>4, <3>1
  <2>3. RowsAt(r, n, k + 1, c.rows, pos)
    BY <1>3, <2>1, <2>2 DEF RowsAt
  <2>4. Tallied(r, n, k + 1, c)
    <3>1. c.missing + Len(c.rows) = k + 1
      BY <2>2
    <3> QED BY <1>2, <2>3, <3>1 DEF Tallied
  <2> QED BY <2>4 DEF c
<1>6. CASE Trading(r, e, n)
  <2> DEFINE pp == [j \in 1 .. m + 1 |-> IF j = m + 1 THEN k + 1 ELSE pos[j]]
  <2>1. Places(r, n, k + 1) = Places(r, n, k) \cup {k + 1}
        /\ \A i \in Places(r, n, k) : i \in Nat /\ i <= k
    BY <1>6, PlacesStep
  <2>2. Row(r, e, n) \in RowSet
    BY <1>1, <1>6, RowTyped
  <2>3. /\ c.rows = Append(a[n].rows, Row(r, e, n)) /\ Len(c.rows) = m + 1
        /\ c.missing + (m + 1) = k + 1
        /\ c.rows[m + 1] = Row(r, e, n)
        /\ \A j \in 1 .. m : c.rows[j] = a[n].rows[j]
    <3>1. c.rows = Append(a[n].rows, Row(r, e, n)) /\ c.missing = a[n].missing
      BY <1>2, <1>6
    <3>2. PICK row \in RowSet : row = Row(r, e, n)
      BY <2>2
    <3>3. PICK rows \in Seq(RowSet) : rows = a[n].rows
      BY <1>4
    <3>4. /\ Len(Append(rows, row)) = Len(rows) + 1
          /\ Append(rows, row)[Len(rows) + 1] = row
          /\ \A j \in 1 .. Len(rows) : Append(rows, row)[j] = rows[j]
      OBVIOUS
    <3>5. Len(rows) = m
      BY <3>3
    <3>6. c.missing + (m + 1) = k + 1
      <4> HIDE DEF m
      <4>1. c.missing = a[n].missing
        BY <3>1
      <4>2. a[n].missing + m = k /\ a[n].missing \in Nat /\ m \in Nat /\ k \in Nat
        BY <1>4
      <4> QED BY <4>1, <4>2
    <3> QED BY <3>1, <3>2, <3>3, <3>4, <3>5, <3>6
  <2>4. /\ pos \in [1 .. m -> Places(r, n, k)]
        /\ \A i, j \in 1 .. m : i < j => pos[i] < pos[j]
        /\ \A i \in Places(r, n, k) : \E j \in 1 .. m : pos[j] = i
        /\ \A j \in 1 .. m : a[n].rows[j] = Row(r, r.entries[pos[j]], n)
    BY <1>3 DEF RowsAt
  <2>5. /\ \A j : j \in 1 .. m + 1 <=> j \in 1 .. m \/ j = m + 1
        /\ \A j \in 1 .. m : j \in Nat /\ j < m + 1 /\ j # m + 1
    BY <1>4
  <2> HIDE DEF m
  <2>6. pp[m + 1] = k + 1 /\ \A j \in 1 .. m : pp[j] = pos[j]
    BY <2>5
  <2>7. pp \in [1 .. m + 1 -> Places(r, n, k + 1)]
    BY <2>1, <2>4, <2>5
  <2> HIDE DEF pp
  <2>8. \A i, j \in 1 .. m + 1 : i < j => pp[i] < pp[j]
    <3> SUFFICES ASSUME NEW i \in 1 .. m + 1, NEW j \in 1 .. m + 1, i < j
                 PROVE  pp[i] < pp[j]
      OBVIOUS
    <3>1. i \in 1 .. m
      BY <1>4, <2>5
    <3>2. pos[i] \in Nat /\ pos[i] <= k
      BY <2>1, <2>4, <3>1
    <3>3. CASE j = m + 1
      BY <2>6, <3>1, <3>2, <3>3
    <3>4. CASE j \in 1 .. m
      BY <2>4, <2>6, <3>1, <3>4
    <3> QED BY <2>5, <3>3, <3>4
  <2>9. \A i \in Places(r, n, k + 1) : \E j \in 1 .. m + 1 : pp[j] = i
    BY <2>1, <2>4, <2>5, <2>6
  <2>10. \A j \in 1 .. m + 1 : c.rows[j] = Row(r, r.entries[pp[j]], n)
    BY <2>3, <2>4, <2>5, <2>6
  <2>11. RowsAt(r, n, k + 1, c.rows, pp)
    BY <2>3, <2>7, <2>8, <2>9, <2>10 DEF RowsAt
  <2> QED BY <1>2, <2>3, <2>11 DEF Tallied, c
<1> QED BY <1>5, <1>6

(* So the loop counts every entry once per horizon: as a row when its      *)
(* prices are there, and as missing when not.                              *)
LEMMA CountedRight ==
    ASSUME Facts, NEW r, Readable(r)
    PROVE  /\ Counted(r) \in Accs(r)
           /\ \A n \in r.q.horizons : Tallied(r, n, Len(r.entries), Counted(r)[n])
<1> DEFINE N == Len(r.entries)
<1>1. PICK F : /\ F[0] = Zero(r) /\ Counted(r) = F[N]
               /\ \A i \in 1 .. N : F[i] = Count(r, F[i - 1], r.entries[i])
  BY LoopFolds
<1>2. N \in Nat /\ \A i \in 1 .. N : r.entries[i] \in Entry
  BY DEF Readable
<1> HIDE DEF N
<1> DEFINE Good(i) == /\ F[i] \in Accs(r)
                      /\ \A n \in r.q.horizons : Tallied(r, n, i, F[i][n])
           T == {i \in Nat : i <= N => Good(i)}
<1>3. 0 \in T
  <2>1. Zero(r) \in Accs(r)
    BY DEF Zero, Accs, Counted1
  <2>2. Good(0)
    BY <1>1, <2>1, TalliedStart
  <2> QED BY <2>2
<1>4. ASSUME NEW i \in Nat, i \in T PROVE i + 1 \in T
  <2> SUFFICES ASSUME i + 1 <= N PROVE Good(i + 1)
    OBVIOUS
  <2>1. Good(i) /\ i + 1 \in 1 .. N /\ i + 1 - 1 = i
    BY <1>2, <1>4
  <2>2. F[i + 1] = Count(r, F[i], r.entries[i + 1]) /\ r.entries[i + 1] \in Entry
    BY <1>1, <1>2, <2>1
  <2>3. F[i + 1] \in Accs(r)
    BY <2>1, <2>2, CountTyped
  <2>4. \A n \in r.q.horizons : Tallied(r, n, i + 1, F[i + 1][n])
    BY <2>1, <2>2, TalliedStep DEF N
  <2> QED BY <2>3, <2>4
<1>5. Nat \subseteq T
  <2> HIDE DEF T
  <2> QED BY <1>3, <1>4, NaturalInduction
<1>6. Good(N)
  BY <1>2, <1>5
<1> QED BY <1>1, <1>6 DEF N

-----------------------------------------------------------------------------
(* What was read, against what is true on a table.                         *)

(* The request sees entry e at horizon n as it is on a table.              *)
SeenOn(r, table, e, n) ==
    /\ TrueExits(table, e, n) = IF ExitDay(r, e, n) = None THEN {} ELSE {ExitDay(r, e, n)}
    /\ ExitDay(r, e, n) # None =>
          r.prices[ExitDay(r, e, n)][e.symbol] = table[ExitDay(r, e, n)][e.symbol]
    /\ e.price = None /\ r.q.mode = "close_to_close" =>
          r.prices[e.day][e.symbol] = table[e.day][e.symbol]

(* An entry that is seen as it is on a table contributes its true rows.    *)
LEMMA RowIsTrue ==
    ASSUME Facts, NEW r, Readable(r), NEW e \in Entry, NEW n \in r.q.horizons,
           NEW table, SeenOn(r, table, e, n)
    PROVE  TrueRows(r.q, table, e, n) =
             IF Trading(r, e, n) THEN {Row(r, e, n)} ELSE {}
<1> DEFINE entry == TrueEntry(r.q, table, e)
           x == ExitDay(r, e, n)
           X == {d \in TrueExits(table, e, n) :
                   entry # None /\ entry > 0 /\ table[d][e.symbol] # None}
           R(d) == [trade_date |-> e.day, symbol |-> e.symbol, entry_price |-> entry,
                    exit_date |-> d, exit_price |-> table[d][e.symbol],
                    change |-> table[d][e.symbol] - entry,
                    return_pct |-> ((table[d][e.symbol] - entry) * 100) \div entry]
<1>1. entry = EntryPrice(r, e)
  BY DEF TrueEntry, EntryPrice, SeenOn
<1>2. TrueRows(r.q, table, e, n) = {R(d) : d \in X}
  BY DEF TrueRows
<1>3. Trading(r, e, n) <=>
        entry # None /\ entry > 0 /\ x # None /\ r.prices[x][e.symbol] # None
  BY <1>1 DEF Trading, Settled
<1>4. TrueExits(table, e, n) = IF x = None THEN {} ELSE {x}
  BY DEF SeenOn
<1>5. x # None => r.prices[x][e.symbol] = table[x][e.symbol]
  BY DEF SeenOn
<1>6. x # None => Row(r, e, n) = R(x)
  BY <1>1, <1>5 DEF Row
<1> HIDE DEF entry, x, R
<1>7. X = IF Trading(r, e, n) THEN {x} ELSE {}
  BY <1>3, <1>4, <1>5
<1> QED BY <1>2, <1>3, <1>6, <1>7

(* The entries a request reads are the ones asked for, in their order.     *)
Listed(q) == list_snapshot_entries(MODE_SESSION[q.mode], resolve_range(q).start,
                                   resolve_range(q).end)

(* The range that _resolve_range fills in holds exactly the entries the    *)
(* question is about.                                                      *)
LEMMA RangeIsAsked ==
    ASSUME Facts, picks \in Screenings, NEW q \in Question
    PROVE  {i \in DOMAIN picks :
               /\ picks[i].session = MODE_SESSION[q.mode]
               /\ resolve_range(q).start <= picks[i].day
               /\ picks[i].day <= resolve_range(q).end} = Asked(q)
<1>1. picks \in Seq(Entry) /\ IsFiniteSet(Days) /\ Days \subseteq Int
  BY DEF Facts, QuestionAssumption, StoredAssumption
<1>2. \A i \in DOMAIN picks : picks[i] \in Entry /\ picks[i].day \in Days
                               /\ picks[i].day \in Screened
  <2>1. \A i \in DOMAIN picks : picks[i] \in Entry /\ picks[i].day \in Screened
    BY <1>1 DEF Screened, Facts, StoredAssumption
  <2> QED BY <2>1 DEF Entry
<1>3. Screened \in SUBSET Int /\ IsFiniteSet(Screened)
  <2>1. Screened \in SUBSET Days
    BY DEF Screened, Facts, StoredAssumption
  <2> QED BY <1>1, <2>1, FS_Subset
<1>4. Screened # {} => /\ Min(Screened) \in Screened /\ Max(Screened) \in Screened
                       /\ \A d \in Screened : Min(Screened) <= d /\ d <= Max(Screened)
  <2> SUFFICES ASSUME Screened # {}
               PROVE  /\ Min(Screened) \in Screened /\ Max(Screened) \in Screened
                      /\ \A d \in Screened : Min(Screened) <= d /\ d <= Max(Screened)
    OBVIOUS
  <2>1. \E d \in Screened : \A c \in Screened : d <= c
    BY <1>3, LeastOfFinite
  <2>2. Min(Screened) \in Screened /\ \A c \in Screened : Min(Screened) <= c
    BY <2>1 DEF Min
  <2>3. Max(Screened) \in Screened /\ \A c \in Screened : c <= Max(Screened)
    BY <1>3, GreatestIsMax
  <2> QED BY <2>2, <2>3
<1>5. \A i \in DOMAIN picks :
         /\ resolve_range(q).start <= picks[i].day <=>
               q.start = None \/ q.start <= picks[i].day
         /\ picks[i].day <= resolve_range(q).end <=>
               q.end = None \/ picks[i].day <= q.end
  <2> SUFFICES ASSUME NEW i \in DOMAIN picks
               PROVE  /\ resolve_range(q).start <= picks[i].day <=>
                            q.start = None \/ q.start <= picks[i].day
                      /\ picks[i].day <= resolve_range(q).end <=>
                            q.end = None \/ picks[i].day <= q.end
    OBVIOUS
  <2>1. Screened # {}
    BY <1>2
  <2>2. resolve_range(q).start = IF q.start # None THEN q.start ELSE Min(Screened)
    BY <2>1 DEF resolve_range, Resolved
  <2>3. resolve_range(q).end = IF q.end # None THEN q.end ELSE Max(Screened)
    BY <2>1 DEF resolve_range, Resolved
  <2> QED BY <1>2, <1>4, <2>1, <2>2, <2>3
<1> QED BY <1>5 DEF Asked

EntriesAt(es, q, at) ==
    /\ at \in [1 .. Len(es) -> Asked(q)]
    /\ \A j, k \in 1 .. Len(es) : j < k => at[j] < at[k]
    /\ \A i \in Asked(q) : \E k \in 1 .. Len(es) : at[k] = i
    /\ \A k \in 1 .. Len(es) : es[k] = picks[at[k]]

(* CollectEntries reads every entry the question is about, once and in     *)
(* order.                                                                  *)
LEMMA EntriesListed ==
    ASSUME Facts, picks \in Screenings, NEW q \in Question
    PROVE  /\ Listed(q) \in Seq(Entry)
           /\ IsFiniteSet(Asked(q)) /\ Cardinality(Asked(q)) = Len(Listed(q))
           /\ Asked(q) \in SUBSET DOMAIN picks
           /\ \E at : EntriesAt(Listed(q), q, at)
<1> DEFINE at == Ascending(Asked(q))
           n == Cardinality(Asked(q))
<1>1. picks \in Seq(Entry) /\ DOMAIN picks \in SUBSET Int /\ IsFiniteSet(DOMAIN picks)
  <2>1. picks \in Seq(Entry)
    BY DEF Facts, StoredAssumption
  <2>2. DOMAIN picks = 1 .. Len(picks) /\ Len(picks) \in Int /\ 1 .. Len(picks) \in SUBSET Int
    BY <2>1
  <2> QED BY <2>1, <2>2, FS_Interval
<1>2. Asked(q) \in SUBSET DOMAIN picks
  BY DEF Asked
<1>3. Asked(q) \in SUBSET Int /\ IsFiniteSet(Asked(q))
  BY <1>1, <1>2, FS_Subset
<1>4. /\ n \in Nat /\ at \in [1 .. n -> Asked(q)] /\ DOMAIN at = 1 .. n
      /\ \A i \in Asked(q) : \E k \in 1 .. n : at[k] = i
      /\ \A i, j \in 1 .. n : i < j <=> at[i] < at[j]
  BY <1>3, AscendingLists
<1>5. Listed(q) = [k \in DOMAIN at |-> picks[at[k]]]
  BY RangeIsAsked DEF Listed, list_snapshot_entries
<1> HIDE DEF at, n
<1>6. \A k \in 1 .. n : picks[at[k]] \in Entry
  BY <1>1, <1>2, <1>4
<1>7. Listed(q) \in [1 .. n -> Entry]
  BY <1>4, <1>5, <1>6
<1>8. Listed(q) \in Seq(Entry) /\ Len(Listed(q)) = n
  BY <1>4, <1>7
<1>9. EntriesAt(Listed(q), q, at)
  BY <1>4, <1>5, <1>8 DEF EntriesAt
<1> QED BY <1>2, <1>3, <1>8, <1>9 DEF n

(* The rows are the trades of the entries asked for, in the order of the   *)
(* entries, where entry i is taken as it was on table on[i].               *)
TradesListed(q, on, n, rows, of) ==
    /\ of \in [1 .. Len(rows) -> Asked(q)]
    /\ \A j, k \in 1 .. Len(rows) : j < k => of[j] < of[k]
    /\ \A i \in Asked(q) : \/ TrueRows(q, on[i], picks[i], n) = {}
                            \/ \E j \in 1 .. Len(rows) : of[j] = i
    /\ \A j \in 1 .. Len(rows) : TrueRows(q, on[of[j]], picks[of[j]], n) = {rows[j]}

(* The loop finds the trades of the entries asked for and counts the       *)
(* others missing.                                                         *)
LEMMA TradesFound ==
    ASSUME Facts, picks \in Screenings, NEW r, Readable(r), r.entries = Listed(r.q),
           NEW n \in r.q.horizons, NEW on,
           \A i \in Asked(r.q) : SeenOn(r, on[i], picks[i], n)
    PROVE  /\ Counted(r)[n] \in Counted1
           /\ Counted(r)[n].missing + Len(Counted(r)[n].rows) = Cardinality(Asked(r.q))
           /\ \E of : TradesListed(r.q, on, n, Counted(r)[n].rows, of)
<1> DEFINE rows == Counted(r)[n].rows
           N == Len(r.entries)
<1>1. Tallied(r, n, N, Counted(r)[n])
  BY CountedRight
<1>2. r.q \in Question
  BY DEF Readable
<1>3. PICK at : EntriesAt(r.entries, r.q, at)
  BY <1>2, EntriesListed
<1>4. r.entries \in Seq(Entry) /\ N = Cardinality(Asked(r.q))
  BY <1>2, EntriesListed
<1>5. PICK pos : RowsAt(r, n, N, rows, pos)
  BY <1>1 DEF Tallied
<1>6. Counted(r)[n] \in Counted1 /\ Counted(r)[n].missing + Len(rows) = N
  BY <1>1 DEF Tallied
<1>7. Len(rows) \in Nat /\ N \in Nat /\ \A i \in 1 .. N : r.entries[i] \in Entry
  BY <1>4, <1>6 DEF Counted1
<1> DEFINE m == Len(rows)
           of == [j \in 1 .. m |-> at[pos[j]]]
<1>8. Places(r, n, N) \in SUBSET (1 .. N)
  BY DEF Places
<1>9. /\ pos \in [1 .. m -> Places(r, n, N)]
      /\ \A i, j \in 1 .. m : i < j => pos[i] < pos[j]
      /\ \A i \in Places(r, n, N) : \E j \in 1 .. m : pos[j] = i
      /\ \A j \in 1 .. m : rows[j] = Row(r, r.entries[pos[j]], n)
  BY <1>5 DEF RowsAt
<1>10. /\ at \in [1 .. N -> Asked(r.q)]
       /\ \A j, k \in 1 .. N : j < k => at[j] < at[k]
       /\ \A i \in Asked(r.q) : \E k \in 1 .. N : at[k] = i
       /\ \A k \in 1 .. N : r.entries[k] = picks[at[k]]
  BY <1>3 DEF EntriesAt
<1> HIDE DEF N, rows, m
<1>11. \A k \in 1 .. N : TrueRows(r.q, on[at[k]], picks[at[k]], n) =
           IF k \in Places(r, n, N) THEN {Row(r, r.entries[k], n)} ELSE {}
  <2> SUFFICES ASSUME NEW k \in 1 .. N
               PROVE  TrueRows(r.q, on[at[k]], picks[at[k]], n) =
                        IF k \in Places(r, n, N) THEN {Row(r, r.entries[k], n)} ELSE {}
    OBVIOUS
  <2>1. r.entries[k] \in Entry /\ r.entries[k] = picks[at[k]] /\ at[k] \in Asked(r.q)
    BY <1>7, <1>10
  <2>2. SeenOn(r, on[at[k]], r.entries[k], n)
    BY <2>1
  <2>3. TrueRows(r.q, on[at[k]], r.entries[k], n) =
           IF Trading(r, r.entries[k], n) THEN {Row(r, r.entries[k], n)} ELSE {}
    BY <2>1, <2>2, RowIsTrue
  <2> QED BY <2>1, <2>3 DEF Places
<1>12. of \in [1 .. m -> Asked(r.q)]
  BY <1>8, <1>9, <1>10
<1>13. \A j, k \in 1 .. m : j < k => of[j] < of[k]
  BY <1>8, <1>9, <1>10
<1>14. ASSUME NEW i \in Asked(r.q), TrueRows(r.q, on[i], picks[i], n) # {}
       PROVE  \E j \in 1 .. m : of[j] = i
  <2>1. PICK k \in 1 .. N : at[k] = i
    BY <1>10
  <2>2. k \in Places(r, n, N)
    BY <1>11, <1>14, <2>1
  <2> QED BY <1>9, <2>1, <2>2
<1>15. \A j \in 1 .. m : TrueRows(r.q, on[of[j]], picks[of[j]], n) = {rows[j]}
  BY <1>8, <1>9, <1>11
<1> HIDE DEF of
<1>16. TradesListed(r.q, on, n, rows, of)
  BY <1>12, <1>13, <1>14, <1>15 DEF TradesListed, m
<1> QED BY <1>4, <1>6, <1>16 DEF rows

(* The trades of a question at a horizon, each with its entry.             *)
TradesOf(q, table, n) ==
    UNION {{[of |-> i, row |-> row] : row \in TrueRows(q, table, picks[i], n)} :
              i \in Asked(q)}

(* Counting the rows that have something is counting the trades that have. *)
LEMMA TradesCounted ==
    ASSUME NEW q, NEW table, NEW on, \A i \in Asked(q) : on[i] = table, NEW n,
           NEW rows \in Seq(RowSet), NEW of, TradesListed(q, on, n, rows, of),
           Asked(q) \in SUBSET Int
    PROVE  LET trades == TradesOf(q, table, n) IN
           /\ \A B \in SUBSET trades :
                 Cardinality({j \in 1 .. Len(rows) : [of |-> of[j], row |-> rows[j]] \in B})
                    = Cardinality(B)
           /\ \A t \in trades : \E j \in 1 .. Len(rows) : t = [of |-> of[j], row |-> rows[j]]
           /\ \A j \in 1 .. Len(rows) : [of |-> of[j], row |-> rows[j]] \in trades
<1> DEFINE m == Len(rows)
           g(j) == [of |-> of[j], row |-> rows[j]]
           trades == TradesOf(q, table, n)
<1>1. m \in Nat
  OBVIOUS
<1>2. /\ of \in [1 .. m -> Asked(q)]
      /\ \A j, k \in 1 .. m : j < k => of[j] < of[k]
      /\ \A i \in Asked(q) : TrueRows(q, table, picks[i], n) = {}
                              \/ \E j \in 1 .. m : of[j] = i
      /\ \A j \in 1 .. m : TrueRows(q, table, picks[of[j]], n) = {rows[j]}
  BY DEF TradesListed
<1> HIDE DEF m
<1>3. \A t : t \in trades <=> \E i \in Asked(q) :
                \E row \in TrueRows(q, table, picks[i], n) : t = [of |-> i, row |-> row]
  BY DEF TradesOf
<1> HIDE DEF trades
<1>4. \A j \in 1 .. m : g(j) \in trades
  BY <1>2, <1>3
<1>5. ASSUME NEW t \in trades PROVE \E j \in 1 .. m : t = g(j)
  <2>1. PICK i \in Asked(q) :
                \E row \in TrueRows(q, table, picks[i], n) : t = [of |-> i, row |-> row]
    BY <1>3
  <2>2. PICK j \in 1 .. m : of[j] = i
    BY <1>2, <2>1
  <2> QED BY <1>2, <2>1, <2>2
<1>6. \A j, k \in 1 .. m : g(j) = g(k) => j = k
  <2> SUFFICES ASSUME NEW j \in 1 .. m, NEW k \in 1 .. m, g(j) = g(k) PROVE j = k
    OBVIOUS
  <2>1. of[j] = of[k] /\ of[j] \in Int
    <3>1. g(j).of = g(k).of
      OBVIOUS
    <3> QED BY <1>2, <3>1
  <2>2. ~(j < k) /\ ~(k < j)
    BY <1>2, <2>1
  <2> QED BY <1>1, <2>2
<1>7. ASSUME NEW B \in SUBSET trades
      PROVE  Cardinality({j \in 1 .. m : g(j) \in B}) = Cardinality(B)
  <2> DEFINE A == {j \in 1 .. m : g(j) \in B}
             f == [j \in A |-> g(j)]
  <2>1. IsFiniteSet(A)
    <3>1. IsFiniteSet(1 .. m) /\ A \in SUBSET (1 .. m)
      BY <1>1, FS_Interval
    <3> HIDE DEF A
    <3> QED BY <3>1, FS_Subset
  <2>2. f \in [A -> B] /\ \A j \in A : f[j] = g(j)
    OBVIOUS
  <2>3. \A z \in B : \E j \in A : f[j] = z
    <3> SUFFICES ASSUME NEW z \in B PROVE \E j \in A : f[j] = z
      OBVIOUS
    <3>1. PICK j \in 1 .. m : z = g(j)
      BY <1>5
    <3>2. j \in A /\ f[j] = z
      BY <3>1
    <3> QED BY <3>2
  <2>4. \A x, y \in A : f[x] = f[y] => x = y
    BY <1>6, <2>2
  <2> HIDE DEF A, f, g
  <2>5. Cardinality(B) = Cardinality(A)
    BY <2>1, <2>2, <2>3, <2>4, PairedOff
  <2> QED BY <2>5 DEF A
<1> QED BY <1>4, <1>5, <1>7 DEF m, trades

(* Of the numbers up to m, how many are where an integer is zero.          *)
LEMMA Signs ==
    ASSUME NEW m \in Nat, NEW v, \A k \in 1 .. m : v[k] \in Int
    PROVE  m - Cardinality({k \in 1 .. m : v[k] > 0}) - Cardinality({k \in 1 .. m : v[k] < 0})
              = Cardinality({k \in 1 .. m : v[k] = 0})
<1> DEFINE S == 1 .. m
           W == {k \in S : v[k] > 0}
           L == {k \in S : v[k] < 0}
           F == {k \in S : v[k] = 0}
<1>1. IsFiniteSet(S) /\ Cardinality(S) = m
  BY FS_Interval
<1>2. IsFiniteSet(W) /\ IsFiniteSet(L) /\ IsFiniteSet(F)
  <2>1. W \in SUBSET S /\ L \in SUBSET S /\ F \in SUBSET S
    OBVIOUS
  <2> HIDE DEF W, L, F, S
  <2> QED BY <1>1, <2>1, FS_Subset
<1>3. \A k \in S : k \in W \/ k \in L \/ k \in F
  OBVIOUS
<1>4. \A k \in S : ~(k \in W /\ k \in L) /\ ~(k \in W /\ k \in F) /\ ~(k \in L /\ k \in F)
  OBVIOUS
<1>5. W \in SUBSET S /\ L \in SUBSET S /\ F \in SUBSET S
  OBVIOUS
<1> HIDE DEF W, L, F, S
<1>6. S = (W \cup L) \cup F /\ W \cap L = {} /\ (W \cup L) \cap F = {}
  BY <1>3, <1>4, <1>5
<1>7. Cardinality(W \cup L) = Cardinality(W) + Cardinality(L) - 0 /\ IsFiniteSet(W \cup L)
  BY <1>2, <1>6, FS_Union, FS_EmptySet
<1>8. Cardinality(S) = Cardinality(W \cup L) + Cardinality(F) - 0
  BY <1>2, <1>6, <1>7, FS_Union, FS_EmptySet
<1>9. Cardinality(W) \in Nat /\ Cardinality(L) \in Nat /\ Cardinality(F) \in Nat
  BY <1>2, FS_CardinalityType
<1>10. m - Cardinality(W) - Cardinality(L) = Cardinality(F)
  BY <1>1, <1>7, <1>8, <1>9
<1> QED BY <1>10 DEF W, L, F, S

(* The summary of a horizon: every trade is in the bucket of its sign.     *)
SummaryOf(q, table, n, s) ==
    LET trades == TradesOf(q, table, n)
        returns == {t.row.return_pct : t \in trades}
    IN /\ s.wins    = Cardinality({t \in trades : t.row.change > 0})
       /\ s.losses  = Cardinality({t \in trades : t.row.change < 0})
       /\ s.flat    = Cardinality({t \in trades : t.row.change = 0})
       /\ s.samples = Cardinality(trades)
       /\ s.missing = Cardinality(Asked(q)) - Cardinality(trades)
       /\ trades # {} => s.best = Max(returns) /\ s.worst = Min(returns)

(* What _summarize makes of the trades that were found.                    *)
LEMMA SummaryRight ==
    ASSUME NEW q, NEW table, NEW on, \A i \in Asked(q) : on[i] = table, NEW n,
           NEW c \in Counted1, NEW of, TradesListed(q, on, n, c.rows, of),
           Asked(q) \in SUBSET Int, Cardinality(Asked(q)) \in Nat,
           c.missing + Len(c.rows) = Cardinality(Asked(q))
    PROVE  SummaryOf(q, table, n, Summarize(c))
<1> DEFINE rows == c.rows
           m == Len(rows)
           g(j) == [of |-> of[j], row |-> rows[j]]
           all == {row.return_pct : row \in ToSet(rows)}
           s == Summarize(c)
           trades == TradesOf(q, table, n)
           returns == {t.row.return_pct : t \in trades}
<1>1. rows \in Seq(RowSet) /\ c.missing \in Nat
  BY DEF Counted1
<1>2. m \in Nat /\ DOMAIN rows = 1 .. m /\ \A j \in 1 .. m : rows[j] \in RowSet
  BY <1>1
<1>3. \A j \in 1 .. m : rows[j].change \in Int
  BY <1>2 DEF RowSet
<1>4. /\ \A B \in SUBSET trades : Cardinality({j \in 1 .. m : g(j) \in B}) = Cardinality(B)
      /\ \A t \in trades : \E j \in 1 .. m : t = g(j)
      /\ \A j \in 1 .. m : g(j) \in trades
  BY <1>1, TradesCounted
<1>5. s = [samples |-> m, missing |-> c.missing, wins |-> Wins(rows), losses |-> Losses(rows),
           flat |-> Flat(rows), best  |-> IF all = {} THEN None ELSE Max(all),
           worst |-> IF all = {} THEN None ELSE Min(all)]
  BY DEF Summarize
<1> HIDE DEF rows, m, trades
<1>6. Wins(rows) = Cardinality({t \in trades : t.row.change > 0})
  <2> DEFINE B == {t \in trades : t.row.change > 0}
  <2>1. {j \in 1 .. m : g(j) \in B} = {k \in DOMAIN rows : rows[k].change > 0}
    BY <1>2, <1>4
  <2>2. B \in SUBSET trades
    OBVIOUS
  <2> HIDE DEF B, g
  <2>3. Cardinality({j \in 1 .. m : g(j) \in B}) = Cardinality(B)
    BY <1>4, <2>2
  <2> QED BY <2>1, <2>3 DEF Wins, B
<1>7. Losses(rows) = Cardinality({t \in trades : t.row.change < 0})
  <2> DEFINE B == {t \in trades : t.row.change < 0}
  <2>1. {j \in 1 .. m : g(j) \in B} = {k \in DOMAIN rows : rows[k].change < 0}
    BY <1>2, <1>4
  <2>2. B \in SUBSET trades
    OBVIOUS
  <2> HIDE DEF B, g
  <2>3. Cardinality({j \in 1 .. m : g(j) \in B}) = Cardinality(B)
    BY <1>4, <2>2
  <2> QED BY <2>1, <2>3 DEF Losses, B
<1>8. Flat(rows) = Cardinality({t \in trades : t.row.change = 0})
  <2> DEFINE B == {t \in trades : t.row.change = 0}
             v == [k \in 1 .. m |-> rows[k].change]
  <2>1. {j \in 1 .. m : g(j) \in B} = {k \in 1 .. m : rows[k].change = 0}
    BY <1>2, <1>4
  <2>2. B \in SUBSET trades
    OBVIOUS
  <2>3. /\ {k \in 1 .. m : v[k] > 0} = {k \in DOMAIN rows : rows[k].change > 0}
        /\ {k \in 1 .. m : v[k] < 0} = {k \in DOMAIN rows : rows[k].change < 0}
        /\ {k \in 1 .. m : v[k] = 0} = {k \in 1 .. m : rows[k].change = 0}
        /\ \A k \in 1 .. m : v[k] \in Int
    BY <1>2, <1>3
  <2> HIDE DEF B, g, v
  <2>4. Cardinality({j \in 1 .. m : g(j) \in B}) = Cardinality(B)
    BY <1>4, <2>2
  <2>5. m - Cardinality({k \in 1 .. m : v[k] > 0}) - Cardinality({k \in 1 .. m : v[k] < 0})
              = Cardinality({k \in 1 .. m : v[k] = 0})
    BY <1>2, <2>3, Signs
  <2>6. Flat(rows) = m - Wins(rows) - Losses(rows)
    BY DEF Flat, m
  <2> QED BY <2>1, <2>3, <2>4, <2>5, <2>6 DEF Wins, Losses, B
<1>9. m = Cardinality(trades)
  <2>1. {j \in 1 .. m : g(j) \in trades} = 1 .. m
    BY <1>4
  <2>2. Cardinality(1 .. m) = m
    BY <1>2, UpToSize
  <2>3. Cardinality({j \in 1 .. m : g(j) \in trades}) = Cardinality(trades)
    <3> HIDE DEF g
    <3> QED BY <1>4
  <2> QED BY <2>1, <2>2, <2>3
<1>10. c.missing = Cardinality(Asked(q)) - Cardinality(trades)
  <2>1. c.missing + m = Cardinality(Asked(q))
    BY DEF m, rows
  <2> HIDE DEF g
  <2> QED BY <1>1, <1>2, <1>9, <2>1
<1>11. all = returns
  <2>1. ToSet(rows) = {rows[j] : j \in 1 .. m}
    BY <1>2 DEF ToSet
  <2>2. all = {rows[j].return_pct : j \in 1 .. m}
    BY <2>1
  <2>3. \A j \in 1 .. m : g(j).row = rows[j]
    OBVIOUS
  <2>4. \A t \in trades : \E j \in 1 .. m : t.row = rows[j]
    BY <1>4
  <2>5. \A j \in 1 .. m : \E t \in trades : t.row = rows[j]
    BY <1>4, <2>3
  <2>6. \A j \in 1 .. m : rows[j].return_pct \in returns
    BY <2>5
  <2>7. \A t \in trades : t.row.return_pct \in all
    BY <2>2, <2>4
  <2> QED BY <2>2, <2>6, <2>7
<1>12. trades # {} => returns # {}
  OBVIOUS
<1> HIDE DEF all, s, returns
<1>13. s.wins = Wins(rows) /\ s.losses = Losses(rows) /\ s.flat = Flat(rows)
       /\ s.samples = m /\ s.missing = c.missing
  BY <1>5
<1>14. trades # {} => s.best = Max(returns) /\ s.worst = Min(returns)
  BY <1>5, <1>11, <1>12
<1> QED BY <1>6, <1>7, <1>8, <1>9, <1>10, <1>13, <1>14
       DEF s, trades, returns, SummaryOf

(* The lesser of two naturals.                                             *)
LEMMA LeastOfTwo ==
    ASSUME NEW a \in Nat, NEW b \in Nat
    PROVE  Min({a, b}) = IF a <= b THEN a ELSE b
<1> DEFINE c == IF a <= b THEN a ELSE b
<1>1. c \in {a, b} /\ \A y \in {a, b} : c <= y
  OBVIOUS
<1>2. \A x \in {a, b} : (\A y \in {a, b} : x <= y) => x = c
  OBVIOUS
<1> HIDE DEF c
<1>3. Min({a, b}) \in {a, b} /\ \A y \in {a, b} : Min({a, b}) <= y
  BY <1>1 DEF Min
<1> QED BY <1>2, <1>3 DEF c

(* The cut keeps the first rows, as many as the limit allows.              *)
LEMMA CutLists ==
    ASSUME NEW rows \in Seq(RowSet), NEW limit \in Nat
    PROVE  /\ Len(Cut(rows, limit)) = Min({limit, Len(rows)})
           /\ Len(Cut(rows, limit)) \in Nat /\ Len(Cut(rows, limit)) <= Len(rows)
           /\ DOMAIN Cut(rows, limit) = 1 .. Len(Cut(rows, limit))
           /\ Cut(rows, limit) \in Seq(RowSet)
           /\ \A k \in 1 .. Len(Cut(rows, limit)) : Cut(rows, limit)[k] = rows[k]
<1> DEFINE m == Min({limit, Len(rows)})
<1>1. m \in Nat /\ m <= Len(rows) /\ Len(rows) \in Nat
  BY LeastOfTwo
<1>2. Cut(rows, limit) = SubSeq(rows, 1, m)
  BY DEF Cut
<1> HIDE DEF m
<1>3. /\ SubSeq(rows, 1, m) \in Seq(RowSet) /\ Len(SubSeq(rows, 1, m)) = m
      /\ \A k \in 1 .. m : SubSeq(rows, 1, m)[k] = rows[k]
  BY <1>1
<1>4. DOMAIN SubSeq(rows, 1, m) = 1 .. m
  BY <1>3
<1>5. Len(Cut(rows, limit)) = m
  BY <1>2, <1>3
<1>6. \A k \in 1 .. Len(Cut(rows, limit)) : Cut(rows, limit)[k] = rows[k]
  BY <1>2, <1>3, <1>5
<1> QED BY <1>1, <1>2, <1>3, <1>4, <1>5, <1>6 DEF m

Settled1(q, on, n) == {i \in Asked(q) : TrueRows(q, on[i], picks[i], n) # {}}

(* The detail: the first of all trades in the order that was asked for,    *)
(* each with the entry it is of.                                           *)
DetailListed(q, on, n, total, shown) ==
    /\ IsFiniteSet(Settled1(q, on, n)) /\ Cardinality(Settled1(q, on, n)) = total
    /\ Len(shown) \in Nat /\ DOMAIN shown = 1 .. Len(shown)
    /\ Len(shown) = Min({q.limit, total})
    /\ \E at \in [1 .. Len(shown) -> Settled1(q, on, n)] :
          /\ \A j, k \in 1 .. Len(shown) : at[j] = at[k] => j = k
          /\ \A k \in 1 .. Len(shown) :
                TrueRows(q, on[at[k]], picks[at[k]], n) = {shown[k]}
          /\ \A k \in 1 .. Len(shown), i \in Settled1(q, on, n) :
                (\A j \in 1 .. k : at[j] # i) =>
                   \A row \in TrueRows(q, on[i], picks[i], n) :
                      Ahead(q, shown[k], at[k], row, i)

(* The detail that is sorted and then cut lists the first of all trades.   *)
LEMMA DetailRight ==
    ASSUME NEW q \in Question, NEW on, NEW n, NEW rows \in Seq(RowSet), NEW of,
           TradesListed(q, on, n, rows, of), Asked(q) \in SUBSET Int,
           NEW shown, shown = SortThenCut(q, rows)
    PROVE  DetailListed(q, on, n, Len(rows), shown)
<1> DEFINE m == Len(rows)
           S == Settled1(q, on, n)
           True(i) == TrueRows(q, on[i], picks[i], n)
<1>1. m \in Nat /\ \A j \in 1 .. m : rows[j] \in RowSet /\ j \in Int
  OBVIOUS
<1>2. /\ of \in [1 .. m -> Asked(q)]
      /\ \A j, k \in 1 .. m : j < k => of[j] < of[k]
      /\ \A i \in Asked(q) : True(i) = {} \/ \E j \in 1 .. m : of[j] = i
      /\ \A j \in 1 .. m : True(of[j]) = {rows[j]}
  BY DEF TradesListed
<1>3. \A i : i \in S <=> i \in Asked(q) /\ True(i) # {}
  BY DEF Settled1
<1>4. PICK p \in [1 .. m -> 1 .. m] :
        /\ Sorted(q, rows) = [k \in 1 .. m |-> rows[p[k]]]
        /\ \A j, k \in 1 .. m : p[j] = p[k] => j = k
        /\ \A i \in 1 .. m : \E k \in 1 .. m : p[k] = i
        /\ \A j, k \in 1 .. m : j < k =>
              Ahead(q, rows[p[j]], p[j], rows[p[k]], p[k])
  BY SortedLists
<1>5. Sorted(q, rows) \in Seq(RowSet) /\ Len(Sorted(q, rows)) = m
  BY <1>1, <1>4
<1>6. q.limit \in Nat
  BY DEF Question
<1>7. /\ Len(shown) = Min({q.limit, m}) /\ Len(shown) \in Nat /\ Len(shown) <= m
      /\ DOMAIN shown = 1 .. Len(shown)
      /\ \A k \in 1 .. Len(shown) : shown[k] = Sorted(q, rows)[k]
  BY <1>5, <1>6, CutLists DEF SortThenCut
<1> HIDE DEF m, S, True
<1>8. \A k \in 1 .. Len(shown) : k \in 1 .. m /\ shown[k] = rows[p[k]] /\ k \in Int
  <2>1. \A k \in 1 .. Len(shown) : k \in 1 .. m /\ k \in Int
    BY <1>1, <1>7
  <2> QED BY <1>4, <1>7, <2>1
<1>9. \A j, k \in 1 .. m : of[j] = of[k] => j = k
  <2> SUFFICES ASSUME NEW j \in 1 .. m, NEW k \in 1 .. m, of[j] = of[k] PROVE j = k
    OBVIOUS
  <2>1. of[j] \in Int
    BY <1>2
  <2>2. ~(j < k) /\ ~(k < j)
    BY <1>2, <2>1
  <2> QED BY <1>1, <2>2
<1>10. of \in [1 .. m -> S] /\ \A i \in S : \E j \in 1 .. m : of[j] = i
  <2>1. \A j \in 1 .. m : of[j] \in S
    BY <1>2, <1>3
  <2> QED BY <1>2, <1>3, <2>1
<1>11. IsFiniteSet(S) /\ Cardinality(S) = m
  <2>1. IsFiniteSet(1 .. m) /\ Cardinality(1 .. m) = m
    BY <1>1, UpToSize
  <2> QED BY <1>9, <1>10, <2>1, PairedOff
<1> DEFINE at == [k \in 1 .. Len(shown) |-> of[p[k]]]
<1>12. at \in [1 .. Len(shown) -> S]
  BY <1>4, <1>8, <1>10
<1>13. \A k \in 1 .. Len(shown) : at[k] = of[p[k]] /\ p[k] \in 1 .. m
  BY <1>4, <1>8
<1> HIDE DEF at
<1>14. \A j, k \in 1 .. Len(shown) : at[j] = at[k] => j = k
  <2>1. \A j, k \in 1 .. Len(shown) : at[j] = at[k] => p[j] = p[k]
    BY <1>9, <1>13
  <2>2. \A j, k \in 1 .. m : p[j] = p[k] => j = k
    BY <1>4
  <2>3. \A k \in 1 .. Len(shown) : k \in 1 .. m
    BY <1>8
  <2> QED BY <2>1, <2>2, <2>3
<1>15. \A k \in 1 .. Len(shown) : True(at[k]) = {shown[k]}
  <2> SUFFICES ASSUME NEW k \in 1 .. Len(shown) PROVE True(at[k]) = {shown[k]}
    OBVIOUS
  <2>1. shown[k] = rows[p[k]] /\ at[k] = of[p[k]] /\ p[k] \in 1 .. m
    BY <1>8, <1>13
  <2> QED BY <1>2, <2>1
<1>16. ASSUME NEW k \in 1 .. Len(shown), NEW i \in S, \A j \in 1 .. k : at[j] # i,
              NEW row \in True(i)
       PROVE  Ahead(q, shown[k], at[k], row, i)
  <2>1. PICK l \in 1 .. m : of[l] = i
    BY <1>10
  <2>2. PICK h \in 1 .. m : p[h] = l
    BY <1>4
  <2>3. row = rows[l]
    BY <1>2, <2>1
  <2>4. k < h
    <3> SUFFICES ASSUME h <= k PROVE FALSE
      BY <1>1, <1>8
    <3>1. h \in 1 .. k /\ h \in 1 .. Len(shown)
      BY <1>1, <1>7, <1>8
    <3>2. at[h] = i
      BY <1>13, <2>1, <2>2, <3>1
    <3> QED BY <1>16, <3>1, <3>2
  <2>5. Ahead(q, rows[p[k]], p[k], rows[l], l)
    BY <1>4, <1>8, <2>2, <2>4
  <2>6. p[k] < l => of[p[k]] < of[l]
    BY <1>2, <1>4, <1>8
  <2>7. Ahead(q, rows[p[k]], of[p[k]], rows[l], of[l])
    BY <2>5, <2>6 DEF Ahead
  <2> QED BY <1>8, <1>13, <2>1, <2>3, <2>7
<1> QED BY <1>7, <1>11, <1>12, <1>14, <1>15, <1>16 DEF m, S, True, DetailListed

-----------------------------------------------------------------------------
(* The inductive invariant.  A request computes from the calendar of one   *)
(* table and, for each day, the closes of one that came no earlier; the    *)
(* days with prices only grow, and one upload changes one day.             *)

Reading == [pc : {"prices"}, q : Questions, entries : Seq(Entry), calendar : Seq(Days),
            prices : Table, todo : SUBSET Days]

ReadOf(q, r) ==
    /\ r \in Reading /\ r.q = q /\ r.entries = Listed(q) /\ Listed(q) # <<>>
    /\ \E T \in tables :
          /\ r.calendar = list_price_trading_days(T) /\ OpenDays(T) # {}
          /\ \A d \in Days : \E U \in tables :
                /\ OpenDays(T) \subseteq OpenDays(U)
                /\ d \in r.todo \/ \A s \in Wanted(r, r.calendar, d) : r.prices[d][s] = U[d][s]

RightAnswer(q, answer) ==
    \/ \E r : ReadOf(q, r) /\ r.todo = {} /\ answer = FullAnswer(r)
    \/ /\ \E w : answer = EmptyAnswer([q |-> q, entries |-> Listed(q)], w)
       /\ Listed(q) = <<>> \/ \E T \in tables : OpenDays(T) = {}

Served(q) ==
    \/ req = [pc |-> "entries", q |-> q, start |-> resolve_range(q).start,
              end |-> resolve_range(q).end]
    \/ req = [pc |-> "calendar", q |-> q, entries |-> Listed(q)]
    \/ ReadOf(q, req)
    \/ \E answer : /\ req = [pc |-> "answered", q |-> q, answer |-> answer]
                    /\ RightAnswer(q, answer)

OneDayApart ==
    Cardinality(tables) <= 2 =>
        \E D \in Days : \A T, U \in tables : \A d \in Days : d # D => T[d] = U[d]

Stored ==
    /\ picks \in Screenings /\ closes \in Table /\ uploads \in 0 .. MaxUploads
    /\ tables \in SUBSET Table /\ IsFiniteSet(tables)
Seen ==
    /\ closes \in tables /\ \A T \in tables : OpenDays(T) \subseteq OpenDays(closes)
    /\ OneDayApart
Serving == Seen /\ \E q \in Questions : normalize_horizons(q) /\ Served(q)
IInv == Stored /\ (req = Idle \/ Serving)

(* The calendar lists the open days in order.                              *)
LEMMA OpenDaysTyped ==
    ASSUME Facts, NEW T
    PROVE  /\ OpenDays(T) \in SUBSET Int /\ OpenDays(T) \in SUBSET Days
           /\ IsFiniteSet(OpenDays(T))
           /\ list_price_trading_days(T) = Ascending(OpenDays(T))
<1>1. OpenDays(T) \in SUBSET Days
  BY DEF OpenDays
<1>2. Days \subseteq Int /\ IsFiniteSet(Days)
  BY DEF Facts, QuestionAssumption
<1>3. list_price_trading_days(T) = Ascending(OpenDays(T))
  BY DEF list_price_trading_days, OpenDays
<1> QED BY <1>1, <1>2, <1>3, FS_Subset

(* The calendar is empty when no day is open.                              *)
LEMMA CalendarTyped ==
    ASSUME Facts, NEW T
    PROVE  /\ list_price_trading_days(T) \in Seq(Days)
           /\ list_price_trading_days(T) = <<>> <=> OpenDays(T) = {}
<1> DEFINE S == OpenDays(T)
           f == list_price_trading_days(T)
<1>1. S \in SUBSET Int /\ S \in SUBSET Days /\ IsFiniteSet(S) /\ f = Ascending(S)
  BY OpenDaysTyped
<1> HIDE DEF S, f
<1>2. f \in Seq(S) /\ Len(f) = Cardinality(S) /\ Cardinality(S) \in Nat
      /\ f \in [1 .. Cardinality(S) -> S]
  BY <1>1, AscendingLists
<1>3. Cardinality(S) = 0 <=> S = {}
  BY <1>1, FS_EmptySet
<1>4. f = <<>> <=> Len(f) = 0
  BY <1>2
<1>5. f \in Seq(Days)
  <2>1. f \in [1 .. Cardinality(S) -> Days]
    BY <1>1, <1>2
  <2> QED BY <1>2, <2>1
<1> QED BY <1>2, <1>3, <1>4, <1>5 DEF S, f

(* An upload opens days and closes none.                                   *)
LEMMA UploadsOpen ==
    ASSUME Facts, closes \in Table, NEW u \in Uploads, upsert_daily_prices(u)
    PROVE  /\ closes' \in Table /\ OpenDays(closes) \subseteq OpenDays(closes')
           /\ u.day \in Days /\ \A d \in Days : d # u.day => closes'[d] = closes[d]
<1>1. u.day \in Days /\ u.close \in [Symbols -> Closes \cup {None}]
  BY DEF Facts, StoredAssumption
<1> DEFINE new == [s \in Symbols |-> IF u.close[s] = None THEN closes[u.day][s]
                                    ELSE u.close[s]]
<1>2. closes' = [closes EXCEPT ![u.day] = new]
  BY DEF upsert_daily_prices
<1>3. closes[u.day] \in [Symbols -> Closes \cup {None}]
  BY <1>1 DEF Table
<1>4. new \in [Symbols -> Closes \cup {None}]
  BY <1>1, <1>3
<1>5. \A s \in Symbols : closes[u.day][s] # None => new[s] # None
  OBVIOUS
<1> HIDE DEF new
<1>6. closes' \in Table
  BY <1>1, <1>2, <1>4 DEF Table
<1>7. closes'[u.day] = new /\ \A d \in Days : d # u.day => closes'[d] = closes[d]
  BY <1>1, <1>2 DEF Table
<1>8. OpenDays(closes) \subseteq OpenDays(closes')
  BY <1>5, <1>7 DEF OpenDays
<1> QED BY <1>1, <1>6, <1>7, <1>8

(* After one upload the tables of a request differ in one day only.        *)
LEMMA UploadsOneDay ==
    ASSUME Facts, Stored, Seen, NEW u \in Uploads, upsert_daily_prices(u),
           tables' = tables \cup {closes'}
    PROVE  OneDayApart'
<1>1. IsFiniteSet(tables) /\ closes \in tables
  BY DEF Stored, Seen
<1>2. u.day \in Days /\ \A d \in Days : d # u.day => closes'[d] = closes[d]
  BY UploadsOpen DEF Stored
<1>3. CASE closes' \in tables
  <2>1. tables' = tables
    BY <1>3
  <2>2. OneDayApart
    BY DEF Seen
  <2> SUFFICES ASSUME Cardinality(tables') <= 2
               PROVE  \E D \in Days : \A T, U \in tables' : \A d \in Days : d # D => T[d] = U[d]
    BY DEF OneDayApart
  <2>3. Cardinality(tables) <= 2
    BY <2>1
  <2>4. \E D \in Days : \A T, U \in tables : \A d \in Days : d # D => T[d] = U[d]
    BY <2>2, <2>3 DEF OneDayApart
  <2> QED BY <2>1, <2>4
<1>4. CASE closes' \notin tables
  <2> SUFFICES ASSUME Cardinality(tables') <= 2
               PROVE  \E D \in Days : \A T, U \in tables' : \A d \in Days : d # D => T[d] = U[d]
    BY DEF OneDayApart
  <2>1. Cardinality(tables') = Cardinality(tables) + 1 /\ Cardinality(tables) \in Nat
    BY <1>1, <1>4, FS_AddElement, FS_CardinalityType
  <2>2. Cardinality({closes}) = 1 /\ {closes} \in SUBSET tables
    BY <1>1, FS_Singleton
  <2>3. Cardinality({closes}) <= Cardinality(tables)
    BY <1>1, <2>2, FS_Subset
  <2>4. Cardinality({closes}) = Cardinality(tables)
    BY <2>1, <2>2, <2>3
  <2>5. tables = {closes}
    BY <1>1, <2>2, <2>4, FS_Subset
  <2> QED BY <1>2, <2>5
<1> QED BY <1>3, <1>4

(* What was read stays read, and right, when tables are added.             *)
LEMMA ReadStays ==
    ASSUME NEW q, NEW r, ReadOf(q, r), tables \subseteq tables', UNCHANGED picks
    PROVE  ReadOf(q, r)'
<1>1. Listed(q)' = Listed(q)
  BY DEF Listed, list_snapshot_entries, resolve_range, Screened
<1>2. PICK T \in tables :
         /\ r.calendar = list_price_trading_days(T) /\ OpenDays(T) # {}
         /\ \A d \in Days : \E U \in tables :
               /\ OpenDays(T) \subseteq OpenDays(U)
               /\ d \in r.todo \/ \A s \in Wanted(r, r.calendar, d) : r.prices[d][s] = U[d][s]
  BY DEF ReadOf
<1>3. T \in tables' /\ \A d \in Days : \E U \in tables' :
               /\ OpenDays(T) \subseteq OpenDays(U)
               /\ d \in r.todo \/ \A s \in Wanted(r, r.calendar, d) : r.prices[d][s] = U[d][s]
  BY <1>2
<1> QED BY <1>1, <1>2, <1>3 DEF ReadOf

(* What a question is about depends on the snapshots only.                 *)
LEMMA ListedStays ==
    ASSUME UNCHANGED picks
    PROVE  \A q : Listed(q)' = Listed(q) /\ resolve_range(q)' = resolve_range(q)
<1> QED BY DEF Listed, list_snapshot_entries, resolve_range, Screened

(* An answer stays right when tables are added.                            *)
LEMMA AnswerStays ==
    ASSUME NEW q, NEW answer, RightAnswer(q, answer), tables \subseteq tables',
           UNCHANGED picks
    PROVE  RightAnswer(q, answer)'
<1>1. CASE \E r : ReadOf(q, r) /\ r.todo = {} /\ answer = FullAnswer(r)
  <2>1. PICK r : ReadOf(q, r) /\ r.todo = {} /\ answer = FullAnswer(r)
    BY <1>1
  <2>2. ReadOf(q, r)'
    BY <2>1, ReadStays
  <2> QED BY <2>1, <2>2 DEF RightAnswer
<1>2. CASE /\ \E w : answer = EmptyAnswer([q |-> q, entries |-> Listed(q)], w)
           /\ Listed(q) = <<>> \/ \E T \in tables : OpenDays(T) = {}
  <2>1. Listed(q)' = Listed(q)
    BY ListedStays
  <2>2. PICK w : answer = EmptyAnswer([q |-> q, entries |-> Listed(q)], w)
    BY <1>2
  <2>3. Listed(q) = <<>> \/ \E T \in tables' : OpenDays(T) = {}
    BY <1>2
  <2> QED BY <2>1, <2>2, <2>3 DEF RightAnswer
<1> QED BY <1>1, <1>2 DEF RightAnswer

(* The request is still served as it was, when tables are added.           *)
LEMMA ServedStays ==
    ASSUME NEW q, Served(q), tables \subseteq tables', UNCHANGED <<picks, req>>
    PROVE  Served(q)'
<1>1. CASE req = [pc |-> "entries", q |-> q, start |-> resolve_range(q).start,
                  end |-> resolve_range(q).end]
  BY <1>1, ListedStays DEF Served
<1>2. CASE req = [pc |-> "calendar", q |-> q, entries |-> Listed(q)]
  BY <1>2, ListedStays DEF Served
<1>3. CASE ReadOf(q, req)
  <2>1. PICK r : r = req
    OBVIOUS
  <2>2. ReadOf(q, r)'
    BY <1>3, <2>1, ReadStays
  <2>3. r = req'
    BY <2>1
  <2>4. ReadOf(q, req)'
    BY <2>2, <2>3 DEF ReadOf
  <2> QED BY <2>4 DEF Served
<1>4. CASE \E answer : /\ req = [pc |-> "answered", q |-> q, answer |-> answer]
                       /\ RightAnswer(q, answer)
  <2>1. PICK answer : /\ req = [pc |-> "answered", q |-> q, answer |-> answer]
                      /\ RightAnswer(q, answer)
    BY <1>4
  <2>2. RightAnswer(q, answer)'
    BY <2>1, AnswerStays
  <2> QED BY <2>1, <2>2 DEF Served
<1> QED BY <1>1, <1>2, <1>3, <1>4 DEF Served

(* Which step a served request is at.                                      *)
LEMMA Steps ==
    ASSUME NEW q, Served(q)
    PROVE  /\ req # Idle /\ req.q = q
           /\ req.pc = "entries" => req = [pc |-> "entries", q |-> q,
                    start |-> resolve_range(q).start, end |-> resolve_range(q).end]
           /\ req.pc = "calendar" => req = [pc |-> "calendar", q |-> q, entries |-> Listed(q)]
           /\ req.pc = "prices" => ReadOf(q, req)
           /\ req.pc = "answered" => req = [pc |-> "answered", q |-> q, answer |-> req.answer]
                                     /\ RightAnswer(q, req.answer)
<1>0. Idle.pc = "idle"
  BY DEF Idle
<1>1. CASE req = [pc |-> "entries", q |-> q, start |-> resolve_range(q).start,
                  end |-> resolve_range(q).end]
  <2>1. req.pc = "entries" /\ req.q = q
    BY <1>1
  <2>2. req # Idle
    BY <1>0, <2>1
  <2> QED BY <1>1, <2>1, <2>2
<1>2. CASE req = [pc |-> "calendar", q |-> q, entries |-> Listed(q)]
  <2>1. req.pc = "calendar" /\ req.q = q
    BY <1>2
  <2>2. req # Idle
    BY <1>0, <2>1
  <2> QED BY <1>2, <2>1, <2>2
<1>3. CASE ReadOf(q, req)
  <2>1. req.pc = "prices" /\ req.q = q
    BY <1>3 DEF ReadOf, Reading
  <2>2. req # Idle
    BY <1>0, <2>1
  <2> QED BY <1>3, <2>1, <2>2
<1>4. CASE \E answer : /\ req = [pc |-> "answered", q |-> q, answer |-> answer]
                       /\ RightAnswer(q, answer)
  <2>1. PICK answer : /\ req = [pc |-> "answered", q |-> q, answer |-> answer]
                      /\ RightAnswer(q, answer)
    BY <1>4
  <2>2. req.pc = "answered" /\ req.q = q /\ req.answer = answer
    BY <2>1
  <2>3. req # Idle
    BY <1>0, <2>2
  <2> QED BY <2>1, <2>2, <2>3
<1> QED BY <1>1, <1>2, <1>3, <1>4 DEF Served

(* Loading the closes of one day.                                          *)
LEMMA LoadReads ==
    ASSUME Facts, Stored, Seen, NEW q, ReadOf(q, req), NEW d \in Days, load_close_prices(d)
    PROVE  ReadOf(q, req)'
<1> DEFINE row == [s \in Symbols |-> IF s \in Wanted(req, req.calendar, d)
                                    THEN closes[d][s] ELSE None]
<1>1. req \in Reading /\ req.q = q /\ req.entries = Listed(q) /\ Listed(q) # <<>>
  BY DEF ReadOf
<1>2. PICK T \in tables :
         /\ req.calendar = list_price_trading_days(T) /\ OpenDays(T) # {}
         /\ \A c \in Days : \E U \in tables :
               /\ OpenDays(T) \subseteq OpenDays(U)
               /\ c \in req.todo \/ \A s \in Wanted(req, req.calendar, c) :
                                        req.prices[c][s] = U[c][s]
  BY DEF ReadOf
<1>3. tables' = tables /\ picks' = picks
      /\ req' = [req EXCEPT !.todo = @ \ {d}, !.prices[d] = row]
  BY DEF load_close_prices
<1>4. closes \in Table /\ closes \in tables /\ OpenDays(T) \subseteq OpenDays(closes)
  BY DEF Stored, Seen
<1>5. row \in [Symbols -> Closes \cup {None}]
  BY <1>4 DEF Table
<1>6. \A s \in Wanted(req, req.calendar, d) : s \in Symbols
  <2>1. \A e \in ToSet(req.entries) : e.symbol \in Symbols
    <3>1. req.entries \in Seq(Entry)
      BY <1>1 DEF Reading
    <3>2. \A i \in DOMAIN req.entries : req.entries[i] \in Entry
      BY <3>1
    <3> QED BY <3>2 DEF ToSet, Entry
  <2> QED BY <2>1 DEF Wanted
<1>7. \A s \in Wanted(req, req.calendar, d) : row[s] = closes[d][s]
  BY <1>6
<1> HIDE DEF row
<1>8. /\ req'.pc = "prices" /\ req'.q = req.q /\ req'.entries = req.entries
      /\ req'.calendar = req.calendar /\ req'.todo = req.todo \ {d}
      /\ req'.prices = [req.prices EXCEPT ![d] = row]
      /\ req' = [pc |-> req'.pc, q |-> req'.q, entries |-> req'.entries,
                 calendar |-> req'.calendar, prices |-> req'.prices, todo |-> req'.todo]
  BY <1>1, <1>3 DEF Reading
<1>9. req'.prices \in Table /\ req'.prices[d] = row
      /\ \A c \in Days : c # d => req'.prices[c] = req.prices[c]
  <2>1. req.prices \in Table
    BY <1>1 DEF Reading
  <2> QED BY <1>5, <1>8, <2>1 DEF Table
<1>10. req' \in Reading
  BY <1>1, <1>8, <1>9 DEF Reading
<1>11. \A c : Wanted(req', req'.calendar, c) = Wanted(req, req.calendar, c)
  BY <1>8 DEF Wanted
<1>12. ASSUME NEW c \in Days
       PROVE  \E U \in tables : /\ OpenDays(T) \subseteq OpenDays(U)
                                /\ c \in req'.todo \/ \A s \in Wanted(req', req'.calendar, c) :
                                        req'.prices[c][s] = U[c][s]
  <2>1. CASE c = d
    BY <1>4, <1>7, <1>9, <1>11, <2>1
  <2>2. CASE c # d
    BY <1>2, <1>8, <1>9, <1>11, <2>2
  <2> QED BY <2>1, <2>2
<1>13. Listed(q)' = Listed(q)
  BY <1>3, ListedStays
<1> QED BY <1>1, <1>2, <1>3, <1>8, <1>10, <1>12, <1>13 DEF ReadOf

(* The invariant is inductive.                                             *)
LEMMA IInvInit ==
    ASSUME Facts, Init
    PROVE  IInv
<1>1. NoPrices \in Table
  BY DEF NoPrices, Table
<1>2. tables = {} /\ IsFiniteSet(tables)
  BY FS_EmptySet DEF Init
<1>3. uploads \in 0 .. MaxUploads
  BY DEF Init, Facts, QuestionAssumption
<1> QED BY <1>1, <1>2, <1>3 DEF Init, IInv, Stored

(* An upload keeps the invariant.                                          *)
LEMMA UploadKeeps ==
    ASSUME Facts, IInv, NEW u \in Uploads, upsert_daily_prices(u)
    PROVE  IInv'
<1>1. Stored
  BY DEF IInv
<1>2. closes' \in Table /\ OpenDays(closes) \subseteq OpenDays(closes')
  BY <1>1, UploadsOpen DEF Stored
<1>3. UNCHANGED <<picks, req>>
      /\ tables' = IF req = Idle THEN tables ELSE tables \cup {closes'}
  BY DEF upsert_daily_prices
<1>4. Stored'
  <2>1. uploads' \in 0 .. MaxUploads
    BY <1>1 DEF Stored, upsert_daily_prices, Facts, QuestionAssumption
  <2>2. IsFiniteSet(tables') /\ tables' \in SUBSET Table
    BY <1>1, <1>2, <1>3, FS_AddElement DEF Stored
  <2> QED BY <1>1, <1>2, <1>3, <2>1, <2>2 DEF Stored
<1>5. CASE req = Idle
  <2>1. req' = Idle
    BY <1>3, <1>5
  <2> QED BY <1>4, <2>1 DEF IInv
<1>6. CASE req # Idle
  <2>1. Seen
    BY <1>6 DEF IInv, Serving
  <2>2. PICK q \in Questions : normalize_horizons(q) /\ Served(q)
    BY <1>6 DEF IInv, Serving
  <2>3. tables' = tables \cup {closes'}
    BY <1>3, <1>6
  <2>4. OneDayApart'
    BY <1>1, <2>1, <2>3, UploadsOneDay
  <2>5. Seen'
    <3>1. \A T \in tables : OpenDays(T) \subseteq OpenDays(closes')
      BY <1>2, <2>1 DEF Seen
    <3>2. \A T \in tables' : OpenDays(T) \subseteq OpenDays(closes')
      BY <2>3, <3>1
    <3>3. closes' \in tables'
      BY <2>3
    <3> QED BY <2>4, <3>2, <3>3 DEF Seen
  <2>6. Served(q)'
    BY <1>3, <2>2, <2>3, ServedStays
  <2> QED BY <1>4, <2>2, <2>5, <2>6 DEF IInv, Serving
<1> QED BY <1>5, <1>6

(* A new request keeps the invariant.                                      *)
LEMMA RunKeeps ==
    ASSUME Facts, IInv, NEW q \in Questions, backtest_run(q)
    PROVE  IInv'
<1>1. Stored
  BY DEF IInv
<1>2. /\ UNCHANGED <<closes, picks, uploads>> /\ tables' = {closes} /\ normalize_horizons(q)
      /\ req' = [pc |-> "entries", q |-> q, start |-> resolve_range(q).start,
                 end |-> resolve_range(q).end]
  BY DEF backtest_run
<1>3. Stored'
  BY <1>1, <1>2, FS_Singleton DEF Stored
<1>4. Seen'
  <2>1. Today \in Days
    BY DEF Facts, QuestionAssumption
  <2>2. OneDayApart'
    BY <1>2, <2>1 DEF OneDayApart
  <2> QED BY <1>2, <2>2 DEF Seen
<1>5. Served(q)'
  BY <1>2, ListedStays DEF Served
<1> QED BY <1>2, <1>3, <1>4, <1>5 DEF IInv, Serving

(* What was seen stays seen while nothing is written.                      *)
LEMMA SeenStays ==
    ASSUME Seen, UNCHANGED <<closes, tables>>
    PROVE  Seen'
<1>1. OneDayApart'
  BY DEF Seen, OneDayApart
<1> QED BY <1>1 DEF Seen

(* A step of the request itself.                                           *)
LEMMA RequestKeeps ==
    ASSUME Facts, IInv, req # Idle, UNCHANGED <<closes, picks, uploads, tables>>,
           \A q \in Questions : normalize_horizons(q) /\ Served(q) => Served(q)'
    PROVE  IInv'
<1>1. Stored'
  BY DEF IInv, Stored
<1>2. Seen /\ \E q \in Questions : normalize_horizons(q) /\ Served(q)
  BY DEF IInv, Serving
<1>3. Seen'
  BY <1>2, SeenStays
<1> QED BY <1>1, <1>2, <1>3 DEF IInv, Serving

(* A request at a step is not idle.                                        *)
LEMMA IdleKnown ==
    ASSUME NEW pc, req.pc = pc, pc # "idle" PROVE req # Idle
<1> QED BY DEF Idle

(* Reading the entries keeps the invariant.                                *)
LEMMA CollectKeeps ==
    ASSUME Facts, IInv, CollectEntries
    PROVE  IInv'
<1>1. req.pc = "entries" /\ UNCHANGED <<closes, picks, uploads, tables>>
      /\ req' = [pc |-> "calendar", q |-> req.q,
                 entries |-> list_snapshot_entries(MODE_SESSION[req.q.mode],
                                                   req.start, req.end)]
  BY DEF CollectEntries
<1>2. ASSUME NEW q \in Questions, Served(q) PROVE Served(q)'
  <2>1. req = [pc |-> "entries", q |-> q, start |-> resolve_range(q).start,
               end |-> resolve_range(q).end]
    BY <1>1, <1>2, Steps
  <2>2. req' = [pc |-> "calendar", q |-> q, entries |-> Listed(q)]
    BY <1>1, <2>1 DEF Listed
  <2>3. Listed(q)' = Listed(q)
    BY <1>1, ListedStays
  <2> QED BY <2>2, <2>3 DEF Served
<1> QED BY <1>1, <1>2, RequestKeeps, IdleKnown

(* Reading the calendar keeps it, with an answer at once or a request that *)
(* has read no closes.                                                     *)
LEMMA ReadCalendarKeeps ==
    ASSUME Facts, IInv, ReadCalendar
    PROVE  IInv'
<1> DEFINE calendar == list_price_trading_days(closes)
<1>1. req.pc = "calendar" /\ UNCHANGED <<closes, picks, uploads, tables>>
  BY DEF ReadCalendar
<1>2. Stored /\ req # Idle
  BY <1>1, IdleKnown DEF IInv
<1>3. closes \in tables /\ closes \in Table
  BY <1>2 DEF IInv, Serving, Seen, Stored
<1>4. ASSUME NEW q \in Questions, Served(q) PROVE Served(q)'
  <2>1. req = [pc |-> "calendar", q |-> q, entries |-> Listed(q)]
    BY <1>1, <1>4, Steps
  <2>2. Listed(q)' = Listed(q)
    BY <1>1, ListedStays
  <2>3. calendar = <<>> <=> OpenDays(closes) = {}
    BY CalendarTyped
  <2>4. CASE Listed(q) = <<>> \/ calendar = <<>>
    <3> DEFINE w == IF Listed(q) = <<>> THEN "no entries" ELSE "no prices"
               a == EmptyAnswer(req, w)
    <3>1. req' = [pc |-> "answered", q |-> q, answer |-> a]
      BY <2>1, <2>4 DEF ReadCalendar
    <3>2. a = EmptyAnswer([q |-> q, entries |-> Listed(q)], w)
      BY <2>1 DEF EmptyAnswer
    <3>3. RightAnswer(q, a)
      BY <1>3, <2>3, <2>4, <3>2 DEF RightAnswer
    <3> HIDE DEF a, w
    <3>4. PICK b : b = a
      OBVIOUS
    <3>5. RightAnswer(q, b)'
      BY <1>1, <3>3, <3>4, AnswerStays
    <3> QED BY <3>1, <3>4, <3>5 DEF Served
  <2>5. CASE Listed(q) # <<>> /\ calendar # <<>>
    <3> DEFINE todo == {d \in Days : Wanted(req, calendar, d) # {}}
    <3>1. req' = [pc |-> "prices", q |-> q, entries |-> Listed(q), calendar |-> calendar,
                  prices |-> NoPrices, todo |-> todo]
      BY <2>1, <2>5 DEF ReadCalendar
    <3>2. NoPrices \in Table /\ todo \in SUBSET Days
      BY DEF NoPrices, Table
    <3>3. calendar \in Seq(Days) /\ OpenDays(closes) # {}
      BY <2>3, <2>5, CalendarTyped
    <3>4. q \in Question /\ picks \in Screenings
      BY <1>2 DEF Facts, QuestionAssumption, Stored
    <3>5. Listed(q) \in Seq(Entry)
      BY <3>4, EntriesListed
    <3> HIDE DEF todo, calendar
    <3>6. req' \in Reading
      BY <3>1, <3>2, <3>3, <3>5 DEF Reading
    <3>7. \A d : Wanted(req', calendar, d) = Wanted(req, calendar, d)
      BY <2>1, <3>1 DEF Wanted
    <3>8. \A d \in Days : d \in todo \/ Wanted(req, calendar, d) = {}
      BY DEF todo
    <3>9. req'.q = q /\ req'.entries = Listed(q) /\ req'.calendar = calendar
          /\ req'.todo = todo
      BY <3>1
    <3>10. \A d \in Days : d \in req'.todo \/ \A s \in Wanted(req', req'.calendar, d) :
                               req'.prices[d][s] = closes[d][s]
      BY <3>7, <3>8, <3>9
    <3>11. ReadOf(q, req)'
      BY <1>1, <1>3, <2>2, <2>5, <3>3, <3>6, <3>9, <3>10 DEF ReadOf, calendar
    <3> QED BY <3>11 DEF Served
  <2> QED BY <2>4, <2>5
<1> QED BY <1>1, <1>2, <1>4, RequestKeeps

(* Reading the closes of a day keeps it.                                   *)
LEMMA LoadKeeps ==
    ASSUME Facts, IInv, NEW d \in Days, load_close_prices(d)
    PROVE  IInv'
<1>1. req.pc = "prices" /\ UNCHANGED <<closes, picks, uploads, tables>>
  BY DEF load_close_prices
<1>2. Stored /\ req # Idle
  BY <1>1, IdleKnown DEF IInv
<1>3. Seen
  BY <1>2 DEF IInv, Serving
<1>4. ASSUME NEW q \in Questions, Served(q) PROVE Served(q)'
  <2>1. ReadOf(q, req)
    BY <1>1, <1>4, Steps
  <2>2. ReadOf(q, req)'
    BY <1>2, <1>3, <2>1, LoadReads
  <2> QED BY <2>2 DEF Served
<1> QED BY <1>1, <1>2, <1>4, RequestKeeps

(* The computation keeps it.                                               *)
LEMMA ComputeKeeps ==
    ASSUME Facts, IInv, Compute
    PROVE  IInv'
<1>1. req.pc = "prices" /\ req.todo = {} /\ UNCHANGED <<closes, picks, uploads, tables>>
      /\ req' = [pc |-> "answered", q |-> req.q, answer |-> FullAnswer(req)]
  BY DEF Compute
<1>2. ASSUME NEW q \in Questions, Served(q) PROVE Served(q)'
  <2>1. ReadOf(q, req) /\ req.q = q
    BY <1>1, <1>2, Steps
  <2>2. PICK answer : answer = FullAnswer(req)
    OBVIOUS
  <2>3. RightAnswer(q, answer)
    BY <1>1, <2>1, <2>2 DEF RightAnswer
  <2>4. RightAnswer(q, answer)'
    BY <1>1, <2>3, AnswerStays
  <2>5. req' = [pc |-> "answered", q |-> q, answer |-> answer]
    BY <1>1, <2>1, <2>2
  <2> QED BY <2>4, <2>5 DEF Served
<1> QED BY <1>1, <1>2, RequestKeeps, IdleKnown

(* Sending the answer keeps it.                                            *)
LEMMA SendKeeps ==
    ASSUME Facts, IInv, SendAnswer
    PROVE  IInv'
<1>1. req' = Idle /\ tables' = {} /\ UNCHANGED <<closes, picks, uploads>>
  BY DEF SendAnswer
<1>2. Stored'
  BY <1>1, FS_EmptySet DEF IInv, Stored
<1> QED BY <1>1, <1>2 DEF IInv

(* Every step keeps the invariant.                                         *)
LEMMA IInvNext ==
    ASSUME Facts, IInv, [Next]_vars
    PROVE  IInv'
<1>1. CASE UNCHANGED vars
  <2>1. UNCHANGED <<closes, picks, req, uploads, tables>>
    BY <1>1 DEF vars
  <2>2. Stored'
    BY <2>1 DEF IInv, Stored
  <2>3. CASE req = Idle
    BY <2>1, <2>2, <2>3 DEF IInv
  <2>4. CASE req # Idle
    <3>1. \A q \in Questions : Served(q) => Served(q)'
      BY <2>1, ServedStays
    <3> QED BY <2>1, <2>4, <3>1, RequestKeeps
  <2> QED BY <2>3, <2>4
<1>2. ASSUME NEW u \in Uploads, upsert_daily_prices(u) PROVE IInv'
  BY <1>2, UploadKeeps
<1>3. ASSUME NEW q \in Questions, backtest_run(q) PROVE IInv'
  BY <1>3, RunKeeps
<1>4. ASSUME NEW d \in Days, load_close_prices(d) PROVE IInv'
  BY <1>4, LoadKeeps
<1> QED BY <1>1, <1>2, <1>3, <1>4, CollectKeeps, ReadCalendarKeeps, ComputeKeeps,
           SendKeeps DEF Next

(* So it holds for ever.                                                   *)
LEMMA IInvHolds ==
    ASSUME Facts PROVE Spec => []IInv
<1>1. Init => IInv
  BY IInvInit
<1>2. IInv /\ [Next]_vars => IInv'
  BY IInvNext
<1> QED BY <1>1, <1>2, PTL DEF Spec

-----------------------------------------------------------------------------
(* From what was read to what is true on the tables it was read from.      *)

(* What a request has read has its types.                                  *)
LEMMA ReadIsReadable ==
    ASSUME Facts, picks \in Screenings, NEW q \in Questions, normalize_horizons(q),
           NEW r, ReadOf(q, r)
    PROVE  Readable(r) /\ r.q = q /\ r.entries = Listed(r.q)
<1>1. r \in Reading /\ r.q = q /\ r.entries = Listed(q)
  BY DEF ReadOf
<1>2. q \in Question
  BY DEF Facts, QuestionAssumption
<1>3. PICK T : r.calendar = list_price_trading_days(T)
  BY DEF ReadOf
<1>4. r.calendar = Ascending(OpenDays(T)) /\ OpenDays(T) \in SUBSET Days
  BY <1>3, OpenDaysTyped
<1> QED BY <1>1, <1>2, <1>4 DEF Readable, Reading

(* The exit of an entry is the true one on the table of the calendar, and  *)
(* its closes are among those that are looked up.                          *)
LEMMA ExitIsTrue ==
    ASSUME Facts, picks \in Screenings, NEW q \in Questions, normalize_horizons(q),
           NEW r, ReadOf(q, r), NEW i \in Asked(q), NEW n \in q.horizons,
           NEW T, r.calendar = list_price_trading_days(T)
    PROVE  LET e == picks[i]
               x == ExitDay(r, e, n)
           IN /\ e \in Entry /\ n \in Nat
              /\ TrueExits(T, e, n) = IF x = None THEN {} ELSE {x}
              /\ x # None => x \in OpenDays(T) /\ e.symbol \in Wanted(r, r.calendar, x)
              /\ e.price = None /\ q.mode = "close_to_close" =>
                    n > 0 /\ e.symbol \in Wanted(r, r.calendar, e.day)
<1> DEFINE e == picks[i]
           S == OpenDays(T)
<1>1. Readable(r) /\ r.q = q /\ r.entries = Listed(q)
  BY ReadIsReadable
<1>2. q \in Question /\ None \notin Int /\ Days \subseteq Int
  BY DEF Facts, QuestionAssumption
<1>3. PICK at : EntriesAt(Listed(q), q, at)
  BY <1>2, EntriesListed
<1>4. PICK k \in 1 .. Len(Listed(q)) : at[k] = i /\ Listed(q)[k] = e
  BY <1>3 DEF EntriesAt
<1>5. Listed(q) \in Seq(Entry)
  BY <1>2, EntriesListed
<1>6. e \in Entry /\ e \in ToSet(r.entries)
  BY <1>1, <1>4, <1>5 DEF ToSet
<1>7. S \in SUBSET Int /\ IsFiniteSet(S) /\ r.calendar = Ascending(S)
  BY OpenDaysTyped
<1>8. n \in Nat /\ (q.mode = "close_to_close" => n # 0)
  BY <1>1, HorizonsTyped DEF normalize_horizons
<1>9. e.day \in Int
  BY <1>2, <1>6 DEF Entry
<1>10. TrueExits(T, e, n) = NthDays(S, e.day, n)
  BY DEF TrueExits, NthDays
<1> HIDE DEF e, S
<1>11. LET x == nth_trading_day(Ascending(S), e.day, n) IN
          /\ NthDays(S, e.day, n) = IF x = None THEN {} ELSE {x}
          /\ x # None => x \in S
  BY <1>2, <1>7, <1>8, <1>9, NthTradingDay
<1>12. ExitDay(r, e, n) = nth_trading_day(Ascending(S), e.day, n)
  BY <1>7 DEF ExitDay
<1>13. e.symbol \in Wanted(r, r.calendar, ExitDay(r, e, n))
  BY <1>1, <1>6 DEF Wanted, ExitDay
<1>14. e.price = None /\ q.mode = "close_to_close" =>
          e.symbol \in Wanted(r, r.calendar, e.day)
  BY <1>1, <1>6 DEF Wanted
<1> QED BY <1>6, <1>8, <1>10, <1>11, <1>12, <1>13, <1>14 DEF e, S

(* With one table, or two that differ in one day, every entry is seen as   *)
(* it is on one of them.                                                   *)
LEMMA SeenApart ==
    ASSUME Facts, picks \in Screenings, NEW q \in Questions, normalize_horizons(q),
           NEW r, ReadOf(q, r), r.todo = {}, NEW i \in Asked(q), NEW n \in q.horizons,
           OneDayApart, Cardinality(tables) <= 2
    PROVE  \E U \in tables : SeenOn(r, U, picks[i], n)
<1> DEFINE e == picks[i]
           x == ExitDay(r, e, n)
           fills == e.price = None /\ q.mode = "close_to_close"
<1>1. PICK D \in Days : \A T, U \in tables : \A d \in Days : d # D => T[d] = U[d]
  BY DEF OneDayApart
<1>2. PICK T \in tables :
         /\ r.calendar = list_price_trading_days(T) /\ r.q = q
         /\ \A d \in Days : \E U \in tables :
               /\ OpenDays(T) \subseteq OpenDays(U)
               /\ \A s \in Wanted(r, r.calendar, d) : r.prices[d][s] = U[d][s]
  BY DEF ReadOf
<1>3. /\ e \in Entry /\ n \in Nat
      /\ TrueExits(T, e, n) = IF x = None THEN {} ELSE {x}
      /\ x # None => x \in OpenDays(T) /\ e.symbol \in Wanted(r, r.calendar, x)
      /\ fills => n > 0 /\ e.symbol \in Wanted(r, r.calendar, e.day)
  BY <1>2, ExitIsTrue
<1>4. Days \subseteq Int /\ None \notin Int /\ OpenDays(T) \in SUBSET Days /\ e.day \in Days
  BY <1>3, OpenDaysTyped DEF Facts, QuestionAssumption, Entry
<1>5. ASSUME NEW U \in tables, NEW d \in Days, d # D
      PROVE  d \in OpenDays(T) <=> d \in OpenDays(U)
  BY <1>1, <1>5 DEF OpenDays
<1> HIDE DEF e, x
<1>6. CASE x = D
  <2>1. PICK U \in tables :
               /\ OpenDays(T) \subseteq OpenDays(U)
               /\ \A s \in Wanted(r, r.calendar, D) : r.prices[D][s] = U[D][s]
    BY <1>2
  <2>2. x # None /\ D \in OpenDays(T)
    BY <1>3, <1>4, <1>6
  <2>3. OpenDays(U) = OpenDays(T)
    <3>1. OpenDays(U) \in SUBSET Days
      BY OpenDaysTyped
    <3> QED BY <1>4, <1>5, <2>1, <2>2, <3>1
  <2>4. TrueExits(U, e, n) = TrueExits(T, e, n)
    BY <2>3 DEF TrueExits
  <2>5. r.prices[x][e.symbol] = U[x][e.symbol]
    BY <1>3, <1>6, <2>1, <2>2
  <2>6. fills => r.prices[e.day][e.symbol] = U[e.day][e.symbol]
    <3> SUFFICES ASSUME fills PROVE r.prices[e.day][e.symbol] = U[e.day][e.symbol]
      OBVIOUS
    <3>1. n > 0 /\ x \in TrueExits(T, e, n)
      BY <1>3, <2>2
    <3>2. Cardinality({c \in OpenDays(T) : e.day < c /\ c <= x}) # 0
      BY <1>3, <3>1 DEF TrueExits
    <3>3. e.day # x
      <4> SUFFICES ASSUME e.day = x PROVE FALSE
        OBVIOUS
      <4>0. e.day \in Int /\ x \in Int /\ \A c \in OpenDays(T) : c \in Int
        BY <1>4, <1>6
      <4>1. \A c \in OpenDays(T) : ~(e.day < c /\ c <= x)
        BY <4>0
      <4>2. {c \in OpenDays(T) : e.day < c /\ c <= x} = {}
        BY <4>1
      <4> QED BY <3>2, <4>2, FS_EmptySet
    <3>4. PICK V \in tables : \A s \in Wanted(r, r.calendar, e.day) :
                                  r.prices[e.day][s] = V[e.day][s]
      BY <1>2, <1>4
    <3>5. V[e.day] = U[e.day]
      BY <1>1, <1>4, <1>6, <3>3
    <3> QED BY <1>3, <3>4, <3>5
  <2>7. SeenOn(r, U, e, n)
    BY <1>2, <1>3, <2>4, <2>5, <2>6 DEF SeenOn, x
  <2> QED BY <2>7 DEF e
<1>7. CASE x # D /\ fills /\ e.day = D
  <2>1. PICK U \in tables :
               /\ OpenDays(T) \subseteq OpenDays(U)
               /\ \A s \in Wanted(r, r.calendar, D) : r.prices[D][s] = U[D][s]
    BY <1>2
  <2>2. n > 0 /\ r.prices[e.day][e.symbol] = U[e.day][e.symbol]
    BY <1>3, <1>7, <2>1
  <2>3. OpenDays(U) \in SUBSET Days
    BY OpenDaysTyped
  <2>4. \A d \in Days : {c \in OpenDays(U) : e.day < c /\ c <= d}
                            = {c \in OpenDays(T) : e.day < c /\ c <= d}
    <3> SUFFICES ASSUME NEW d \in Days
                 PROVE  \A c \in Days : c \in OpenDays(U) /\ e.day < c /\ c <= d
                                   <=> c \in OpenDays(T) /\ e.day < c /\ c <= d
      BY <1>4, <2>3
    <3> TAKE c \in Days
    <3>1. e.day < c => c # D
      BY <1>4, <1>7
    <3> QED BY <1>5, <3>1
  <2>5. \A S \in SUBSET Days : {c \in S : e.day < c /\ c <= e.day} = {}
    <3> SUFFICES ASSUME NEW S \in SUBSET Days, NEW c \in S, e.day < c, c <= e.day
                 PROVE FALSE
      OBVIOUS
    <3>1. c \in Int /\ e.day \in Int
      BY <1>4
    <3> QED BY <3>1
  <2>6. \A d \in Days : d \in TrueExits(U, e, n) <=> d \in TrueExits(T, e, n)
    <3> TAKE d \in Days
    <3>1. CASE d = e.day
      <4>1. {c \in OpenDays(T) : e.day < c /\ c <= d} = {}
            /\ {c \in OpenDays(U) : e.day < c /\ c <= d} = {}
        BY <1>4, <2>3, <2>5, <3>1
      <4>2. n # Cardinality({})
        BY <1>3, <2>2, FS_EmptySet
      <4> QED BY <4>1, <4>2 DEF TrueExits
    <3>2. CASE d # e.day
      <4>1. d \in OpenDays(U) <=> d \in OpenDays(T)
        BY <1>5, <1>7, <3>2
      <4> QED BY <2>4, <4>1 DEF TrueExits
    <3> QED BY <3>1, <3>2
  <2>7. TrueExits(U, e, n) = TrueExits(T, e, n)
    <3>1. TrueExits(U, e, n) \in SUBSET Days /\ TrueExits(T, e, n) \in SUBSET Days
      BY <1>4, <2>3 DEF TrueExits
    <3> QED BY <2>6, <3>1
  <2>8. x # None => r.prices[x][e.symbol] = U[x][e.symbol]
    <3> SUFFICES ASSUME x # None PROVE r.prices[x][e.symbol] = U[x][e.symbol]
      OBVIOUS
    <3>1. x \in Days
      BY <1>3, <1>4
    <3>2. PICK V \in tables : \A s \in Wanted(r, r.calendar, x) : r.prices[x][s] = V[x][s]
      BY <1>2, <3>1
    <3>3. V[x] = U[x]
      BY <1>1, <1>7, <3>1
    <3> QED BY <1>3, <3>2, <3>3
  <2>9. SeenOn(r, U, e, n)
    BY <1>2, <1>3, <2>2, <2>7, <2>8 DEF SeenOn, x
  <2> QED BY <2>9 DEF e
<1>8. CASE x # D /\ ~(fills /\ e.day = D)
  <2>1. ASSUME NEW d \in Days, d # D, e.symbol \in Wanted(r, r.calendar, d)
        PROVE  r.prices[d][e.symbol] = T[d][e.symbol]
    <3>1. PICK V \in tables : \A s \in Wanted(r, r.calendar, d) : r.prices[d][s] = V[d][s]
      BY <1>2
    <3>2. V[d] = T[d]
      BY <1>1, <2>1
    <3> QED BY <2>1, <3>1, <3>2
  <2>2. x # None => r.prices[x][e.symbol] = T[x][e.symbol]
    BY <1>3, <1>4, <1>8, <2>1
  <2>3. fills => r.prices[e.day][e.symbol] = T[e.day][e.symbol]
    BY <1>3, <1>4, <1>8, <2>1
  <2>4. SeenOn(r, T, e, n)
    BY <1>2, <1>3, <2>2, <2>3 DEF SeenOn, x
  <2> QED BY <2>4 DEF e
<1> QED BY <1>6, <1>7, <1>8

(* What an answer says at a horizon: the trades of the entries asked for,  *)
(* counted and listed, each entry taken as it was on one of the tables.    *)
Found(q, n, answer, c, on, of) ==
    /\ c \in Counted1 /\ answer.summary[n] = Summarize(c)
    /\ c.missing + Len(c.rows) = Cardinality(Asked(q))
    /\ on \in [Asked(q) -> tables]
    /\ TradesListed(q, on, n, c.rows, of)
    /\ n = detail_n(q) => answer.total = Len(c.rows)
                          /\ answer.detail = SortThenCut(q, c.rows)

(* The detail of no rows is empty.                                         *)
LEMMA NothingSorted ==
    ASSUME NEW q \in Question
    PROVE  SortThenCut(q, <<>>) = <<>>
<1>1. <<>> \in Seq(RowSet) /\ Len(<<>>) = 0
  OBVIOUS
<1>2. PICK rows \in Seq(RowSet) : rows = <<>>
  BY <1>1
<1>3. Sorted(q, rows) = <<>>
  <2>1. Len(rows) = 0
    BY <1>2
  <2>2. \E p \in [1 .. Len(rows) -> 1 .. Len(rows)] :
           Sorted(q, rows) = [k \in 1 .. Len(rows) |-> rows[p[k]]]
    BY SortedLists
  <2>3. PICK p : Sorted(q, rows) = [k \in 1 .. Len(rows) |-> rows[p[k]]]
    BY <2>2
  <2> QED BY <2>1, <2>3
<1>4. q.limit \in Nat
  BY DEF Question
<1>5. SortThenCut(q, <<>>) \in Seq(RowSet) /\ Len(SortThenCut(q, <<>>)) <= 0
      /\ Len(SortThenCut(q, <<>>)) \in Nat
  BY <1>1, <1>2, <1>3, <1>4, CutLists DEF SortThenCut
<1> QED BY <1>5

(* A computed answer lists the trades of its question.                     *)
LEMMA FullAnswerFound ==
    ASSUME Facts, picks \in Screenings, NEW q \in Questions, normalize_horizons(q),
           OneDayApart, Cardinality(tables) <= 2, NEW n \in q.horizons,
           NEW r, ReadOf(q, r), r.todo = {}
    PROVE  \E on, of : Found(q, n, FullAnswer(r), Counted(r)[n], on, of)
<1>1. Readable(r) /\ r.q = q /\ r.entries = Listed(r.q)
  BY ReadIsReadable
<1> DEFINE on == [i \in Asked(q) |-> CHOOSE U \in tables : SeenOn(r, U, picks[i], n)]
<1>2. \A i \in Asked(q) : \E U \in tables : SeenOn(r, U, picks[i], n)
  BY SeenApart
<1>3. \A i \in Asked(q) : on[i] \in tables /\ SeenOn(r, on[i], picks[i], n)
  BY <1>2
<1>4. on \in [Asked(q) -> tables]
  BY <1>3
<1> HIDE DEF on
<1>5. PICK o : o = on
  OBVIOUS
<1>6. /\ Counted(r)[n] \in Counted1
      /\ Counted(r)[n].missing + Len(Counted(r)[n].rows) = Cardinality(Asked(q))
      /\ \E of : TradesListed(q, o, n, Counted(r)[n].rows, of)
  BY <1>1, <1>3, <1>5, TradesFound
<1>7. PICK of : TradesListed(q, o, n, Counted(r)[n].rows, of)
  BY <1>6
<1>8. FullAnswer(r).summary[n] = Summarize(Counted(r)[n])
  BY <1>1 DEF FullAnswer
<1>9. n = detail_n(q) => /\ FullAnswer(r).total = Len(Counted(r)[n].rows)
                         /\ FullAnswer(r).detail = SortThenCut(q, Counted(r)[n].rows)
  BY <1>1 DEF FullAnswer
<1> QED BY <1>4, <1>5, <1>6, <1>7, <1>8, <1>9 DEF Found

(* So does the answer when there are no entries or no prices.              *)
LEMMA EmptyAnswerFound ==
    ASSUME Facts, picks \in Screenings, NEW q \in Questions, NEW n \in q.horizons,
           NEW w, closes \in tables,
           Listed(q) = <<>> \/ \E T \in tables : OpenDays(T) = {}
    PROVE  \E c, on, of :
              Found(q, n, EmptyAnswer([q |-> q, entries |-> Listed(q)], w), c, on, of)
<1> DEFINE c == [missing |-> Len(Listed(q)), rows |-> <<>>]
           a == EmptyAnswer([q |-> q, entries |-> Listed(q)], w)
<1>1. q \in Question
  BY DEF Facts, QuestionAssumption
<1>2. Listed(q) \in Seq(Entry) /\ IsFiniteSet(Asked(q))
      /\ Cardinality(Asked(q)) = Len(Listed(q))
  BY <1>1, EntriesListed
<1>3. PICK T \in tables : Asked(q) = {} \/ OpenDays(T) = {}
  <2>1. Listed(q) = <<>> => Asked(q) = {}
    BY <1>2, FS_EmptySet
  <2> QED BY <2>1
<1> DEFINE on == [i \in Asked(q) |-> T]
<1>4. \A i \in Asked(q) : TrueRows(q, on[i], picks[i], n) = {}
  <2> SUFFICES ASSUME NEW i \in Asked(q) PROVE TrueRows(q, T, picks[i], n) = {}
    OBVIOUS
  <2>1. TrueExits(T, picks[i], n) = {}
    BY <1>3 DEF TrueExits
  <2> QED BY <2>1 DEF TrueRows
<1>5. TradesListed(q, on, n, <<>>, <<>>)
  <2>1. <<>> \in [1 .. Len(<<>>) -> Asked(q)] /\ ~\E j \in 1 .. Len(<<>>) : TRUE
    OBVIOUS
  <2> HIDE DEF on
  <2>2. PICK none : none = <<>>
    OBVIOUS
  <2>3. TradesListed(q, on, n, none, none)
    BY <1>4, <2>1, <2>2 DEF TradesListed
  <2> QED BY <2>2, <2>3
<1>6. c \in Counted1 /\ c.rows = <<>> /\ c.missing + Len(<<>>) = Cardinality(Asked(q))
  BY <1>2 DEF Counted1
<1>7. a.summary[n] = Summarize(c) /\ a.total = Len(<<>>) /\ a.detail = SortThenCut(q, <<>>)
  <2>1. SortThenCut(q, <<>>) = <<>>
    BY <1>1, NothingSorted
  <2> QED BY <2>1 DEF EmptyAnswer
<1>8. on \in [Asked(q) -> tables]
  OBVIOUS
<1> HIDE DEF c, a, on
<1>9. Found(q, n, a, c, on, <<>>)
  BY <1>5, <1>6, <1>7, <1>8 DEF Found
<1> QED BY <1>9 DEF a

(* So does every right answer.                                             *)
LEMMA AnswerFound ==
    ASSUME Facts, picks \in Screenings, NEW q \in Questions, normalize_horizons(q),
           OneDayApart, Cardinality(tables) <= 2, closes \in tables,
           NEW n \in q.horizons, NEW answer, RightAnswer(q, answer)
    PROVE  \E c, on, of : Found(q, n, answer, c, on, of)
<1>1. CASE \E r : ReadOf(q, r) /\ r.todo = {} /\ answer = FullAnswer(r)
  BY <1>1, FullAnswerFound
<1>2. CASE /\ \E w : answer = EmptyAnswer([q |-> q, entries |-> Listed(q)], w)
           /\ Listed(q) = <<>> \/ \E T \in tables : OpenDays(T) = {}
  BY <1>2, EmptyAnswerFound
<1> QED BY <1>1, <1>2 DEF RightAnswer

-----------------------------------------------------------------------------
(* The theorems.                                                           *)

(* The horizons of a question, and the one the detail is of.               *)
LEMMA HorizonsOf ==
    ASSUME Facts, NEW q \in Questions, normalize_horizons(q)
    PROVE  /\ q \in Question /\ q.horizons \in SUBSET Nat /\ IsFiniteSet(q.horizons)
           /\ q.horizons # {} /\ detail_n(q) \in q.horizons
<1>1. q \in Question /\ q.horizons \in SUBSET Int /\ MAX_HORIZON \in Nat
  BY DEF Facts, QuestionAssumption, Question
<1>2. q.horizons \in SUBSET (0 .. MAX_HORIZON) /\ q.horizons # {}
  BY <1>1 DEF normalize_horizons
<1>3. IsFiniteSet(q.horizons) /\ q.horizons \in SUBSET Nat
  <2>1. IsFiniteSet(0 .. MAX_HORIZON)
    BY <1>1, FS_Interval
  <2> QED BY <1>1, <1>2, <2>1, FS_Subset
<1>4. \E n \in q.horizons : \A m \in q.horizons : n <= m
  BY <1>1, <1>2, <1>3, LeastOfFinite
<1>5. Min(q.horizons) \in q.horizons
  BY <1>4 DEF Min
<1> QED BY <1>1, <1>2, <1>3, <1>5 DEF detail_n

(* An answer belongs to a valid question and is right.                     *)
LEMMA AnswerGiven ==
    ASSUME Facts, IInv, Answered
    PROVE  /\ req.q \in Questions /\ normalize_horizons(req.q)
           /\ RightAnswer(req.q, req.answer) /\ Stored /\ Seen
<1>1. req # Idle
  BY IdleKnown DEF Answered
<1>2. PICK q \in Questions : normalize_horizons(q) /\ Served(q)
  BY <1>1 DEF IInv, Serving
<1>3. req.q = q /\ RightAnswer(q, req.answer)
  BY <1>2, Steps DEF Answered
<1> QED BY <1>1, <1>2, <1>3 DEF IInv, Serving

(* The counts of a summary are naturals: what is neither won nor lost is   *)
(* flat.                                                                   *)
LEMMA SummaryTyped ==
    ASSUME NEW c \in Counted1
    PROVE  LET s == Summarize(c) IN
           {s.samples, s.missing, s.wins, s.losses, s.flat} \subseteq Nat
<1> DEFINE m == Len(c.rows)
           v == [k \in 1 .. m |-> c.rows[k].change]
<1>1. m \in Nat /\ DOMAIN c.rows = 1 .. m /\ c.missing \in Nat
      /\ \A k \in 1 .. m : c.rows[k] \in RowSet
  BY DEF Counted1
<1>2. \A k \in 1 .. m : v[k] \in Int /\ v[k] = c.rows[k].change
  BY <1>1 DEF RowSet
<1> DEFINE W == {k \in 1 .. m : v[k] > 0}
           L == {k \in 1 .. m : v[k] < 0}
           F == {k \in 1 .. m : v[k] = 0}
<1> HIDE DEF v, m
<1>3. Wins(c.rows) = Cardinality(W) /\ Losses(c.rows) = Cardinality(L)
  <2>1. {k \in DOMAIN c.rows : c.rows[k].change > 0} = W
    BY <1>1, <1>2
  <2>2. {k \in DOMAIN c.rows : c.rows[k].change < 0} = L
    BY <1>1, <1>2
  <2> QED BY <2>1, <2>2 DEF Wins, Losses
<1>4. m - Cardinality(W) - Cardinality(L) = Cardinality(F)
  BY <1>1, <1>2, Signs
<1>5. W \in SUBSET (1 .. m) /\ L \in SUBSET (1 .. m) /\ F \in SUBSET (1 .. m)
  OBVIOUS
<1> HIDE DEF W, L, F
<1>6. Cardinality(W) \in Nat /\ Cardinality(L) \in Nat /\ Cardinality(F) \in Nat
  <2>1. IsFiniteSet(1 .. m)
    BY <1>1, UpToSize
  <2> QED BY <1>5, <2>1, FS_Subset, FS_CardinalityType
<1>7. Flat(c.rows) = Cardinality(F)
  BY <1>3, <1>4 DEF Flat, m
<1>8. /\ Summarize(c).samples = m /\ Summarize(c).missing = c.missing
      /\ Summarize(c).wins = Wins(c.rows) /\ Summarize(c).losses = Losses(c.rows)
      /\ Summarize(c).flat = Flat(c.rows)
  BY DEF Summarize, m
<1> QED BY <1>1, <1>3, <1>6, <1>7, <1>8

(* A right answer has a summary at every horizon, whatever was uploaded.   *)
LEMMA AnswerTyped ==
    ASSUME Facts, picks \in Screenings, NEW q \in Questions, normalize_horizons(q),
           NEW n \in q.horizons, NEW answer, RightAnswer(q, answer)
    PROVE  \E c \in Counted1 : answer.summary[n] = Summarize(c)
<1>1. CASE \E r : ReadOf(q, r) /\ r.todo = {} /\ answer = FullAnswer(r)
  <2>1. PICK r : ReadOf(q, r) /\ answer = FullAnswer(r)
    BY <1>1
  <2>2. Readable(r) /\ r.q = q
    BY <2>1, ReadIsReadable
  <2>3. Counted(r) \in Accs(r)
    BY <2>2, CountedRight
  <2>4. answer.summary[n] = Summarize(Counted(r)[n])
    BY <2>1, <2>2 DEF FullAnswer
  <2> QED BY <2>2, <2>3, <2>4 DEF Accs
<1>2. CASE /\ \E w : answer = EmptyAnswer([q |-> q, entries |-> Listed(q)], w)
           /\ Listed(q) = <<>> \/ \E T \in tables : OpenDays(T) = {}
  <2>1. Listed(q) \in Seq(Entry)
    BY HorizonsOf, EntriesListed
  <2>2. [missing |-> Len(Listed(q)), rows |-> <<>>] \in Counted1
    BY <2>1 DEF Counted1
  <2>3. answer.summary[n] = Summarize([missing |-> Len(Listed(q)), rows |-> <<>>])
    BY <1>2 DEF EmptyAnswer
  <2> QED BY <2>2, <2>3
<1> QED BY <1>1, <1>2 DEF RightAnswer

(* The invariant gives every state its type.                               *)
LEMMA TypesKept ==
    ASSUME Facts, IInv
    PROVE  TypeOK
<1>1. closes \in Table /\ tables \subseteq Table /\ uploads \in 0 .. MaxUploads
  BY DEF IInv, Stored
<1>2. req # Idle => req.q \in Questions /\ closes \in tables
  BY Steps DEF IInv, Serving, Seen
<1>3. ASSUME Answered, NEW n \in req.q.horizons
      PROVE  LET s == req.answer.summary[n] IN
             {s.samples, s.missing, s.wins, s.losses, s.flat} \subseteq Nat
  <2>1. \E c \in Counted1 : req.answer.summary[n] = Summarize(c)
    BY <1>3, AnswerGiven, AnswerTyped DEF Stored
  <2> QED BY <2>1, SummaryTyped
<1> QED BY <1>1, <1>2, <1>3 DEF TypeOK

(* Tables, parameters and answers keep their types, whatever uploads       *)
(* commit between the reads of a request: in particular no bucket of the   *)
(* summary (_summarize) is ever negative.                                  *)
THEOREM BacktestTypeCorrect == Spec => []TypeOK
<1>1. Facts
  BY QuestionAssumption, StoredAssumption DEF Facts
<1>2. Spec => []IInv
  BY <1>1, IInvHolds
<1>3. IInv => TypeOK
  BY <1>1, TypesKept
<1> QED BY <1>2, <1>3, PTL

(* What the answer was computed from, when at most one upload changed the  *)
(* prices meanwhile.                                                       *)
LEMMA GivenFound ==
    ASSUME Facts, IInv, Answered, Cardinality(tables) <= 2, NEW n \in req.q.horizons
    PROVE  /\ req.q \in Question /\ Asked(req.q) \in SUBSET Int
           /\ IsFiniteSet(Asked(req.q)) /\ Cardinality(Asked(req.q)) \in Nat
           /\ \E c, on, of : Found(req.q, n, req.answer, c, on, of)
<1>1. /\ req.q \in Questions /\ normalize_horizons(req.q)
      /\ RightAnswer(req.q, req.answer) /\ Stored /\ Seen
  BY AnswerGiven
<1>2. req.q \in Question /\ picks \in Screenings /\ OneDayApart /\ closes \in tables
  BY <1>1 DEF Facts, QuestionAssumption, Stored, Seen
<1>3. Asked(req.q) \in SUBSET DOMAIN picks /\ IsFiniteSet(Asked(req.q))
  BY <1>2, EntriesListed
<1>4. DOMAIN picks \in SUBSET Int
  BY <1>2 DEF Facts, StoredAssumption
<1>5. \E c, on, of : Found(req.q, n, req.answer, c, on, of)
  BY <1>1, <1>2, AnswerFound
<1>6. Cardinality(Asked(req.q)) \in Nat
  BY <1>3, FS_CardinalityType
<1> QED BY <1>2, <1>3, <1>4, <1>5, <1>6

(* Undisturbed means that there was one table.                             *)
LEMMA OneTable ==
    ASSUME Quiet PROVE Cardinality(tables) <= 2 /\ tables = {closes}
<1> QED BY FS_Singleton DEF Quiet

(* The invariant makes undisturbed summaries right.                        *)
LEMMA SummariesRight ==
    ASSUME Facts, IInv
    PROVE  QuietAnswersAreRight
<1> SUFFICES ASSUME Answered, Quiet, NEW n \in req.q.horizons
             PROVE  SummaryOf(req.q, closes, n, req.answer.summary[n])
  BY DEF QuietAnswersAreRight, TradesOf, SummaryOf
<1>1. Cardinality(tables) <= 2 /\ tables = {closes}
  BY OneTable
<1>2. /\ req.q \in Question /\ Asked(req.q) \in SUBSET Int
      /\ Cardinality(Asked(req.q)) \in Nat
      /\ \E c, on, of : Found(req.q, n, req.answer, c, on, of)
  BY <1>1, GivenFound
<1>3. PICK c, on, of : Found(req.q, n, req.answer, c, on, of)
  BY <1>2
<1>4. /\ \A i \in Asked(req.q) : on[i] = closes
      /\ c \in Counted1 /\ req.answer.summary[n] = Summarize(c)
      /\ c.missing + Len(c.rows) = Cardinality(Asked(req.q))
      /\ TradesListed(req.q, on, n, c.rows, of)
  BY <1>1, <1>3 DEF Found
<1>5. SummaryOf(req.q, closes, n, Summarize(c))
  BY <1>2, <1>4, SummaryRight
<1> QED BY <1>4, <1>5

(* When no upload commits while the request reads, its summary puts every  *)
(* entry it asked for exactly once, at every horizon, in the bucket its    *)
(* true trade belongs in, or counts it missing: calendar arithmetic, loop  *)
(* and buckets together (_compute, nth_trading_day, _summarize), for any   *)
(* number of entries, days and prices.                                     *)
THEOREM SummariesAreRight == Spec => []QuietAnswersAreRight
<1>1. Facts
  BY QuestionAssumption, StoredAssumption DEF Facts
<1>2. Spec => []IInv
  BY <1>1, IInvHolds
<1>3. IInv => QuietAnswersAreRight
  BY <1>1, SummariesRight
<1> QED BY <1>2, <1>3, PTL

(* The detail of an answer: the best trades, each once.                    *)
LEMMA GivenDetail ==
    ASSUME Facts, IInv, Answered, Cardinality(tables) <= 2
    PROVE  \E on \in [Asked(req.q) -> tables] :
              DetailListed(req.q, on, detail_n(req.q), req.answer.total, req.answer.detail)
<1> DEFINE n == detail_n(req.q)
<1>1. n \in req.q.horizons
  BY AnswerGiven, HorizonsOf
<1>2. /\ req.q \in Question /\ Asked(req.q) \in SUBSET Int
      /\ \E c, on, of : Found(req.q, n, req.answer, c, on, of)
  BY <1>1, GivenFound
<1>3. PICK c, on, of : Found(req.q, n, req.answer, c, on, of)
  BY <1>2
<1>4. /\ on \in [Asked(req.q) -> tables] /\ c.rows \in Seq(RowSet)
      /\ TradesListed(req.q, on, n, c.rows, of)
      /\ req.answer.total = Len(c.rows)
      /\ req.answer.detail = SortThenCut(req.q, c.rows)
  BY <1>3 DEF Found, Counted1
<1>5. DetailListed(req.q, on, n, Len(c.rows), req.answer.detail)
  BY <1>2, <1>4, DetailRight
<1> QED BY <1>4, <1>5

(* The invariant makes the detail of an undisturbed answer the best.       *)
LEMMA DetailBest ==
    ASSUME Facts, IInv
    PROVE  DetailIsTheBest
<1> DEFINE q == req.q
           shown == req.answer.detail
           n == detail_n(q)
           Trades(i) == TrueRows(q, closes, picks[i], n)
           S == {i \in Asked(q) : Trades(i) # {}}
<1> SUFFICES ASSUME Answered, Quiet
             PROVE  /\ req.answer.total = Cardinality(S)
                    /\ Len(shown) = Min({q.limit, Cardinality(S)})
                    /\ \E at \in [DOMAIN shown -> S] :
                          /\ \A j, k \in DOMAIN shown : at[j] = at[k] => j = k
                          /\ \A k \in DOMAIN shown : shown[k] \in Trades(at[k])
                          /\ \A k \in DOMAIN shown, i \in S : \A row \in Trades(i) :
                                (\A j \in 1 .. k : at[j] # i) =>
                                    Ahead(q, shown[k], at[k], row, i)
  BY DEF DetailIsTheBest
<1>1. Cardinality(tables) <= 2 /\ tables = {closes}
  BY OneTable
<1>2. PICK on \in [Asked(q) -> tables] : DetailListed(q, on, n, req.answer.total, shown)
  BY <1>1, GivenDetail
<1>3. \A i \in Asked(q) : on[i] = closes
  BY <1>1, <1>2
<1>4. Settled1(q, on, n) = S
  BY <1>3 DEF Settled1
<1> HIDE DEF q, shown, n, S
<1>5. /\ Cardinality(S) = req.answer.total
      /\ DOMAIN shown = 1 .. Len(shown)
      /\ Len(shown) = Min({q.limit, req.answer.total})
  BY <1>2, <1>4 DEF DetailListed
<1>6. PICK at \in [DOMAIN shown -> S] :
          /\ \A j, k \in DOMAIN shown : at[j] = at[k] => j = k
          /\ \A k \in DOMAIN shown : TrueRows(q, on[at[k]], picks[at[k]], n) = {shown[k]}
          /\ \A k \in DOMAIN shown, i \in S :
                (\A j \in 1 .. k : at[j] # i) =>
                   \A row \in TrueRows(q, on[i], picks[i], n) :
                      Ahead(q, shown[k], at[k], row, i)
  BY <1>2, <1>4, <1>5 DEF DetailListed
<1>7. \A i \in S : i \in Asked(q) /\ on[i] = closes
  BY <1>3 DEF S
<1>8. \A k \in DOMAIN shown : shown[k] \in Trades(at[k])
  BY <1>6, <1>7
<1>9. \A k \in DOMAIN shown, i \in S : \A row \in Trades(i) :
         (\A j \in 1 .. k : at[j] # i) => Ahead(q, shown[k], at[k], row, i)
  BY <1>6, <1>7
<1> HIDE DEF Trades
<1> QED BY <1>5, <1>6, <1>8, <1>9

(* The detail really is the best of all trades: the stable sort over the   *)
(* whole list, then the cut (list.sort and the slice in _compute), and the *)
(* total counts every trade, for any number of trades and any limit.       *)
THEOREM DetailIsBest == Spec => []DetailIsTheBest
<1>1. Facts
  BY QuestionAssumption, StoredAssumption DEF Facts
<1>2. Spec => []IInv
  BY <1>1, IInvHolds
<1>3. IInv => DetailIsTheBest
  BY <1>1, DetailBest
<1> QED BY <1>2, <1>3, PTL

(* The invariant lets one upload invent nothing.                           *)
LEMMA NothingInvented ==
    ASSUME Facts, IInv
    PROVE  OneUploadInventsNothing
<1> DEFINE q == req.q
           shown == req.answer.detail
           n == detail_n(q)
           Trades(table, i) == TrueRows(q, table, picks[i], n)
<1> SUFFICES ASSUME Answered, Cardinality(tables) <= 2, req.answer.total <= q.limit
             PROVE  \E at \in [DOMAIN shown -> Asked(q)] :
                       /\ \A j, k \in DOMAIN shown : at[j] = at[k] => j = k
                       /\ \A k \in DOMAIN shown : \E table \in tables :
                             shown[k] \in Trades(table, at[k])
                       /\ \A i \in Asked(q) : (\A k \in DOMAIN shown : at[k] # i) =>
                             \E table \in tables : Trades(table, i) = {}
  BY DEF OneUploadInventsNothing
<1>1. PICK on \in [Asked(q) -> tables] : DetailListed(q, on, n, req.answer.total, shown)
  BY GivenDetail
<1> DEFINE S == Settled1(q, on, n)
<1>2. q.limit \in Nat
  BY AnswerGiven, HorizonsOf DEF Question
<1> HIDE DEF q, shown, n, S
<1>3. /\ IsFiniteSet(S) /\ Cardinality(S) = req.answer.total
      /\ Len(shown) \in Nat /\ DOMAIN shown = 1 .. Len(shown)
      /\ Len(shown) = Min({q.limit, req.answer.total})
  BY <1>1 DEF DetailListed, S
<1>4. PICK at \in [1 .. Len(shown) -> S] :
          /\ \A j, k \in 1 .. Len(shown) : at[j] = at[k] => j = k
          /\ \A k \in 1 .. Len(shown) : TrueRows(q, on[at[k]], picks[at[k]], n) = {shown[k]}
  BY <1>1 DEF DetailListed, S
<1>5. \A i : i \in S <=> i \in Asked(q) /\ TrueRows(q, on[i], picks[i], n) # {}
  BY DEF S, Settled1
<1>6. Len(shown) = Cardinality(S)
  <2>1. req.answer.total \in Nat /\ req.answer.total <= q.limit
    BY <1>3, FS_CardinalityType DEF q
  <2> QED BY <1>2, <1>3, <2>1, LeastOfTwo
<1>7. \A i \in S : \E k \in 1 .. Len(shown) : at[k] = i
  <2>1. IsFiniteSet(1 .. Len(shown)) /\ Cardinality(1 .. Len(shown)) = Cardinality(S)
    BY <1>3, <1>6, UpToSize
  <2>2. at \in Injection(1 .. Len(shown), S)
    BY <1>4 DEF Injection, IsInjective
  <2>3. at \in Surjection(1 .. Len(shown), S)
    BY <1>3, <2>1, <2>2, FS_Injection
  <2> QED BY <2>3 DEF Surjection
<1>8. at \in [DOMAIN shown -> Asked(q)]
  BY <1>3, <1>4, <1>5
<1>9. \A k \in DOMAIN shown : \E table \in tables : shown[k] \in Trades(table, at[k])
  <2> TAKE k \in DOMAIN shown
  <2>1. at[k] \in Asked(q) /\ on[at[k]] \in tables
    BY <1>1, <1>8
  <2>2. shown[k] \in Trades(on[at[k]], at[k])
    BY <1>3, <1>4
  <2> QED BY <2>1, <2>2
<1>10. \A i \in Asked(q) : (\A k \in DOMAIN shown : at[k] # i) =>
          \E table \in tables : Trades(table, i) = {}
  <2> SUFFICES ASSUME NEW i \in Asked(q), \A k \in DOMAIN shown : at[k] # i
               PROVE  \E table \in tables : Trades(table, i) = {}
    OBVIOUS
  <2>1. i \notin S
    BY <1>3, <1>7
  <2>2. on[i] \in tables /\ Trades(on[i], i) = {}
    BY <1>1, <1>5, <2>1
  <2> QED BY <2>2
<1> HIDE DEF Trades
<1> QED BY <1>3, <1>4, <1>8, <1>9, <1>10

(* A price upload that commits between the statements of a request (its    *)
(* calendar and its closes are read separately) never makes it show a      *)
(* trade that was true neither before nor after that upload, nor leave out *)
(* one that was true before and after.                                     *)
THEOREM OneUploadIsHarmless == Spec => []OneUploadInventsNothing
<1>1. Facts
  BY QuestionAssumption, StoredAssumption DEF Facts
<1>2. Spec => []IInv
  BY <1>1, IInvHolds
<1>3. IInv => OneUploadInventsNothing
  BY <1>1, NothingInvented
<1> QED BY <1>2, <1>3, PTL

(* The last day of the entries that were read.                             *)
LEMMA LastDay ==
    ASSUME Facts, picks \in Screenings, NEW q \in Questions, NEW r,
           r.entries = Listed(q), Asked(q) # {}
    PROVE  /\ last_entry_day(r) \in Int
           /\ \E l \in Asked(q) : last_entry_day(r) = picks[l].day
           /\ \A i \in Asked(q) : picks[i] \in Entry /\ picks[i].day \in Int
                                   /\ picks[i].day <= last_entry_day(r)
<1> DEFINE D == {e.day : e \in ToSet(r.entries)}
<1>1. q \in Question /\ Days \subseteq Int /\ IsFiniteSet(Days)
  BY DEF Facts, QuestionAssumption
<1>2. Listed(q) \in Seq(Entry)
  BY <1>1, EntriesListed
<1>3. PICK at : EntriesAt(Listed(q), q, at)
  BY <1>1, EntriesListed
<1>4. /\ at \in [1 .. Len(Listed(q)) -> Asked(q)]
      /\ \A i \in Asked(q) : \E k \in 1 .. Len(Listed(q)) : at[k] = i
      /\ \A k \in 1 .. Len(Listed(q)) : Listed(q)[k] = picks[at[k]]
  BY <1>3 DEF EntriesAt
<1>5. ToSet(r.entries) = {Listed(q)[k] : k \in 1 .. Len(Listed(q))}
  BY <1>2 DEF ToSet
<1>6. \A e : e \in ToSet(r.entries) <=> \E i \in Asked(q) : e = picks[i]
  BY <1>4, <1>5
<1>7. \A e \in ToSet(r.entries) : e \in Entry
  BY <1>2, <1>5
<1>8. \A i \in Asked(q) : picks[i] \in Entry /\ picks[i].day \in Days /\ picks[i].day \in D
  <2> TAKE i \in Asked(q)
  <2>1. picks[i] \in ToSet(r.entries) /\ picks[i] \in Entry
    BY <1>6, <1>7
  <2> QED BY <2>1 DEF Entry
<1>9. \A d \in D : \E i \in Asked(q) : d = picks[i].day
  BY <1>6
<1> HIDE DEF D
<1>10. D \in SUBSET Int /\ D # {} /\ IsFiniteSet(D)
  <2>1. D \in SUBSET Days
    BY <1>8, <1>9
  <2> QED BY <1>1, <1>8, <2>1, FS_Subset
<1>11. Max(D) \in D /\ \A y \in D : y <= Max(D)
  BY <1>10, GreatestIsMax
<1>12. last_entry_day(r) = Max(D)
  BY DEF last_entry_day, D
<1> QED BY <1>8, <1>9, <1>10, <1>11, <1>12

(* No horizon misses more than the worst.                                  *)
LEMMA WorstMissing ==
    ASSUME NEW H, IsFiniteSet(H), H # {}, NEW counted \in [H -> Counted1]
    PROVE  LET worst == Max({counted[n].missing : n \in H}) IN
           worst \in Nat /\ \A n \in H : counted[n].missing <= worst
<1> DEFINE M == {counted[n].missing : n \in H}
           f == [n \in H |-> counted[n].missing]
<1>1. f \in Surjection(H, M)
  BY DEF Surjection
<1>2. \A n \in H : counted[n].missing \in Nat
  BY DEF Counted1
<1>3. M \in SUBSET Int /\ M # {} /\ \A x \in M : x \in Nat
  BY <1>2
<1>4. IsFiniteSet(M)
  <2> HIDE DEF f, M
  <2> QED BY <1>1, FS_Surjection
<1>5. \A n \in H : counted[n].missing \in M
  OBVIOUS
<1> HIDE DEF M
<1>6. Max(M) \in M /\ \A y \in M : y <= Max(M)
  BY <1>3, <1>4, GreatestIsMax
<1>7. Max(M) \in Nat /\ \A n \in H : counted[n].missing <= Max(M)
  BY <1>3, <1>5, <1>6
<1> QED BY <1>7 DEF M

(* When an entry has no exit at some N >= 1, a later one has none at a     *)
(* larger N.                                                               *)
LEMMA LatestExit ==
    ASSUME Facts, NEW S \in SUBSET Int, IsFiniteSet(S), NEW early \in Int, NEW late \in Int,
           early <= late, NEW n \in Nat, NEW m \in Nat, 0 < n, n <= m,
           nth_trading_day(Ascending(S), early, n) = None
    PROVE  nth_trading_day(Ascending(S), late, m) = None
<1>1. None \notin Int
  BY DEF Facts, QuestionAssumption
<1>2. Cardinality(UpTo(S, early)) + n > Cardinality(S)
  BY <1>1, NthTradingDay
<1>3. Cardinality(UpTo(S, early)) <= Cardinality(UpTo(S, late))
  <2>1. UpTo(S, early) \in SUBSET UpTo(S, late)
    <3>1. \A y \in S : y \in Int /\ (y <= early => y <= late)
      OBVIOUS
    <3> QED BY <3>1 DEF UpTo
  <2>2. IsFiniteSet(UpTo(S, late))
    BY Counts
  <2> QED BY <2>1, <2>2, FS_Subset
<1>4. /\ Cardinality(UpTo(S, early)) \in Nat /\ Cardinality(UpTo(S, late)) \in Nat
      /\ Cardinality(S) \in Nat
  BY Counts
<1>5. Cardinality(UpTo(S, late)) + m > Cardinality(S) /\ m > 0
  BY <1>2, <1>3, <1>4
<1> QED BY <1>1, <1>5, NthTradingDay

(* The invariant makes the warning of an undisturbed answer honest.        *)
LEMMA HonestWarnings ==
    ASSUME Facts, IInv
    PROVE  WarningsAreHonest
<1> DEFINE q == req.q
           warning == req.answer.warning
<1> SUFFICES ASSUME Answered, Quiet, Asked(q) # {}, OpenDays(closes) # {}
             PROVE  /\ warning = "pending" <=>
                          IF q.horizons = {0} THEN LatestDayMissing(q) ELSE Waits(q)
                    /\ warning = None => \A n \in q.horizons :
                          5 * req.answer.summary[n].missing < Cardinality(Asked(q))
                             \/ req.answer.summary[n].missing = 0
  BY DEF WarningsAreHonest
<1>1. /\ q \in Questions /\ normalize_horizons(q) /\ RightAnswer(q, req.answer)
      /\ picks \in Screenings /\ tables = {closes}
  BY AnswerGiven, OneTable DEF Stored
<1>2. /\ q \in Question /\ q.horizons \in SUBSET Nat /\ IsFiniteSet(q.horizons)
      /\ q.horizons # {}
  BY <1>1, HorizonsOf
<1>3. /\ Listed(q) \in Seq(Entry) /\ IsFiniteSet(Asked(q))
      /\ Cardinality(Asked(q)) = Len(Listed(q))
  BY <1>1, <1>2, EntriesListed
<1>4. Listed(q) # <<>>
  BY <1>3, FS_EmptySet
<1>5. PICK r : ReadOf(q, r) /\ req.answer = FullAnswer(r)
  <2>1. \A T \in tables : OpenDays(T) # {}
    BY <1>1
  <2> QED BY <1>1, <1>4, <2>1 DEF RightAnswer
<1> HIDE DEF q
<1>6. Readable(r) /\ r.q = q /\ r.entries = Listed(q)
      /\ r.calendar = list_price_trading_days(closes)
  BY <1>1, <1>5, ReadIsReadable DEF ReadOf
<1> DEFINE S == OpenDays(closes)
           last == last_entry_day(r)
           longest == Max(q.horizons)
           counted == Counted(r)
           worst == Max({counted[n].missing : n \in q.horizons})
           late == nth_trading_day(Ascending(S), last, longest) = None
<1>7. S \in SUBSET Int /\ IsFiniteSet(S) /\ r.calendar = Ascending(S)
  BY <1>6, OpenDaysTyped
<1>8. /\ last \in Int
      /\ \E l \in Asked(q) : last = picks[l].day
      /\ \A i \in Asked(q) : picks[i].day \in Int /\ picks[i].day <= last
  BY <1>1, <1>6, LastDay
<1>9. longest \in q.horizons /\ longest \in Nat /\ \A n \in q.horizons : n \in Nat /\ n <= longest
  <2>1. q.horizons \in SUBSET Int
    BY <1>2
  <2> QED BY <1>2, <2>1, GreatestIsMax
<1>10. counted \in [q.horizons -> Counted1]
  BY <1>6, CountedRight DEF Accs
<1> HIDE DEF counted
<1>11. worst \in Nat /\ \A n \in q.horizons : counted[n].missing <= worst
  BY <1>2, <1>10, WorstMissing
<1>12. warning = IF late THEN "pending"
                 ELSE IF worst > 0 /\ worst * 5 >= Len(Listed(q)) THEN "missing" ELSE None
  <2>1. warning = coverage_warning(r, Counted(r))
    BY <1>5 DEF FullAnswer
  <2> QED BY <1>6, <1>7, <2>1 DEF coverage_warning, counted
<1>13. \A n \in q.horizons : req.answer.summary[n].missing = counted[n].missing
  BY <1>5, <1>6 DEF FullAnswer, Summarize, counted
<1>14. None \notin {"pending", "missing"}
  BY DEF Facts, QuestionAssumption
<1>15. \A i \in Asked(q), n \in q.horizons :
          NoExit(i, n) <=>
             nth_trading_day(Ascending(S), picks[i].day, n) = None
  <2> TAKE i \in Asked(q), n \in q.horizons
  <2>1. TrueExits(closes, picks[i], n) =
           IF ExitDay(r, picks[i], n) = None THEN {} ELSE {ExitDay(r, picks[i], n)}
    BY <1>1, <1>5, <1>6, ExitIsTrue
  <2> QED BY <1>7, <2>1 DEF ExitDay, NoExit
<1> HIDE DEF last, longest, worst, S, warning
<1>16. Waits(q) => late
  <2> SUFFICES ASSUME NEW n \in q.horizons \ {0}, NEW i \in Asked(q), NoExit(i, n)
               PROVE  late
    BY DEF Waits
  <2>1. n \in Nat /\ 0 < n /\ n <= longest
    BY <1>9
  <2>2. nth_trading_day(Ascending(S), picks[i].day, n) = None
    BY <1>15
  <2> QED BY <1>7, <1>8, <1>9, <2>1, <2>2, LatestExit
<1>17. PICK l \in Asked(q) : last = picks[l].day
  BY <1>8
<1>l. late <=> NoExit(l, longest)
  BY <1>9, <1>15, <1>17
<1>n. late /\ q.horizons # {0} => Waits(q)
  <2> SUFFICES ASSUME late, q.horizons # {0} PROVE Waits(q)
    OBVIOUS
  <2>1. PICK n \in q.horizons : n # 0
    BY <1>2
  <2>2. longest \in q.horizons \ {0}
    BY <1>9, <2>1
  <2> QED BY <1>l, <2>2 DEF Waits
<1>z. q.horizons = {0} => (late <=> LatestDayMissing(q))
  <2> SUFFICES ASSUME q.horizons = {0} PROVE late <=> LatestDayMissing(q)
    OBVIOUS
  <2>1. longest = 0
    BY <1>9
  <2>2. late => LatestDayMissing(q)
    BY <1>8, <1>17, <1>l, <2>1 DEF LatestDayMissing
  <2>3. ASSUME NEW i \in Asked(q), NoExit(i, 0),
               \A j \in Asked(q) : picks[j].day <= picks[i].day
        PROVE  late
    <3>1. picks[i].day = last
      BY <1>8, <1>17, <2>3
    <3> QED BY <1>15, <2>1, <2>3, <3>1
  <2> QED BY <2>2, <2>3 DEF LatestDayMissing
<1>18. warning = None => \A n \in q.horizons :
          5 * counted[n].missing < Len(Listed(q)) \/ counted[n].missing = 0
  <2> SUFFICES ASSUME warning = None, NEW n \in q.horizons
               PROVE  5 * counted[n].missing < Len(Listed(q)) \/ counted[n].missing = 0
    OBVIOUS
  <2>1. ~(worst > 0 /\ worst * 5 >= Len(Listed(q)))
    BY <1>12, <1>14
  <2>2. counted[n].missing \in Nat /\ counted[n].missing <= worst /\ Len(Listed(q)) \in Nat
    BY <1>3, <1>10, <1>11 DEF Counted1
  <2> QED BY <1>11, <2>1, <2>2
<1>19. warning = "pending" <=> late
  BY <1>12, <1>14
<1>20. warning = "pending" <=> IF q.horizons = {0} THEN LatestDayMissing(q) ELSE Waits(q)
  BY <1>16, <1>19, <1>n, <1>z
<1> QED BY <1>3, <1>13, <1>18, <1>20

(* The warning of an undisturbed answer (_coverage_warning), for every     *)
(* question and every table: "pending" exactly when the N >= 1 days of     *)
(* some trade have not all happened, although only the latest entry and    *)
(* the longest horizon are looked at, and for N = 0 alone exactly when the *)
(* latest entry day has no prices.  No warning only when less than a fifth *)
(* of the entries is missing at each horizon.                              *)
THEOREM WarningsHonest == Spec => []WarningsAreHonest
<1>1. Facts
  BY QuestionAssumption, StoredAssumption DEF Facts
<1>2. Spec => []IInv
  BY <1>1, IInvHolds
<1>3. IInv => WarningsAreHonest
  BY <1>1, HonestWarnings
<1> QED BY <1>2, <1>3, PTL

=============================================================================
