---------------------------- MODULE PricesProofs ----------------------------
(***************************************************************************)
(* Proofs about Prices.  First the closed form of the loop and of the      *)
(* flush it leads to, by induction over the items of the body; then the    *)
(* inductive invariant of the transactions, and from both the properties.  *)
(***************************************************************************)
EXTENDS Prices, Induction

Day == [Symbols -> Row \cup {None}]
Acc == [rows : Day, added : Seq(Statement), updated : Nat]
Facts == SymbolsAssumption /\ BodiesAssumption /\ NoneAssumption

(* The sequence q lists the values of v at the members of I, each once.    *)
Lists(q, I, v) ==
    \E pos \in [1 .. Len(q) -> I] :
        /\ \A k, l \in 1 .. Len(q) : pos[k] = pos[l] => k = l
        /\ \A i \in I : \E k \in 1 .. Len(q) : pos[k] = i
        /\ \A k \in 1 .. Len(q) : q[k] = v[pos[k]]

(* What the first n items of a body make of the row of a symbol.           *)
QuotesTo(b, n, s) == {i \in 1 .. n : b[i].symbol = s /\ b[i].close # None}
NamedTo(b, n, s) == {i \in QuotesTo(b, n, s) : b[i].name # Blank}
AfterTo(b, n, s, old) ==
    IF QuotesTo(b, n, s) = {} THEN old
    ELSE [name   |-> IF NamedTo(b, n, s) # {} THEN LastOf(b, NamedTo(b, n, s)).name
                     ELSE old.name,
          close  |-> LastOf(b, QuotesTo(b, n, s)).close,
          volume |-> LastOf(b, QuotesTo(b, n, s)).volume]
NewTo(e, b, n) == {i \in 1 .. n : b[i].close # None /\ e[b[i].symbol] = None}
OldTo(e, b, n) == {i \in 1 .. n : b[i].close # None /\ e[b[i].symbol] # None}
Inserts(b) == [i \in 1 .. Len(b) |-> Insert(b[i])]

(* The accumulator of the loop after n items.                              *)
Taken(e, b, n, a) ==
    /\ a \in Acc
    /\ \A s \in Symbols : /\ e[s] = None <=> a.rows[s] = None
                          /\ e[s] # None => a.rows[s] = AfterTo(b, n, s, e[s])
    /\ Lists(a.added, NewTo(e, b, n), Inserts(b))
    /\ a.updated = Cardinality(OldTo(e, b, n))

(* The empty sequence lists nothing, and a list grows by one value.        *)
LEMMA ListsNothing ==
    ASSUME NEW v PROVE Lists(<<>>, {}, v)
<1> [k \in 1 .. Len(<<>>) |-> {}] \in [1 .. Len(<<>>) -> {}]
  OBVIOUS
<1> QED BY DEF Lists

(* Appending the element of one more index lists one index more.           *)
LEMMA ListsOneMore ==
    ASSUME NEW S, NEW q \in Seq(S), NEW I, NEW v, NEW i, i \notin I, Lists(q, I, v),
           v[i] \in S
    PROVE  Lists(Append(q, v[i]), I \cup {i}, v)
<1>1. PICK pos \in [1 .. Len(q) -> I] :
          /\ \A k, l \in 1 .. Len(q) : pos[k] = pos[l] => k = l
          /\ \A j \in I : \E k \in 1 .. Len(q) : pos[k] = j
          /\ \A k \in 1 .. Len(q) : q[k] = v[pos[k]]
  BY DEF Lists
<1> DEFINE qq == Append(q, v[i])
           n == Len(q)
           pp == [k \in 1 .. n + 1 |-> IF k = n + 1 THEN i ELSE pos[k]]
<1>2. n \in Nat /\ Len(qq) = n + 1 /\ qq[n + 1] = v[i]
      /\ \A k \in 1 .. n : qq[k] = q[k]
  OBVIOUS
<1> HIDE DEF qq, n
<1>3. \A k \in 1 .. n + 1 : k # n + 1 => k \in 1 .. n
  BY <1>2
<1>4. \A k \in 1 .. n : pos[k] \in I
  BY <1>1 DEF n
<1>5. pp \in [1 .. n + 1 -> I \cup {i}]
  BY <1>3, <1>4
<1>6. \A k, l \in 1 .. n + 1 : pp[k] = pp[l] => k = l
  BY <1>1, <1>3, <1>4 DEF n
<1>7. \A j \in I \cup {i} : \E k \in 1 .. n + 1 : pp[k] = j
  <2>1. n + 1 \in 1 .. n + 1 /\ pp[n + 1] = i
    BY <1>2
  <2>2. ASSUME NEW j \in I PROVE \E k \in 1 .. n + 1 : pp[k] = j
    <3>1. PICK k \in 1 .. n : pos[k] = j
      BY <1>1 DEF n
    <3>2. k \in 1 .. n + 1 /\ k # n + 1
      BY <1>2
    <3> QED BY <3>1, <3>2
  <2> QED BY <2>1, <2>2
<1>8. \A k \in 1 .. n + 1 : qq[k] = v[pp[k]]
  BY <1>1, <1>2, <1>3 DEF n
<1> HIDE DEF pp
<1>9. Lists(qq, I \cup {i}, v)
  BY <1>2, <1>5, <1>6, <1>7, <1>8 DEF Lists
<1> QED BY <1>9 DEF qq

(* The fold of the loop goes through the body item by item.                *)
LEMMA TakeTyped ==
    ASSUME Facts, NEW a \in Acc, NEW item \in Item
    PROVE  Take(a, item) \in Acc
<1>1. CASE item.close = None
  BY <1>1 DEF Take
<1>2. CASE item.close # None /\ a.rows[item.symbol] = None
  <2>1. item.symbol \in Symbols /\ item.close \in Closes
        /\ item.name \in Names \cup {Blank} /\ item.volume \in Volumes \cup {None}
    BY <1>2 DEF Item
  <2>2. Written(NewRow, item) \in Row
    BY <2>1 DEF Written, NewRow, Row
  <2>3. Insert(item) \in Statement
    BY <2>1, <2>2 DEF Insert, Statement
  <2>4. Append(a.added, Insert(item)) \in Seq(Statement)
    BY <2>3 DEF Acc
  <2> QED BY <1>2, <2>4 DEF Take, Adds, Acc
<1>3. CASE item.close # None /\ a.rows[item.symbol] # None
  <2>1. item.symbol \in Symbols /\ item.close \in Closes
        /\ item.name \in Names \cup {Blank} /\ item.volume \in Volumes \cup {None}
    BY <1>3 DEF Item
  <2>2. a.rows \in Day /\ a.rows[item.symbol] \in Row /\ a.updated \in Nat
    BY <1>3, <2>1 DEF Acc, Day
  <2>3. Written(a.rows[item.symbol], item) \in Row
    BY <2>1, <2>2 DEF Written, Row
  <2>4. [a.rows EXCEPT ![item.symbol] = Written(a.rows[item.symbol], item)] \in Day
    BY <2>2, <2>3 DEF Day
  <2>5. Take(a, item) = [rows |-> [a.rows EXCEPT ![item.symbol] =
                                       Written(a.rows[item.symbol], item)],
                         added |-> a.added, updated |-> a.updated + 1]
    BY <1>3, <2>2 DEF Take, Sets, Acc
  <2>6. a.added \in Seq(Statement) /\ a.updated + 1 \in Nat
    BY DEF Acc
  <2> QED BY <2>4, <2>5, <2>6 DEF Acc
<1> QED BY <1>1, <1>2, <1>3

(* The loop starts with an accumulator.                                    *)
LEMMA StartTyped ==
    ASSUME NEW e \in Day PROVE Start(e) \in Acc
<1> QED BY DEF Start, Acc

(* The loop is an iteration over the body.                                 *)
LEMMA LoopFolds ==
    ASSUME Facts, NEW b \in Seq(Item), NEW e \in Day
    PROVE  \E F : /\ F[0] = Start(e) /\ Loop(e, b) = F[Len(b)]
                  /\ \A i \in 1 .. Len(b) : F[i] = Take(F[i - 1], b[i])
<1> DEFINE n == Len(b)
           step == [i \in 1 .. n |-> [a \in Acc |-> Take(a, b[i])]]
<1>1. n \in Nat /\ DOMAIN b = 1 .. n /\ \A i \in 1 .. n : b[i] \in Item
  OBVIOUS
<1> HIDE DEF n
<1>2. \A i \in 1 .. n : \A a \in Acc : step[i][a] = Take(a, b[i]) /\ step[i][a] \in Acc
  BY <1>1, TakeTyped
<1>3. Start(e) \in Acc
  BY StartTyped
<1>4. PICK g : Iterates(g, n, Acc, Start(e), step)
  <2>1. \A i \in 1 .. n : \A a \in Acc : step[i][a] \in Acc
    BY <1>2
  <2> HIDE DEF step
  <2> QED BY <1>1, <1>3, <2>1, FoldExists
<1> HIDE DEF step
<1>5. \A s \in SUBSET (1 .. n) : s # {} => Max(s) \in 1 .. n
  <2> SUFFICES ASSUME NEW s \in SUBSET (1 .. n), s # {} PROVE Max(s) \in 1 .. n
    OBVIOUS
  <2>1. s \in SUBSET Int /\ IsFiniteSet(1 .. n)
    BY <1>1, FS_Interval
  <2>2. IsFiniteSet(s)
    BY <2>1, FS_Subset
  <2> QED BY <2>1, <2>2, GreatestIsMax
<1>6. \A s \in SUBSET (1 .. n) :
          g[s] = IF s = {} THEN Start(e) ELSE Take(g[s \ {Max(s)}], b[Max(s)])
  <2> SUFFICES ASSUME NEW s \in SUBSET (1 .. n), s # {}
               PROVE  g[s] = Take(g[s \ {Max(s)}], b[Max(s)])
    BY <1>4 DEF Iterates
  <2>1. g[s \ {Max(s)}] \in Acc
    BY <1>4 DEF Iterates
  <2> QED BY <1>2, <1>4, <1>5, <2>1 DEF Iterates
<1>7. g = [s \in SUBSET DOMAIN b |->
             IF s = {} THEN Start(e) ELSE Take(g[s \ {Max(s)}], b[Max(s)])]
  BY <1>1, <1>4, <1>6 DEF Iterates
<1> DEFINE it == CHOOSE it : it = [s \in SUBSET DOMAIN b |->
                    IF s = {} THEN Start(e) ELSE Take(it[s \ {Max(s)}], b[Max(s)])]
<1>8. Loop(e, b) = it[DOMAIN b]
  BY DEF Loop, FoldLeft, MapThenFoldSet
<1>9. it = [s \in SUBSET DOMAIN b |->
              IF s = {} THEN Start(e) ELSE Take(it[s \ {Max(s)}], b[Max(s)])]
  BY <1>7
<1> HIDE DEF it
<1> DEFINE F == [i \in 0 .. n |-> it[1 .. i]]
<1>10. F[0] = Start(e)
  BY <1>1, <1>9
<1>11. \A i \in 1 .. n : F[i] = Take(F[i - 1], b[i])
  <2> SUFFICES ASSUME NEW i \in 1 .. n PROVE F[i] = Take(F[i - 1], b[i])
    OBVIOUS
  <2>1. Max(1 .. i) = i /\ (1 .. i) \ {i} = 1 .. (i - 1)
    BY <1>1, GreatestOfInterval
  <2>2. 1 .. i \in SUBSET DOMAIN b /\ 1 .. i # {} /\ i \in 0 .. n /\ i - 1 \in 0 .. n
    BY <1>1
  <2> QED BY <1>9, <2>1, <2>2
<1>12. Loop(e, b) = F[n]
  BY <1>1, <1>8
<1> HIDE DEF F
<1> QED BY <1>10, <1>11, <1>12 DEF n


(* One more item changes what a body makes of a symbol as Written does.    *)
LEMMA LastOfGreatest ==
    ASSUME NEW b, NEW I \in SUBSET Nat, NEW m \in I, \A j \in I : j <= m
    PROVE  LastOf(b, I) = b[m]
<1>1. \A k \in I : (\A j \in I : j <= k) => k = m
  BY \A j \in I : j \in Nat
<1> QED BY <1>1 DEF LastOf

(* The quotes of a symbol in one item more.                                *)
LEMMA QuotesStep ==
    ASSUME NEW b, NEW n \in Nat, NEW s
    PROVE  /\ b[n + 1].symbol = s /\ b[n + 1].close # None =>
                QuotesTo(b, n + 1, s) = QuotesTo(b, n, s) \cup {n + 1}
           /\ ~(b[n + 1].symbol = s /\ b[n + 1].close # None) =>
                QuotesTo(b, n + 1, s) = QuotesTo(b, n, s)
           /\ n + 1 \notin QuotesTo(b, n, s)
           /\ QuotesTo(b, n, s) \in SUBSET (1 .. n)
<1>1. \A i : i \in 1 .. n + 1 <=> i \in 1 .. n \/ i = n + 1
  OBVIOUS
<1>2. n + 1 \notin 1 .. n
  OBVIOUS
<1> QED BY <1>1, <1>2 DEF QuotesTo

(* The row of a symbol after one item more.                                *)
LEMMA AfterStep ==
    ASSUME NEW b, NEW n \in Nat, NEW s, NEW old
    PROVE  AfterTo(b, n + 1, s, old) =
             IF b[n + 1].symbol = s /\ b[n + 1].close # None
             THEN Written(AfterTo(b, n, s, old), b[n + 1]) ELSE AfterTo(b, n, s, old)
<1> DEFINE Q == QuotesTo(b, n, s)
           N == NamedTo(b, n, s)
<1>1. CASE ~(b[n + 1].symbol = s /\ b[n + 1].close # None)
  <2>1. QuotesTo(b, n + 1, s) = Q
    BY <1>1, QuotesStep
  <2>2. NamedTo(b, n + 1, s) = N
    BY <2>1 DEF NamedTo
  <2> QED BY <1>1, <2>1, <2>2 DEF AfterTo
<1>2. CASE b[n + 1].symbol = s /\ b[n + 1].close # None
  <2>1. QuotesTo(b, n + 1, s) = Q \cup {n + 1} /\ Q \in SUBSET (1 .. n)
    BY <1>2, QuotesStep
  <2>2. \A j \in Q : j \in Nat /\ j <= n + 1
    <3>1. \A j \in 1 .. n : j \in Nat /\ j <= n + 1
      OBVIOUS
    <3> QED BY <2>1, <3>1
  <2>3. N \in SUBSET Q
    BY DEF NamedTo
  <2> HIDE DEF Q, N
  <2>4. LastOf(b, Q \cup {n + 1}) = b[n + 1]
    <3>1. Q \cup {n + 1} \in SUBSET Nat /\ n + 1 \in Q \cup {n + 1}
      BY <2>2
    <3>2. \A j \in Q \cup {n + 1} : j <= n + 1
      BY <2>2
    <3> QED BY <3>1, <3>2, LastOfGreatest
  <2>5. NamedTo(b, n + 1, s) = IF b[n + 1].name # Blank THEN N \cup {n + 1} ELSE N
    BY <2>1 DEF NamedTo, N, Q
  <2>6. LastOf(b, N \cup {n + 1}) = b[n + 1]
    <3>1. N \cup {n + 1} \in SUBSET Nat /\ n + 1 \in N \cup {n + 1}
      BY <2>2, <2>3
    <3>2. \A j \in N \cup {n + 1} : j <= n + 1
      BY <2>2, <2>3
    <3> QED BY <3>1, <3>2, LastOfGreatest
  <2>7. AfterTo(b, n + 1, s, old) =
          [name   |-> IF NamedTo(b, n + 1, s) # {} THEN LastOf(b, NamedTo(b, n + 1, s)).name
                      ELSE old.name,
           close  |-> b[n + 1].close, volume |-> b[n + 1].volume]
    BY <2>1, <2>4 DEF AfterTo
  <2>8. CASE b[n + 1].name # Blank
    BY <1>2, <2>5, <2>6, <2>7, <2>8 DEF Written
  <2>9. CASE b[n + 1].name = Blank
    <3>1. AfterTo(b, n, s, old).name = IF N # {} THEN LastOf(b, N).name ELSE old.name
      BY <2>3 DEF AfterTo, N, Q
    <3> QED BY <1>2, <2>5, <2>7, <2>9, <3>1 DEF Written
  <2> QED BY <2>8, <2>9
<1> QED BY <1>1, <1>2

(* The accumulator keeps its closed form, item by item.                    *)
LEMMA TakenStart ==
    ASSUME Facts, NEW b \in Seq(Item), NEW e \in Day
    PROVE  Taken(e, b, 0, Start(e))
<1>1. Start(e) \in Acc
  BY StartTyped
<1>2. 1 .. 0 = {}
  OBVIOUS
<1>3. \A s \in Symbols : QuotesTo(b, 0, s) = {}
  BY <1>2 DEF QuotesTo
<1>4. NewTo(e, b, 0) = {} /\ OldTo(e, b, 0) = {}
  BY <1>2 DEF NewTo, OldTo
<1>5. Lists(<<>>, {}, Inserts(b))
  BY ListsNothing
<1>6. Cardinality({}) = 0
  BY FS_EmptySet
<1> QED BY <1>1, <1>3, <1>4, <1>5, <1>6 DEF Taken, Start, AfterTo

(* The items that insert, and those that update, in one item more.         *)
LEMMA NewOldStep ==
    ASSUME NEW b, NEW e, NEW n \in Nat
    PROVE  /\ NewTo(e, b, n + 1) = IF b[n + 1].close # None /\ e[b[n + 1].symbol] = None
                                   THEN NewTo(e, b, n) \cup {n + 1} ELSE NewTo(e, b, n)
           /\ OldTo(e, b, n + 1) = IF b[n + 1].close # None /\ e[b[n + 1].symbol] # None
                                   THEN OldTo(e, b, n) \cup {n + 1} ELSE OldTo(e, b, n)
           /\ n + 1 \notin NewTo(e, b, n) /\ n + 1 \notin OldTo(e, b, n)
           /\ IsFiniteSet(OldTo(e, b, n))
<1>1. \A i : i \in 1 .. n + 1 <=> i \in 1 .. n \/ i = n + 1
  OBVIOUS
<1>2. n + 1 \notin 1 .. n
  OBVIOUS
<1>3. IsFiniteSet(1 .. n) /\ OldTo(e, b, n) \in SUBSET (1 .. n)
  BY FS_Interval DEF OldTo
<1>4. IsFiniteSet(OldTo(e, b, n))
  BY <1>3, FS_Subset
<1> QED BY <1>1, <1>2, <1>4 DEF NewTo, OldTo

(* One turn of the loop takes one item more.                               *)
LEMMA TakenStep ==
    ASSUME Facts, NEW b \in Seq(Item), NEW e \in Day, NEW n \in Nat, n + 1 <= Len(b),
           NEW a, Taken(e, b, n, a)
    PROVE  Taken(e, b, n + 1, Take(a, b[n + 1]))
<1> DEFINE item == b[n + 1]
<1>1. item \in Item /\ a \in Acc /\ n + 1 \in 1 .. Len(b)
  <2>1. n + 1 \in 1 .. Len(b)
    OBVIOUS
  <2> QED BY <2>1 DEF Taken
<1>2. item.symbol \in Symbols
  BY <1>1 DEF Item
<1>3. Take(a, item) \in Acc
  BY <1>1, TakeTyped
<1>4. a.rows \in Day /\ a.added \in Seq(Statement) /\ a.updated \in Nat
  BY <1>1 DEF Acc
<1>5. \A s \in Symbols : item.close = None \/ item.symbol # s =>
          AfterTo(b, n + 1, s, e[s]) = AfterTo(b, n, s, e[s])
  BY AfterStep
<1>6. CASE item.close = None
  <2>1. Take(a, item) = a
    BY <1>6 DEF Take
  <2>2. NewTo(e, b, n + 1) = NewTo(e, b, n) /\ OldTo(e, b, n + 1) = OldTo(e, b, n)
    BY <1>6, NewOldStep
  <2> QED BY <1>5, <1>6, <2>1, <2>2 DEF Taken
<1>7. CASE item.close # None /\ a.rows[item.symbol] = None
  <2>1. e[item.symbol] = None
    BY <1>2, <1>7 DEF Taken
  <2>2. Take(a, item) = [rows |-> a.rows, added |-> Append(a.added, Insert(item)),
                         updated |-> a.updated]
    BY <1>1, <1>7 DEF Take, Adds, Acc
  <2>3. NewTo(e, b, n + 1) = NewTo(e, b, n) \cup {n + 1} /\ n + 1 \notin NewTo(e, b, n)
        /\ OldTo(e, b, n + 1) = OldTo(e, b, n)
    BY <1>7, <2>1, NewOldStep
  <2>4. Insert(item) \in Statement
    <3>1. Written(NewRow, item) \in Row
      BY <1>1, <1>7 DEF Item, Written, NewRow, Row
    <3> QED BY <1>2, <3>1 DEF Insert, Statement
  <2>5. Inserts(b)[n + 1] = Insert(item)
    BY <1>1 DEF Inserts
  <2>6. Lists(Append(a.added, Insert(item)), NewTo(e, b, n + 1), Inserts(b))
    <3>1. Lists(a.added, NewTo(e, b, n), Inserts(b))
      BY DEF Taken
    <3>2. Lists(Append(a.added, Inserts(b)[n + 1]), NewTo(e, b, n) \cup {n + 1}, Inserts(b))
      <4>1. Inserts(b)[n + 1] \in Statement
        BY <2>4, <2>5
      <4>2. a.added \in Seq(Statement) /\ n + 1 \notin NewTo(e, b, n)
        BY <1>4, <2>3
      <4> HIDE DEF item
      <4> QED BY <3>1, <4>1, <4>2, ListsOneMore
    <3> QED BY <2>3, <2>5, <3>2
  <2>7. \A s \in Symbols : e[s] # None => item.symbol # s
    BY <2>1
  <2>8. \A s \in Symbols : /\ e[s] = None <=> a.rows[s] = None
                           /\ e[s] # None => a.rows[s] = AfterTo(b, n + 1, s, e[s])
    BY <1>5, <2>7 DEF Taken
  <2>9. a.updated = Cardinality(OldTo(e, b, n + 1))
    BY <2>3 DEF Taken
  <2> DEFINE r == Take(a, item)
  <2>10. r \in Acc /\ r.rows = a.rows /\ r.added = Append(a.added, Insert(item))
         /\ r.updated = a.updated
    BY <1>3, <2>2
  <2> HIDE DEF r
  <2> QED BY <2>6, <2>8, <2>9, <2>10 DEF Taken, r
<1>8. CASE item.close # None /\ a.rows[item.symbol] # None
  <2> DEFINE w == Written(a.rows[item.symbol], item)
  <2>1. e[item.symbol] # None
        /\ a.rows[item.symbol] = AfterTo(b, n, item.symbol, e[item.symbol])
    BY <1>2, <1>8 DEF Taken
  <2>2. Take(a, item) = [rows |-> [a.rows EXCEPT ![item.symbol] = w],
                         added |-> a.added, updated |-> a.updated + 1]
    BY <1>1, <1>2, <1>8 DEF Take, Sets, Acc
  <2>3. NewTo(e, b, n + 1) = NewTo(e, b, n) /\ n + 1 \notin OldTo(e, b, n)
        /\ OldTo(e, b, n + 1) = OldTo(e, b, n) \cup {n + 1} /\ IsFiniteSet(OldTo(e, b, n))
    BY <1>8, <2>1, NewOldStep
  <2>4. w \in Row
    <3>1. a.rows[item.symbol] \in Row
      BY <1>2, <1>4, <1>8 DEF Day
    <3> QED BY <1>1, <1>8, <3>1 DEF Item, Written, Row
  <2>5. w = AfterTo(b, n + 1, item.symbol, e[item.symbol])
    BY <1>8, <2>1, AfterStep
  <2> HIDE DEF w, item
  <2>6. \A s \in Symbols : [a.rows EXCEPT ![item.symbol] = w][s] =
                             IF s = item.symbol THEN w ELSE a.rows[s]
    BY <1>4 DEF Day
  <2>7. w # None
    BY <2>4 DEF Facts, NoneAssumption
  <2>8. \A s \in Symbols :
            /\ e[s] = None <=> [a.rows EXCEPT ![item.symbol] = w][s] = None
            /\ e[s] # None => [a.rows EXCEPT ![item.symbol] = w][s]
                                = AfterTo(b, n + 1, s, e[s])
    <3> SUFFICES ASSUME NEW s \in Symbols
                 PROVE /\ e[s] = None <=> [a.rows EXCEPT ![item.symbol] = w][s] = None
                       /\ e[s] # None => [a.rows EXCEPT ![item.symbol] = w][s]
                                = AfterTo(b, n + 1, s, e[s])
      OBVIOUS
    <3>1. CASE s = item.symbol
      BY <2>1, <2>5, <2>6, <2>7, <3>1
    <3>2. CASE s # item.symbol
      BY <1>5, <2>6, <3>2 DEF Taken
    <3> QED BY <3>1, <3>2
  <2>9. a.updated + 1 = Cardinality(OldTo(e, b, n + 1))
    BY <2>3, FS_AddElement DEF Taken
  <2>10. Lists(a.added, NewTo(e, b, n + 1), Inserts(b))
    BY <2>3 DEF Taken
  <2> DEFINE r == Take(a, item)
  <2>11. r \in Acc /\ r.rows = [a.rows EXCEPT ![item.symbol] = w]
         /\ r.added = a.added /\ r.updated = a.updated + 1
    BY <1>3, <2>2
  <2>12. \A s \in Symbols : /\ e[s] = None <=> r.rows[s] = None
                            /\ e[s] # None => r.rows[s] = AfterTo(b, n + 1, s, e[s])
    BY <2>8, <2>11
  <2> HIDE DEF r
  <2> QED BY <2>9, <2>10, <2>11, <2>12 DEF Taken, r, item
<1> QED BY <1>6, <1>7, <1>8

(* So after the loop the whole body is taken.                              *)
LEMMA LoopTaken ==
    ASSUME Facts, NEW b \in Seq(Item), NEW e \in Day
    PROVE  Taken(e, b, Len(b), Loop(e, b))
<1>1. PICK F : /\ F[0] = Start(e) /\ Loop(e, b) = F[Len(b)]
               /\ \A i \in 1 .. Len(b) : F[i] = Take(F[i - 1], b[i])
  BY LoopFolds
<1> DEFINE T == {n \in Nat : n <= Len(b) => Taken(e, b, n, F[n])}
<1>2. 0 \in T
  BY <1>1, TakenStart
<1>3. ASSUME NEW n \in Nat, n \in T PROVE n + 1 \in T
  <2> SUFFICES ASSUME n + 1 <= Len(b) PROVE Taken(e, b, n + 1, F[n + 1])
    OBVIOUS
  <2>1. n <= Len(b) /\ n + 1 \in 1 .. Len(b) /\ (n + 1) - 1 = n
    OBVIOUS
  <2>2. Taken(e, b, n, F[n]) /\ F[n + 1] = Take(F[n], b[n + 1])
    BY <1>1, <1>3, <2>1
  <2> QED BY <2>2, TakenStep
<1>4. Nat \subseteq T
  <2> HIDE DEF T
  <2> QED BY <1>2, <1>3, NaturalInduction
<1>5. Len(b) \in T
  BY <1>4
<1> QED BY <1>1, <1>5

(* The same for the flush: one UPDATE for each changed row object, in the  *)
(* order of the primary key.                                               *)
AddUpdate(e, rows, acc, s) == IF e[s] = None \/ rows[s] = e[s] THEN acc
                              ELSE Append(acc, Update(e, rows, s))
Changed(e, rows, n) == {i \in 1 .. n : e[PkOrder[i]] # None /\ rows[PkOrder[i]] # e[PkOrder[i]]}
UpdateAt(e, rows) == [i \in 1 .. Len(PkOrder) |-> Update(e, rows, PkOrder[i])]

(* The list of UPDATEs is an iteration over the primary keys.              *)
LEMMA UpdatesFold ==
    ASSUME Facts, NEW e \in Day, NEW rows \in Day,
           \A s \in Symbols : e[s] # None => rows[s] # None
    PROVE  \E F : /\ F[0] = <<>> /\ Updates(e, rows) = F[Len(PkOrder)]
                  /\ \A i \in 1 .. Len(PkOrder) :
                        F[i] = AddUpdate(e, rows, F[i - 1], PkOrder[i])
<1> DEFINE n == Len(PkOrder)
           S == Seq(Statement)
           step == [i \in 1 .. n |-> [a \in S |-> AddUpdate(e, rows, a, PkOrder[i])]]
<1>1. n \in Nat /\ DOMAIN PkOrder = 1 .. n /\ \A i \in 1 .. n : PkOrder[i] \in Symbols
  BY DEF Facts, SymbolsAssumption
<1>2. <<>> \in S
  OBVIOUS
<1>3. \A i \in 1 .. n : \A a \in S : AddUpdate(e, rows, a, PkOrder[i]) \in S
  <2> SUFFICES ASSUME NEW i \in 1 .. n, NEW a \in S
               PROVE  AddUpdate(e, rows, a, PkOrder[i]) \in S
    OBVIOUS
  <2>1. CASE e[PkOrder[i]] = None \/ rows[PkOrder[i]] = e[PkOrder[i]]
    BY <2>1 DEF AddUpdate
  <2>2. CASE e[PkOrder[i]] # None /\ rows[PkOrder[i]] # e[PkOrder[i]]
    <3>1. PkOrder[i] \in Symbols /\ rows[PkOrder[i]] \in Row
      BY <1>1, <2>2 DEF Day
    <3>2. Update(e, rows, PkOrder[i]) \in Statement
      BY <3>1 DEF Update, Statement, Dirty
    <3> QED BY <2>2, <3>2 DEF AddUpdate
  <2> QED BY <2>1, <2>2
<1> HIDE DEF n, S
<1>4. \A i \in 1 .. n : \A a \in S : step[i][a] = AddUpdate(e, rows, a, PkOrder[i])
  OBVIOUS
<1>5. PICK g : Iterates(g, n, S, <<>>, step)
  <2>1. \A i \in 1 .. n : \A a \in S : step[i][a] \in S
    BY <1>3, <1>4
  <2> HIDE DEF step
  <2> QED BY <1>1, <1>2, <2>1, FoldExists
<1> HIDE DEF step
<1>6. \A s \in SUBSET (1 .. n) : s # {} => Max(s) \in 1 .. n
  <2> SUFFICES ASSUME NEW s \in SUBSET (1 .. n), s # {} PROVE Max(s) \in 1 .. n
    OBVIOUS
  <2>1. s \in SUBSET Int /\ IsFiniteSet(1 .. n)
    BY <1>1, FS_Interval
  <2>2. IsFiniteSet(s)
    BY <2>1, FS_Subset
  <2> QED BY <2>1, <2>2, GreatestIsMax
<1>7. \A s \in SUBSET (1 .. n) :
          g[s] = IF s = {} THEN <<>>
                 ELSE AddUpdate(e, rows, g[s \ {Max(s)}], PkOrder[Max(s)])
  <2> SUFFICES ASSUME NEW s \in SUBSET (1 .. n), s # {}
               PROVE  g[s] = AddUpdate(e, rows, g[s \ {Max(s)}], PkOrder[Max(s)])
    BY <1>5 DEF Iterates
  <2>1. g[s \ {Max(s)}] \in S
    BY <1>5 DEF Iterates
  <2> QED BY <1>4, <1>5, <1>6, <2>1 DEF Iterates
<1>8. g = [s \in SUBSET DOMAIN PkOrder |-> IF s = {} THEN <<>>
             ELSE AddUpdate(e, rows, g[s \ {Max(s)}], PkOrder[Max(s)])]
  BY <1>1, <1>5, <1>7 DEF Iterates
<1> DEFINE it == CHOOSE it : it = [s \in SUBSET DOMAIN PkOrder |-> IF s = {} THEN <<>>
                    ELSE AddUpdate(e, rows, it[s \ {Max(s)}], PkOrder[Max(s)])]
<1>9. Updates(e, rows) = it[DOMAIN PkOrder]
  BY DEF Updates, AddUpdate, FoldLeft, MapThenFoldSet
<1>10. it = [s \in SUBSET DOMAIN PkOrder |-> IF s = {} THEN <<>>
               ELSE AddUpdate(e, rows, it[s \ {Max(s)}], PkOrder[Max(s)])]
  BY <1>8
<1> HIDE DEF it
<1> DEFINE F == [i \in 0 .. n |-> it[1 .. i]]
<1>11. F[0] = <<>>
  BY <1>1, <1>10
<1>12. \A i \in 1 .. n : F[i] = AddUpdate(e, rows, F[i - 1], PkOrder[i])
  <2> SUFFICES ASSUME NEW i \in 1 .. n
               PROVE  F[i] = AddUpdate(e, rows, F[i - 1], PkOrder[i])
    OBVIOUS
  <2>1. Max(1 .. i) = i /\ (1 .. i) \ {i} = 1 .. (i - 1)
    BY <1>1, GreatestOfInterval
  <2>2. n \in Nat /\ DOMAIN PkOrder = 1 .. n
    BY <1>1
  <2>3. 1 .. i \in SUBSET DOMAIN PkOrder /\ i \in 1 .. i
    BY <2>2
  <2>4. i \in 0 .. n /\ i - 1 \in 0 .. n
    BY <2>2
  <2> QED BY <1>10, <2>1, <2>3, <2>4
<1>13. Updates(e, rows) = F[n]
  BY <1>1, <1>9
<1> HIDE DEF F
<1> QED BY <1>11, <1>12, <1>13 DEF n

(* It has one UPDATE of every changed row.                                 *)
LEMMA UpdatesListed ==
    ASSUME Facts, NEW e \in Day, NEW rows \in Day,
           \A s \in Symbols : e[s] # None => rows[s] # None
    PROVE  /\ Updates(e, rows) \in Seq(Statement)
           /\ Lists(Updates(e, rows), Changed(e, rows, Len(PkOrder)), UpdateAt(e, rows))
<1>1. PICK F : /\ F[0] = <<>> /\ Updates(e, rows) = F[Len(PkOrder)]
               /\ \A i \in 1 .. Len(PkOrder) :
                     F[i] = AddUpdate(e, rows, F[i - 1], PkOrder[i])
  BY UpdatesFold
<1>2. Len(PkOrder) \in Nat /\ \A i \in 1 .. Len(PkOrder) : PkOrder[i] \in Symbols
  BY DEF Facts, SymbolsAssumption
<1> DEFINE Good(n) == /\ F[n] \in Seq(Statement)
                      /\ Lists(F[n], Changed(e, rows, n), UpdateAt(e, rows))
           T == {n \in Nat : n <= Len(PkOrder) => Good(n)}
<1>3. 0 \in T
  <2>1. 1 .. 0 = {}
    OBVIOUS
  <2>2. Changed(e, rows, 0) = {}
    BY <2>1 DEF Changed
  <2>3. F[0] \in Seq(Statement)
    BY <1>1
  <2> QED BY <1>1, <2>2, <2>3, ListsNothing
<1>4. ASSUME NEW n \in Nat, n \in T PROVE n + 1 \in T
  <2> SUFFICES ASSUME n + 1 <= Len(PkOrder) PROVE Good(n + 1)
    OBVIOUS
  <2> DEFINE s == PkOrder[n + 1]
  <2>1. n <= Len(PkOrder) /\ n + 1 \in 1 .. Len(PkOrder) /\ (n + 1) - 1 = n
    BY <1>2
  <2>2. Good(n) /\ F[n + 1] = AddUpdate(e, rows, F[n], s) /\ s \in Symbols
    BY <1>1, <1>2, <1>4, <2>1
  <2>3. /\ \A i : i \in 1 .. n + 1 <=> i \in 1 .. n \/ i = n + 1
        /\ n + 1 \notin 1 .. n
    OBVIOUS
  <2>4. CASE e[s] = None \/ rows[s] = e[s]
    <3>1. Changed(e, rows, n + 1) = Changed(e, rows, n)
      BY <2>3, <2>4 DEF Changed
    <3> QED BY <2>2, <2>4, <3>1 DEF AddUpdate
  <2>5. CASE e[s] # None /\ rows[s] # e[s]
    <3>1. Changed(e, rows, n + 1) = Changed(e, rows, n) \cup {n + 1}
          /\ n + 1 \notin Changed(e, rows, n)
      BY <2>3, <2>5 DEF Changed
    <3>2. rows[s] \in Row
      BY <2>2, <2>5 DEF Day
    <3>3. Update(e, rows, s) \in Statement
      BY <2>2, <3>2 DEF Update, Statement, Dirty
    <3>4. UpdateAt(e, rows)[n + 1] = Update(e, rows, s)
      BY <2>1 DEF UpdateAt
    <3>5. F[n + 1] = Append(F[n], UpdateAt(e, rows)[n + 1])
      BY <2>2, <2>5, <3>4 DEF AddUpdate
    <3>6. UpdateAt(e, rows)[n + 1] \in Statement
      BY <3>3, <3>4
    <3>7. F[n + 1] \in Seq(Statement)
      BY <2>2, <3>5, <3>6
    <3>8. Lists(Append(F[n], UpdateAt(e, rows)[n + 1]), Changed(e, rows, n) \cup {n + 1},
                UpdateAt(e, rows))
      <4>1. F[n] \in Seq(Statement) /\ Lists(F[n], Changed(e, rows, n), UpdateAt(e, rows))
            /\ n + 1 \notin Changed(e, rows, n)
        BY <2>2, <3>1
      <4> HIDE DEF s, Good
      <4> QED BY <3>6, <4>1, ListsOneMore
    <3> QED BY <3>1, <3>5, <3>7, <3>8
  <2> QED BY <2>4, <2>5
<1>5. Nat \subseteq T
  <2> HIDE DEF T
  <2> QED BY <1>3, <1>4, NaturalInduction
<1>6. Len(PkOrder) \in T
  BY <1>2, <1>5
<1> QED BY <1>1, <1>6

(* What the statements q of the flush are, for the rows e that were read:  *)
(* at names the item of each INSERT.                                       *)
UpdateOK(e, b, x) ==
    /\ e[x.symbol] # None /\ QuotesTo(b, Len(b), x.symbol) # {}
    /\ x.row = AfterTo(b, Len(b), x.symbol, e[x.symbol])
    /\ x.row # e[x.symbol] /\ x.sets = Dirty(e[x.symbol], x.row)
InsertsAt(q) == {k \in 1 .. Len(q) : q[k].op = "insert"}
Plan(e, b, q, at) ==
    /\ q \in Seq(Statement)
    /\ \A k \in 1 .. Len(q) : q[k].op = "update" => UpdateOK(e, b, q[k])
    /\ \A k, l \in 1 .. Len(q) : q[k].op = "update" /\ q[k].symbol = q[l].symbol => k = l
    /\ \A s \in Symbols : e[s] # None /\ AfterTo(b, Len(b), s, e[s]) # e[s] =>
          \E k \in 1 .. Len(q) : q[k].op = "update" /\ q[k].symbol = s
    /\ \A k \in InsertsAt(q) : at[k] \in NewTo(e, b, Len(b)) /\ q[k] = Insert(b[at[k]])
    /\ \A k, l \in InsertsAt(q) : at[k] = at[l] => k = l
    /\ \A i \in NewTo(e, b, Len(b)) : \E k \in InsertsAt(q) : at[k] = i
Stmts(e, b) == Updates(e, Loop(e, b).rows) \o Loop(e, b).added

(* Sets with a one-to-one function between them have as many members.      *)
LEMMA SameCardinality ==
    ASSUME NEW S, NEW T, NEW f \in [S -> T], IsFiniteSet(S),
           \A k, l \in S : f[k] = f[l] => k = l, \A x \in T : \E k \in S : f[k] = x
    PROVE  IsFiniteSet(T) /\ Cardinality(T) = Cardinality(S)
<1>1. f \in Bijection(S, T)
  BY DEF Bijection, Injection, Surjection, IsInjective
<1>2. ExistsBijection(S, T)
  BY <1>1 DEF ExistsBijection
<1> QED BY <1>2, FS_Bijection

(* The parts of a statement.                                               *)
LEMMA InsertParts ==
    ASSUME NEW item
    PROVE  /\ Insert(item).op = "insert" /\ Insert(item).symbol = item.symbol
           /\ Insert(item).row = Written(NewRow, item) /\ Insert(item).sets = Columns
<1> QED BY DEF Insert

(* What an UPDATE is made of.                                              *)
LEMMA UpdateParts ==
    ASSUME NEW e, NEW rows, NEW s
    PROVE  /\ Update(e, rows, s).op = "update" /\ Update(e, rows, s).symbol = s
           /\ Update(e, rows, s).row = rows[s]
           /\ Update(e, rows, s).sets = Dirty(e[s], rows[s])
<1> QED BY DEF Update

(* The closed form of the whole flush.                                     *)
LEMMA FlushPlan ==
    ASSUME Facts, NEW b \in Seq(Item), NEW e \in Day
    PROVE  /\ \E at : Plan(e, b, Stmts(e, b), at)
           /\ Cardinality(InsertsAt(Stmts(e, b))) = Len(Loop(e, b).added)
           /\ Loop(e, b).updated = Cardinality(OldTo(e, b, Len(b)))
<1> DEFINE a == Loop(e, b)
           rows == a.rows
           A == a.added
           U == Updates(e, rows)
           q == Stmts(e, b)
           m == Len(U)
           n == Len(A)
<1>1. /\ rows \in Day /\ A \in Seq(Statement)
      /\ \A s \in Symbols : /\ e[s] = None <=> rows[s] = None
                            /\ e[s] # None => rows[s] = AfterTo(b, Len(b), s, e[s])
      /\ Lists(A, NewTo(e, b, Len(b)), Inserts(b))
      /\ a.updated = Cardinality(OldTo(e, b, Len(b)))
  <2>1. Taken(e, b, Len(b), a)
    BY LoopTaken
  <2> HIDE DEF a
  <2> QED BY <2>1 DEF Taken, Acc
<1> HIDE DEF a
<1> HIDE DEF rows, A
<1>2. U \in Seq(Statement) /\ Lists(U, Changed(e, rows, Len(PkOrder)), UpdateAt(e, rows))
  BY <1>1, UpdatesListed
<1>3. q = U \o A
  BY DEF Stmts, rows, A, a
<1> HIDE DEF U, q
<1>4. /\ m \in Nat /\ n \in Nat /\ q \in Seq(Statement) /\ Len(q) = m + n
      /\ \A k \in 1 .. m : k \in 1 .. m + n /\ q[k] = U[k]
      /\ \A k \in 1 .. n : k + m \in 1 .. m + n /\ q[k + m] = A[k]
      /\ \A k \in 1 .. m + n : k \notin 1 .. m => k - m \in 1 .. n /\ (k - m) + m = k
  <2>1. m \in Nat /\ n \in Nat
    BY <1>1, <1>2
  <2>2. q \in Seq(Statement) /\ Len(q) = m + n
    BY <1>1, <1>2, <1>3
  <2>3. \A k \in 1 .. m + n : q[k] = IF k <= m THEN U[k] ELSE A[k - m]
    BY <1>1, <1>2, <1>3
  <2> HIDE DEF m, n
  <2>4. \A k \in 1 .. m : k \in 1 .. m + n /\ q[k] = U[k]
    BY <2>1, <2>3
  <2>5. \A k \in 1 .. n : k + m \in 1 .. m + n /\ q[k + m] = A[k]
    <3> SUFFICES ASSUME NEW k \in 1 .. n PROVE k + m \in 1 .. m + n /\ q[k + m] = A[k]
      OBVIOUS
    <3>1. k + m \in 1 .. m + n /\ ~(k + m <= m) /\ (k + m) - m = k
      BY <2>1
    <3> QED BY <2>3, <3>1
  <2> QED BY <2>1, <2>2, <2>4, <2>5
<1>5. PICK pu \in [1 .. m -> Changed(e, rows, Len(PkOrder))] :
          /\ \A k, l \in 1 .. m : pu[k] = pu[l] => k = l
          /\ \A i \in Changed(e, rows, Len(PkOrder)) : \E k \in 1 .. m : pu[k] = i
          /\ \A k \in 1 .. m : U[k] = UpdateAt(e, rows)[pu[k]]
  BY <1>2 DEF Lists
<1>6. PICK pa \in [1 .. n -> NewTo(e, b, Len(b))] :
          /\ \A k, l \in 1 .. n : pa[k] = pa[l] => k = l
          /\ \A i \in NewTo(e, b, Len(b)) : \E k \in 1 .. n : pa[k] = i
          /\ \A k \in 1 .. n : A[k] = Inserts(b)[pa[k]]
  BY <1>1 DEF Lists
<1> HIDE DEF m, n
<1>7. \A k \in 1 .. n : pa[k] \in NewTo(e, b, Len(b)) /\ A[k] = Insert(b[pa[k]])
  <2>1. \A i \in NewTo(e, b, Len(b)) : Inserts(b)[i] = Insert(b[i])
    BY DEF NewTo, Inserts
  <2> QED BY <1>6, <2>1
<1>8. \A k \in 1 .. n : A[k].op = "insert"
  BY <1>7, InsertParts
<1>9. \A i \in Changed(e, rows, Len(PkOrder)) :
          UpdateAt(e, rows)[i] = Update(e, rows, PkOrder[i])
  BY DEF Changed, UpdateAt
<1>10. \A k \in 1 .. m : U[k] = Update(e, rows, PkOrder[pu[k]]) /\ pu[k] \in Changed(e, rows, Len(PkOrder))
  BY <1>5, <1>9
<1>11. \A k \in 1 .. m : U[k].op = "update" /\ U[k].symbol = PkOrder[pu[k]]
  BY <1>10, UpdateParts
<1>12. InsertsAt(q) = {k \in 1 .. m + n : k \notin 1 .. m}
  <2>1. \A k \in 1 .. m + n : q[k].op = "insert" <=> k \notin 1 .. m
    <3>1. ASSUME NEW k \in 1 .. m PROVE q[k].op # "insert"
      BY <1>4, <1>11, <3>1
    <3>2. ASSUME NEW k \in 1 .. m + n, k \notin 1 .. m PROVE q[k].op = "insert"
      <4>1. k - m \in 1 .. n /\ q[k] = A[k - m]
        BY <1>4, <3>2
      <4> QED BY <1>8, <4>1
    <3> QED BY <3>1, <3>2
  <2> QED BY <1>4, <2>1 DEF InsertsAt
<1>13. \A k \in 1 .. m + n : q[k].op = "update" => k \in 1 .. m
  <2> SUFFICES ASSUME NEW k \in 1 .. m + n, k \notin 1 .. m PROVE q[k].op # "update"
    OBVIOUS
  <2>1. k - m \in 1 .. n /\ q[k] = A[k - m]
    BY <1>4
  <2> QED BY <1>8, <2>1
<1>14. \A k \in 1 .. m : UpdateOK(e, b, q[k])
  <2> SUFFICES ASSUME NEW k \in 1 .. m PROVE UpdateOK(e, b, q[k])
    OBVIOUS
  <2> DEFINE s == PkOrder[pu[k]]
  <2>1. q[k] = Update(e, rows, s) /\ e[s] # None /\ rows[s] # e[s] /\ s \in Symbols
    <3>1. pu[k] \in 1 .. Len(PkOrder) /\ e[s] # None /\ rows[s] # e[s]
      BY <1>10 DEF Changed
    <3>2. s \in Symbols
      BY <3>1 DEF Facts, SymbolsAssumption
    <3> QED BY <1>4, <1>10, <3>1, <3>2
  <2> HIDE DEF s
  <2>2. rows[s] = AfterTo(b, Len(b), s, e[s])
    BY <1>1, <2>1
  <2>3. QuotesTo(b, Len(b), s) # {}
    BY <2>1, <2>2 DEF AfterTo
  <2>4. q[k].symbol = s /\ q[k].row = rows[s] /\ q[k].sets = Dirty(e[s], rows[s])
    BY <2>1, UpdateParts
  <2> QED BY <2>1, <2>2, <2>3, <2>4 DEF UpdateOK
<1> DEFINE at == [k \in 1 .. m + n |-> pa[k - m]]
<1>15. \A k \in InsertsAt(q) : at[k] \in NewTo(e, b, Len(b)) /\ q[k] = Insert(b[at[k]])
                               /\ k - m \in 1 .. n /\ at[k] = pa[k - m] /\ (k - m) + m = k
  <2> SUFFICES ASSUME NEW k \in InsertsAt(q)
               PROVE  at[k] \in NewTo(e, b, Len(b)) /\ q[k] = Insert(b[at[k]])
                      /\ k - m \in 1 .. n /\ at[k] = pa[k - m] /\ (k - m) + m = k
    OBVIOUS
  <2>1. k \in 1 .. m + n /\ k - m \in 1 .. n /\ (k - m) + m = k
    BY <1>4, <1>12
  <2>2. at[k] = pa[k - m] /\ q[k] = A[k - m]
    BY <1>4, <2>1
  <2> QED BY <1>7, <2>1, <2>2
<1>16. \A k \in 1 .. n : k + m \in InsertsAt(q) /\ at[k + m] = pa[k]
  <2> SUFFICES ASSUME NEW k \in 1 .. n PROVE k + m \in InsertsAt(q) /\ at[k + m] = pa[k]
    OBVIOUS
  <2>1. k + m \in 1 .. m + n /\ k + m \notin 1 .. m /\ (k + m) - m = k
    BY <1>4
  <2> QED BY <1>12, <2>1
<1> HIDE DEF at
<1>17. \A k, l \in 1 .. Len(q) : q[k].op = "update" /\ q[k].symbol = q[l].symbol => k = l
  <2> SUFFICES ASSUME NEW k \in 1 .. m + n, NEW l \in 1 .. m + n, q[k].op = "update",
                      q[k].symbol = q[l].symbol
               PROVE  k = l
    BY <1>4
  <2>1. k \in 1 .. m
    BY <1>13
  <2>2. CASE l \in 1 .. m
    <3>1. PkOrder[pu[k]] = PkOrder[pu[l]]
      BY <1>4, <1>11, <2>1, <2>2
    <3>2. pu[k] \in 1 .. Len(PkOrder) /\ pu[l] \in 1 .. Len(PkOrder)
      BY <1>10, <2>1, <2>2 DEF Changed
    <3>3. pu[k] = pu[l]
      BY <3>1, <3>2 DEF Facts, SymbolsAssumption, IsInjective
    <3> QED BY <1>5, <2>1, <2>2, <3>3
  <2>3. CASE l \notin 1 .. m
    <3>1. l \in InsertsAt(q)
      BY <1>12, <2>3
    <3>2. e[b[at[l]].symbol] = None /\ q[l].symbol = b[at[l]].symbol
      BY <1>15, <3>1, InsertParts DEF NewTo
    <3>3. e[q[k].symbol] # None
      BY <1>14, <2>1 DEF UpdateOK
    <3> QED BY <3>2, <3>3
  <2> QED BY <2>2, <2>3
<1>18. ASSUME NEW s \in Symbols, e[s] # None, AfterTo(b, Len(b), s, e[s]) # e[s]
       PROVE  \E k \in 1 .. Len(q) : q[k].op = "update" /\ q[k].symbol = s
  <2>1. rows[s] # e[s]
    BY <1>1, <1>18
  <2>2. PICK i \in 1 .. Len(PkOrder) : PkOrder[i] = s
    BY DEF Facts, SymbolsAssumption, ToSet
  <2>3. i \in Changed(e, rows, Len(PkOrder))
    BY <1>18, <2>1, <2>2 DEF Changed
  <2>4. PICK k \in 1 .. m : pu[k] = i
    BY <1>5, <2>3
  <2> QED BY <1>4, <1>11, <2>2, <2>4
<1>19. Plan(e, b, q, at)
  <2>1. \A k \in 1 .. Len(q) : q[k].op = "update" => UpdateOK(e, b, q[k])
    BY <1>4, <1>13, <1>14
  <2>2. \A k \in InsertsAt(q) : at[k] \in NewTo(e, b, Len(b)) /\ q[k] = Insert(b[at[k]])
    BY <1>15
  <2>3. \A k, l \in InsertsAt(q) : at[k] = at[l] => k = l
    <3> SUFFICES ASSUME NEW k \in InsertsAt(q), NEW l \in InsertsAt(q), at[k] = at[l]
                 PROVE  k = l
      OBVIOUS
    <3>1. k - m = l - m
      BY <1>6, <1>15
    <3> QED BY <1>15, <3>1
  <2>4. \A i \in NewTo(e, b, Len(b)) : \E k \in InsertsAt(q) : at[k] = i
    BY <1>6, <1>16
  <2> QED BY <1>4, <1>17, <1>18, <2>1, <2>2, <2>3, <2>4 DEF Plan
<1>20. Cardinality(InsertsAt(q)) = n
  <2> DEFINE f == [k \in 1 .. n |-> k + m]
  <2>1. f \in [1 .. n -> InsertsAt(q)]
    BY <1>16
  <2>2. \A k, l \in 1 .. n : f[k] = f[l] => k = l
    BY <1>4
  <2>3. \A x \in InsertsAt(q) : \E k \in 1 .. n : f[k] = x
    BY <1>15
  <2>4. IsFiniteSet(1 .. n) /\ Cardinality(1 .. n) = n
    BY <1>4, FS_Interval
  <2> HIDE DEF f
  <2> QED BY <2>1, <2>2, <2>3, <2>4, SameCardinality
<1> QED BY <1>1, <1>19, <1>20 DEF q, A, a, n

-----------------------------------------------------------------------------
(* The inductive invariant.  An open transaction flushes the plan of the   *)
(* day e that it read: rows of e are still there, and if nobody overlapped *)
(* it, e is what is stored now.  What it executed it holds alone.          *)
Reads(t, e) ==
    /\ tx[t].stmts = Stmts(e, tx[t].body)
    /\ tx[t].inserted = Len(Loop(e, tx[t].body).added)
    /\ tx[t].updated = Loop(e, tx[t].body).updated
    /\ tx[t].read = e
    /\ \A s \in Symbols : e[s] # None => bars[s] # None
    /\ tx[t].alone => bars = e
Planned(t) == Open(t) => tx[t].body \in Bodies /\ \E e \in Day : Reads(t, e)
Executed(t) ==
    \A k \in 1 .. tx[t].done :
        /\ tx[t].stmts[k].op = "insert" => bars[tx[t].stmts[k].symbol] = None
        /\ \A l \in 1 .. tx[t].done :
              tx[t].stmts[k].symbol = tx[t].stmts[l].symbol => k = l
Locked(t) == /\ \A o \in Others(t) : Held(t) \cap Held(o) = {}
             /\ ~Open(t) => tx[t].done = 0
AloneIsAlone(t) == Open(t) /\ tx[t].alone => \A o \in Others(t) : ~Open(o)

Inv == /\ TypeOK
       /\ \A t \in Threads : Planned(t) /\ Executed(t) /\ Locked(t) /\ AloneIsAlone(t)
       /\ FailsOnlyInRaces

(* The invariant holds on an empty day.                                    *)
LEMMA InitInv == Init => Inv
<1> SUFFICES ASSUME Init PROVE Inv
  OBVIOUS
<1>1. \A t \in Threads : tx[t] = Idle
  BY DEF Init
<1>2. Idle \in TxType
  BY DEF Idle, Unread, TxType
<1>3. Idle.pc = "idle" /\ Idle.done = 0 /\ Idle.stmts = <<>>
  BY DEF Idle
<1>4. \A t \in Threads : tx[t].done = 0 /\ ~Open(t) /\ tx[t].pc # "failed"
  BY <1>1, <1>3 DEF Open
<1>5. \A t \in Threads : Held(t) = {}
  BY <1>4 DEF Held
<1>6. TypeOK
  <2>1. bars \in [Symbols -> Row \cup {None}]
    BY DEF Init, Unread
  <2>2. \A t \in Threads : tx[t].done <= Len(tx[t].stmts)
    BY <1>1, <1>3
  <2>3. tx \in [Threads -> TxType]
    BY <1>2 DEF Init
  <2> QED BY <2>1, <2>2, <2>3 DEF TypeOK
<1>7. \A t \in Threads : Planned(t) /\ Executed(t) /\ Locked(t) /\ AloneIsAlone(t)
  BY <1>4, <1>5 DEF Planned, Executed, Locked, AloneIsAlone, Others
<1>8. FailsOnlyInRaces
  BY <1>4 DEF FailsOnlyInRaces
<1> QED BY <1>6, <1>7, <1>8 DEF Inv

(* A thread whose transaction stays, but for the history, keeps its part.  *)
Stays(o) ==
    /\ tx'[o].pc = tx[o].pc /\ tx'[o].body = tx[o].body /\ tx'[o].stmts = tx[o].stmts
    /\ tx'[o].done = tx[o].done /\ tx'[o].inserted = tx[o].inserted
    /\ tx'[o].updated = tx[o].updated /\ tx'[o].read = tx[o].read
    /\ (tx'[o].alone => tx[o].alone)

(* An upload that a step leaves alone keeps its plan and what it executed. *)
LEMMA Kept ==
    ASSUME NEW o, Planned(o), Executed(o), Stays(o), bars' = bars
    PROVE  Planned(o)' /\ Executed(o)'
<1>1. ASSUME NEW e, Reads(o, e) PROVE Reads(o, e)'
  BY <1>1 DEF Reads, Stays
<1>2. Planned(o)'
  BY <1>1 DEF Planned, Open, Stays
<1>3. Executed(o)'
  BY DEF Executed, Stays
<1> QED BY <1>2, <1>3

(* It also keeps the rows it holds.                                        *)
LEMMA HeldKept ==
    ASSUME NEW o, Stays(o)
    PROVE  Held(o)' = Held(o) /\ (Open(o)' <=> Open(o)) /\ tx'[o].done = tx[o].done
           /\ (tx'[o].alone => tx[o].alone)
<1> QED BY DEF Held, Open, Stays

(* What a step that ends the transaction of t without writing keeps.       *)
LEMMA EndInv ==
    ASSUME Inv, NEW t \in Threads, NEW x \in TxType, tx' = [tx EXCEPT ![t] = x],
           bars' = bars, x.pc # "flush", x.done = 0,
           x.pc = "failed" /\ x.alone =>
               \E i, j \in 1 .. Len(x.body) :
                   /\ i < j /\ x.body[i].symbol = x.body[j].symbol
                   /\ x.body[i].close # None /\ x.body[j].close # None
    PROVE  Inv'
<1>1. tx'[t] = x /\ \A o \in Threads : o # t => tx'[o] = tx[o]
  <2>1. tx \in [Threads -> TxType]
    BY DEF Inv, TypeOK
  <2> QED BY <2>1
<1>2. \A o \in Threads : o # t => Stays(o)
  BY <1>1 DEF Stays
<1>3. Held(t)' = {} /\ ~Open(t)' /\ tx'[t].done = 0
  BY <1>1 DEF Held, Open
<1>4. TypeOK'
  <2>1. tx' \in [Threads -> TxType] /\ bars' \in [Symbols -> Row \cup {None}]
    BY DEF Inv, TypeOK
  <2>2. \A o \in Threads : tx'[o].done <= Len(tx'[o].stmts)
    <3>1. \A o \in Threads : o # t => tx'[o].done <= Len(tx'[o].stmts)
      BY <1>1 DEF Inv, TypeOK
    <3>2. x.stmts \in Seq(Statement)
      BY DEF TxType
    <3>3. tx'[t].done <= Len(tx'[t].stmts)
      BY <1>1, <3>2
    <3> QED BY <3>1, <3>3
  <2> QED BY <2>1, <2>2 DEF TypeOK
<1>5. \A o \in Threads : Planned(o)' /\ Executed(o)'
  <2>1. \A o \in Threads : o # t => Planned(o)' /\ Executed(o)'
    BY <1>2, Kept DEF Inv
  <2>2. Planned(t)' /\ Executed(t)'
    BY <1>3 DEF Planned, Executed
  <2> QED BY <2>1, <2>2
<1>6. \A o \in Threads : Locked(o)' /\ AloneIsAlone(o)'
  <2>1. Others(t)' = Others(t) /\ \A o \in Threads : Others(o)' = Others(o)
    BY DEF Others
  <2>2. Locked(t)' /\ AloneIsAlone(t)'
    BY <1>3, <2>1 DEF Locked, AloneIsAlone
  <2>3. ASSUME NEW o \in Threads, o # t PROVE Locked(o)' /\ AloneIsAlone(o)'
    <3>1. \A p \in Others(o) : p \in Threads /\ (p # t => Stays(p)) /\ o \in Others(p)
      BY <1>2 DEF Others
    <3>2. Locked(o) /\ AloneIsAlone(o)
      BY DEF Inv
    <3>3. \A p \in Others(o) : Held(p)' \subseteq Held(p) /\ (Open(p)' => Open(p))
      BY <1>3, <3>1, HeldKept
    <3>4. Held(o)' = Held(o) /\ (Open(o)' <=> Open(o)) /\ tx'[o].done = tx[o].done
          /\ (tx'[o].alone => tx[o].alone)
      BY <1>2, <2>3, HeldKept
    <3> QED BY <2>1, <3>2, <3>3, <3>4 DEF Locked, AloneIsAlone
  <2> QED BY <2>2, <2>3
<1>7. FailsOnlyInRaces'
  <2>1. FailsOnlyInRaces
    BY DEF Inv
  <2> QED BY <1>1, <2>1 DEF FailsOnlyInRaces
<1> QED BY <1>4, <1>5, <1>6, <1>7 DEF Inv

(* Reading the day and deciding keeps the invariant.                       *)
LEMMA IngestInv ==
    ASSUME Facts, Inv, NEW t \in Threads, NEW b \in Bodies, IngestPrices(t, b)
    PROVE  Inv'
<1> DEFINE q == Stmts(bars, b)
<1>1. /\ bars \in Day /\ b \in Seq(Item) /\ tx \in [Threads -> TxType] /\ ~Open(t)
      /\ bars' = bars
  BY DEF Inv, TypeOK, Day, Facts, BodiesAssumption, IngestPrices, Open
<1>2. PICK loop : loop = Loop(bars, b) /\ loop \in Acc
  BY <1>1, LoopTaken DEF Taken
<1>3. q \in Seq(Statement)
  BY <1>1, FlushPlan DEF Plan
<1>4. PICK new : /\ new = [pc |-> "flush", body |-> b, done |-> 0, stmts |-> q,
                           inserted |-> Len(loop.added), updated |-> loop.updated,
                           read |-> bars, alone |-> \A p \in Others(t) : ~Open(p)]
                 /\ tx' = [o \in Threads |-> IF o = t THEN new
                             ELSE [tx[o] EXCEPT !.alone = @ /\ ~Open(o)]]
  BY <1>2 DEF IngestPrices, Stmts
<1> HIDE DEF q
<1>5. new \in TxType
  <2>1. Len(loop.added) \in Nat /\ loop.updated \in Nat
    BY <1>2 DEF Acc
  <2>2. (\A p \in Others(t) : ~Open(p)) \in BOOLEAN
    OBVIOUS
  <2> QED BY <1>1, <1>3, <1>4, <2>1, <2>2 DEF TxType, Day
<1>6. tx'[t] = new /\ \A o \in Threads : o # t => tx'[o] = [tx[o] EXCEPT !.alone = @ /\ ~Open(o)]
  BY <1>4
<1>7. \A o \in Threads : o # t => /\ Stays(o) /\ tx'[o] \in TxType
                                  /\ (tx'[o].alone => tx[o].alone /\ ~Open(o))
  <2> SUFFICES ASSUME NEW o \in Threads, o # t
               PROVE  /\ Stays(o) /\ tx'[o] \in TxType
                      /\ (tx'[o].alone => tx[o].alone /\ ~Open(o))
    OBVIOUS
  <2>1. tx'[o] = [tx[o] EXCEPT !.alone = @ /\ ~Open(o)] /\ tx[o] \in TxType
    BY <1>1, <1>6
  <2>2. PICK k, f : k = tx[o] /\ f = (tx[o].alone /\ ~Open(o)) /\ f \in BOOLEAN
    OBVIOUS
  <2>3. tx'[o] = [k EXCEPT !.alone = f] /\ k \in TxType
    BY <2>1, <2>2
  <2>4. tx'[o] \in TxType /\ tx'[o].alone = f
    BY <2>2, <2>3 DEF TxType
  <2>5. Stays(o)
    BY <2>2, <2>3, <2>4 DEF Stays, TxType
  <2> QED BY <2>2, <2>4, <2>5
<1>8. /\ tx'[t].pc = "flush" /\ tx'[t].body = b /\ tx'[t].done = 0 /\ tx'[t].stmts = q
      /\ tx'[t].inserted = Len(loop.added) /\ tx'[t].updated = loop.updated
      /\ tx'[t].read = bars
      /\ (tx'[t].alone => \A p \in Others(t) : ~Open(p))
  <2>1. tx'[t].alone = (\A p \in Others(t) : ~Open(p))
    BY <1>4, <1>6
  <2> QED BY <1>4, <1>6, <2>1
<1>9. TypeOK'
  <2>1. tx' \in [Threads -> TxType]
    BY <1>4, <1>5, <1>6, <1>7
  <2>2. ASSUME NEW o \in Threads PROVE tx'[o].done <= Len(tx'[o].stmts)
    <3>1. CASE o = t
      BY <1>3, <1>8, <3>1
    <3>2. CASE o # t
      BY <1>7, <3>2 DEF Stays, Inv, TypeOK
    <3> QED BY <3>1, <3>2
  <2>3. bars' \in [Symbols -> Row \cup {None}]
    BY <1>1 DEF Day
  <2> QED BY <2>1, <2>2, <2>3 DEF TypeOK
<1>10. \A o \in Threads : Planned(o)' /\ Executed(o)'
  <2>1. \A o \in Threads : o # t => Planned(o)' /\ Executed(o)'
    BY <1>1, <1>7, Kept DEF Inv
  <2>2. Reads(t, bars)'
    BY <1>1, <1>2, <1>8 DEF Reads, q
  <2>3. Planned(t)'
    BY <1>1, <1>8, <2>2 DEF Planned, Reads
  <2>4. Executed(t)'
    BY <1>8 DEF Executed
  <2> QED BY <2>1, <2>3, <2>4
<1>11. \A o \in Threads : Locked(o)' /\ AloneIsAlone(o)'
  <2>1. \A o \in Threads : Others(o)' = Others(o)
    BY DEF Others
  <2>2. Held(t)' = {} /\ Open(t)'
    BY <1>8 DEF Held, Open
  <2>3. \A o \in Threads : o # t => Held(o)' = Held(o) /\ (Open(o)' <=> Open(o))
                                    /\ tx'[o].done = tx[o].done
    BY <1>7, HeldKept
  <2>4. Locked(t)' /\ AloneIsAlone(t)'
    BY <1>8, <2>1, <2>2, <2>3 DEF Locked, AloneIsAlone, Others
  <2>5. ASSUME NEW o \in Threads, o # t PROVE Locked(o)' /\ AloneIsAlone(o)'
    <3>1. Locked(o)
      BY DEF Inv
    <3>2. Locked(o)'
      <4>1. \A p \in Others(o) : Held(o)' \cap Held(p)' = {}
        BY <2>2, <2>3, <2>5, <3>1 DEF Locked, Others
      <4> QED BY <2>1, <2>3, <2>5, <3>1, <4>1 DEF Locked
    <3>3. AloneIsAlone(o)'
      BY <1>7, <2>3, <2>5 DEF AloneIsAlone
    <3> QED BY <3>2, <3>3
  <2> QED BY <2>4, <2>5
<1>12. FailsOnlyInRaces'
  <2>1. FailsOnlyInRaces
    BY DEF Inv
  <2>2. \A o \in Threads : tx'[o].pc = "failed" /\ tx'[o].alone =>
            o # t /\ tx[o].pc = "failed" /\ tx[o].alone /\ tx'[o].body = tx[o].body
    BY <1>7, <1>8 DEF Stays
  <2> QED BY <2>1, <2>2 DEF FailsOnlyInRaces
<1> QED BY <1>9, <1>10, <1>11, <1>12 DEF Inv

(* The plan of an open transaction.                                        *)
LEMMA OpenPlan ==
    ASSUME Facts, Inv, NEW t \in Threads, Open(t)
    PROVE  /\ tx[t].body \in Bodies /\ tx[t].body \in Seq(Item)
           /\ \E e, at : e \in Day /\ Reads(t, e) /\ Plan(e, tx[t].body, tx[t].stmts, at)
<1>1. tx[t].body \in Bodies /\ tx[t].body \in Seq(Item)
  BY DEF Inv, Planned, Facts, BodiesAssumption
<1>2. PICK e \in Day : Reads(t, e)
  BY DEF Inv, Planned
<1>3. PICK at : Plan(e, tx[t].body, Stmts(e, tx[t].body), at)
  BY <1>1, FlushPlan
<1> QED BY <1>1, <1>2, <1>3 DEF Reads

(* A transaction that was alone has only itself to fail on.                *)
LEMMA DuplicateQuotes ==
    ASSUME Facts, Inv, NEW t \in Threads, Flushing(t), Duplicate(t), tx[t].alone
    PROVE  \E i, j \in 1 .. Len(tx[t].body) :
               /\ i < j /\ tx[t].body[i].symbol = tx[t].body[j].symbol
               /\ tx[t].body[i].close # None /\ tx[t].body[j].close # None
<1> DEFINE d == tx[t].done
           q == tx[t].stmts
           b == tx[t].body
<1>1. d \in Nat /\ d < Len(q) /\ q \in Seq(Statement) /\ Open(t)
  BY DEF Inv, TypeOK, TxType, Flushing
<1>2. b \in Seq(Item)
  BY <1>1, OpenPlan
<1>3. PICK e, at : e \in Day /\ Reads(t, e) /\ Plan(e, b, q, at)
  BY <1>1, OpenPlan
<1>4. bars = e
  BY <1>3 DEF Reads
<1> HIDE DEF d, q, b
<1>5. d + 1 \in 1 .. Len(q) /\ \A l \in 1 .. d : l \in 1 .. Len(q) /\ l # d + 1
  BY <1>1
<1>6. q[d + 1].op = "insert" /\ (bars[q[d + 1].symbol] # None \/ q[d + 1].symbol \in Held(t))
  BY DEF Duplicate, Current, d, q
<1>7. d + 1 \in InsertsAt(q)
  BY <1>5, <1>6 DEF InsertsAt
<1>8. \A k \in InsertsAt(q) : /\ at[k] \in NewTo(e, b, Len(b))
                              /\ q[k].symbol = b[at[k]].symbol
                              /\ e[q[k].symbol] = None /\ b[at[k]].close # None
                              /\ at[k] \in 1 .. Len(b)
  BY <1>3, InsertParts DEF Plan, NewTo
<1>9. PICK l \in 1 .. d : q[l].symbol = q[d + 1].symbol
  BY <1>4, <1>6, <1>7, <1>8 DEF Held, d, q
<1>10. l \in InsertsAt(q)
  <2>1. q[l].op # "update"
    BY <1>3, <1>5, <1>9 DEF Plan
  <2>2. q[l] \in Statement
    BY <1>1, <1>5
  <2> QED BY <1>5, <2>1, <2>2 DEF InsertsAt, Statement
<1>11. at[l] # at[d + 1]
  BY <1>3, <1>5, <1>7, <1>10 DEF Plan
<1>12. at[l] < at[d + 1] \/ at[d + 1] < at[l]
  <2>1. at[l] \in 1 .. Len(b) /\ at[d + 1] \in 1 .. Len(b)
    BY <1>7, <1>8, <1>10
  <2>2. Len(b) \in Nat
    BY <1>2
  <2> QED BY <1>11, <2>1, <2>2
<1> QED BY <1>7, <1>8, <1>9, <1>10, <1>12 DEF b

(* The transaction of a thread after an error.                             *)
LEMMA Failed ==
    ASSUME NEW k \in TxType, NEW x, x = [k EXCEPT !.pc = "failed", !.stmts = <<>>, !.done = 0]
    PROVE  x \in TxType /\ x.pc = "failed" /\ x.done = 0 /\ x.body = k.body
           /\ x.alone = k.alone
<1>1. PICK y : y = [k EXCEPT !.pc = "failed"]
  OBVIOUS
<1>2. PICK z : z = [y EXCEPT !.stmts = <<>>]
  OBVIOUS
<1>3. y \in TxType /\ y.pc = "failed" /\ y.body = k.body /\ y.alone = k.alone
  BY <1>1 DEF TxType
<1>4. z \in TxType /\ z.pc = "failed" /\ z.body = k.body /\ z.alone = k.alone
  <2>1. <<>> \in Seq(Statement)
    OBVIOUS
  <2> QED BY <1>2, <1>3, <2>1 DEF TxType
<1>5. x = [z EXCEPT !.done = 0]
  BY <1>1, <1>2
<1> QED BY <1>4, <1>5 DEF TxType

(* Executing a statement keeps it.                                         *)
LEMMA FlushInv ==
    ASSUME Facts, Inv, NEW t \in Threads, Flush(t) PROVE Inv'
<1>1. /\ Flushing(t) /\ Open(t) /\ bars' = bars /\ tx \in [Threads -> TxType]
      /\ \A o \in Threads : ~Blocks(o, t)
  BY DEF Flush, Flushing, Inv, TypeOK
<1>2. tx[t] \in TxType
  BY <1>1
<1>3. CASE Duplicate(t)
  <2>1. PICK x : x = [tx[t] EXCEPT !.pc = "failed", !.stmts = <<>>, !.done = 0]
    OBVIOUS
  <2>2. tx' = [tx EXCEPT ![t] = x]
    BY <1>1, <1>3, <2>1 DEF Flush
  <2>3. x \in TxType /\ x.pc = "failed" /\ x.done = 0 /\ x.body = tx[t].body
        /\ x.alone = tx[t].alone
    BY <1>2, <2>1, Failed
  <2>4. x.alone => \E i, j \in 1 .. Len(x.body) :
                       /\ i < j /\ x.body[i].symbol = x.body[j].symbol
                       /\ x.body[i].close # None /\ x.body[j].close # None
    <3>1. tx[t].alone => \E i, j \in 1 .. Len(tx[t].body) :
                           /\ i < j /\ tx[t].body[i].symbol = tx[t].body[j].symbol
                           /\ tx[t].body[i].close # None /\ tx[t].body[j].close # None
      BY <1>1, <1>3, DuplicateQuotes
    <3> QED BY <2>3, <3>1
  <2> QED BY <1>1, <2>2, <2>3, <2>4, EndInv
<1>4. CASE ~Duplicate(t)
  <2> DEFINE d == tx[t].done
             q == tx[t].stmts
             c == q[d + 1]
  <2>1. d \in Nat /\ d < Len(q) /\ q \in Seq(Statement) /\ Len(q) \in Nat
    BY <1>1, <1>2 DEF Flushing, TxType
  <2>2. PICK x : x = [tx[t] EXCEPT !.done = d + 1]
    OBVIOUS
  <2>3. tx' = [tx EXCEPT ![t] = x]
    BY <1>1, <1>4, <2>2 DEF Flush
  <2>4. x \in TxType /\ x.pc = tx[t].pc /\ x.body = tx[t].body /\ x.stmts = q /\ x.done = d + 1
        /\ x.inserted = tx[t].inserted /\ x.updated = tx[t].updated /\ x.alone = tx[t].alone
        /\ x.read = tx[t].read
    BY <1>2, <2>1, <2>2 DEF TxType
  <2>5. tx'[t] = x /\ \A o \in Threads : o # t => tx'[o] = tx[o]
    BY <1>1, <2>3
  <2>6. Current(t) = c /\ Held(t) = {q[k].symbol : k \in 1 .. d}
    BY DEF Current, Held
  <2>7. Held(t)' = {q[k].symbol : k \in 1 .. d + 1}
    BY <2>4, <2>5 DEF Held
  <2>8. /\ tx'[t].pc = tx[t].pc /\ tx'[t].body = tx[t].body /\ tx'[t].stmts = q
        /\ tx'[t].done = d + 1 /\ tx'[t].inserted = tx[t].inserted
        /\ tx'[t].updated = tx[t].updated /\ tx'[t].alone = tx[t].alone
        /\ tx'[t].read = tx[t].read
    BY <2>4, <2>5
  <2>9. Open(t)' /\ \A o \in Threads : o # t => Stays(o)
    BY <1>1, <2>5, <2>8 DEF Open, Stays
  <2> HIDE DEF d, q, c
  <2>10. d + 1 \in 1 .. Len(q) /\ \A k \in 1 .. d + 1 : k = d + 1 \/ k \in 1 .. d
    BY <2>1
  <2>11. TypeOK'
    <3>1. tx' \in [Threads -> TxType] /\ bars' \in [Symbols -> Row \cup {None}]
      BY <1>1, <2>3, <2>4 DEF Inv, TypeOK
    <3>2. d + 1 <= Len(q)
      BY <2>1
    <3>3. \A o \in Threads : tx'[o].done <= Len(tx'[o].stmts)
      BY <2>5, <2>8, <3>2 DEF Inv, TypeOK
    <3> QED BY <3>1, <3>3 DEF TypeOK
  <2>12. \A o \in Threads : o # t => Planned(o)' /\ Executed(o)'
    BY <1>1, <2>9, Kept DEF Inv
  <2>13. Planned(t)'
    <3>1. ASSUME NEW e, Reads(t, e) PROVE Reads(t, e)'
      BY <1>1, <2>8, <3>1 DEF Reads, q
    <3>2. tx[t].body \in Bodies /\ \E e \in Day : Reads(t, e)
      BY <1>1 DEF Inv, Planned
    <3> QED BY <2>8, <3>1, <3>2 DEF Planned
  <2>14. c.op = "insert" => bars[c.symbol] = None /\ \A k \in 1 .. d : q[k].symbol # c.symbol
    BY <1>4, <2>6 DEF Duplicate
  <2>15. \A k \in 1 .. d : q[k].symbol # c.symbol
    <3>1. CASE c.op = "insert"
      BY <2>14, <3>1
    <3>2. CASE c.op = "update"
      <4>1. PICK e, at : e \in Day /\ Plan(e, tx[t].body, q, at)
        BY <1>1, OpenPlan DEF q
      <4>2. \A k \in 1 .. d : k \in 1 .. Len(q) /\ k # d + 1
        BY <2>1
      <4> QED BY <2>10, <3>2, <4>1, <4>2 DEF Plan, c
    <3>3. c \in Statement
      BY <2>1, <2>10 DEF c
    <3> QED BY <3>1, <3>2, <3>3 DEF Statement
  <2>16. Executed(t)'
    <3>1. /\ \A k \in 1 .. d : q[k].op = "insert" => bars[q[k].symbol] = None
          /\ \A k, l \in 1 .. d : q[k].symbol = q[l].symbol => k = l
      BY DEF Inv, Executed, d, q
    <3>2. \A k \in 1 .. d + 1 : q[k].op = "insert" => bars[q[k].symbol] = None
      BY <2>10, <2>14, <3>1 DEF c
    <3>3. \A k, l \in 1 .. d + 1 : q[k].symbol = q[l].symbol => k = l
      BY <2>10, <2>15, <3>1 DEF c
    <3> QED BY <1>1, <2>8, <3>2, <3>3 DEF Executed
  <2>17. \A o \in Threads : Locked(o)' /\ AloneIsAlone(o)'
    <3>1. \A o \in Threads : Others(o)' = Others(o) /\ Locked(o) /\ AloneIsAlone(o)
      BY DEF Others, Inv
    <3>2. \A o \in Others(t) : c.symbol \notin Held(o)
      BY <1>1, <2>6 DEF Others, Blocks
    <3>3. \A o \in Others(t) : Held(t)' \cap Held(o) = {}
      <4>1. Held(t)' \subseteq Held(t) \cup {c.symbol}
        BY <2>6, <2>7, <2>10 DEF c
      <4> QED BY <3>1, <3>2, <4>1 DEF Locked
    <3>4. \A o \in Threads : o # t => Held(o)' = Held(o) /\ (Open(o)' <=> Open(o))
                                      /\ tx'[o].done = tx[o].done /\ (tx'[o].alone => tx[o].alone)
      BY <2>9, HeldKept
    <3>5. Locked(t)' /\ AloneIsAlone(t)'
      BY <1>1, <2>8, <2>9, <3>1, <3>3, <3>4 DEF Locked, AloneIsAlone, Others
    <3>6. ASSUME NEW o \in Threads, o # t PROVE Locked(o)' /\ AloneIsAlone(o)'
      <4>1. \A p \in Others(o) : Held(o)' \cap Held(p)' = {}
        BY <3>1, <3>3, <3>4, <3>6 DEF Locked, Others
      <4>2. Locked(o)'
        BY <3>1, <3>4, <3>6, <4>1 DEF Locked
      <4>3. \A p \in Others(o) : Open(p)' => Open(p)
        BY <1>1, <3>4 DEF Others
      <4>4. AloneIsAlone(o)'
        BY <3>1, <3>4, <3>6, <4>3 DEF AloneIsAlone
      <4> QED BY <4>2, <4>4
    <3> QED BY <3>5, <3>6
  <2>18. FailsOnlyInRaces'
    <3>1. FailsOnlyInRaces
      BY DEF Inv
    <3>2. \A o \in Threads : /\ tx'[o].pc = tx[o].pc /\ tx'[o].body = tx[o].body
                             /\ tx'[o].alone = tx[o].alone
      BY <2>5, <2>8
    <3> QED BY <3>1, <3>2 DEF FailsOnlyInRaces
  <2>19. \A o \in Threads : Planned(o)' /\ Executed(o)'
    BY <2>12, <2>13, <2>16
  <2> QED BY <2>11, <2>17, <2>18, <2>19 DEF Inv
<1> QED BY <1>3, <1>4

(* A cycle takes another open transaction.                                 *)
LEMMA DeadlockInv ==
    ASSUME Facts, Inv, NEW t \in Threads, DeadlockDetected(t) PROVE Inv'
<1>1. PICK S \in SUBSET Threads : t \in S /\ \A o \in S : \E p \in S : Blocks(p, o)
  BY DEF DeadlockDetected
<1>2. PICK p \in Threads : Blocks(p, t)
  BY <1>1
<1>3. Open(t) /\ p \in Others(t) /\ Current(t).symbol \in Held(p)
  BY <1>2 DEF Blocks, Flushing, Others
<1>4. Open(p)
  <2>1. Held(p) # {}
    BY <1>3
  <2>2. tx[p].done = 0 => Held(p) = {}
    BY DEF Held
  <2> QED BY <2>1, <2>2 DEF Inv, Locked
<1>5. ~tx[t].alone
  BY <1>3, <1>4 DEF Inv, AloneIsAlone
<1>6. PICK x : x = [tx[t] EXCEPT !.pc = "failed", !.stmts = <<>>, !.done = 0]
  OBVIOUS
<1>7. tx[t] \in TxType /\ tx' = [tx EXCEPT ![t] = x] /\ bars' = bars
  BY <1>6 DEF DeadlockDetected, Inv, TypeOK
<1>8. x \in TxType /\ x.pc = "failed" /\ x.done = 0 /\ x.alone = tx[t].alone
  BY <1>6, <1>7, Failed
<1> QED BY <1>5, <1>7, <1>8, EndInv

(* Ending without a write keeps it.                                        *)
LEMMA ReturnInv ==
    ASSUME Inv, NEW t \in Threads, Fail(t) \/ Rollback(t) PROVE Inv'
<1>1. Idle \in TxType /\ Idle.pc = "idle" /\ Idle.done = 0
  BY DEF Idle, Unread, TxType
<1>2. CASE Fail(t)
  <2>1. tx' = [tx EXCEPT ![t] = Idle] /\ bars' = bars
    BY <1>2 DEF Fail
  <2> QED BY <1>1, <2>1, EndInv
<1>3. CASE Rollback(t)
  <2>1. PICK x : x = [Idle EXCEPT !.pc = "lost"]
    OBVIOUS
  <2>2. x \in TxType /\ x.pc = "lost" /\ x.done = 0
    BY <1>1, <2>1 DEF TxType
  <2>3. tx' = [tx EXCEPT ![t] = x] /\ bars' = bars
    BY <1>3, <2>1 DEF Rollback
  <2> QED BY <2>2, <2>3, EndInv
<1> QED BY <1>2, <1>3

(* What a commit writes, in terms of the plan.                             *)
LEMMA StmtAt ==
    ASSUME Inv, NEW t \in Threads, tx[t].done = Len(tx[t].stmts)
    PROVE  /\ Held(t) = {tx[t].stmts[k].symbol : k \in 1 .. Len(tx[t].stmts)}
           /\ \A k \in 1 .. Len(tx[t].stmts) :
                 StmtOf(t, tx[t].stmts[k].symbol) = tx[t].stmts[k]
<1> DEFINE q == tx[t].stmts
<1>1. Held(t) = {q[k].symbol : k \in 1 .. Len(q)}
  BY DEF Held
<1>2. ASSUME NEW k \in 1 .. Len(q) PROVE StmtOf(t, q[k].symbol) = q[k]
  <2>1. \A x : x \in ToSet(q) <=> \E l \in 1 .. Len(q) : x = q[l]
    <3>1. q \in Seq(Statement)
      BY DEF Inv, TypeOK, TxType
    <3> HIDE DEF q
    <3> QED BY <3>1 DEF ToSet
  <2>2. \A l \in 1 .. Len(q) : q[l].symbol = q[k].symbol => l = k
    BY DEF Inv, Executed
  <2> HIDE DEF q
  <2>3. \A x \in ToSet(q) : x.symbol = q[k].symbol => x = q[k]
    BY <2>1, <2>2
  <2>4. q[k] \in ToSet(q)
    BY <2>1
  <2> QED BY <2>3, <2>4 DEF StmtOf, q
<1> QED BY <1>1, <1>2

(* The rows of a commit: what was there before keeps or takes the values   *)
(* of the body column by column; what was not there is the row of the one  *)
(* item that quotes it.                                                    *)
Overwritten(b, s, e, old, new) ==
    /\ old \in Row => new \in Row
    /\ QuotesTo(b, Len(b), s) = {} => new = old
    /\ new.close = old.close \/ new.close = AfterTo(b, Len(b), s, e[s]).close
    /\ \A c \in Columns :
          \/ new[c] = AfterTo(b, Len(b), s, e[s])[c]
          \/ new[c] = old[c] /\ AfterTo(b, Len(b), s, e[s])[c] = e[s][c]
    /\ old = e[s] => new = AfterTo(b, Len(b), s, e[s])

(* An UPDATE of a planned row overwrites what the body says, on any row it *)
(* meets.                                                                  *)
LEMMA MergeOverwrites ==
    ASSUME NEW e \in Day, NEW b, NEW s \in Symbols, NEW old \in Row, NEW x \in Statement,
           x.symbol = s, x.op = "update", UpdateOK(e, b, x), e[s] \in Row
    PROVE  Overwritten(b, s, e, old, Merge(old, x))
<1> DEFINE m == Merge(old, x)
           r == AfterTo(b, Len(b), s, e[s])
<1>1. x.row = r /\ x.row \in Row /\ x.sets = Dirty(e[s], r) /\ QuotesTo(b, Len(b), s) # {}
  BY DEF UpdateOK, Statement
<1> HIDE DEF r
<1>2. r \in Row
  BY <1>1
<1>3. /\ r = [name |-> r.name, close |-> r.close, volume |-> r.volume]
      /\ old = [name |-> old.name, close |-> old.close, volume |-> old.volume]
  BY <1>2 DEF Row
<1>4. m = [name |-> m.name, close |-> m.close, volume |-> m.volume]
  BY DEF Merge, Columns
<1>5. /\ m.name = IF "name" \in x.sets THEN r.name ELSE old.name
      /\ m.close = IF "close" \in x.sets THEN r.close ELSE old.close
      /\ m.volume = IF "volume" \in x.sets THEN r.volume ELSE old.volume
  BY <1>1 DEF Merge, Columns
<1>6. /\ "name" \in x.sets <=> r.name # e[s].name
      /\ "close" \in x.sets <=> r.close # e[s].close
      /\ "volume" \in x.sets <=> r.volume # e[s].volume
  BY <1>1 DEF Dirty, Columns
<1> HIDE DEF m
<1>7. m \in Row
  BY <1>2, <1>4, <1>5 DEF Row
<1>8. old = e[s] => m = r
  <2> SUFFICES ASSUME old = e[s] PROVE m = r
    OBVIOUS
  <2>1. m.name = r.name /\ m.close = r.close /\ m.volume = r.volume
    BY <1>5, <1>6
  <2> QED BY <1>3, <1>4, <2>1
<1>9. m.close = old.close \/ m.close = r.close
  BY <1>5
<1>10. ASSUME NEW c \in Columns
       PROVE  m[c] = r[c] \/ (m[c] = old[c] /\ r[c] = e[s][c])
  <2>1. m[c] = IF c \in x.sets THEN r[c] ELSE old[c]
    BY <1>1 DEF Merge, m
  <2>2. CASE c \in x.sets
    BY <2>1, <2>2
  <2>3. CASE c \notin x.sets
    <3>1. r[c] = e[s][c]
      BY <1>1, <2>3 DEF Dirty
    <3> QED BY <2>1, <2>3, <3>1
  <2> QED BY <2>2, <2>3
<1> QED BY <1>1, <1>7, <1>8, <1>9, <1>10 DEF Overwritten, m, r

Inserted(b, s, old, new) ==
    /\ QuotesTo(b, Len(b), s) = {} => new = old
    /\ QuotesTo(b, Len(b), s) # {} =>
          /\ old = None
          /\ \E i : QuotesTo(b, Len(b), s) = {i} /\ new = Written(NewRow, b[i])

(* What a commit does to the row of each symbol.                           *)
LEMMA CommitRows ==
    ASSUME Facts, Inv, NEW t \in Threads, Commit(t), NEW e \in Day, NEW at, Reads(t, e),
           Plan(e, tx[t].body, tx[t].stmts, at), NEW s \in Symbols
    PROVE  /\ e[s] # None => Overwritten(tx[t].body, s, e, bars[s], bars'[s])
           /\ e[s] = None => Inserted(tx[t].body, s, bars[s], bars'[s])
           /\ e[s] = None /\ QuotesTo(tx[t].body, Len(tx[t].body), s) # {} =>
                \E k \in InsertsAt(tx[t].stmts) : tx[t].stmts[k].symbol = s
<1> DEFINE b == tx[t].body
           q == tx[t].stmts
<1>1. Open(t) /\ tx[t].done = Len(q) /\ q \in Seq(Statement)
  BY DEF Commit, Inv, TypeOK, TxType
<1>2. bars'[s] = IF s \in Held(t) THEN Merge(bars[s], StmtOf(t, s)) ELSE bars[s]
  BY DEF Commit
<1>3. s \in Held(t) <=> \E k \in 1 .. Len(q) : q[k].symbol = s
  BY <1>1, StmtAt
<1>4. \A k \in 1 .. Len(q) : q[k].symbol = s => StmtOf(t, s) = q[k]
  BY <1>1, StmtAt
<1>5. \A k, l \in 1 .. Len(q) : q[k].symbol = q[l].symbol => k = l
  BY <1>1 DEF Inv, Executed
<1>6. \A k \in 1 .. Len(q) : q[k].op = "insert" => bars[q[k].symbol] = None
  BY <1>1 DEF Inv, Executed
<1>7. Plan(e, b, q, at)
  OBVIOUS
<1> HIDE DEF b, q
<1>8. \A k \in 1 .. Len(q) : q[k] \in Statement
  BY <1>1
<1>9. ASSUME e[s] # None PROVE Overwritten(b, s, e, bars[s], bars'[s])
  <2>1. e[s] \in Row /\ bars[s] \in Row
    BY <1>9 DEF Day, Reads, Inv, TypeOK
  <2>2. ASSUME NEW k \in 1 .. Len(q), q[k].symbol = s
        PROVE  Overwritten(b, s, e, bars[s], bars'[s])
    <3>1. q[k].op = "update"
      <4>1. k \notin InsertsAt(q)
        BY <1>7, <1>9, <2>2, InsertParts DEF Plan, NewTo
      <4> QED BY <1>8, <2>2, <4>1 DEF InsertsAt, Statement
    <3>2. UpdateOK(e, b, q[k])
      BY <1>7, <2>2, <3>1 DEF Plan
    <3>3. bars'[s] = Merge(bars[s], q[k])
      BY <1>2, <1>3, <1>4, <2>2
    <3>4. Overwritten(b, s, e, bars[s], Merge(bars[s], q[k]))
      BY <1>8, <2>1, <2>2, <3>1, <3>2, MergeOverwrites
    <3> QED BY <3>3, <3>4
  <2>3. ASSUME \A k \in 1 .. Len(q) : q[k].symbol # s
        PROVE  Overwritten(b, s, e, bars[s], bars'[s])
    <3>1. bars'[s] = bars[s]
      BY <1>2, <1>3, <2>3
    <3>2. AfterTo(b, Len(b), s, e[s]) = e[s]
      BY <1>7, <1>9, <2>3 DEF Plan
    <3> QED BY <3>1, <3>2 DEF Overwritten
  <2> QED BY <2>2, <2>3
<1>10. ASSUME e[s] = None
       PROVE  /\ Inserted(b, s, bars[s], bars'[s])
              /\ QuotesTo(b, Len(b), s) # {} => \E k \in InsertsAt(q) : q[k].symbol = s
  <2>1. \A k \in 1 .. Len(q) : q[k].symbol = s => k \in InsertsAt(q)
    <3> SUFFICES ASSUME NEW k \in 1 .. Len(q), q[k].symbol = s PROVE k \in InsertsAt(q)
      OBVIOUS
    <3>1. q[k].op # "update"
      BY <1>7, <1>10 DEF Plan, UpdateOK
    <3> QED BY <1>8, <3>1 DEF InsertsAt, Statement
  <2>2. \A k \in InsertsAt(q) : /\ k \in 1 .. Len(q) /\ at[k] \in NewTo(e, b, Len(b))
                                /\ q[k] = Insert(b[at[k]]) /\ q[k].op = "insert"
    BY <1>7 DEF Plan, InsertsAt
  <2>3. \A i \in QuotesTo(b, Len(b), s) : \E k \in InsertsAt(q) : at[k] = i
    <3>1. \A i \in QuotesTo(b, Len(b), s) : i \in NewTo(e, b, Len(b))
      BY <1>10 DEF QuotesTo, NewTo
    <3> QED BY <1>7, <3>1 DEF Plan
  <2>4. CASE QuotesTo(b, Len(b), s) = {}
    <3>1. \A k \in 1 .. Len(q) : q[k].symbol # s
      <4> SUFFICES ASSUME NEW k \in 1 .. Len(q), q[k].symbol = s PROVE FALSE
        OBVIOUS
      <4>1. at[k] \in NewTo(e, b, Len(b)) /\ b[at[k]].symbol = s
        BY <2>1, <2>2, InsertParts
      <4>2. at[k] \in QuotesTo(b, Len(b), s)
        BY <4>1 DEF NewTo, QuotesTo
      <4> QED BY <2>4, <4>2
    <3>2. bars'[s] = bars[s]
      BY <1>2, <1>3, <3>1
    <3> QED BY <2>4, <3>2 DEF Inserted
  <2>5. CASE QuotesTo(b, Len(b), s) # {}
    <3>1. PICK i \in QuotesTo(b, Len(b), s) : TRUE
      BY <2>5
    <3>2. PICK k \in InsertsAt(q) : at[k] = i
      BY <2>3, <3>1
    <3>3. b[i].symbol = s
      BY <3>1 DEF QuotesTo
    <3>4. q[k].symbol = s /\ q[k] = Insert(b[i]) /\ k \in 1 .. Len(q) /\ q[k].op = "insert"
      BY <2>2, <3>2, <3>3, InsertParts
    <3>5. \A j \in QuotesTo(b, Len(b), s) : j = i
      <4> SUFFICES ASSUME NEW j \in QuotesTo(b, Len(b), s) PROVE j = i
        OBVIOUS
      <4>1. PICK l \in InsertsAt(q) : at[l] = j
        BY <2>3
      <4>2. b[j].symbol = s
        BY DEF QuotesTo
      <4>3. q[l].symbol = s /\ l \in 1 .. Len(q)
        BY <2>2, <4>1, <4>2, InsertParts
      <4>4. l = k
        BY <1>5, <3>4, <4>3
      <4> QED BY <3>2, <4>1, <4>4
    <3>6. QuotesTo(b, Len(b), s) = {i}
      BY <3>1, <3>5
    <3>7. bars[s] = None
      BY <1>6, <3>4
    <3>8. bars'[s] = Merge(bars[s], q[k])
      BY <1>2, <1>3, <1>4, <3>4
    <3>9. q[k].sets = Columns /\ q[k].row = Written(NewRow, b[i])
      BY <3>4, InsertParts
    <3>10. bars'[s] = Written(NewRow, b[i])
      <4> DEFINE w == Written(NewRow, b[i])
      <4>1. w = [name |-> w.name, close |-> w.close, volume |-> w.volume]
        BY DEF Written
      <4> HIDE DEF w
      <4>2. bars'[s] = [c \in Columns |-> w[c]]
        BY <3>8, <3>9 DEF Merge, w
      <4>3. [c \in Columns |-> w[c]] = [name |-> w.name, close |-> w.close, volume |-> w.volume]
        BY DEF Columns
      <4> QED BY <4>1, <4>2, <4>3 DEF w
    <3> QED BY <2>5, <3>2, <3>4, <3>6, <3>7, <3>10 DEF Inserted
  <2> QED BY <2>4, <2>5
<1> QED BY <1>9, <1>10 DEF b, q

(* A new row has a close.                                                  *)
LEMMA NewIsRow ==
    ASSUME Facts, NEW b \in Seq(Item), NEW s, NEW old, NEW new, Inserted(b, s, old, new),
           QuotesTo(b, Len(b), s) # {}
    PROVE  new \in Row /\ new # None
<1>1. PICK i : QuotesTo(b, Len(b), s) = {i} /\ new = Written(NewRow, b[i])
  BY DEF Inserted
<1>2. i \in 1 .. Len(b) /\ b[i].close # None
  BY <1>1 DEF QuotesTo
<1>3. b[i] \in Item
  BY <1>2
<1>4. new \in Row
  BY <1>1, <1>2, <1>3 DEF Written, NewRow, Item, Row
<1> QED BY <1>4 DEF Facts, NoneAssumption

(* A commit leaves rows of their type and removes none.                    *)
LEMMA CommitTyped ==
    ASSUME Facts, Inv, NEW t \in Threads, Commit(t), NEW s \in Symbols
    PROVE  bars'[s] \in Row \cup {None} /\ (bars[s] # None => bars'[s] # None)
<1> DEFINE b == tx[t].body
<1>1. Open(t) /\ bars[s] \in Row \cup {None}
  BY DEF Commit, Inv, TypeOK
<1>2. b \in Seq(Item)
  BY <1>1, OpenPlan
<1>3. PICK e, at : e \in Day /\ Reads(t, e) /\ Plan(e, b, tx[t].stmts, at)
  BY <1>1, OpenPlan
<1>4. /\ e[s] # None => Overwritten(b, s, e, bars[s], bars'[s])
      /\ e[s] = None => Inserted(b, s, bars[s], bars'[s])
  BY <1>3, CommitRows
<1> HIDE DEF b
<1>5. None \notin Row
  BY DEF Facts, NoneAssumption
<1>6. CASE e[s] # None
  <2>1. bars[s] \in Row
    BY <1>1, <1>3, <1>6 DEF Reads
  <2> QED BY <1>4, <1>5, <1>6, <2>1 DEF Overwritten
<1>7. CASE e[s] = None /\ QuotesTo(b, Len(b), s) = {}
  BY <1>1, <1>4, <1>7 DEF Inserted
<1>8. CASE e[s] = None /\ QuotesTo(b, Len(b), s) # {}
  <2>1. Inserted(b, s, bars[s], bars'[s])
    BY <1>4, <1>8
  <2>2. bars'[s] \in Row /\ bars'[s] # None
    BY <1>2, <1>8, <2>1, NewIsRow DEF Facts
  <2> QED BY <2>2
<1> QED BY <1>6, <1>7, <1>8

(* A commit keeps the invariant.                                           *)
LEMMA CommitInv ==
    ASSUME Facts, Inv, NEW t \in Threads, Commit(t) PROVE Inv'
<1>1. /\ Open(t) /\ tx \in [Threads -> TxType] /\ tx' = [tx EXCEPT ![t] = Idle]
      /\ bars' = [s \in Symbols |->
                    IF s \in Held(t) THEN Merge(bars[s], StmtOf(t, s)) ELSE bars[s]]
  BY DEF Commit, Inv, TypeOK
<1>2. Idle \in TxType /\ Idle.pc = "idle" /\ Idle.done = 0 /\ Idle.stmts = <<>>
  BY DEF Idle, Unread, TxType
<1>3. tx'[t] = Idle /\ \A o \in Threads : o # t => tx'[o] = tx[o]
  BY <1>1
<1>4. Held(t)' = {} /\ ~Open(t)' /\ tx'[t].done = 0 /\ tx'[t].pc # "failed"
  BY <1>2, <1>3 DEF Held, Open
<1>5. \A o \in Threads : o # t => /\ Held(o)' = Held(o) /\ (Open(o)' <=> Open(o))
                                  /\ ~(Open(o) /\ tx[o].alone)
  <2> SUFFICES ASSUME NEW o \in Threads, o # t
               PROVE  /\ Held(o)' = Held(o) /\ (Open(o)' <=> Open(o))
                      /\ ~(Open(o) /\ tx[o].alone)
    OBVIOUS
  <2>1. tx'[o] = tx[o]
    BY <1>3
  <2>2. AloneIsAlone(o) /\ t \in Others(o)
    BY DEF Inv, Others
  <2> QED BY <1>1, <2>1, <2>2 DEF Held, Open, AloneIsAlone
<1>6. TypeOK'
  <2>1. bars' \in [Symbols -> Row \cup {None}]
    BY <1>1, CommitTyped
  <2>2. tx' \in [Threads -> TxType]
    BY <1>1, <1>2
  <2>3. \A o \in Threads : tx'[o].done <= Len(tx'[o].stmts)
    BY <1>2, <1>3 DEF Inv, TypeOK
  <2> QED BY <2>1, <2>2, <2>3 DEF TypeOK
<1>7. ASSUME NEW o \in Threads, o # t PROVE Planned(o)' /\ Executed(o)'
  <2>1. tx'[o] = tx[o] /\ Planned(o) /\ Executed(o)
    BY <1>3, <1>7 DEF Inv
  <2>2. ASSUME NEW e \in Day, Reads(o, e), Open(o) PROVE Reads(o, e)'
    <3>1. ~tx[o].alone
      BY <1>5, <1>7, <2>2
    <3>2. \A s \in Symbols : e[s] # None => bars'[s] # None
      BY <2>2, CommitTyped DEF Reads
    <3> QED BY <2>1, <2>2, <3>1, <3>2 DEF Reads
  <2>3. Planned(o)'
    <3> SUFFICES ASSUME Open(o) PROVE tx'[o].body \in Bodies /\ \E e \in Day : Reads(o, e)'
      BY <1>5, <1>7 DEF Planned
    <3>1. PICK e \in Day : Reads(o, e)
      BY <2>1 DEF Planned
    <3> QED BY <2>1, <2>2, <3>1 DEF Planned
  <2>4. \A k \in 1 .. tx[o].done : tx[o].stmts[k].op = "insert" =>
            bars'[tx[o].stmts[k].symbol] = None
    <3> SUFFICES ASSUME NEW k \in 1 .. tx[o].done, tx[o].stmts[k].op = "insert"
                 PROVE  bars'[tx[o].stmts[k].symbol] = None
      OBVIOUS
    <3> DEFINE s == tx[o].stmts[k].symbol
    <3>1. s \in Symbols
      <4>1. tx[o].stmts \in Seq(Statement) /\ tx[o].done \in Nat
            /\ tx[o].done <= Len(tx[o].stmts)
        BY DEF Inv, TypeOK, TxType
      <4>2. k \in 1 .. Len(tx[o].stmts)
        BY <4>1
      <4>3. tx[o].stmts[k] \in Statement
        BY <4>1, <4>2
      <4> QED BY <4>3 DEF Statement
    <3>2. s \in Held(o) /\ bars[s] = None
      BY <2>1 DEF Held, Executed
    <3>3. s \notin Held(t)
      BY <1>7, <3>2 DEF Inv, Locked, Others
    <3> HIDE DEF s
    <3>4. bars'[s] = bars[s]
      BY <1>1, <3>1, <3>3
    <3> QED BY <3>2, <3>4 DEF s
  <2>5. Executed(o)'
    BY <2>1, <2>4 DEF Executed
  <2> QED BY <2>3, <2>5
<1>8. Planned(t)' /\ Executed(t)'
  BY <1>4 DEF Planned, Executed
<1>9. \A o \in Threads : Locked(o)' /\ AloneIsAlone(o)'
  <2>1. \A o \in Threads : Others(o)' = Others(o) /\ Locked(o) /\ AloneIsAlone(o)
    BY DEF Others, Inv
  <2>2. Locked(t)' /\ AloneIsAlone(t)'
    BY <1>4 DEF Locked, AloneIsAlone
  <2>3. ASSUME NEW o \in Threads, o # t PROVE Locked(o)' /\ AloneIsAlone(o)'
    <3>1. \A p \in Others(o) : Held(o)' \cap Held(p)' = {}
      BY <1>4, <1>5, <2>1, <2>3 DEF Locked, Others
    <3>2. Locked(o)'
      BY <1>3, <1>5, <2>1, <2>3, <3>1 DEF Locked
    <3>3. AloneIsAlone(o)'
      BY <1>3, <1>5, <2>3 DEF AloneIsAlone
    <3> QED BY <3>2, <3>3
  <2> QED BY <2>2, <2>3
<1>10. FailsOnlyInRaces'
  <2>1. FailsOnlyInRaces
    BY DEF Inv
  <2> QED BY <1>3, <1>4, <2>1 DEF FailsOnlyInRaces
<1> QED BY <1>6, <1>7, <1>8, <1>9, <1>10 DEF Inv

(* Every action keeps the invariant.                                       *)
LEMMA InvStep == ASSUME Facts, Inv, [Next]_vars PROVE Inv'
<1>1. CASE UNCHANGED vars
  <2>1. bars' = bars /\ tx' = tx
    BY <1>1 DEF vars
  <2>3. TypeOK' /\ FailsOnlyInRaces'
    BY <2>1 DEF Inv, TypeOK, FailsOnlyInRaces
  <2>4. \A t \in Threads : Stays(t)
    BY <2>1 DEF Stays
  <2>5. \A t \in Threads : Planned(t)' /\ Executed(t)'
    BY <2>1, <2>4, Kept DEF Inv
  <2>6. \A t \in Threads : Locked(t)' /\ AloneIsAlone(t)'
    <3>1. \A t \in Threads : /\ Held(t)' = Held(t) /\ (Open(t)' <=> Open(t))
                             /\ tx'[t] = tx[t] /\ Others(t)' = Others(t)
      BY <2>1, <2>4, HeldKept DEF Others
    <3>2. \A t \in Threads : Locked(t) /\ AloneIsAlone(t)
      BY DEF Inv
    <3> QED BY <3>1, <3>2 DEF Locked, AloneIsAlone, Others
  <2> QED BY <2>3, <2>5, <2>6 DEF Inv
<1>2. CASE Next
  <2>1. PICK t \in Threads : (\E b \in Bodies : IngestPrices(t, b)) \/ Step(t) \/ Rollback(t)
    BY <1>2 DEF Next
  <2>2. CASE \E b \in Bodies : IngestPrices(t, b)
    BY <2>2, IngestInv
  <2>3. CASE Step(t)
    BY <2>3, FlushInv, DeadlockInv, CommitInv, ReturnInv DEF Step
  <2>4. CASE Rollback(t)
    BY <2>4, ReturnInv
  <2> QED BY <2>1, <2>2, <2>3, <2>4
<1> QED BY <1>1, <1>2

(* The assumptions on the constants.                                       *)
LEMMA FactsHold == Facts
<1> QED BY SymbolsAssumption, BodiesAssumption, NoneAssumption DEF Facts

(* The invariant holds for ever.                                           *)
LEMMA Invariant == Spec => []Inv
<1>1. Inv /\ [Next]_vars => Inv'
  BY InvStep, FactsHold
<1> QED BY <1>1, InitInv, PTL DEF Spec

(* Every reachable state of the price table and its transactions has its   *)
(* type: no row without a close is ever stored, for all days and bodies.   *)
THEOREM PricesTypeCorrect == Spec => []TypeOK
<1>1. Inv => TypeOK
  BY DEF Inv
<1> QED BY <1>1, Invariant, PTL

(* An upload that no other one overlapped fails only on a symbol that its  *)
(* own body quotes twice, for any number of threads and symbols.           *)
THEOREM FailsInRaces == Spec => []FailsOnlyInRaces
<1>1. Inv => FailsOnlyInRaces
  BY DEF Inv
<1> QED BY <1>1, Invariant, PTL

(* Only a commit makes an open transaction idle.                           *)
LEMMA CommitStep ==
    ASSUME Inv, [Next]_vars, NEW t \in Threads, Commits(t)
    PROVE  Commit(t)
<1>1. Open(t) /\ tx[t].pc = "flush" /\ tx'[t] = Idle /\ Idle.pc = "idle"
      /\ tx \in [Threads -> TxType]
  BY DEF Commits, Open, Idle, Inv, TypeOK
<1>2. Next
  BY <1>1 DEF vars
<1>3. PICK o \in Threads : (\E b \in Bodies : IngestPrices(o, b)) \/ Step(o) \/ Rollback(o)
  BY <1>2 DEF Next
<1>4. CASE \E b \in Bodies : IngestPrices(o, b)
  <2>1. o # t /\ tx[o].pc = "idle"
    BY <1>1, <1>4 DEF IngestPrices
  <2>2. tx'[t] = [tx[t] EXCEPT !.alone = @ /\ ~Open(t)]
    BY <1>4, <2>1 DEF IngestPrices
  <2>3. PICK k, f : k = tx[t] /\ f = (tx[t].alone /\ ~Open(t))
    OBVIOUS
  <2>4. k \in TxType /\ tx'[t] = [k EXCEPT !.alone = f] /\ k.pc = "flush"
    BY <1>1, <2>2, <2>3
  <2>5. tx'[t].pc = "flush"
    BY <2>4 DEF TxType
  <2> QED BY <1>1, <2>5
<1>5. CASE Flush(o) \/ DeadlockDetected(o)
  <2>1. PICK x : tx' = [tx EXCEPT ![o] = x] /\ x.pc # "idle"
    <3>1. CASE tx' = [tx EXCEPT ![o].pc = "failed", ![o].stmts = <<>>, ![o].done = 0]
      <4>1. PICK x : x = [tx[o] EXCEPT !.pc = "failed", !.stmts = <<>>, !.done = 0]
        OBVIOUS
      <4>2. x.pc = "failed"
        BY <1>1, <4>1, Failed
      <4> QED BY <3>1, <4>1, <4>2
    <3>2. CASE Open(o) /\ tx' = [tx EXCEPT ![o].done = @ + 1]
      <4>1. PICK x : x = [tx[o] EXCEPT !.done = @ + 1]
        OBVIOUS
      <4>2. x.pc = "flush"
        BY <1>1, <3>2, <4>1 DEF Open, TxType
      <4> QED BY <3>2, <4>1, <4>2
    <3> QED BY <1>5, <3>1, <3>2 DEF Flush, DeadlockDetected, Flushing
  <2>2. tx'[t] = IF t = o THEN x ELSE tx[t]
    BY <1>1, <2>1
  <2> QED BY <1>1, <2>1, <2>2
<1>6. CASE Commit(o)
  <2>1. tx' = [tx EXCEPT ![o] = Idle]
    BY <1>6 DEF Commit
  <2>2. o = t
    BY <1>1, <2>1
  <2> QED BY <1>6, <2>2
<1>7. CASE Fail(o)
  <2>1. tx' = [tx EXCEPT ![o] = Idle] /\ tx[o].pc # "flush"
    BY <1>7 DEF Fail
  <2> QED BY <1>1, <2>1
<1>8. CASE Rollback(o)
  <2>1. PICK x : x = [Idle EXCEPT !.pc = "lost"]
    OBVIOUS
  <2>2. x.pc = "lost" /\ tx' = [tx EXCEPT ![o] = x]
    BY <1>8, <2>1 DEF Rollback, Idle
  <2>3. tx'[t] = IF t = o THEN x ELSE tx[t]
    BY <1>1, <2>2
  <2> QED BY <1>1, <2>2, <2>3
<1> QED BY <1>3, <1>4, <1>5, <1>6, <1>7, <1>8 DEF Step

(* The row that BarAfter names for a stored and for a new symbol.          *)
LEMMA BarOfStored ==
    ASSUME NEW b, NEW s, NEW old, old # None
    PROVE  BarAfter(b, s, old) = AfterTo(b, Len(b), s, old)
<1> QED BY DEF BarAfter, AfterTo, QuotesTo, NamedTo

(* A row that was inserted is the one the body asks for.                   *)
LEMMA BarOfNew ==
    ASSUME NEW b, NEW s, NEW new, Inserted(b, s, None, new)
    PROVE  BarAfter(b, s, None) = new
<1> DEFINE Q == QuotesTo(b, Len(b), s)
           N == NamedTo(b, Len(b), s)
<1>1. BarAfter(b, s, None) =
        IF Q = {} THEN None
        ELSE [name   |-> IF N # {} THEN LastOf(b, N).name ELSE Blank,
              close  |-> LastOf(b, Q).close, volume |-> LastOf(b, Q).volume]
  BY DEF BarAfter, QuotesTo, NamedTo
<1>2. CASE Q = {}
  BY <1>1, <1>2 DEF Inserted
<1>3. CASE Q # {}
  <2>1. PICK i : Q = {i} /\ new = Written(NewRow, b[i])
    BY <1>3 DEF Inserted
  <2>2. i \in Int
    BY <2>1 DEF QuotesTo
  <2>3. LastOf(b, {i}) = b[i]
    BY <2>2 DEF LastOf
  <2>4. N = IF b[i].name # Blank THEN {i} ELSE {}
    BY <2>1 DEF NamedTo
  <2> HIDE DEF Q, N
  <2> QED BY <1>1, <2>1, <2>3, <2>4 DEF Written, NewRow
<1> QED BY <1>2, <1>3

(* An upload that no other upload overlapped stores exactly its bars and   *)
(* leaves every other symbol of the day as it is, whatever the body names  *)
(* twice or without a name or a close.                                     *)
THEOREM AloneOverwrites == Spec => AloneUploadOverwrites
<1>1. ASSUME Inv, [Next]_vars, NEW t \in Threads, Commits(t), tx[t].alone, NEW s \in Symbols
      PROVE  bars'[s] = BarAfter(tx[t].body, s, bars[s])
  <2> DEFINE b == tx[t].body
  <2>1. Facts /\ Commit(t) /\ Open(t)
    BY <1>1, CommitStep, FactsHold DEF Commits
  <2>2. PICK e, at : e \in Day /\ Reads(t, e) /\ Plan(e, b, tx[t].stmts, at)
    BY <1>1, <2>1, OpenPlan
  <2>3. e = bars
    BY <1>1, <2>2 DEF Reads
  <2>4. /\ e[s] # None => Overwritten(b, s, e, bars[s], bars'[s])
        /\ e[s] = None => Inserted(b, s, bars[s], bars'[s])
    BY <1>1, <2>1, <2>2, CommitRows
  <2>5. CASE bars[s] # None
    BY <2>3, <2>4, <2>5, BarOfStored DEF Overwritten
  <2>6. CASE bars[s] = None
    BY <2>3, <2>4, <2>6, BarOfNew
  <2> QED BY <2>5, <2>6
<1>2. Inv /\ [Next]_vars => [\A t \in Threads : Commits(t) /\ tx[t].alone =>
           \A s \in Symbols : bars'[s] = BarAfter(tx[t].body, s, bars[s])]_vars
  BY <1>1
<1> QED BY <1>2, Invariant, PTL DEF Spec, AloneUploadOverwrites

(* In a race too, every column of a bar that an upload leaves is what its  *)
(* body says, or, where that is the value it read, what an overlapping     *)
(* upload wrote there since (upsert_daily_prices and the ORM's UPDATE).    *)
THEOREM BarsOfTheRace == Spec => BarOfTheRace
<1>1. ASSUME Inv, [Next]_vars, NEW t \in Threads, Commits(t), NEW s \in Symbols
      PROVE  RacedBar(t, s)
  <2> DEFINE b == tx[t].body
  <2>1. Facts /\ Commit(t) /\ Open(t)
    BY <1>1, CommitStep, FactsHold DEF Commits
  <2>2. PICK e, at : e \in Day /\ Reads(t, e) /\ Plan(e, b, tx[t].stmts, at)
    BY <1>1, <2>1, OpenPlan
  <2>3. tx[t].read = e /\ (e[s] # None => bars[s] # None) /\ bars \in Day
    BY <1>1, <2>2 DEF Reads, Inv, TypeOK, Day
  <2>4. /\ e[s] # None => Overwritten(b, s, e, bars[s], bars'[s])
        /\ e[s] = None => Inserted(b, s, bars[s], bars'[s])
    BY <1>1, <2>1, <2>2, CommitRows
  <2>5. CASE e[s] # None
    <3>1. bars[s] \in Row /\ None \notin Row
      BY <1>1, <2>1, <2>3, <2>5 DEF Day, Facts, NoneAssumption
    <3>2. bars'[s] \in Row
      BY <2>4, <2>5, <3>1 DEF Overwritten
    <3>3. BarAfter(b, s, e[s]) = AfterTo(b, Len(b), s, e[s])
      BY <2>5, BarOfStored
    <3>4. \A c \in Columns :
             \/ bars'[s][c] = AfterTo(b, Len(b), s, e[s])[c]
             \/ bars'[s][c] = bars[s][c] /\ AfterTo(b, Len(b), s, e[s])[c] = e[s][c]
      BY <2>4, <2>5 DEF Overwritten
    <3>5. \A c \in Columns :
             \/ bars'[s][c] = BarAfter(b, s, e[s])[c]
             \/ /\ BarAfter(b, s, e[s])[c] = e[s][c] /\ bars[s][c] # e[s][c]
                /\ bars'[s][c] = bars[s][c]
      BY <3>3, <3>4
    <3>6. bars'[s] # None
      BY <3>1, <3>2
    <3> QED BY <2>3, <2>5, <3>5, <3>6 DEF RacedBar
  <2>6. CASE e[s] = None
    <3>1. CASE QuotesTo(b, Len(b), s) = {}
      <4>1. bars'[s] = bars[s]
        BY <2>4, <2>6, <3>1 DEF Inserted
      <4>2. BarAfter(b, s, bars[s]) = bars[s]
        BY <3>1 DEF BarAfter, QuotesTo
      <4> QED BY <2>3, <2>6, <4>1, <4>2 DEF RacedBar
    <3>2. CASE QuotesTo(b, Len(b), s) # {}
      <4>1. bars[s] = None
        BY <2>4, <2>6, <3>2 DEF Inserted
      <4>2. BarAfter(b, s, None) = bars'[s]
        BY <2>4, <2>6, <4>1, BarOfNew
      <4> QED BY <2>3, <2>6, <4>1, <4>2 DEF RacedBar
    <3> QED BY <3>1, <3>2
  <2> QED BY <2>5, <2>6
<1>2. Inv /\ [Next]_vars =>
        [\A t \in Threads : Commits(t) => \A s \in Symbols : RacedBar(t, s)]_vars
  BY <1>1
<1> QED BY <1>2, Invariant, PTL DEF Spec, BarOfTheRace

(* The counts of the answer are true in every race, although the loop      *)
(* takes them from rows that were read before.                             *)
THEOREM TrueCounts == Spec => CountsAreTrue
<1>1. ASSUME Inv, [Next]_vars, NEW t \in Threads, Commits(t)
      PROVE  /\ Cardinality(NewRows) = tx[t].inserted
             /\ tx[t].updated = Cardinality({i \in 1 .. Len(tx[t].body) :
                    /\ tx[t].body[i].close # None
                    /\ tx[t].body[i].symbol \notin NewRows})
  <2> DEFINE b == tx[t].body
             q == tx[t].stmts
             n == Len(b)
  <2>1. Facts /\ Commit(t) /\ Open(t) /\ b \in Seq(Item) /\ q \in Seq(Statement)
        /\ tx[t].done = Len(q)
    BY <1>1, CommitStep, OpenPlan, FactsHold DEF Commit, Inv, TypeOK, TxType, Commits
  <2>2. PICK e, at : e \in Day /\ Reads(t, e) /\ Plan(e, b, q, at)
    BY <1>1, <2>1, OpenPlan
  <2>3. \A s \in Symbols :
            /\ e[s] = None => Inserted(b, s, bars[s], bars'[s])
            /\ e[s] = None /\ QuotesTo(b, n, s) # {} => \E k \in InsertsAt(q) : q[k].symbol = s
            /\ e[s] # None => bars[s] # None
    BY <1>1, <2>1, <2>2, CommitRows DEF Reads
  <2>4. \A s \in Symbols : s \in NewRows <=> e[s] = None /\ QuotesTo(b, n, s) # {}
    <3> SUFFICES ASSUME NEW s \in Symbols
                 PROVE  s \in NewRows <=> e[s] = None /\ QuotesTo(b, n, s) # {}
      OBVIOUS
    <3>1. ASSUME e[s] = None, QuotesTo(b, n, s) # {} PROVE s \in NewRows
      <4>1. Inserted(b, s, bars[s], bars'[s])
        BY <2>3, <3>1
      <4>2. bars[s] = None
        BY <3>1, <4>1 DEF Inserted
      <4>3. bars'[s] # None
        BY <2>1, <3>1, <4>1, NewIsRow
      <4> QED BY <4>2, <4>3 DEF NewRows
    <3>2. ASSUME s \in NewRows PROVE e[s] = None /\ QuotesTo(b, n, s) # {}
      BY <2>3, <3>2 DEF NewRows, Inserted
    <3> QED BY <3>1, <3>2
  <2>5. /\ Cardinality(InsertsAt(q)) = tx[t].inserted
        /\ tx[t].updated = Cardinality(OldTo(e, b, n))
    BY <2>1, <2>2, FlushPlan DEF Reads
  <2>6. \A i \in 1 .. n : b[i] \in Item /\ b[i].symbol \in Symbols
    <3>1. \A x \in Item : x.symbol \in Symbols
      BY DEF Item
    <3> HIDE DEF b
    <3>2. \A i \in 1 .. n : b[i] \in Item
      BY <2>1
    <3> QED BY <3>1, <3>2
  <2>7. \A k \in InsertsAt(q) : k \in 1 .. Len(q) /\ q[k].symbol \in NewRows
    <3> SUFFICES ASSUME NEW k \in InsertsAt(q) PROVE k \in 1 .. Len(q) /\ q[k].symbol \in NewRows
      OBVIOUS
    <3>1. k \in 1 .. Len(q) /\ at[k] \in NewTo(e, b, n) /\ q[k] = Insert(b[at[k]])
      BY <2>2 DEF Plan, InsertsAt
    <3>2. q[k].symbol = b[at[k]].symbol
      BY <3>1, InsertParts
    <3>3. /\ at[k] \in 1 .. n /\ b[at[k]].symbol \in Symbols /\ e[b[at[k]].symbol] = None
          /\ at[k] \in QuotesTo(b, n, b[at[k]].symbol)
      BY <2>6, <3>1 DEF NewTo, QuotesTo
    <3> QED BY <2>4, <3>1, <3>2, <3>3
  <2>8. Cardinality(NewRows) = Cardinality(InsertsAt(q))
    <3> DEFINE f == [k \in InsertsAt(q) |-> q[k].symbol]
    <3>1. f \in [InsertsAt(q) -> NewRows]
      BY <2>7
    <3>2. \A k, l \in InsertsAt(q) : f[k] = f[l] => k = l
      BY <1>1, <2>1, <2>7 DEF Inv, Executed
    <3>3. \A s \in NewRows : \E k \in InsertsAt(q) : f[k] = s
      BY <2>3, <2>4 DEF NewRows
    <3>4. IsFiniteSet(InsertsAt(q))
      <4>1. IsFiniteSet(1 .. Len(q)) /\ InsertsAt(q) \in SUBSET (1 .. Len(q))
        BY <2>1, FS_Interval DEF InsertsAt
      <4> QED BY <4>1, FS_Subset
    <3> HIDE DEF f
    <3> QED BY <3>1, <3>2, <3>3, <3>4, SameCardinality
  <2>9. OldTo(e, b, n) = {i \in 1 .. n : b[i].close # None /\ b[i].symbol \notin NewRows}
    <3>1. \A i \in 1 .. n : b[i].close # None =>
              (e[b[i].symbol] # None <=> b[i].symbol \notin NewRows)
      <4> SUFFICES ASSUME NEW i \in 1 .. n, b[i].close # None
                   PROVE  e[b[i].symbol] # None <=> b[i].symbol \notin NewRows
        OBVIOUS
      <4>1. i \in QuotesTo(b, n, b[i].symbol)
        BY DEF QuotesTo
      <4> QED BY <2>4, <2>6, <4>1
    <3> QED BY <3>1 DEF OldTo
  <2> QED BY <2>5, <2>8, <2>9
<1>2. Inv /\ [Next]_vars => [\A t \in Threads : Commits(t) =>
         /\ Cardinality(NewRows) = tx[t].inserted
         /\ tx[t].updated = Cardinality({i \in 1 .. Len(tx[t].body) :
                /\ tx[t].body[i].close # None
                /\ tx[t].body[i].symbol \notin NewRows})]_vars
  BY <1>1
<1> QED BY <1>2, Invariant, PTL DEF Spec, CountsAreTrue

(* The refinement: every upload is one step of the price table or none.    *)
CloseOf(r) == IF r = None THEN None ELSE r.close

(* PriceTable and Prices mean the same by the last quote.                  *)
LEMMA LastOfSame ==
    ASSUME NEW b, NEW s
    PROVE  /\ Table!Quotes(b, s) = QuotesTo(b, Len(b), s)
           /\ Table!FinalClose(b, s) = LastOf(b, QuotesTo(b, Len(b), s)).close
<1>1. Table!Quotes(b, s) = QuotesTo(b, Len(b), s)
  BY DEF Table!Quotes, QuotesTo
<1> QED BY <1>1 DEF Table!FinalClose, LastOf

(* Only a commit changes the stored bars.                                  *)
LEMMA OnlyCommitsWrite ==
    ASSUME Inv, [Next]_vars PROVE bars' = bars \/ \E t \in Threads : Commit(t)
<1> QED BY DEF Next, vars, IngestPrices, Step, Flush, DeadlockDetected, Fail, Rollback

(* A commit changes each close as PriceTable allows.                       *)
LEMMA CommitUploads ==
    ASSUME Facts, Inv, NEW t \in Threads, Commit(t), NEW s \in Symbols
    PROVE  LET Q == QuotesTo(tx[t].body, Len(tx[t].body), s)
           IN  /\ CloseOf(bars'[s]) \in Closes \cup {None}
               /\ Q = {} => CloseOf(bars'[s]) = CloseOf(bars[s])
               /\ Q # {} => \/ CloseOf(bars'[s]) = LastOf(tx[t].body, Q).close
                            \/ CloseOf(bars'[s]) = CloseOf(bars[s]) /\ CloseOf(bars[s]) # None
<1> DEFINE b == tx[t].body
           Q == QuotesTo(b, Len(b), s)
<1>1. Open(t) /\ bars[s] \in Row \cup {None} /\ bars'[s] \in Row \cup {None}
      /\ (bars[s] # None => bars'[s] # None)
  BY CommitTyped DEF Commit, Inv, TypeOK
<1>2. b \in Seq(Item)
  BY <1>1, OpenPlan
<1>3. PICK e, at : e \in Day /\ Reads(t, e) /\ Plan(e, b, tx[t].stmts, at)
  BY <1>1, OpenPlan
<1>4. /\ e[s] # None => Overwritten(b, s, e, bars[s], bars'[s]) /\ bars[s] # None
      /\ e[s] = None => Inserted(b, s, bars[s], bars'[s])
  BY <1>3, CommitRows DEF Reads
<1> HIDE DEF b
<1>5. \A r \in Row : CloseOf(r) = r.close /\ r.close \in Closes /\ r.close # None
  BY DEF Facts, NoneAssumption, CloseOf, Row
<1>6. CloseOf(bars'[s]) \in Closes \cup {None}
  BY <1>1, <1>5 DEF CloseOf
<1>7. Q = {} => CloseOf(bars'[s]) = CloseOf(bars[s])
  BY <1>4 DEF Overwritten, Inserted
<1>8. ASSUME Q # {}, e[s] # None
      PROVE  \/ CloseOf(bars'[s]) = LastOf(b, Q).close
             \/ CloseOf(bars'[s]) = CloseOf(bars[s]) /\ CloseOf(bars[s]) # None
  <2>1. bars'[s].close = bars[s].close \/ bars'[s].close = AfterTo(b, Len(b), s, e[s]).close
    BY <1>4, <1>8 DEF Overwritten
  <2>2. AfterTo(b, Len(b), s, e[s]).close = LastOf(b, Q).close
    BY <1>8 DEF AfterTo
  <2>3. bars[s] \in Row /\ bars'[s] \in Row
    BY <1>1, <1>4, <1>8
  <2> QED BY <1>5, <2>1, <2>2, <2>3
<1>9. ASSUME Q # {}, e[s] = None
      PROVE  CloseOf(bars'[s]) = LastOf(b, Q).close
  <2>1. PICK i : Q = {i} /\ bars'[s] = Written(NewRow, b[i])
    BY <1>4, <1>9 DEF Inserted
  <2>2. i \in Int
    BY <2>1 DEF QuotesTo
  <2>3. LastOf(b, {i}) = b[i]
    BY <2>2 DEF LastOf
  <2>4. bars'[s] \in Row
    BY <1>2, <1>4, <1>9, NewIsRow
  <2>5. bars'[s].close = b[i].close
    BY <2>1 DEF Written
  <2> QED BY <1>5, <2>1, <2>3, <2>4, <2>5
<1> QED BY <1>6, <1>7, <1>8, <1>9 DEF b

(* Every upload is one step of the price table or none: it never erases a  *)
(* close, stores all its new symbols or fails, and changes a close only to *)
(* the last one its body gives.                                            *)
THEOREM UploadsImplementTable == Spec => ImplementsPriceTable
<1> DEFINE cl == [s \in Symbols |-> IF bars[s] = None THEN None ELSE bars[s].close]
<1>1. Init => Table!Init
  BY DEF Init, Unread, Table!Init
<1>2. ASSUME Inv, [Next]_vars PROVE [Table!Next]_cl
  <2>1. CASE bars' = bars
    BY <2>1
  <2>2. ASSUME NEW t \in Threads, Commit(t) PROVE Table!Next
    <3>1. PICK b : b = tx[t].body
      OBVIOUS
    <3>2. Open(t) /\ b \in Bodies /\ Facts
      BY <1>2, <2>2, <3>1, OpenPlan, FactsHold DEF Commit
    <3>3. /\ cl = [s \in Symbols |-> CloseOf(bars[s])]
          /\ cl' = [s \in Symbols |-> CloseOf(bars'[s])]
      BY DEF CloseOf
    <3>4. \A s \in Symbols : /\ cl'[s] \in Closes \cup {None}
                             /\ QuotesTo(b, Len(b), s) = {} => cl'[s] = cl[s]
                             /\ QuotesTo(b, Len(b), s) # {} =>
                                  \/ cl'[s] = LastOf(b, QuotesTo(b, Len(b), s)).close
                                  \/ cl'[s] = cl[s] /\ cl[s] # None
      BY <1>2, <2>2, <3>1, <3>2, <3>3, CommitUploads
    <3>5. cl' \in [Symbols -> Closes \cup {None}]
      BY <3>4
    <3>6. Table!Upload(b)
      <4>1. \A s \in Symbols : /\ Table!Quotes(b, s) = QuotesTo(b, Len(b), s)
                               /\ Table!FinalClose(b, s) = LastOf(b, QuotesTo(b, Len(b), s)).close
        BY LastOfSame
      <4>2. \A s \in Symbols : IF Table!Quotes(b, s) = {} THEN cl'[s] = cl[s]
                               ELSE cl'[s] = Table!FinalClose(b, s)
                                    \/ (cl'[s] = cl[s] /\ cl[s] # None)
        BY <3>4, <4>1
      <4> QED BY <3>5, <4>2 DEF Table!Upload
    <3> QED BY <3>2, <3>6 DEF Table!Next
  <2> QED BY <1>2, <2>1, <2>2, OnlyCommitsWrite
<1> QED BY <1>1, <1>2, Invariant, PTL DEF Spec, ImplementsPriceTable, Table!Spec

=============================================================================
