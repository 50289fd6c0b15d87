--------------------------- MODULE RecordsProofs ---------------------------
(***************************************************************************)
(* Proofs about Records for every set of threads, users, symbols, columns  *)
(* and ids.  The inductive invariant Inv says that the row a request holds *)
(* is its own (Owns), that a row a DELETE misses was removed during it     *)
(* (SeenGone), and what a request that nothing overlapped still knows of   *)
(* its record (Undisturbed).                                               *)
(***************************************************************************)
EXTENDS Records, TLAPS

(* What the steps of a handler find in the request. *)
Shape(r) ==
    /\ r.pc = "idle" => r.user = None
    /\ r.pc # "idle" => r.user \in Users /\ r.key \in Keys
    /\ r.op = "put" => r.body \in Body
    /\ r.pc = "write" => r.op \in {"put", "delete"}
    /\ r.pc = "write" /\ r.op = "delete" => r.id \in Ids
    /\ r.pc = "write" /\ r.op = "put" /\ r.id # None => r.read \in Body
    /\ r.pc = "refresh" => r.op = "put" /\ r.id \in Ids

Owns(r) ==
    r.pc \in {"write", "refresh"} /\ r.id # None /\ rows[r.id] # None =>
        rows[r.id].user = r.user /\ rows[r.id].key = r.key

SeenGone(r) ==
    /\ r.op = "delete" /\ r.pc = "write" /\ rows[r.id] = None => r.absent
    /\ r.op = "delete" /\ r.pc = "ok" => r.absent

Undisturbed(r) ==
    /\ r.pc = "write" /\ r.id = None => Of(r.user, r.key) = {}
    /\ r.pc = "write" /\ r.id # None =>
         rows[r.id] # None /\ (r.op = "put" => rows[r.id].body = r.read)
    /\ r.pc = "refresh" => rows[r.id] # None /\ rows[r.id].body = r.body
    /\ r.op = "put" /\ r.pc = "ok" => r.read = r.body
    /\ r.pc # "failed"

RequestOK(r) ==
    /\ r \in RequestType
    /\ Shape(r) /\ Owns(r) /\ SeenGone(r)
    /\ ~r.raced => Undisturbed(r)

(* Two requests of one record both know that they overlapped. *)
RacesKnown ==
    \A t, o \in Threads :
        t # o /\ reqs[t].user # None /\ Same(o, reqs[t].user, reqs[t].key)
            => reqs[t].raced

Inv ==
    /\ rows \in [Ids -> Record \cup {None}]
    /\ reqs \in [Threads -> RequestType]
    /\ \A t \in Threads : RequestOK(reqs[t])
    /\ RacesKnown
    /\ OneRowPerKey

-----------------------------------------------------------------------------
(* The values that stand for nothing are no values. *)
LEMMA Nothing ==
    /\ \A r \in Record : r # None
    /\ \A u \in Users : u # None
    /\ \A i \in Ids : i # None
BY NoneAssumption

(* get_record answers None, or an id whose row belongs to the user. *)
LEMMA GetRecord ==
    ASSUME NEW u \in Users, NEW k \in Keys
    PROVE  /\ get_record(u, k) = None => Of(u, k) = {}
           /\ get_record(u, k) # None => get_record(u, k) \in Of(u, k)
<1>1. CASE Of(u, k) = {}
  BY <1>1 DEF get_record
<1>2. CASE Of(u, k) # {}
  <2>1. PICK i \in Of(u, k) : get_record(u, k) = i
    BY <1>2 DEF get_record
  <2> QED BY <2>1, Nothing DEF Of
<1> QED BY <1>1, <1>2

(* The invariant holds on an empty table.                                  *)
LEMMA InitInv == Init => Inv
<1> SUFFICES ASSUME Init PROVE Inv
  OBVIOUS
<1>1. Idle \in RequestType
  BY DEF Idle, RequestType
<1>2. \A t \in Threads : RequestOK(reqs[t])
  BY <1>1 DEF Init, RequestOK, Shape, Owns, SeenGone, Undisturbed, Idle
<1>3. RacesKnown
  BY DEF Init, RacesKnown, Idle
<1>4. OneRowPerKey
  BY DEF Init, OneRowPerKey, Of
<1> QED BY <1>1, <1>2, <1>3, <1>4 DEF Init, Inv

(* A new request, with the row that its SELECT found. *)
LEMMA StartInv ==
    ASSUME Inv, NEW t \in Threads, NEW u \in Users, NEW k \in Keys,
           NEW op \in {"put", "delete"}, NEW b \in Body \cup {None},
           op = "put" => b \in Body, Start(t, op, u, k, b)
    PROVE  Inv'
<1> DEFINE q == Begin(t, op, u, k, b)
           id == get_record(u, k)
<1>1. /\ reqs' = [o \in Threads |-> IF o = t THEN q
                     ELSE IF Same(o, u, k) THEN [reqs[o] EXCEPT !.raced = TRUE]
                     ELSE reqs[o]]
      /\ UNCHANGED rows
  BY DEF Start
<1>2. /\ id = None => Of(u, k) = {}
      /\ id # None => /\ id \in Ids /\ rows[id] \in Record
                      /\ rows[id].user = u /\ rows[id].key = k
                      /\ rows[id].body \in Body
  BY GetRecord DEF Of, Inv, Record
<1>3. q \in RequestType
  BY <1>2 DEF Begin, RequestType
<1>4. RequestOK(reqs[t])' /\ reqs'[t] \in RequestType
  <2>1. reqs'[t] = q
    BY <1>1
  <2>2. /\ q.pc = IF op = "delete" /\ id = None THEN "ok" ELSE "write"
        /\ q.op = op /\ q.user = u /\ q.key = k /\ q.body = b /\ q.id = id
        /\ q.read = IF id = None THEN None ELSE rows[id].body
        /\ q.absent = (id = None)
    BY DEF Begin
  <2> HIDE DEF q, id
  <2> QED BY <1>1, <1>2, <1>3, <2>1, <2>2, Nothing
          DEF RequestOK, Shape, Owns, SeenGone, Undisturbed, Of
<1>5. ASSUME NEW o \in Threads, o # t
      PROVE  RequestOK(reqs[o])' /\ reqs'[o] \in RequestType
  <2>1. reqs[o] \in RequestType /\ RequestOK(reqs[o])
    BY DEF Inv
  <2>2. reqs'[o] = reqs[o] \/ reqs'[o] = [reqs[o] EXCEPT !.raced = TRUE]
    BY <1>1, <1>5
  <2>3. reqs'[o] \in RequestType /\ (~reqs'[o].raced => ~reqs[o].raced)
    BY <2>1, <2>2 DEF RequestType
  <2> QED BY <1>1, <2>1, <2>2, <2>3
          DEF RequestOK, Shape, Owns, SeenGone, Undisturbed, RequestType, Of
<1>6. RacesKnown'
  BY <1>1, Nothing DEF RacesKnown, Same, Begin, Inv, RequestType
<1>7. OneRowPerKey' /\ rows' \in [Ids -> Record \cup {None}]
  BY <1>1 DEF Inv, OneRowPerKey, Of
<1>8. reqs' \in [Threads -> RequestType]
  <2>1. \A o \in Threads : reqs'[o] \in RequestType
    BY <1>4, <1>5
  <2>2. /\ DOMAIN reqs' = Threads
        /\ reqs' = [o \in DOMAIN reqs' |-> reqs'[o]]
    BY <1>1, Zenon
  <2> HIDE DEF q, id
  <2> QED BY <2>1, <2>2, Zenon
<1> QED BY <1>4, <1>5, <1>6, <1>7, <1>8 DEF Inv

(* A step that only moves one request on, without a write. *)
LEMMA MoveInv ==
    ASSUME Inv, NEW t \in Threads, UNCHANGED rows,
           NEW q \in RequestType, RequestOK(q),
           reqs' = [reqs EXCEPT ![t] = q],
           \/ q.user = reqs[t].user /\ q.key = reqs[t].key /\ q.raced = reqs[t].raced
           \/ q.user = None
    PROVE  Inv'
<1>1. \A o \in Threads : reqs'[o] = IF o = t THEN q ELSE reqs[o]
  BY DEF Inv
<1>2. \A o \in Threads : RequestOK(reqs[o])'
  BY <1>1 DEF Inv, RequestOK, Shape, Owns, SeenGone, Undisturbed, Of
<1>3. RacesKnown'
  BY <1>1, Nothing DEF RacesKnown, Same, Inv
<1> QED BY <1>2, <1>3 DEF Inv, OneRowPerKey, Of

(* A PUT that found no row. *)
LEMMA InsertInv ==
    ASSUME Inv, NEW t \in Threads, NEW i \in Ids, Insert(t, i)
    PROVE  Inv'
<1> DEFINE r == reqs[t]
<1>1. /\ r \in RequestType /\ RequestOK(r)
      /\ r.pc = "write" /\ r.op = "put" /\ r.id = None /\ i \notin InUse
      /\ r.user \in Users /\ r.key \in Keys /\ r.body \in Body
  BY DEF Inv, Insert, RequestOK, Shape
<1>2. CASE Of(r.user, r.key) # {}
  <2> DEFINE q == [r EXCEPT !.pc = "failed"]
  <2>1. UNCHANGED rows /\ reqs' = [reqs EXCEPT ![t] = q]
    BY <1>2 DEF Insert
  <2>2. q \in RequestType /\ q.user = r.user /\ q.key = r.key /\ q.raced = r.raced
    BY <1>1 DEF RequestType
  <2>3. RequestOK(q)
    BY <1>1, <1>2, <2>2 DEF RequestOK, Shape, Owns, SeenGone, Undisturbed, RequestType
  <2> QED BY <2>1, <2>2, <2>3, MoveInv
<1>3. CASE Of(r.user, r.key) = {}
  <2> DEFINE row == [user |-> r.user, key |-> r.key, body |-> r.body]
             q == [r EXCEPT !.pc = "refresh", !.id = i]
  <2>1. rows' = [rows EXCEPT ![i] = row] /\ reqs' = [reqs EXCEPT ![t] = q]
    BY <1>3 DEF Insert
  <2>2. row \in Record /\ row # None /\ rows[i] = None
    BY <1>1, Nothing DEF Record, InUse
  <2>3. q \in RequestType /\ q.user = r.user /\ q.key = r.key /\ q.raced = r.raced
    BY <1>1 DEF RequestType
  <2>4. /\ rows' \in [Ids -> Record \cup {None}]
        /\ reqs' \in [Threads -> RequestType]
        /\ rows'[i] = row /\ \A j \in Ids \ {i} : rows'[j] = rows[j]
        /\ reqs'[t] = q /\ \A o \in Threads \ {t} : reqs'[o] = reqs[o]
    BY <2>1, <2>2, <2>3 DEF Inv
  <2>5. RequestOK(reqs[t])'
    BY <1>1, <2>2, <2>3, <2>4, Nothing
    DEF RequestOK, Shape, Owns, SeenGone, Undisturbed, RequestType
  <2>6. ASSUME NEW o \in Threads \ {t} PROVE RequestOK(reqs[o])'
    <3>1. reqs[o] \in RequestType /\ RequestOK(reqs[o]) /\ reqs'[o] = reqs[o]
      BY <2>4 DEF Inv
    <3>2. reqs[o].id # i
      BY DEF InUse, Insert
    <3>3. ASSUME ~reqs[o].raced, reqs[o].pc # "idle"
          PROVE  Of(reqs[o].user, reqs[o].key) = Of(reqs[o].user, reqs[o].key)'
      <4>1. ~(reqs[t].user = reqs[o].user /\ reqs[t].key = reqs[o].key)
        BY <3>1, <3>3, Nothing DEF Inv, RacesKnown, Same, RequestOK, Shape
      <4> QED BY <4>1, <2>2, <2>4, <3>1 DEF Of
    <3> QED BY <3>1, <3>2, <3>3, <2>4
            DEF RequestOK, Shape, Owns, SeenGone, Undisturbed, RequestType
  <2>7. RacesKnown'
    <3> HIDE DEF q
    <3>1. \A o \in Threads : /\ reqs'[o].user = reqs[o].user
                             /\ reqs'[o].key = reqs[o].key
                             /\ reqs'[o].raced = reqs[o].raced
      BY <2>3, <2>4
    <3> QED BY <3>1 DEF Inv, RacesKnown, Same
  <2>8. OneRowPerKey'
    BY <1>3, <2>2, <2>4 DEF Inv, OneRowPerKey, Of
  <2> QED BY <2>4, <2>5, <2>6, <2>7, <2>8 DEF Inv
<1> QED BY <1>2, <1>3

(* The UPDATE changes a row of the request's own record, or none. *)
LEMMA UpdateInv ==
    ASSUME Inv, NEW t \in Threads, Update(t)
    PROVE  Inv'
<1> DEFINE r == reqs[t]
           i == reqs[t].id
<1>1. /\ r \in RequestType /\ RequestOK(r)
      /\ r.pc = "write" /\ r.op = "put" /\ i \in Ids
      /\ r.user \in Users /\ r.key \in Keys /\ r.body \in Body /\ r.read \in Body
  BY DEF Inv, Update, RequestOK, Shape, RequestType
<1>2. CASE rows[i] = None
  <2> DEFINE q == [r EXCEPT !.pc = "failed"]
  <2>1. UNCHANGED rows /\ reqs' = [reqs EXCEPT ![t] = q]
    BY <1>2 DEF Update
  <2>2. q \in RequestType /\ q.user = r.user /\ q.key = r.key /\ q.raced = r.raced
    BY <1>1 DEF RequestType
  <2>3. RequestOK(q)
    BY <1>1, <1>2, <2>2, Nothing
    DEF RequestOK, Shape, Owns, SeenGone, Undisturbed, RequestType
  <2> QED BY <2>1, <2>2, <2>3, MoveInv
<1>3. CASE rows[i] # None
  <2> DEFINE new == Merge(r, rows[i].body)
             row == [rows[i] EXCEPT !.body = new]
             q == [r EXCEPT !.pc = "refresh"]
  <2>1. rows' = [rows EXCEPT ![i] = row] /\ reqs' = [reqs EXCEPT ![t] = q]
    BY <1>3 DEF Update
  <2>2. /\ rows[i] \in Record /\ rows[i].user = r.user /\ rows[i].key = r.key
    BY <1>1, <1>3, Nothing DEF Inv, RequestOK, Owns
  <2>3. new \in Body /\ (rows[i].body = r.read => new = r.body)
    BY <1>1, <2>2 DEF Merge, Body, Record
  <2> HIDE DEF new
  <2>4. row \in Record /\ row # None /\ row.user = r.user /\ row.key = r.key /\ row.body = new
    BY <2>2, <2>3, Nothing DEF Record
  <2>5. q \in RequestType
    BY <1>1 DEF RequestType
  <2>6. /\ rows' \in [Ids -> Record \cup {None}]
        /\ reqs' \in [Threads -> RequestType]
        /\ rows'[i] = row /\ \A j \in Ids \ {i} : rows'[j] = rows[j]
        /\ reqs'[t] = q /\ \A o \in Threads \ {t} : reqs'[o] = reqs[o]
    BY <1>1, <2>1, <2>4, <2>5 DEF Inv
  <2>7. \A u \in Users, k \in Keys : Of(u, k)' = Of(u, k)
    <3> HIDE DEF row
    <3>1. \A j \in Ids : /\ rows'[j] # None <=> rows[j] # None
                         /\ rows[j] # None => /\ rows'[j].user = rows[j].user
                                              /\ rows'[j].key = rows[j].key
      BY <1>3, <2>2, <2>4, <2>6
    <3> QED BY <3>1 DEF Of
  <2> HIDE DEF row
  <2>8. RequestOK(reqs[t])'
    BY <1>1, <2>3, <2>4, <2>5, <2>6, Nothing
    DEF RequestOK, Shape, Owns, SeenGone, Undisturbed, RequestType
  <2>9. ASSUME NEW o \in Threads \ {t} PROVE RequestOK(reqs[o])'
    <3>1. reqs[o] \in RequestType /\ RequestOK(reqs[o]) /\ reqs'[o] = reqs[o]
      BY <2>6 DEF Inv
    <3>2. ASSUME ~reqs[o].raced, reqs[o].pc \in {"write", "refresh"}
          PROVE  reqs[o].id # i
      <4>1. reqs[o].user # None
        BY <3>1, <3>2, Nothing DEF RequestOK, Shape
      <4>2. ~(r.user = reqs[o].user /\ r.key = reqs[o].key)
        BY <3>2, <4>1 DEF Inv, RacesKnown, Same
      <4> QED BY <1>1, <1>3, <2>2, <3>1, <3>2, <4>2, Nothing DEF RequestOK, Owns
    <3> QED BY <1>1, <1>3, <2>2, <2>4, <2>6, <2>7, <3>1, <3>2
            DEF RequestOK, Shape, Owns, SeenGone, Undisturbed, RequestType
  <2>10. RacesKnown'
    <3>1. \A o \in Threads : /\ reqs'[o].user = reqs[o].user
                             /\ reqs'[o].key = reqs[o].key
                             /\ reqs'[o].raced = reqs[o].raced
      BY <2>6, <1>1 DEF RequestType
    <3> QED BY <3>1 DEF Inv, RacesKnown, Same
  <2> QED BY <2>6, <2>7, <2>8, <2>9, <2>10 DEF Inv, OneRowPerKey
<1> QED BY <1>2, <1>3

(* The DELETE removes a row of the request's own record, or none. *)
LEMMA RemoveInv ==
    ASSUME Inv, NEW t \in Threads, Remove(t)
    PROVE  Inv'
<1> DEFINE r == reqs[t]
           i == reqs[t].id
           u == reqs[t].user
           k == reqs[t].key
           removed == rows[i] # None
<1>1. /\ r \in RequestType /\ RequestOK(r)
      /\ r.pc = "write" /\ r.op = "delete" /\ i \in Ids
      /\ u \in Users /\ k \in Keys
  BY DEF Inv, Remove, RequestOK, Shape
<1>2. /\ rows' \in [Ids -> Record \cup {None}]
      /\ rows'[i] = None /\ \A j \in Ids \ {i} : rows'[j] = rows[j]
  BY <1>1 DEF Remove, Inv
<1>3. removed => rows[i].user = u /\ rows[i].key = k
  BY <1>1, Nothing DEF RequestOK, Owns
<1>4. /\ reqs' \in [Threads -> RequestType]
      /\ \A o \in Threads :
           /\ reqs'[o].absent = (reqs[o].absent \/ (removed /\ Same(o, u, k)))
           /\ reqs'[o].pc = IF o = t THEN "ok" ELSE reqs[o].pc
           /\ reqs'[o].op = reqs[o].op /\ reqs'[o].id = reqs[o].id
           /\ reqs'[o].user = reqs[o].user /\ reqs'[o].key = reqs[o].key
           /\ reqs'[o].body = reqs[o].body /\ reqs'[o].read = reqs[o].read
           /\ reqs'[o].raced = reqs[o].raced
  <2>1. CASE ~removed
    BY <2>1 DEF Remove, Inv, RequestType
  <2>2. CASE removed
    <3>1. reqs' = [Gone(u, k) EXCEPT ![t].pc = "ok"]
      BY <2>2 DEF Remove
    <3>2. ASSUME NEW o \in Threads
          PROVE  /\ Gone(u, k)[o] \in RequestType
                 /\ Gone(u, k)[o].absent = (reqs[o].absent \/ Same(o, u, k))
                 /\ Gone(u, k)[o].pc = reqs[o].pc
                 /\ Gone(u, k)[o].op = reqs[o].op
                 /\ Gone(u, k)[o].id = reqs[o].id
                 /\ Gone(u, k)[o].user = reqs[o].user
                 /\ Gone(u, k)[o].key = reqs[o].key
                 /\ Gone(u, k)[o].body = reqs[o].body
                 /\ Gone(u, k)[o].read = reqs[o].read
                 /\ Gone(u, k)[o].raced = reqs[o].raced
      <4>1. reqs[o] \in RequestType
        BY DEF Inv
      <4>2. CASE Same(o, u, k)
        <5> DEFINE q == [reqs[o] EXCEPT !.absent = TRUE]
        <5>1. Gone(u, k)[o] = q
          BY <4>2 DEF Gone
        <5>2. /\ q \in RequestType /\ q.absent = TRUE /\ q.pc = reqs[o].pc
              /\ q.op = reqs[o].op /\ q.id = reqs[o].id /\ q.user = reqs[o].user
              /\ q.key = reqs[o].key /\ q.body = reqs[o].body
              /\ q.read = reqs[o].read /\ q.raced = reqs[o].raced
          BY <4>1 DEF RequestType
        <5> QED BY <4>2, <5>1, <5>2
      <4>3. CASE ~Same(o, u, k)
        <5>1. Gone(u, k)[o] = reqs[o]
          BY <4>3 DEF Gone
        <5>2. reqs[o].absent \in BOOLEAN
          BY <4>1 DEF RequestType
        <5> QED BY <4>1, <4>3, <5>1, <5>2
      <4> QED BY <4>2, <4>3
    <3>3. Gone(u, k) \in [Threads -> RequestType]
      <4>1. Gone(u, k) = [o \in Threads |-> Gone(u, k)[o]]
        BY DEF Gone
      <4> QED BY <3>2, <4>1
    <3> QED BY <2>2, <3>1, <3>2, <3>3 DEF RequestType
  <2> QED BY <2>1, <2>2
<1> HIDE DEF removed
<1>5. ASSUME NEW o \in Threads PROVE RequestOK(reqs[o])'
  <2>1. reqs[o] \in RequestType /\ RequestOK(reqs[o]) /\ reqs'[o] \in RequestType
    BY <1>4 DEF Inv
  <2>2. Shape(reqs'[o])
    BY <1>1, <1>4, <2>1 DEF RequestOK, Shape
  <2>3. Owns(reqs[o])'
    BY <1>2, <1>4, <2>1, Nothing DEF RequestOK, Owns, RequestType
  <2>4. SeenGone(reqs[o])'
    BY <1>1, <1>2, <1>3, <1>4, <2>1, Nothing
    DEF RequestOK, SeenGone, Owns, Shape, Same, RequestType, removed
  <2>5. ASSUME ~reqs[o].raced PROVE Undisturbed(reqs[o])'
    <3>1. CASE o = t
      BY <1>1, <1>4, <3>1 DEF Undisturbed
    <3>2. CASE o # t /\ reqs[o].pc \in {"write", "refresh"}
      <4>1. reqs[o].user # None
        BY <2>1, <3>2, Nothing DEF RequestOK, Shape
      <4>2. ~(u = reqs[o].user /\ k = reqs[o].key)
        BY <2>5, <3>2, <4>1 DEF Inv, RacesKnown, Same
      <4>3. removed => reqs[o].id # i
        BY <1>1, <1>3, <2>1, <3>2, <4>2, Nothing DEF RequestOK, Owns, removed
      <4>4. Of(reqs[o].user, reqs[o].key) = {} => Of(reqs[o].user, reqs[o].key)' = {}
        BY <1>2, <1>4 DEF Of
      <4>5. reqs[o].id \in Ids => rows'[reqs[o].id] = rows[reqs[o].id]
        BY <1>2, <4>3 DEF removed
      <4> QED BY <1>4, <2>1, <2>5, <3>2, <4>4, <4>5, Nothing
              DEF RequestOK, Shape, Undisturbed, RequestType
    <3>3. CASE o # t /\ reqs[o].pc \notin {"write", "refresh"}
      BY <1>4, <2>1, <2>5, <3>3 DEF RequestOK, Undisturbed
    <3> QED BY <3>1, <3>2, <3>3
  <2> QED BY <1>4, <2>1, <2>2, <2>3, <2>4, <2>5 DEF RequestOK, Shape
<1>6. RacesKnown'
  BY <1>4 DEF Inv, RacesKnown, Same
<1>7. OneRowPerKey'
  BY <1>2 DEF Inv, OneRowPerKey, Of
<1> QED BY <1>2, <1>4, <1>5, <1>6, <1>7 DEF Inv

(* The answer of a PUT, and the steps that end a request. *)
LEMMA EndInv ==
    ASSUME Inv, NEW t \in Threads, Refresh(t) \/ Answer(t) \/ Abort(t)
    PROVE  Inv'
<1>1. reqs[t] \in RequestType /\ RequestOK(reqs[t])
  BY DEF Inv
<1>2. CASE Refresh(t)
  <2> DEFINE row == rows[reqs[t].id]
             q == [reqs[t] EXCEPT !.pc = IF row = None THEN "failed" ELSE "ok",
                                  !.read = IF row = None THEN None ELSE row.body]
  <2>1. UNCHANGED rows /\ reqs' = [reqs EXCEPT ![t] = q]
    BY <1>2 DEF Refresh
  <2>2. reqs[t].pc = "refresh" /\ reqs[t].op = "put" /\ reqs[t].id \in Ids
    BY <1>1, <1>2 DEF Refresh, RequestOK, Shape
  <2>3. row # None => row.body \in Body
    BY <2>2 DEF Inv, Record
  <2>4. q \in RequestType /\ q.user = reqs[t].user /\ q.key = reqs[t].key
          /\ q.raced = reqs[t].raced
    BY <1>1, <2>3 DEF RequestType
  <2>5. RequestOK(q)
    BY <1>1, <2>2, <2>4, Nothing
    DEF RequestOK, Shape, Owns, SeenGone, Undisturbed, RequestType
  <2> QED BY <2>1, <2>4, <2>5, MoveInv
<1>3. CASE Answer(t) \/ Abort(t)
  <2>1. UNCHANGED rows /\ reqs' = [reqs EXCEPT ![t] = Idle]
    BY <1>3 DEF Answer, Abort
  <2>2. Idle \in RequestType /\ Idle.user = None
    BY DEF Idle, RequestType
  <2>3. RequestOK(Idle)
    BY <2>2 DEF RequestOK, Shape, Owns, SeenGone, Undisturbed, Idle
  <2> QED BY <2>1, <2>2, <2>3, MoveInv
<1> QED BY <1>2, <1>3

(* Inv holds in every reachable state. *)
LEMMA Invariant == Spec => []Inv
<1>1. Inv /\ [Next]_vars => Inv'
  <2> SUFFICES ASSUME Inv, [Next]_vars PROVE Inv'
    OBVIOUS
  <2>1. ASSUME NEW t \in Threads, NEW u \in Users, NEW k \in Keys, Delete(t, u, k)
        PROVE  Inv'
    BY <2>1, StartInv DEF Delete
  <2>2. ASSUME NEW t \in Threads, NEW u \in Users, NEW k \in Keys, NEW b \in Body,
               Put(t, u, k, b)
        PROVE  Inv'
    BY <2>2, StartInv DEF Put
  <2>3. CASE UNCHANGED vars
    BY <2>3 DEF vars, Inv, RequestOK, Shape, Owns, SeenGone, Undisturbed, Of,
                RacesKnown, Same, OneRowPerKey
  <2> QED BY <2>1, <2>2, <2>3, InsertInv, UpdateInv, RemoveInv, EndInv DEF Next
<1> QED BY <1>1, InitInv, PTL DEF Spec

-----------------------------------------------------------------------------
(* The table and the requests have their types, over upsert_record and     *)
(* delete_record in every interleaving.                                    *)
THEOREM RecordsTypeCorrect == Spec => []TypeOK
<1>1. Inv => TypeOK
  BY DEF Inv, TypeOK
<1> QED BY <1>1, Invariant, PTL

(* The unique constraint is enough: racing PUTs and DELETEs never leave    *)
(* two rows of one user and symbol.                                        *)
THEOREM OneRow == Spec => []OneRowPerKey
<1>1. Inv => OneRowPerKey
  BY DEF Inv
<1> QED BY <1>1, Invariant, PTL

(* delete_record answers 204 only if the record was absent at some time    *)
(* during the request.                                                     *)
THEOREM DeletesAreTrue == Spec => []DeletedMeansAbsent
<1>1. Inv => DeletedMeansAbsent
  BY DEF Inv, RequestOK, SeenGone, DeletedMeansAbsent
<1> QED BY <1>1, Invariant, PTL

(* Only a race makes upsert_record fail or answer with another body.       *)
THEOREM AloneSucceeds == Spec => []AloneRequestSucceeds
<1>1. Inv => AloneRequestSucceeds
  BY DEF Inv, RequestOK, Undisturbed, AloneRequestSucceeds
<1> QED BY <1>1, Invariant, PTL

-----------------------------------------------------------------------------
(* How a step changes the table: not at all, one new row of a user and a   *)
(* symbol without a row, other columns of one row, or one row less; each   *)
(* in a request of that user.                                              *)
Inserts(t, i) ==
    /\ Of(reqs[t].user, reqs[t].key) = {} /\ reqs[t].body \in Body
    /\ rows' = [rows EXCEPT ![i] = [user |-> reqs[t].user, key |-> reqs[t].key,
                                    body |-> reqs[t].body]]
    /\ rows[i] = None
Updates(t, i) ==
    /\ i \in Of(reqs[t].user, reqs[t].key) /\ reqs[t].body \in Body
    /\ rows' = [rows EXCEPT ![i].body = Merge(reqs[t], @)]
Removes(t, i) ==
    /\ i \in Of(reqs[t].user, reqs[t].key)
    /\ rows' = [rows EXCEPT ![i] = None]
Writes(t, i) ==
    /\ reqs[t].user \in Users /\ reqs[t].key \in Keys /\ reqs'[t] # reqs[t]
    /\ Inserts(t, i) \/ Updates(t, i) \/ Removes(t, i)

(* Every step leaves the table alone or writes one row.                    *)
LEMMA StepWrites ==
    ASSUME Inv, [Next]_vars
    PROVE  UNCHANGED rows \/ \E t \in Threads, i \in Ids : Writes(t, i)
<1>1. ASSUME NEW t \in Threads, NEW i \in Ids, Insert(t, i), ~UNCHANGED rows
      PROVE  Writes(t, i)
  <2>1. RequestOK(reqs[t]) /\ reqs[t].pc = "write" /\ reqs[t].op = "put"
    BY <1>1 DEF Inv, Insert
  <2>2. reqs'[t].pc = "refresh"
    BY <1>1 DEF Insert, Inv, RequestType
  <2>3. rows[i] = None
    BY <1>1 DEF Insert, InUse
  <2> QED BY <1>1, <2>1, <2>2, <2>3 DEF Writes, Inserts, Insert, RequestOK, Shape
<1>2. ASSUME NEW t \in Threads, Update(t), ~UNCHANGED rows
      PROVE  \E i \in Ids : Writes(t, i)
  <2>1. RequestOK(reqs[t]) /\ reqs[t].pc = "write" /\ reqs[t].op = "put"
        /\ reqs[t].id # None /\ rows[reqs[t].id] # None
    BY <1>2 DEF Inv, Update
  <2>2. reqs'[t].pc = "refresh"
    BY <1>2 DEF Update, Inv, RequestType
  <2>3. /\ reqs[t].user \in Users /\ reqs[t].key \in Keys /\ reqs[t].body \in Body
        /\ reqs[t].id \in Of(reqs[t].user, reqs[t].key) /\ reqs[t].id \in Ids
    BY <2>1 DEF RequestOK, Shape, Owns, Of, RequestType
  <2>4. rows' = [rows EXCEPT ![reqs[t].id].body = Merge(reqs[t], @)]
    BY <1>2 DEF Update
  <2> QED BY <2>1, <2>2, <2>3, <2>4 DEF Writes, Updates
<1>3. ASSUME NEW t \in Threads, Remove(t), ~UNCHANGED rows
      PROVE  \E i \in Ids : Writes(t, i)
  <2>1. /\ RequestOK(reqs[t]) /\ reqs[t].pc = "write" /\ reqs[t].op = "delete"
        /\ reqs[t].id \in Ids
    BY <1>3 DEF Inv, Remove, RequestOK, Shape
  <2>2. rows' = [rows EXCEPT ![reqs[t].id] = None]
    BY <1>3 DEF Remove
  <2>3. rows[reqs[t].id] # None
    BY <1>3, <2>1, <2>2 DEF Inv
  <2>4. /\ reqs[t].user \in Users /\ reqs[t].key \in Keys
        /\ reqs[t].id \in Of(reqs[t].user, reqs[t].key)
    BY <2>1, <2>3, Nothing DEF RequestOK, Shape, Owns, Of
  <2>5. reqs'[t].pc = "ok"
    <3>1. reqs' = [Gone(reqs[t].user, reqs[t].key) EXCEPT ![t].pc = "ok"]
      BY <1>3, <2>3 DEF Remove
    <3>2. Gone(reqs[t].user, reqs[t].key)[t] = [reqs[t] EXCEPT !.absent = TRUE]
      BY DEF Gone, Same
    <3>3. DOMAIN Gone(reqs[t].user, reqs[t].key) = Threads
      BY DEF Gone
    <3>4. reqs'[t] = [[reqs[t] EXCEPT !.absent = TRUE] EXCEPT !.pc = "ok"]
      BY <3>1, <3>2, <3>3
    <3>5. reqs[t] \in RequestType
      BY DEF Inv
    <3> QED BY <3>4, <3>5 DEF RequestType
  <2> QED BY <2>1, <2>2, <2>4, <2>5 DEF Writes, Removes
<1> QED BY <1>1, <1>2, <1>3 DEF Next, vars, Put, Delete, Start, Refresh, Answer, Abort

(* Whatever PUTs and DELETEs overlap, a step of a request writes rows of   *)
(* its own user only.                                                      *)
THEOREM OwnRecords == Spec => OwnRecordsOnly
<1>1. ASSUME Inv, [Next]_vars, NEW u \in Users,
             {rows[i] : i \in {j \in Ids : rows[j] # None /\ rows[j].user = u}}
               # {rows'[i] : i \in {j \in Ids : rows'[j] # None /\ rows'[j].user = u}}
      PROVE  \E t \in Threads : reqs[t].user = u /\ reqs'[t] # reqs[t]
  <2>1. PICK t \in Threads, i \in Ids : Writes(t, i)
    BY <1>1, StepWrites
  <2>2. ASSUME reqs[t].user # u PROVE FALSE
    <3>1. \A j \in Ids \ {i} : rows'[j] = rows[j]
      BY <1>1, <2>1 DEF Writes, Inserts, Updates, Removes, Inv
    <3>2. ~(rows[i] # None /\ rows[i].user = u)
      BY <2>1, <2>2 DEF Writes, Inserts, Updates, Removes, Of
    <3>3. ~(rows'[i] # None /\ rows'[i].user = u)
      BY <1>1, <2>1, <2>2 DEF Writes, Inserts, Updates, Removes, Of, Inv, Record
    <3> QED BY <1>1, <3>1, <3>2, <3>3
  <2> QED BY <2>1, <2>2 DEF Writes
<1>2. Inv /\ [Next]_vars =>
        [\A u \in Users :
           {rows[i] : i \in {j \in Ids : rows[j] # None /\ rows[j].user = u}}
             # {rows'[i] : i \in {j \in Ids : rows'[j] # None /\ rows'[j].user = u}}
           => \E t \in Threads : reqs[t].user = u /\ reqs'[t] # reqs[t]]_vars
  BY <1>1
<1> QED BY <1>2, Invariant, PTL DEF Spec, OwnRecordsOnly

-----------------------------------------------------------------------------
(* With one row per key, the map holds the body of that row. *)
LEMMA Lookup ==
    ASSUME OneRowPerKey, NEW u \in Users, NEW k \in Keys
    PROVE  /\ Of(u, k) = {} => RecordOf(<<u, k>>) = None
           /\ \A i \in Of(u, k) : RecordOf(<<u, k>>) = rows[i].body
BY DEF OneRowPerKey, RecordOf
(* The record of a key is the body of its row, or none.                    *)
LEMMA LookupNext ==
    ASSUME OneRowPerKey', NEW u \in Users, NEW k \in Keys
    PROVE  /\ Of(u, k)' = {} => RecordOf(<<u, k>>)' = None
           /\ \A i \in Of(u, k)' : RecordOf(<<u, k>>)' = rows'[i].body
BY DEF OneRowPerKey, RecordOf

(* A write to the row of one key changes nothing else in the map. *)
LEMMA OtherKeys ==
    ASSUME Inv, Inv', NEW t \in Threads, NEW i \in Ids, Writes(t, i),
           NEW u \in Users, NEW k \in Keys, ~(u = reqs[t].user /\ k = reqs[t].key)
    PROVE  RecordOf(<<u, k>>)' = RecordOf(<<u, k>>)
<1>1. \A j \in Ids \ {i} : rows'[j] = rows[j]
  BY DEF Writes, Inserts, Updates, Removes, Inv
<1>2. i \notin Of(u, k)
  BY DEF Writes, Inserts, Updates, Removes, Of
<1>3. i \notin Of(u, k)'
  BY DEF Writes, Inserts, Updates, Removes, Of, Inv, Record
<1>4. Of(u, k)' = Of(u, k)
  BY <1>1, <1>2, <1>3 DEF Of
<1>5. CASE Of(u, k) = {}
  BY <1>4, <1>5, Lookup, LookupNext DEF Inv
<1>6. CASE Of(u, k) # {}
  <2>1. PICK j \in Of(u, k) : j # i
    BY <1>2, <1>6
  <2>2. rows'[j] = rows[j]
    BY <1>1, <2>1 DEF Of
  <2> QED BY <1>4, <2>1, <2>2, Lookup, LookupNext DEF Inv
<1> QED BY <1>5, <1>6

(* The table is a map with one record per user and symbol that every PUT   *)
(* and DELETE, in every interleaving, changes by one step of RecordMap.    *)
THEOREM TableImplementsMap == Spec => ImplementsRecordMap
<1> DEFINE rec == [p \in Users \X Keys |-> RecordOf(p)]
<1>1. Init => Map!Init
  <2> SUFFICES ASSUME Init, NEW u \in Users, NEW k \in Keys
               PROVE  RecordOf(<<u, k>>) = None
    BY DEF Map!Init
  <2> QED BY DEF Init, RecordOf, Of
<1>2. ASSUME Inv, Inv', [Next]_vars PROVE [Map!Next]_rec
  <2>1. CASE UNCHANGED rows
    <3>1. \A u \in Users, k \in Keys : RecordOf(<<u, k>>)' = RecordOf(<<u, k>>)
      BY <2>1 DEF RecordOf, Of
    <3> QED BY <3>1
  <2>2. ASSUME NEW t \in Threads, NEW i \in Ids, Writes(t, i),
               NEW u \in Users, NEW k \in Keys, u = reqs[t].user, k = reqs[t].key
        PROVE  Map!Next
    <3> DEFINE p == <<u, k>>
               b == reqs[t].body
    <3>1. p \in Users \X Keys /\ (Inserts(t, i) \/ Updates(t, i) => b \in Body)
      BY <2>2 DEF Inserts, Updates
    <3>2. rec' = [rec EXCEPT ![p] = RecordOf(p)']
      <4>1. \A v \in Users, l \in Keys :
              ~(v = u /\ l = k) => RecordOf(<<v, l>>)' = RecordOf(<<v, l>>)
        BY <1>2, <2>2, OtherKeys
      <4>2. ASSUME NEW q \in Users \X Keys
            PROVE  RecordOf(q)' = IF q = p THEN RecordOf(p)' ELSE RecordOf(q)
        <5>1. PICK v \in Users, l \in Keys : q = <<v, l>>
          OBVIOUS
        <5>2. CASE v = u /\ l = k
          BY <5>1, <5>2
        <5>3. CASE ~(v = u /\ l = k)
          BY <4>1, <5>1, <5>3
        <5> QED BY <5>2, <5>3
      <4>3. rec' = [q \in Users \X Keys |-> RecordOf(q)']
        OBVIOUS
      <4>4. [rec EXCEPT ![p] = RecordOf(p)'] =
              [q \in Users \X Keys |-> IF q = p THEN RecordOf(p)' ELSE RecordOf(q)]
        OBVIOUS
      <4> QED BY <4>2, <4>3, <4>4, Zenon
    <3>3. CASE Inserts(t, i)
      <4>1. RecordOf(p) = None
        BY <1>2, <2>2, <3>3, Lookup DEF Inv, Inserts
      <4>2. rows'[i] = [user |-> u, key |-> k, body |-> b]
        BY <1>2, <2>2, <3>3 DEF Inserts, Inv
      <4>3. rows'[i] # None
        BY <3>1, <3>3, <4>2, Nothing DEF Record
      <4>4. RecordOf(p)' = b
        BY <1>2, <4>2, <4>3, LookupNext DEF Inv, Of
      <4>5. Map!Insert(p, b)
        BY <3>1, <3>2, <4>1, <4>4 DEF Map!Insert
      <4> QED BY <3>1, <3>3, <4>5 DEF Map!Next, Map!Body, Body
    <3>4. CASE Updates(t, i)
      <4> DEFINE C == {c \in Columns : b[c] # reqs[t].read[c]}
                 old == rows[i].body
      <4>1. /\ i \in Of(u, k) /\ rows[i] \in Record /\ rows[i] # None
            /\ rows[i].user = u /\ rows[i].key = k /\ old \in Body
        BY <1>2, <2>2, <3>4 DEF Updates, Inv, Of, Record
      <4>2. RecordOf(p) = old /\ old # None
        BY <1>2, <4>1, Lookup, NoneAssumption DEF Inv
      <4>3. rows'[i] = [rows[i] EXCEPT !.body = Merge(reqs[t], old)]
        BY <1>2, <2>2, <3>4 DEF Updates, Inv
      <4>4. Merge(reqs[t], old) = [c \in Columns |-> IF c \in C THEN b[c] ELSE old[c]]
        BY DEF Merge
      <4>5. Merge(reqs[t], old) \in Body
        BY <3>1, <3>4, <4>1, <4>4 DEF Body
      <4>6. i \in Of(u, k)' /\ rows'[i].body = Merge(reqs[t], old)
        <5> DEFINE new == Merge(reqs[t], old)
        <5> HIDE DEF new
        <5>1. [rows[i] EXCEPT !.body = new] \in Record
          BY <4>1, <4>5 DEF Record, new
        <5>2. rows'[i] # None /\ rows'[i].user = u /\ rows'[i].key = k /\ rows'[i].body = new
          BY <4>1, <4>3, <5>1, Nothing DEF Record, new
        <5> QED BY <5>2 DEF Of, new
      <4>7. RecordOf(p)' = [c \in Columns |-> IF c \in C THEN b[c] ELSE RecordOf(p)[c]]
        BY <1>2, <4>2, <4>4, <4>6, LookupNext DEF Inv
      <4>8. Map!Update(p, b)
        <5>1. C \in SUBSET Columns /\ rec[p] = RecordOf(p)
          BY <3>1
        <5>2. rec' = [rec EXCEPT ![p] =
                        [c \in Columns |-> IF c \in C THEN b[c] ELSE rec[p][c]]]
          BY <3>2, <4>7, <5>1
        <5> QED BY <4>2, <5>1, <5>2 DEF Map!Update
      <4> QED BY <3>1, <3>4, <4>8 DEF Map!Next, Map!Body, Body
    <3>5. CASE Removes(t, i)
      <4>1. i \in Of(u, k) /\ rows[i] \in Record
        BY <1>2, <2>2, <3>5 DEF Removes, Inv, Of
      <4>2. RecordOf(p) # None
        BY <1>2, <4>1, Lookup, NoneAssumption DEF Inv, Record
      <4>3. Of(u, k)' = {}
        BY <1>2, <2>2, <3>5, <4>1 DEF Removes, Inv, OneRowPerKey, Of
      <4>4. RecordOf(p)' = None
        BY <1>2, <4>3, LookupNext DEF Inv
      <4>5. Map!Delete(p)
        BY <3>1, <3>2, <4>2, <4>4 DEF Map!Delete
      <4> QED BY <3>1, <4>5 DEF Map!Next
    <3> QED BY <2>2, <3>3, <3>4, <3>5 DEF Writes
  <2>3. ASSUME NEW t \in Threads, NEW i \in Ids, Writes(t, i)
        PROVE  Map!Next
    BY <2>2, <2>3 DEF Writes
  <2> QED BY <1>2, <2>1, <2>3, StepWrites
<1> QED BY <1>1, <1>2, Invariant, PTL DEF Spec, ImplementsRecordMap, Map!Spec

=============================================================================
