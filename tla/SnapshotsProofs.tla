-------------------------- MODULE SnapshotsProofs --------------------------
(***************************************************************************)
(* Proofs about Snapshots for every set of threads, days and bodies and    *)
(* any number of uploads.  The inductive invariant says what an upload     *)
(* that nobody overlaps still knows when it commits (AloneOK), what others *)
(* can have done to the header of one that is overlapped (RivalsOK), what  *)
(* the tables hold after the last commit of a day (DayOK), and which       *)
(* headers and rows a download has (Shape).                                *)
(***************************************************************************)
EXTENDS Snapshots, Induction

UploadPCs == {"select", "delete", "wait", "header", "commit"}

(* What the steps of a request find in its transaction q.  The headers of  *)
(* a download are of different days, and it has no rows of those that are  *)
(* still to be read.                                                       *)
UploadShape(q) ==
    /\ q.key \in Keys /\ q.body \in Bodies /\ q.id \in 1 .. uploads /\ q.left = {}
    /\ \A b \in q.targets \cup q.deleted : b.key = q.key
    /\ q.pc \in {"select", "delete", "wait"} => q.deleted = {} /\ ~q.locked
    /\ q.pc \in {"delete", "wait"} => q.found # None
    /\ q.pc = "header" => ~q.locked
    /\ q.found # None => headers[q.key] # None
    /\ q.pc = "commit" /\ ~q.locked =>
          /\ q.found # None
          /\ \A c \in Columns : SameValue(q.found.cols[c], q, c)
DownloadShape(q) ==
    /\ q.key = None /\ q.body = None /\ q.deleted = {} /\ ~q.locked
    /\ q.pc = "idle" => q.left = {} /\ q.targets = {}
    /\ q.pc = "read" => q.left # {}
    /\ \A s, o \in q.left : s.key = o.key => s = o
    /\ \A s \in q.left, b \in q.targets : b.key # s.key
Shape(q) == IF q.pc \in UploadPCs THEN UploadShape(q) ELSE DownloadShape(q)

(* No column of a header is newer than the last commit of its day, if that *)
(* one ran alone, and all are older than an upload that runs alone now.    *)
NotNewer(s) ==
    /\ headers[s.key] # None
    /\ \A c \in Columns :
          /\ s.cols[c].id <= uploads
          /\ Alone(s.key) => s.cols[c].id <= latest[s.key].batch.id
          /\ \A t \in Threads :
               Uploading(t, s.key) /\ tx[t].rivals = {} => s.cols[c].id < tx[t].id

(* What an upload t knows, with transaction q, that no other upload of its *)
(* day has overlapped.                                                     *)
AloneOK(t, q) ==
    q.pc \in UploadPCs /\ q.rivals = {} =>
        /\ \A o \in Others(t) : ~Uploading(o, q.key)
        /\ q.pc # "select" => q.found = headers[q.key]
        /\ q.pc = "wait" => q.targets = ItemsOf(q.key)
        /\ q.pc \in {"header", "commit"} => q.deleted = ItemsOf(q.key)

(* What an upload knows of those it overlaps: they are its rivals, and     *)
(* only a rival has written a column since it read the header.             *)
RivalsOK(t, q) ==
    q.pc \in UploadPCs =>
        /\ \A o \in Others(t) : Uploading(o, q.key) => tx[o].id \in q.rivals
        /\ q.found # None =>
              /\ headers[q.key] # None
              /\ \A c \in Columns : \/ q.found.cols[c] = headers[q.key].cols[c]
                                     \/ headers[q.key].cols[c].id \in q.rivals

DayOK(k) ==
    /\ headers[k] # None => headers[k].key = k /\ latest[k].batch # None
    /\ ItemsOf(k) # {} => headers[k] # None
    /\ latest[k].batch # None =>
          /\ latest[k].batch.key = k
          /\ headers[k] # None
          /\ Stored(latest[k].batch) \subseteq ItemsOf(k)
          /\ Alone(k) => IsUpload(k, latest[k].batch)
          /\ \A c \in Columns : \/ SameValue(headers[k].cols[c], latest[k].batch, c)
                                 \/ headers[k].cols[c].id \in latest[k].rivals

HeaderIdsOK ==
    /\ \A k \in Keys : headers[k] # None => NotNewer(headers[k])
    /\ \A t \in Threads : \A s \in tx[t].left : NotNewer(s)

Inv ==
    /\ TypeOK
    /\ \A t \in Threads : Shape(tx[t]) /\ AloneOK(t, tx[t]) /\ RivalsOK(t, tx[t])
    /\ \A k \in Keys : DayOK(k)
    /\ HeaderIdsOK

-----------------------------------------------------------------------------
(* NULL is nothing else.                                                   *)
LEMMA Nothing ==
    /\ \A b \in Batch \cup Header : b # None
    /\ \A k \in Keys : k # None
    /\ \A b \in Bodies : b # None
BY NoneAssumption, BodiesAssumption

(* The invariant holds on empty tables.                                    *)
LEMMA InitInv == Init => Inv
<1> SUFFICES ASSUME Init PROVE Inv
  OBVIOUS
<1>1. Idle \in TxType /\ Idle.pc = "idle"
  BY BodiesAssumption DEF Idle, TxType, PCs
<1>2. TypeOK
  BY <1>1, BodiesAssumption DEF Init, TypeOK
<1>3. \A t \in Threads : Shape(tx[t]) /\ AloneOK(t, tx[t]) /\ RivalsOK(t, tx[t])
  BY DEF Init, Idle, Shape, UploadPCs, DownloadShape, AloneOK, RivalsOK
<1>4. \A k \in Keys : DayOK(k)
  BY DEF Init, DayOK, ItemsOf
<1>5. HeaderIdsOK
  BY DEF Init, HeaderIdsOK, Idle
<1> QED BY <1>2, <1>3, <1>4, <1>5 DEF Inv

(* The oldest of the headers that are still to be read is one of them.     *)
LEMMA OldestIsLeft ==
    ASSUME NEW S \in SUBSET Header, S # {},
           \A s, o \in S : s.key = o.key => s = o
    PROVE  Oldest(S) \in S
<1> DEFINE K == {s.key : s \in S}
<1>1. K \in SUBSET Keys /\ K # {}
  BY DEF Header
<1>2. K \in SUBSET Int /\ IsFiniteSet(K)
  BY <1>1, BodiesAssumption, FS_Subset
<1>3. PICK n \in K : \A y \in K : n <= y
  BY <1>1, <1>2, LeastOfFinite
<1>4. \E s \in S : \A o \in S : s.key <= o.key
  BY <1>3
<1> QED BY <1>4 DEF Oldest

(* A step of one transaction that writes no table, keeps or gives up what  *)
(* it uploads, and has no header that it did not have or read just now.    *)
LEMMA MoveInv ==
    ASSUME Inv, NEW t \in Threads, NEW q \in TxType,
           tx' = [tx EXCEPT ![t] = q],
           UNCHANGED <<headers, items, uploads, latest>>,
           Shape(q), AloneOK(t, q), RivalsOK(t, q),
           \/ /\ q.key = tx[t].key /\ q.body = tx[t].body
              /\ q.id = tx[t].id /\ q.rivals = tx[t].rivals
           \/ q.body = None,
           \A s \in q.left : s \in tx[t].left \/ \E k \in Keys : s = headers[k] /\ s # None
    PROVE  Inv'
<1>1. \A o \in Threads : tx'[o] = IF o = t THEN q ELSE tx[o]
  BY DEF Inv, TypeOK
<1>2. TypeOK'
  BY DEF Inv, TypeOK
<1>3. \A o \in Threads, k \in Keys : Uploading(o, k)' =>
         Uploading(o, k) /\ tx'[o].id = tx[o].id /\ tx'[o].rivals = tx[o].rivals
  BY <1>1 DEF Uploading
<1>4. ASSUME NEW o \in Threads
      PROVE  Shape(tx[o])' /\ AloneOK(o, tx[o])' /\ RivalsOK(o, tx[o])'
  <2>1. Shape(tx'[o]) /\ AloneOK(o, tx'[o]) /\ RivalsOK(o, tx'[o])
    BY <1>1 DEF Inv
  <2>2. Shape(tx[o])'
    BY <2>1 DEF Shape, UploadShape, DownloadShape
  <2>3. AloneOK(o, tx[o])'
    BY <2>1, <2>2, <1>3 DEF AloneOK, Others, ItemsOf, Shape, UploadShape
  <2>4. RivalsOK(o, tx[o])'
    BY <2>1, <2>2, <1>3 DEF RivalsOK, Others, Shape, UploadShape
  <2> QED BY <2>2, <2>3, <2>4
<1>5. \A k \in Keys : DayOK(k)'
  BY DEF Inv, DayOK, ItemsOf, IsUpload, Alone
<1>6. ASSUME NEW s, s.key \in Keys, NotNewer(s) PROVE NotNewer(s)'
  BY <1>3, <1>6 DEF NotNewer, Alone
<1>7. HeaderIdsOK'
  <2>1. \A k \in Keys : headers[k] # None => headers[k].key \in Keys
    BY DEF Inv, DayOK
  <2>2. \A o \in Threads : \A s \in tx[o].left : s.key \in Keys
    BY DEF Inv, TypeOK, TxType, Header
  <2> QED BY <1>1, <1>6, <2>1, <2>2 DEF Inv, HeaderIdsOK
<1> QED BY <1>2, <1>4, <1>5, <1>7 DEF Inv

-----------------------------------------------------------------------------
(* A new upload: those that are open for its day now overlap it, and it    *)
(* them.                                                                   *)
LEMMA IngestInv ==
    ASSUME Inv, NEW t \in Threads, NEW k \in Keys, NEW b \in Bodies,
           IngestSnapshot(t, k, b)
    PROVE  Inv'
<1> DEFINE q == [Idle EXCEPT !.pc = "select", !.key = k, !.body = b,
                             !.id = uploads + 1,
                             !.rivals = {tx[o].id : o \in Open(k)}]
<1>1. /\ tx[t].pc = "idle" /\ uploads < MaxUploads /\ uploads' = uploads + 1
      /\ tx' = [s \in Threads |->
                  IF s = t THEN q
                  ELSE [tx[s] EXCEPT !.rivals =
                          IF s \in Open(k) THEN @ \cup {uploads + 1} ELSE @]]
      /\ UNCHANGED <<headers, items, latest>>
  BY DEF IngestSnapshot
<1>f. UNCHANGED <<headers, items, latest>>
  BY <1>1
<1>2. /\ uploads \in 0 .. MaxUploads /\ uploads' \in 0 .. MaxUploads
      /\ uploads + 1 = uploads' /\ uploads' \in Nat /\ MaxUploads \in Nat
      /\ uploads' \in 1 .. MaxUploads
  <2>1. MaxUploads \in Nat /\ uploads \in 0 .. MaxUploads
    BY BodiesAssumption DEF Inv, TypeOK
  <2>2. uploads < MaxUploads /\ uploads' = uploads + 1
    BY <1>1
  <2> QED BY <2>1, <2>2
<1>3. /\ q.pc = "select" /\ q.key = k /\ q.body = b /\ q.id = uploads'
      /\ q.found = None /\ q.targets = {} /\ q.deleted = {} /\ q.left = {}
      /\ q.locked = FALSE /\ q.rivals = {tx[o].id : o \in Open(k)}
      /\ q \in TxType
  <2>1. \A o \in Open(k) : tx[o].id \in 1 .. MaxUploads
    BY <1>2, Nothing DEF Open, Uploading, Inv, Shape, UploadShape, DownloadShape
  <2>2. {tx[o].id : o \in Open(k)} \in SUBSET (1 .. MaxUploads)
    BY <2>1
  <2> DEFINE R == {tx[o].id : o \in Open(k)}
  <2>3. uploads + 1 \in 0 .. MaxUploads /\ uploads + 1 = uploads'
    BY <1>2
  <2>4. q = [Idle EXCEPT !.pc = "select", !.key = k, !.body = b, !.id = uploads + 1,
                         !.rivals = R]
    OBVIOUS
  <2> HIDE DEF R, q
  <2> QED BY <2>2, <2>3, <2>4 DEF Idle, TxType, PCs, R
<1>4. ASSUME NEW o \in Threads, o # t
      PROVE  /\ tx'[o] \in TxType
             /\ tx'[o].pc = tx[o].pc /\ tx'[o].key = tx[o].key
             /\ tx'[o].body = tx[o].body /\ tx'[o].id = tx[o].id
             /\ tx'[o].found = tx[o].found /\ tx'[o].targets = tx[o].targets
             /\ tx'[o].deleted = tx[o].deleted /\ tx'[o].locked = tx[o].locked
             /\ tx'[o].left = tx[o].left
             /\ tx[o].rivals \subseteq tx'[o].rivals
             /\ Uploading(o, k) => uploads' \in tx'[o].rivals
             /\ ~Uploading(o, k) => tx'[o].rivals = tx[o].rivals
  <2>1. tx[o] \in TxType
    BY DEF Inv, TypeOK
  <2> DEFINE R == IF Uploading(o, k) THEN tx[o].rivals \cup {uploads'} ELSE tx[o].rivals
  <2>2. tx'[o] = [tx[o] EXCEPT !.rivals = R]
    BY <1>1, <1>2, <1>4 DEF Open
  <2>3. uploads' \in 1 .. MaxUploads
    BY <1>2
  <2>4. R \in SUBSET (1 .. MaxUploads)
    BY <2>1, <2>3 DEF TxType
  <2> HIDE DEF R
  <2>5. /\ tx'[o] \in TxType /\ tx'[o].rivals = R
        /\ tx'[o].pc = tx[o].pc /\ tx'[o].key = tx[o].key
        /\ tx'[o].body = tx[o].body /\ tx'[o].id = tx[o].id
        /\ tx'[o].found = tx[o].found /\ tx'[o].targets = tx[o].targets
        /\ tx'[o].deleted = tx[o].deleted /\ tx'[o].locked = tx[o].locked
        /\ tx'[o].left = tx[o].left
    BY <2>1, <2>2, <2>4 DEF TxType
  <2> QED BY <2>5 DEF R
<1>5. tx'[t] = q /\ tx[t].body = None /\ tx[t].left = {}
  BY <1>1 DEF Inv, Shape, DownloadShape, UploadPCs
<1> HIDE DEF q
<1>6. TypeOK'
  <2>1. \A o \in Threads : tx'[o] \in TxType
    BY <1>3, <1>4, <1>5
  <2>2. tx' \in [Threads -> TxType]
    BY <2>1, <1>1
  <2> QED BY <1>1, <1>2, <2>2 DEF Inv, TypeOK
<1>7. \A o \in Threads, d \in Keys : Uploading(o, d)' =>
         \/ o = t /\ d = k
         \/ o # t /\ Uploading(o, d) /\ (tx'[o].rivals = {} => d # k /\ tx[o].rivals = {})
  BY <1>3, <1>4, <1>5 DEF Uploading
<1>8. ASSUME NEW o \in Threads
      PROVE  Shape(tx[o])' /\ AloneOK(o, tx[o])' /\ RivalsOK(o, tx[o])'
  <2>1. CASE o = t
    <3>1. Shape(tx[o])'
      BY <2>1, <1>2, <1>3, <1>5 DEF Shape, UploadShape, UploadPCs
    <3>2. AloneOK(o, tx[o])'
      BY <2>1, <1>3, <1>5, <1>7 DEF AloneOK, Others, Open
    <3>3. RivalsOK(o, tx[o])'
      BY <2>1, <1>3, <1>4, <1>5, <1>7 DEF RivalsOK, Others, Open
    <3> QED BY <3>1, <3>2, <3>3
  <2>2. CASE o # t
    <3>1. Shape(tx[o]) /\ AloneOK(o, tx[o]) /\ RivalsOK(o, tx[o])
      BY DEF Inv
    <3>0. /\ tx'[o].pc = tx[o].pc /\ tx'[o].key = tx[o].key
          /\ tx'[o].body = tx[o].body /\ tx'[o].id = tx[o].id
          /\ tx'[o].found = tx[o].found /\ tx'[o].targets = tx[o].targets
          /\ tx'[o].deleted = tx[o].deleted /\ tx'[o].locked = tx[o].locked
          /\ tx'[o].left = tx[o].left /\ tx[o].rivals \subseteq tx'[o].rivals
      BY <2>2, <1>4
    <3>2. Shape(tx[o])'
      <4>1. CASE tx[o].pc \in UploadPCs
        <5>1. UploadShape(tx[o]) /\ tx[o].id \in 1 .. uploads'
          BY <3>1, <4>1, <1>2 DEF Shape, UploadShape
        <5>2. UploadShape(tx[o])'
          BY <3>0, <5>1, <1>f DEF UploadShape, SameValue
        <5> QED BY <3>0, <4>1, <5>2 DEF Shape
      <4>2. CASE tx[o].pc \notin UploadPCs
        BY <3>0, <3>1, <4>2 DEF Shape, DownloadShape
      <4> QED BY <4>1, <4>2
    <3>3. AloneOK(o, tx[o])'
      <4> SUFFICES ASSUME tx'[o].pc \in UploadPCs, tx'[o].rivals = {}
                   PROVE  AloneOK(o, tx[o])'
        BY DEF AloneOK
      <4>1. tx[o].key \in Keys /\ tx[o].rivals = {} /\ Uploading(o, tx[o].key)
        BY <3>0, <3>1, Nothing DEF Shape, UploadShape, Uploading
      <4>2. tx[o].key # k
        BY <2>2, <4>1, <1>4
      <4>3. tx[o].pc \in UploadPCs
        BY <3>0
      <4>4. /\ \A p \in Others(o) : ~Uploading(p, tx[o].key)
            /\ tx[o].pc # "select" => tx[o].found = headers[tx[o].key]
            /\ tx[o].pc = "wait" => tx[o].targets = ItemsOf(tx[o].key)
            /\ tx[o].pc \in {"header", "commit"} => tx[o].deleted = ItemsOf(tx[o].key)
        BY <3>1, <4>1, <4>3 DEF AloneOK
      <4>5. ASSUME NEW p \in Others(o) PROVE ~Uploading(p, tx[o].key)'
        <5>1. p \in Threads /\ ~Uploading(p, tx[o].key)
          BY <4>4 DEF Others
        <5>2. Uploading(p, tx[o].key)' <=> tx'[p].key = tx[o].key /\ tx'[p].body # None
          BY <3>0 DEF Uploading
        <5>3. tx[o].key \in Keys /\ tx[o].key # k
          BY <4>1, <4>2
        <5> QED BY <5>1, <5>2, <5>3, <1>7 DEF Uploading
      <4>6. headers'[tx[o].key] = headers[tx[o].key]
        BY <1>f
      <4>7. ItemsOf(tx[o].key)' = ItemsOf(tx[o].key)
        BY <3>0, <1>f DEF ItemsOf
      <4> QED BY <3>0, <4>4, <4>5, <4>6, <4>7 DEF AloneOK
    <3>4. RivalsOK(o, tx[o])'
      <4> SUFFICES ASSUME tx[o].pc \in UploadPCs
                   PROVE  RivalsOK(o, tx[o])'
        BY <3>0 DEF RivalsOK
      <4>1. tx[o].key \in Keys /\ Uploading(o, tx[o].key)
        BY <3>1, Nothing DEF Shape, UploadShape, Uploading
      <4>2. ASSUME NEW p \in Others(o), Uploading(p, tx[o].key)'
            PROVE  tx'[p].id \in tx'[o].rivals
        <5>1. CASE p = t
          <6>1. tx[o].key = k
            BY <3>0, <4>2, <5>1, <1>3, <1>5 DEF Uploading
          <6>2. uploads' \in tx'[o].rivals
            BY <2>2, <4>1, <6>1, <1>4
          <6> QED BY <5>1, <6>2, <1>3, <1>5
        <5>2. CASE p # t
          <6>1. p \in Threads /\ tx'[p].id = tx[p].id /\ Uploading(p, tx[o].key)
            BY <3>0, <4>2, <5>2, <1>4 DEF Others, Uploading
          <6>2. tx[p].id \in tx[o].rivals
            BY <3>1, <4>2, <6>1 DEF RivalsOK
          <6> QED BY <3>0, <6>1, <6>2
        <5> QED BY <5>1, <5>2
      <4>3. RivalsOK(o, tx[o])
        BY <3>1
      <4> QED BY <3>0, <4>2, <4>3, <1>f DEF RivalsOK
    <3> QED BY <3>2, <3>3, <3>4
  <2> QED BY <2>1, <2>2
<1>9. \A d \in Keys : DayOK(d)'
  BY <1>1 DEF Inv, DayOK, ItemsOf, IsUpload, Alone
<1>10. ASSUME NEW s, s.key \in Keys, \A c \in Columns : s.cols[c].id \in Nat, NotNewer(s)
       PROVE  NotNewer(s)'
  <2>1. ASSUME NEW o \in Threads, Uploading(o, s.key)', tx'[o].rivals = {}, NEW c \in Columns
        PROVE  s.cols[c].id < tx'[o].id
    <3>1. CASE o = t
      BY <3>1, <1>2, <1>3, <1>5, <1>10 DEF NotNewer
    <3>2. CASE o # t
      BY <3>2, <2>1, <1>4, <1>7, <1>10 DEF NotNewer
    <3> QED BY <3>1, <3>2
  <2> QED BY <1>1, <1>2, <2>1, <1>10 DEF NotNewer, Alone
<1>11. HeaderIdsOK'
  <2>1. \A d \in Keys : headers[d] # None => /\ headers[d].key \in Keys
                                           /\ \A c \in Columns : headers[d].cols[c].id \in Nat
    BY BodiesAssumption DEF Inv, DayOK, TypeOK, Header, Batch
  <2>2. \A o \in Threads : \A s \in tx[o].left : /\ s.key \in Keys
                                                 /\ \A c \in Columns : s.cols[c].id \in Nat
    BY BodiesAssumption DEF Inv, TypeOK, TxType, Header, Batch
  <2>3. \A o \in Threads : tx'[o].left = tx[o].left
    BY <1>3, <1>4, <1>5
  <2> QED BY <1>1, <1>10, <2>1, <2>2, <2>3 DEF Inv, HeaderIdsOK
<1> QED BY <1>6, <1>8, <1>9, <1>11 DEF Inv

(* The steps between.                                                      *)
LEMMA SelectHeaderInv ==
    ASSUME Inv, NEW t \in Threads, SelectHeader(t)
    PROVE  Inv'
<1> DEFINE k == tx[t].key
           q == [tx[t] EXCEPT !.found = headers[k],
                              !.pc = IF headers[k] = None THEN "header" ELSE "delete"]
<1>1. /\ tx[t] \in TxType /\ Shape(tx[t]) /\ AloneOK(t, tx[t]) /\ RivalsOK(t, tx[t]) /\ tx[t].pc = "select"
      /\ tx' = [tx EXCEPT ![t] = q]
  BY DEF Inv, TypeOK, SelectHeader
<1>2. UploadShape(tx[t]) /\ headers[k] \in Header \cup {None} /\ DayOK(k)
  BY <1>1 DEF Shape, UploadShape, UploadPCs, Inv, TypeOK
<1>3. q \in TxType
  BY <1>1, <1>2 DEF TxType, PCs
<1>4. Shape(q)
  BY <1>1, <1>2 DEF Shape, UploadShape, UploadPCs, TxType
<1>5. AloneOK(t, q)
  BY <1>1, <1>2, <1>4 DEF AloneOK, DayOK, UploadShape, UploadPCs, TxType
<1>r. RivalsOK(t, q)
  BY <1>1, <1>2, <1>4 DEF RivalsOK, DayOK, UploadShape, UploadPCs, TxType
<1> QED BY <1>1, <1>2, <1>3, <1>4, <1>5, <1>r, MoveInv DEF SelectHeader, UploadShape, TxType

(* Choosing the rows to delete keeps the invariant.                        *)
LEMMA DeleteItemsInv ==
    ASSUME Inv, NEW t \in Threads, DeleteItems(t)
    PROVE  Inv'
<1> DEFINE q == [tx[t] EXCEPT !.targets = ItemsOf(tx[t].key), !.pc = "wait"]
<1>1. /\ tx[t] \in TxType /\ Shape(tx[t]) /\ AloneOK(t, tx[t]) /\ RivalsOK(t, tx[t]) /\ tx[t].pc = "delete"
      /\ tx' = [tx EXCEPT ![t] = q]
  BY DEF Inv, TypeOK, DeleteItems
<1>2. UploadShape(tx[t]) /\ ItemsOf(tx[t].key) \in SUBSET Batch
      /\ \A b \in ItemsOf(tx[t].key) : b.key = tx[t].key
  BY <1>1 DEF Shape, UploadPCs, Inv, TypeOK, ItemsOf
<1>3. q \in TxType
  BY <1>1, <1>2 DEF TxType, PCs
<1>4. Shape(q)
  BY <1>1, <1>2 DEF Shape, UploadShape, UploadPCs, TxType
<1>5. AloneOK(t, q)
  BY <1>1, <1>2, <1>4 DEF AloneOK, UploadPCs, TxType
<1>r. RivalsOK(t, q)
  BY <1>1, <1>2, <1>4 DEF RivalsOK, UploadPCs, TxType
<1> QED BY <1>1, <1>2, <1>3, <1>4, <1>5, <1>r, MoveInv DEF DeleteItems, UploadShape, TxType

(* Deleting those that are still there keeps it.                           *)
LEMMA DeleteLockedInv ==
    ASSUME Inv, NEW t \in Threads, DeleteLocked(t)
    PROVE  Inv'
<1> DEFINE q == [tx[t] EXCEPT !.deleted = tx[t].targets \cap items, !.pc = "header"]
<1>1. /\ tx[t] \in TxType /\ Shape(tx[t]) /\ AloneOK(t, tx[t]) /\ RivalsOK(t, tx[t]) /\ tx[t].pc = "wait"
      /\ tx' = [tx EXCEPT ![t] = q]
  BY DEF Inv, TypeOK, DeleteLocked
<1>2. UploadShape(tx[t]) /\ tx[t].targets \cap items \in SUBSET Batch
  BY <1>1 DEF Shape, UploadPCs, Inv, TypeOK
<1>3. q \in TxType
  BY <1>1, <1>2 DEF TxType, PCs
<1>4. Shape(q)
  BY <1>1, <1>2 DEF Shape, UploadShape, UploadPCs, TxType
<1>5. AloneOK(t, q)
  BY <1>1, <1>2, <1>4 DEF AloneOK, UploadPCs, TxType, ItemsOf
<1>r. RivalsOK(t, q)
  BY <1>1, <1>2, <1>4 DEF RivalsOK, UploadPCs, TxType
<1> QED BY <1>1, <1>2, <1>3, <1>4, <1>5, <1>r, MoveInv DEF DeleteLocked, UploadShape, TxType

(* A request that ends without a commit gives up what it held.             *)
LEMMA EndInv ==
    ASSUME Inv, NEW t \in Threads, tx' = [tx EXCEPT ![t] = Idle],
           UNCHANGED <<headers, items, uploads, latest>>
    PROVE  Inv'
<1>1. Idle \in TxType /\ Idle.body = None /\ Idle.left = {}
  BY BodiesAssumption DEF Idle, TxType, PCs
<1>2. Shape(Idle) /\ AloneOK(t, Idle) /\ RivalsOK(t, Idle)
  BY DEF Idle, Shape, UploadPCs, DownloadShape, AloneOK, RivalsOK
<1> QED BY <1>1, <1>2, MoveInv

(* Writing the header keeps it.                                            *)
LEMMA FlushHeaderInv ==
    ASSUME Inv, NEW t \in Threads, FlushHeader(t)
    PROVE  Inv'
<1>1. tx[t] \in TxType /\ Shape(tx[t]) /\ AloneOK(t, tx[t]) /\ RivalsOK(t, tx[t]) /\ tx[t].pc = "header"
  BY DEF Inv, TypeOK, FlushHeader
<1>2. UploadShape(tx[t])
  BY <1>1 DEF Shape, UploadPCs
<1>3. CASE tx' = [tx EXCEPT ![t] = Idle]
  BY <1>3, EndInv DEF FlushHeader
<1>4. CASE /\ Unchanged(t)
           /\ tx' = [tx EXCEPT ![t].pc = "commit"]
  <2> DEFINE q == [tx[t] EXCEPT !.pc = "commit"]
  <2>1. q \in TxType /\ tx' = [tx EXCEPT ![t] = q]
    BY <1>1, <1>4 DEF TxType, PCs
  <2>2. Shape(q)
    BY <1>1, <1>2, <1>4 DEF Shape, UploadShape, UploadPCs, TxType, Unchanged, Changed, SameValue
  <2>3. AloneOK(t, q)
    BY <1>1, <1>2, <2>2 DEF AloneOK, UploadPCs, TxType
  <2>r. RivalsOK(t, q)
    BY <1>1, <1>2, <2>2 DEF RivalsOK, UploadPCs, TxType
  <2> QED BY <1>1, <1>2, <2>1, <2>2, <2>3, <2>r, MoveInv DEF FlushHeader, UploadShape, TxType
<1>5. CASE tx' = [tx EXCEPT ![t].locked = TRUE, ![t].pc = "commit"]
  <2> DEFINE q == [tx[t] EXCEPT !.locked = TRUE, !.pc = "commit"]
  <2>1. q \in TxType /\ tx' = [tx EXCEPT ![t] = q]
    BY <1>1, <1>5 DEF TxType, PCs, Inv, TypeOK
  <2>2. Shape(q)
    BY <1>1, <1>2 DEF Shape, UploadShape, UploadPCs, TxType
  <2>3. AloneOK(t, q)
    BY <1>1, <1>2, <2>2 DEF AloneOK, UploadPCs, TxType
  <2>r. RivalsOK(t, q)
    BY <1>1, <1>2, <2>2 DEF RivalsOK, UploadPCs, TxType
  <2> QED BY <1>1, <1>2, <2>1, <2>2, <2>3, <2>r, MoveInv DEF FlushHeader, UploadShape, TxType
<1> QED BY <1>3, <1>4, <1>5 DEF FlushHeader

(* A commit: what it deletes is of its own day, and all of the day if      *)
(* nobody overlapped it.                                                   *)
LEMMA CommitInv ==
    ASSUME Inv, NEW t \in Threads, Commit(t)
    PROVE  Inv'
<1>0. PICK q, k, new, head, own :
        /\ q = tx[t] /\ k = tx[t].key /\ new = NewBatch(t) /\ head = NewHeader(t)
        /\ own = Changed(t)
  OBVIOUS
<1>1. /\ q = tx[t] /\ q.key = k /\ q \in TxType /\ UploadShape(q) /\ AloneOK(t, q) /\ RivalsOK(t, q) /\ q.pc = "commit"
      /\ k \in Keys /\ q.body \in Bodies /\ q.id \in 1 .. uploads
      /\ uploads \in 0 .. MaxUploads
  BY <1>0 DEF Inv, TypeOK, Commit, Shape, UploadPCs, UploadShape
<1>2. /\ new.key = k /\ new.body = q.body /\ new.id = q.id
      /\ new \in Batch /\ new # None
  <2>1. MaxUploads \in Nat
    BY BodiesAssumption
  <2>2. q.id \in 1 .. MaxUploads
    BY <1>1, <2>1
  <2> QED BY <1>0, <1>1, <2>2, Nothing DEF NewBatch, Batch
<1>h. /\ head.key = k
      /\ \A c \in Columns : head.cols[c] = IF c \in own THEN new ELSE headers[k].cols[c]
      /\ own = {c \in Columns : q.found = None \/ ~SameValue(q.found.cols[c], q, c)}
      /\ headers[k] = None => own = Columns
      /\ head \in Header /\ head # None
  <2>1. /\ head = [key |-> k, cols |-> [c \in Columns |->
                       IF c \in own THEN new ELSE headers[k].cols[c]]]
        /\ own = {c \in Columns : q.found = None \/ ~SameValue(q.found.cols[c], q, c)}
    BY <1>0 DEF NewHeader, Changed
  <2>2. headers[k] = None => own = Columns
    BY <1>1, <2>1 DEF UploadShape
  <2>3. headers[k] # None => \A c \in Columns : headers[k].cols[c] \in Batch
    BY <1>1 DEF Inv, TypeOK, Header
  <2>4. head \in Header
    BY <1>1, <1>2, <2>1, <2>2, <2>3 DEF Header
  <2> QED BY <2>1, <2>2, <2>4, Nothing
<1>3. /\ \A d \in Keys : headers'[d] = IF d = k /\ q.locked THEN head ELSE headers[d]
      /\ headers' \in [Keys -> Header \cup {None}]
  BY <1>0, <1>1, <1>h DEF Commit, Inv, TypeOK
<1>4. /\ \A d \in Keys : latest'[d] = IF d = k THEN [batch |-> new, rivals |-> q.rivals]
                                      ELSE latest[d]
      /\ latest' \in [Keys -> [batch : Batch \cup {None},
                           rivals : SUBSET (1 .. MaxUploads)]]
  BY <1>0, <1>1, <1>2 DEF Commit, Inv, TypeOK, TxType
<1>5. /\ items' = (items \ q.deleted) \cup (IF q.body \in NoItems THEN {} ELSE {new})
      /\ items' \subseteq Batch
  BY <1>0, <1>2 DEF Commit, Inv, TypeOK
<1>6. /\ Idle \in TxType /\ Idle.body = None /\ Idle.left = {} /\ Idle.pc = "idle"
      /\ Shape(Idle)'
  BY BodiesAssumption DEF Idle, TxType, PCs, Shape, UploadPCs, DownloadShape
<1>7. /\ tx'[t] = Idle /\ \A o \in Threads \ {t} : tx'[o] = tx[o]
      /\ tx' \in [Threads -> TxType] /\ uploads' = uploads
  BY <1>6 DEF Commit, Inv, TypeOK
<1>8. Stored(new) = (IF q.body \in NoItems THEN {} ELSE {new})
  BY <1>2 DEF Stored
<1>9. /\ ItemsOf(k)' = (ItemsOf(k) \ q.deleted) \cup Stored(new)
      /\ \A d \in Keys \ {k} : ItemsOf(d)' = ItemsOf(d)
  BY <1>1, <1>2, <1>5, <1>8 DEF ItemsOf, UploadShape
<1>10. \A o \in Threads, d \in Keys : Uploading(o, d)' => Uploading(o, d) /\ o # t
  BY <1>6, <1>7 DEF Uploading
<1>11. TypeOK'
  BY <1>1, <1>3, <1>4, <1>5, <1>7 DEF TypeOK
<1>12. headers[k] = None => q.locked /\ q.found = None
  BY <1>1 DEF UploadShape
<1>13. ASSUME NEW o \in Threads
       PROVE  Shape(tx[o])' /\ AloneOK(o, tx[o])' /\ RivalsOK(o, tx[o])'
  <2>1. CASE o = t
    BY <2>1, <1>6, <1>7 DEF AloneOK, RivalsOK, UploadPCs
  <2>2. CASE o # t
    <3>1. Shape(tx[o]) /\ AloneOK(o, tx[o]) /\ RivalsOK(o, tx[o]) /\ tx'[o] = tx[o] /\ tx[o] \in TxType
      BY <2>2, <1>7 DEF Inv, TypeOK
    <3>2. Shape(tx[o])'
      BY <3>1, <1>h, <1>3, <1>7 DEF Shape, UploadShape, DownloadShape, TxType
    <3>3. AloneOK(o, tx[o])'
      <4> SUFFICES ASSUME tx[o].pc \in UploadPCs, tx[o].rivals = {}
                   PROVE  AloneOK(o, tx[o])'
        BY <3>1 DEF AloneOK
      <4>1. tx[o].key \in Keys \ {k}
        BY <2>2, <3>1, <1>1, Nothing DEF Shape, UploadShape, AloneOK, Others, Uploading
      <4> QED BY <3>1, <4>1, <1>3, <1>9, <1>10 DEF AloneOK, Others
    <3>4. RivalsOK(o, tx[o])'
      <4> SUFFICES ASSUME tx[o].pc \in UploadPCs
                   PROVE  RivalsOK(o, tx[o])'
        BY <3>1 DEF RivalsOK
      <4>1. UploadShape(tx[o]) /\ tx[o].key \in Keys
        BY <3>1 DEF Shape, UploadShape
      <4>2. \A p \in Others(o) : Uploading(p, tx[o].key)' => tx'[p].id \in tx[o].rivals
        BY <3>1, <4>1, <1>7, <1>10 DEF RivalsOK, Others
      <4>3. ASSUME tx[o].found # None, NEW c \in Columns
            PROVE  /\ headers'[tx[o].key] # None
                   /\ \/ tx[o].found.cols[c] = headers'[tx[o].key].cols[c]
                      \/ headers'[tx[o].key].cols[c].id \in tx[o].rivals
        <5>1. CASE tx[o].key = k /\ q.locked /\ c \in own
          <6>1. q.id \in tx[o].rivals
            BY <2>2, <3>1, <5>1, <1>0, <1>1, Nothing DEF RivalsOK, Others, Uploading
          <6> QED BY <4>1, <5>1, <6>1, <1>2, <1>3, <1>h
        <5>2. CASE ~(tx[o].key = k /\ q.locked /\ c \in own)
          BY <3>1, <4>1, <4>3, <5>2, <1>3, <1>h DEF RivalsOK
        <5> QED BY <5>1, <5>2
      <4>4. tx[o].found # None => headers'[tx[o].key] # None
        BY <3>1, <4>1, <1>3, <1>h DEF RivalsOK
      <4> QED BY <3>1, <4>2, <4>3, <4>4 DEF RivalsOK
    <3> QED BY <3>2, <3>3, <3>4
  <2> QED BY <2>1, <2>2
<1>14. ASSUME NEW d \in Keys PROVE DayOK(d)'
  <2>1. DayOK(d)
    BY DEF Inv
  <2>2. CASE d # k
    BY <2>1, <2>2, <1>3, <1>4, <1>9 DEF DayOK, IsUpload, Alone
  <2>3. CASE d = k
    <3>1. /\ latest'[k].batch = new /\ latest'[k].rivals = q.rivals
          /\ headers'[k] # None /\ headers'[k].key = k
          /\ Stored(new) \subseteq ItemsOf(k)'
      BY <2>1, <2>3, <1>1, <1>2, <1>3, <1>4, <1>9, <1>12, <1>h DEF DayOK
    <3>2. ASSUME NEW c \in Columns, ~SameValue(headers'[k].cols[c], new, c)
          PROVE  headers'[k].cols[c].id \in q.rivals
      <4>1. \A x : SameValue(x, new, c) <=> SameValue(x, q, c)
        BY <1>2 DEF SameValue
      <4>2. SameValue(new, new, c)
        BY DEF SameValue
      <4>3. c \notin own
        <5>1. CASE q.locked
          BY <3>2, <4>2, <5>1, <1>1, <1>3, <1>h
        <5>2. CASE ~q.locked
          BY <5>2, <1>1, <1>h DEF UploadShape
        <5> QED BY <5>1, <5>2
      <4>4. headers'[k].cols[c] = headers[k].cols[c]
        BY <4>3, <1>1, <1>3, <1>h
      <4>5. q.found # None /\ SameValue(q.found.cols[c], q, c)
        BY <4>3, <1>h
      <4>6. q.found.cols[c] # headers[k].cols[c]
        BY <3>2, <4>1, <4>4, <4>5
      <4> QED BY <4>4, <4>5, <4>6, <1>1 DEF RivalsOK, UploadPCs
    <3>3. ASSUME q.rivals = {} PROVE IsUpload(k, new)'
      <4>1. ItemsOf(k)' = Stored(new)
        BY <3>3, <1>1, <1>9 DEF AloneOK, UploadPCs
      <4>2. \A c \in Columns : SameValue(headers'[k].cols[c], new, c)
        BY <3>2, <3>3
      <4> QED BY <4>1, <4>2, <1>2 DEF IsUpload, Stored, SameValue
    <3>4. /\ Alone(k)' => q.rivals = {}
          /\ latest'[k].batch.key = k
          /\ Stored(latest[k].batch)' \subseteq ItemsOf(k)'
      BY <3>1, <1>2 DEF Alone, Stored
    <3>5. Alone(k)' => IsUpload(k, latest[k].batch)'
      BY <3>1, <3>3, <3>4 DEF IsUpload, Stored, SameValue
    <3>6. \A c \in Columns : \/ SameValue(headers'[k].cols[c], latest'[k].batch, c)
                             \/ headers'[k].cols[c].id \in latest'[k].rivals
      BY <3>1, <3>2
    <3>7. \A c \in Columns : \/ SameValue(headers[k].cols[c], latest[k].batch, c)'
                             \/ (headers[k].cols[c].id \in latest[k].rivals)'
      BY <3>6 DEF SameValue
    <3>8. /\ (headers[k] # None)' /\ (headers[k].key = k)'
          /\ (latest[k].batch # None)' /\ (latest[k].batch.key = k)'
          /\ (Stored(latest[k].batch) \subseteq ItemsOf(k))'
          /\ (Alone(k) => IsUpload(k, latest[k].batch))'
      BY <3>1, <3>4, <3>5, <1>2
    <3>9. DayOK(k)'
      BY <3>7, <3>8 DEF DayOK
    <3> QED BY <2>3, <3>9
  <2> QED BY <2>2, <2>3
<1>15. ASSUME NEW s, s.key \in Keys, \A c \in Columns : s.cols[c].id \in Nat, NotNewer(s)
       PROVE  NotNewer(s)'
  <2>1. headers'[s.key] # None
    BY <1>3, <1>15, <1>h DEF NotNewer
  <2>2. ASSUME NEW c \in Columns
        PROVE  Alone(s.key)' => s.cols[c].id <= latest'[s.key].batch.id
    <3>1. CASE s.key = k
      <4>1. ASSUME q.rivals = {} PROVE s.cols[c].id < q.id
        BY <4>1, <3>1, <1>0, <1>1, <1>15, Nothing DEF NotNewer, Uploading
      <4>2. (Alone(k)' => q.rivals = {}) /\ latest'[k].batch.id = q.id
        BY <1>1, <1>2, <1>4 DEF Alone
      <4>3. /\ q.id \in Nat /\ s.cols[c].id \in Nat
            /\ s.cols[c].id < q.id => s.cols[c].id <= q.id
        BY <1>1, <1>15
      <4> QED BY <3>1, <4>1, <4>2, <4>3, Zenon
    <3>2. CASE s.key # k
      BY <3>2, <1>4, <1>15 DEF NotNewer, Alone
    <3> QED BY <3>1, <3>2
  <2>3. \A o \in Threads : Uploading(o, s.key)' /\ tx'[o].rivals = {} =>
          \A c \in Columns : s.cols[c].id < tx'[o].id
    BY <1>7, <1>10, <1>15 DEF NotNewer
  <2> QED BY <2>1, <2>2, <2>3, <1>7, <1>15 DEF NotNewer
<1>16. q.locked => NotNewer(head)'
  <2> SUFFICES ASSUME q.locked PROVE NotNewer(head)'
    OBVIOUS
  <2>1. headers'[k] # None /\ q.id <= uploads
    BY <1>1, <1>h, <1>3
  <2>2. latest'[k].batch.id = q.id /\ q.id \in Nat
    BY <1>1, <1>2, <1>4
  <2>3. ASSUME NEW o \in Threads, Uploading(o, k)', tx'[o].rivals = {} PROVE FALSE
    <3>1. /\ o # t /\ Uploading(o, k) /\ tx[o].rivals = {}
          /\ AloneOK(o, tx[o]) /\ Shape(tx[o])
      BY <2>3, <1>0, <1>1, <1>7, <1>10 DEF Inv
    <3> QED BY <3>1, <1>0, <1>1, Nothing
            DEF Shape, DownloadShape, AloneOK, Others, Uploading
  <2>4. ASSUME NEW c \in Columns
        PROVE  /\ head.cols[c].id <= uploads
               /\ Alone(k)' => head.cols[c].id <= q.id
    <3>1. CASE c \in own
      BY <3>1, <2>1, <2>2, <1>2, <1>h
    <3>2. CASE c \notin own
      <4>1. headers[k] # None /\ head.cols[c] = headers[k].cols[c]
        BY <3>2, <1>h
      <4>2. NotNewer(headers[k]) /\ headers[k].key = k
        BY <4>1, <1>1 DEF Inv, HeaderIdsOK, DayOK
      <4>3. headers[k].cols[c].id \in Nat
        BY <4>1, <1>1, BodiesAssumption DEF Inv, TypeOK, Header, Batch
      <4>4. q.rivals = {} => headers[k].cols[c].id < q.id
        BY <4>2, <1>0, <1>1, Nothing DEF NotNewer, Uploading
      <4>5. Alone(k)' => q.rivals = {}
        BY <1>1, <1>4 DEF Alone
      <4>6. headers[k].cols[c].id <= uploads
        BY <4>2 DEF NotNewer
      <4>7. Alone(k)' => headers[k].cols[c].id <= q.id
        BY <2>2, <4>3, <4>4, <4>5
      <4> QED BY <4>1, <4>6, <4>7
    <3> QED BY <3>1, <3>2
  <2> QED BY <2>1, <2>2, <2>3, <2>4, <1>7, <1>h DEF NotNewer
<1>17. HeaderIdsOK'
  <2>1. \A d \in Keys : headers[d] # None => /\ headers[d].key \in Keys
                                           /\ \A c \in Columns : headers[d].cols[c].id \in Nat
    BY BodiesAssumption DEF Inv, DayOK, TypeOK, Header, Batch
  <2>2. \A o \in Threads : \A s \in tx[o].left : /\ s.key \in Keys
                                                 /\ \A c \in Columns : s.cols[c].id \in Nat
    BY BodiesAssumption DEF Inv, TypeOK, TxType, Header, Batch
  <2>3. \A d \in Keys : headers'[d] # None => NotNewer(headers[d])'
    <3> SUFFICES ASSUME NEW d \in Keys, headers'[d] # None PROVE NotNewer(headers[d])'
      OBVIOUS
    <3>1. CASE d = k /\ q.locked
      BY <3>1, <1>3, <1>16 DEF NotNewer
    <3>2. CASE ~(d = k /\ q.locked)
      <4>1. headers'[d] = headers[d] /\ NotNewer(headers[d])
        BY <3>2, <1>3 DEF Inv, HeaderIdsOK
      <4>2. PICK h : h = headers[d]
        OBVIOUS
      <4>3. NotNewer(h)'
        BY <4>1, <4>2, <1>15, <2>1
      <4> QED BY <4>1, <4>2, <4>3 DEF NotNewer
    <3> QED BY <3>1, <3>2
  <2>4. \A o \in Threads : \A s \in tx'[o].left : NotNewer(s)'
    BY <1>6, <1>7, <1>15, <2>2 DEF Inv, HeaderIdsOK
  <2> QED BY <2>3, <2>4 DEF HeaderIdsOK
<1> QED BY <1>11, <1>13, <1>14, <1>17 DEF Inv

(* Downloads.                                                              *)
LEMMA DownloadInv ==
    ASSUME Inv, NEW t \in Threads, NEW range \in SUBSET Keys, DownloadSnapshots(t, range)
    PROVE  Inv'
<1> DEFINE snaps == {headers[k] : k \in range} \ {None}
           q == [tx[t] EXCEPT !.pc = IF snaps = {} THEN "done" ELSE "read",
                              !.left = snaps]
<1>1. /\ tx[t] \in TxType /\ Shape(tx[t]) /\ tx[t].pc = "idle"
      /\ tx' = [tx EXCEPT ![t] = q]
      /\ UNCHANGED <<headers, items, uploads, latest>>
  BY DEF Inv, TypeOK, DownloadSnapshots
<1>2. snaps \in SUBSET Header /\ \A s, o \in snaps : s.key = o.key => s = o
  BY DEF Inv, TypeOK, DayOK
<1>3. \A s \in snaps : \E k \in Keys : s = headers[k] /\ s # None
  OBVIOUS
<1> HIDE DEF snaps
<1>4. q \in TxType
  BY <1>1, <1>2 DEF TxType, PCs
<1>5. /\ q.key = tx[t].key /\ q.body = tx[t].body /\ q.deleted = tx[t].deleted
      /\ q.locked = tx[t].locked /\ q.targets = tx[t].targets /\ q.left = snaps
      /\ q.pc = IF snaps = {} THEN "done" ELSE "read"
  BY <1>1 DEF TxType
<1> HIDE DEF q
<1>6. DownloadShape(tx[t]) /\ tx[t].targets = {}
  BY <1>1 DEF Shape, UploadPCs, DownloadShape
<1>7. Shape(q) /\ AloneOK(t, q) /\ RivalsOK(t, q)
  BY <1>2, <1>5, <1>6 DEF Shape, DownloadShape, AloneOK, RivalsOK, UploadPCs
<1> QED BY <1>1, <1>3, <1>4, <1>5, <1>6, <1>7, MoveInv DEF DownloadShape

(* Reading the items of one day keeps it.                                  *)
LEMMA GetItemsInv ==
    ASSUME Inv, NEW t \in Threads, GetSnapshotItems(t)
    PROVE  Inv'
<1> DEFINE snap == Oldest(tx[t].left)
           q == [tx[t] EXCEPT !.pc = IF tx[t].left = {snap} THEN "done" ELSE "read",
                              !.left = @ \ {snap},
                              !.targets = @ \cup ItemsOf(snap.key)]
<1>1. /\ tx[t] \in TxType /\ Shape(tx[t]) /\ tx[t].pc = "read"
      /\ tx' = [tx EXCEPT ![t] = q]
      /\ UNCHANGED <<headers, items, uploads, latest>>
  BY DEF Inv, TypeOK, GetSnapshotItems
<1>2. DownloadShape(tx[t]) /\ tx[t].left # {} /\ tx[t].left \in SUBSET Header
  BY <1>1 DEF Shape, UploadPCs, DownloadShape, TxType
<1>3. snap \in tx[t].left
  BY <1>2, OldestIsLeft DEF DownloadShape
<1>4. ItemsOf(snap.key) \in SUBSET Batch
  BY DEF Inv, TypeOK, ItemsOf
<1> HIDE DEF snap
<1>5. q \in TxType
  BY <1>1, <1>4 DEF TxType, PCs
<1>6. /\ q.key = tx[t].key /\ q.body = tx[t].body /\ q.deleted = tx[t].deleted
      /\ q.locked = tx[t].locked /\ q.targets = tx[t].targets \cup ItemsOf(snap.key)
      /\ q.left = tx[t].left \ {snap}
      /\ q.pc = IF tx[t].left = {snap} THEN "done" ELSE "read"
  BY <1>1 DEF TxType
<1> HIDE DEF q
<1>7. Shape(q)
  <2>1. \A s \in q.left, b \in q.targets : b.key # s.key
    BY <1>2, <1>3, <1>6 DEF DownloadShape, ItemsOf
  <2> QED BY <1>2, <1>3, <1>6, <2>1 DEF Shape, DownloadShape, UploadPCs
<1>8. AloneOK(t, q) /\ RivalsOK(t, q)
  BY <1>6 DEF AloneOK, RivalsOK, UploadPCs
<1> QED BY <1>1, <1>2, <1>5, <1>6, <1>7, <1>8, MoveInv DEF DownloadShape

(* Every step keeps the invariant.                                         *)
LEMMA InvStep == Inv /\ [Next]_vars => Inv'
<1> SUFFICES ASSUME Inv, [Next]_vars PROVE Inv'
  OBVIOUS
<1>1. CASE UNCHANGED vars
  BY <1>1 DEF vars, Inv, TypeOK, Shape, UploadShape, DownloadShape, AloneOK,
              RivalsOK, DayOK, HeaderIdsOK, NotNewer, Uploading, ItemsOf, IsUpload, Alone
<1>2. ASSUME NEW t \in Threads, NEW k \in Keys, NEW b \in Bodies, IngestSnapshot(t, k, b)
      PROVE  Inv'
  BY <1>2, IngestInv
<1>3. ASSUME NEW t \in Threads, NEW range \in SUBSET Keys, DownloadSnapshots(t, range)
      PROVE  Inv'
  BY <1>3, DownloadInv
<1>4. ASSUME NEW t \in Threads, Step(t) PROVE Inv'
  BY <1>4, SelectHeaderInv, DeleteItemsInv, DeleteLockedInv, FlushHeaderInv, CommitInv,
     GetItemsInv, EndInv DEF Step, SendWorkbook
<1>5. ASSUME NEW t \in Threads, Rollback(t) PROVE Inv'
  BY <1>5, EndInv DEF Rollback
<1> QED BY <1>1, <1>2, <1>3, <1>4, <1>5 DEF Next

(* The invariant holds for ever.                                           *)
LEMMA Invariant == Spec => []Inv
<1> QED BY InitInv, InvStep, PTL DEF Spec

-----------------------------------------------------------------------------
(* Every reachable state has its type, whatever overlaps or fails.         *)
THEOREM SnapshotsTypeCorrect == Spec => []TypeOK
<1>1. Inv => TypeOK
  BY DEF Inv
<1> QED BY <1>1, Invariant, PTL

(* An upload that no other upload of its day overlapped stores exactly     *)
(* itself (upsert_snapshot), for any number of threads and uploads.        *)
THEOREM AloneReplaces == Spec => []UploadAloneReplaces
<1>1. Inv => UploadAloneReplaces
  BY DEF Inv, DayOK, UploadAloneReplaces
<1> QED BY <1>1, Invariant, PTL

(* No race and no rollback loses what was stored (upsert_snapshot).        *)
THEOREM NothingIsLost == Spec => []RacesLoseNothing
<1>1. Inv => RacesLoseNothing
  BY DEF Inv, DayOK, RacesLoseNothing
<1> QED BY <1>1, Invariant, PTL

(* A column that does not say what the last upload says was written by one *)
(* that it overlapped (upsert_snapshot, the UPDATE of the ORM).            *)
THEOREM HeadersAreOfTheRace == Spec => []HeaderOfTheRace
<1>1. Inv => HeaderOfTheRace
  BY DEF Inv, DayOK, HeaderOfTheRace
<1> QED BY <1>1, Invariant, PTL

(* What the statement of a download adds to the workbook.                  *)
LEMMA ItemsRead ==
    ASSUME Inv, NEW t \in Threads, GetSnapshotItems(t)
    PROVE  WorkbookRead
<1> SUFFICES ASSUME NEW o \in Threads, NEW snap \in tx[o].left \ tx'[o].left,
                    NEW k, k = snap.key, Alone(k)
             PROVE  /\ {b \in tx'[o].targets : b.key = k} = Stored(latest[k].batch)
                    /\ \A c \in Columns : snap.cols[c].id <= latest[k].batch.id
  BY DEF WorkbookRead
<1>1. /\ tx[t] \in TxType /\ Shape(tx[t]) /\ tx[t].pc = "read" /\ tx \in [Threads -> TxType]
      /\ NotNewer(snap) /\ snap \in Header
  BY DEF Inv, TypeOK, GetSnapshotItems, HeaderIdsOK, TxType
<1>2. DownloadShape(tx[t])
  BY <1>1 DEF Shape, UploadPCs
<1>3. /\ o = t /\ tx'[t].left = tx[t].left \ {snap}
      /\ tx'[t].targets = tx[t].targets \cup ItemsOf(k)
  BY <1>1 DEF GetSnapshotItems, TxType
<1>4. {b \in tx'[t].targets : b.key = k} = ItemsOf(k)
  BY <1>2, <1>3 DEF DownloadShape, ItemsOf
<1>5. k \in Keys /\ headers[k] # None /\ DayOK(k)
  BY <1>1 DEF Inv, NotNewer, Header
<1>6. ItemsOf(k) = Stored(latest[k].batch)
  BY <1>5 DEF DayOK, IsUpload
<1> QED BY <1>1, <1>3, <1>4, <1>6 DEF NotNewer, Alone

(* The other steps end a download, begin one, or leave its headers alone.  *)
LEMMA OthersRead ==
    ASSUME Inv, NEW t \in Threads, NEW q, tx' = [tx EXCEPT ![t] = q],
           q.left = tx[t].left \/ tx[t].left = {} \/ q.pc = "idle"
    PROVE  WorkbookRead
<1>1. \A o \in Threads : tx'[o] = IF o = t THEN q ELSE tx[o]
  BY DEF Inv, TypeOK
<1> QED BY <1>1 DEF WorkbookRead

(* Every step is one that WorkbookIsOneUpload allows.                      *)
LEMMA WorkbookStep == Inv /\ [Next]_vars => WorkbookRead
<1> SUFFICES ASSUME Inv, [Next]_vars PROVE WorkbookRead
  OBVIOUS
<1>1. CASE UNCHANGED vars
  BY <1>1 DEF vars, WorkbookRead
<1>2. ASSUME NEW t \in Threads, NEW k \in Keys, NEW b \in Bodies, IngestSnapshot(t, k, b)
      PROVE  WorkbookRead
  <2>1. tx[t].left = {} /\ \A o \in Threads : tx[o] \in TxType
    BY <1>2 DEF IngestSnapshot, Inv, TypeOK, Shape, DownloadShape, UploadPCs
  <2>2. \A o \in Threads \ {t} : tx'[o].left = tx[o].left
    BY <1>2, <2>1 DEF IngestSnapshot, TxType
  <2> QED BY <2>1, <2>2 DEF WorkbookRead
<1>3. ASSUME NEW t \in Threads, NEW range \in SUBSET Keys, DownloadSnapshots(t, range)
      PROVE  WorkbookRead
  <2>1. tx[t].left = {} /\ \E q : tx' = [tx EXCEPT ![t] = q]
    BY <1>3 DEF DownloadSnapshots, Inv, TypeOK, Shape, DownloadShape, UploadPCs
  <2> QED BY <2>1, OthersRead
<1>4. ASSUME NEW t \in Threads, Step(t) PROVE WorkbookRead
  <2>1. CASE GetSnapshotItems(t)
    BY <2>1, ItemsRead
  <2>2. CASE SelectHeader(t) \/ DeleteItems(t) \/ DeleteLocked(t)
               \/ FlushHeader(t) \/ Commit(t)
    <3>1. tx[t].left = {}
      BY <2>2 DEF SelectHeader, DeleteItems, DeleteLocked, FlushHeader, Commit,
                  Inv, Shape, UploadShape, UploadPCs
    <3>2. \E q : tx' = [tx EXCEPT ![t] = q]
      BY <2>2 DEF SelectHeader, DeleteItems, DeleteLocked, FlushHeader, Commit,
                  Inv, TypeOK
    <3> QED BY <3>1, <3>2, OthersRead
  <2>3. CASE SendWorkbook(t)
    BY <2>3, OthersRead DEF SendWorkbook, Idle
  <2> QED BY <1>4, <2>1, <2>2, <2>3 DEF Step
<1>5. ASSUME NEW t \in Threads, Rollback(t) PROVE WorkbookRead
  BY <1>5, OthersRead DEF Rollback, Idle
<1> QED BY <1>1, <1>2, <1>3, <1>4, <1>5 DEF Next

(* The rows a workbook holds of a day are those of the upload that         *)
(* committed last, complete and once, if that one ran alone, although      *)
(* headers and items are read in separate statements (download_snapshots_  *)
(* range).                                                                 *)
THEOREM WorkbookIsWhole == Spec => WorkbookIsOneUpload
<1>1. Inv /\ [Next]_vars => [WorkbookRead]_vars
  BY WorkbookStep
<1> QED BY <1>1, Invariant, PTL DEF Spec, WorkbookIsOneUpload

=============================================================================
