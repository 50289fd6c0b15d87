----------------------------- MODULE Snapshots ------------------------------
(***************************************************************************)
(* Screening snapshots: upsert_snapshot of app/crud.py behind              *)
(* POST /userapi/ingest/snapshot, and the reads in several statements      *)
(* behind GET /downloadapi/snapshot.xlsx and snapshots.xlsx, over the      *)
(* tables screen_snapshots (headers) and screen_snapshot_items (items).    *)
(*                                                                         *)
(* One request is one transaction at PostgreSQL's default READ COMMITTED:  *)
(* each statement sees what was committed when it began, a write waits for *)
(* the lock of a row that another open transaction wrote, and a DELETE     *)
(* that waited skips rows that are gone and never sees rows that were      *)
(* inserted after it began.  The rows one upload inserts appear and        *)
(* disappear together, so they are one element (a batch).                  *)
(***************************************************************************)
EXTENDS Integers, FiniteSets

CONSTANTS
    Threads,
    Keys,          \* the trade dates of one session (each session has its own rows)
    Bodies,        \* what the screener may upload
    NoItems,       \* the bodies without items
    Columns,       \* the columns of a header that a body sets
    Value,         \* body -> column -> what the body sets it to
    MaxUploads,    \* bound on the number of upload requests
    None

ASSUME BodiesAssumption ==
    /\ NoItems \subseteq Bodies /\ None \notin Bodies
    /\ Keys \subseteq Int /\ IsFiniteSet(Keys) /\ None \notin Keys
    /\ MaxUploads \in Nat

VARIABLES
    headers,     \* committed headers: key -> each column's last writer, or None
    items,       \* committed item rows, as the batches that inserted them
    tx,          \* the transaction of each thread
    uploads,     \* number of uploads started; also names the batches
    latest       \* history: key -> the upload that committed last, and the
                 \* uploads of that key that were open during its request

vars == <<headers, items, tx, uploads, latest>>

-----------------------------------------------------------------------------
Batch == [key : Keys, body : Bodies, id : 1 .. MaxUploads]
Header == [key : Keys, cols : [Columns -> Batch]]
ASSUME NoneAssumption == None \notin Batch /\ None \notin Header

PCs == {"idle", "select", "delete", "wait", "header", "commit", "read", "done"}

(* found is the header as the SELECT read it, targets the batches that the *)
(* DELETE saw, deleted those it removed (and keeps locked), locked whether *)
(* the header row is written, rivals (history) the uploads of the key that *)
(* were open at some time during this one.  left are the headers of a      *)
(* download whose items are still to be read, targets the rows of its      *)
(* workbook.                                                               *)
TxType ==
    [pc : PCs, key : Keys \cup {None}, body : Bodies \cup {None},
     id : 0 .. MaxUploads, found : Header \cup {None}, targets : SUBSET Batch,
     deleted : SUBSET Batch, locked : BOOLEAN, rivals : SUBSET (1 .. MaxUploads),
     left : SUBSET Header]

Idle == [pc |-> "idle", key |-> None, body |-> None, id |-> 0, found |-> None,
         targets |-> {}, deleted |-> {}, locked |-> FALSE, rivals |-> {},
         left |-> {}]

Uploading(t, k) == tx[t].key = k /\ tx[t].body # None
ItemsOf(k) == {b \in items : b.key = k}
Others(t) == Threads \ {t}
Open(k) == {t \in Threads : Uploading(t, k)}

Init ==
    /\ headers = [k \in Keys |-> None]
    /\ items = {}
    /\ tx = [t \in Threads |-> Idle]
    /\ uploads = 0
    /\ latest = [k \in Keys |-> [batch |-> None, rivals |-> {}]]

-----------------------------------------------------------------------------
(* ingest_snapshot: a request with a known session begins.  Tokens and     *)
(* sessions that are refused (401, 422, 503) change nothing.               *)
IngestSnapshot(t, k, b) ==
    /\ tx[t].pc = "idle" /\ uploads < MaxUploads
    /\ uploads' = uploads + 1
    /\ tx' = [s \in Threads |->
                IF s = t
                THEN [Idle EXCEPT !.pc = "select", !.key = k, !.body = b,
                                  !.id = uploads + 1,
                                  !.rivals = {tx[o].id : o \in Open(k)}]
                ELSE [tx[s] EXCEPT !.rivals =
                        IF s \in Open(k) THEN @ \cup {uploads + 1} ELSE @]]
    /\ UNCHANGED <<headers, items, latest>>

(* SELECT the header of the key. *)
SelectHeader(t) ==
    /\ tx[t].pc = "select"
    /\ tx' = [tx EXCEPT ![t].found = headers[tx[t].key],
                        ![t].pc = IF headers[tx[t].key] = None
                                  THEN "header" ELSE "delete"]
    /\ UNCHANGED <<headers, items, uploads, latest>>

(* DELETE the items of the header: the rows it sees ... *)
DeleteNothing(t) ==
    /\ tx[t].pc = "delete"
    /\ tx' = [tx EXCEPT ![t].pc = "header"]
    /\ UNCHANGED <<headers, items, uploads, latest>>
DeleteItems(t) ==
    /\ tx[t].pc = "delete"
    /\ tx' = [tx EXCEPT ![t].targets = ItemsOf(tx[t].key), ![t].pc = "wait"]
    /\ UNCHANGED <<headers, items, uploads, latest>>

(* ... once nobody else holds them, without those that are gone by then.   *)
DeleteCommits(t) ==
    /\ tx[t].pc = "wait"
    /\ items' = items \ tx[t].targets
    /\ tx' = [tx EXCEPT ![t].pc = "header"]
    /\ UNCHANGED <<headers, uploads, latest>>
DeleteLocked(t) ==
    /\ tx[t].pc = "wait"
    /\ \A o \in Others(t) : tx[o].deleted \cap tx[t].targets = {}
    /\ tx' = [tx EXCEPT ![t].deleted = tx[t].targets \cap items, ![t].pc = "header"]
    /\ UNCHANGED <<headers, items, uploads, latest>>

(* The flush writes the header when the ORM sees a change: an INSERT if    *)
(* the SELECT found none, else an UPDATE of the columns whose values       *)
(* differ from the ones it read.  Either waits for another writer of the   *)
(* row; the INSERT then fails on uq_snapshot_date_session, and the request *)
(* ends with a 500.                                                        *)
SameValue(b1, b2, c) == Value[b1.body][c] = Value[b2.body][c]
Changed(t) == {c \in Columns : tx[t].found = None
                             \/ ~SameValue(tx[t].found.cols[c], tx[t], c)}
Unchanged(t) == tx[t].found # None /\ Changed(t) = {}
Taken(t) == tx[t].found = None /\ headers[tx[t].key] # None
HeaderFree(t) == \A o \in Others(t) : ~(Uploading(o, tx[t].key) /\ tx[o].locked)
FlushHeaderKeepsLock(t) ==
    /\ tx[t].pc = "header"
    /\ Unchanged(t) \/ HeaderFree(t)
    /\ tx' = [tx EXCEPT ![t].locked = ~Unchanged(t),
                        ![t].pc = IF Taken(t) THEN "wait" ELSE "commit"]
    /\ UNCHANGED <<headers, items, uploads, latest>>
FlushHeader(t) ==
    /\ tx[t].pc = "header"
    /\ \/ /\ Unchanged(t)
          /\ tx' = [tx EXCEPT ![t].pc = "commit"]
       \/ /\ ~Unchanged(t) /\ HeaderFree(t)
          /\ tx' = IF Taken(t)
                   THEN [tx EXCEPT ![t] = Idle]
                   ELSE [tx EXCEPT ![t].locked = TRUE, ![t].pc = "commit"]
    /\ UNCHANGED <<headers, items, uploads, latest>>

(* The items are inserted and everything is committed at once. *)
NewBatch(t) == [key |-> tx[t].key, body |-> tx[t].body, id |-> tx[t].id]
NewHeaderKeepsOne(t) ==
    [key |-> tx[t].key,
     cols |-> [c \in Columns |->
                 IF \/ headers[tx[t].key] = None
                    \/ c \in Changed(t) /\ c # (CHOOSE k \in Columns : TRUE)
                 THEN NewBatch(t) ELSE headers[tx[t].key].cols[c]]]
NewHeader(t) ==
    [key |-> tx[t].key,
     cols |-> [c \in Columns |-> IF c \in Changed(t)
                                 THEN NewBatch(t) ELSE headers[tx[t].key].cols[c]]]
Commit(t) ==
    /\ tx[t].pc = "commit"
    /\ items' = (items \ tx[t].deleted)
                  \cup (IF tx[t].body \in NoItems THEN {} ELSE {NewBatch(t)})
    /\ headers' = IF tx[t].locked
                  THEN [headers EXCEPT ![tx[t].key] = NewHeader(t)] ELSE headers
    /\ latest' = [latest EXCEPT ![tx[t].key] =
                    [batch |-> NewBatch(t), rivals |-> tx[t].rivals]]
    /\ tx' = [tx EXCEPT ![t] = Idle]
    /\ UNCHANGED uploads

(* download_snapshots_range, and download_snapshot for a range of one day: *)
(* all headers in one statement (none: an empty workbook, not a 404), then *)
(* the items of each in a statement of its own, oldest first.              *)
DownloadSnapshots(t, range) ==
    /\ tx[t].pc = "idle"
    /\ LET snaps == {headers[k] : k \in range} \ {None} IN
         tx' = [tx EXCEPT ![t].pc = IF snaps = {} THEN "done" ELSE "read",
                          ![t].left = snaps]
    /\ UNCHANGED <<headers, items, uploads, latest>>
Oldest(snaps) == CHOOSE s \in snaps : \A o \in snaps : s.key <= o.key
GetSnapshotItems(t) ==
    /\ tx[t].pc = "read"
    /\ LET snap == Oldest(tx[t].left) IN
         tx' = [tx EXCEPT ![t].pc = IF tx[t].left = {snap} THEN "done" ELSE "read",
                          ![t].left = @ \ {snap},
                          ![t].targets = @ \cup ItemsOf(snap.key)]
    /\ UNCHANGED <<headers, items, uploads, latest>>
SendWorkbook(t) ==
    /\ tx[t].pc = "done"
    /\ tx' = [tx EXCEPT ![t] = Idle]
    /\ UNCHANGED <<headers, items, uploads, latest>>

(* A lost connection rolls one transaction back; so does a restart of the  *)
(* process, for all of them.  The screener may send the same body again.   *)
Rollback(t) ==
    /\ tx[t].pc # "idle"
    /\ tx' = [tx EXCEPT ![t] = Idle]
    /\ UNCHANGED <<headers, items, uploads, latest>>

-----------------------------------------------------------------------------
Step(t) ==
    \/ SelectHeader(t)
    \/ DeleteItems(t)
    \/ DeleteLocked(t)
    \/ FlushHeader(t)
    \/ Commit(t)
    \/ GetSnapshotItems(t)
    \/ SendWorkbook(t)

Next ==
    \E t \in Threads :
        \/ \E k \in Keys, b \in Bodies : IngestSnapshot(t, k, b)
        \/ \E range \in SUBSET Keys : DownloadSnapshots(t, range)
        \/ Step(t)
        \/ Rollback(t)

Spec == Init /\ [][Next]_vars

(* The thread pool runs every handler on; PostgreSQL hands a released lock *)
(* to a waiting statement.                                                 *)
FairSpec == Spec /\ \A t \in Threads : WF_vars(Step(t))

-----------------------------------------------------------------------------
(* Properties. *)

TypeOK ==
    /\ headers \in [Keys -> Header \cup {None}]
    /\ items \subseteq Batch
    /\ tx \in [Threads -> TxType]
    /\ uploads \in 0 .. MaxUploads
    /\ latest \in [Keys -> [batch : Batch \cup {None},
                            rivals : SUBSET (1 .. MaxUploads)]]

(* "deletes the previous items and rewrites the row, so the screener can   *)
(* safely retry" (upsert_snapshot): the stored snapshot is the header and  *)
(* the items of the upload that committed last, and nothing else.          *)
Stored(batch) == IF batch.body \in NoItems THEN {} ELSE {batch}
IsUpload(k, batch) ==
    /\ \A c \in Columns : SameValue(headers[k].cols[c], batch, c)
    /\ ItemsOf(k) = Stored(batch)
LastUploadReplaces ==
    \A k \in Keys : latest[k].batch # None => IsUpload(k, latest[k].batch)

(* What two racing uploads (a retry that overtakes a slow first attempt)   *)
(* leave of it: an upload that no other upload of its key overlapped       *)
(* stores exactly itself, whatever racing uploads left behind before it.   *)
Alone(k) == latest[k].rivals = {}
UploadAloneReplaces ==
    \A k \in Keys : latest[k].batch # None /\ Alone(k)
                        => IsUpload(k, latest[k].batch)

(* A header can end up with columns of two uploads, because each writes    *)
(* only the columns that differ from what its SELECT read.  Every column   *)
(* that does not say what the upload that committed last says was written  *)
(* by an upload that this one overlapped -- never by one that was over     *)
(* before, which a forgotten column would show.                            *)
HeaderOfTheRace ==
    \A k \in Keys : latest[k].batch # None => \A c \in Columns :
        \/ SameValue(headers[k].cols[c], latest[k].batch, c)
        \/ headers[k].cols[c].id \in latest[k].rivals

(* Racing uploads of one body (the retry after a timeout) can store its    *)
(* items twice, but nothing that was stored is lost, neither in a race nor *)
(* to an upload that is rolled back after its DELETE: the items of the     *)
(* last upload are there, and their header is.                             *)
RacesLoseNothing ==
    \A k \in Keys :
        /\ ItemsOf(k) # {} => headers[k] # None
        /\ latest[k].batch # None =>
              /\ headers[k] # None
              /\ Stored(latest[k].batch) \subseteq ItemsOf(k)

(* The rows that a workbook holds of a day are those of one upload,        *)
(* complete and once, and never older than the header above them, as long  *)
(* as the upload of that day that committed last ran alone: although every *)
(* day is read in a statement of its own, after the headers of all.        *)
WorkbookRead ==
    \A t \in Threads : \A snap \in tx[t].left \ tx'[t].left :
        LET k == snap.key IN
        tx'[t].pc \in {"read", "done"} /\ Alone(k) =>
            /\ {b \in tx'[t].targets : b.key = k} = Stored(latest[k].batch)
            /\ \A c \in Columns : snap.cols[c].id <= latest[k].batch.id
WorkbookIsOneUpload == [][WorkbookRead]_vars

(* The uploads that wait for each other's rows all end: the order items,   *)
(* then header leaves no cycle, and a failed insert releases its lock.     *)
UploadsEnd == \A t \in Threads : tx[t].pc # "idle" ~> tx[t].pc = "idle"

=============================================================================
