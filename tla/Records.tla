------------------------------ MODULE Records -------------------------------
(***************************************************************************)
(* A user's records: PUT and DELETE /userapi/records/{market}/{symbol}     *)
(* (app/routers/records.py over upsert_record and delete_record of         *)
(* app/crud.py), on the table records of app/models.py.                    *)
(*                                                                         *)
(* A request reads the record, writes and commits in a second step, and a  *)
(* PUT reads the row once more for its answer.  The row read is an ORM     *)
(* object: an UPDATE names the row by id and sets only the columns that    *)
(* differ from what was read (and updated_at, so it is always sent), a     *)
(* DELETE names it by id.  Statement and commit are one step: nothing of   *)
(* the transaction is visible between them.                                *)
(***************************************************************************)
CONSTANTS
    Threads,
    Users,
    Keys,        \* (market_code, symbol)
    Columns,     \* name, market, target_price, cost_price, last_close
    Values,
    Ids,         \* the UUIDs in use at one time (bound)
    None

VARIABLES
    rows,        \* table records: id -> row, or None
    reqs         \* the request each thread is serving

vars == <<rows, reqs>>

-----------------------------------------------------------------------------
Body == [Columns -> Values]
Record == [user : Users, key : Keys, body : Body]

ASSUME NoneAssumption ==
    None \notin Record /\ None \notin Body /\ None \notin Ids
    /\ None \notin Users /\ None \notin Keys

(* id and read are the row get_record found (a fresh id after an INSERT).  *)
(* History: raced, another request of the record was open during this one; *)
(* absent, the record did not exist at some time during this one.          *)
RequestType ==
    [op : {"none", "put", "delete"},
     pc : {"idle", "write", "refresh", "ok", "failed"},
     user : Users \cup {None}, key : Keys \cup {None}, body : Body \cup {None},
     id : Ids \cup {None}, read : Body \cup {None},
     raced : BOOLEAN, absent : BOOLEAN]
Idle == [op |-> "none", pc |-> "idle", user |-> None, key |-> None,
         body |-> None, id |-> None, read |-> None,
         raced |-> FALSE, absent |-> FALSE]

Of(u, k) == {i \in Ids : rows[i] # None /\ rows[i].user = u /\ rows[i].key = k}

(* get_record: always scoped by user_id. *)
get_record(u, k) ==
    IF Of(u, k) = {} THEN None ELSE CHOOSE i \in Of(u, k) : TRUE

Same(t, u, k) == reqs[t].user = u /\ reqs[t].key = k
InUse == {reqs[t].id : t \in Threads} \cup {i \in Ids : rows[i] # None}

Init ==
    /\ rows = [i \in Ids |-> None]
    /\ reqs = [t \in Threads |-> Idle]

-----------------------------------------------------------------------------
(* A request starts with the SELECT of get_record. *)
Begin(t, op, u, k, b) ==
    LET id == get_record(u, k) IN
    [op |-> op, user |-> u, key |-> k, body |-> b, id |-> id,
     pc |-> IF op = "delete" /\ id = None THEN "ok" ELSE "write",
     read |-> IF id = None THEN None ELSE rows[id].body,
     raced |-> \E o \in Threads \ {t} : Same(o, u, k),
     absent |-> id = None]
Start(t, op, u, k, b) ==
    /\ reqs[t] = Idle
    /\ reqs' = [o \in Threads |->
                  IF o = t THEN Begin(t, op, u, k, b)
                  ELSE IF Same(o, u, k) THEN [reqs[o] EXCEPT !.raced = TRUE]
                  ELSE reqs[o]]
    /\ UNCHANGED rows
Put(t, u, k, b) == Start(t, "put", u, k, b)
Delete(t, u, k) == Start(t, "delete", u, k, None)

(* upsert_record without a row: uq_records_user_market_symbol makes the    *)
(* second of two first PUTs fail with a 500.                               *)
InsertUnchecked(t, i) ==
    /\ reqs[t].pc = "write" /\ reqs[t].op = "put" /\ reqs[t].id = None
    /\ i \notin InUse
    /\ rows' = [rows EXCEPT ![i] = [user |-> reqs[t].user, key |-> reqs[t].key,
                                    body |-> reqs[t].body]]
    /\ reqs' = [reqs EXCEPT ![t].pc = "refresh", ![t].id = i]
Insert(t, i) ==
    /\ reqs[t].pc = "write" /\ reqs[t].op = "put" /\ reqs[t].id = None
    /\ i \notin InUse
    /\ \/ /\ Of(reqs[t].user, reqs[t].key) = {}
          /\ rows' = [rows EXCEPT ![i] = [user |-> reqs[t].user, key |-> reqs[t].key,
                                          body |-> reqs[t].body]]
          /\ reqs' = [reqs EXCEPT ![t].pc = "refresh", ![t].id = i]
       \/ /\ Of(reqs[t].user, reqs[t].key) # {}
          /\ reqs' = [reqs EXCEPT ![t].pc = "failed"]
          /\ UNCHANGED rows

(* upsert_record of the row that was read: an UPDATE that matches no row   *)
(* is a StaleDataError, a 500.                                             *)
Merge(r, old) == [c \in Columns |-> IF r.body[c] # r.read[c] THEN r.body[c] ELSE old[c]]
UpdateMissingColumns(t) ==
    /\ reqs[t].pc = "write" /\ reqs[t].op = "put" /\ reqs[t].id # None
    /\ rows[reqs[t].id] # None
    /\ rows' = [rows EXCEPT ![reqs[t].id].body = reqs[t].read]
    /\ reqs' = [reqs EXCEPT ![t].pc = "refresh"]
Update(t) ==
    /\ reqs[t].pc = "write" /\ reqs[t].op = "put" /\ reqs[t].id # None
    /\ \/ /\ rows[reqs[t].id] # None
          /\ rows' = [rows EXCEPT ![reqs[t].id].body = Merge(reqs[t], @)]
          /\ reqs' = [reqs EXCEPT ![t].pc = "refresh"]
       \/ /\ rows[reqs[t].id] = None
          /\ reqs' = [reqs EXCEPT ![t].pc = "failed"]
          /\ UNCHANGED rows

(* session.refresh: a row that was deleted meanwhile cannot be refreshed,  *)
(* a 500 although the PUT is committed.                                    *)
Refresh(t) ==
    /\ reqs[t].pc = "refresh"
    /\ reqs' = [reqs EXCEPT ![t].pc = IF rows[reqs[t].id] = None THEN "failed" ELSE "ok",
                   ![t].read = IF rows[reqs[t].id] = None THEN None
                               ELSE rows[reqs[t].id].body]
    /\ UNCHANGED rows

(* delete_record of the row that was read; a row that is gone already is   *)
(* only a warning of the ORM.                                              *)
Gone(u, k) == [o \in Threads |->
                 IF Same(o, u, k) THEN [reqs[o] EXCEPT !.absent = TRUE] ELSE reqs[o]]
RemoveEverySymbol(t) ==
    /\ reqs[t].pc = "write" /\ reqs[t].op = "delete"
    /\ rows' = [i \in Ids |-> IF rows[i] # None /\ rows[i].user = reqs[t].user
                              THEN None ELSE rows[i]]
    /\ reqs' = [Gone(reqs[t].user, reqs[t].key) EXCEPT ![t].pc = "ok"]
RemoveNotCommitted(t) ==
    /\ reqs[t].pc = "write" /\ reqs[t].op = "delete"
    /\ reqs' = [reqs EXCEPT ![t].pc = "ok"]
    /\ UNCHANGED rows
Remove(t) ==
    /\ reqs[t].pc = "write" /\ reqs[t].op = "delete"
    /\ rows' = [rows EXCEPT ![reqs[t].id] = None]
    /\ reqs' = IF rows[reqs[t].id] = None
               THEN [reqs EXCEPT ![t].pc = "ok"]
               ELSE [Gone(reqs[t].user, reqs[t].key) EXCEPT ![t].pc = "ok"]

(* 200, 204 or 500. *)
Answer(t) ==
    /\ reqs[t].pc \in {"ok", "failed"}
    /\ reqs' = [reqs EXCEPT ![t] = Idle]
    /\ UNCHANGED rows

(* A lost connection or a restart of the process ends a request; what it   *)
(* committed stays.                                                        *)
Abort(t) ==
    /\ reqs[t].pc \in {"write", "refresh"}
    /\ reqs' = [reqs EXCEPT ![t] = Idle]
    /\ UNCHANGED rows

-----------------------------------------------------------------------------
Next ==
    \E t \in Threads :
        \/ \E u \in Users, k \in Keys : Delete(t, u, k)
        \/ \E u \in Users, k \in Keys, b \in Body : Put(t, u, k, b)
        \/ \E i \in Ids : Insert(t, i)
        \/ Update(t)
        \/ Refresh(t)
        \/ Remove(t)
        \/ Answer(t)
        \/ Abort(t)

Spec == Init /\ [][Next]_vars

-----------------------------------------------------------------------------
(* Properties. *)

TypeOK ==
    /\ rows \in [Ids -> Record \cup {None}]
    /\ reqs \in [Threads -> RequestType]

(* However first PUTs and DELETEs race, a user never has two rows for one  *)
(* symbol: get_record would pick either, and a DELETE would remove one.    *)
OneRowPerKey == \A u \in Users, k \in Keys : \A i, j \in Of(u, k) : i = j

(* The rows are a map that PUT and DELETE change one record at a time: a   *)
(* PUT that races may keep columns of another PUT, but no request changes  *)
(* or removes a record of another user or symbol with its own.             *)
RecordOf(p) == IF Of(p[1], p[2]) = {} THEN None
               ELSE rows[CHOOSE i \in Of(p[1], p[2]) : TRUE].body
Map == INSTANCE RecordMap WITH record <- [p \in Users \X Keys |-> RecordOf(p)]
ImplementsRecordMap == Map!Spec

(* "Idempotent delete": when a DELETE is answered with 204, the record did *)
(* not exist at some time during the request, also when another DELETE won *)
(* or a PUT stored a new row afterwards.                                   *)
DeletedMeansAbsent ==
    \A t \in Threads : reqs[t].op = "delete" /\ reqs[t].pc = "ok" => reqs[t].absent

(* A PUT or DELETE that no other request of the record overlapped never    *)
(* fails, and the PUT answers with exactly its body.                       *)
AloneRequestSucceeds ==
    \A t \in Threads :
        /\ reqs[t].pc = "failed" => reqs[t].raced
        /\ reqs[t].op = "put" /\ reqs[t].pc = "ok" /\ ~reqs[t].raced
              => reqs[t].read = reqs[t].body

(* A step changes rows of one user only, in a request of that user.        *)
OwnRecordsOnly ==
    [][\A u \in Users :
         {rows[i] : i \in {j \in Ids : rows[j] # None /\ rows[j].user = u}}
           # {rows'[i] : i \in {j \in Ids : rows'[j] # None /\ rows'[j].user = u}}
         => \E t \in Threads : reqs[t].user = u /\ reqs'[t] # reqs[t]]_vars

=============================================================================
