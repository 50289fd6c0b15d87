----------------------------- MODULE RecordMap ------------------------------
(***************************************************************************)
(* What /userapi/records (app/routers/records.py) promises: a map with one *)
(* record per user and (market, symbol), written by PUT, removed by DELETE.*)
(***************************************************************************)
CONSTANTS Users, Keys, Columns, Values, None

VARIABLE record      \* <<user, key>> -> column values, or None

Body == [Columns -> Values]

Init == record = [p \in Users \X Keys |-> None]

Insert(p, b) ==
    /\ record[p] = None
    /\ record' = [record EXCEPT ![p] = b]

(* A column that the request found unchanged keeps what another one wrote. *)
Update(p, b) ==
    /\ record[p] # None
    /\ \E C \in SUBSET Columns :
          record' = [record EXCEPT ![p] =
                        [c \in Columns |-> IF c \in C THEN b[c] ELSE record[p][c]]]

Delete(p) ==
    /\ record[p] # None
    /\ record' = [record EXCEPT ![p] = None]

Next == \E p \in Users \X Keys :
            Delete(p) \/ \E b \in Body : Insert(p, b) \/ Update(p, b)

Spec == Init /\ [][Next]_record

=============================================================================
