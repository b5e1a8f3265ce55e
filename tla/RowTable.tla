------------------------------ MODULE RowTable ------------------------------
(***************************************************************************)
(* What the editor of programs promises to the operator: a table of rows,   *)
(* a cursor before one of them or after the last, and a saved copy.  A row  *)
(* is put in before the cursor, taken out at the cursor, or changed; no     *)
(* step touches two rows, and a program is saved only if its loops lead     *)
(* back.                                                                   *)
(***************************************************************************)
EXTENDS Integers, SequencesExt

CONSTANT RowTypes

VARIABLES rows, cursor, saved

tableVars == <<rows, cursor, saved>>

(* The operation of a loop row: the row it goes back to, counted from 0.   *)
LeadsBack(rs) ==
    \A i \in DOMAIN rs : rs[i].type = "loop" => rs[i].value[1] < i - 1

TableInit == rows = <<>> /\ cursor = 0 /\ saved = <<>>

(* One row more, at place i; one less; one with another operation.         *)
PutIn(old, new, i) ==
    Len(new) = Len(old) + 1 /\ new[i].type \in RowTypes /\ new = InsertAt(old, i, new[i])

TakenOut(old, new, i) == i \in DOMAIN old /\ new = RemoveAt(old, i)

ChangedAt(old, new, i) ==
    new[i].type = old[i].type /\ new = [old EXCEPT ![i] = new[i]]

Insert ==
    /\ cursor' = cursor + 1
    /\ PutIn(rows, rows', cursor + 1)
    /\ UNCHANGED saved

Delete ==
    /\ cursor' = IF cursor = Len(rows) - 1 /\ cursor > 0 THEN cursor - 1 ELSE cursor
    /\ TakenOut(rows, rows', cursor + 1)
    /\ UNCHANGED saved

Change ==
    /\ UNCHANGED cursor
    /\ Len(rows') = Len(rows)
    /\ \E i \in DOMAIN rows : ChangedAt(rows, rows', i)
    /\ UNCHANGED saved

Select == cursor' \in 0..Len(rows) /\ UNCHANGED <<rows, saved>>

Save ==
    /\ LeadsBack(rows) /\ saved' = rows
    /\ cursor' \in 0..Len(rows)
    /\ UNCHANGED rows

Load ==
    /\ rows' \in {saved, <<>>} /\ cursor' = Len(rows')
    /\ UNCHANGED saved

TableNext == Insert \/ Delete \/ Change \/ Select \/ Save \/ Load

TableSpec == TableInit /\ [][TableNext]_tableVars
=============================================================================
