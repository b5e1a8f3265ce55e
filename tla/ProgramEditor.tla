--------------------------- MODULE ProgramEditor ----------------------------
(***************************************************************************)
(* The program as common/program.hpp keeps it - a list of phases that has   *)
(* only their types, and one list of operations for each type - with what   *)
(* the editor page does to it: rows put in and taken out                   *)
(* (program_model_editor), values changed with the keyboard of parameters   *)
(* (AutoParamKeyboard), the program saved and loaded.                       *)
(*                                                                         *)
(* An operation is a tuple of numbers, in the order the file has them.  Of  *)
(* a main operation the coordinate mode, the power (watts) and one sprayer  *)
(* are kept: the other fields go the same way.                             *)
(***************************************************************************)
EXTENDS Integers, SequencesExt, FiniteSetsExt

CONSTANTS
    EditTypes,      \* types of the rows an operator puts in
    Kilowatts,      \* powers an operator types
    MaxRows,        \* bound: rows of a program
    MaxEdits,       \* bound: changes of a program
    MaxPower        \* bound: watts a value may grow to

(* enum op_type, in the order of the lists in the file.                    *)
Types == <<"main", "pause", "loop", "fc", "center">>
OpTypes == ToSet(Types)

ASSUME EditorAssumption ==
    /\ EditTypes \subseteq OpTypes
    /\ Kilowatts \subseteq Nat /\ MaxRows \in Nat /\ MaxEdits \in Nat /\ MaxPower \in Nat

VARIABLES
    phases,         \* types of the rows
    ops,            \* type |-> list of its operations
    currentRow,     \* current_row_: the row marked, rows() if none
    programFile,    \* what was last saved
    kb,             \* the keyboard of parameters: closed, or what it is about
    edits           \* number of changes

editorVars == <<phases, ops, currentRow, programFile, kb, edits>>

(* main: absolute, power, sprayer; loop: opid, N; center: centering_type.  *)
OpWidths == <<3, 1, 2, 1, 1>>
Default(t) ==
    CASE t = "main" -> <<0, 0, 0>> [] t = "loop" -> <<0, 1>> [] t = "center" -> <<3>>
      [] OTHER -> <<0>>

NoOps == [t \in OpTypes |-> <<>>]
Closed == [row |-> 0, rid |-> 0, shown |-> <<>>]

-----------------------------------------------------------------------------
(* Phases and operations.                                                  *)

(* Operations of type t before row (0-based), that is the number of the     *)
(* operation a row of that type has there.                                 *)
GetRid(t, row) == Cardinality({i \in 1..row : phases[i] = t})

(* The rows as the table shows them (for_each, op_info).                   *)
RowsShown ==
    [i \in DOMAIN phases |->
        [type |-> phases[i], value |-> ops[phases[i]][GetRid(phases[i], i - 1) + 1]]]

FindBadLoop ==
    {i \in DOMAIN phases :
        phases[i] = "loop" /\ ops["loop"][GetRid("loop", i - 1) + 1][1] >= i - 1}

(* The file: for each type its operations, each list after its length, then *)
(* the phases.                                                             *)
SaveProgram == [lists |-> [k \in DOMAIN Types |-> ops[Types[k]]], phases |-> phases]

LoadOps(data) ==
    [t \in OpTypes |-> data.lists[CHOOSE k \in DOMAIN Types : Types[k] = t]]

LoadPhases(data) == data.phases

EmptyProgram == [lists |-> [k \in DOMAIN Types |-> <<>>], phases |-> <<>>]

-----------------------------------------------------------------------------
(* program_model_editor.                                                   *)

Touched == edits < MaxEdits /\ edits' = edits + 1

(* The new operation is a copy of the one it comes before, or of the last. *)
NewOp(t, rid) ==
    LET list == ops[t] IN
    IF list = <<>> THEN Default(t) ELSE list[IF rid = Len(list) THEN rid ELSE rid + 1]

(* Mutant of the next: the operation goes to the end of its list.          *)
InsertRow_OpLast(t, op) ==
    /\ ops' = [ops EXCEPT ![t] = Append(@, op)]
    /\ phases' = InsertAt(phases, currentRow + 1, t)
    /\ currentRow' = currentRow + 1

InsertRow(t, op) ==
    /\ ops' = [ops EXCEPT ![t] = InsertAt(@, GetRid(t, currentRow) + 1, op)]
    /\ phases' = InsertAt(phases, currentRow + 1, t)
    /\ currentRow' = currentRow + 1

AddOp ==
    /\ kb = Closed /\ Len(phases) < MaxRows /\ Touched
    /\ \E t \in EditTypes \ {"main"} : InsertRow(t, NewOp(t, GetRid(t, currentRow)))
    /\ UNCHANGED <<programFile, kb>>

AddMainOp ==
    /\ kb = Closed /\ Len(phases) < MaxRows /\ Touched /\ "main" \in EditTypes
    /\ \E absolute \in {0, 1} :
        InsertRow("main", [NewOp("main", GetRid("main", currentRow)) EXCEPT ![1] = absolute])
    /\ UNCHANGED <<programFile, kb>>

RemoveOp ==
    /\ kb = Closed /\ currentRow < Len(phases) /\ Touched
    /\ LET t == phases[currentRow + 1]
       IN ops' = [ops EXCEPT ![t] = RemoveAt(@, GetRid(t, currentRow) + 1)]
    /\ phases' = RemoveAt(phases, currentRow + 1)
    /\ currentRow' = IF currentRow >= Len(phases) - 1 /\ currentRow # 0
                     THEN currentRow - 1 ELSE currentRow
    /\ UNCHANGED <<programFile, kb>>

(* A click on the number of a row; a second click takes the mark away.     *)
SetCurrentRow ==
    /\ kb = Closed
    /\ \E i \in DOMAIN phases :
        currentRow' = IF currentRow = i - 1 THEN Len(phases) ELSE i - 1
    /\ UNCHANGED <<phases, ops, programFile, kb, edits>>

ChangeSprayer ==
    /\ kb = Closed /\ Touched
    /\ \E i \in DOMAIN phases :
        /\ phases[i] = "main"
        /\ ops' = [ops EXCEPT !["main"][GetRid("main", i - 1) + 1][3] = 1 - @]
    /\ UNCHANGED <<phases, currentRow, programFile, kb>>

-----------------------------------------------------------------------------
(* The keyboard is modal: while it is open only its own buttons work.       *)

(* What its fields show for an operation, and what is stored for them:      *)
(* powers are kept in watts, rows are counted from 1 on the screen.        *)
FieldsOf(t, op) ==
    CASE t = "main" -> <<op[2] \div 1000>>
      [] t = "loop" -> <<op[1] + 1, op[2]>>
      [] OTHER -> op

Stored(t, old, fields) ==
    CASE t = "main" -> [old EXCEPT ![2] = fields[1] * 1000]
      [] t = "loop" -> <<fields[1] - 1, fields[2]>>
      [] t = "fc" -> <<fields[1] * 1000>>
      [] OTHER -> fields

Typed(t) ==
    CASE t \in {"main", "fc"} -> {<<p>> : p \in Kilowatts}
      [] t = "loop" -> {<<i, 2>> : i \in 1..MaxRows}
      [] OTHER -> {<<1>>}

TableCellSelect ==
    /\ kb = Closed
    /\ \E i \in DOMAIN phases :
        LET t == phases[i]
            rid == GetRid(t, i - 1)
        IN kb' = [row |-> i, rid |-> rid, shown |-> FieldsOf(t, ops[t][rid + 1])]
    /\ UNCHANGED <<phases, ops, currentRow, programFile, edits>>

Accept(fields) ==
    /\ kb # Closed /\ Touched
    /\ LET t == phases[kb.row]
           op == Stored(t, ops[t][kb.rid + 1], fields)
       IN /\ \A k \in DOMAIN op : op[k] <= MaxPower
          /\ ops' = [ops EXCEPT ![t][kb.rid + 1] = op]
    /\ kb' = Closed
    /\ UNCHANGED <<phases, currentRow, programFile>>

AcceptTyped == kb # Closed /\ \E fields \in Typed(phases[kb.row]) : Accept(fields)
AcceptShown == kb # Closed /\ Accept(kb.shown)

Cancel ==
    /\ kb # Closed /\ kb' = Closed
    /\ UNCHANGED <<phases, ops, currentRow, programFile, edits>>

-----------------------------------------------------------------------------
(* Save and load.  The save itself, its name and its failures are in        *)
(* ProgramFiles.                                                           *)

SaveChecked ==
    /\ kb = Closed
    /\ IF FindBadLoop = {}
       THEN currentRow' = Len(phases) /\ programFile' = SaveProgram
       ELSE currentRow' = Min(FindBadLoop) - 1 /\ UNCHANGED programFile
    /\ UNCHANGED <<phases, ops, kb, edits>>

InitPage ==
    /\ kb = Closed
    /\ \E data \in {programFile, EmptyProgram} :
        /\ phases' = LoadPhases(data) /\ ops' = LoadOps(data)
        /\ currentRow' = Len(phases')
    /\ UNCHANGED <<programFile, kb, edits>>

EditorInit ==
    /\ phases = <<>> /\ ops = NoOps /\ currentRow = 0
    /\ programFile = EmptyProgram /\ kb = Closed /\ edits = 0

EditorNext ==
    \/ AddOp \/ AddMainOp \/ RemoveOp \/ SetCurrentRow \/ ChangeSprayer
    \/ TableCellSelect \/ AcceptTyped \/ AcceptShown \/ Cancel
    \/ SaveChecked \/ InitPage

EditorSpec == EditorInit /\ [][EditorNext]_editorVars

EditorTypeOK ==
    /\ phases \in Seq(OpTypes)
    /\ \A k \in DOMAIN Types : \A i \in DOMAIN ops[Types[k]] : Len(ops[Types[k]][i]) = OpWidths[k]
    /\ currentRow \in 0..Len(phases)

-----------------------------------------------------------------------------
(* Properties.                                                             *)

(* The lists of the types and the list of phases stay in step, through      *)
(* every insertion, removal and change and through the file: the operator   *)
(* edits the row that is shown, and no other (program.hpp:378,             *)
(* program-model-editor.cpp:132).                                          *)
SavedRows ==
    LET loaded == LoadPhases(programFile)
        lists == LoadOps(programFile)
    IN [i \in DOMAIN loaded |->
           [type |-> loaded[i],
            value |-> lists[loaded[i]][Cardinality({j \in 1..i : loaded[j] = loaded[i]})]]]

Table == INSTANCE RowTable WITH
    rows <- RowsShown, cursor <- currentRow, saved <- SavedRows, RowTypes <- OpTypes

ImplementsRowTable == Table!TableSpec

(* A value that was shown and accepted as it stands is not changed: the     *)
(* dialog names the unit of its fields (AutoParamKeyboard.cpp:386).        *)
ShownIsStored == [][AcceptShown => ops' = ops]_editorVars
=============================================================================
