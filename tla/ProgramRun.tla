----------------------------- MODULE ProgramRun -----------------------------
(***************************************************************************)
(* What the automatic mode promises: a run executes the phases of its       *)
(* program one at a time, in the order in which a reader of the program     *)
(* unfolds its loops, skipping none, repeating none; it is "done" only when *)
(* the last one has been executed, and otherwise it is "stopped".           *)
(*                                                                         *)
(* No look-ahead, no counters, no wires: a loop GoTo(to, N) at phase pid    *)
(* means "N more times the phases from `to' up to here".                    *)
(***************************************************************************)
EXTENDS Integers, Sequences

CONSTANT Programs     (* the programs a run may be started with              *)

VARIABLES
  phases,             (* the program of the current (or last) run            *)
  outcome,            (* "idle", "running", "done" or "stopped"              *)
  executed            (* the ids of the phases executed so far               *)

vars == <<phases, outcome, executed>>

Times(n, seq) ==
  LET Rep[k \in Nat] == IF k = 0 THEN <<>> ELSE seq \o Rep[k - 1]
  IN  Rep[n]

(* The phases executed by going from phase 0 to the end of the program.    *)
Trace(prog) ==
  LET Span[from, to \in Nat] ==
        IF to <= from THEN <<>>
        ELSE LET last == prog[to]
             IN  IF last.kind = "goto"
                 THEN Span[from, to - 1]
                        \o Times(last.N, Span[last.to, to - 1])
                 ELSE Append(Span[from, to - 1], to - 1)
  IN  Span[0, Len(prog)]

Init ==
  /\ phases = <<>>
  /\ outcome = "idle"
  /\ executed = <<>>

Begin ==
  /\ outcome # "running"
  /\ phases' \in Programs
  /\ outcome' = "running"
  /\ executed' = <<>>

ExecuteNext ==
  /\ outcome = "running"
  /\ Len(executed) < Len(Trace(phases))
  /\ executed' = Append(executed, Trace(phases)[Len(executed) + 1])
  /\ UNCHANGED <<phases, outcome>>

Complete ==
  /\ outcome = "running"
  /\ executed = Trace(phases)
  /\ outcome' = "done"
  /\ UNCHANGED <<phases, executed>>

Stop ==
  /\ outcome = "running"
  /\ outcome' = "stopped"
  /\ UNCHANGED <<phases, executed>>

Next == Begin \/ ExecuteNext \/ Complete \/ Stop

Spec == Init /\ [][Next]_vars
=============================================================================
