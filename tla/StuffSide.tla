------------------------------ MODULE StuffSide ------------------------------
(***************************************************************************)
(* What stuff_ctl promises its client on the wire between them: the answers *)
(* it gives to "prepare", "operation" and a deactivation, and the failures  *)
(* it reports by itself.  AutoSystem is built on this side of stuff_ctl and *)
(* StuffCtl, the node in full, implements it.                              *)
(*                                                                         *)
(* The bus: a status is sent when it changes or carries an error.          *)
(***************************************************************************)
EXTENDS Naturals, Sequences

CONSTANT EchoIdle     (* does deactivating a wire that is not active answer? *)

VARIABLES
  toStuff,            (* commands on their way, [cmd |-> ...]                *)
  fromStuff,          (* statuses on their way back                         *)
  stuffStatus,        (* status of the wire at stuff_ctl's end               *)
  engaged             (* some device is reserved for the client's run        *)

sideVars == <<toStuff, fromStuff, stuffStatus, engaged>>

Status(status, err) == [kind |-> "status", status |-> status, err |-> err]

Init ==
  /\ toStuff = <<>>
  /\ fromStuff = <<Status("ready", FALSE)>>
  /\ stuffStatus = "ready"
  /\ engaged = FALSE

(* The client takes a status, sends a command, or answers one by the other. *)
Client ==
  /\ \/ fromStuff # <<>> /\ fromStuff' = Tail(fromStuff)
     \/ UNCHANGED fromStuff
  /\ \/ UNCHANGED toStuff
     \/ /\ Len(toStuff') = Len(toStuff) + 1
        /\ SubSeq(toStuff', 1, Len(toStuff)) = toStuff
  /\ UNCHANGED <<stuffStatus, engaged>>

Take(cmds) ==
  /\ toStuff # <<>> /\ Head(toStuff).cmd \in cmds
  /\ toStuff' = Tail(toStuff)

(* An accepted command makes the wire active; "prepare" reserves devices.  *)
Accept ==
  /\ Take({"prepare", "operation"})
  /\ stuffStatus' = "active"
  /\ fromStuff' = IF stuffStatus = "active" THEN fromStuff
                  ELSE Append(fromStuff, Status("active", FALSE))
  /\ IF Head(toStuff).cmd = "prepare" THEN engaged' \in BOOLEAN
                                      ELSE UNCHANGED engaged

(* A device that is to be used is not available.                           *)
Reject ==
  /\ Take({"prepare"})
  /\ stuffStatus' = "ready"
  /\ fromStuff' = Append(fromStuff, Status("ready", TRUE))
  /\ engaged' = TRUE

Deactivate ==
  /\ Take({"deactivate"})
  /\ stuffStatus' = "ready"
  /\ fromStuff' = IF stuffStatus = "active" \/ EchoIdle
                  THEN Append(fromStuff, Status("ready", FALSE))
                  ELSE fromStuff
  /\ engaged' = FALSE

(* A reserved device failed or is not in the state it was set to.          *)
Fail ==
  /\ engaged
  /\ stuffStatus' = "ready"
  /\ fromStuff' = Append(fromStuff, Status("ready", TRUE))
  /\ engaged' = FALSE
  /\ UNCHANGED toStuff

Serve == Accept \/ Reject \/ Deactivate

Next == Client \/ Serve \/ Fail

Spec == Init /\ [][Next]_sideVars
=============================================================================
