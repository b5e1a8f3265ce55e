--------------------------- MODULE MC_AutoSystem ---------------------------
(***************************************************************************)
(* Small instances of AutoSystem: two axes, and programs that reach every   *)
(* path of the look-ahead.                                                 *)
(***************************************************************************)
EXTENDS AutoSystem

CONSTANTS X, Y

At(x, y) == [a \in Axes |-> IF a = X THEN x ELSE y]
To(x, y) == Operation(TRUE, At(x, y))
By(x, y) == Operation(FALSE, At(x, y))

(* A list of three segments, X alone twice through a loop and then both     *)
(* axes; Y alone needs a new list, because X stops.                        *)
TwoAxisProgram == <<By(1, 0), GoTo(0, 1), By(1, 1), By(0, 1)>>
(* Heating in place, a timed and an endless pause, a move and its return.   *)
PauseProgram == <<By(0, 0), Pause(500), By(1, 0), Pause(0), To(0, 0)>>
(* Nested loops round an operation that moves nothing.                      *)
NestedProgram == <<By(1, 0), By(0, 0), GoTo(0, 1), GoTo(1, 1)>>
(* A phase the automatic mode does not execute.                            *)
OtherProgram == <<By(0, 1), Other>>

MCPrograms == {TwoAxisProgram, PauseProgram, NestedProgram, OtherProgram}

(* Four short segments of one continuous movement.                         *)
MCShortSegments == {<<By(1, 0), GoTo(0, 3)>>}
=============================================================================
