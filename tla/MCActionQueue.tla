--------------------------- MODULE MCActionQueue ---------------------------
(***************************************************************************)
(* Two plugin workers, the game thread and a stray thread that also calls  *)
(* drain.  Capacity and MaxActions are small enough that the queue fills,  *)
(* pushes are refused and a drain stops with work left.                    *)
(***************************************************************************)
EXTENDS ActionQueue
=============================================================================
