----------------------------- MODULE MCRuntime -----------------------------
(***************************************************************************)
(* Two plugins; the first edit breaks the plugin it touches, the second    *)
(* one repairs it or changes the other.  The configurations differ in who  *)
(* reloads, when files are edited and which bounds are zero.               *)
(***************************************************************************)
EXTENDS Runtime

CONSTANTS itemHook, chatHook

MCKinds == {itemHook, chatHook}
(* The last version of a plugin adds a hook to those of the first. *)
MCHooksOf == [v \in Versions |-> IF v = 0 THEN {itemHook} ELSE MCKinds]
=============================================================================
