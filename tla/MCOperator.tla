----------------------------- MODULE MCOperator -----------------------------
(***************************************************************************)
(* What the server's operator relies on, in one run: the launcher's crash  *)
(* quarantine (Launcher) and the commands that reach the plugins of the    *)
(* server it started (ChatCommands).  They share no state; a behaviour is  *)
(* one of the launcher or one of the commands, as subject says, and the    *)
(* other component rests in its initial state.                             *)
(***************************************************************************)
EXTENDS MCLauncher, MCChatCommands

VARIABLE subject

(* Which plugins the resting server would load is of no account. *)
MCInit ==
  /\ Init /\ ChatInit
  /\ subject \in {"launcher", "commands"}
  /\ subject = "launcher" => declared = << <<Admin(<<"a">>)>>, <<Open(<<"B">>)>> >>

MCNext ==
  \/ subject = "launcher" /\ Next /\ UNCHANGED <<chatVars, subject>>
  \/ subject = "commands" /\ ChatNext /\ UNCHANGED <<vars, subject>>

MCSpec == MCInit /\ [][MCNext]_<<vars, chatVars, subject>>

AllSymmetry == Symmetry \cup Permutations(MCPlayers)
=============================================================================
