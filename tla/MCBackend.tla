----------------------------- MODULE MCBackend ------------------------------
(***************************************************************************)
(* The two ways palmod reaches into the game, in one run: the gate that    *)
(* lets a process in (ProfileGate) and the slots that are hooked once it   *)
(* is in (HookSlots).  They share no state; a behaviour is one of the      *)
(* gate or one of the hooks, as subject says, and the other component      *)
(* rests in its initial state.                                             *)
(*                                                                         *)
(* BroadcastChatMessage carries the chat hook and is also named by a       *)
(* plugin; two entries for the three kinds asked for, so that the table    *)
(* can be full.                                                            *)
(***************************************************************************)
EXTENDS HookSlots, MCProfileGate

VARIABLE subject

(* Which file and profiles the resting gate has is of no account. *)
MCInit ==
  /\ Init /\ GateInit
  /\ subject \in {"gate", "hooks"}
  /\ subject = "hooks" =>
       exe = 1 /\ directory = {Profile(3, "validated", {Anchor(0, <<"y">>, {})}, NoTable)}

MCNext ==
  \/ subject = "gate" /\ GateNext /\ UNCHANGED <<vars, subject>>
  \/ subject = "hooks" /\ Next /\ UNCHANGED <<gateVars, subject>>

MCSpec ==
  /\ MCInit /\ [][MCNext]_<<vars, gateVars, subject>>
  /\ WF_vars(GameStep)
  /\ \A i \in 1 .. MaxProcs : WF_gateVars(i \in DOMAIN procs /\ Process(i))
=============================================================================
