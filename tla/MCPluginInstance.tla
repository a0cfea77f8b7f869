-------------------------- MODULE MCPluginInstance --------------------------
(***************************************************************************)
(* One plugin that declares one command and may subscribe to one of two    *)
(* event kinds, three invocations, two events, queues of two places.       *)
(***************************************************************************)
EXTENDS PluginInstance

CONSTANTS c1, c2, c3, e1, e2, say, chat, join

MCCommands == {c1, c2, c3}
MCEvents == {e1, e2}
MCNameOf == [c \in MCCommands |-> say]
MCKindOf == [e \in MCEvents |-> IF e = e1 THEN chat ELSE join]
=============================================================================
