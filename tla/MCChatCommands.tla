--------------------------- MODULE MCChatCommands ---------------------------
(***************************************************************************)
(* Two plugins: "a" is for administrators, "B" for everyone and suppressed;*)
(* two further directories have a clash of names and a name too long.      *)
(* Tokens have at most 3 bytes and lines few tokens, so that every limit   *)
(* of the parser is reached by the lines and requests below.               *)
(***************************************************************************)
EXTENDS ChatCommands

CONSTANTS steam1, steam2

MCPlayers == {steam1, steam2}
Admin(name) == [name |-> name, admin |-> TRUE, suppress |-> FALSE]
Open(name) == [name |-> name, admin |-> FALSE, suppress |-> TRUE]
MCSets ==
  {<< <<Admin(<<"a">>)>>, <<Open(<<"B">>)>> >>,
   << <<Admin(<<"a">>)>>, <<Open(<<"b">>), Open(<<"A">>)>> >>,
   << <<Admin(<<"a">>), Admin(<<"a", "b", "a">>)>>, <<Open(<<"b">>)>> >> }

Bang(text) == <<"bang">> \o text
MCLines == {Bang(<<>>), Bang(<<"A">>), Bang(<<"b", "space", "a">>)}

(* Arguments that need care: blanks, quotes, backslashes, the longest. *)
MCArgs ==
  {<<>>, <<"a">>, <<"space", "a">>, <<"quote">>, <<"backslash">>, <<"tab">>, <<"control">>,
   <<"b", "b", "b">>, <<"a", "backslash", "quote">>}
MCRequests ==
  {[command |-> <<"a">>, args |-> <<x>>] : x \in MCArgs} \cup
  {[command |-> <<"b">>, args |-> <<x, y>>] : x \in {<<>>, <<"quote">>}, y \in MCArgs} \cup
  {[command |-> c, args |-> << <<"a">> >>] : c \in {<<"A">>, <<"a", "space">>, <<"quote">>}}
=============================================================================
