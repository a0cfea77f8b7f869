----------------------------- MODULE MCGameCalls ----------------------------
(***************************************************************************)
(* Boss is a Pal.  Four functions: plain fields, a second "give" on which  *)
(* no hook is installed, a struct with arrays of structs and of names, and *)
(* fields nested to the limit and beyond.                                  *)
(***************************************************************************)
EXTENDS GameCalls, TLC

CONSTANTS a2, a3

(* The default object is at 1; the other addresses are interchangeable. *)
MCAddr == {1, a2, a3}
Symmetry == Permutations({a2, a3})

MCSuper == [Pal |-> NoClass, Boss |-> "Pal"]
Entry(wide, units) == [wide |-> wide, units |-> units]
MCPool == << <<Entry(FALSE, <<3>>), Entry(TRUE, <<1, 33>>), Entry(FALSE, <<1, 2>>)>>,
             <<Entry(FALSE, <<5>>), Entry(FALSE, <<2>>)>> >>

Param(name, type, offset) ==
  [name |-> name, type |-> type, offset |-> offset, inner |-> "", innerSize |-> 0,
   size |-> 0, fields |-> <<>>]
StructOf(name, offset, size, fields) ==
  [Param(name, "Struct", offset) EXCEPT !.size = size, !.fields = fields]
ArrayOf(name, offset, inner, size, fields) ==
  [Param(name, "Array", offset) EXCEPT !.inner = inner, !.innerSize = size, !.fields = fields]

In(p) == StructOf("d", 0, 4, <<p>>)
Deep == In(In(In(In(Param("n", "Int", 0)))))
MCFunctions ==
  <<[name |-> "give", owner |-> "Pal",
     properties |-> <<Param("n", "Int", 0), Param("s", "Str", 4), Param("b", "Byte", 7),
                      Param("m", "Map", 8), Param("u", "UInt16", 9), Param("o", "Object", 11)>>],
    [name |-> "give", owner |-> "Boss", properties |-> <<Param("n", "Int16", 1)>>],
    [name |-> "tell", owner |-> "Pal",
     properties |-> <<StructOf("t", 1, 4, <<Param("k", "Name", 0), Param("on", "Bool", 2),
                                            Param("e", "Enum", 3)>>),
                      ArrayOf("l", 5, "Struct", 4, <<Param("s", "Str", 0), Param("i", "Int8", 3)>>),
                      ArrayOf("w", 8, "Name", 2, <<>>)>>],
    [name |-> "deep", owner |-> "Pal", properties |-> <<Deep>>]>>

Ascii(n) == << <<1, n>> >>
Astral == Bytes(33)
Texts == {<<>>, Ascii(2), Astral, Bytes(9) \o Ascii(1), Bytes(20), << <<3, 1>>, <<0, 2>> >>,
          << <<2, 0>>, <<0, 3>> >>, Ascii(0) \o Ascii(1), Bytes(17) \o Astral, << <<5, 0>> >>}

Call(name, owner, args, on) == [name |-> name, owner |-> owner, args |-> args, on |-> on]
RECURSIVE Nest(_)
Nest(n) == IF n = 0 THEN <<Number("n", 3)>> ELSE <<Struct("d", Nest(n - 1))>>
TellArgs ==
  {<<Struct("t", <<Text("k", k), Number("on", 2), Number("e", 3)>>), Array("l", l)>> :
     k \in {Ascii(2), Ascii(1), <<>>},
     l \in {<<Struct("", <<Text("s", Astral), Number("i", 1)>>),
              Struct("", <<Number("i", 1), Text("s", Ascii(3))>>)>>,
            <<Struct("", <<>>)>>}} \cup
  {<<Struct("l", <<>>), Array("w", <<Text("", Ascii(1) \o Ascii(2)), Text("", Ascii(2)),
                                     Text("", Ascii(2))>>)>>}
GiveArgs ==
  {<<Number("n", n)>> : n \in {-128, -1, 127}} \cup
  {<<Text("s", t), Number("b", 1)>> : t \in Texts} \cup
  {<<Number("b", 3)>>, <<Number("u", 7), Text("n", <<>>)>>, <<Number("u", 6), Number("o", 0)>>}
MCPluginCalls ==
  {Call("give", "Pal", a, "") : a \in GiveArgs} \cup {Call("tell", "Pal", a, "") : a \in TellArgs} \cup
  {Call("deep", "Pal", Nest(n), "Boss") : n \in {1, 3, 4}} \cup
  {Call("give", "Boss", <<Number("n", -8)>>, "handle"), Call("take", "Pal", <<>>, "Pal")}
MCGameArgs ==
  {[function |-> 1, args |-> <<Text("s", t), Number("b", 1)>>] :
     t \in {Bytes(20), Bytes(9) \o Ascii(1)}} \cup
  {[function |-> 3, args |-> <<Array("w", [i \in 1 .. 2 |-> Text("", Ascii(2))])>>],
   [function |-> 4, args |-> Nest(3)]}
=============================================================================
