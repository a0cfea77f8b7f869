----------------------------- MODULE GameCalls ------------------------------
(***************************************************************************)
(* Plugins and the game's objects: the searches of ObjectArray;            *)
(* pal.call (plugin_runtime.cpp, execute_call of reflection_backend.cpp),  *)
(* which runs a function of the game on the game thread, on a handle or on *)
(* the first instance of a class; a generic hook (generic_hook.cpp), which *)
(* decodes the arguments of every call of the hooked function.             *)
(*                                                                         *)
(* Reading an object that was destroyed meanwhile may fault, which ends    *)
(* the process.  The action queue's limits are in ActionQueue, the         *)
(* installation of hooks in HookSlots.                                     *)
(***************************************************************************)
EXTENDS Parms, ObjectArray

CONSTANTS
  Functions,    \* the UFunctions in the array: [name, owner, properties]
  PluginCalls,  \* calls plugins make: [name, owner, args, on], args a Lua table,
                \* on a class, "" or "handle", an object found before
  GameArgs,     \* arguments the game passes: [function, args]
  MaxCalls      \* bound: calls of game functions

ASSUME GameAssumptions == MaxCalls \in Nat

VARIABLES
  actions,   \* pal.call actions the game thread has not taken yet
  last,      \* the call of a game function that this step made
  calls,
  crashed    \* the process has ended by a fault

vars == <<searchVars, actions, last, calls, crashed>>

NoCall == [by |-> "nobody"]

Init == SearchInit /\ actions = <<>> /\ last = NoCall /\ calls = 0 /\ crashed = FALSE

-----------------------------------------------------------------------------
(* The game creates or destroys an object, or a search takes a step. *)
Search == SearchNext /\ last' = NoCall /\ UNCHANGED <<actions, calls, crashed>>

(* A direct read of what is at address a no longer: memcpy faults. *)
Fault(a) ==
  /\ ~heap[a].live
  /\ crashed' = TRUE /\ last' = NoCall
  /\ UNCHANGED <<searchVars, actions, calls>>

(* is_a and object_name in a search. *)
InspectFault == walk.pc \in {"class", "name"} /\ Fault(walk.obj)

(* pal.class_of on a handle: class_name reads directly, too. *)
ClassOf(h) == Fault(h.addr)

-----------------------------------------------------------------------------
(* find_function: the first with this name, and of this class if given. *)
FindFunction(name, owner) ==
  SelectInSeq(Functions, LAMBDA f : f.name = name /\ owner \in {"", f.owner})

(* lua_pal_call in a callback, on a handle or, if it is 0, on a class. *)
PalCall(c, handle) ==
  /\ walk.pc \in {"idle", "done"} /\ calls < MaxCalls
  /\ calls' = calls + 1 /\ last' = NoCall
  /\ actions' = Append(actions, [call |-> c, args |-> ParseArgs(c.args), handle |-> handle])
  /\ UNCHANGED <<searchVars, crashed>>

(* The object of a call: the handle, or the first instance of the class. *)
FirstOf(class) ==
  LET at == SelectInSeq(slots, LAMBDA a : a # 0 /\ Matches(heap[a], class, ""))
  IN IF at = 0 THEN 0 ELSE slots[at]
TargetOf(action) ==
  IF action.handle # 0 THEN action.handle
  ELSE FirstOf(IF action.call.on = "" THEN action.call.owner ELSE action.call.on)

(* ProcessEvent on function k with parameters mem: the function reads its  *)
(* own types; the hook, which is installed on the first function of that   *)
(* name, decodes what its layout says.                                     *)
GameSigned == {"Int", "Int16", "Int8"}
Hooked(k) == k = FindFunction(Functions[k].name, "")
Seen(k, mem) ==
  IF Hooked(k) THEN Decode(mem, Layout(Functions[k].properties, 0), DecodeSigned) ELSE <<>>
Called(by, k, sent, mem) ==
  [by |-> by, function |-> k, sent |-> sent,
   got |-> Decode(mem, Functions[k].properties, GameSigned),
   seen |-> Seen(k, mem)]

(* execute_call on the game thread; what cannot be called is only logged.  *)
ExecuteCall ==
  /\ actions # <<>>
  /\ actions' = Tail(actions)
  /\ LET a == Head(actions)
         k == FindFunction(a.call.name, a.call.owner)
         target == TargetOf(a)
         mem == Encode(Layout(Functions[k].properties, 0), a.args)
     IN IF k = 0 \/ target = 0 THEN last' = NoCall /\ UNCHANGED crashed
        ELSE IF heap[target].live
        THEN /\ last' = Called("plugin", k, a.call.args, mem)
             /\ UNCHANGED crashed
        ELSE last' = NoCall /\ crashed' \in BOOLEAN   \* the vtable read fails, or not
  /\ UNCHANGED <<searchVars, calls>>

(* The game calls a function itself. *)
GameCall(c) ==
  /\ calls < MaxCalls
  /\ calls' = calls + 1
  /\ last' = Called("game", c.function, c.args,
                    Encode(Functions[c.function].properties, c.args))
  /\ UNCHANGED <<searchVars, actions, crashed>>

Next ==
  /\ ~crashed
  /\ \/ Search \/ InspectFault
     \/ \E i \in DOMAIN walk.found : ClassOf(walk.found[i])
     \/ \E c \in PluginCalls :
          \/ c.on # "handle" /\ PalCall(c, 0)
          \/ c.on = "handle" /\ \E i \in DOMAIN walk.found : PalCall(c, walk.found[i].addr)
     \/ ExecuteCall
     \/ \E c \in GameArgs : GameCall(c)

GameSpec == Init /\ [][Next]_vars

-----------------------------------------------------------------------------
(* The reference for the codec: what value v is, seen as parameter p; the  *)
(* types in signed are taken for signed although they are not.             *)
Zero(p) ==
  CASE p.type \in {"Str", "Name"} -> Text(p.name, <<>>)
    [] p.type = "Array" -> Array(p.name, <<>>)
    [] p.type = "Struct" -> Struct(p.name, <<>>)
    [] OTHER -> Number(p.name, 0)
Inner(p) == [p EXCEPT !.name = "", !.type = p.inner]
ValueFor(p, items) ==
  LET at == SelectInSeq(items, LAMBDA v : v.name = p.name)
  IN IF at = 0 THEN Zero(p) ELSE items[at]
Visible(fields) == SelectSeq(fields, LAMBDA p : p.type # "Map")

RECURSIVE Shown(_, _, _)
Shown(p, v, signed) ==
  CASE p.type = "Bool" -> Number(p.name, IF v.number # 0 THEN 1 ELSE 0)
    [] p.type \in signed -> Number(p.name, IF 2 * v.number < Base THEN v.number
                                           ELSE v.number - Base)
    [] p.type = "Array" ->
         Array(p.name, [i \in DOMAIN v.items |-> Shown(Inner(p), v.items[i], signed)])
    [] p.type = "Struct" ->
         LET fields == Visible(p.fields)
         IN Struct(p.name, [i \in DOMAIN fields |->
                              Shown(fields[i], ValueFor(fields[i], v.items), signed)])
    [] OTHER -> [v EXCEPT !.name = p.name]

(* The numbers that fit the type and the cast that writes it. *)
Limit == [Int |-> (Base ^ 4) \div 2, UInt |-> (Base ^ 4) \div 2, Int16 |-> (Base ^ 2) \div 2,
          UInt16 |-> (Base ^ 2) \div 2, Int8 |-> Base \div 2, Byte |-> Base, Enum |-> Base]
Fits(type, n) ==
  n < Limit[type] /\ n >= (IF type \in {"Int", "Int16"} THEN 0 - Limit[type] ELSE 0)

RECURSIVE WellFormed(_)
WellFormed(t) ==
  t = <<>> \/ /\ t[1] # <<1, 0>>
              /\ SubSeq(t, 1, FirstLen(t)) = Bytes(CodePoint(t))
              /\ ~High(CodePoint(t)) /\ ~Low(CodePoint(t))
              /\ WellFormed(SubSeq(t, FirstLen(t) + 1, Len(t)))

(* Values that can be expected to arrive as they are: of the right kind,   *)
(* in range, well-formed text, names the game knows, within the limits.    *)
RECURSIVE Faithful(_, _, _)
Faithful(p, v, depth) ==
  /\ v.kind = Zero(p).kind \/ (p.type = "Array" /\ v = Struct(v.name, <<>>))
  /\ p.type \in Numeric => Fits(p.type, v.number)
  /\ p.type = "Str" => WellFormed(v.text) /\ Len(ToUtf16(v.text)) <= MaxChars
  /\ p.type = "Name" => v.text = <<>> \/ Resolve(Lookup(v.text)) = v.text
  /\ p.type = "Object" => v.number = 0
  /\ p.type = "Array" =>
       /\ Len(v.items) <= MaxItems
       /\ \A i \in DOMAIN v.items : Faithful(Inner(p), v.items[i], depth)
  /\ p.type = "Struct" =>
       depth < MaxDepth /\ \A i \in DOMAIN p.fields :
         Faithful(p.fields[i], ValueFor(p.fields[i], v.items), depth + 1)

RECURSIVE Height(_)
Height(v) == 1 + Max({0} \cup {Height(v.items[i]) : i \in DOMAIN v.items})

Parameters == [name |-> "", type |-> "Struct", fields |-> Functions[last.function].properties]
Arguments == Struct("", last.sent)

(* A function that a plugin calls gets what the plugin wrote, through      *)
(* parse_param, the layout read from the live reflection and encode_parms: *)
(* every value at its place, absent ones zero, nothing beside them         *)
(* overwritten.  Tables nested MaxDepth deep are the limit, one level less *)
(* than the codec's own.                                                   *)
CalleeSees ==
  /\ last.by = "plugin"
  /\ Faithful(Parameters, Arguments, -1) /\ Height(Arguments) <= MaxDepth + 1
  => last.got = Shown(Parameters, Arguments, {}).items

(* The event of a hook shows the arguments of the call as they were        *)
(* passed, whoever made it (plugin-api.md:225: "Parameters decode by type: *)
(* integers (signed/unsigned 8–64-bit)").  decode_scalar reads a           *)
(* ByteProperty as int8_t, so a byte from 128 up is shown as negative.     *)
HookSees ==
  /\ last.by # "nobody" /\ Hooked(last.function)
  /\ Faithful(Parameters, Arguments, -1)
  /\ (last.by = "plugin" => Height(Arguments) <= MaxDepth + 1)
  => last.seen = Shown(Parameters, Arguments, {}).items

(* The same of calls without such a byte: whoever made the call, the event *)
(* shows its numbers, texts, names, arrays and nested structs as they were *)
(* passed (generic_hook.cpp, decode_parms).                                *)
LowBytes == Shown(Parameters, Arguments, {"Byte"}) = Shown(Parameters, Arguments, {})
HookSeesLowBytes == last.by # "nobody" /\ LowBytes => HookSees

(* reflection_reader.hpp:15: "Every access is fault-safe                   *)
(* (process_vm_readv), so a plugin can call it off the game thread without *)
(* risking a crash on a freed/racing object."                              *)
FaultSafe == ~crashed
=============================================================================
