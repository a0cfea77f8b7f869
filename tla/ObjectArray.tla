---------------------------- MODULE ObjectArray -----------------------------
(***************************************************************************)
(* A plugin's search of the game's objects: pal.find_object and            *)
(* pal.find_all_of (reflection_reader.cpp, object_array.cpp) walk          *)
(* GUObjectArray on the plugin's worker thread while the game creates and  *)
(* destroys objects.                                                       *)
(*                                                                         *)
(* The reads are plain copies, without any lock: of a slot, then of the    *)
(* class of the object in it, then of its name.  Reading an object that    *)
(* was destroyed meanwhile gives what it was, garbage, or a fault;         *)
(* GameCalls, which adds the calls of game functions, has the faults.      *)
(***************************************************************************)
EXTENDS Naturals, Sequences

CONSTANTS
  Addr,          \* addresses of objects
  Super,         \* class -> its superclass, or NoClass
  DefaultClass,  \* the class whose default object is in the array
  Names,         \* names of objects
  MaxSuperDepth, \* 64: classes is_a looks at
  MaxObjects,    \* bound: objects the game creates
  MaxFound,      \* the largest max of find_all_of
  MaxWalks       \* bound: searches

Classes == DOMAIN Super
NoClass == "none"
DefaultName == "Default__"

ASSUME ObjectAssumptions ==
  /\ {MaxSuperDepth, MaxObjects, MaxWalks} \subseteq Nat /\ MaxFound \in Nat \ {0}
  /\ DefaultName \notin Names /\ 1 \in Addr /\ 0 \notin Addr
  /\ DefaultClass \in Classes /\ NoClass \notin Classes

VARIABLES
  heap,      \* what is at each address; live or what is left of it
  slots,     \* GUObjectArray: addresses, 0 for a free slot
  born,      \* objects created so far; also the next one's identity
  walk,      \* the worker's search
  walks

game == <<heap, slots, born>>
searchVars == <<game, walk, walks>>

Nothing == [id |-> 0, class |-> NoClass, name |-> "", live |-> FALSE]
Idle == [pc |-> "idle", found |-> <<>>]
Searching == {"slot", "class", "name"}

SearchInit ==
  /\ heap = [a \in Addr |-> IF a = 1 THEN [id |-> 1, class |-> DefaultClass,
                                           name |-> DefaultName, live |-> TRUE] ELSE Nothing]
  /\ slots = <<1>>
  /\ born = 1 /\ walk = Idle /\ walks = 0

-----------------------------------------------------------------------------
(* is_a: base is among the first MaxSuperDepth classes from c upwards. *)
IsA(c, base) ==
  LET Up[n \in Nat] ==
        IF n = 0 THEN c
        ELSE LET below == Up[n - 1] IN IF below = NoClass THEN NoClass ELSE Super[below]
  IN \E n \in 1 .. MaxSuperDepth : Up[n - 1] = base

(* Mutant of Named: the default object is as good as any. *)
NamedAny(o, name) == name \in {"", o.name}

(* What find and find_all_of ask of an object's name; "" asks for no name. *)
Named(o, name) == o.name # DefaultName /\ name \in {"", o.name}
Matches(o, class, name) == IsA(o.class, class) /\ Named(o, name)

Present(class, name) ==
  {heap[slots[i]].id : i \in {j \in DOMAIN slots :
                                slots[j] # 0 /\ Matches(heap[slots[j]], class, name)}}

-----------------------------------------------------------------------------
(* The game, between ticks: an object appears in a free or a new slot, at  *)
(* any free address, and disappears.                                       *)
Spawn(a, class, name) ==
  /\ born < MaxObjects /\ ~heap[a].live
  /\ heap' = [heap EXCEPT ![a] = [id |-> born + 1, class |-> class, name |-> name,
                                  live |-> TRUE]]
  /\ born' = born + 1
  /\ \/ \E i \in DOMAIN slots : slots[i] = 0 /\ slots' = [slots EXCEPT ![i] = a]
     \/ slots' = Append(slots, a)
  /\ walk' = IF walk.pc \in Searching
             THEN [walk EXCEPT !.during = @ \cup {born + 1}] ELSE walk
  /\ UNCHANGED walks

DestroyObject(i) ==
  /\ slots[i] # 0 /\ heap[slots[i]].name # DefaultName
  /\ heap' = [heap EXCEPT ![slots[i]].live = FALSE]
  /\ slots' = [slots EXCEPT ![i] = 0]
  /\ walk' = IF walk.pc \in Searching
             THEN [walk EXCEPT !.through = @ \ {heap[slots[i]].id}] ELSE walk
  /\ UNCHANGED <<born, walks>>

-----------------------------------------------------------------------------
(* find_object (max = 1) and find_all_of: for_each reads the number of     *)
(* slots once and visits them in order until it has max objects.  through  *)
(* and during record which objects were there all the time, and ever.      *)
FindObjects(class, name, max) ==
  /\ walk.pc \in {"idle", "done"} /\ walks < MaxWalks
  /\ walks' = walks + 1
  /\ walk' = [pc |-> "slot", class |-> class, name |-> name, max |-> max,
              num |-> Len(slots), at |-> 1, obj |-> 0, found |-> <<>>,
              through |-> Present(class, name),
              during |-> {heap[a].id : a \in {x \in Addr : heap[x].live}}]
  /\ UNCHANGED game

ReadSlot ==
  /\ walk.pc = "slot"
  /\ walk' = IF walk.at > walk.num THEN [walk EXCEPT !.pc = "done"]
             ELSE IF slots[walk.at] = 0 THEN [walk EXCEPT !.at = @ + 1]
             ELSE [walk EXCEPT !.pc = "class", !.obj = slots[walk.at]]
  /\ UNCHANGED <<game, walks>>

(* is_a, and then object_name, on what is at the address now. *)
Skip == [walk EXCEPT !.pc = "slot", !.at = @ + 1]
Take(o) ==
  [walk EXCEPT !.pc = IF Len(walk.found) + 1 < walk.max THEN "slot" ELSE "done",
               !.at = @ + 1, !.found = Append(@, [addr |-> walk.obj, id |-> o.id])]

ReadClass ==
  /\ walk.pc = "class"
  /\ LET o == heap[walk.obj]
     IN \/ walk' = IF IsA(o.class, walk.class) THEN [walk EXCEPT !.pc = "name"] ELSE Skip
        \/ ~o.live /\ walk' = Skip
  /\ UNCHANGED <<game, walks>>

ReadName ==
  /\ walk.pc = "name"
  /\ LET o == heap[walk.obj]
     IN \/ walk' = IF Named(o, walk.name) THEN Take(o) ELSE Skip
        \/ ~o.live /\ walk' = Skip
  /\ UNCHANGED <<game, walks>>

SearchNext ==
  \/ \E a \in Addr, c \in Classes, n \in Names : Spawn(a, c, n)
  \/ \E i \in DOMAIN slots : DestroyObject(i)
  \/ \E c \in Classes, n \in Names \cup {""} : FindObjects(c, n, 1)
  \/ \E c \in Classes : FindObjects(c, "", MaxFound)
  \/ ReadSlot \/ ReadClass \/ ReadName

SearchSpec == SearchInit /\ [][SearchNext]_searchVars

-----------------------------------------------------------------------------
(* What a finished search returns: only objects that were alive at some    *)
(* time during the search, never a class's default object, and unless it   *)
(* stopped at its maximum, all of the class and name that were there the   *)
(* whole time, although the game creates objects, destroys them and reuses *)
(* their addresses under it (ObjectArray::for_each, find, find_all_of).    *)
FindExact ==
  walk.pc = "done" =>
    LET ids == {walk.found[i].id : i \in DOMAIN walk.found}
    IN /\ ids \subseteq walk.during \ {1}
       /\ Len(walk.found) < walk.max => walk.through \subseteq ids
=============================================================================
