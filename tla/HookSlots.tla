----------------------------- MODULE HookSlots -----------------------------
(***************************************************************************)
(* The reflection backend's pointer-slot hooks                             *)
(* (native/src/reflection_backend.cpp, chat_hook.cpp, generic_hook.cpp).   *)
(* The bootstrap thread swaps UFunction::Func slots and GEngine's Tick     *)
(* vtable entry while the game thread keeps calling through them.  A slot  *)
(* holds the game's own function or the trampoline of a hook, and a hook   *)
(* remembers in original_ what it replaced, so the hooks of one slot form  *)
(* a chain: BroadcastChatMessage can carry the chat hook and, on top of    *)
(* it, a generic hook.  Removal runs on the game thread (or at exit), so   *)
(* no game call is in progress then.                                       *)
(***************************************************************************)
EXTENDS Naturals, Sequences, FiniteSets

CONSTANTS
  Functions,   \* the UFunctions of the game that plugins may name
  Broadcast,   \* BroadcastChatMessage, the function of the chat hook
  Tick,        \* GEngine's Tick vtable slot
  NoSlot,      \* a PointerSlotHook with slot_ == nullptr
  Wanted,      \* the kinds install_generic_hooks asks for
  Capacity,    \* GenericHookTable::kCapacity (128)
  MaxCalls     \* bound: calls the game makes

ASSUME HookSlotsAssumptions ==
  /\ Broadcast \in Functions
  /\ Tick \notin Functions /\ NoSlot \notin Functions \cup {Tick}
  /\ Wanted \subseteq Functions
  /\ Capacity \in Nat \ {0} /\ MaxCalls \in Nat

Slots == Functions \cup {Tick}
Game == 0                      \* the game's own function
Entries == 1..Capacity         \* stub<I> and entries_[I]
ChatHook == Capacity + 1
TickHook == Capacity + 2
Hooks == 1..(Capacity + 2)
Null == Capacity + 3           \* original_ == nullptr

VARIABLES
  slot,        \* what each slot points to
  original,    \* original_ of each hook
  slotOf,      \* slot_ of each hook
  active,      \* Entry::active, and g_active_* for the chat and tick hooks
  spec,        \* Entry::spec.name
  boot,        \* what the bootstrap thread (or the remover) is doing
  step,        \* its position in PointerSlotHook::install
  target,      \* the hook and the slot being installed
  todo,        \* kinds still to hook
  calling,     \* the slot the game thread called, or NoSlot
  at,          \* the function it is in
  legible,     \* the hooks that find this call's arguments, by kind
  delivered,   \* whether the trampoline it is in has delivered
  ran,         \* history: how often the original ran in this call
  suppressed,  \* history: whether the chat hook swallowed this call
  events,      \* history: <<hook, function name>> delivered in this call
  hookedAt,    \* history: the hooks on the slot when the call entered it
  calls        \* calls made

bootVars == <<boot, step, target, todo>>
gameVars == <<calling, at, legible, delivered, ran, suppressed, events, hookedAt, calls>>
vars == <<slot, original, slotOf, active, spec, bootVars, gameVars>>

Init ==
  /\ slot = [s \in Slots |-> Game]
  /\ original = [h \in Hooks |-> Null]
  /\ slotOf = [h \in Hooks |-> NoSlot]
  /\ active = [h \in Hooks |-> FALSE]
  /\ spec = [h \in Hooks |-> NoSlot]
  /\ boot = "tick" /\ step = 0 /\ target = <<0, NoSlot>> /\ todo = Wanted
  /\ calling = NoSlot /\ at = Game /\ legible = {} /\ delivered = FALSE
  /\ ran = 0 /\ suppressed = FALSE /\ events = <<>> /\ hookedAt = {} /\ calls = 0

-----------------------------------------------------------------------------
(* Mutant of InstallOrder: original_ is read after the swap. *)
SwapBeforeSave == <<"swap", "save", "publish">>

(* PointerSlotHook::install: read the slot, swap it, set slot_. *)
InstallOrder == <<"save", "swap", "publish">>

(* Mutant of Free: entries in use are taken as well. *)
AnyEntry(i) == TRUE

(* GenericHookTable::install takes the first entry that is not active. *)
Free(i) == ~active[i] /\ \A j \in 1..(i - 1) : active[j]

(* A trampoline's static context is set before its slot is swapped; a      *)
(* generic entry becomes active only afterwards.                           *)
BeginTickHook ==
  /\ boot = "tick" /\ step = 0
  /\ active' = [active EXCEPT ![TickHook] = TRUE]
  /\ target' = <<TickHook, Tick>> /\ step' = 1
  /\ UNCHANGED <<slot, original, slotOf, spec, boot, todo, gameVars>>

BeginChatHook ==
  /\ boot = "chat" /\ step = 0
  /\ active' = [active EXCEPT ![ChatHook] = TRUE]
  /\ target' = <<ChatHook, Broadcast>> /\ step' = 1
  /\ UNCHANGED <<slot, original, slotOf, spec, boot, todo, gameVars>>

BeginGenericHook(f, i) ==
  /\ boot = "generic" /\ step = 0 /\ f \in todo
  /\ Free(i)
  /\ spec' = [spec EXCEPT ![i] = f]
  /\ target' = <<i, f>> /\ step' = 1
  /\ todo' = todo \ {f}
  /\ UNCHANGED <<slot, original, slotOf, active, boot, gameVars>>

(* A function that is not found, a full table, an engine that never comes  *)
(* up: the hook is left out.  With neither tick nor chat hook, start fails.*)
SkipHook ==
  /\ boot \in {"tick", "chat", "generic"} /\ step = 0
  /\ \/ boot = "tick" /\ boot' = "chat" /\ UNCHANGED todo
     \/ /\ boot = "chat" /\ UNCHANGED todo
        /\ boot' = IF slotOf[TickHook] = NoSlot THEN "failed" ELSE "generic"
     \/ boot = "generic" /\ UNCHANGED boot /\ \E f \in todo : todo' = todo \ {f}
  /\ UNCHANGED <<slot, original, slotOf, active, spec, step, target, gameVars>>

(* PointerSlotHook::install; it refuses a hook that is already installed. *)
InstallStep ==
  /\ step \in 1..3
  /\ LET h == target[1]
         s == target[2]
     IN  IF step = 1 /\ slotOf[h] # NoSlot
         THEN step' = 0 /\ UNCHANGED <<slot, original, slotOf>>
         ELSE /\ step' = step + 1
              /\ \/ /\ InstallOrder[step] = "save"
                    /\ original' = [original EXCEPT ![h] = slot[s]]
                    /\ UNCHANGED <<slot, slotOf>>
                 \/ /\ InstallOrder[step] = "swap"
                    /\ slot' = [slot EXCEPT ![s] = h]
                    /\ UNCHANGED <<original, slotOf>>
                 \/ /\ InstallOrder[step] = "publish"
                    /\ slotOf' = [slotOf EXCEPT ![h] = s]
                    /\ UNCHANGED <<slot, original>>
  /\ UNCHANGED <<active, spec, boot, target, todo, gameVars>>

InstallDone ==
  /\ step = 4
  /\ active' = [active EXCEPT ![target[1]] = TRUE]
  /\ step' = 0
  /\ boot' = CASE boot = "tick" -> "chat"
               [] boot = "chat" -> "generic"
               [] OTHER -> boot
  /\ UNCHANGED <<slot, original, slotOf, spec, target, todo, gameVars>>

AllInstalled ==
  /\ boot = "generic" /\ step = 0 /\ todo = {}
  /\ boot' = "installed"
  /\ UNCHANGED <<slot, original, slotOf, active, spec, step, target, todo, gameVars>>

-----------------------------------------------------------------------------
(* Mutant of RemoveBefore: the chat hook goes first. *)
ChatFirst(h) == IF h = ChatHook THEN {} ELSE {ChatHook}

(* The hooks uninstall() removes before h: generic entries in order, then  *)
(* chat, then tick.                                                        *)
RemoveBefore(h) == 1..(h - 1)

BeginRemoval ==
  /\ boot = "installed" /\ calling = NoSlot
  /\ boot' = "removing"
  /\ UNCHANGED <<slot, original, slotOf, active, spec, step, target, todo, gameVars>>

(* PointerSlotHook::uninstall, and the hook's context is cleared. *)
Remove(h) ==
  /\ boot = "removing" /\ slotOf[h] # NoSlot
  /\ \A g \in RemoveBefore(h) : slotOf[g] = NoSlot
  /\ slot' = [slot EXCEPT ![slotOf[h]] = original[h]]
  /\ original' = [original EXCEPT ![h] = Null]
  /\ slotOf' = [slotOf EXCEPT ![h] = NoSlot]
  /\ active' = [active EXCEPT ![h] = FALSE]
  /\ UNCHANGED <<spec, bootVars, gameVars>>

Removed ==
  /\ boot = "removing" /\ \A h \in Hooks : slotOf[h] = NoSlot
  /\ boot' = "removed"
  /\ UNCHANGED <<slot, original, slotOf, active, spec, step, target, todo, gameVars>>

-----------------------------------------------------------------------------
(* What a hook needs of a call to make an event of it: an FFrame whose     *)
(* Locals are not null, at the offset that hooks of its kind use; the chat *)
(* hook also fails where Locals cannot be read or decoded.  A tick has no  *)
(* arguments.                                                              *)
Readers(s) ==
  IF s = Tick THEN {} ELSE IF s = Broadcast THEN {"chat", "generic"} ELSE {"generic"}
Legible(h) ==
  \/ h = TickHook
  \/ h = ChatHook /\ "chat" \in legible
  \/ h \in Entries /\ "generic" \in legible

(* The game calls through a slot, with or without arguments. *)
Call(s) ==
  /\ calling = NoSlot /\ boot # "removing" /\ calls < MaxCalls
  /\ calls' = calls + 1
  /\ calling' = s /\ at' = slot[s] /\ legible' \in SUBSET Readers(s)
  /\ hookedAt' = {h \in Hooks : slotOf[h] = s /\ active[h]}
  /\ UNCHANGED <<slot, original, slotOf, active, spec, bootVars, delivered, ran,
                 suppressed, events>>

(* tick_trampoline, ChatHook::trampoline, GenericHookTable::dispatch up to *)
(* the chaining: deliver if active and there is something to decode.  The  *)
(* chat hook may swallow what it delivers: a recognized command with       *)
(* suppress.                                                               *)
Observes(h) == active[h] /\ Legible(h)

TrampolineDeliver(swallow) ==
  /\ calling # NoSlot /\ at \in Hooks /\ ~delivered
  /\ swallow => at = ChatHook /\ Observes(at)
  /\ events' = IF Observes(at) THEN Append(events, <<at, spec[at]>>) ELSE events
  /\ suppressed' = swallow
  /\ delivered' = TRUE
  /\ UNCHANGED <<slot, original, slotOf, active, spec, bootVars, calling, at, legible,
                 ran, hookedAt, calls>>

(* A trampoline without its static context just returns; otherwise         *)
(* original() runs unless it is null.                                      *)
Chains(h) == (h \in Entries \/ active[h]) /\ original[h] # Null

TrampolineChain ==
  /\ calling # NoSlot /\ at \in Hooks /\ delivered
  /\ ~suppressed /\ Chains(at)
  /\ at' = original[at]
  /\ delivered' = FALSE
  /\ UNCHANGED <<slot, original, slotOf, active, spec, bootVars, calling, legible, ran,
                 suppressed, events, hookedAt, calls>>

(* The game's function runs. *)
RunOriginal ==
  /\ calling # NoSlot /\ at = Game /\ ran = 0
  /\ ran' = 1
  /\ UNCHANGED <<slot, original, slotOf, active, spec, bootVars, calling, at, legible,
                 delivered, suppressed, events, hookedAt, calls>>

(* The call is back in the game. *)
Finished ==
  \/ at = Game /\ ran = 1
  \/ at \in Hooks /\ delivered /\ (suppressed \/ ~Chains(at))

Return ==
  /\ calling # NoSlot /\ Finished
  /\ calling' = NoSlot /\ at' = Game /\ legible' = {} /\ delivered' = FALSE
  /\ ran' = 0 /\ suppressed' = FALSE /\ events' = <<>> /\ hookedAt' = {}
  /\ UNCHANGED <<slot, original, slotOf, active, spec, bootVars, calls>>

-----------------------------------------------------------------------------
Installing ==
  \/ BeginTickHook \/ BeginChatHook
  \/ \E f \in Functions, i \in Entries : BeginGenericHook(f, i)
  \/ SkipHook \/ InstallStep \/ InstallDone \/ AllInstalled

Removing == BeginRemoval \/ (\E h \in Hooks : Remove(h)) \/ Removed

GameStep ==
  \/ \E swallow \in BOOLEAN : TrampolineDeliver(swallow)
  \/ TrampolineChain \/ RunOriginal \/ Return

Next ==
  \/ Installing
  \/ Removing
  \/ \E s \in Slots : Call(s)
  \/ GameStep

Spec == Init /\ [][Next]_vars

(* The game thread runs; nothing is assumed of installation or removal. *)
FairSpec == Spec /\ WF_vars(GameStep)

-----------------------------------------------------------------------------
(* Types; no call is observed more often than a slot has hooks. *)
TypeOK ==
  /\ slot \in [Slots -> Hooks \cup {Game}]
  /\ original \in [Hooks -> Hooks \cup {Game, Null}]
  /\ slotOf \in [Hooks -> Slots \cup {NoSlot}]
  /\ active \in [Hooks -> BOOLEAN]
  /\ spec \in [Hooks -> Functions \cup {NoSlot}]
  /\ boot \in {"tick", "chat", "generic", "installed", "removing", "removed",
              "failed"}
  /\ step \in 0..4
  /\ target \in (Hooks \cup {0}) \X (Slots \cup {NoSlot})
  /\ todo \subseteq Functions
  /\ calling \in Slots \cup {NoSlot}
  /\ at \in Hooks \cup {Game} /\ delivered \in BOOLEAN
  /\ legible \subseteq {"chat", "generic"}
  /\ ran \in 0..1 /\ suppressed \in BOOLEAN
  /\ events \in Seq(Hooks \X (Functions \cup {NoSlot})) /\ Len(events) <= 2
  /\ hookedAt \subseteq Hooks
  /\ calls \in 0..MaxCalls

(***************************************************************************)
(* "Always chain the original exec thunk" (generic_hook.cpp:127): a call   *)
(* that is back in the game has run the game's own function, unless the    *)
(* chat hook swallowed it, although hooks are installed under its feet.    *)
(***************************************************************************)
OriginalRuns == calling # NoSlot /\ Finished => ran = 1 \/ (suppressed /\ calling = Broadcast)

(***************************************************************************)
(* Every hook that was on the slot when the call came and finds the call's *)
(* arguments observes it exactly once, hooks of the same slot included and *)
(* whether or not the other hook found them, unless the chat hook          *)
(* swallowed the call before it got there; a hook that finds none makes no *)
(* event; a generic event names the function that was called: stubs and    *)
(* entries are never mixed up.                                             *)
(***************************************************************************)
Observation ==
  calling # NoSlot /\ Finished =>
    /\ \A i \in 1..Len(events) : events[i][1] \in Entries => events[i][2] = calling
    /\ \A i, j \in 1..Len(events) : events[i][1] = events[j][1] => i = j
    /\ \A i \in 1..Len(events) : Legible(events[i][1])
    /\ \A h \in hookedAt : Legible(h) /\ (suppressed => h \in Entries) =>
         \E i \in 1..Len(events) : events[i][1] = h

(***************************************************************************)
(* Once the hooks are removed every slot holds the game's own function.    *)
(***************************************************************************)
Restored == boot = "removed" => \A s \in Slots : slot[s] = Game

(***************************************************************************)
(* Every call the game makes comes back: a chain of hooks never loops.     *)
(***************************************************************************)
CallsReturn == calling # NoSlot ~> calling = NoSlot

=============================================================================
