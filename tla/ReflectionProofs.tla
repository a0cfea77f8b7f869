-------------------------- MODULE ReflectionProofs --------------------------
(***************************************************************************)
(* What the reflection backend promises: OriginalRuns, Observation and     *)
(* Restored of HookSlots, for any table size, any functions asked for and  *)
(* any number of calls; FindExact of ObjectArray, for any objects.  The    *)
(* two have no state in common.                                            *)
(*                                                                         *)
(* A hook is on a slot from the swap in PointerSlotHook::install on, which *)
(* is before slot_ says so.  The hooks on one slot form a chain of at most *)
(* two, the generic hook before the chat hook, that ends in the game's own *)
(* function; installation only puts a hook in front of a chain, and        *)
(* removal takes the front off.  So a call that is inside a hook has the   *)
(* rest of its chain ahead whatever is installed meanwhile.                *)
(***************************************************************************)
EXTENDS HookSlots, ObjectArray, TLAPS

Types ==
  /\ slot \in [Slots -> Hooks \cup {Game}]
  /\ original \in [Hooks -> Hooks \cup {Game, Null}]
  /\ slotOf \in [Hooks -> Slots \cup {NoSlot}]
  /\ active \in [Hooks -> BOOLEAN]
  /\ spec \in [Hooks -> Functions \cup {NoSlot}]
  /\ boot \in {"tick", "chat", "generic", "installed", "removing", "removed", "failed"}
  /\ step \in 0..4
  /\ target \in (Hooks \cup {0}) \X (Slots \cup {NoSlot})
  /\ todo \subseteq Functions
  /\ calling \in Slots \cup {NoSlot}
  /\ at \in Hooks \cup {Game} /\ delivered \in BOOLEAN
  /\ ran \in 0..1 /\ suppressed \in BOOLEAN
  /\ events \in Seq(Hooks \X (Functions \cup {NoSlot}))
  /\ hookedAt \subseteq Hooks /\ legible \subseteq {"chat", "generic"}
  /\ calls \in 0..MaxCalls

(* The slot whose calls reach hook h: slot_, or the slot it has just been  *)
(* put into.                                                               *)
Home(h) == IF step = 3 /\ target[1] = h THEN target[2] ELSE slotOf[h]

(* What the bootstrap thread installs, and how far it is. *)
Installs ==
  /\ step # 0 =>
       \/ boot = "tick" /\ target = <<TickHook, Tick>> /\ active[TickHook]
       \/ boot = "chat" /\ target = <<ChatHook, Broadcast>> /\ active[ChatHook]
       \/ /\ boot = "generic"
          /\ target[1] \in Entries /\ target[2] \in Functions \ todo
          /\ spec[target[1]] = target[2] /\ ~active[target[1]]
  /\ step \in 1..3 => slotOf[target[1]] = NoSlot
  /\ step = 2 => original[target[1]] = slot[target[2]]
  /\ step \in 1..2 /\ boot = "generic" => \A i \in Entries : slotOf[i] # target[2]
  /\ step = 4 => slotOf[target[1]] = target[2]

(* What has not been installed yet. *)
Ahead ==
  /\ boot \in {"tick", "chat"} => \A i \in Entries : slotOf[i] = NoSlot
  /\ boot = "tick" \/ (boot = "chat" /\ step = 0) => slotOf[ChatHook] = NoSlot
  /\ boot = "tick" /\ step = 0 => slotOf[TickHook] = NoSlot
  /\ \A i \in Entries : /\ slotOf[i] \notin todo
                        /\ slotOf[i] # NoSlot => active[i] \/ (step = 4 /\ target[1] = i)
  /\ boot = "removed" => \A h \in Hooks : slotOf[h] = NoSlot

(* The hooks on the slots. *)
Chain ==
  /\ \A s \in Slots : slot[s] # Game => Home(slot[s]) = s
  /\ \A h \in Hooks : Home(h) # NoSlot =>
       \/ slot[Home(h)] = h
       \/ h = ChatHook /\ slot[Home(h)] \in Entries
  /\ Home(TickHook) # NoSlot =>
       Home(TickHook) = Tick /\ active[TickHook] /\ original[TickHook] = Game
  /\ Home(ChatHook) # NoSlot =>
       Home(ChatHook) = Broadcast /\ active[ChatHook] /\ original[ChatHook] = Game
  /\ \A i \in Entries : Home(i) # NoSlot =>
       /\ Home(i) \in Functions /\ spec[i] = Home(i)
       /\ original[i] = IF Home(i) = Home(ChatHook) THEN ChatHook ELSE Game

(* Hook h has observed the call. *)
Seen(h) == \E i \in 1..Len(events) : events[i][1] = h

(* Hook h is ahead of the call. *)
Pending(h) ==
  /\ at \in Hooks
  /\ (h = at /\ ~delivered) \/ (h = ChatHook /\ at \in Entries /\ original[at] = ChatHook)

(* Where a call is. *)
Inside ==
  calling # NoSlot =>
    /\ boot # "removing"
    /\ at \in Hooks => Home(at) = calling
    /\ suppressed => at = ChatHook
    /\ \A h \in Hooks : Seen(h) /\ at \in Hooks =>
         (h = at /\ delivered) \/ (at = ChatHook /\ h \in Entries)
    /\ \A i \in 1..Len(events) : events[i][1] \in Entries => events[i][2] = calling
    /\ \A i, j \in 1..Len(events) : events[i][1] = events[j][1] => i = j
    /\ \A i \in 1..Len(events) : Legible(events[i][1])
    /\ \A h \in hookedAt : active[h] /\ (Legible(h) => Seen(h) \/ Pending(h))

Outside == calling = NoSlot => events = <<>> /\ ~suppressed /\ ~delivered

HookInv == Types /\ Installs /\ Ahead /\ Chain /\ Inside /\ Outside

-----------------------------------------------------------------------------
LEMMA HookIds ==
  /\ Hooks = Entries \cup {ChatHook, TickHook} /\ ChatHook # TickHook
  /\ ChatHook \notin Entries /\ TickHook \notin Entries
  /\ Game \notin Hooks /\ Null \notin Hooks /\ Null # Game
  /\ Slots = Functions \cup {Tick} /\ NoSlot \notin Slots /\ Tick \notin Functions
  /\ Broadcast \in Functions /\ 0 \notin Hooks
  /\ RemoveBefore(ChatHook) = Entries
BY HookSlotsAssumptions
DEF Hooks, Entries, ChatHook, TickHook, Game, Null, Slots, RemoveBefore

LEMMA InitHolds == Init => HookInv
<1> SUFFICES ASSUME Init PROVE HookInv
  OBVIOUS
<1>1. Types
  <2>1. /\ slot \in [Slots -> Hooks \cup {Game}] /\ original \in [Hooks -> Hooks \cup {Game, Null}]
        /\ slotOf \in [Hooks -> Slots \cup {NoSlot}] /\ active \in [Hooks -> BOOLEAN]
        /\ spec \in [Hooks -> Functions \cup {NoSlot}]
    BY DEF Init
  <2>2. /\ target \in (Hooks \cup {0}) \X (Slots \cup {NoSlot}) /\ todo \subseteq Functions
        /\ step \in 0..4 /\ ran \in 0..1 /\ calls \in 0..MaxCalls
    BY HookSlotsAssumptions DEF Init
  <2>3. boot = "tick" /\ calling = NoSlot /\ at = Game /\ hookedAt = {} /\ legible = {}
    BY DEF Init
  <2>4. delivered \in BOOLEAN /\ suppressed \in BOOLEAN
    BY DEF Init
  <2>5. events \in Seq(Hooks \X (Functions \cup {NoSlot}))
    BY DEF Init
  <2> QED
    BY <2>1, <2>2, <2>3, <2>4, <2>5 DEF Types
<1>2. \A h \in Hooks : slotOf[h] = NoSlot /\ Home(h) = NoSlot
  BY DEF Init, Home
<1>3. Installs /\ Ahead
  BY <1>2, HookIds, HookSlotsAssumptions DEF Init, Installs, Ahead
<1>4. Chain
  <2>1. \A s \in Slots : slot[s] = Game
    BY DEF Init
  <2> QED
    BY <1>2, <2>1, HookIds DEF Chain
<1>5. Inside /\ Outside
  BY DEF Init, Inside, Outside
<1> QED
  BY <1>1, <1>3, <1>4, <1>5 DEF HookInv

(* Steps of the game thread leave the hooks alone. *)
LEMMA HooksStill ==
  ASSUME HookInv, UNCHANGED <<slot, original, slotOf, active, spec, bootVars>>
  PROVE  /\ Installs' /\ Ahead' /\ Chain'
         /\ \A h : Home(h)' = Home(h)
<1>1. \A h : Home(h)' = Home(h)
  BY DEF Home, bootVars
<1>2. Installs' /\ Ahead'
  BY DEF HookInv, Installs, Ahead, bootVars
<1>3. Chain'
  BY <1>1 DEF HookInv, Chain, bootVars
<1> QED
  BY <1>1, <1>2, <1>3

(* Steps of the bootstrap thread leave a call where it is. *)
LEMMA CallStill ==
  ASSUME HookInv, UNCHANGED gameVars,
         calling # NoSlot =>
           /\ boot' # "removing"
           /\ \A h \in Hooks : h = at => Home(h)' = Home(h) /\ original'[h] = original[h]
           /\ \A h \in Hooks : active[h] => active'[h]
  PROVE  Inside' /\ Outside'
<1>1. UNCHANGED <<calling, at, legible, delivered, ran, suppressed, events, hookedAt, calls>>
  BY DEF gameVars
<1>2. Outside'
  BY <1>1 DEF HookInv, Outside
<1>3. Inside'
  <2> SUFFICES ASSUME calling # NoSlot PROVE Inside'
    BY <1>1 DEF Inside
  <2>1. \A h : Seen(h)' = Seen(h)
    BY <1>1 DEF Seen
  <2>2. \A h : Pending(h) => Pending(h)'
    <3>1. at \in Hooks => original'[at] = original[at]
      OBVIOUS
    <3> QED
      BY <1>1, <3>1 DEF Pending
  <2>3. hookedAt \subseteq Hooks
    BY DEF HookInv, Types
  <2>7. \A h : Legible(h)' = Legible(h)
    BY <1>1 DEF Legible
  <2>4. \A h \in hookedAt : active'[h] /\ (Legible(h) => Seen(h)' \/ Pending(h)')
    BY <2>1, <2>2, <2>3 DEF HookInv, Inside
  <2>6. ASSUME at \in Hooks PROVE Home(at)' = calling
    <3>1. \A h \in Hooks : h = at => Home(h)' = calling
      BY DEF HookInv, Inside
    <3> QED
      BY <1>1, <2>6, <3>1 DEF Home
  <2>5. /\ suppressed => at = ChatHook
        /\ \A h \in Hooks : Seen(h)' /\ at \in Hooks =>
             (h = at /\ delivered) \/ (at = ChatHook /\ h \in Entries)
        /\ \A i \in 1..Len(events) : events[i][1] \in Entries => events[i][2] = calling
        /\ \A i, j \in 1..Len(events) : events[i][1] = events[j][1] => i = j
        /\ \A i \in 1..Len(events) : Legible(events[i][1])
    BY <2>1 DEF HookInv, Inside
  <2>8. /\ \A i \in 1..Len(events) : Legible(events[i][1])'
        /\ \A h \in hookedAt : active'[h] /\ (Legible(h)' => Seen(h)' \/ Pending(h)')
    BY <1>1, <2>4, <2>5, <2>7
  <2> QED
    BY <1>1, <2>5, <2>6, <2>8 DEF Inside
<1> QED
  BY <1>2, <1>3

-----------------------------------------------------------------------------
(* The steps that begin the installation of a hook, or leave it out. *)
LEMMA BeginTypes ==
  ASSUME HookInv,
         \/ BeginTickHook \/ BeginChatHook \/ SkipHook \/ AllInstalled
         \/ \E f \in Functions, i \in Entries : BeginGenericHook(f, i)
  PROVE  Types'
<1>1. Types /\ TickHook \in Hooks /\ ChatHook \in Hooks /\ Entries \subseteq Hooks
  BY HookIds DEF HookInv
<1>2. CASE BeginTickHook \/ BeginChatHook
  <2>1. active' \in [Hooks -> BOOLEAN]
    BY <1>1, <1>2, Zenon DEF BeginTickHook, BeginChatHook, Types
  <2>2. target' \in (Hooks \cup {0}) \X (Slots \cup {NoSlot}) /\ step' \in 0..4
    BY <1>1, <1>2, HookIds DEF BeginTickHook, BeginChatHook
  <2> QED
    BY <1>1, <1>2, <2>1, <2>2 DEF BeginTickHook, BeginChatHook, Types, gameVars
<1>3. CASE SkipHook
  BY <1>1, <1>3 DEF SkipHook, Types, gameVars
<1>4. CASE AllInstalled
  BY <1>1, <1>4 DEF AllInstalled, Types, gameVars
<1>5. ASSUME NEW f \in Functions, NEW i \in Entries, BeginGenericHook(f, i) PROVE Types'
  <2>1. target' \in (Hooks \cup {0}) \X (Slots \cup {NoSlot}) /\ step' \in 0..4
    BY <1>1, <1>5, HookIds DEF BeginGenericHook
  <2>2. spec' \in [Hooks -> Functions \cup {NoSlot}] /\ todo' \subseteq Functions
    BY <1>1, <1>5 DEF BeginGenericHook, Types
  <2> QED
    BY <1>1, <1>5, <2>1, <2>2 DEF BeginGenericHook, Types, gameVars
<1> QED
  BY <1>2, <1>3, <1>4, <1>5

(* Nothing is swapped: the chains are the same. *)
LEMMA ChainStill ==
  ASSUME HookInv, step # 3, step' # 3, UNCHANGED <<slot, slotOf>>,
         \A h \in Hooks : slotOf[h] # NoSlot =>
           original'[h] = original[h] /\ spec'[h] = spec[h] /\ (active[h] => active'[h])
  PROVE  Chain' /\ \A h : Home(h) = slotOf[h] /\ Home(h)' = slotOf[h]
<1>1. \A h : Home(h) = slotOf[h] /\ Home(h)' = slotOf[h]
  BY DEF Home
<1>2. /\ \A s \in Slots : slot'[s] # Game => Home(slot[s])' = s
      /\ \A h \in Hooks : Home(h)' # NoSlot =>
           \/ slot'[Home(h)'] = h
           \/ h = ChatHook /\ slot'[Home(h)'] \in Entries
  <2>1. \A s : Home(slot[s])' = slotOf[slot[s]] /\ Home(slot[s]) = slotOf[slot[s]]
    BY DEF Home
  <2> QED
    BY <1>1, <2>1 DEF HookInv, Chain
<1>3. /\ TickHook \in Hooks /\ ChatHook \in Hooks /\ Entries \subseteq Hooks
  BY HookIds
<1>4. /\ Home(TickHook)' # NoSlot =>
          Home(TickHook)' = Tick /\ active'[TickHook] /\ original'[TickHook] = Game
      /\ Home(ChatHook)' # NoSlot =>
          Home(ChatHook)' = Broadcast /\ active'[ChatHook] /\ original'[ChatHook] = Game
  BY <1>1, <1>3 DEF HookInv, Chain
<1>5. \A i \in Entries : Home(i)' # NoSlot =>
       /\ Home(i)' \in Functions /\ spec'[i] = Home(i)'
       /\ original'[i] = IF Home(i)' = Home(ChatHook)' THEN ChatHook ELSE Game
  BY <1>1, <1>3 DEF HookInv, Chain
<1> QED
  BY <1>1, <1>2, <1>4, <1>5 DEF Chain

LEMMA BeginKeeps ==
  ASSUME HookInv,
         \/ BeginTickHook \/ BeginChatHook \/ SkipHook \/ AllInstalled
         \/ \E f \in Functions, i \in Entries : BeginGenericHook(f, i)
  PROVE  HookInv'
<1>1. /\ step = 0 /\ step' \in {0, 1} /\ UNCHANGED <<slot, slotOf, original>> /\ UNCHANGED gameVars
      /\ boot' \in {"tick", "chat", "generic", "failed", "installed"}
  BY DEF BeginTickHook, BeginChatHook, SkipHook, AllInstalled, BeginGenericHook
<1>2. active \in [Hooks -> BOOLEAN] /\ spec \in [Hooks -> Functions \cup {NoSlot}]
  BY DEF HookInv, Types
<1>3. /\ TickHook \in Hooks /\ ChatHook \in Hooks /\ Entries \subseteq Hooks
      /\ TickHook \notin Entries /\ ChatHook \notin Entries
  BY HookIds
<1>4. \A h \in Hooks : active[h] => active'[h]
  BY <1>2, <1>3 DEF BeginTickHook, BeginChatHook, SkipHook, AllInstalled, BeginGenericHook
<1>5. \A h \in Hooks : slotOf[h] # NoSlot => spec'[h] = spec[h]
  <2>1. ASSUME NEW f \in Functions, NEW i \in Entries, BeginGenericHook(f, i)
        PROVE  slotOf[i] = NoSlot /\ spec' = [spec EXCEPT ![i] = f]
    BY <1>1, <2>1 DEF BeginGenericHook, Free, HookInv, Ahead
  <2>2. ASSUME NEW f \in Functions, NEW i \in Entries, BeginGenericHook(f, i)
        PROVE  \A h \in Hooks : slotOf[h] # NoSlot => spec'[h] = spec[h]
    BY <1>2, <1>3, <2>1, <2>2
  <2> QED
    BY <2>2 DEF BeginTickHook, BeginChatHook, SkipHook, AllInstalled
<1>6. Chain' /\ \A h : Home(h) = slotOf[h] /\ Home(h)' = slotOf[h]
  BY <1>1, <1>4, <1>5, ChainStill
<1>7. Inside' /\ Outside'
  <2>1. \A h : Home(h)' = Home(h)
    BY <1>6
  <2> QED
    BY <1>1, <1>4, <2>1, CallStill
<1>8. Types'
  BY BeginTypes
<1>9. Installs' /\ Ahead'
  <2>1. Ahead
    BY DEF HookInv
  <2>2. CASE BeginTickHook
    <3>1. /\ boot = "tick" /\ boot' = "tick" /\ todo' = todo /\ target' = <<TickHook, Tick>>
          /\ step' = 1 /\ active' = [active EXCEPT ![TickHook] = TRUE]
      BY <2>2 DEF BeginTickHook
    <3>2. active'[TickHook] /\ \A i \in Entries : active'[i] = active[i]
      BY <1>2, <1>3, <3>1
    <3>3. slotOf[TickHook] = NoSlot
      BY <1>1, <2>1, <3>1 DEF Ahead
    <3>4. Installs'
      BY <1>1, <3>1, <3>2, <3>3 DEF Installs
    <3>5. Ahead'
      BY <1>1, <2>1, <3>1, <3>2 DEF Ahead
    <3> QED
      BY <3>4, <3>5
  <2>3. CASE BeginChatHook
    <3>1. /\ boot = "chat" /\ boot' = "chat" /\ todo' = todo /\ target' = <<ChatHook, Broadcast>>
          /\ step' = 1 /\ active' = [active EXCEPT ![ChatHook] = TRUE]
      BY <2>3 DEF BeginChatHook
    <3>2. active'[ChatHook] /\ \A i \in Entries : active'[i] = active[i]
      BY <1>2, <1>3, <3>1
    <3>3. slotOf[ChatHook] = NoSlot
      BY <1>1, <2>1, <3>1 DEF Ahead
    <3>4. Installs'
      BY <1>1, <3>1, <3>2, <3>3 DEF Installs
    <3>5. Ahead'
      BY <1>1, <2>1, <3>1, <3>2 DEF Ahead
    <3> QED
      BY <3>4, <3>5
  <2>4. CASE SkipHook \/ AllInstalled
    <3>1. step' = 0 /\ active' = active /\ todo' \subseteq todo
      BY <1>1, <2>4 DEF SkipHook, AllInstalled
    <3>2. Installs'
      BY <3>1 DEF Installs
    <3>3. /\ boot' = "chat" => boot = "tick"
          /\ boot' # "tick" /\ boot' # "removed"
          /\ boot' \in {"tick", "chat"} => boot \in {"tick", "chat"}
      BY <2>4 DEF SkipHook, AllInstalled
    <3>4. Ahead'
      BY <1>1, <2>1, <3>1, <3>3 DEF Ahead
    <3> QED
      BY <3>2, <3>4
  <2>5. ASSUME NEW f \in Functions, NEW i \in Entries, BeginGenericHook(f, i)
        PROVE  Installs' /\ Ahead'
    <3>1. /\ boot = "generic" /\ boot' = "generic" /\ todo' = todo \ {f} /\ f \in todo
          /\ target' = <<i, f>> /\ step' = 1 /\ active' = active /\ ~active[i]
          /\ spec' = [spec EXCEPT ![i] = f]
      BY <2>5 DEF BeginGenericHook, Free
    <3>2. slotOf[i] = NoSlot /\ \A j \in Entries : slotOf[j] # f
      BY <1>1, <2>1, <3>1 DEF Ahead
    <3>3. spec'[i] = f /\ target'[1] = i /\ target'[2] = f
      BY <1>2, <1>3, <3>1
    <3>4. Installs'
      BY <1>1, <3>1, <3>2, <3>3 DEF Installs
    <3>5. Ahead'
      BY <1>1, <2>1, <3>1 DEF Ahead
    <3> QED
      BY <3>4, <3>5
  <2> QED
    BY <2>2, <2>3, <2>4, <2>5
<1> QED
  BY <1>6, <1>7, <1>8, <1>9 DEF HookInv

(* The hook is installed: a generic entry becomes active. *)
LEMMA DoneKeeps ==
  ASSUME HookInv, InstallDone
  PROVE  HookInv'
<1> DEFINE h == target[1]
<1>1. /\ step = 4 /\ step' = 0 /\ UNCHANGED <<slot, slotOf, original, spec, todo, target>>
      /\ UNCHANGED gameVars /\ active' = [active EXCEPT ![h] = TRUE]
  BY DEF InstallDone
<1>2. /\ h \in Hooks
      /\ boot' = IF boot = "tick" THEN "chat" ELSE IF boot = "chat" THEN "generic" ELSE boot
      /\ boot \in {"tick", "chat", "generic"}
  <2>1. boot \in {"tick", "chat", "generic"}
    BY <1>1 DEF HookInv, Installs
  <2>2. h \in Hooks
    BY <1>1, HookIds DEF HookInv, Installs
  <2> QED
    BY <2>1, <2>2 DEF InstallDone
<1>3. active \in [Hooks -> BOOLEAN]
  BY DEF HookInv, Types
<1>4. active'[h] /\ \A g \in Hooks : active[g] => active'[g]
  BY <1>1, <1>2, <1>3
<1>5. Chain' /\ \A g : Home(g) = slotOf[g] /\ Home(g)' = slotOf[g]
  BY <1>1, <1>4, ChainStill
<1>6. Inside' /\ Outside'
  <2>1. \A g : Home(g)' = Home(g)
    BY <1>5
  <2> QED
    BY <1>1, <1>2, <1>4, <2>1, CallStill
<1>7. Types'
  <2>1. active' \in [Hooks -> BOOLEAN]
    BY <1>1, <1>2, <1>3, Zenon
  <2> QED
    BY <1>1, <1>2, <2>1 DEF HookInv, Types, gameVars
<1>8. Installs'
  BY <1>1 DEF Installs
<1>9. Ahead'
  <2>1. Ahead /\ Entries \subseteq Hooks
    BY HookIds DEF HookInv
  <2>2. \A i \in Entries : slotOf[i] # NoSlot => active'[i]
    BY <1>1, <1>4, <2>1 DEF Ahead
  <2>3. \A i \in Entries : slotOf[i] \notin todo
    BY <2>1 DEF Ahead
  <2>4. boot = "tick" => slotOf[ChatHook] = NoSlot /\ \A i \in Entries : slotOf[i] = NoSlot
    BY <2>1 DEF Ahead
  <2> QED
    BY <1>1, <1>2, <2>2, <2>3, <2>4 DEF Ahead
<1> QED
  BY <1>5, <1>6, <1>7, <1>8, <1>9 DEF HookInv

-----------------------------------------------------------------------------
(* The hook being installed and its slot. *)
LEMMA Target ==
  ASSUME HookInv, step \in 1..3
  PROVE  /\ target[1] \in Hooks /\ target[2] \in Slots /\ slotOf[target[1]] = NoSlot
         /\ target = <<target[1], target[2]>>
         /\ boot \in {"tick", "chat", "generic"}
         /\ boot = "tick" => target[1] = TickHook /\ target[2] = Tick /\ active[TickHook]
         /\ boot = "chat" => target[1] = ChatHook /\ target[2] = Broadcast /\ active[ChatHook]
         /\ boot = "generic" => /\ target[1] \in Entries /\ target[2] \in Functions
                                /\ spec[target[1]] = target[2] /\ ~active[target[1]]
BY HookIds DEF HookInv, Types, Installs

(* original_ is read: nobody calls through this hook yet. *)
LEMMA SaveKeeps ==
  ASSUME HookInv, InstallStep, step = 1
  PROVE  HookInv'
<1> DEFINE h == target[1]
           s == target[2]
<1>1. /\ h \in Hooks /\ s \in Slots /\ slotOf[h] = NoSlot
  BY Target
<1>2. /\ original' = [original EXCEPT ![h] = slot[s]] /\ step' = 2
      /\ UNCHANGED <<slot, slotOf, active, spec, boot, target, todo>> /\ UNCHANGED gameVars
  BY <1>1 DEF InstallStep, InstallOrder
<1>3. /\ original \in [Hooks -> Hooks \cup {Game, Null}] /\ slot \in [Slots -> Hooks \cup {Game}]
  BY DEF HookInv, Types
<1>4. original'[h] = slot[s] /\ \A g \in Hooks : g # h => original'[g] = original[g]
  BY <1>1, <1>2, <1>3
<1>5. Chain' /\ \A g : Home(g) = slotOf[g] /\ Home(g)' = slotOf[g]
  BY <1>1, <1>2, <1>4, ChainStill
<1>6. Inside' /\ Outside'
  <2>1. calling # NoSlot /\ at \in Hooks => at # h
    BY <1>1, <1>5 DEF HookInv, Inside
  <2>2. \A g \in Hooks : g = at /\ calling # NoSlot => Home(g)' = Home(g) /\ original'[g] = original[g]
    BY <1>4, <1>5, <2>1
  <2>3. boot' # "removing"
    BY <1>2, Target
  <2> QED
    BY <1>2, <2>2, <2>3, CallStill
<1>7. Types'
  <2>1. original' \in [Hooks -> Hooks \cup {Game, Null}]
    BY <1>1, <1>2, <1>3
  <2> QED
    BY <1>2, <2>1 DEF HookInv, Types, gameVars
<1>8. Installs'
  <2>1. Installs
    BY DEF HookInv
  <2> QED
    BY <1>1, <1>2, <1>4, <2>1 DEF Installs
<1>9. Ahead'
  BY <1>2 DEF HookInv, Ahead
<1> QED
  BY <1>5, <1>6, <1>7, <1>8, <1>9 DEF HookInv

(* The swap puts the hook in front of what original_ says. *)
LEMMA SwapKeeps ==
  ASSUME HookInv, InstallStep, step = 2
  PROVE  HookInv'
<1> DEFINE h == target[1]
           s == target[2]
<1>1. /\ h \in Hooks /\ s \in Slots /\ slotOf[h] = NoSlot
      /\ Installs /\ Ahead /\ Chain
  BY Target DEF HookInv
<1>2. /\ slot' = [slot EXCEPT ![s] = h] /\ step' = 3
      /\ UNCHANGED <<original, slotOf, active, spec, boot, target, todo>> /\ UNCHANGED gameVars
  BY <1>1 DEF InstallStep, InstallOrder
<1>3. slot \in [Slots -> Hooks \cup {Game}] /\ original[h] = slot[s] /\ slot[s] \in Hooks \cup {Game}
  BY <1>1 DEF HookInv, Types, Installs
<1>4. slot'[s] = h /\ \A r \in Slots : r # s => slot'[r] = slot[r]
  BY <1>1, <1>2, <1>3
<1>5. /\ \A g : Home(g) = slotOf[g]
      /\ \A g : g # h => Home(g)' = slotOf[g]
      /\ \A g : g = h => Home(g)' = s
  <2>1. \A g : Home(g) = slotOf[g]
    BY DEF Home
  <2>2. \A g : Home(g)' = IF g = h THEN s ELSE slotOf[g]
    BY <1>2 DEF Home
  <2> QED
    BY <2>1, <2>2
<1>6. slot[s] # Game => slotOf[slot[s]] = s
  <2>1. slot[s] # Game => Home(slot[s]) = s
    BY <1>1 DEF Chain
  <2> QED
    BY <1>5, <2>1
<1>7. \A g \in Hooks : slotOf[g] = s => slot[s] = g \/ (g = ChatHook /\ slot[s] \in Entries)
  <2>1. ASSUME NEW g \in Hooks, slotOf[g] = s PROVE slot[s] = g \/ (g = ChatHook /\ slot[s] \in Entries)
    <3>1. Home(g) = s /\ s # NoSlot
      BY <1>1, <1>5, <2>1, HookIds
    <3> QED
      BY <1>1, <3>1 DEF Chain
  <2> QED
    BY <2>1
<1>8. /\ slotOf[TickHook] \in {NoSlot, Tick} /\ slotOf[ChatHook] \in {NoSlot, Broadcast}
      /\ \A i \in Entries : slotOf[i] \in Functions \cup {NoSlot}
  BY <1>1, <1>5 DEF Chain
<1>9. IF h \in Entries THEN slot[s] = (IF slotOf[ChatHook] = s THEN ChatHook ELSE Game)
                       ELSE slot[s] = Game
  <2>1. CASE boot = "tick"
    <3>1. h = TickHook /\ s = Tick
      BY <2>1, Target
    <3>2. slot[s] # Game => slot[s] \in Entries \cup {ChatHook, TickHook}
      BY <1>3, HookIds
    <3> QED
      BY <1>1, <1>6, <1>8, <3>1, <3>2, HookIds
  <2>2. CASE boot = "chat"
    <3>1. h = ChatHook /\ s = Broadcast /\ \A i \in Entries : slotOf[i] = NoSlot
      BY <1>1, <2>2, Target DEF Ahead
    <3>2. slot[s] # Game => slot[s] \in Entries \cup {ChatHook, TickHook}
      BY <1>3, HookIds
    <3> QED
      BY <1>1, <1>6, <1>8, <3>1, <3>2, HookIds
  <2>3. CASE boot = "generic"
    <3>1. h \in Entries /\ s \in Functions /\ \A i \in Entries : slotOf[i] # s
      BY <1>1, <2>3, Target DEF Installs
    <3>2. slot[s] # Game => slot[s] \in Entries \cup {ChatHook, TickHook}
      BY <1>3, HookIds
    <3>3. slot[s] \in {Game, ChatHook}
      BY <1>6, <1>8, <3>1, <3>2, HookIds
    <3>4. slotOf[ChatHook] = s => slot[s] = ChatHook
      BY <1>7, <3>3, HookIds
    <3>5. slot[s] = ChatHook => slotOf[ChatHook] = s
      BY <1>6, <3>3, HookIds
    <3> QED
      BY <3>1, <3>3, <3>4, <3>5
  <2> QED
    BY <2>1, <2>2, <2>3, Target
<1>10. Types'
  <2>1. slot' \in [Slots -> Hooks \cup {Game}]
    BY <1>1, <1>2, <1>3
  <2> QED
    BY <1>2, <2>1 DEF HookInv, Types, gameVars
<1>11. Installs'
  BY <1>1, <1>2 DEF Installs
<1>12. Ahead'
  BY <1>1, <1>2 DEF Ahead
<1>13. Inside' /\ Outside'
  <2>1. calling # NoSlot /\ at \in Hooks => at # h
    BY <1>1, <1>5 DEF HookInv, Inside
  <2>2. \A g \in Hooks : g = at /\ calling # NoSlot => Home(g)' = Home(g) /\ original'[g] = original[g]
    BY <1>2, <1>5, <2>1
  <2>3. boot' # "removing"
    BY <1>2, Target
  <2> QED
    BY <1>2, <2>2, <2>3, CallStill
<1>14. Chain'
  <2>1. ASSUME NEW r \in Slots, slot'[r] # Game PROVE Home(slot[r])' = r
    <3>1. CASE r = s
      BY <1>2, <1>4, <3>1 DEF Home
    <3>2. CASE r # s
      <4>1. slot'[r] = slot[r] /\ Home(slot[r]) = r
        BY <1>1, <1>4, <2>1, <3>2 DEF Chain
      <4>2. slotOf[slot[r]] = r /\ slot[r] # h
        BY <1>1, <1>5, <4>1, HookIds
      <4> QED
        BY <1>2, <4>1, <4>2 DEF Home
    <3> QED
      BY <3>1, <3>2
  <2>2. ASSUME NEW g \in Hooks, Home(g)' # NoSlot
        PROVE  slot'[Home(g)'] = g \/ (g = ChatHook /\ slot'[Home(g)'] \in Entries)
    <3>1. CASE g = h
      BY <1>4, <1>5, <3>1
    <3>2. CASE g # h
      <4>1. Home(g)' = slotOf[g] /\ slotOf[g] # NoSlot /\ Home(g) = slotOf[g] /\ slotOf[g] \in Slots
        BY <1>5, <2>2, <3>2 DEF HookInv, Types
      <4>2. CASE slotOf[g] = s
        <5>1. slot[s] = g \/ (g = ChatHook /\ slot[s] \in Entries)
          BY <1>7, <4>2
        <5>2. g = ChatHook /\ h \in Entries
          BY <1>9, <5>1, HookIds
        <5> QED
          BY <1>4, <4>1, <4>2, <5>2
      <4>3. CASE slotOf[g] # s
        <5>1. slot'[slotOf[g]] = slot[slotOf[g]]
          BY <1>4, <4>1, <4>3
        <5> QED
          BY <1>1, <4>1, <5>1 DEF Chain
      <4> QED
        BY <4>2, <4>3
    <3> QED
      BY <3>1, <3>2
  <2>3. Home(TickHook)' # NoSlot =>
          Home(TickHook)' = Tick /\ active'[TickHook] /\ original'[TickHook] = Game
    <3>1. CASE h = TickHook
      <4>1. boot = "tick" /\ s = Tick /\ active[TickHook]
        BY <3>1, Target, HookIds
      <4> QED
        BY <1>2, <1>3, <1>5, <1>9, <3>1, <4>1, HookIds
    <3>2. CASE h # TickHook
      <4>1. Home(TickHook)' = slotOf[TickHook] /\ Home(TickHook) = slotOf[TickHook]
        BY <1>5, <3>2
      <4> QED
        BY <1>1, <1>2, <4>1 DEF Chain
    <3> QED
      BY <3>1, <3>2
  <2>4. Home(ChatHook)' # NoSlot =>
          Home(ChatHook)' = Broadcast /\ active'[ChatHook] /\ original'[ChatHook] = Game
    <3>1. CASE h = ChatHook
      <4>1. boot = "chat" /\ s = Broadcast /\ active[ChatHook]
        BY <3>1, Target, HookIds
      <4> QED
        BY <1>2, <1>3, <1>5, <1>9, <3>1, <4>1, HookIds
    <3>2. CASE h # ChatHook
      <4>1. Home(ChatHook)' = slotOf[ChatHook] /\ Home(ChatHook) = slotOf[ChatHook]
        BY <1>5, <3>2
      <4> QED
        BY <1>1, <1>2, <4>1 DEF Chain
    <3> QED
      BY <3>1, <3>2
  <2>5. ASSUME NEW i \in Entries, Home(i)' # NoSlot
        PROVE  /\ Home(i)' \in Functions /\ spec'[i] = Home(i)'
               /\ original'[i] = IF Home(i)' = Home(ChatHook)' THEN ChatHook ELSE Game
    <3>1. CASE i = h
      <4>1. boot = "generic" /\ s \in Functions /\ spec[h] = s /\ h # ChatHook
        BY <2>5, <3>1, Target, HookIds
      <4>2. Home(ChatHook)' = slotOf[ChatHook] /\ Home(i)' = s
        BY <1>5, <3>1, <4>1
      <4>3. original'[i] = IF slotOf[ChatHook] = s THEN ChatHook ELSE Game
        BY <1>2, <1>3, <1>9, <2>5, <3>1
      <4> QED
        BY <1>2, <3>1, <4>1, <4>2, <4>3
    <3>2. CASE i # h
      <4>1. Home(i)' = slotOf[i] /\ Home(i) = slotOf[i]
        BY <1>5, <3>2
      <4>2. h # ChatHook
        <5>1. boot # "chat"
          BY <1>1, <2>5, <4>1 DEF Ahead
        <5> QED
          BY <5>1, Target, HookIds
      <4>3. Home(ChatHook)' = Home(ChatHook)
        BY <1>5, <4>2
      <4> QED
        BY <1>1, <1>2, <2>5, <4>1, <4>3 DEF Chain
    <3> QED
      BY <3>1, <3>2
  <2> QED
    BY <2>1, <2>2, <2>3, <2>4, <2>5 DEF Chain
<1> QED
  BY <1>10, <1>11, <1>12, <1>13, <1>14 DEF HookInv

(* slot_ is set: the hook stays where it is. *)
LEMMA PublishKeeps ==
  ASSUME HookInv, InstallStep, step = 3
  PROVE  HookInv'
<1> DEFINE h == target[1]
           s == target[2]
<1>1. /\ h \in Hooks /\ s \in Slots /\ slotOf[h] = NoSlot
      /\ Installs /\ Ahead /\ Chain
  BY Target DEF HookInv
<1>2. /\ slotOf' = [slotOf EXCEPT ![h] = s] /\ step' = 4
      /\ UNCHANGED <<slot, original, active, spec, boot, target, todo>> /\ UNCHANGED gameVars
  BY <1>1 DEF InstallStep, InstallOrder
<1>3. slotOf \in [Hooks -> Slots \cup {NoSlot}]
  BY DEF HookInv, Types
<1>4. slotOf'[h] = s /\ \A g \in Hooks : g # h => slotOf'[g] = slotOf[g]
  BY <1>1, <1>2, <1>3
<1>5. \A g \in Hooks : Home(g)' = Home(g)
  <2>1. \A g \in Hooks : Home(g)' = slotOf'[g]
    BY <1>2 DEF Home
  <2>2. \A g \in Hooks : Home(g) = IF g = h THEN s ELSE slotOf[g]
    BY DEF Home
  <2> QED
    BY <1>4, <2>1, <2>2
<1>6. Types'
  <2>1. slotOf' \in [Hooks -> Slots \cup {NoSlot}]
    BY <1>1, <1>2, <1>3
  <2> QED
    BY <1>2, <2>1 DEF HookInv, Types, gameVars
<1>7. Installs'
  BY <1>1, <1>2, <1>4 DEF Installs
<1>8. Ahead'
  <2>1. Entries \subseteq Hooks /\ ChatHook \in Hooks /\ TickHook \in Hooks
    BY HookIds
  <2>2. CASE boot \in {"tick", "chat"}
    <3>1. h \notin Entries /\ (boot = "tick" => h # ChatHook)
      BY <2>2, Target, HookIds
    <3> QED
      BY <1>1, <1>2, <1>4, <2>1, <2>2, <3>1 DEF Ahead
  <2>3. CASE boot = "generic"
    <3>1. h \in Entries /\ s \notin todo
      BY <1>1, <2>3 DEF Installs
    <3> QED
      BY <1>1, <1>2, <1>4, <2>1, <2>3, <3>1 DEF Ahead
  <2> QED
    BY <2>2, <2>3, Target
<1>9. Inside' /\ Outside'
  <2>1. boot' # "removing"
    BY <1>2, Target
  <2> QED
    BY <1>2, <1>5, <2>1, CallStill
<1>10. Chain'
  <2>1. Entries \subseteq Hooks /\ ChatHook \in Hooks /\ TickHook \in Hooks
    BY HookIds
  <2>2. ASSUME NEW r \in Slots, slot'[r] # Game PROVE Home(slot[r])' = r
    <3>1. slot'[r] = slot[r] /\ Home(slot[r]) = r /\ slot[r] \in Hooks
      BY <1>1, <1>2, <2>2 DEF Chain, HookInv, Types
    <3>2. \A g \in Hooks : g = slot[r] => Home(g)' = r
      BY <1>5, <3>1
    <3> QED
      BY <1>2, <3>1, <3>2 DEF Home
  <2>3. \A g \in Hooks : Home(g)' # NoSlot =>
          \/ slot'[Home(g)'] = g
          \/ g = ChatHook /\ slot'[Home(g)'] \in Entries
    BY <1>1, <1>2, <1>5 DEF Chain
  <2>4. /\ Home(TickHook)' = Home(TickHook) /\ Home(ChatHook)' = Home(ChatHook)
        /\ \A i \in Entries : Home(i)' = Home(i)
    BY <1>5, <2>1
  <2> QED
    BY <1>1, <1>2, <2>2, <2>3, <2>4 DEF Chain
<1> QED
  BY <1>6, <1>7, <1>8, <1>9, <1>10 DEF HookInv

-----------------------------------------------------------------------------
(* Removal: no call is in progress, and the hook is the front of its       *)
(* chain.                                                                  *)
LEMMA RemoveKeeps ==
  ASSUME HookInv, NEW h \in Hooks, Remove(h)
  PROVE  HookInv'
<1> DEFINE s == slotOf[h]
<1>1. /\ boot = "removing" /\ s # NoSlot /\ Installs /\ Ahead /\ Chain
      /\ slot' = [slot EXCEPT ![s] = original[h]]
      /\ original' = [original EXCEPT ![h] = Null]
      /\ slotOf' = [slotOf EXCEPT ![h] = NoSlot]
      /\ active' = [active EXCEPT ![h] = FALSE]
      /\ UNCHANGED <<spec, boot, step, target, todo>> /\ UNCHANGED gameVars
      /\ h = ChatHook => \A i \in Entries : slotOf[i] = NoSlot
  BY HookIds DEF HookInv, Remove, bootVars
<1>2. /\ slot \in [Slots -> Hooks \cup {Game}] /\ original \in [Hooks -> Hooks \cup {Game, Null}]
      /\ slotOf \in [Hooks -> Slots \cup {NoSlot}] /\ active \in [Hooks -> BOOLEAN]
      /\ s \in Slots
  BY <1>1 DEF HookInv, Types
<1>3. step = 0 /\ calling = NoSlot
  BY <1>1 DEF HookInv, Installs, Inside
<1>4. /\ \A g : Home(g) = slotOf[g]
      /\ \A g : Home(g)' = slotOf'[g]
  BY <1>1, <1>3 DEF Home
<1>5. /\ slot'[s] = original[h] /\ \A r \in Slots : r # s => slot'[r] = slot[r]
      /\ slotOf'[h] = NoSlot /\ \A g \in Hooks : g # h =>
            slotOf'[g] = slotOf[g] /\ original'[g] = original[g] /\ active'[g] = active[g]
  BY <1>1, <1>2
<1>6. /\ Entries \subseteq Hooks /\ ChatHook \in Hooks /\ TickHook \in Hooks
      /\ ChatHook # TickHook /\ Hooks = Entries \cup {ChatHook, TickHook}
      /\ Game \notin Hooks /\ ChatHook \notin Entries /\ TickHook \notin Entries
      /\ Tick \notin Functions /\ Broadcast \in Functions
  BY HookIds
<1>7. /\ slotOf[TickHook] # NoSlot => slotOf[TickHook] = Tick /\ active[TickHook] /\ original[TickHook] = Game
      /\ slotOf[ChatHook] # NoSlot =>
           slotOf[ChatHook] = Broadcast /\ active[ChatHook] /\ original[ChatHook] = Game
      /\ \A i \in Entries : slotOf[i] # NoSlot =>
           /\ slotOf[i] \in Functions /\ spec[i] = slotOf[i]
           /\ original[i] = IF slotOf[i] = slotOf[ChatHook] THEN ChatHook ELSE Game
      /\ \A g \in Hooks : slotOf[g] # NoSlot =>
           slot[slotOf[g]] = g \/ (g = ChatHook /\ slot[slotOf[g]] \in Entries)
  BY <1>1, <1>4 DEF Chain
<1>8. \A r \in Slots : slot[r] # Game => slotOf[slot[r]] = r
  <2>1. \A r \in Slots : slot[r] # Game => Home(slot[r]) = r
    BY <1>1 DEF Chain
  <2> QED
    BY <1>4, <2>1
<1>9. slot[s] = h
  <2>1. slot[s] = h \/ (h = ChatHook /\ slot[s] \in Entries)
    BY <1>1, <1>7
  <2>2. slot[s] \in Entries => slotOf[slot[s]] = s
    BY <1>2, <1>6, <1>8
  <2> QED
    BY <1>1, <2>1, <2>2
<1>10. /\ original[h] \in {Game, ChatHook}
       /\ original[h] = ChatHook => h # ChatHook /\ slotOf[ChatHook] = s
       /\ h \in Entries /\ original[h] = Game => slotOf[ChatHook] # s
  BY <1>1, <1>6, <1>7
<1> HIDE DEF s
<1>11. Types'
  <2>1. active' \in [Hooks -> BOOLEAN]
    BY <1>1, <1>2, Zenon
  <2>2. slot' \in [Slots -> Hooks \cup {Game}] /\ original' \in [Hooks -> Hooks \cup {Game, Null}]
        /\ slotOf' \in [Hooks -> Slots \cup {NoSlot}]
    BY <1>1, <1>2, <1>6, <1>10
  <2> QED
    BY <1>1, <2>1, <2>2 DEF HookInv, Types, gameVars
<1>12. Installs'
  BY <1>1, <1>3 DEF Installs
<1>13. Ahead'
  <2>1. NoSlot \notin todo
    BY HookIds DEF HookInv, Types
  <2> QED
    BY <1>1, <1>3, <1>5, <1>6, <2>1 DEF Ahead
<1>14. Inside' /\ Outside'
  BY <1>1, <1>3, CallStill
<1>15. Chain'
  <2>1. ASSUME NEW r \in Slots, slot'[r] # Game PROVE Home(slot[r])' = r
    <3>1. slotOf'[slot'[r]] = r
      <4>1. CASE r = s
        BY <1>5, <1>6, <1>10, <2>1, <4>1
      <4>2. CASE r # s
        <5>1. slot'[r] = slot[r] /\ slotOf[slot[r]] = r /\ slot[r] \in Hooks
          BY <1>2, <1>5, <1>8, <2>1, <4>2
        <5>2. slot[r] # h
          BY <4>2, <5>1 DEF s
        <5> QED
          BY <1>5, <5>1, <5>2
      <4> QED
        BY <4>1, <4>2
    <3> QED
      BY <1>1, <1>3, <3>1 DEF Home
  <2>2. ASSUME NEW g \in Hooks, Home(g)' # NoSlot
        PROVE  slot'[Home(g)'] = g \/ (g = ChatHook /\ slot'[Home(g)'] \in Entries)
    <3>1. g # h /\ Home(g)' = slotOf[g] /\ slotOf[g] # NoSlot /\ slotOf[g] \in Slots
      BY <1>2, <1>4, <1>5, <2>2
    <3>2. slot[slotOf[g]] = g \/ (g = ChatHook /\ slot[slotOf[g]] \in Entries)
      BY <1>7, <3>1
    <3>3. CASE slotOf[g] # s
      BY <1>5, <3>1, <3>2, <3>3
    <3>4. CASE slotOf[g] = s
      <4>1. g = ChatHook /\ h \in Entries
        BY <1>9, <3>1, <3>2, <3>4
      <4>2. original[h] = ChatHook
        BY <1>10, <3>4, <4>1
      <4> QED
        BY <1>5, <3>1, <3>4, <4>1, <4>2
    <3> QED
      BY <3>3, <3>4
  <2>3. /\ Home(TickHook)' # NoSlot =>
            Home(TickHook)' = Tick /\ active'[TickHook] /\ original'[TickHook] = Game
        /\ Home(ChatHook)' # NoSlot =>
            Home(ChatHook)' = Broadcast /\ active'[ChatHook] /\ original'[ChatHook] = Game
    BY <1>4, <1>5, <1>6, <1>7
  <2>4. ASSUME NEW i \in Entries, Home(i)' # NoSlot
        PROVE  /\ Home(i)' \in Functions /\ spec'[i] = Home(i)'
               /\ original'[i] = IF Home(i)' = Home(ChatHook)' THEN ChatHook ELSE Game
    <3>1. i # h /\ i \in Hooks /\ Home(i)' = slotOf[i] /\ slotOf[i] # NoSlot
      BY <1>4, <1>5, <1>6, <2>4
    <3>2. Home(ChatHook)' = slotOf[ChatHook]
      <4>1. h # ChatHook
        BY <1>1, <3>1
      <4> QED
        BY <1>4, <1>5, <1>6, <4>1
    <3>3. /\ slotOf[i] \in Functions /\ spec[i] = slotOf[i]
          /\ original[i] = IF slotOf[i] = slotOf[ChatHook] THEN ChatHook ELSE Game
      BY <1>7, <3>1
    <3>4. spec'[i] = spec[i] /\ original'[i] = original[i]
      BY <1>1, <1>5, <3>1
    <3> QED
      BY <3>1, <3>2, <3>3, <3>4
  <2> QED
    BY <2>1, <2>2, <2>3, <2>4 DEF Chain
<1> QED
  BY <1>11, <1>12, <1>13, <1>14, <1>15 DEF HookInv

LEMMA RemovalBounds ==
  ASSUME HookInv, BeginRemoval \/ Removed
  PROVE  HookInv'
<1>1. /\ UNCHANGED <<slot, original, slotOf, active, spec, step, target, todo>> /\ UNCHANGED gameVars
      /\ boot \in {"installed", "removing"} /\ boot' \in {"removing", "removed"}
      /\ boot' = "removed" => \A h \in Hooks : slotOf[h] = NoSlot
  BY DEF BeginRemoval, Removed
<1>2. step = 0 /\ calling = NoSlot
  BY <1>1 DEF HookInv, Installs, Inside, BeginRemoval, Removed
<1>3. Chain'
  BY <1>1, <1>2, ChainStill
<1>4. Inside' /\ Outside'
  BY <1>1, <1>2, CallStill
<1>5. Types'
  BY <1>1 DEF HookInv, Types, gameVars
<1>6. Installs' /\ Ahead'
  BY <1>1, <1>2 DEF HookInv, Installs, Ahead
<1> QED
  BY <1>3, <1>4, <1>5, <1>6 DEF HookInv

-----------------------------------------------------------------------------
(* What a hook that calls reach has behind it. *)
LEMMA Behind ==
  ASSUME HookInv, NEW h \in Hooks, Home(h) # NoSlot
  PROVE  /\ Chains(h)
         /\ original[h] \in {Game, ChatHook}
         /\ original[h] = ChatHook => h \in Entries /\ Home(ChatHook) = Home(h)
         /\ h \in Entries => spec[h] = Home(h)
         /\ h = ChatHook => Home(h) = Broadcast
<1>1. Chain
  BY DEF HookInv
<1>2. /\ h \in Entries \/ h = ChatHook \/ h = TickHook
      /\ ChatHook \notin Entries /\ TickHook \notin Entries /\ ChatHook # TickHook
      /\ Null # Game /\ Null # ChatHook /\ Game # ChatHook
  BY HookIds
<1>3. CASE h \in Entries
  BY <1>1, <1>2, <1>3 DEF Chain, Chains
<1>4. CASE h = ChatHook
  BY <1>1, <1>2, <1>4 DEF Chain, Chains
<1>5. CASE h = TickHook
  BY <1>1, <1>2, <1>5 DEF Chain, Chains
<1> QED
  BY <1>2, <1>3, <1>4, <1>5

LEMMA CallKeeps ==
  ASSUME HookInv, NEW s \in Slots, Call(s)
  PROVE  HookInv'
<1>1. /\ UNCHANGED <<slot, original, slotOf, active, spec, bootVars>>
      /\ calling = NoSlot /\ boot # "removing" /\ calls < MaxCalls /\ calls' = calls + 1
      /\ legible' \subseteq {"chat", "generic"}
      /\ calling' = s /\ at' = slot[s] /\ hookedAt' = {h \in Hooks : slotOf[h] = s /\ active[h]}
      /\ UNCHANGED <<delivered, ran, suppressed, events>>
  BY DEF Call, Readers
<1>2. UNCHANGED <<boot, step, target, todo>>
  BY <1>1 DEF bootVars
<1>3. Installs' /\ Ahead' /\ Chain' /\ \A h : Home(h)' = Home(h)
  BY <1>1, HooksStill
<1>4. s # NoSlot /\ Game \notin Hooks /\ ChatHook \in Hooks
  BY HookIds
<1>5. events = <<>> /\ ~suppressed /\ ~delivered
  BY <1>1 DEF HookInv, Outside
<1>6. slot[s] \in Hooks \cup {Game} /\ (slot[s] \in Hooks => Home(slot[s]) = s)
  <2>1. slot[s] \in Hooks \cup {Game}
    BY DEF HookInv, Types
  <2> QED
    BY <1>4, <2>1 DEF HookInv, Chain
<1>7. Types'
  <2>1. calls' \in 0..MaxCalls
    BY <1>1, HookSlotsAssumptions DEF HookInv, Types
  <2> QED
    BY <1>1, <1>2, <1>6, <2>1 DEF HookInv, Types
<1>8. \A h : ~Seen(h)'
  <2>1. Len(events') = 0
    BY <1>1, <1>5
  <2> QED
    BY <2>1 DEF Seen
<1>9. ASSUME NEW h \in hookedAt' PROVE active'[h] /\ Pending(h)'
  <2>1. h \in Hooks /\ slotOf[h] = s /\ active[h]
    BY <1>1
  <2>2. Home(h) = s
    <3>1. ~(step = 3 /\ target[1] = h)
      BY <1>4, <2>1 DEF HookInv, Installs
    <3> QED
      BY <2>1, <3>1 DEF Home
  <2>3. slot[s] = h \/ (h = ChatHook /\ slot[s] \in Entries)
    BY <1>4, <2>1, <2>2 DEF HookInv, Chain
  <2>4. CASE slot[s] = h
    BY <1>1, <1>5, <2>1, <2>4 DEF Pending
  <2>5. CASE h = ChatHook /\ slot[s] \in Entries
    <3>1. slot[s] \in Hooks /\ Home(slot[s]) = s /\ Home(ChatHook) = s
      BY <1>6, <2>2, <2>5, HookIds
    <3>2. original[slot[s]] = ChatHook
      BY <1>4, <2>5, <3>1 DEF HookInv, Chain
    <3> QED
      BY <1>1, <2>1, <2>5, <3>1, <3>2 DEF Pending
  <2> QED
    BY <2>3, <2>4, <2>5
<1>10. at' \in Hooks => Home(at)' = s
  <2>1. Home(at)' = Home(slot[s])
    BY <1>1, <1>2 DEF Home
  <2> QED
    BY <1>1, <1>6, <2>1
<1>11. Inside'
  <2>1. Len(events') = 0
    BY <1>1, <1>5
  <2>2. 1..Len(events') = {}
    BY <2>1
  <2> QED
    BY <1>1, <1>2, <1>5, <1>8, <1>9, <1>10, <2>2 DEF Inside
<1>12. Outside'
  BY <1>1, <1>4 DEF Outside
<1> QED
  BY <1>3, <1>7, <1>11, <1>12 DEF HookInv

LEMMA DeliverKeeps ==
  ASSUME HookInv, NEW swallow \in BOOLEAN, TrampolineDeliver(swallow)
  PROVE  HookInv'
<1>1. /\ UNCHANGED <<slot, original, slotOf, active, spec, bootVars>>
      /\ calling # NoSlot /\ at \in Hooks /\ ~delivered
      /\ events' = (IF Observes(at) THEN Append(events, <<at, spec[at]>>) ELSE events)
      /\ UNCHANGED <<calling, at, legible, ran, hookedAt, calls>>
      /\ suppressed' = swallow /\ delivered' = TRUE
      /\ swallow => at = ChatHook
  BY DEF TrampolineDeliver
<1>2. UNCHANGED <<boot, step, target, todo>>
  BY <1>1 DEF bootVars
<1>3. Installs' /\ Ahead' /\ Chain' /\ \A h : Home(h)' = Home(h)
  BY <1>1, HooksStill
<1>4. /\ events \in Seq(Hooks \X (Functions \cup {NoSlot})) /\ spec[at] \in Functions \cup {NoSlot}
      /\ hookedAt \subseteq Hooks
  BY <1>1 DEF HookInv, Types
<1>5. Home(at) = calling /\ boot # "removing"
  BY <1>1 DEF HookInv, Inside
<1>6. at \in Entries => spec[at] = calling
  BY <1>1, <1>5, Behind
<1> DEFINE e == <<at, spec[at]>>
<1>7. e \in Hooks \X (Functions \cup {NoSlot}) /\ e[1] = at /\ e[2] = spec[at]
  BY <1>1, <1>4
<1>8. events' = IF Observes(at) THEN Append(events, e) ELSE events
  BY <1>1
<1> HIDE DEF e
<1>9. events' \in Seq(Hooks \X (Functions \cup {NoSlot}))
  BY <1>4, <1>7, <1>8
<1>10. Types'
  BY <1>1, <1>2, <1>9 DEF HookInv, Types
<1>11. Outside'
  BY <1>1 DEF Outside
<1>12. ~Seen(at)
  BY <1>1, HookIds DEF HookInv, Inside
<1>13. /\ Len(events) \in Nat
       /\ Observes(at) => /\ Len(events') = Len(events) + 1
                          /\ events'[Len(events) + 1] = e
                          /\ \A i \in 1..Len(events) : events'[i] = events[i]
       /\ ~Observes(at) => events' = events
  BY <1>4, <1>7, <1>8
<1>14. \A h : /\ Seen(h) => Seen(h)'
              /\ Seen(h)' => Seen(h) \/ h = at
              /\ Observes(at) /\ h = at => Seen(h)'
  <2>1. CASE Observes(at)
    <3>1. 1..Len(events') = 1..Len(events) \cup {Len(events) + 1}
      BY <1>13, <2>1
    <3> QED
      BY <1>7, <1>13, <2>1, <3>1 DEF Seen
  <2>2. CASE ~Observes(at)
    BY <1>13, <2>2 DEF Seen
  <2> QED
    BY <2>1, <2>2
<1>15. ASSUME NEW i \in 1..Len(events'), events'[i][1] \in Entries PROVE events'[i][2] = calling
  <2>1. CASE Observes(at) /\ i = Len(events) + 1
    BY <1>6, <1>7, <1>13, <1>15, <2>1
  <2>2. CASE ~(Observes(at) /\ i = Len(events) + 1)
    <3>1. i \in 1..Len(events) /\ events'[i] = events[i]
      BY <1>13, <2>2
    <3> QED
      BY <1>1, <1>15, <3>1 DEF HookInv, Inside
  <2> QED
    BY <2>1, <2>2
<1>16. ASSUME NEW i \in 1..Len(events'), NEW j \in 1..Len(events'), events'[i][1] = events'[j][1]
       PROVE  i = j
  <2>1. \A k \in 1..Len(events) : events[k][1] # at
    BY <1>12 DEF Seen
  <2>2. \A k \in 1..Len(events') :
          \/ k \in 1..Len(events) /\ events'[k] = events[k]
          \/ Observes(at) /\ k = Len(events) + 1 /\ events'[k][1] = at
    BY <1>7, <1>13
  <2>3. \A k, l \in 1..Len(events) : events[k][1] = events[l][1] => k = l
    BY <1>1 DEF HookInv, Inside
  <2>4. CASE i \in 1..Len(events) /\ j \in 1..Len(events)
    BY <1>16, <2>2, <2>3, <2>4, <1>13
  <2>5. CASE ~(i \in 1..Len(events) /\ j \in 1..Len(events))
    BY <1>16, <2>1, <2>2, <2>5
  <2> QED
    BY <2>4, <2>5
<1>17. ASSUME NEW h \in Hooks, Seen(h)'
       PROVE  h = at \/ (at = ChatHook /\ h \in Entries)
  BY <1>1, <1>14, <1>17 DEF HookInv, Inside
<1>21. \A h : Legible(h)' = Legible(h)
  BY <1>1 DEF Legible
<1>22. ASSUME NEW i \in 1..Len(events') PROVE Legible(events'[i][1])
  <2>1. CASE Observes(at) /\ i = Len(events) + 1
    BY <1>7, <1>13, <2>1 DEF Observes
  <2>2. CASE ~(Observes(at) /\ i = Len(events) + 1)
    <3>1. i \in 1..Len(events) /\ events'[i] = events[i]
      BY <1>13, <2>2
    <3> QED
      BY <1>1, <3>1 DEF HookInv, Inside
  <2> QED
    BY <2>1, <2>2
<1>24. ASSUME NEW h \in hookedAt PROVE active[h]
  BY <1>1 DEF HookInv, Inside
<1>18. ASSUME NEW h \in hookedAt, Legible(h) PROVE active[h] /\ (Seen(h)' \/ Pending(h)')
  <2>1. active[h] /\ Legible(h) /\ (Seen(h) \/ Pending(h))
    BY <1>1, <1>18 DEF HookInv, Inside
  <2>2. CASE Seen(h)
    BY <1>14, <2>1, <2>2
  <2>3. CASE Pending(h)
    <3>1. h = at \/ (h = ChatHook /\ at \in Entries /\ original[at] = ChatHook)
      BY <2>3 DEF Pending
    <3>2. CASE h = at
      BY <1>14, <2>1, <3>2 DEF Observes
    <3>3. CASE h = ChatHook /\ at \in Entries /\ original[at] = ChatHook
      BY <1>1, <2>1, <3>3 DEF Pending
    <3> QED
      BY <3>1, <3>2, <3>3
  <2> QED
    BY <2>1, <2>2, <2>3
<1>19. Home(at)' = calling
  BY <1>1, <1>2, <1>5 DEF Home
<1>23. /\ \A i \in 1..Len(events') : Legible(events[i][1])'
       /\ \A h \in hookedAt : active[h] /\ (Legible(h)' => Seen(h)' \/ Pending(h)')
  BY <1>18, <1>21, <1>22, <1>24
<1>20. Inside'
  BY <1>1, <1>2, <1>5, <1>15, <1>16, <1>17, <1>19, <1>23 DEF Inside
<1> QED
  BY <1>3, <1>10, <1>11, <1>20 DEF HookInv

LEMMA TrampolineChainKeeps ==
  ASSUME HookInv, TrampolineChain
  PROVE  HookInv'
<1>1. /\ UNCHANGED <<slot, original, slotOf, active, spec, bootVars>>
      /\ calling # NoSlot /\ at \in Hooks /\ delivered /\ ~suppressed
      /\ at' = original[at] /\ delivered' = FALSE
      /\ UNCHANGED <<calling, legible, ran, suppressed, events, hookedAt, calls>>
  BY DEF TrampolineChain
<1>2. UNCHANGED <<boot, step, target, todo>>
  BY <1>1 DEF bootVars
<1>3. Installs' /\ Ahead' /\ Chain' /\ \A h : Home(h)' = Home(h)
  BY <1>1, HooksStill
<1>4. Home(at) = calling /\ boot # "removing"
  BY <1>1 DEF HookInv, Inside
<1>5. /\ original[at] \in {Game, ChatHook}
      /\ original[at] = ChatHook => at \in Entries /\ Home(ChatHook) = calling
  BY <1>1, <1>4, Behind
<1>6. Game \notin Hooks /\ ChatHook \in Hooks /\ ChatHook \notin Entries
  BY HookIds
<1>7. Types'
  BY <1>1, <1>2, <1>5, <1>6 DEF HookInv, Types
<1>8. Outside'
  BY <1>1 DEF Outside
<1>9. \A h : Seen(h)' = Seen(h)
  BY <1>1 DEF Seen
<1>10. at' \in Hooks => Home(at)' = calling
  <2>1. Home(at)' = Home(original[at])
    BY <1>1, <1>2 DEF Home
  <2> QED
    BY <1>1, <1>5, <1>6, <2>1
<1>11. ASSUME NEW h \in Hooks, Seen(h), at' \in Hooks PROVE at' = ChatHook /\ h \in Entries
  <2>1. at' = ChatHook /\ at \in Entries
    BY <1>1, <1>5, <1>6, <1>11
  <2> QED
    BY <1>1, <1>6, <1>11, <2>1 DEF HookInv, Inside
<1>15. \A h : Legible(h)' = Legible(h)
  BY <1>1 DEF Legible
<1>12. ASSUME NEW h \in hookedAt PROVE active[h] /\ (Legible(h) => Seen(h) \/ Pending(h)')
  <2>1. active[h] /\ (Legible(h) => Seen(h) \/ Pending(h))
    BY <1>1 DEF HookInv, Inside
  <2>2. Pending(h) => h = ChatHook /\ original[at] = ChatHook
    BY <1>1 DEF Pending
  <2>3. h = ChatHook /\ original[at] = ChatHook => Pending(h)'
    BY <1>1, <1>6 DEF Pending
  <2> QED
    BY <2>1, <2>2, <2>3
<1>13. /\ \A i \in 1..Len(events) : events[i][1] \in Entries => events[i][2] = calling
       /\ \A i, j \in 1..Len(events) : events[i][1] = events[j][1] => i = j
       /\ \A i \in 1..Len(events) : Legible(events[i][1])
  BY <1>1 DEF HookInv, Inside
<1>16. /\ \A i \in 1..Len(events) : Legible(events[i][1])'
       /\ \A h \in hookedAt : active[h] /\ (Legible(h)' => Seen(h) \/ Pending(h)')
  BY <1>1, <1>12, <1>13, <1>15
<1>14. Inside'
  BY <1>1, <1>2, <1>4, <1>9, <1>10, <1>11, <1>13, <1>16 DEF Inside
<1> QED
  BY <1>3, <1>7, <1>8, <1>14 DEF HookInv

LEMMA RunKeeps ==
  ASSUME HookInv, RunOriginal \/ Return \/ UNCHANGED vars
  PROVE  HookInv'
<1>1. UNCHANGED <<slot, original, slotOf, active, spec, bootVars, calls>>
  BY DEF RunOriginal, Return, vars, gameVars
<1>2. UNCHANGED <<boot, step, target, todo>>
  BY <1>1 DEF bootVars
<1>3. Installs' /\ Ahead' /\ Chain' /\ \A h : Home(h)' = Home(h)
  BY <1>1, HooksStill
<1>4. CASE Return
  <2>1. /\ calling' = NoSlot /\ at' = Game /\ delivered' = FALSE /\ ran' = 0
        /\ suppressed' = FALSE /\ events' = <<>> /\ hookedAt' = {} /\ legible' = {}
    BY <1>4 DEF Return
  <2>2. /\ events' \in Seq(Hooks \X (Functions \cup {NoSlot})) /\ hookedAt' \subseteq Hooks
        /\ legible' \subseteq {"chat", "generic"}
        /\ ran' \in 0..1 /\ at' \in Hooks \cup {Game} /\ calling' \in Slots \cup {NoSlot}
    BY <2>1
  <2>5. delivered' \in BOOLEAN /\ suppressed' \in BOOLEAN
    BY <2>1
  <2>3. Types'
    BY <1>1, <1>2, <2>2, <2>5 DEF HookInv, Types
  <2>4. Inside' /\ Outside'
    BY <2>1 DEF Inside, Outside
  <2> QED
    BY <1>3, <2>3, <2>4 DEF HookInv
<1>5. CASE RunOriginal \/ UNCHANGED vars
  <2>1. /\ UNCHANGED <<calling, at, legible, delivered, suppressed, events, hookedAt>>
        /\ ran' = 1 \/ ran' = ran
    BY <1>5 DEF RunOriginal, vars, gameVars
  <2>2. Types'
    BY <1>1, <1>2, <2>1 DEF HookInv, Types
  <2>3. Outside'
    BY <2>1 DEF HookInv, Outside
  <2>4. /\ \A h : Seen(h)' = Seen(h) /\ Pending(h)' = Pending(h)
        /\ Home(at)' = Home(at) /\ \A h : Legible(h)' = Legible(h)
    BY <1>1, <1>2, <2>1 DEF Seen, Pending, Home, Legible
  <2>5. Inside'
    BY <1>1, <1>2, <2>1, <2>4 DEF HookInv, Inside
  <2> QED
    BY <1>3, <2>2, <2>3, <2>5 DEF HookInv
<1> QED
  BY <1>4, <1>5

-----------------------------------------------------------------------------
LEMMA InstallKeeps ==
  ASSUME HookInv, InstallStep
  PROVE  HookInv'
<1>1. step \in 1..3
  BY DEF InstallStep
<1>2. step = 1 \/ step = 2 \/ step = 3
  BY <1>1
<1> QED
  BY <1>2, SaveKeeps, SwapKeeps, PublishKeeps

LEMMA NextKeeps == HookInv /\ [Next]_vars => HookInv'
<1> SUFFICES ASSUME HookInv, [Next]_vars PROVE HookInv'
  OBVIOUS
<1>1. CASE Installing
  BY <1>1, BeginKeeps, InstallKeeps, DoneKeeps DEF Installing
<1>2. CASE Removing
  BY <1>2, RemovalBounds, RemoveKeeps DEF Removing
<1>3. CASE \E s \in Slots : Call(s)
  BY <1>3, CallKeeps
<1>4. CASE GameStep
  BY <1>4, DeliverKeeps, TrampolineChainKeeps, RunKeeps DEF GameStep
<1>5. CASE UNCHANGED vars
  BY <1>5, RunKeeps
<1> QED
  BY <1>1, <1>2, <1>3, <1>4, <1>5 DEF Next

(***************************************************************************)
(* The chains of hooks and the position of the call in them, in every      *)
(* reachable state.                                                        *)
(***************************************************************************)
THEOREM HookInvariant == Spec => []HookInv
BY InitHolds, NextKeeps, PTL DEF Spec

(***************************************************************************)
(* "Always chain the original exec thunk" (generic_hook.cpp:127): a call   *)
(* that is back in the game ran the game's own function unless the chat    *)
(* hook swallowed it, however the installation interleaves with it.        *)
(***************************************************************************)
THEOREM OriginalRunsHolds == Spec => []OriginalRuns
<1>1. HookInv => OriginalRuns
  <2> SUFFICES ASSUME HookInv, calling # NoSlot, Finished
               PROVE  ran = 1 \/ (suppressed /\ calling = Broadcast)
    BY DEF OriginalRuns
  <2>1. CASE at \in Hooks
    <3>1. Home(at) = calling /\ at # Game /\ (suppressed => at = ChatHook)
      BY <2>1, HookIds DEF HookInv, Inside
    <3>2. Chains(at) /\ (at = ChatHook => calling = Broadcast)
      BY <2>1, <3>1, Behind
    <3> QED
      BY <3>1, <3>2 DEF Finished
  <2>2. CASE at \notin Hooks
    BY <2>2 DEF Finished
  <2> QED
    BY <2>1, <2>2
<1> QED
  BY <1>1, HookInvariant, PTL

(***************************************************************************)
(* Every hook that was on the slot when the call came and finds the call's *)
(* arguments observes it exactly once, no other hook makes an event, and a *)
(* generic event names the function that was called, for any table of      *)
(* entries and any order of installation.                                  *)
(***************************************************************************)
THEOREM ObservationHolds == Spec => []Observation
<1>1. HookInv => Observation
  <2> SUFFICES ASSUME HookInv, calling # NoSlot, Finished
               PROVE  \A h \in hookedAt : Legible(h) /\ (suppressed => h \in Entries) => Seen(h)
    <3>1. HookInv /\ calling # NoSlot =>
            /\ \A i \in 1..Len(events) : events[i][1] \in Entries => events[i][2] = calling
            /\ \A i, j \in 1..Len(events) : events[i][1] = events[j][1] => i = j
            /\ \A i \in 1..Len(events) : Legible(events[i][1])
      BY DEF HookInv, Inside
    <3> QED
      BY <3>1 DEF Observation, Seen
  <2>1. CASE at \in Hooks
    <3>1. Home(at) = calling /\ at # Game /\ (suppressed => at = ChatHook)
      BY <2>1, HookIds DEF HookInv, Inside
    <3>2. Chains(at)
      BY <2>1, <3>1, Behind
    <3>3. suppressed /\ delivered /\ at = ChatHook /\ ChatHook \notin Entries
      BY <3>1, <3>2, HookIds DEF Finished
    <3>4. \A h \in hookedAt : Legible(h) => Seen(h) \/ Pending(h)
      BY DEF HookInv, Inside
    <3>5. \A h : ~Pending(h)
      BY <3>3 DEF Pending
    <3> QED
      BY <3>3, <3>4, <3>5
  <2>2. CASE at \notin Hooks
    BY <2>2 DEF HookInv, Inside, Pending
  <2> QED
    BY <2>1, <2>2
<1> QED
  BY <1>1, HookInvariant, PTL

(***************************************************************************)
(* Once uninstall() is through, every slot holds the game's own function,  *)
(* shared slots included.                                                  *)
(***************************************************************************)
THEOREM RestoredHolds == Spec => []Restored
<1>1. HookInv => Restored
  <2> SUFFICES ASSUME HookInv, boot = "removed", NEW s \in Slots PROVE slot[s] = Game
    BY DEF Restored
  <2>1. step = 0 /\ \A h \in Hooks : slotOf[h] = NoSlot
    BY DEF HookInv, Installs, Ahead
  <2>2. \A h \in Hooks : Home(h) = NoSlot
    BY <2>1 DEF Home
  <2>3. slot[s] # Game => Home(slot[s]) = s /\ slot[s] \in Hooks
    BY DEF HookInv, Chain, Types
  <2> QED
    BY <2>2, <2>3, HookIds
<1> QED
  BY <1>1, HookInvariant, PTL

-----------------------------------------------------------------------------
(* The search.  An object that is in the array from the start of a search  *)
(* to its end is either found already or due: in a slot that has not been  *)
(* visited, or the one that is being inspected, still at the address that  *)
(* was read from its slot (Due).                                           *)
Object == [id : Nat, class : Classes \cup {NoClass}, name : Names \cup {DefaultName, ""},
           live : BOOLEAN]
Asked == Names \cup {""}
Walk == [pc : Searching \cup {"done"}, class : Classes, name : Asked,
         max : Nat \ {0}, num : Nat, at : Nat \ {0}, obj : Addr \cup {0},
         found : Seq([addr : Addr \cup {0}, id : Nat]),
         through : SUBSET Nat, during : SUBSET Nat]
SearchTypes ==
  /\ heap \in [Addr -> Object]
  /\ slots \in Seq(Addr \cup {0})
  /\ born \in Nat \ {0} /\ walks \in Nat
  /\ walk \in Walk \cup {Idle}

(* Every slot in use holds a live object, no object is in two slots, and   *)
(* identity 1 is the default object's.                                     *)
InUse(i) == i \in 1 .. Len(slots) /\ slots[i] # 0
Housed ==
  /\ \A i \in 1 .. Len(slots) : InUse(i) => heap[slots[i]].live
  /\ \A i, j \in 1 .. Len(slots) : InUse(i) /\ slots[i] = slots[j] => i = j
  /\ \A a \in Addr : heap[a].id = 1 => heap[a].name = DefaultName

(* x has been found; object x is due to be inspected at slot i. *)
Found(x) == \E k \in 1 .. Len(walk.found) : walk.found[k].id = x
Due(x, i) ==
  /\ InUse(i) /\ walk.at <= i /\ i <= walk.num
  /\ heap[slots[i]].id = x /\ Matches(heap[slots[i]], walk.class, walk.name)
  /\ i = walk.at /\ walk.pc # "slot" => slots[i] = walk.obj

(* What is known of a search on its way and of its result. *)
Recorded ==
  walk.pc # "idle" =>
    \A k \in 1 .. Len(walk.found) : walk.found[k].id \in walk.during \ {1}
Seeing ==
  walk.pc \in Searching =>
    /\ walk.num <= Len(slots)
    /\ \A a \in Addr : heap[a].live => heap[a].id \in walk.during
    /\ \A x \in walk.through : Found(x) \/ \E i \in 1 .. Len(slots) : Due(x, i)
Reading ==
  walk.pc \in {"class", "name"} => walk.obj \in Addr /\ heap[walk.obj].id \in walk.during
Ended ==
  walk.pc = "done" /\ Len(walk.found) < walk.max => \A x \in walk.through : Found(x)

SearchInv == SearchTypes /\ Housed /\ Recorded /\ Seeing /\ Reading /\ Ended

LEMMA SearchShape ==
  ASSUME SearchTypes
  PROVE  /\ walk.pc \in Searching \cup {"idle", "done"}
         /\ walk.pc # "idle" => walk \in Walk
<1>1. walk \in Walk \/ walk = Idle
  BY DEF SearchTypes
<1>2. CASE walk \in Walk
  <2>1. walk.pc \in Searching \cup {"done"}
    BY <1>2 DEF Walk
  <2>. QED
    BY <1>2, <2>1
<1>3. CASE walk = Idle
  <2>1. walk.pc = "idle"
    BY <1>3 DEF Idle
  <2>. QED
    BY <2>1
<1>. QED
  BY <1>1, <1>2, <1>3

LEMMA SearchInitHolds == SearchInit => SearchInv
<1> SUFFICES ASSUME SearchInit PROVE SearchInv
  OBVIOUS
<1>1. heap \in [Addr -> Object]
  BY ObjectAssumptions DEF SearchInit, Object, Nothing
<1>2. slots \in Seq(Addr \cup {0}) /\ Len(slots) = 1 /\ slots[1] = 1
  BY ObjectAssumptions DEF SearchInit
<1>3. SearchTypes
  <2>1. born \in Nat \ {0} /\ walks \in Nat /\ walk = Idle
    BY DEF SearchInit
  <2>. QED
    BY <1>1, <1>2, <2>1 DEF SearchTypes
<1>4. Housed
  <2>1. /\ heap[1].live /\ heap[1].name = DefaultName
        /\ \A a \in Addr : a # 1 => heap[a].id = 0
    BY ObjectAssumptions DEF SearchInit, Nothing
  <2>. QED
    BY <1>2, <2>1, ObjectAssumptions DEF Housed, InUse
<1>5. walk.pc = "idle"
  BY DEF SearchInit, Idle
<1>. QED
  BY <1>3, <1>4, <1>5 DEF SearchInv, Recorded, Seeing, Reading, Ended, Searching

(* An object appears.  Its address was free, so it is in no slot.          *)
LEMMA SpawnKeeps ==
  ASSUME SearchInv, NEW a \in Addr, NEW c \in Classes, NEW n \in Names, Spawn(a, c, n)
  PROVE  SearchInv'
<1> DEFINE new == [id |-> born + 1, class |-> c, name |-> n, live |-> TRUE]
<1>1. /\ heap \in [Addr -> Object] /\ slots \in Seq(Addr \cup {0})
      /\ born \in Nat \ {0} /\ walks \in Nat /\ walk \in Walk \cup {Idle}
  BY DEF SearchInv, SearchTypes
<1>2. new \in Object /\ new.id = born + 1 /\ new.name = n /\ new.live
  <2>1. born + 1 \in Nat
    BY <1>1
  <2>2. n \in Names \cup {DefaultName, ""} /\ c \in Classes \cup {NoClass}
    OBVIOUS
  <2>. QED
    BY <2>1, <2>2, Zenon DEF Object
<1>3. heap' = [heap EXCEPT ![a] = new] /\ ~heap[a].live /\ born' = born + 1 /\ walks' = walks
  BY DEF Spawn
<1> HIDE DEF new
<1>4. /\ heap' \in [Addr -> Object] /\ heap'[a] = new
      /\ \A b \in Addr : b # a => heap'[b] = heap[b]
  BY <1>1, <1>2, <1>3
<1>5. PICK s \in 1 .. Len(slots) + 1 :
        /\ slots' \in Seq(Addr \cup {0}) /\ s \in 1 .. Len(slots') /\ slots'[s] = a
        /\ Len(slots) <= Len(slots')
        /\ \A i \in 1 .. Len(slots') : i # s => i \in 1 .. Len(slots) /\ slots'[i] = slots[i]
        /\ s \in 1 .. Len(slots) => slots[s] = 0
  <2>1. CASE \E i \in DOMAIN slots : slots[i] = 0 /\ slots' = [slots EXCEPT ![i] = a]
    <3>1. PICK i \in 1 .. Len(slots) : slots[i] = 0 /\ slots' = [slots EXCEPT ![i] = a]
      <4>1. DOMAIN slots = 1 .. Len(slots)
        BY <1>1
      <4>. QED
        BY <2>1, <4>1
    <3>2. slots' \in Seq(Addr \cup {0}) /\ Len(slots') = Len(slots)
      BY <3>1, <1>1
    <3>. QED
      BY <3>1, <3>2, <1>1
  <2>2. CASE slots' = Append(slots, a)
    <3>1. slots' \in Seq(Addr \cup {0}) /\ Len(slots') = Len(slots) + 1
      BY <2>2, <1>1
    <3>2. slots'[Len(slots) + 1] = a /\ \A i \in 1 .. Len(slots) : slots'[i] = slots[i]
      BY <2>2, <1>1
    <3>. QED
      BY <3>1, <3>2, <1>1
  <2>. QED
    BY <2>1, <2>2 DEF Spawn
<1>6. /\ walk.pc \in Searching =>
           /\ walk \in Walk /\ walk' = [walk EXCEPT !.during = @ \cup {born + 1}]
      /\ walk.pc \notin Searching => walk' = walk
  BY SearchShape DEF Spawn, SearchInv, Searching
<1>7. /\ walk'.pc = walk.pc /\ walk' \in Walk \cup {Idle}
      /\ walk.pc \in Searching =>
           /\ walk'.class = walk.class /\ walk'.name = walk.name /\ walk'.at = walk.at
           /\ walk'.num = walk.num /\ walk'.obj = walk.obj /\ walk'.found = walk.found
           /\ walk'.through = walk.through /\ walk'.during = walk.during \cup {born + 1}
  <2>1. CASE walk.pc \in Searching
    <3>1. walk \in Walk /\ walk' = [walk EXCEPT !.during = @ \cup {born + 1}]
      BY <1>6, <2>1
    <3>2. walk.during \cup {born + 1} \in SUBSET Nat
      <4>1. walk.during \in SUBSET Nat
        BY <3>1 DEF Walk
      <4>2. born + 1 \in Nat
        BY <1>1
      <4>. QED
        BY <4>1, <4>2
    <3>3. walk' \in Walk
      BY <3>1, <3>2 DEF Walk
    <3>. QED
      BY <3>1, <3>3 DEF Walk
  <2>2. CASE walk.pc \notin Searching
    BY <1>6, <2>2, <1>1
  <2>. QED
    BY <2>1, <2>2
<1>8. \A i \in 1 .. Len(slots) :
        InUse(i) => /\ InUse(i)' /\ slots'[i] = slots[i] /\ slots[i] \in Addr
                    /\ slots[i] # a /\ heap'[slots[i]] = heap[slots[i]]
  BY <1>1, <1>3, <1>4, <1>5 DEF SearchInv, Housed, InUse
<1>9. \A i \in 1 .. Len(slots') : InUse(i)' => i = s \/ (InUse(i) /\ slots'[i] = slots[i])
  BY <1>5 DEF InUse
<1>10. SearchTypes'
  BY <1>1, <1>3, <1>4, <1>5, <1>7 DEF SearchTypes
<1>11. Housed'
  <2>1. \A i \in 1 .. Len(slots') : InUse(i)' => heap'[slots'[i]].live
    BY <1>2, <1>4, <1>5, <1>8, <1>9 DEF SearchInv, Housed, InUse
  <2>2. ASSUME NEW i \in 1 .. Len(slots'), NEW j \in 1 .. Len(slots'), InUse(i)',
               slots'[i] = slots'[j]
        PROVE  i = j
    <3>1. InUse(j)'
      BY <2>2 DEF InUse
    <3>. QED
      BY <2>2, <3>1, <1>5, <1>8, <1>9 DEF SearchInv, Housed, InUse
  <2>3. \A b \in Addr : heap'[b].id = 1 => heap'[b].name = DefaultName
    BY <1>1, <1>2, <1>4 DEF SearchInv, Housed
  <2>. QED
    BY <2>1, <2>2, <2>3 DEF Housed
<1>12. Recorded'
  <2>1. CASE walk.pc \in Searching
    <3>1. walk.pc # "idle"
      BY <2>1 DEF Searching
    <3>. QED
      BY <2>1, <3>1, <1>7 DEF SearchInv, Recorded
  <2>2. CASE walk.pc \notin Searching
    BY <2>2, <1>6 DEF SearchInv, Recorded
  <2>. QED
    BY <2>1, <2>2
<1>13. Seeing'
  <2> SUFFICES ASSUME walk.pc \in Searching
               PROVE  /\ walk.num <= Len(slots')
                      /\ \A b \in Addr : heap'[b].live => heap'[b].id \in walk'.during
                      /\ \A x \in walk.through :
                           Found(x)' \/ \E i \in 1 .. Len(slots') : Due(x, i)'
    BY <1>7 DEF Seeing
  <2>1. walk.num <= Len(slots) /\ walk.num \in Nat
    BY <1>6 DEF SearchInv, Seeing, Walk
  <2>2. walk.num <= Len(slots')
    BY <2>1, <1>1, <1>5
  <2>3. \A b \in Addr : heap'[b].live => heap'[b].id \in walk'.during
    BY <1>2, <1>4, <1>7 DEF SearchInv, Seeing
  <2>4. ASSUME NEW x \in walk.through
        PROVE  Found(x)' \/ \E i \in 1 .. Len(slots') : Due(x, i)'
    <3>1. CASE Found(x)
      BY <3>1, <1>7 DEF Found
    <3>2. ASSUME NEW i \in 1 .. Len(slots), Due(x, i)
          PROVE  Due(x, i)' /\ i \in 1 .. Len(slots')
      <4>1. InUse(i) /\ InUse(i)' /\ slots'[i] = slots[i] /\ heap'[slots[i]] = heap[slots[i]]
        BY <3>2, <1>8 DEF Due
      <4>. QED
        BY <3>2, <4>1, <1>7 DEF Due, InUse
    <3>. QED
      BY <3>1, <3>2 DEF SearchInv, Seeing
  <2>. QED
    BY <2>2, <2>3, <2>4
<1>14. Reading'
  <2> SUFFICES ASSUME walk.pc \in {"class", "name"}
               PROVE  walk'.obj \in Addr /\ heap'[walk'.obj].id \in walk'.during
    BY <1>7 DEF Reading
  <2>1. walk.pc \in Searching /\ walk.obj \in Addr /\ heap[walk.obj].id \in walk.during
    BY DEF SearchInv, Reading, Searching
  <2>. QED
    BY <2>1, <1>2, <1>4, <1>7
<1>15. Ended'
  <2>1. CASE walk.pc \in Searching
    BY <2>1, <1>7 DEF Ended, Searching
  <2>2. CASE walk.pc \notin Searching
    BY <2>2, <1>6 DEF SearchInv, Ended, Found
  <2>. QED
    BY <2>1, <2>2
<1>. QED
  BY <1>10, <1>11, <1>12, <1>13, <1>14, <1>15 DEF SearchInv

(* An object disappears: only its own slot is freed, and no object that    *)
(* stays loses its place.                                                  *)
LEMMA DestroyKeeps ==
  ASSUME SearchInv, NEW i \in 1 .. Len(slots), DestroyObject(i)
  PROVE  SearchInv'
<1>1. /\ heap \in [Addr -> Object] /\ slots \in Seq(Addr \cup {0})
      /\ born \in Nat \ {0} /\ walks \in Nat /\ walk \in Walk \cup {Idle}
  BY DEF SearchInv, SearchTypes
<1>2. InUse(i) /\ slots[i] \in Addr
  BY <1>1 DEF DestroyObject, InUse
<1>3. heap' = [heap EXCEPT ![slots[i]].live = FALSE] /\ slots' = [slots EXCEPT ![i] = 0]
  BY DEF DestroyObject
<1>4. /\ heap' \in [Addr -> Object] /\ ~heap'[slots[i]].live
      /\ \A b \in Addr : b # slots[i] => heap'[b] = heap[b]
      /\ \A b \in Addr : heap'[b].id = heap[b].id /\ heap'[b].name = heap[b].name
  BY <1>1, <1>2, <1>3 DEF Object
<1>5. /\ slots' \in Seq(Addr \cup {0}) /\ Len(slots') = Len(slots) /\ slots'[i] = 0
      /\ \A j \in 1 .. Len(slots) : j # i => slots'[j] = slots[j]
  BY <1>1, <1>3
<1>6. /\ walk.pc \in Searching =>
           /\ walk \in Walk /\ walk' = [walk EXCEPT !.through = @ \ {heap[slots[i]].id}]
      /\ walk.pc \notin Searching => walk' = walk
  BY SearchShape DEF DestroyObject, SearchInv, Searching
<1>7. /\ walk'.pc = walk.pc /\ walk' \in Walk \cup {Idle}
      /\ walk.pc \in Searching =>
           /\ walk'.class = walk.class /\ walk'.name = walk.name /\ walk'.at = walk.at
           /\ walk'.num = walk.num /\ walk'.obj = walk.obj /\ walk'.found = walk.found
           /\ walk'.through = walk.through \ {heap[slots[i]].id}
           /\ walk'.during = walk.during
  <2>1. CASE walk.pc \in Searching
    BY <1>6, <2>1, <1>1 DEF Walk
  <2>2. CASE walk.pc \notin Searching
    BY <1>6, <2>2, <1>1
  <2>. QED
    BY <2>1, <2>2
<1>8. \A j \in 1 .. Len(slots) :
        InUse(j) /\ j # i => /\ InUse(j)' /\ slots'[j] = slots[j] /\ slots[j] \in Addr
                             /\ slots[j] # slots[i] /\ heap'[slots[j]] = heap[slots[j]]
  BY <1>1, <1>2, <1>4, <1>5 DEF SearchInv, Housed, InUse
<1>9. \A j \in 1 .. Len(slots') : InUse(j)' => j # i /\ InUse(j) /\ slots'[j] = slots[j]
  BY <1>5 DEF InUse
<1>10. SearchTypes'
  BY <1>1, <1>4, <1>5, <1>7 DEF SearchTypes, DestroyObject
<1>11. Housed'
  <2>1. \A j \in 1 .. Len(slots') : InUse(j)' => heap'[slots'[j]].live
    BY <1>5, <1>8, <1>9 DEF SearchInv, Housed
  <2>2. ASSUME NEW j \in 1 .. Len(slots'), NEW k \in 1 .. Len(slots'), InUse(j)',
               slots'[j] = slots'[k]
        PROVE  j = k
    <3>1. InUse(k)'
      BY <2>2 DEF InUse
    <3>. QED
      BY <2>2, <3>1, <1>5, <1>9 DEF SearchInv, Housed
  <2>3. \A b \in Addr : heap'[b].id = 1 => heap'[b].name = DefaultName
    BY <1>4 DEF SearchInv, Housed
  <2>. QED
    BY <2>1, <2>2, <2>3 DEF Housed
<1>12. Recorded'
  <2>1. CASE walk.pc \in Searching
    <3>1. walk.pc # "idle"
      BY <2>1 DEF Searching
    <3>. QED
      BY <2>1, <3>1, <1>7 DEF SearchInv, Recorded
  <2>2. CASE walk.pc \notin Searching
    BY <2>2, <1>6 DEF SearchInv, Recorded
  <2>. QED
    BY <2>1, <2>2
<1>13. Seeing'
  <2> SUFFICES ASSUME walk.pc \in Searching
               PROVE  /\ walk.num <= Len(slots')
                      /\ \A b \in Addr : heap'[b].live => heap'[b].id \in walk.during
                      /\ \A x \in walk'.through :
                           Found(x)' \/ \E j \in 1 .. Len(slots') : Due(x, j)'
    BY <1>7 DEF Seeing
  <2>1. walk.num <= Len(slots')
    BY <1>5 DEF SearchInv, Seeing
  <2>2. \A b \in Addr : heap'[b].live => heap'[b].id \in walk.during
    BY <1>4 DEF SearchInv, Seeing
  <2>3. ASSUME NEW x \in walk'.through
        PROVE  Found(x)' \/ \E j \in 1 .. Len(slots') : Due(x, j)'
    <3>1. x \in walk.through /\ x # heap[slots[i]].id
      BY <1>7
    <3>2. CASE Found(x)
      BY <3>2, <1>7 DEF Found
    <3>3. ASSUME NEW j \in 1 .. Len(slots), Due(x, j)
          PROVE  Due(x, j)' /\ j \in 1 .. Len(slots')
      <4>1. InUse(j) /\ j # i
        BY <3>1, <3>3 DEF Due
      <4>2. InUse(j)' /\ slots'[j] = slots[j] /\ heap'[slots[j]] = heap[slots[j]]
        BY <4>1, <1>8
      <4>. QED
        BY <3>3, <4>2, <1>5, <1>7 DEF Due
    <3>. QED
      BY <3>1, <3>2, <3>3 DEF SearchInv, Seeing
  <2>. QED
    BY <2>1, <2>2, <2>3
<1>14. Reading'
  <2> SUFFICES ASSUME walk.pc \in {"class", "name"}
               PROVE  walk'.obj \in Addr /\ heap'[walk'.obj].id \in walk'.during
    BY <1>7 DEF Reading
  <2>1. walk.pc \in Searching /\ walk.obj \in Addr /\ heap[walk.obj].id \in walk.during
    BY DEF SearchInv, Reading, Searching
  <2>. QED
    BY <2>1, <1>4, <1>7
<1>15. Ended'
  <2>1. CASE walk.pc \in Searching
    BY <2>1, <1>7 DEF Ended, Searching
  <2>2. CASE walk.pc \notin Searching
    BY <2>2, <1>6 DEF SearchInv, Ended, Found
  <2>. QED
    BY <2>1, <2>2
<1>. QED
  BY <1>10, <1>11, <1>12, <1>13, <1>14, <1>15 DEF SearchInv

LEMMA SearchStill ==
  ASSUME SearchInv, UNCHANGED game, walks' \in Nat, walk' \in Walk
  PROVE  SearchTypes' /\ Housed'
BY DEF SearchInv, SearchTypes, Housed, InUse, game

(* A search begins: what it is to find is in the array. *)
LEMMA FindKeeps ==
  ASSUME SearchInv, NEW c \in Classes, NEW n \in Asked, NEW m \in Nat \ {0},
         FindObjects(c, n, m)
  PROVE  SearchInv'
<1>1. /\ heap \in [Addr -> Object] /\ slots \in Seq(Addr \cup {0}) /\ walks \in Nat
  BY DEF SearchInv, SearchTypes
<1>2. heap' = heap /\ slots' = slots /\ UNCHANGED game /\ walks' \in Nat
  <2>1. UNCHANGED game /\ walks' = walks + 1
    BY DEF FindObjects
  <2>. QED
    BY <1>1, <2>1 DEF game
<1>3. PICK there, alive :
        /\ there = Present(c, n)
        /\ alive = {heap[a].id : a \in {x \in Addr : heap[x].live}}
  OBVIOUS
<1>4. walk' = [pc |-> "slot", class |-> c, name |-> n, max |-> m, num |-> Len(slots),
               at |-> 1, obj |-> 0, found |-> <<>>, through |-> there, during |-> alive]
  BY <1>3, Zenon DEF FindObjects
<1>5. \A x \in there : \E i \in 1 .. Len(slots) :
        InUse(i) /\ heap[slots[i]].id = x /\ Matches(heap[slots[i]], c, n)
  <2>1. DOMAIN slots = 1 .. Len(slots)
    BY <1>1
  <2>. QED
    BY <2>1, <1>3, Zenon DEF Present, InUse
<1>6. there \in SUBSET Nat
  <2>1. \A a \in Addr : heap[a].id \in Nat
    BY <1>1 DEF Object
  <2>2. \A i \in 1 .. Len(slots) : InUse(i) => slots[i] \in Addr
    BY <1>1 DEF InUse
  <2>. QED
    BY <1>5, <2>1, <2>2
<1>7. alive \in SUBSET Nat /\ \A a \in Addr : heap[a].live => heap[a].id \in alive
  <2>1. \A a \in Addr : heap[a].id \in Nat
    BY <1>1 DEF Object
  <2>. QED
    BY <1>3, <2>1, Zenon
<1>8. Len(slots) \in Nat
  BY <1>1
<1>9. /\ walk'.pc = "slot" /\ walk'.class = c /\ walk'.name = n /\ walk'.num = Len(slots)
       /\ walk'.at = 1 /\ walk'.found = <<>> /\ walk'.through = there /\ walk'.during = alive
  BY <1>4
<1>10. walk' \in Walk
  <2>1. /\ "slot" \in Searching \cup {"done"} /\ 1 \in Nat \ {0}
        /\ <<>> \in Seq([addr : Addr \cup {0}, id : Nat])
    BY DEF Searching
  <2>. QED
    BY <2>1, <1>4, <1>6, <1>7, <1>8, Zenon DEF Walk
<1>11. SearchTypes' /\ Housed'
  BY <1>2, <1>10, SearchStill
<1>12. Recorded' /\ Reading' /\ Ended'
  <2>1. walk'.pc = "slot" /\ 1 .. Len(walk'.found) = {}
    BY <1>9
  <2>. QED
    BY <2>1 DEF Recorded, Reading, Ended
<1>13. Seeing'
  <2>1. ASSUME NEW x \in there PROVE \E i \in 1 .. Len(slots) : Due(x, i)'
    <3>1. PICK i \in 1 .. Len(slots) :
            InUse(i) /\ heap[slots[i]].id = x /\ Matches(heap[slots[i]], c, n)
      BY <1>5
    <3>2. i \in Nat /\ 1 <= i /\ i <= Len(slots)
      BY <1>8
    <3>3. InUse(i)' /\ heap'[slots'[i]].id = x /\ Matches(heap'[slots'[i]], c, n)
      BY <3>1, <1>2 DEF InUse
    <3>. QED
      BY <3>2, <3>3, <1>9 DEF Due
  <2>2. walk'.num <= Len(slots')
    BY <1>2, <1>8, <1>9
  <2>3. \A a \in Addr : heap'[a].live => heap'[a].id \in walk'.during
    BY <1>2, <1>7, <1>9
  <2>. QED
    BY <2>1, <2>2, <2>3, <1>2, <1>9 DEF Seeing
<1>. QED
  BY <1>11, <1>12, <1>13 DEF SearchInv

(* A step of a search that is under way leaves the array and what the      *)
(* search looks for alone.                                                 *)
LEMMA Onward ==
  ASSUME SearchInv, UNCHANGED <<game, walks>>, walk.pc \in Searching, walk' \in Walk,
         walk'.during = walk.during, walk'.num = walk.num, walk'.through = walk.through,
         walk'.class = walk.class, walk'.name = walk.name
  PROVE  /\ SearchTypes' /\ Housed'
         /\ walk \in Walk /\ walk.at \in Nat \ {0} /\ walk.num \in Nat /\ Len(slots) \in Nat
         /\ walk.num <= Len(slots) /\ walk.found \in Seq([addr : Addr \cup {0}, id : Nat])
         /\ (\A x \in walk.through :
               Found(x)' \/ \E i \in 1 .. Len(slots) : Due(x, i)') => Seeing'
<1>1. walk \in Walk
  BY SearchShape DEF SearchInv, Searching
<1>2. walks' \in Nat /\ UNCHANGED game
  BY DEF SearchInv, SearchTypes
<1>3. SearchTypes' /\ Housed'
  BY <1>2, SearchStill
<1>4. /\ walk.at \in Nat \ {0} /\ walk.num \in Nat
      /\ walk.found \in Seq([addr : Addr \cup {0}, id : Nat])
  BY <1>1 DEF Walk
<1>5. heap' = heap /\ slots' = slots
  BY DEF game
<1>6. walk.num <= Len(slots) /\ \A a \in Addr : heap[a].live => heap[a].id \in walk.during
  BY DEF SearchInv, Seeing
<1>7. Len(slots) \in Nat
  BY DEF SearchInv, SearchTypes
<1>8. (\A x \in walk.through :
         Found(x)' \/ \E i \in 1 .. Len(slots) : Due(x, i)') => Seeing'
  BY <1>5, <1>6 DEF Seeing
<1>. QED
  BY <1>1, <1>3, <1>4, <1>6, <1>7, <1>8

(* The object at the search's place is passed over, which happens only if  *)
(* nothing there is due.                                                   *)
LEMMA PassKeeps ==
  ASSUME SearchInv, UNCHANGED <<game, walks>>, walk.pc \in Searching,
         walk' = [walk EXCEPT !.pc = "slot", !.at = @ + 1],
         \A x \in walk.through : ~Due(x, walk.at)
  PROVE  SearchInv'
<1>1. walk \in Walk /\ walk.pc # "idle"
  BY SearchShape DEF SearchInv, Searching
<1>2. /\ walk'.pc = "slot" /\ walk'.at = walk.at + 1 /\ walk'.num = walk.num
      /\ walk'.during = walk.during /\ walk'.through = walk.through
      /\ walk'.class = walk.class /\ walk'.name = walk.name /\ walk'.found = walk.found
  BY <1>1 DEF Walk
<1>3. walk' \in Walk
  <2>1. walk.at + 1 \in Nat \ {0}
    <3>1. walk.at \in Nat
      BY <1>1 DEF Walk
    <3>. QED
      BY <3>1
  <2>. QED
    BY <1>1, <2>1 DEF Walk, Searching
<1>4. /\ SearchTypes' /\ Housed'
      /\ walk.at \in Nat /\ walk.num \in Nat /\ Len(slots) \in Nat
      /\ (\A x \in walk.through :
            Found(x)' \/ \E i \in 1 .. Len(slots) : Due(x, i)') => Seeing'
  BY <1>2, <1>3, Onward
<1>5. heap' = heap /\ slots' = slots
  BY DEF game
<1>6. ASSUME NEW x \in walk.through
      PROVE  Found(x)' \/ \E i \in 1 .. Len(slots) : Due(x, i)'
  <2>1. CASE Found(x)
    BY <2>1, <1>2 DEF Found
  <2>2. ASSUME NEW i \in 1 .. Len(slots), Due(x, i) PROVE Due(x, i)'
    <3>1. i # walk.at
      BY <2>2
    <3>2. walk.at + 1 <= i
      BY <2>2, <3>1, <1>4 DEF Due
    <3>. QED
      BY <2>2, <3>2, <1>2, <1>5 DEF Due, InUse
  <2>. QED
    BY <2>1, <2>2 DEF SearchInv, Seeing
<1>7. Seeing'
  BY <1>4, <1>6
<1>8. Recorded' /\ Reading' /\ Ended'
  BY <1>1, <1>2 DEF SearchInv, Recorded, Reading, Ended
<1>. QED
  BY <1>4, <1>7, <1>8 DEF SearchInv

(* What is due at the search's place is the object it read the slot of. *)
LEMMA DueHere ==
  ASSUME SearchInv, walk.pc \in {"class", "name"}, NEW x, Due(x, walk.at)
  PROVE  /\ heap[walk.obj].id = x /\ heap[walk.obj].live
         /\ IsA(heap[walk.obj].class, walk.class) /\ Named(heap[walk.obj], walk.name)
<1>1. InUse(walk.at) /\ slots[walk.at] = walk.obj /\ walk.at \in 1 .. Len(slots)
  BY DEF Due, InUse
<1>. QED
  BY <1>1 DEF SearchInv, Housed, Due, Matches

LEMMA ReadSlotKeeps ==
  ASSUME SearchInv, ReadSlot
  PROVE  SearchInv'
<1>1. walk \in Walk /\ walk.pc = "slot" /\ walk.pc \in Searching /\ UNCHANGED <<game, walks>>
  BY SearchShape DEF SearchInv, Searching, ReadSlot
<1>2. heap' = heap /\ slots' = slots
  BY <1>1 DEF game
<1>3. /\ walk.at \in Nat \ {0} /\ walk.num \in Nat /\ walk.num <= Len(slots)
      /\ slots \in Seq(Addr \cup {0}) /\ Len(slots) \in Nat
  BY <1>1 DEF SearchInv, SearchTypes, Seeing, Walk
<1>4. CASE walk.at > walk.num
  <2>1. walk' = [walk EXCEPT !.pc = "done"]
    BY <1>4 DEF ReadSlot
  <2>2. /\ walk'.pc = "done" /\ walk'.num = walk.num /\ walk'.found = walk.found
        /\ walk'.during = walk.during /\ walk'.through = walk.through
        /\ walk'.class = walk.class /\ walk'.name = walk.name
    BY <1>1, <2>1 DEF Walk
  <2>3. walk' \in Walk
    BY <1>1, <2>1 DEF Walk
  <2>4. SearchTypes' /\ Housed'
    BY <1>1, <2>2, <2>3, Onward
  <2>5. \A x : \A i \in 1 .. Len(slots) : ~Due(x, i)
    BY <1>3, <1>4 DEF Due
  <2>6. \A x \in walk.through : Found(x)
    BY <1>1, <2>5 DEF SearchInv, Seeing
  <2>7. Ended'
    BY <2>2, <2>6 DEF Ended, Found
  <2>8. Recorded' /\ Reading' /\ Seeing'
    BY <1>1, <2>2 DEF SearchInv, Recorded, Reading, Seeing, Searching
  <2>. QED
    BY <2>4, <2>7, <2>8 DEF SearchInv
<1>5. CASE ~(walk.at > walk.num) /\ slots[walk.at] = 0
  <2>1. walk' = [walk EXCEPT !.pc = "slot", !.at = @ + 1]
    <3>1. walk' = [walk EXCEPT !.at = @ + 1]
      BY <1>5 DEF ReadSlot
    <3>. QED
      BY <3>1, <1>1 DEF Walk
  <2>2. \A x \in walk.through : ~Due(x, walk.at)
    BY <1>5 DEF Due, InUse
  <2>. QED
    BY <1>1, <2>1, <2>2, PassKeeps
<1>6. CASE ~(walk.at > walk.num) /\ slots[walk.at] # 0
  <2>1. walk' = [walk EXCEPT !.pc = "class", !.obj = slots[walk.at]]
    BY <1>6 DEF ReadSlot
  <2>2. walk.at \in 1 .. Len(slots) /\ slots[walk.at] \in Addr /\ InUse(walk.at)
    BY <1>3, <1>6 DEF InUse
  <2>3. /\ walk'.pc = "class" /\ walk'.num = walk.num /\ walk'.found = walk.found
        /\ walk'.during = walk.during /\ walk'.through = walk.through
        /\ walk'.class = walk.class /\ walk'.name = walk.name
        /\ walk'.at = walk.at /\ walk'.obj = slots[walk.at]
    BY <1>1, <2>1 DEF Walk
  <2>4. walk' \in Walk
    BY <1>1, <2>1, <2>2 DEF Walk, Searching
  <2>5. /\ SearchTypes' /\ Housed'
        /\ (\A x \in walk.through :
              Found(x)' \/ \E i \in 1 .. Len(slots) : Due(x, i)') => Seeing'
    BY <1>1, <2>3, <2>4, Onward
  <2>6. ASSUME NEW x \in walk.through
        PROVE  Found(x)' \/ \E i \in 1 .. Len(slots) : Due(x, i)'
    <3>1. CASE Found(x)
      BY <3>1, <2>3 DEF Found
    <3>2. ASSUME NEW i \in 1 .. Len(slots), Due(x, i) PROVE Due(x, i)'
      BY <3>2, <1>2, <2>3 DEF Due, InUse
    <3>. QED
      BY <3>1, <3>2, <1>1 DEF SearchInv, Seeing
  <2>7. Seeing'
    BY <2>5, <2>6
  <2>8. heap[slots[walk.at]].id \in walk.during
    BY <1>1, <2>2 DEF SearchInv, Housed, Seeing
  <2>9. Reading'
    BY <1>2, <2>2, <2>3, <2>8 DEF Reading
  <2>10. Recorded' /\ Ended'
    BY <1>1, <2>3 DEF SearchInv, Recorded, Ended
  <2>. QED
    BY <2>5, <2>7, <2>9, <2>10 DEF SearchInv
<1>. QED
  BY <1>4, <1>5, <1>6

(* The class is read from what is at the address now; an object that is    *)
(* due is still there and of the class.                                    *)
LEMMA ReadClassKeeps ==
  ASSUME SearchInv, ReadClass
  PROVE  SearchInv'
<1>1. /\ walk \in Walk /\ walk.pc = "class" /\ walk.pc \in Searching
      /\ UNCHANGED <<game, walks>>
  BY SearchShape DEF SearchInv, Searching, ReadClass
<1>2. heap' = heap /\ slots' = slots
  BY <1>1 DEF game
<1>3. CASE walk' = Skip /\ (~IsA(heap[walk.obj].class, walk.class) \/ ~heap[walk.obj].live)
  <2>1. \A x \in walk.through : ~Due(x, walk.at)
    BY <1>1, <1>3, DueHere
  <2>. QED
    BY <1>1, <1>3, <2>1, PassKeeps DEF Skip
<1>4. CASE walk' = [walk EXCEPT !.pc = "name"]
  <2>1. /\ walk'.pc = "name" /\ walk'.num = walk.num /\ walk'.found = walk.found
        /\ walk'.during = walk.during /\ walk'.through = walk.through
        /\ walk'.class = walk.class /\ walk'.name = walk.name
        /\ walk'.at = walk.at /\ walk'.obj = walk.obj
    BY <1>1, <1>4 DEF Walk
  <2>2. walk' \in Walk
    BY <1>1, <1>4 DEF Walk, Searching
  <2>3. /\ SearchTypes' /\ Housed'
        /\ (\A x \in walk.through :
              Found(x)' \/ \E i \in 1 .. Len(slots) : Due(x, i)') => Seeing'
    BY <1>1, <2>1, <2>2, Onward
  <2>4. ASSUME NEW x \in walk.through
        PROVE  Found(x)' \/ \E i \in 1 .. Len(slots) : Due(x, i)'
    <3>1. CASE Found(x)
      BY <3>1, <2>1 DEF Found
    <3>2. ASSUME NEW i \in 1 .. Len(slots), Due(x, i) PROVE Due(x, i)'
      BY <3>2, <1>1, <1>2, <2>1 DEF Due, InUse
    <3>. QED
      BY <3>1, <3>2, <1>1 DEF SearchInv, Seeing
  <2>5. Seeing'
    BY <2>3, <2>4
  <2>6. Reading' /\ Recorded' /\ Ended'
    BY <1>1, <1>2, <2>1 DEF SearchInv, Reading, Recorded, Ended
  <2>. QED
    BY <2>3, <2>5, <2>6 DEF SearchInv
<1>. QED
  BY <1>3, <1>4 DEF ReadClass

(* So it is when its name is read, and then it is taken. *)
LEMMA ReadNameKeeps ==
  ASSUME SearchInv, ReadName
  PROVE  SearchInv'
<1>1. /\ walk \in Walk /\ walk.pc = "name" /\ walk.pc \in Searching
      /\ UNCHANGED <<game, walks>>
  BY SearchShape DEF SearchInv, Searching, ReadName
<1>2. heap' = heap /\ slots' = slots
  BY <1>1 DEF game
<1>3. CASE walk' = Skip /\ (~Named(heap[walk.obj], walk.name) \/ ~heap[walk.obj].live)
  <2>1. \A x \in walk.through : ~Due(x, walk.at)
    BY <1>1, <1>3, DueHere
  <2>. QED
    BY <1>1, <1>3, <2>1, PassKeeps DEF Skip
<1>4. CASE walk' = Take(heap[walk.obj]) /\ Named(heap[walk.obj], walk.name)
  <2>1. PICK new, pc :
          /\ new = [addr |-> walk.obj, id |-> heap[walk.obj].id]
          /\ pc = IF Len(walk.found) + 1 < walk.max THEN "slot" ELSE "done"
    OBVIOUS
  <2>2. walk' = [walk EXCEPT !.pc = pc, !.at = @ + 1, !.found = Append(@, new)]
    BY <1>4, <2>1, Zenon DEF Take
  <2>3. /\ walk.at \in Nat /\ walk.obj \in Addr \cup {0} /\ walk.max \in Nat
        /\ walk.found \in Seq([addr : Addr \cup {0}, id : Nat]) /\ walk.num \in Nat
    BY <1>1 DEF Walk
  <2>4. /\ walk.obj \in Addr /\ heap[walk.obj].id \in walk.during
        /\ heap[walk.obj].id # 1 /\ heap[walk.obj].id \in Nat
    <3>1. walk.obj \in Addr /\ heap[walk.obj].id \in walk.during
      BY <1>1 DEF SearchInv, Reading
    <3>2. heap[walk.obj].id # 1
      BY <1>4, <3>1 DEF SearchInv, Housed, Named
    <3>3. heap[walk.obj] \in Object
      BY <3>1 DEF SearchInv, SearchTypes
    <3>4. heap[walk.obj].id \in Nat
      BY <3>3 DEF Object
    <3>. QED
      BY <3>1, <3>2, <3>4
  <2>5. new \in [addr : Addr \cup {0}, id : Nat] /\ new.id = heap[walk.obj].id
    BY <2>1, <2>3, <2>4
  <2>6. /\ Append(walk.found, new) \in Seq([addr : Addr \cup {0}, id : Nat])
        /\ Len(Append(walk.found, new)) = Len(walk.found) + 1
        /\ Append(walk.found, new)[Len(walk.found) + 1] = new
        /\ \A k \in 1 .. Len(walk.found) : Append(walk.found, new)[k] = walk.found[k]
        /\ Len(walk.found) \in Nat
    BY <2>3, <2>5
  <2>7. pc \in Searching \cup {"done"} /\ walk.at + 1 \in Nat \ {0}
    BY <2>1, <2>3 DEF Searching
  <2>8. /\ walk'.pc = pc /\ walk'.at = walk.at + 1 /\ walk'.num = walk.num
        /\ walk'.found = Append(walk.found, new)
        /\ walk'.during = walk.during /\ walk'.through = walk.through
        /\ walk'.class = walk.class /\ walk'.name = walk.name /\ walk'.max = walk.max
    BY <1>1, <2>2 DEF Walk
  <2>9. walk' \in Walk
    BY <1>1, <2>2, <2>6, <2>7 DEF Walk
  <2>10. /\ SearchTypes' /\ Housed'
         /\ (\A x \in walk.through :
               Found(x)' \/ \E i \in 1 .. Len(slots) : Due(x, i)') => Seeing'
    BY <1>1, <2>8, <2>9, Onward
  <2>11. \A x \in walk.through : Found(x) => Found(x)'
    BY <2>6, <2>8 DEF Found
  <2>12. pc = "slot" => Seeing'
    <3> SUFFICES ASSUME pc = "slot", NEW x \in walk.through
                 PROVE  Found(x)' \/ \E i \in 1 .. Len(slots) : Due(x, i)'
      BY <2>10
    <3>1. CASE Found(x)
      BY <3>1, <2>11
    <3>2. ASSUME NEW i \in 1 .. Len(slots), Due(x, i), i # walk.at PROVE Due(x, i)'
      <4>1. walk.at + 1 <= i
        BY <3>2, <2>3 DEF Due
      <4>. QED
        BY <3>2, <4>1, <1>2, <2>8 DEF Due, InUse
    <3>3. ASSUME Due(x, walk.at) PROVE Found(x)'
      <4>1. x = heap[walk.obj].id
        BY <3>3, <1>1, DueHere
      <4>2. Len(walk.found) + 1 \in 1 .. Len(walk'.found)
        BY <2>6, <2>8
      <4>3. walk'.found[Len(walk.found) + 1].id = x
        BY <4>1, <2>5, <2>6, <2>8
      <4>. QED
        BY <4>2, <4>3 DEF Found
    <3>. QED
      BY <3>1, <3>2, <3>3, <1>1 DEF SearchInv, Seeing
  <2>13. Seeing'
    <3>1. pc = "done" => Seeing'
      BY <2>8 DEF Seeing, Searching
    <3>. QED
      BY <3>1, <2>1, <2>12
  <2>14. Recorded'
    <3>1. \A k \in 1 .. Len(walk.found) : walk.found[k].id \in walk.during \ {1}
      BY <1>1 DEF SearchInv, Recorded
    <3>2. \A k \in 1 .. Len(walk'.found) : walk'.found[k].id \in walk.during \ {1}
      BY <3>1, <2>4, <2>5, <2>6, <2>8
    <3>. QED
      BY <3>2, <2>8 DEF Recorded
  <2>15. Reading'
    BY <2>1, <2>8 DEF Reading
  <2>16. Ended'
    BY <2>1, <2>3, <2>6, <2>8 DEF Ended
  <2>. QED
    BY <2>10, <2>13, <2>14, <2>15, <2>16 DEF SearchInv
<1>. QED
  BY <1>3, <1>4 DEF ReadName

LEMMA SearchNextKeeps == SearchInv /\ [SearchNext]_searchVars => SearchInv'
<1> SUFFICES ASSUME SearchInv, [SearchNext]_searchVars PROVE SearchInv'
  OBVIOUS
<1>0. 1 \in Nat \ {0}
  OBVIOUS
<1>1. ASSUME NEW a \in Addr, NEW c \in Classes, NEW n \in Names, Spawn(a, c, n)
      PROVE  SearchInv'
  BY <1>1, SpawnKeeps
<1>2. ASSUME NEW i \in DOMAIN slots, DestroyObject(i) PROVE SearchInv'
  <2>1. i \in 1 .. Len(slots)
    BY DEF SearchInv, SearchTypes
  <2>. QED
    BY <1>2, <2>1, DestroyKeeps
<1>3. ASSUME NEW c \in Classes, NEW n \in Names \cup {""}, FindObjects(c, n, 1)
      PROVE  SearchInv'
  BY <1>3, <1>0, FindKeeps, Zenon DEF Asked
<1>4. ASSUME NEW c \in Classes, FindObjects(c, "", MaxFound) PROVE SearchInv'
  BY <1>4, FindKeeps, ObjectAssumptions, Zenon DEF Asked
<1>5. CASE ReadSlot
  BY <1>5, ReadSlotKeeps
<1>6. CASE ReadClass
  BY <1>6, ReadClassKeeps
<1>7. CASE ReadName
  BY <1>7, ReadNameKeeps
<1>8. CASE UNCHANGED searchVars
  BY <1>8 DEF searchVars, game, SearchInv, SearchTypes, Housed, InUse, Found, Due, Recorded,
              Seeing, Reading, Ended
<1>. QED
  BY <1>1, <1>2, <1>3, <1>4, <1>5, <1>6, <1>7, <1>8 DEF SearchNext

(* The inductive invariant of a search. *)
THEOREM SearchInvariant == SearchSpec => []SearchInv
<1>1. SearchInit => SearchInv
  BY SearchInitHolds
<1>2. SearchInv /\ [SearchNext]_searchVars => SearchInv'
  BY SearchNextKeeps
<1>. QED
  BY <1>1, <1>2, PTL DEF SearchSpec

(* find_object and find_all_of return only objects that lived during the   *)
(* search, never a default object, and all that matched the whole time     *)
(* unless they stopped at their maximum: for any classes, names and        *)
(* addresses and however the game creates and destroys objects meanwhile.  *)
THEOREM FindExactHolds == SearchSpec => []FindExact
<1>1. SearchInv => FindExact
  <2> SUFFICES ASSUME SearchInv, walk.pc = "done"
               PROVE  /\ {walk.found[i].id : i \in DOMAIN walk.found} \subseteq walk.during \ {1}
                      /\ Len(walk.found) < walk.max =>
                           walk.through \subseteq {walk.found[i].id : i \in DOMAIN walk.found}
    BY Zenon DEF FindExact
  <2>1. walk \in Walk
    BY SearchShape DEF SearchInv
  <2>2. DOMAIN walk.found = 1 .. Len(walk.found)
    BY <2>1 DEF Walk
  <2>3. \A k \in 1 .. Len(walk.found) : walk.found[k].id \in walk.during \ {1}
    BY DEF SearchInv, Recorded
  <2>4. Len(walk.found) < walk.max =>
          \A x \in walk.through : \E k \in 1 .. Len(walk.found) : walk.found[k].id = x
    BY DEF SearchInv, Ended, Found
  <2>. QED
    BY <2>2, <2>3, <2>4
<1>. QED
  BY <1>1, SearchInvariant, PTL
=============================================================================
