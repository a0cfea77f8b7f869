--------------------------- MODULE RuntimeProofs ----------------------------
(***************************************************************************)
(* Transactional, CallsLiveSet, DestroyedDrained and OneOwner of Runtime,  *)
(* for every number of plugins, edits, reloads and calls.                  *)
(*                                                                         *)
(* The argument is about who owns a PluginSet.  Its phase tells which kind *)
(* of owner it has: the active set is live or stopped, a reload's fresh is *)
(* loading, its old is draining, and a set that is gone has no owner.  So  *)
(* no two kinds of owner meet in one set, and no two reloads share one.  A *)
(* call under the shared lock holds the active set, because a commit needs *)
(* the lock alone; so only the active set is ever given work, and a fresh  *)
(* set that is abandoned has none.                                         *)
(***************************************************************************)
EXTENDS Runtime, FiniteSetTheorems, TLAPS

Pcs == {"cold", "off", "idle", "gated", "load", "destroy", "install", "generic", "ready",
        "spawn", "up", "failed", "stat0", "stat", "wait", "exit"}

(* reload_plugins' locals follow the thread's position in it. *)
Locals ==
  \A t \in Reloaders :
    /\ fresh[t] # 0 <=> pc[t] = "load"
    /\ old[t] # 0 <=> pc[t] = "destroy"
    /\ pc[t] = "load" => next[t] >= 1

(* start() reaches the control thread and the watcher one after the other, *)
(* and stop() comes after it.                                              *)
Threads ==
  /\ pc["boot"] = "cold" => pc["control"] = "off"
  /\ pc["boot"] # "up" => pc["watcher"] = "off"
  /\ stopper # "none" => pc["boot"] \in {"up", "failed"}

(* The phase of a set tells its owner. *)
OwnersPhase ==
  /\ sets[active].phase \in {"live", "stopped"}
  /\ \A t \in Reloaders :
       /\ fresh[t] # 0 => sets[fresh[t]].phase = "loading"
       /\ old[t] # 0 => sets[old[t]].phase = "draining"

(* No two reloads own one set, and a set without an owner is gone. *)
Apart ==
  \A t, u \in Reloaders :
    /\ fresh[t] # 0 /\ fresh[t] = fresh[u] => t = u
    /\ old[t] # 0 /\ old[t] = old[u] => t = u

Owned ==
  \A s \in 1..Len(sets) :
    \/ sets[s].phase = "gone"
    \/ s = active
    \/ \E t \in Reloaders : fresh[t] = s \/ old[t] = s

(* Work is accepted by the active set alone. *)
Work ==
  /\ \A s \in 1..Len(sets) :
       sets[s].phase \in {"gone", "loading"} => sets[s].accepted = sets[s].ran
  /\ \A c \in Callers : caller[c] = "locked" => holds[c] = active

(* What load_directory_report has done so far. *)
LoadedSoFar ==
  \A t \in Reloaders : fresh[t] # 0 =>
    \A p \in Plugins : p < next[t] =>
      /\ sets[fresh[t]].content[p] \in Versions
      /\ ~errors[t] => sets[fresh[t]].content[p] \notin BadEdits

Ownership == OwnersPhase /\ Apart /\ Owned

RuntimeInv == TypeOK /\ Threads /\ Locals /\ Ownership /\ Work /\ LoadedSoFar /\ Transactional

-----------------------------------------------------------------------------
(* Putting r in the place of set i changes no other set. *)
LEMMA OneSetChanges ==
  ASSUME sets \in Seq(PluginSets), NEW i \in 1..Len(sets), NEW r \in PluginSets
  PROVE  /\ [sets EXCEPT ![i] = r] \in Seq(PluginSets)
         /\ Len([sets EXCEPT ![i] = r]) = Len(sets)
         /\ \A s \in 1..Len(sets) : [sets EXCEPT ![i] = r][s] = IF s = i THEN r ELSE sets[s]
OBVIOUS

LEMMA InitHolds == Init => RuntimeInv
<1> SUFFICES ASSUME Init PROVE RuntimeInv
  OBVIOUS
<1>1. Empty \in PluginSets
  BY RuntimeAssumptions DEF Empty, PluginSets, Unread, Versions
<1>2. sets \in Seq(PluginSets) /\ Len(sets) = 1 /\ sets[1] = Empty /\ active = 1
  BY <1>1 DEF Init
<1>3. TypeOK
  <2>1. pc \in [Reloaders -> {"cold", "off"}]
    BY DEF Init, Reloaders
  <2>2. /\ disk \in [Plugins -> Versions]
        /\ {edits, last, newest} \subseteq Versions
    BY RuntimeAssumptions DEF Init, Versions
  <2>3. /\ caller \in [Callers -> {"out"}] /\ holds \in [Callers -> {0}]
        /\ fresh \in [Reloaders -> {0}] /\ old \in [Reloaders -> {0}]
        /\ next \in [Reloaders -> {0}] /\ errors \in [Reloaders -> BOOLEAN]
    BY DEF Init
  <2>4. /\ fresh \in [Reloaders -> 0..Len(sets)] /\ old \in [Reloaders -> 0..Len(sets)]
        /\ next \in [Reloaders -> 0..(NPlugins + 1)] /\ holds \in [Callers -> 0..Len(sets)]
        /\ active \in 1..Len(sets)
    BY <1>2, <2>3, RuntimeAssumptions
  <2>5. reloads \in 0..MaxReloads /\ requests \in 0..MaxRequests
    BY RuntimeAssumptions DEF Init
  <2>6. /\ scan \subseteq Plugins /\ watchStop \in BOOLEAN
        /\ hooked \subseteq Kinds /\ unhooked \in BOOLEAN /\ state \in States /\ stopper = "none"
    BY DEF Init, States
  <2> QED
    BY <1>2, <2>1, <2>2, <2>3, <2>4, <2>5, <2>6 DEF TypeOK
<1>4. Threads /\ Locals /\ Ownership /\ Work
  BY <1>2 DEF Init, Threads, Locals, Ownership, OwnersPhase, Apart, Owned, Work, Empty, Reloaders, Callers
<1> QED
  BY <1>2, <1>3, <1>4 DEF Init, RuntimeInv, LoadedSoFar, Transactional, Reloaders

-----------------------------------------------------------------------------
(* A step that moves no set and no reload. *)
QuietReloads ==
  \A t \in Reloaders : pc'[t] = pc[t] \/ ({pc[t], pc'[t]} \cap {"load", "destroy"} = {})

LEMMA QuietKeeps ==
  ASSUME RuntimeInv, TypeOK', Threads', UNCHANGED <<sets, active, local, caller, holds>>,
         QuietReloads
  PROVE  RuntimeInv'
<1>1. Locals'
  BY DEF RuntimeInv, Locals, local, QuietReloads
<1>2. Ownership' /\ Work'
  BY DEF RuntimeInv, Ownership, OwnersPhase, Apart, Owned, Work, local
<1>3. LoadedSoFar' /\ Transactional'
  BY DEF RuntimeInv, LoadedSoFar, Transactional, Complete, local
<1> QED
  BY <1>1, <1>2, <1>3 DEF RuntimeInv

(* The steps that move no set and no reload. *)
LEMMA EditKeeps == ASSUME RuntimeInv, NEW p \in Plugins, Edit(p) PROVE RuntimeInv'
<1>1. TypeOK' /\ Threads'
  BY RuntimeAssumptions DEF RuntimeInv, TypeOK, Threads, Edit, Versions, local, watch, hooks, calls
<1> QED
  BY <1>1, QuietKeeps DEF Edit, QuietReloads, calls

LEMMA StartKeeps ==
  ASSUME RuntimeInv,
         \/ \E ok \in BOOLEAN, verdict \in {"failed", "unsupported_build"} : StartGate(ok, verdict)
         \/ InstallGenericHooks \/ StartRunning \/ StartWatch
  PROVE  RuntimeInv'
<1>1. ASSUME NEW ok \in BOOLEAN, NEW verdict \in {"failed", "unsupported_build"},
             StartGate(ok, verdict)
      PROVE  RuntimeInv'
  <2>1. TypeOK' /\ Threads'
    BY <1>1 DEF RuntimeInv, TypeOK, Threads, StartGate, States, Reloaders, local, watch, hooks, calls
  <2>2. QuietReloads
    BY <1>1 DEF RuntimeInv, TypeOK, Threads, StartGate, QuietReloads, Reloaders
  <2> QED
    BY <1>1, <2>1, <2>2, QuietKeeps DEF StartGate, calls
<1>2. CASE InstallGenericHooks
  <2>1. Subscribed(active) \subseteq Kinds
    <3>1. sets[active] \in PluginSets
      BY DEF RuntimeInv, TypeOK
    <3>2. sets[active].content \in [Plugins -> Versions \cup {Unread}]
      BY <3>1 DEF PluginSets
    <3> QED
      BY <3>2, RuntimeAssumptions DEF Subscribed
  <2>2. TypeOK' /\ Threads'
    BY <1>2, <2>1 DEF RuntimeInv, TypeOK, Threads, InstallGenericHooks, Reloaders, local, watch, calls
  <2> QED
    BY <1>2, <2>2, QuietKeeps DEF InstallGenericHooks, RuntimeInv, TypeOK, QuietReloads, Reloaders, calls
<1>3. CASE StartRunning
  <2>1. TypeOK' /\ Threads'
    BY <1>3 DEF RuntimeInv, TypeOK, Threads, StartRunning, States, Reloaders, local, watch, hooks, calls
  <2> QED
    BY <1>3, <2>1, QuietKeeps DEF StartRunning, RuntimeInv, TypeOK, QuietReloads, Reloaders, calls
<1>4. CASE StartWatch
  <2>1. NewestFrom \in Versions
    BY RuntimeAssumptions DEF NewestFrom, Versions
  <2>2. TypeOK' /\ Threads'
    BY <1>4, <2>1 DEF RuntimeInv, TypeOK, Threads, StartWatch, Reloaders, local, hooks, calls
  <2>3. QuietReloads
    BY <1>4 DEF RuntimeInv, TypeOK, Threads, StartWatch, QuietReloads, Reloaders
  <2> QED
    BY <1>4, <2>2, <2>3, QuietKeeps DEF StartWatch, calls
<1> QED
  BY <1>1, <1>2, <1>3, <1>4

LEMMA WatchKeeps ==
  ASSUME RuntimeInv,
         \/ \E p \in Plugins : Stat(p)
         \/ FirstScanDone \/ WatchWake \/ NothingChanged
  PROVE  RuntimeInv'
<1>1. ASSUME NEW p \in Plugins, Stat(p) PROVE RuntimeInv'
  <2>1. TypeOK' /\ Threads'
    BY <1>1 DEF RuntimeInv, TypeOK, Threads, Stat, local, hooks, calls
  <2> QED
    BY <1>1, <2>1, QuietKeeps DEF Stat, QuietReloads, calls
<1>2. CASE FirstScanDone
  <2>1. TypeOK' /\ Threads'
    BY <1>2 DEF RuntimeInv, TypeOK, Threads, FirstScanDone, Reloaders, local, hooks, calls
  <2> QED
    BY <1>2, <2>1, QuietKeeps DEF FirstScanDone, RuntimeInv, TypeOK, QuietReloads, Reloaders, calls
<1>3. CASE WatchWake
  <2>1. NewestFrom \in Versions
    BY RuntimeAssumptions DEF NewestFrom, Versions
  <2>2. TypeOK' /\ Threads'
    BY <1>3, <2>1 DEF RuntimeInv, TypeOK, Threads, WatchWake, Reloaders, local, hooks, calls
  <2>3. QuietReloads
    BY <1>3 DEF WatchWake, RuntimeInv, TypeOK, QuietReloads, Reloaders
  <2> QED
    BY <1>3, <2>2, <2>3, QuietKeeps DEF WatchWake, calls
<1>4. CASE NothingChanged
  <2>1. TypeOK' /\ Threads'
    BY <1>4 DEF RuntimeInv, TypeOK, Threads, NothingChanged, Reloaders, local, watch, hooks, calls
  <2> QED
    BY <1>4, <2>1, QuietKeeps DEF NothingChanged, RuntimeInv, TypeOK, QuietReloads, Reloaders, calls
<1> QED
  BY <1>1, <1>2, <1>3, <1>4

LEMMA StopKeeps ==
  ASSUME RuntimeInv, StopBegin \/ StopJoinWatch \/ StopDrained \/ StopJoinControl
  PROVE  RuntimeInv'
<1>1. TypeOK' /\ Threads'
  <2>1. CASE StopBegin
    BY <2>1 DEF RuntimeInv, TypeOK, Threads, StopBegin, States, local, hooks, calls
  <2>2. CASE StopJoinWatch
    BY <2>2 DEF RuntimeInv, TypeOK, Threads, StopJoinWatch, local, watch, calls
  <2>3. CASE StopDrained
    BY <2>3 DEF RuntimeInv, TypeOK, Threads, StopDrained, local, watch, hooks, calls
  <2>4. CASE StopJoinControl
    BY <2>4 DEF RuntimeInv, TypeOK, Threads, StopJoinControl, Reloaders, local, watch, hooks, calls
  <2> QED
    BY <2>1, <2>2, <2>3, <2>4
<1>2. UNCHANGED <<sets, active, local, caller, holds>>
  BY DEF StopBegin, StopJoinWatch, StopDrained, StopJoinControl, calls
<1>3. QuietReloads
  BY DEF RuntimeInv, TypeOK, QuietReloads, Reloaders, StopBegin, StopJoinWatch, StopDrained, StopJoinControl
<1> QED
  BY <1>1, <1>2, <1>3, QuietKeeps

-----------------------------------------------------------------------------
LEMMA Indices ==
  ASSUME RuntimeInv
  PROVE  /\ active \in 1..Len(sets) /\ Len(sets) \in Nat
         /\ fresh \in [Reloaders -> 0..Len(sets)] /\ old \in [Reloaders -> 0..Len(sets)]
         /\ \A t \in Reloaders :
              /\ fresh[t] # 0 => fresh[t] \in 1..Len(sets)
              /\ old[t] # 0 => old[t] \in 1..Len(sets)
BY DEF RuntimeInv, TypeOK

(* reload_plugins begins: the new set is the reload's own. *)
LEMMA BeginSets ==
  ASSUME RuntimeInv, NEW t \in Reloaders, BeginReload(t)
  PROVE  /\ sets' \in Seq(PluginSets) /\ Len(sets') = Len(sets) + 1
         /\ \A s \in 1..Len(sets) : sets'[s] = sets[s]
         /\ sets'[Len(sets) + 1] = [Empty EXCEPT !.phase = "loading"]
<1> DEFINE new == [Empty EXCEPT !.phase = "loading"]
<1>1. new \in PluginSets
  BY RuntimeAssumptions DEF Empty, PluginSets, Unread, Versions
<1>2. sets' = Append(sets, new) /\ sets \in Seq(PluginSets)
  BY DEF BeginReload, RuntimeInv, TypeOK
<1>3. new = [Empty EXCEPT !.phase = "loading"]
  OBVIOUS
<1> HIDE DEF new
<1>4. /\ sets' \in Seq(PluginSets) /\ Len(sets') = Len(sets) + 1
      /\ \A s \in 1..Len(sets) : sets'[s] = sets[s]
      /\ sets'[Len(sets) + 1] = new
  BY <1>1, <1>2
<1> QED
  BY <1>3, <1>4

LEMMA BeginTypes ==
  ASSUME RuntimeInv, NEW t \in Reloaders, BeginReload(t), UNCHANGED <<active, holds>>
  PROVE  /\ pc' = [pc EXCEPT ![t] = "load"]
         /\ active' \in 1..Len(sets')
         /\ fresh' \in [Reloaders -> 0..Len(sets')] /\ old' \in [Reloaders -> 0..Len(sets')]
         /\ next' \in [Reloaders -> 0..(NPlugins + 1)] /\ errors' \in [Reloaders -> BOOLEAN]
         /\ holds' \in [Callers -> 0..Len(sets')]
<1>1. Len(sets') = Len(sets) + 1 /\ Len(sets) \in Nat
  BY BeginSets DEF RuntimeInv, TypeOK
<1>2. /\ pc' = [pc EXCEPT ![t] = "load"] /\ fresh' = [fresh EXCEPT ![t] = Len(sets) + 1]
      /\ next' = [next EXCEPT ![t] = 1] /\ errors' = [errors EXCEPT ![t] = FALSE] /\ old' = old
  BY DEF BeginReload
<1> QED
  BY <1>1, <1>2, RuntimeAssumptions DEF RuntimeInv, TypeOK

LEMMA BeginKeeps ==
  ASSUME RuntimeInv, NEW t \in Reloaders, BeginReload(t), pc[t] \notin {"load", "destroy"},
         TypeOK', Threads', UNCHANGED <<active, caller, holds>>
  PROVE  RuntimeInv'
<1> DEFINE n == Len(sets) + 1
<1>1. /\ n \in Nat /\ Len(sets') = n
      /\ \A s \in 1..Len(sets) : sets'[s] = sets[s]
      /\ sets'[n].phase = "loading" /\ sets'[n].accepted = sets'[n].ran
  <2>1. sets'[n] = [Empty EXCEPT !.phase = "loading"]
    BY BeginSets
  <2>2. sets'[n].phase = "loading" /\ sets'[n].accepted = sets'[n].ran
    BY <2>1 DEF Empty
  <2>3. n \in Nat
    BY DEF RuntimeInv, TypeOK
  <2>4. Len(sets') = n /\ \A s \in 1..Len(sets) : sets'[s] = sets[s]
    BY BeginSets
  <2> QED
    BY <2>2, <2>3, <2>4
<1>2. /\ active \in 1..Len(sets) /\ n \notin 1..Len(sets)
      /\ fresh \in [Reloaders -> 0..Len(sets)] /\ old \in [Reloaders -> 0..Len(sets)]
      /\ next \in [Reloaders -> 0..(NPlugins + 1)]
      /\ pc \in [Reloaders -> Pcs] /\ n # 0 /\ 1..n = (1..Len(sets)) \cup {n}
      /\ \A u \in Reloaders :
           /\ fresh[u] # 0 => fresh[u] \in 1..Len(sets)
           /\ old[u] # 0 => old[u] \in 1..Len(sets)
  <2>1. n # 0 /\ n \notin 1..Len(sets) /\ 1..n = (1..Len(sets)) \cup {n}
    BY Indices
  <2>2. /\ fresh \in [Reloaders -> 0..Len(sets)] /\ old \in [Reloaders -> 0..Len(sets)]
        /\ next \in [Reloaders -> 0..(NPlugins + 1)] /\ pc \in [Reloaders -> Pcs]
    BY DEF RuntimeInv, TypeOK, Pcs
  <2> QED
    BY <2>1, <2>2, Indices
<1>3. /\ fresh' = [fresh EXCEPT ![t] = n] /\ old' = old /\ next' = [next EXCEPT ![t] = 1]
      /\ errors' = [errors EXCEPT ![t] = FALSE] /\ pc' = [pc EXCEPT ![t] = "load"]
  BY DEF BeginReload
<1>4. fresh[t] = 0 /\ old[t] = 0
  BY DEF RuntimeInv, Locals
<1> HIDE DEF n
<1>5. Locals'
  BY <1>1, <1>2, <1>3, <1>4 DEF RuntimeInv, Locals
<1>6. OwnersPhase'
  <2>1. OwnersPhase
    BY DEF RuntimeInv, Ownership
  <2>2. \A u \in Reloaders : u # t => fresh'[u] = fresh[u]
    BY <1>2, <1>3
  <2>3. fresh'[t] = n
    BY <1>2, <1>3
  <2>4. sets'[active'].phase \in {"live", "stopped"}
    BY <1>1, <1>2, <2>1 DEF OwnersPhase
  <2>5. ASSUME NEW u \in Reloaders, fresh'[u] # 0 PROVE sets'[fresh'[u]].phase = "loading"
    <3>1. CASE u = t
      BY <1>1, <2>3, <3>1
    <3>2. CASE u # t
      <4>1. fresh'[u] = fresh[u] /\ sets'[fresh[u]] = sets[fresh[u]]
        BY <1>1, <1>2, <2>2, <2>5, <3>2
      <4> QED
        BY <2>1, <2>5, <4>1 DEF OwnersPhase
    <3> QED
      BY <3>1, <3>2
  <2>6. ASSUME NEW u \in Reloaders, old'[u] # 0 PROVE sets'[old'[u]].phase = "draining"
    <3>1. old'[u] = old[u] /\ sets'[old[u]] = sets[old[u]]
      BY <1>1, <1>2, <1>3, <2>6
    <3> QED
      BY <2>1, <2>6, <3>1 DEF OwnersPhase
  <2> QED
    BY <2>4, <2>5, <2>6 DEF OwnersPhase
<1>7. Apart'
  BY <1>1, <1>2, <1>3, <1>4 DEF RuntimeInv, Ownership, Apart
<1>8. Owned'
  <2> SUFFICES ASSUME NEW s \in 1..Len(sets)
               PROVE  \/ sets'[s].phase = "gone" \/ s = active'
                      \/ \E u \in Reloaders : fresh'[u] = s \/ old'[u] = s
    BY <1>1, <1>2, <1>3 DEF Owned
  <2>1. \A u \in Reloaders : fresh[u] = s => fresh'[u] = s
    BY <1>2, <1>3, <1>4, Indices
  <2> QED
    BY <1>1, <1>3, <2>1 DEF RuntimeInv, Ownership, Owned
<1>9. Work'
  BY <1>1, <1>2 DEF RuntimeInv, Work
<1>10. LoadedSoFar'
  <2>1. next'[t] = 1 /\ \A p \in Plugins : ~(p < 1)
    BY <1>2, <1>3, RuntimeAssumptions DEF Plugins
  <2>2. \A u \in Reloaders : u # t => fresh'[u] = fresh[u]
    BY <1>2, <1>3
  <2> SUFFICES ASSUME NEW u \in Reloaders, u # t, fresh[u] # 0
               PROVE  \A p \in Plugins : p < next'[u] =>
                        /\ sets'[fresh'[u]].content[p] \in Versions
                        /\ ~errors'[u] => sets'[fresh'[u]].content[p] \notin BadEdits
    BY <2>1, <2>2 DEF LoadedSoFar
  <2>3. /\ fresh'[u] = fresh[u] /\ next'[u] = next[u] /\ errors'[u] = errors[u]
        /\ sets'[fresh[u]] = sets[fresh[u]]
    BY <1>1, <1>2, <1>3 DEF RuntimeInv, TypeOK
  <2> QED
    BY <2>3 DEF RuntimeInv, LoadedSoFar
<1>11. Transactional'
  BY <1>1, <1>2 DEF RuntimeInv, Transactional, Complete
<1> QED
  BY <1>5, <1>6, <1>7, <1>8, <1>9, <1>10, <1>11 DEF RuntimeInv, Ownership

LEMMA BeginsKeep ==
  ASSUME RuntimeInv, StartLoad \/ HotReload \/ ControlReload
  PROVE  RuntimeInv'
<1>1. CASE StartLoad
  <2>1. TypeOK' /\ Threads'
    BY <1>1, BeginSets, BeginTypes DEF RuntimeInv, TypeOK, Threads, StartLoad, Reloaders, watch, hooks, calls
  <2> QED
    BY <1>1, <2>1, BeginKeeps DEF StartLoad, Reloaders, calls
<1>2. CASE HotReload
  <2>1. TypeOK' /\ Threads'
    BY <1>2, BeginSets, BeginTypes DEF RuntimeInv, TypeOK, Threads, HotReload, Reloaders, hooks, calls
  <2> QED
    BY <1>2, <2>1, BeginKeeps DEF HotReload, Reloaders, calls
<1>3. CASE ControlReload
  <2>1. TypeOK' /\ Threads'
    <3>1. BeginReload("control") /\ UNCHANGED <<active, holds>> /\ "control" \in Reloaders
      BY <1>3 DEF ControlReload, Reloaders, calls
    <3>2. reloads' \in 0..MaxReloads /\ pc["boot"] # "cold"
      BY <1>3, RuntimeAssumptions DEF ControlReload, RuntimeInv, TypeOK, Threads
    <3>3. Threads'
      BY <1>3, <3>1, <3>2, BeginTypes DEF RuntimeInv, TypeOK, Threads, ControlReload, Reloaders
    <3>4. TypeOK'
      BY <1>3, <3>1, <3>2, BeginSets, BeginTypes
      DEF RuntimeInv, TypeOK, ControlReload, watch, hooks, calls
    <3> QED
      BY <3>3, <3>4
  <2> QED
    BY <1>3, <2>1, BeginKeeps DEF ControlReload, Reloaders, calls
<1> QED
  BY <1>1, <1>2, <1>3

-----------------------------------------------------------------------------
(* Steps that change one set and no owner. *)
LEMMA OwnershipKept ==
  ASSUME RuntimeInv, UNCHANGED <<active, fresh, old>>, Len(sets') = Len(sets),
         \A s \in 1..Len(sets) :
           sets'[s].phase = sets[s].phase \/ (s = active /\ sets'[s].phase = "stopped")
  PROVE  Ownership'
<1>1. Ownership
  BY DEF RuntimeInv
<1>2. Apart'
  BY <1>1 DEF Ownership, Apart
<1>5. /\ active \in 1..Len(sets)
      /\ \A t \in Reloaders :
           /\ fresh[t] # 0 => fresh[t] \in 1..Len(sets)
           /\ old[t] # 0 => old[t] \in 1..Len(sets)
  BY Indices
<1>3. OwnersPhase'
  <2>1. sets'[active'].phase \in {"live", "stopped"}
    BY <1>1, Indices DEF Ownership, OwnersPhase
  <2>2. ASSUME NEW t \in Reloaders, fresh[t] # 0 PROVE sets'[fresh[t]].phase = "loading"
    <3>1. fresh[t] \in 1..Len(sets)
      BY <1>5, <2>2
    <3>2. sets[fresh[t]].phase = "loading" /\ sets[active].phase \in {"live", "stopped"}
      BY <1>1, <2>2 DEF Ownership, OwnersPhase
    <3> QED
      BY <3>1, <3>2
  <2>3. ASSUME NEW t \in Reloaders, old[t] # 0 PROVE sets'[old[t]].phase = "draining"
    <3>1. old[t] \in 1..Len(sets)
      BY <1>5, <2>3
    <3>2. sets[old[t]].phase = "draining" /\ sets[active].phase \in {"live", "stopped"}
      BY <1>1, <2>3 DEF Ownership, OwnersPhase
    <3> QED
      BY <3>1, <3>2
  <2> QED
    BY <2>1, <2>2, <2>3 DEF OwnersPhase
<1>4. Owned'
  BY <1>1 DEF Ownership, Owned
<1> QED
  BY <1>2, <1>3, <1>4 DEF Ownership

LEMMA ContentKept ==
  ASSUME RuntimeInv, UNCHANGED <<active, fresh, next, errors>>,
         \A s \in 1..Len(sets) : sets'[s].content = sets[s].content
  PROVE  LoadedSoFar' /\ Transactional'
<1>1. sets'[active].content = sets[active].content
  BY Indices
<1>2. \A t \in Reloaders : fresh[t] # 0 => sets'[fresh[t]].content = sets[fresh[t]].content
  <2>1. \A t \in Reloaders : fresh[t] # 0 => fresh[t] \in 1..Len(sets)
    BY Indices
  <2> QED
    BY <2>1
<1>3. Transactional'
  BY <1>1 DEF RuntimeInv, Transactional, Complete
<1>4. LoadedSoFar'
  <2> SUFFICES ASSUME NEW t \in Reloaders, fresh[t] # 0
               PROVE  \A p \in Plugins : p < next[t] =>
                        /\ sets'[fresh[t]].content[p] \in Versions
                        /\ ~errors[t] => sets'[fresh[t]].content[p] \notin BadEdits
    BY DEF LoadedSoFar
  <2>1. sets'[fresh[t]].content = sets[fresh[t]].content
    BY <1>2
  <2> QED
    BY <2>1 DEF RuntimeInv, LoadedSoFar
<1> QED
  BY <1>3, <1>4

(* A worker finishes a callback. *)
LEMMA RunCallbackKeeps ==
  ASSUME RuntimeInv, NEW i \in 1..Len(sets), RunCallback(i)
  PROVE  RuntimeInv'
<1> DEFINE r == [sets[i] EXCEPT !.ran = @ + 1]
<1>1. sets[i] \in PluginSets /\ sets \in Seq(PluginSets)
  BY DEF RuntimeInv, TypeOK
<1>2. /\ r \in PluginSets /\ r.phase = sets[i].phase /\ r.content = sets[i].content
      /\ r.accepted = sets[i].accepted
  <2>1. ASSUME NEW q \in PluginSets
        PROVE  LET c == [q EXCEPT !.ran = @ + 1]
               IN  /\ c \in PluginSets /\ c.phase = q.phase /\ c.content = q.content
                   /\ c.accepted = q.accepted
    BY DEF PluginSets
  <2> QED
    BY <1>1, <2>1, Zenon
<1>3. sets' = [sets EXCEPT ![i] = r] /\ sets[i].accepted # sets[i].ran
  <2>1. sets' = [sets EXCEPT ![i] = r]
    BY DEF RunCallback
  <2>2. sets[i].accepted \in Nat /\ sets[i].ran \in Nat
    BY <1>1 DEF PluginSets
  <2>3. sets[i].ran < sets[i].accepted
    BY DEF RunCallback
  <2> QED
    BY <2>1, <2>2, <2>3
<1> HIDE DEF r
<1>4. /\ sets' \in Seq(PluginSets) /\ Len(sets') = Len(sets)
      /\ \A s \in 1..Len(sets) : sets'[s] = IF s = i THEN r ELSE sets[s]
  BY <1>1, <1>2, <1>3, OneSetChanges
<1>5. TypeOK' /\ Threads' /\ Locals'
  BY <1>4 DEF RuntimeInv, TypeOK, Threads, Locals, RunCallback, local, watch, hooks, calls
<1>6. Ownership'
  <2>1. UNCHANGED <<active, fresh, old>>
    BY DEF RunCallback, local
  <2>2. \A s \in 1..Len(sets) :
        sets'[s].phase = sets[s].phase \/ (s = active /\ sets'[s].phase = "stopped")
    BY <1>2, <1>4
  <2> QED
    BY <1>4, <2>1, <2>2, OwnershipKept
<1>7. LoadedSoFar' /\ Transactional'
  BY <1>2, <1>4, ContentKept DEF RunCallback, local
<1>8. Work'
  BY <1>2, <1>3, <1>4 DEF RuntimeInv, Work, RunCallback, calls
<1> QED
  BY <1>5, <1>6, <1>7, <1>8 DEF RuntimeInv

(* PluginRuntime::stop on the active set, by stop() or by a start() whose  *)
(* hooks failed.                                                           *)
LEMMA StopActiveKeeps ==
  ASSUME RuntimeInv, TypeOK', Threads', sets' = [sets EXCEPT ![active].phase = "stopped"],
         UNCHANGED <<active, local, caller, holds>>, QuietReloads
  PROVE  RuntimeInv'
<1> DEFINE r == [sets[active] EXCEPT !.phase = "stopped"]
<1>1. sets[active] \in PluginSets /\ sets \in Seq(PluginSets) /\ active \in 1..Len(sets)
  BY DEF RuntimeInv, TypeOK
<1>2. r \in PluginSets /\ r.phase = "stopped" /\ r.content = sets[active].content
  BY <1>1 DEF PluginSets
<1>3. sets' = [sets EXCEPT ![active] = r]
  OBVIOUS
<1> HIDE DEF r
<1>4. /\ sets' \in Seq(PluginSets) /\ Len(sets') = Len(sets)
      /\ \A s \in 1..Len(sets) : sets'[s] = IF s = active THEN r ELSE sets[s]
  BY <1>1, <1>2, <1>3, OneSetChanges
<1>5. Locals'
  BY DEF RuntimeInv, Locals, local, QuietReloads
<1>6. Ownership'
  <2>1. UNCHANGED <<active, fresh, old>>
    BY DEF local
  <2>2. \A s \in 1..Len(sets) :
        sets'[s].phase = sets[s].phase \/ (s = active /\ sets'[s].phase = "stopped")
    BY <1>2, <1>4
  <2> QED
    BY <1>4, <2>1, <2>2, OwnershipKept
<1>7. LoadedSoFar' /\ Transactional'
  BY <1>2, <1>4, ContentKept DEF local
<1>8. Work'
  BY <1>2, <1>4 DEF RuntimeInv, Work
<1> QED
  BY <1>5, <1>6, <1>7, <1>8 DEF RuntimeInv

LEMMA StopsActiveKeep ==
  ASSUME RuntimeInv, (\E ok \in BOOLEAN : StartInstall(ok)) \/ StopPlugins
  PROVE  RuntimeInv'
<1>1. ASSUME sets' = [sets EXCEPT ![active].phase = "stopped"]
      PROVE  sets' \in Seq(PluginSets) /\ Len(sets') = Len(sets)
  <2> DEFINE r == [sets[active] EXCEPT !.phase = "stopped"]
  <2>1. sets[active] \in PluginSets /\ sets \in Seq(PluginSets) /\ active \in 1..Len(sets)
    BY DEF RuntimeInv, TypeOK
  <2>2. r \in PluginSets /\ sets' = [sets EXCEPT ![active] = r]
    BY <1>1, <2>1 DEF PluginSets
  <2> HIDE DEF r
  <2> QED
    BY <2>1, <2>2, OneSetChanges
<1>2. CASE StopPlugins
  <2>1. sets' \in Seq(PluginSets) /\ Len(sets') = Len(sets)
    BY <1>1, <1>2 DEF StopPlugins
  <2>2. TypeOK' /\ Threads'
    BY <1>2, <2>1 DEF RuntimeInv, TypeOK, Threads, StopPlugins, local, watch, hooks, calls
  <2> QED
    BY <1>2, <2>2, StopActiveKeeps DEF StopPlugins, QuietReloads, calls
<1>3. ASSUME StartInstall(TRUE) PROVE RuntimeInv'
  <2>1. TypeOK' /\ Threads'
    BY <1>3 DEF RuntimeInv, TypeOK, Threads, StartInstall, Reloaders, local, watch, hooks, calls
  <2> QED
    BY <1>3, <2>1, QuietKeeps DEF StartInstall, RuntimeInv, TypeOK, QuietReloads, Reloaders, calls
<1>4. ASSUME StartInstall(FALSE) PROVE RuntimeInv'
  <2>1. sets' \in Seq(PluginSets) /\ Len(sets') = Len(sets)
    BY <1>1, <1>4 DEF StartInstall
  <2>2. TypeOK' /\ Threads'
    BY <1>4, <2>1
    DEF RuntimeInv, TypeOK, Threads, StartInstall, States, Reloaders, local, watch, hooks, calls
  <2> QED
    BY <1>4, <2>2, StopActiveKeeps
    DEF StartInstall, RuntimeInv, TypeOK, QuietReloads, Reloaders, calls
<1> QED
  BY <1>2, <1>3, <1>4

(* The next plugin is loaded into the reload's own set. *)
LEMMA LoadPluginKeeps ==
  ASSUME RuntimeInv, NEW t \in Reloaders, LoadPlugin(t)
  PROVE  RuntimeInv'
<1> DEFINE i == fresh[t]
           n == next[t]
           v == disk[n]
           r == [sets[i] EXCEPT !.content = [sets[i].content EXCEPT ![n] = v]]
<1>1. i \in 1..Len(sets) /\ n \in Plugins /\ i # 0
  <2>1. pc[t] = "load" /\ n <= NPlugins /\ n \in Nat
    BY DEF LoadPlugin, RuntimeInv, TypeOK
  <2>2. fresh[t] # 0 /\ n >= 1
    BY <2>1 DEF RuntimeInv, Locals
  <2> QED
    BY <2>1, <2>2, Indices, RuntimeAssumptions DEF Plugins
<1>2. v \in Versions /\ disk \in [Plugins -> Versions]
  BY <1>1 DEF RuntimeInv, TypeOK
<1>3. sets[i] \in PluginSets /\ sets \in Seq(PluginSets)
  BY <1>1 DEF RuntimeInv, TypeOK
<1>4. /\ r \in PluginSets /\ r.phase = sets[i].phase /\ r.accepted = sets[i].accepted
      /\ r.ran = sets[i].ran /\ r.content = [sets[i].content EXCEPT ![n] = v]
      /\ sets[i].content \in [Plugins -> Versions \cup {Unread}]
  BY <1>1, <1>2, <1>3 DEF PluginSets
<1>5. sets' = [sets EXCEPT ![i] = r]
  BY <1>3 DEF LoadPlugin
<1>6. /\ errors' = [errors EXCEPT ![t] = errors[t] \/ v \in BadEdits]
      /\ next' = [next EXCEPT ![t] = n + 1]
      /\ UNCHANGED <<active, fresh, old, pc, caller, holds, stopper>>
  BY DEF LoadPlugin, Loads, calls
<1>7. /\ next \in [Reloaders -> 0..(NPlugins + 1)] /\ errors \in [Reloaders -> BOOLEAN]
      /\ next'[t] = n + 1
      /\ \A u \in Reloaders : u # t => next'[u] = next[u] /\ errors'[u] = errors[u]
  BY <1>6 DEF RuntimeInv, TypeOK
<1>8. errors'[t] = (errors[t] \/ v \in BadEdits)
  BY <1>6, <1>7, Zenon
<1>9. \A s \in 1..Len(sets) : sets[s].phase \in {"live", "stopped"} => s # i
  BY <1>1 DEF RuntimeInv, Ownership, OwnersPhase
<1> HIDE DEF r
<1>10. /\ sets' \in Seq(PluginSets) /\ Len(sets') = Len(sets)
       /\ \A s \in 1..Len(sets) : sets'[s] = IF s = i THEN r ELSE sets[s]
  BY <1>1, <1>3, <1>4, <1>5, OneSetChanges
<1> HIDE DEF i, v
<1>11. TypeOK'
  <2>1. next' \in [Reloaders -> 0..(NPlugins + 1)]
    BY <1>1, <1>6, <1>7, RuntimeAssumptions DEF Plugins
  <2>2. errors' \in [Reloaders -> BOOLEAN]
    <3>1. (errors[t] \/ v \in BadEdits) \in BOOLEAN
      OBVIOUS
    <3> QED
      BY <3>1, <1>6, <1>7, Zenon
  <2> QED
    BY <1>10, <2>1, <2>2 DEF RuntimeInv, TypeOK, LoadPlugin, local, watch, hooks, calls
<1>12. Threads'
  BY <1>6 DEF RuntimeInv, Threads
<1>13. Locals'
  BY <1>1, <1>6, <1>7, RuntimeAssumptions DEF RuntimeInv, Locals, Plugins
<1>14. Ownership'
  <2>1. \A s \in 1..Len(sets) : sets'[s].phase = sets[s].phase
    BY <1>4, <1>10
  <2> QED
    BY <1>6, <1>10, <2>1, OwnershipKept
<1>15. Work'
  BY <1>4, <1>6, <1>10 DEF RuntimeInv, Work
<1>16. Transactional'
  <2>1. active # i /\ active \in 1..Len(sets)
    BY <1>9, Indices DEF RuntimeInv, Ownership, OwnersPhase
  <2>2. sets'[active] = sets[active]
    BY <1>10, <2>1
  <2> QED
    BY <1>6, <2>2 DEF RuntimeInv, Transactional, Complete
<1>17. LoadedSoFar'
  <2> SUFFICES ASSUME NEW u \in Reloaders, fresh[u] # 0, NEW p \in Plugins, p < next'[u]
               PROVE  /\ sets'[fresh[u]].content[p] \in Versions
                      /\ ~errors'[u] => sets'[fresh[u]].content[p] \notin BadEdits
    BY <1>6 DEF LoadedSoFar
  <2>1. CASE u # t
    <3>1. fresh[u] \in 1..Len(sets)
      BY Indices
    <3>2. fresh[u] # i
      BY <1>1, <2>1 DEF RuntimeInv, Ownership, Apart, i
    <3>3. sets'[fresh[u]] = sets[fresh[u]] /\ next'[u] = next[u] /\ errors'[u] = errors[u]
      BY <1>7, <1>10, <2>1, <3>1, <3>2
    <3> QED
      BY <3>3 DEF RuntimeInv, LoadedSoFar
  <2>2. CASE u = t
    <3>1. sets'[fresh[u]].content = [sets[i].content EXCEPT ![n] = v]
      BY <1>1, <1>4, <1>10, <2>2 DEF i
    <3>2. CASE p = n
      <4>1. sets'[fresh[u]].content[p] = v
        BY <1>1, <1>4, <3>1, <3>2
      <4> QED
        BY <1>2, <1>8, <2>2, <4>1
    <3>3. CASE p # n
      <4>1. sets'[fresh[u]].content[p] = sets[fresh[u]].content[p]
        BY <1>4, <2>2, <3>1, <3>3 DEF i
      <4>2. p < next[u]
        BY <1>1, <1>7, <2>2, <3>3 DEF Plugins
      <4>3. ~errors'[u] => ~errors[u]
        BY <1>8, <2>2
      <4> QED
        BY <4>1, <4>2, <4>3 DEF RuntimeInv, LoadedSoFar
    <3> QED
      BY <3>2, <3>3
  <2> QED
    BY <2>1, <2>2
<1> QED
  BY <1>11, <1>12, <1>13, <1>14, <1>15, <1>16, <1>17 DEF RuntimeInv

-----------------------------------------------------------------------------
(* A set's phase changes and nothing else of it. *)
LEMMA PhaseChanges ==
  ASSUME RuntimeInv, NEW i \in 1..Len(sets),
         NEW ph \in {"loading", "live", "stopped", "draining", "gone"},
         sets' = [sets EXCEPT ![i].phase = ph]
  PROVE  /\ sets' \in Seq(PluginSets) /\ Len(sets') = Len(sets)
         /\ \A s \in 1..Len(sets) :
              /\ s # i => sets'[s] = sets[s]
              /\ sets'[s].phase = IF s = i THEN ph ELSE sets[s].phase
              /\ sets'[s].content = sets[s].content
              /\ sets'[s].accepted = sets[s].accepted /\ sets'[s].ran = sets[s].ran
<1> DEFINE r == [sets[i] EXCEPT !.phase = ph]
<1>1. sets[i] \in PluginSets /\ sets \in Seq(PluginSets)
  BY DEF RuntimeInv, TypeOK
<1>2. /\ r \in PluginSets /\ r.phase = ph /\ r.content = sets[i].content
      /\ r.accepted = sets[i].accepted /\ r.ran = sets[i].ran
  BY <1>1 DEF PluginSets
<1>3. sets' = [sets EXCEPT ![i] = r]
  OBVIOUS
<1> HIDE DEF r
<1>4. /\ sets' \in Seq(PluginSets) /\ Len(sets') = Len(sets)
      /\ \A s \in 1..Len(sets) : sets'[s] = IF s = i THEN r ELSE sets[s]
  BY <1>1, <1>2, <1>3, OneSetChanges
<1> QED
  BY <1>2, <1>4

(* The sets that reloads own are different from one another and from the   *)
(* active one.                                                             *)
LEMMA Disjoint ==
  ASSUME RuntimeInv, NEW t \in Reloaders
  PROVE  /\ fresh[t] # 0 => /\ fresh[t] # active
                            /\ \A u \in Reloaders : old[u] # fresh[t]
                            /\ \A u \in Reloaders : u # t => fresh[u] # fresh[t]
         /\ old[t] # 0 => /\ old[t] # active
                          /\ \A u \in Reloaders : fresh[u] # old[t]
                          /\ \A u \in Reloaders : u # t => old[u] # old[t]
<1>1. OwnersPhase /\ Apart
  BY DEF RuntimeInv, Ownership
<1>2. active # 0
  BY Indices
<1>3. ASSUME fresh[t] # 0
      PROVE  /\ fresh[t] # active
             /\ \A u \in Reloaders : old[u] # fresh[t]
             /\ \A u \in Reloaders : u # t => fresh[u] # fresh[t]
  BY <1>1, <1>3 DEF OwnersPhase, Apart
<1>4. ASSUME old[t] # 0
      PROVE  /\ old[t] # active
             /\ \A u \in Reloaders : fresh[u] # old[t]
             /\ \A u \in Reloaders : u # t => old[u] # old[t]
  BY <1>1, <1>4 DEF OwnersPhase, Apart
<1> QED
  BY <1>3, <1>4

(* A failed reload destroys its fresh set. *)
LEMMA AbandonKeeps ==
  ASSUME RuntimeInv, NEW t \in Reloaders, Abandon(t)
  PROVE  RuntimeInv'
<1> DEFINE i == fresh[t]
<1>1. i # 0 /\ i \in 1..Len(sets) /\ pc[t] = "load"
  <2>1. i # 0 /\ pc[t] = "load"
    BY DEF Abandon, RuntimeInv, Locals
  <2> QED
    BY <2>1, Indices
<1>2. /\ sets' \in Seq(PluginSets) /\ Len(sets') = Len(sets)
      /\ \A s \in 1..Len(sets) :
           /\ s # i => sets'[s] = sets[s]
           /\ sets'[s].phase = IF s = i THEN "gone" ELSE sets[s].phase
           /\ sets'[s].content = sets[s].content
           /\ sets'[s].accepted = sets[s].accepted /\ sets'[s].ran = sets[s].ran
  <2>1. sets' = [sets EXCEPT ![i].phase = "gone"]
    BY DEF Abandon
  <2> HIDE DEF i
  <2> QED
    BY <1>1, <2>1, PhaseChanges
<1>3. /\ UNCHANGED <<active, old, next, errors, caller, holds>>
      /\ fresh' = [fresh EXCEPT ![t] = 0]
  BY DEF Abandon, calls
<1>4. PICK w \in {"failed", "wait", "idle"} : pc' = [pc EXCEPT ![t] = w] /\ (t = "boot" => w = "failed")
  BY DEF Abandon, Reloaders
<1>5. /\ fresh \in [Reloaders -> 0..Len(sets)] /\ old \in [Reloaders -> 0..Len(sets)]
      /\ pc \in [Reloaders -> Pcs] /\ next \in [Reloaders -> 0..(NPlugins + 1)]
  BY DEF RuntimeInv, TypeOK, Pcs
<1>6. /\ fresh'[t] = 0 /\ pc'[t] = w
      /\ \A u \in Reloaders : u # t => fresh'[u] = fresh[u] /\ pc'[u] = pc[u]
  BY <1>3, <1>4, <1>5
<1>7. /\ i # active /\ active \in 1..Len(sets)
      /\ \A u \in Reloaders : /\ old[u] # i
                              /\ u # t => fresh[u] # i
                              /\ fresh[u] # 0 => fresh[u] \in 1..Len(sets)
                              /\ old[u] # 0 => old[u] \in 1..Len(sets)
  BY <1>1, Disjoint, Indices
<1>8. sets[i].phase = "loading"
  BY <1>1 DEF RuntimeInv, Ownership, OwnersPhase
<1> HIDE DEF i
<1>9. Threads'
  <2>1. stopper' = stopper
    BY DEF Abandon
  <2>2. pc["boot"] \notin {"cold", "up"} \/ t # "boot"
    BY <1>1
  <2> QED
    BY <1>1, <1>4, <1>6, <2>1 DEF RuntimeInv, Threads, Reloaders
<1>10. TypeOK'
  <2>1. pc' \in [Reloaders -> Pcs] /\ fresh' \in [Reloaders -> 0..Len(sets)]
    BY <1>3, <1>4, <1>5, Indices DEF Pcs
  <2>2. state' \in States
    BY DEF Abandon, RuntimeInv, TypeOK, States
  <2> QED
    BY <1>2, <2>1, <2>2 DEF Abandon, RuntimeInv, TypeOK, Pcs, watch, hooks, calls
<1>11. Locals'
  BY <1>1, <1>3, <1>6 DEF RuntimeInv, Locals
<1>12. OwnersPhase'
  <2>1. sets'[active'].phase \in {"live", "stopped"}
    BY <1>2, <1>3, <1>7 DEF RuntimeInv, Ownership, OwnersPhase
  <2>2. ASSUME NEW u \in Reloaders, fresh'[u] # 0 PROVE sets'[fresh'[u]].phase = "loading"
    <3>1. u # t /\ fresh'[u] = fresh[u] /\ fresh[u] # 0
      BY <1>6, <2>2
    <3>2. sets'[fresh[u]] = sets[fresh[u]]
      BY <1>2, <1>7, <3>1
    <3> QED
      BY <3>1, <3>2 DEF RuntimeInv, Ownership, OwnersPhase
  <2>3. ASSUME NEW u \in Reloaders, old'[u] # 0 PROVE sets'[old'[u]].phase = "draining"
    <3>1. old'[u] = old[u] /\ sets'[old[u]] = sets[old[u]]
      BY <1>2, <1>3, <1>7, <2>3
    <3> QED
      BY <2>3, <3>1 DEF RuntimeInv, Ownership, OwnersPhase
  <2> QED
    BY <2>1, <2>2, <2>3 DEF OwnersPhase
<1>13. Apart'
  BY <1>3, <1>6 DEF RuntimeInv, Ownership, Apart
<1>14. Owned'
  <2> SUFFICES ASSUME NEW s \in 1..Len(sets), s # i
               PROVE  \/ sets'[s].phase = "gone" \/ s = active'
                      \/ \E u \in Reloaders : fresh'[u] = s \/ old'[u] = s
    BY <1>2 DEF Owned
  <2>1. \A u \in Reloaders : fresh[u] = s => fresh'[u] = s
    BY <1>6 DEF i
  <2> QED
    BY <1>2, <1>3, <2>1 DEF RuntimeInv, Ownership, Owned
<1>15. Work'
  <2>1. ASSUME NEW s \in 1..Len(sets), sets'[s].phase \in {"gone", "loading"}
        PROVE  sets'[s].accepted = sets'[s].ran
    <3>1. sets[s].phase \in {"gone", "loading"}
      BY <1>2, <1>8, <2>1
    <3> QED
      BY <1>2, <3>1 DEF RuntimeInv, Work
  <2> QED
    BY <1>2, <1>3, <2>1 DEF RuntimeInv, Work
<1>16. Transactional'
  BY <1>2, <1>3, <1>7 DEF RuntimeInv, Transactional, Complete
<1>17. LoadedSoFar'
  <2> SUFFICES ASSUME NEW u \in Reloaders, fresh'[u] # 0
               PROVE  \A p \in Plugins : p < next[u] =>
                        /\ sets'[fresh'[u]].content[p] \in Versions
                        /\ ~errors[u] => sets'[fresh'[u]].content[p] \notin BadEdits
    BY <1>3 DEF LoadedSoFar
  <2>1. u # t /\ fresh'[u] = fresh[u] /\ fresh[u] # 0
    BY <1>6
  <2>2. sets'[fresh[u]] = sets[fresh[u]]
    BY <1>2, <1>7, <2>1
  <2> QED
    BY <2>1, <2>2 DEF RuntimeInv, LoadedSoFar
<1> QED
  BY <1>9, <1>10, <1>11, <1>12, <1>13, <1>14, <1>15, <1>16, <1>17 DEF RuntimeInv, Ownership

(* The old set has run what it accepted, and is destroyed. *)
LEMMA DestroyKeeps ==
  ASSUME RuntimeInv, NEW t \in Reloaders, Destroy(t)
  PROVE  RuntimeInv'
<1> DEFINE i == old[t]
<1>1. i # 0 /\ i \in 1..Len(sets) /\ pc[t] = "destroy"
  <2>1. i # 0 /\ pc[t] = "destroy"
    BY DEF Destroy, RuntimeInv, Locals
  <2> QED
    BY <2>1, Indices
<1>2. /\ sets' \in Seq(PluginSets) /\ Len(sets') = Len(sets)
      /\ \A s \in 1..Len(sets) :
           /\ s # i => sets'[s] = sets[s]
           /\ sets'[s].phase = IF s = i THEN "gone" ELSE sets[s].phase
           /\ sets'[s].content = sets[s].content
           /\ sets'[s].accepted = sets[s].accepted /\ sets'[s].ran = sets[s].ran
  <2>1. sets' = [sets EXCEPT ![i].phase = "gone"]
    BY DEF Destroy
  <2> HIDE DEF i
  <2> QED
    BY <1>1, <2>1, PhaseChanges
<1>3. /\ UNCHANGED <<active, fresh, next, errors, caller, holds>>
      /\ old' = [old EXCEPT ![t] = 0]
  BY DEF Destroy, calls
<1>4. PICK w \in {"install", "wait", "idle"} : pc' = [pc EXCEPT ![t] = w] /\ (t = "boot" => w = "install")
  BY DEF Destroy, Reloaders
<1>5. /\ fresh \in [Reloaders -> 0..Len(sets)] /\ old \in [Reloaders -> 0..Len(sets)]
      /\ pc \in [Reloaders -> Pcs]
  BY DEF RuntimeInv, TypeOK, Pcs
<1>6. /\ old'[t] = 0 /\ pc'[t] = w
      /\ \A u \in Reloaders : u # t => old'[u] = old[u] /\ pc'[u] = pc[u]
  BY <1>3, <1>4, <1>5
<1>7. /\ i # active /\ active \in 1..Len(sets)
      /\ \A u \in Reloaders : /\ fresh[u] # i
                              /\ u # t => old[u] # i
                              /\ fresh[u] # 0 => fresh[u] \in 1..Len(sets)
                              /\ old[u] # 0 => old[u] \in 1..Len(sets)
  BY <1>1, Disjoint, Indices
<1>8. sets[i].ran = sets[i].accepted
  BY DEF Destroy, Drained
<1> HIDE DEF i
<1>9. Threads'
  <2>1. stopper' = stopper
    BY DEF Destroy
  <2>2. t = "boot" => stopper = "none" /\ pc["watcher"] = "off"
    BY <1>1 DEF RuntimeInv, Threads
  <2> QED
    BY <1>1, <1>4, <1>6, <2>1, <2>2 DEF RuntimeInv, Threads, Reloaders
<1>10. TypeOK'
  <2>1. pc' \in [Reloaders -> Pcs] /\ old' \in [Reloaders -> 0..Len(sets)]
    BY <1>3, <1>4, <1>5, Indices DEF Pcs
  <2> QED
    BY <1>2, <2>1 DEF Destroy, RuntimeInv, TypeOK, Pcs, watch, hooks, calls
<1>11. Locals'
  BY <1>3, <1>6, <1>1 DEF RuntimeInv, Locals
<1>12. OwnersPhase'
  <2>1. sets'[active'].phase \in {"live", "stopped"}
    BY <1>2, <1>3, <1>7 DEF RuntimeInv, Ownership, OwnersPhase
  <2>2. ASSUME NEW u \in Reloaders, fresh'[u] # 0 PROVE sets'[fresh'[u]].phase = "loading"
    <3>1. fresh'[u] = fresh[u] /\ sets'[fresh[u]] = sets[fresh[u]]
      BY <1>2, <1>3, <1>7, <2>2
    <3> QED
      BY <2>2, <3>1 DEF RuntimeInv, Ownership, OwnersPhase
  <2>3. ASSUME NEW u \in Reloaders, old'[u] # 0 PROVE sets'[old'[u]].phase = "draining"
    <3>1. u # t /\ old'[u] = old[u] /\ old[u] # 0
      BY <1>6, <2>3
    <3>2. sets'[old[u]] = sets[old[u]]
      BY <1>2, <1>7, <3>1
    <3> QED
      BY <3>1, <3>2 DEF RuntimeInv, Ownership, OwnersPhase
  <2> QED
    BY <2>1, <2>2, <2>3 DEF OwnersPhase
<1>13. Apart'
  BY <1>3, <1>6 DEF RuntimeInv, Ownership, Apart
<1>14. Owned'
  <2> SUFFICES ASSUME NEW s \in 1..Len(sets), s # i
               PROVE  \/ sets'[s].phase = "gone" \/ s = active'
                      \/ \E u \in Reloaders : fresh'[u] = s \/ old'[u] = s
    BY <1>2 DEF Owned
  <2>1. \A u \in Reloaders : old[u] = s => old'[u] = s
    BY <1>6 DEF i
  <2> QED
    BY <1>2, <1>3, <2>1 DEF RuntimeInv, Ownership, Owned
<1>15. Work'
  <2>1. ASSUME NEW s \in 1..Len(sets), sets'[s].phase \in {"gone", "loading"}
        PROVE  sets'[s].accepted = sets'[s].ran
    <3>1. sets[s].phase \in {"gone", "loading"} \/ s = i
      BY <1>2, <2>1
    <3> QED
      BY <1>2, <1>8, <3>1 DEF RuntimeInv, Work
  <2> QED
    BY <1>2, <1>3, <2>1 DEF RuntimeInv, Work
<1>16. LoadedSoFar' /\ Transactional'
  BY <1>2, <1>3, ContentKept
<1> QED
  BY <1>9, <1>10, <1>11, <1>12, <1>13, <1>14, <1>15, <1>16 DEF RuntimeInv, Ownership

(* The swap: the fresh set becomes the active one, the active one the      *)
(* reload's old.  Nobody is inside a call.                                 *)
LEMMA CommitKeeps ==
  ASSUME RuntimeInv, NEW t \in Reloaders, Commit(t)
  PROVE  RuntimeInv'
<1> DEFINE i == fresh[t]
           a == active
           q == [sets[a] EXCEPT !.phase = "draining"]
           r == [sets[i] EXCEPT !.phase = "live"]
<1>1. /\ i # 0 /\ i \in 1..Len(sets) /\ pc[t] = "load" /\ old[t] = 0 /\ a \in 1..Len(sets)
      /\ a # 0 /\ i # a
  <2>1. i # 0 /\ pc[t] = "load" /\ old[t] = 0
    BY DEF Commit, RuntimeInv, Locals
  <2> QED
    BY <2>1, Indices, Disjoint
<1>2. sets[i] \in PluginSets /\ sets[a] \in PluginSets /\ sets \in Seq(PluginSets)
  BY <1>1 DEF RuntimeInv, TypeOK
<1>3. /\ q \in PluginSets /\ q.phase = "draining" /\ q.content = sets[a].content
      /\ r \in PluginSets /\ r.phase = "live" /\ r.content = sets[i].content
  BY <1>2 DEF PluginSets
<1>4. sets' = [sets EXCEPT ![a] = q, ![i] = r]
  BY <1>1, <1>2 DEF Commit
<1>5. /\ active' = i /\ old' = [old EXCEPT ![t] = a] /\ fresh' = [fresh EXCEPT ![t] = 0]
      /\ pc' = [pc EXCEPT ![t] = "destroy"] /\ UNCHANGED <<next, errors, caller, holds, stopper>>
      /\ next[t] > NPlugins /\ ~errors[t] /\ \A c \in Callers : caller[c] # "locked"
  BY DEF Commit, Replaced, MayCommit, NobodyInside, calls
<1> HIDE DEF q, r
<1>6. /\ sets' \in Seq(PluginSets) /\ Len(sets') = Len(sets)
      /\ sets'[a] = q /\ sets'[i] = r
      /\ \A s \in 1..Len(sets) : s \notin {a, i} => sets'[s] = sets[s]
  <2>1. sets' = [[sets EXCEPT ![a] = q] EXCEPT ![i] = r]
    BY <1>4
  <2>2. /\ [sets EXCEPT ![a] = q] \in Seq(PluginSets)
        /\ Len([sets EXCEPT ![a] = q]) = Len(sets)
    BY <1>1, <1>2, <1>3
  <2> HIDE DEF i, a
  <2> QED
    BY <1>1, <1>2, <1>3, <2>1, <2>2
<1>7. /\ fresh \in [Reloaders -> 0..Len(sets)] /\ old \in [Reloaders -> 0..Len(sets)]
      /\ pc \in [Reloaders -> Pcs]
  BY DEF RuntimeInv, TypeOK, Pcs
<1>8. /\ fresh'[t] = 0 /\ old'[t] = a /\ pc'[t] = "destroy"
      /\ \A u \in Reloaders : u # t => fresh'[u] = fresh[u] /\ old'[u] = old[u] /\ pc'[u] = pc[u]
  BY <1>5, <1>7
<1>9. \A u \in Reloaders : /\ old[u] # i /\ (u # t => fresh[u] # i)
                           /\ fresh[u] # a /\ old[u] # a
                           /\ fresh[u] # 0 => fresh[u] \in 1..Len(sets)
                           /\ old[u] # 0 => old[u] \in 1..Len(sets)
  BY <1>1, Disjoint, Indices
<1>10. TypeOK' 
  <2>1. /\ pc' \in [Reloaders -> Pcs] /\ fresh' \in [Reloaders -> 0..Len(sets)]
        /\ old' \in [Reloaders -> 0..Len(sets)]
    BY <1>1, <1>5, <1>7, Indices DEF Pcs
  <2> QED
    BY <1>1, <1>5, <1>6, <2>1 DEF Commit, RuntimeInv, TypeOK, Pcs, watch, hooks, calls
<1> HIDE DEF i, a
<1>11. Threads'
  <2>1. t = "boot" => stopper = "none" /\ pc["watcher"] = "off"
    BY <1>1 DEF RuntimeInv, Threads
  <2> QED
    BY <1>1, <1>5, <1>8, <2>1 DEF RuntimeInv, Threads, Reloaders
<1>12. Locals'
  BY <1>1, <1>5, <1>8 DEF RuntimeInv, Locals
<1>13. OwnersPhase'
  <2>1. sets'[active'].phase \in {"live", "stopped"}
    BY <1>3, <1>5, <1>6
  <2>2. ASSUME NEW u \in Reloaders, fresh'[u] # 0 PROVE sets'[fresh'[u]].phase = "loading"
    <3>1. u # t /\ fresh'[u] = fresh[u] /\ fresh[u] # 0
      BY <1>8, <2>2
    <3>2. sets'[fresh[u]] = sets[fresh[u]]
      BY <1>6, <1>9, <3>1
    <3> QED
      BY <3>1, <3>2 DEF RuntimeInv, Ownership, OwnersPhase
  <2>3. ASSUME NEW u \in Reloaders, u # t, old'[u] # 0 PROVE sets'[old'[u]].phase = "draining"
    <3>1. old'[u] = old[u] /\ old[u] # 0
      BY <1>8, <2>3
    <3>2. sets'[old[u]] = sets[old[u]]
      BY <1>6, <1>9, <3>1
    <3> QED
      BY <3>1, <3>2 DEF RuntimeInv, Ownership, OwnersPhase
  <2>4. sets'[old'[t]].phase = "draining"
    BY <1>3, <1>6, <1>8
  <2> QED
    BY <2>1, <2>2, <2>3, <2>4 DEF OwnersPhase
<1>14. Apart'
  BY <1>8, <1>9 DEF RuntimeInv, Ownership, Apart
<1>15. Owned'
  <2> SUFFICES ASSUME NEW s \in 1..Len(sets), s \notin {a, i}
               PROVE  \/ sets'[s].phase = "gone"
                      \/ \E u \in Reloaders : fresh'[u] = s \/ old'[u] = s
    BY <1>5, <1>6, <1>8 DEF Owned
  <2>1. \A u \in Reloaders : /\ fresh[u] = s => fresh'[u] = s
                             /\ old[u] = s => u # t
    BY <1>1, <1>8 DEF i
  <2> QED
    BY <1>6, <1>8, <2>1 DEF RuntimeInv, Ownership, Owned, a
<1>16. Work'
  BY <1>3, <1>5, <1>6 DEF RuntimeInv, Work
<1>17. Transactional'
  <2>1. \A p \in Plugins : p < next[t]
    BY <1>5, RuntimeAssumptions DEF Plugins, RuntimeInv, TypeOK
  <2>2. \A p \in Plugins : sets[i].content[p] \in Versions \ BadEdits
    BY <1>1, <1>5, <2>1 DEF RuntimeInv, LoadedSoFar, i
  <2> QED
    BY <1>3, <1>5, <1>6, <2>2 DEF Transactional, Complete
<1>18. LoadedSoFar'
  <2> SUFFICES ASSUME NEW u \in Reloaders, fresh'[u] # 0
               PROVE  \A p \in Plugins : p < next[u] =>
                        /\ sets'[fresh'[u]].content[p] \in Versions
                        /\ ~errors[u] => sets'[fresh'[u]].content[p] \notin BadEdits
    BY <1>5 DEF LoadedSoFar
  <2>1. u # t /\ fresh'[u] = fresh[u] /\ fresh[u] # 0
    BY <1>8
  <2>2. sets'[fresh[u]] = sets[fresh[u]]
    BY <1>6, <1>9, <2>1
  <2> QED
    BY <2>1, <2>2 DEF RuntimeInv, LoadedSoFar
<1> QED
  BY <1>10, <1>11, <1>12, <1>13, <1>14, <1>15, <1>16, <1>17, <1>18 DEF RuntimeInv, Ownership

-----------------------------------------------------------------------------
(* A call checks state_, takes the shared lock, and is routed. *)
LEMMA CallCheckKeeps ==
  ASSUME RuntimeInv, NEW c \in Callers, CallCheck(c)
  PROVE  RuntimeInv'
<1>1. /\ UNCHANGED <<sets, active, pc, fresh, old, next, errors, holds, stopper>>
      /\ caller' = [caller EXCEPT ![c] = "checked"]
      /\ caller \in [Callers -> {"out", "checked", "locked"}]
  BY DEF CallCheck, local, RuntimeInv, TypeOK
<1>2. TypeOK'
  <2>1. requests' \in 0..MaxRequests
    BY RuntimeAssumptions DEF CallCheck, RuntimeInv, TypeOK
  <2> QED
    BY <1>1, <2>1 DEF CallCheck, RuntimeInv, TypeOK, watch, hooks, local
<1>3. Threads' /\ Locals' /\ Ownership'
  BY <1>1 DEF RuntimeInv, Threads, Locals, Ownership, OwnersPhase, Apart, Owned
<1>4. LoadedSoFar' /\ Transactional'
  BY <1>1 DEF RuntimeInv, LoadedSoFar, Transactional, Complete
<1>5. Work'
  BY <1>1 DEF RuntimeInv, Work
<1> QED
  BY <1>2, <1>3, <1>4, <1>5 DEF RuntimeInv

LEMMA CallLockKeeps ==
  ASSUME RuntimeInv, NEW c \in Callers, CallLock(c)
  PROVE  RuntimeInv'
<1>1. /\ UNCHANGED <<sets, active, pc, fresh, old, next, errors, stopper>>
      /\ caller' = [caller EXCEPT ![c] = "locked"] /\ holds' = [holds EXCEPT ![c] = active]
      /\ caller \in [Callers -> {"out", "checked", "locked"}]
      /\ holds \in [Callers -> 0..Len(sets)] /\ active \in 1..Len(sets)
  BY DEF CallLock, local, RuntimeInv, TypeOK
<1>2. TypeOK'
  <2>1. holds' \in [Callers -> 0..Len(sets)]
    BY <1>1, Indices
  <2> QED
    BY <1>1, <2>1 DEF CallLock, RuntimeInv, TypeOK, watch, hooks, local
<1>3. Threads' /\ Locals' /\ Ownership'
  BY <1>1 DEF RuntimeInv, Threads, Locals, Ownership, OwnersPhase, Apart, Owned
<1>4. LoadedSoFar' /\ Transactional'
  BY <1>1 DEF RuntimeInv, LoadedSoFar, Transactional, Complete
<1>5. Work'
  BY <1>1 DEF RuntimeInv, Work
<1> QED
  BY <1>2, <1>3, <1>4, <1>5 DEF RuntimeInv

LEMMA CallDispatchKeeps ==
  ASSUME RuntimeInv, NEW c \in Callers, NEW accept \in BOOLEAN, CallDispatch(c, accept)
  PROVE  RuntimeInv'
<1> DEFINE r == [sets[active] EXCEPT !.accepted = @ + 1]
<1>1. /\ UNCHANGED <<active, pc, fresh, old, next, errors, stopper>>
      /\ caller' = [caller EXCEPT ![c] = "out"] /\ holds' = [holds EXCEPT ![c] = 0]
      /\ caller \in [Callers -> {"out", "checked", "locked"}]
      /\ holds \in [Callers -> 0..Len(sets)] /\ active \in 1..Len(sets)
      /\ Len(sets) \in Nat
  BY DEF CallDispatch, local, RuntimeInv, TypeOK
<1>2. holds[c] = active
  BY DEF CallDispatch, RuntimeInv, Work
<1>3. sets[active] \in PluginSets /\ sets \in Seq(PluginSets)
  BY DEF RuntimeInv, TypeOK
<1>4. r \in PluginSets /\ r.phase = sets[active].phase /\ r.content = sets[active].content
  <2>1. sets[active].accepted \in Nat /\ sets[active].accepted + 1 \in Nat
    BY <1>3 DEF PluginSets
  <2>2. r = [sets[active] EXCEPT !.accepted = sets[active].accepted + 1]
    BY <1>3 DEF PluginSets
  <2> QED
    BY <1>3, <2>1, <2>2 DEF PluginSets
<1>5. sets' = IF accept THEN [sets EXCEPT ![active] = r] ELSE sets
  <2>1. sets' = IF accept THEN [sets EXCEPT ![active].accepted = @ + 1] ELSE sets
    BY <1>2 DEF CallDispatch
  <2> QED
    BY <1>1, <1>3, <2>1
<1> HIDE DEF r
<1>6. /\ sets' \in Seq(PluginSets) /\ Len(sets') = Len(sets)
      /\ \A s \in 1..Len(sets) :
           /\ s # active => sets'[s] = sets[s]
           /\ sets'[s].phase = sets[s].phase /\ sets'[s].content = sets[s].content
  <2>1. CASE accept
    <3>1. /\ sets' \in Seq(PluginSets) /\ Len(sets') = Len(sets)
          /\ \A s \in 1..Len(sets) : sets'[s] = IF s = active THEN r ELSE sets[s]
      BY <1>1, <1>3, <1>4, <1>5, <2>1, OneSetChanges
    <3> QED
      BY <1>4, <3>1
  <2>2. CASE ~accept
    BY <1>3, <1>5, <2>2
  <2> QED
    BY <2>1, <2>2
<1>7. TypeOK'
  <2>1. holds' \in [Callers -> 0..Len(sets)]
    BY <1>1
  <2> QED
    BY <1>1, <1>6, <2>1 DEF CallDispatch, RuntimeInv, TypeOK, watch, hooks, local
<1>8. Threads' /\ Locals'
  BY <1>1 DEF RuntimeInv, Threads, Locals
<1>9. Ownership'
  <2>1. UNCHANGED <<active, fresh, old>> /\ \A s \in 1..Len(sets) : sets'[s].phase = sets[s].phase
    BY <1>1, <1>6
  <2> QED
    BY <1>6, <2>1, OwnershipKept
<1>10. LoadedSoFar' /\ Transactional'
  BY <1>1, <1>6, ContentKept
<1>11. Work'
  <2>1. sets[active].phase \in {"live", "stopped"}
    BY DEF RuntimeInv, Ownership, OwnersPhase
  <2>2. \A s \in 1..Len(sets) :
          sets'[s].phase \in {"gone", "loading"} => sets'[s].accepted = sets'[s].ran
    BY <1>6, <2>1 DEF RuntimeInv, Work
  <2> QED
    BY <1>1, <1>6, <2>2 DEF RuntimeInv, Work
<1> QED
  BY <1>7, <1>8, <1>9, <1>10, <1>11 DEF RuntimeInv

-----------------------------------------------------------------------------
LEMMA StepKeeps == RuntimeInv /\ [Next]_vars => RuntimeInv'
<1> SUFFICES ASSUME RuntimeInv, [Next]_vars PROVE RuntimeInv'
  OBVIOUS
<1>1. ASSUME NEW p \in Plugins, Edit(p) PROVE RuntimeInv'
  BY <1>1, EditKeeps
<1>2. ASSUME NEW t \in Reloaders, Reloading(t) PROVE RuntimeInv'
  BY <1>2, LoadPluginKeeps, AbandonKeeps, CommitKeeps, DestroyKeeps DEF Reloading
<1>3. ASSUME NEW s \in 1..Len(sets), RunCallback(s) PROVE RuntimeInv'
  BY <1>3, RunCallbackKeeps
<1>4. CASE Starting
  BY <1>4, StartKeeps, BeginsKeep, StopsActiveKeep DEF Starting
<1>5. CASE Watching
  BY <1>5, WatchKeeps, BeginsKeep DEF Watching
<1>6. CASE ControlReload
  BY <1>6, BeginsKeep
<1>7. ASSUME NEW c \in Callers, CallCheck(c) \/ Calling(c) PROVE RuntimeInv'
  BY <1>7, CallCheckKeeps, CallLockKeeps, CallDispatchKeeps DEF Calling
<1>8. CASE StopBegin
  BY <1>8, StopKeeps
<1>9. CASE Stopping
  BY <1>9, StopKeeps, StopsActiveKeep DEF Stopping
<1>10. CASE UNCHANGED vars
  <2>1. TypeOK' /\ Threads'
    BY <1>10 DEF RuntimeInv, TypeOK, Threads, vars, local, watch, hooks, calls
  <2> QED
    BY <1>10, <2>1, QuietKeeps DEF vars, calls, QuietReloads
<1> QED
  BY <1>1, <1>2, <1>3, <1>4, <1>5, <1>6, <1>7, <1>8, <1>9, <1>10 DEF Next

LEMMA RuntimeInvariant == Spec => []RuntimeInv
BY InitHolds, StepKeeps, PTL DEF Spec

(***************************************************************************)
(* state_, plugin_set_, reload_plugins' locals and the watcher's time      *)
(* stamps keep their types: in particular every index a thread holds is a  *)
(* set that was created.                                                   *)
(***************************************************************************)
THEOREM TypeCorrect == Spec => []TypeOK
<1>1. RuntimeInv => TypeOK
  BY DEF RuntimeInv
<1> QED
  BY <1>1, RuntimeInvariant, PTL

(***************************************************************************)
(* Reloads are transactional: the set that reload_plugins swaps in has     *)
(* every plugin, each one loaded from a version without errors, however    *)
(* many plugins there are and however edits and other reloads interleave.  *)
(***************************************************************************)
THEOREM TransactionalHolds == Spec => []Transactional
<1>1. RuntimeInv => Transactional
  BY DEF RuntimeInv
<1> QED
  BY <1>1, RuntimeInvariant, PTL

(***************************************************************************)
(* A call under the shared plugins_mu_ uses a set that no reload is        *)
(* destroying.                                                             *)
(***************************************************************************)
THEOREM CallsLiveSetHolds == Spec => []CallsLiveSet
<1>1. RuntimeInv => CallsLiveSet
  BY DEF RuntimeInv, CallsLiveSet, Work, Ownership, OwnersPhase
<1> QED
  BY <1>1, RuntimeInvariant, PTL

(***************************************************************************)
(* A set that is destroyed has run every callback it accepted, also the    *)
(* fresh set of a reload that fails.                                       *)
(***************************************************************************)
THEOREM DestroyedDrainedHolds == Spec => []DestroyedDrained
<1>1. RuntimeInv => DestroyedDrained
  BY DEF RuntimeInv, DestroyedDrained, Work
<1> QED
  BY <1>1, RuntimeInvariant, PTL

(***************************************************************************)
(* Of plugin_set_ and the fresh and old of three threads exactly one owns  *)
(* a set that is not gone, and none a set that is: std::move in            *)
(* reload_plugins neither leaks a set nor destroys one twice.              *)
(***************************************************************************)
THEOREM OneOwnerHolds == Spec => []OneOwner
<1>1. ASSUME RuntimeInv PROVE OneOwner
  <2> SUFFICES ASSUME NEW s \in 1..Len(sets)
               PROVE  Cardinality(Owners(s)) = IF sets[s].phase = "gone" THEN 0 ELSE 1
    BY DEF OneOwner
  <2>1. s # 0 /\ Ownership
    BY <1>1 DEF RuntimeInv
  <2>2. CASE sets[s].phase = "gone"
    <3>1. s # active /\ \A t \in Reloaders : fresh[t] # s /\ old[t] # s
      BY <2>1, <2>2 DEF Ownership, OwnersPhase
    <3>2. Owners(s) = {}
      BY <3>1 DEF Owners
    <3> QED
      BY <2>2, <3>2, FS_EmptySet
  <2>3. CASE sets[s].phase # "gone"
    <3>1. CASE s = active
      <4>1. \A t \in Reloaders : fresh[t] # s /\ old[t] # s
        BY <2>1, <3>1 DEF Ownership, OwnersPhase
      <4>2. Owners(s) = {<<"active", "runtime">>}
        BY <3>1, <4>1 DEF Owners
      <4> QED
        BY <2>3, <4>2, FS_Singleton
    <3>2. ASSUME NEW t \in Reloaders, fresh[t] = s
          PROVE  Cardinality(Owners(s)) = 1
      <4>1. s # active /\ \A u \in Reloaders : old[u] # s /\ (u # t => fresh[u] # s)
        BY <1>1, <2>1, <3>2, Disjoint
      <4>2. Owners(s) = {<<"fresh", t>>}
        BY <3>2, <4>1 DEF Owners
      <4> QED
        BY <4>2, FS_Singleton
    <3>3. ASSUME NEW t \in Reloaders, old[t] = s
          PROVE  Cardinality(Owners(s)) = 1
      <4>1. s # active /\ \A u \in Reloaders : fresh[u] # s /\ (u # t => old[u] # s)
        BY <1>1, <2>1, <3>3, Disjoint
      <4>2. Owners(s) = {<<"old", t>>}
        BY <3>3, <4>1 DEF Owners
      <4> QED
        BY <4>2, FS_Singleton
    <3> QED
      BY <2>1, <2>3, <3>1, <3>2, <3>3 DEF Ownership, Owned
  <2> QED
    BY <2>2, <2>3
<1> QED
  BY <1>1, RuntimeInvariant, PTL
=============================================================================
