------------------------------ MODULE Runtime ------------------------------
(***************************************************************************)
(* palmod::Runtime (native/src/runtime.cpp): start, stop, the plugin set   *)
(* and everything that replaces or uses it.  reload_plugins runs on three  *)
(* threads: the bootstrap thread, the plugin-watch thread (1 s mtime poll) *)
(* and the control thread (plugins.reload).  It builds a fresh PluginSet   *)
(* without any lock, plugin by plugin, swaps it in under the unique        *)
(* plugins_mu_, and destroys the old one, which waits for the callbacks it *)
(* has accepted.  The game thread (on_chat, deliver_event) and the control *)
(* thread (command.invoke) use the active set under the shared plugins_mu_.*)
(*                                                                         *)
(* A plugin's files are one version number: the edit that produced them,   *)
(* which is also their mtime (edits get strictly increasing mtimes).  What *)
(* a plugin instance promises (PluginInstance) is used here: a stopped set *)
(* has joined its workers once everything it accepted has run.             *)
(***************************************************************************)
EXTENDS Naturals, Sequences, FiniteSets

CONSTANTS
  NPlugins,         \* plugins in the directory, in the order they load
  MaxEdits,         \* bound: edits of plugin files
  MaxReloads,       \* bound: plugins.reload requests
  MaxRequests,      \* bound: chat lines, events and command.invoke requests
  BadEdits,         \* the edits after which the plugin does not load
  Kinds,            \* function names plugins can pass to palmod.hook
  HooksOf,          \* the kinds that each version of a plugin subscribes to
  EditDuringStart   \* whether files are edited before the watcher's first scan

Plugins == 1..NPlugins
Versions == 0..MaxEdits

ASSUME RuntimeAssumptions ==
  /\ NPlugins \in Nat \ {0}
  /\ MaxEdits \in Nat /\ MaxReloads \in Nat /\ MaxRequests \in Nat
  /\ BadEdits \subseteq Versions \ {0}
  /\ HooksOf \in [Versions -> SUBSET Kinds]
  /\ EditDuringStart \in BOOLEAN

Reloaders == {"boot", "watcher", "control"}
Callers == {"game", "control"}
Unread == MaxEdits + 1   \* a plugin the set has not loaded

VARIABLES
  state,      \* state_
  disk,       \* the version of each plugin's files
  edits,      \* the number of edits made: the newest mtime
  sets,       \* every PluginSet created: its plugins' versions, phase and work
  active,     \* plugin_set_
  pc,         \* where each reloader thread is
  fresh, old, \* reload_plugins' locals
  next,       \* load_directory_report's position
  errors,     \* whether its report has errors
  last,       \* the watcher's last
  scan,       \* newest_mtime: the plugins still to stat
  newest,     \* newest_mtime's local
  watchStop,  \* plugin_watch_stop_
  hooked,     \* the kinds with a generic hook installed
  unhooked,   \* whether hooks_->uninstall() has run
  caller,     \* where each calling thread is in on_chat / command.invoke
  holds,      \* the set a caller uses under the shared lock
  stopper,    \* the thread in stop()
  reloads, requests   \* how much of the bounds is used

watch == <<last, scan, newest, watchStop>>
local == <<fresh, old, next, errors>>
hooks == <<hooked, unhooked>>
calls == <<caller, holds, requests>>
vars == <<state, disk, edits, sets, active, pc, local, watch, hooks, calls,
          stopper, reloads>>

Empty == [content |-> [p \in Plugins |-> Unread], phase |-> "live",
          accepted |-> 0, ran |-> 0]

Init ==
  /\ state = "cold"
  /\ disk = [p \in Plugins |-> 0] /\ edits = 0
  /\ sets = <<Empty>> /\ active = 1
  /\ pc = [boot |-> "cold", watcher |-> "off", control |-> "off"]
  /\ fresh = [t \in Reloaders |-> 0] /\ old = [t \in Reloaders |-> 0]
  /\ next = [t \in Reloaders |-> 0] /\ errors = [t \in Reloaders |-> FALSE]
  /\ last = 0 /\ scan = {} /\ newest = 0 /\ watchStop = FALSE
  /\ hooked = {} /\ unhooked = FALSE
  /\ caller = [c \in Callers |-> "out"] /\ holds = [c \in Callers |-> 0]
  /\ stopper = "none"
  /\ reloads = 0 /\ requests = 0

-----------------------------------------------------------------------------
(* The operator saves a plugin's files. *)
Edit(p) ==
  /\ edits < MaxEdits
  /\ EditDuringStart \/ pc["watcher"] \notin {"off", "stat0"}
  /\ edits' = edits + 1
  /\ disk' = [disk EXCEPT ![p] = edits']
  /\ UNCHANGED <<state, sets, active, pc, local, watch, hooks, calls, stopper, reloads>>

-----------------------------------------------------------------------------
(* Mutants of MayCommit, NobodyInside, Drained and Replaced. *)
CommitAnyway(t) == TRUE
DoNotLock == TRUE
DoNotWait(s) == TRUE
NoSet == 0

(* report.ok() *)
MayCommit(t) == ~errors[t]

(* Nobody holds plugins_mu_ shared: the unique lock can be taken. *)
NobodyInside ==
  /\ \A c \in Callers : caller[c] # "locked"
  /\ stopper # "draining"

(* PluginRuntime::stop on set s has joined every worker. *)
Drained(s) == sets[s].ran = sets[s].accepted

(* What std::move(plugin_set_) hands to old. *)
Replaced == active

(* reload_plugins begins: a new set, nothing loaded yet. *)
BeginReload(t) ==
  /\ sets' = Append(sets, [Empty EXCEPT !.phase = "loading"])
  /\ fresh' = [fresh EXCEPT ![t] = Len(sets) + 1]
  /\ next' = [next EXCEPT ![t] = 1]
  /\ errors' = [errors EXCEPT ![t] = FALSE]
  /\ pc' = [pc EXCEPT ![t] = "load"]
  /\ UNCHANGED old

(* PluginManifest::load and the instance's start accept the plugin. *)
Loads(v) == v \notin BadEdits

(* load_directory_report: the next plugin in path order; a plugin that     *)
(* does not load is an error and the loop goes on.                         *)
LoadPlugin(t) ==
  /\ pc[t] = "load" /\ next[t] <= NPlugins
  /\ LET v == disk[next[t]]
     IN  /\ sets' = [sets EXCEPT ![fresh[t]].content[next[t]] = v]
         /\ errors' = [errors EXCEPT ![t] = @ \/ ~Loads(v)]
  /\ next' = [next EXCEPT ![t] = @ + 1]
  /\ UNCHANGED <<state, disk, edits, active, pc, fresh, old, watch, hooks, calls,
                 stopper, reloads>>

(* reload_plugins returns false: the fresh set is destroyed. *)
Abandon(t) ==
  /\ pc[t] = "load" /\ next[t] > NPlugins /\ ~MayCommit(t)
  /\ sets' = [sets EXCEPT ![fresh[t]].phase = "gone"]
  /\ fresh' = [fresh EXCEPT ![t] = 0]
  /\ pc' = [pc EXCEPT ![t] = CASE t = "boot" -> "failed"
                               [] t = "watcher" -> "wait"
                               [] t = "control" -> "idle"]
  /\ state' = IF t = "boot" THEN "failed" ELSE state
  /\ UNCHANGED <<disk, edits, active, old, next, errors, watch, hooks, calls,
                 stopper, reloads>>

(* The swap, under the unique lock. *)
Commit(t) ==
  /\ pc[t] = "load" /\ next[t] > NPlugins /\ MayCommit(t)
  /\ NobodyInside
  /\ active' = fresh[t]
  /\ old' = [old EXCEPT ![t] = Replaced]
  /\ fresh' = [fresh EXCEPT ![t] = 0]
  /\ sets' = [sets EXCEPT ![active].phase = "draining", ![fresh[t]].phase = "live"]
  /\ pc' = [pc EXCEPT ![t] = "destroy"]
  /\ UNCHANGED <<state, disk, edits, next, errors, watch, hooks, calls, stopper, reloads>>

(* old.reset() returns, and reload_plugins returns true. *)
Destroy(t) ==
  /\ pc[t] = "destroy" /\ Drained(old[t])
  /\ sets' = [sets EXCEPT ![old[t]].phase = "gone"]
  /\ old' = [old EXCEPT ![t] = 0]
  /\ pc' = [pc EXCEPT ![t] = CASE t = "boot" -> "install"
                               [] t = "watcher" -> "wait"
                               [] t = "control" -> "idle"]
  /\ UNCHANGED <<state, disk, edits, active, fresh, next, errors, watch, hooks, calls,
                 stopper, reloads>>

(* A worker of set s finishes a callback. *)
RunCallback(s) ==
  /\ sets[s].ran < sets[s].accepted
  /\ sets' = [sets EXCEPT ![s].ran = @ + 1]
  /\ UNCHANGED <<state, disk, edits, active, pc, local, watch, hooks, calls, stopper, reloads>>

-----------------------------------------------------------------------------
(* start(): the profile gate, then the control server, then the first load.*)
StartGate(ok, verdict) ==
  /\ pc["boot"] = "cold"
  /\ IF ok
     THEN /\ state' = "starting"
          /\ pc' = [pc EXCEPT !["boot"] = "gated", !["control"] = "idle"]
     ELSE /\ state' = verdict
          /\ pc' = [pc EXCEPT !["boot"] = "failed"]
  /\ UNCHANGED <<disk, edits, sets, active, local, watch, hooks, calls, stopper, reloads>>

StartLoad ==
  /\ pc["boot"] = "gated"
  /\ BeginReload("boot")
  /\ UNCHANGED <<state, disk, edits, active, watch, hooks, calls, stopper, reloads>>

(* hooks_->install; on failure the plugins are stopped again. *)
StartInstall(ok) ==
  /\ pc["boot"] = "install"
  /\ IF ok
     THEN /\ pc' = [pc EXCEPT !["boot"] = "generic"]
          /\ UNCHANGED <<state, sets>>
     ELSE /\ pc' = [pc EXCEPT !["boot"] = "failed"]
          /\ state' = "failed"
          /\ sets' = [sets EXCEPT ![active].phase = "stopped"]
  /\ UNCHANGED <<disk, edits, active, local, watch, hooks, calls, stopper, reloads>>

(* The kinds the plugins of set s subscribe to. *)
Subscribed(s) ==
  UNION {HooksOf[sets[s].content[p]] : p \in {q \in Plugins : sets[s].content[q] # Unread}}

InstallGenericHooks ==
  /\ pc["boot"] = "generic"
  /\ hooked' = Subscribed(active)
  /\ pc' = [pc EXCEPT !["boot"] = "ready"]
  /\ UNCHANGED <<state, disk, edits, sets, active, local, watch, unhooked, calls,
                 stopper, reloads>>

StartRunning ==
  /\ pc["boot"] = "ready"
  /\ state' = "running"
  /\ pc' = [pc EXCEPT !["boot"] = "spawn"]
  /\ UNCHANGED <<disk, edits, sets, active, local, watch, hooks, calls, stopper, reloads>>

-----------------------------------------------------------------------------
(* Mutants of NewestFrom and MayLeave: the default-constructed             *)
(* file_time_type, whose epoch lies in the future; a watcher that never    *)
(* looks at its stop flag.                                                 *)
FutureEpoch == Unread
NeverLeaves == FALSE

(* file_time_type::min() *)
NewestFrom == 0

(* now > last *)
Changed == newest > last

MayLeave == watchStop

(* start_plugin_watch: the thread starts with a scan. *)
StartWatch ==
  /\ pc["boot"] = "spawn"
  /\ pc' = [pc EXCEPT !["boot"] = "up", !["watcher"] = "stat0"]
  /\ scan' = Plugins /\ newest' = NewestFrom
  /\ UNCHANGED <<state, disk, edits, sets, active, local, last, watchStop, hooks,
                 calls, stopper, reloads>>

(* newest_mtime(): one file's stat. *)
Stat(p) ==
  /\ pc["watcher"] \in {"stat0", "stat"} /\ p \in scan
  /\ scan' = scan \ {p}
  /\ newest' = IF disk[p] > newest THEN disk[p] ELSE newest
  /\ UNCHANGED <<state, disk, edits, sets, active, pc, local, last, watchStop, hooks,
                 calls, stopper, reloads>>

FirstScanDone ==
  /\ pc["watcher"] = "stat0" /\ scan = {}
  /\ last' = newest
  /\ pc' = [pc EXCEPT !["watcher"] = "wait"]
  /\ UNCHANGED <<state, disk, edits, sets, active, local, scan, newest, watchStop,
                 hooks, calls, stopper, reloads>>

(* wait_for returns after a second, or at once when plugin_watch_stop_. *)
WatchWake ==
  /\ pc["watcher"] = "wait"
  /\ IF MayLeave
     THEN /\ pc' = [pc EXCEPT !["watcher"] = "exit"]
          /\ UNCHANGED <<scan, newest>>
     ELSE /\ pc' = [pc EXCEPT !["watcher"] = "stat"]
          /\ scan' = Plugins /\ newest' = NewestFrom
  /\ UNCHANGED <<state, disk, edits, sets, active, local, last, watchStop, hooks,
                 calls, stopper, reloads>>

NothingChanged ==
  /\ pc["watcher"] = "stat" /\ scan = {} /\ ~Changed
  /\ pc' = [pc EXCEPT !["watcher"] = "wait"]
  /\ UNCHANGED <<state, disk, edits, sets, active, local, watch, hooks, calls,
                 stopper, reloads>>

HotReload ==
  /\ pc["watcher"] = "stat" /\ scan = {} /\ Changed
  /\ last' = newest
  /\ BeginReload("watcher")
  /\ UNCHANGED <<state, disk, edits, active, scan, newest, watchStop, hooks, calls,
                 stopper, reloads>>

-----------------------------------------------------------------------------
(* control_request("plugins.reload") *)
ControlReload ==
  /\ pc["control"] = "idle" /\ caller["control"] = "out"
  /\ state = "running"
  /\ reloads < MaxReloads
  /\ reloads' = reloads + 1
  /\ BeginReload("control")
  /\ UNCHANGED <<state, disk, edits, active, watch, hooks, calls, stopper>>

(* on_chat, deliver_event, command.invoke: check state_, take plugins_mu_  *)
(* shared, route to the active set.                                        *)
CallCheck(c) ==
  /\ caller[c] = "out" /\ requests < MaxRequests
  /\ IF c = "game" THEN ~unhooked ELSE pc["control"] = "idle"
  /\ state = "running"
  /\ requests' = requests + 1
  /\ caller' = [caller EXCEPT ![c] = "checked"]
  /\ UNCHANGED <<state, disk, edits, sets, active, pc, local, watch, hooks, holds,
                 stopper, reloads>>

CallLock(c) ==
  /\ caller[c] = "checked"
  /\ caller' = [caller EXCEPT ![c] = "locked"]
  /\ holds' = [holds EXCEPT ![c] = active]
  /\ UNCHANGED <<state, disk, edits, sets, active, pc, local, watch, hooks, requests,
                 stopper, reloads>>

(* The set accepts the work (or refuses it: unknown command, full queue, a *)
(* set that stop() has stopped), and the lock is released.                 *)
CallDispatch(c, accept) ==
  /\ caller[c] = "locked"
  /\ accept => sets[holds[c]].phase # "stopped"
  /\ sets' = IF accept THEN [sets EXCEPT ![holds[c]].accepted = @ + 1] ELSE sets
  /\ caller' = [caller EXCEPT ![c] = "out"]
  /\ holds' = [holds EXCEPT ![c] = 0]
  /\ UNCHANGED <<state, disk, edits, active, pc, local, watch, hooks, requests,
                 stopper, reloads>>

-----------------------------------------------------------------------------
(* stop(), by whoever embeds the runtime, after start() returned. *)
StopBegin ==
  /\ stopper = "none" /\ pc["boot"] \in {"up", "failed"}
  /\ state' = "stopped"
  /\ watchStop' = TRUE
  /\ stopper' = "watch"
  /\ UNCHANGED <<disk, edits, sets, active, pc, local, last, scan, newest, hooks,
                 calls, reloads>>

StopJoinWatch ==
  /\ stopper = "watch" /\ pc["watcher"] \in {"off", "exit"}
  /\ unhooked' = TRUE
  /\ stopper' = "plugins"
  /\ UNCHANGED <<state, disk, edits, sets, active, pc, local, watch, hooked, calls, reloads>>

StopPlugins ==
  /\ stopper = "plugins"
  /\ sets' = [sets EXCEPT ![active].phase = "stopped"]
  /\ stopper' = "draining"
  /\ UNCHANGED <<state, disk, edits, active, pc, local, watch, hooks, calls, reloads>>

StopDrained ==
  /\ stopper = "draining" /\ Drained(active)
  /\ stopper' = "control"
  /\ UNCHANGED <<state, disk, edits, sets, active, pc, local, watch, hooks, calls, reloads>>

StopJoinControl ==
  /\ stopper = "control"
  /\ pc["control"] \in {"off", "idle"} /\ caller["control"] = "out"
  /\ pc' = [pc EXCEPT !["control"] = "exit"]
  /\ stopper' = "stopped"
  /\ UNCHANGED <<state, disk, edits, sets, active, local, watch, hooks, calls, reloads>>

-----------------------------------------------------------------------------
Reloading(t) == LoadPlugin(t) \/ Abandon(t) \/ Commit(t) \/ Destroy(t)

Starting ==
  \/ \E ok \in BOOLEAN, verdict \in {"failed", "unsupported_build"} : StartGate(ok, verdict)
  \/ StartLoad
  \/ \E ok \in BOOLEAN : StartInstall(ok)
  \/ InstallGenericHooks \/ StartRunning \/ StartWatch

Watching ==
  \/ \E p \in Plugins : Stat(p)
  \/ FirstScanDone \/ WatchWake \/ NothingChanged \/ HotReload

Calling(c) == CallLock(c) \/ (\E accept \in BOOLEAN : CallDispatch(c, accept))

Stopping == StopJoinWatch \/ StopPlugins \/ StopDrained \/ StopJoinControl

Next ==
  \/ \E p \in Plugins : Edit(p)
  \/ \E t \in Reloaders : Reloading(t)
  \/ \E s \in 1..Len(sets) : RunCallback(s)
  \/ Starting
  \/ Watching
  \/ ControlReload
  \/ \E c \in Callers : CallCheck(c) \/ Calling(c)
  \/ StopBegin
  \/ Stopping

Spec == Init /\ [][Next]_vars

(***************************************************************************)
(* Every thread that can proceed does: callbacks return, the watcher polls *)
(* every second, loads and joins finish.  Nothing makes anyone edit a      *)
(* file, call, reload or stop.  plugins_mu_ may prefer readers, but there  *)
(* are finitely many.                                                      *)
(***************************************************************************)
Fairness ==
  /\ \A t \in Reloaders : WF_vars(Reloading(t))
  /\ WF_vars(\E s \in 1..Len(sets) : RunCallback(s))
  /\ WF_vars(Starting)
  /\ WF_vars(Watching)
  /\ \A c \in Callers : WF_vars(Calling(c))
  /\ WF_vars(Stopping)

FairSpec == Spec /\ Fairness

-----------------------------------------------------------------------------
States == {"cold", "starting", "running", "unsupported_build", "failed", "stopped"}
PluginSets ==
  [content : [Plugins -> Versions \cup {Unread}],
   phase : {"loading", "live", "stopped", "draining", "gone"},
   accepted : Nat, ran : Nat]

(* Types; the watcher never takes a time stamp that no file ever had. *)
TypeOK ==
  /\ state \in States
  /\ disk \in [Plugins -> Versions] /\ edits \in Versions
  /\ sets \in Seq(PluginSets) /\ active \in 1..Len(sets)
  /\ pc \in [Reloaders -> {"cold", "off", "idle", "gated", "load", "destroy", "install",
                            "generic", "ready", "spawn", "up", "failed", "stat0", "stat",
                            "wait", "exit"}]
  /\ fresh \in [Reloaders -> 0..Len(sets)] /\ old \in [Reloaders -> 0..Len(sets)]
  /\ next \in [Reloaders -> 0..(NPlugins + 1)] /\ errors \in [Reloaders -> BOOLEAN]
  /\ last \in Versions /\ scan \subseteq Plugins /\ newest \in Versions
  /\ watchStop \in BOOLEAN
  /\ hooked \subseteq Kinds /\ unhooked \in BOOLEAN
  /\ caller \in [Callers -> {"out", "checked", "locked"}]
  /\ holds \in [Callers -> 0..Len(sets)]
  /\ stopper \in {"none", "watch", "plugins", "draining", "control", "stopped"}
  /\ reloads \in 0..MaxReloads /\ requests \in 0..MaxRequests

(* Every plugin of the directory is loaded in set s, from a version that loads. *)
Complete(s) == \A p \in Plugins : sets[s].content[p] \in Versions \ BadEdits

(***************************************************************************)
(* Reloads are transactional: from the first commit on, whatever the       *)
(* threads that reload at the same time do and however the files change    *)
(* under them, the active set has every plugin, each one loaded cleanly    *)
(* (architecture.md:332-335, security.md:147; plugin-api.md:100: "swaps it *)
(* in only if it loads cleanly").  A set without the plugins that do not   *)
(* load is never active, which is not what RestStillLoads expects.         *)
(***************************************************************************)
Transactional == active # 1 => Complete(active)

(***************************************************************************)
(* plugin-api.md:49-51: anything out of range in a manifest "rejects that  *)
(* plugin (the rest still load)".  So a start that has passed the gate     *)
(* leads to an active set with every plugin that is fit to load, unless    *)
(* the runtime is stopped.  reload_plugins abandons the whole set instead, *)
(* and a start with one bad plugin fails (runtime.cpp:322, 457-463).       *)
(***************************************************************************)
RestStillLoads ==
  \A p \in Plugins :
    pc["boot"] = "gated" ~> \/ sets[active].content[p] \in Versions \ BadEdits
                           \/ ~Loads(disk[p])
                           \/ stopper # "none"

(***************************************************************************)
(* A call that routed to a set under the shared lock never finds that set  *)
(* being destroyed by a concurrent reload.                                 *)
(***************************************************************************)
CallsLiveSet ==
  \A c \in Callers : caller[c] = "locked" => sets[holds[c]].phase \in {"live", "stopped"}

(***************************************************************************)
(* "Destruction waits for already accepted callbacks" (runtime.cpp:471):   *)
(* no set is gone with accepted work left.                                 *)
(***************************************************************************)
DestroyedDrained ==
  \A s \in 1..Len(sets) : sets[s].phase = "gone" => sets[s].accepted = sets[s].ran

(***************************************************************************)
(* Every PluginSet has one owner: plugin_set_, one reload's fresh, or one  *)
(* reload's old; none is leaked and none is destroyed twice although three *)
(* threads swap plugin_set_.                                               *)
(***************************************************************************)
Owners(s) ==
  {<<"active", t>> : t \in {u \in {"runtime"} : active = s}}
    \cup {<<"fresh", t>> : t \in {u \in Reloaders : fresh[u] = s}}
    \cup {<<"old", t>> : t \in {u \in Reloaders : old[u] = s}}

OneOwner ==
  \A s \in 1..Len(sets) :
    Cardinality(Owners(s)) = IF sets[s].phase = "gone" THEN 0 ELSE 1

(* The files on disk as they are can be loaded. *)
DiskLoads == \A p \in Plugins : disk[p] \notin BadEdits

(***************************************************************************)
(* Hot reload: while the runtime runs and the files stay loadable, the     *)
(* active set ends up with what is on disk (plugin-api.md:100: "Editing    *)
(* any file under the plugin directory triggers a transactional reload").  *)
(***************************************************************************)
EditsTakeEffect ==
  <>[](state = "running" /\ pc["boot"] = "up" /\ DiskLoads)
    => <>[](sets[active].content = disk)

(***************************************************************************)
(* The same where the watcher alone reloads and the first edit comes after *)
(* its first scan: however edits that break and repair plugins meet the    *)
(* scans and the reloads under way, the last one takes effect.  An edit    *)
(* while start() loads, and a control reload that commits what it read     *)
(* before an edit the watcher has already applied, may stay without        *)
(* effect.                                                                 *)
(***************************************************************************)
WatcherApplies ==
  /\ [](reloads = 0)
  /\ [](pc["watcher"] \in {"off", "stat0"} => edits = 0)
  => EditsTakeEffect

(***************************************************************************)
(* stop() returns, although it joins a watcher that may be reloading and a *)
(* control thread that may wait for the lock stop() itself holds shared    *)
(* while it drains the plugins.                                            *)
(***************************************************************************)
StopReturns == stopper # "none" ~> stopper = "stopped"
=============================================================================
