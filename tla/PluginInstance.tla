--------------------------- MODULE PluginInstance ---------------------------
(***************************************************************************)
(* PluginRuntime::Instance (native/src/plugin_runtime.cpp): one Lua plugin *)
(* with its worker thread.  The loader starts and stops it, the game       *)
(* thread and the control thread enqueue commands and events, a waiter     *)
(* calls wait_idle, and the worker runs the callbacks outside mu_.  Every  *)
(* section under mu_ is one step.  A thread blocked in a condition         *)
(* variable is in asleep and does nothing until a notify (or a spurious    *)
(* wakeup) takes it out, so a missing notify is a deadlock of the model.   *)
(***************************************************************************)
EXTENDS Naturals, Sequences, FiniteSets

CONSTANTS
  Commands,      \* command invocations offered to enqueue
  Events,        \* event occurrences offered to enqueue_event
  Names,         \* command names the manifest declares
  Kinds,         \* event kinds
  NameOf,        \* the command name of an invocation
  KindOf,        \* the kind of an event
  None,          \* a null current_ / current_event_
  QueueLimit     \* kMaxCommandQueue (256)

ASSUME PluginInstanceAssumptions ==
  /\ NameOf \in [Commands -> Names]
  /\ KindOf \in [Events -> Kinds]
  /\ Commands \cap Events = {}
  /\ None \notin Commands \cup Events
  /\ QueueLimit \in Nat \ {0}

VARIABLES
  loader,         \* the thread in start() and stop()
  worker,         \* the thread in run()
  idler,          \* a thread in wait_idle()
  asleep,         \* the threads blocked in started_cv_, work_cv_, idle_cv_
  initialized, running, stopping, busy,   \* the flags of the same names
  queue,          \* queue_
  eventQueue,     \* event_queue_
  handlers,       \* the keys of handlers_
  eventHandlers,  \* the keys of event_handlers_
  subscribed,     \* subscribed_kinds_
  current,        \* current_ or current_event_
  acceptedC, ranC,   \* history: commands accepted and completed, in order
  acceptedE, ranE    \* history: events accepted and completed, in order

flags == <<initialized, running, stopping, busy>>
luaState == <<handlers, eventHandlers, subscribed>>
history == <<acceptedC, ranC, acceptedE, ranE>>
vars == <<loader, worker, idler, asleep, flags, queue, eventQueue, luaState,
          current, history>>

Init ==
  /\ loader = "new" /\ worker = "none" /\ idler = "out"
  /\ asleep = {}
  /\ initialized = FALSE /\ running = FALSE /\ stopping = FALSE /\ busy = FALSE
  /\ queue = <<>> /\ eventQueue = <<>>
  /\ handlers = {} /\ eventHandlers = {} /\ subscribed = {}
  /\ current = None
  /\ acceptedC = <<>> /\ ranC = <<>> /\ acceptedE = <<>> /\ ranE = <<>>

-----------------------------------------------------------------------------
(* Mutant of Accepts: a stopping plugin still accepts. *)
AcceptsWhileStopping(q) == running /\ Len(q) < QueueLimit

(* The common guard of enqueue and enqueue_event. *)
Accepts(q) == running /\ ~stopping /\ Len(q) < QueueLimit

(* Mutant of NoWork: the worker stops as soon as no command is left. *)
NoCommands == queue = <<>>

(* The queues are empty: the worker's exit and wait conditions. *)
NoWork == queue = <<>> /\ eventQueue = <<>>

(* Mutant of Idle: wait_idle forgets the callback in progress. *)
QueuesEmpty == NoWork

(* wait_idle's predicate. *)
Idle == NoWork /\ ~busy

(* Mutant of Notify: the notify is forgotten. *)
NobodyWakes(who) == asleep

(* notify_one / notify_all on the condition variable who waits on. *)
Notify(who) == asleep \ {who}

-----------------------------------------------------------------------------
(* start(): spawn the worker, then wait for it to initialize. *)
Start ==
  /\ loader = "new"
  /\ loader' = "starting"
  /\ worker' = "init"
  /\ UNCHANGED <<idler, asleep, flags, queue, eventQueue, luaState, current, history>>

StartWait ==
  /\ loader = "starting" /\ "loader" \notin asleep
  /\ \/ initialized /\ loader' = "started" /\ UNCHANGED asleep
     \/ ~initialized /\ asleep' = asleep \cup {"loader"} /\ UNCHANGED loader
  /\ UNCHANGED <<worker, idler, flags, queue, eventQueue, luaState, current, history>>

(* stop(): raise stopping_, wake the worker, join it. *)
StopRequest ==
  /\ loader = "started"
  /\ loader' = "stopping"
  /\ stopping' = TRUE
  /\ asleep' = Notify("worker")
  /\ UNCHANGED <<worker, idler, initialized, running, busy, queue, eventQueue,
                 luaState, current, history>>

Join ==
  /\ loader = "stopping"
  /\ worker = "exited"
  /\ loader' = "joined"
  /\ UNCHANGED <<worker, idler, asleep, flags, queue, eventQueue, luaState, current, history>>

(* Other threads hold the instance from the return of start() to the join. *)
Reachable == loader \in {"started", "stopping"}

Enqueue(c) ==
  /\ Reachable /\ Accepts(queue)
  /\ \A i \in 1..Len(acceptedC) : acceptedC[i] # c
  /\ queue' = Append(queue, c)
  /\ acceptedC' = Append(acceptedC, c)
  /\ asleep' = Notify("worker")
  /\ UNCHANGED <<loader, worker, idler, flags, eventQueue, luaState, current,
                 ranC, acceptedE, ranE>>

EnqueueEvent(e) ==
  /\ Reachable /\ Accepts(eventQueue)
  /\ KindOf[e] \in subscribed
  /\ \A i \in 1..Len(acceptedE) : acceptedE[i] # e
  /\ eventQueue' = Append(eventQueue, e)
  /\ acceptedE' = Append(acceptedE, e)
  /\ asleep' = Notify("worker")
  /\ UNCHANGED <<loader, worker, idler, flags, queue, luaState, current,
                 acceptedC, ranC, ranE>>

(* wait_idle(timeout): re-evaluates its predicate when notified; a timeout *)
(* returns whatever the predicate is then.                                 *)
WaitIdle ==
  /\ idler = "waiting" \/ (idler = "out" /\ Reachable)
  /\ "idler" \notin asleep
  /\ \/ Idle /\ idler' = "idle" /\ UNCHANGED asleep
     \/ ~Idle /\ idler' = "waiting" /\ asleep' = asleep \cup {"idler"}
  /\ UNCHANGED <<loader, worker, flags, queue, eventQueue, luaState, current, history>>

WaitIdleTimeout ==
  /\ idler = "waiting"
  /\ idler' = IF Idle THEN "idle" ELSE "out"
  /\ asleep' = asleep \ {"idler"}
  /\ UNCHANGED <<loader, worker, flags, queue, eventQueue, luaState, current, history>>

WaitIdleDone ==
  /\ idler = "idle"
  /\ idler' = "out"
  /\ UNCHANGED <<loader, worker, asleep, flags, queue, eventQueue, luaState, current, history>>

(* Any condition variable may wake without a notify. *)
SpuriousWakeup(who) ==
  /\ who \in asleep
  /\ asleep' = asleep \ {who}
  /\ UNCHANGED <<loader, worker, idler, flags, queue, eventQueue, luaState, current, history>>

-----------------------------------------------------------------------------
(* Lua code runs in initialize_lua, in callbacks and, as finalizers, in    *)
(* lua_close.                                                              *)
InLua == worker \in {"init", "callback", "close"}

(* palmod.on_command: only declared names. *)
LuaOnCommand(n) ==
  /\ InLua
  /\ handlers' = handlers \cup {n}
  /\ UNCHANGED <<loader, worker, idler, asleep, flags, queue, eventQueue,
                 eventHandlers, subscribed, current, history>>

(* palmod.on_event / palmod.hook: store the handler, which only the worker *)
(* reads, and publish the subscription under mu_.                          *)
LuaOnEvent(k) ==
  /\ InLua
  /\ eventHandlers' = eventHandlers \cup {k}
  /\ subscribed' = subscribed \cup {k}
  /\ UNCHANGED <<loader, worker, idler, asleep, flags, queue, eventQueue,
                 handlers, current, history>>

(* Mutant of LoadOk: declared commands are not required to be registered. *)
LoadAlwaysOk == TRUE

(* initialize_lua's last check: every declared command has a handler. *)
LoadOk == Names \subseteq handlers

(* run(): publish the outcome of initialize_lua.  A Lua error can fail the   *)
(* load at any point.                                                      *)
Initialized(ok) ==
  /\ worker = "init"
  /\ ok => LoadOk
  /\ initialized' = TRUE
  /\ running' = ok
  /\ asleep' = Notify("loader")
  /\ worker' = IF ok THEN "take" ELSE "close"
  /\ UNCHANGED <<loader, idler, stopping, busy, queue, eventQueue, luaState, current, history>>

(* run(): wait for work or stop; with neither, sleep in work_cv_. *)
WorkerSleep ==
  /\ worker = "take" /\ "worker" \notin asleep
  /\ ~stopping /\ NoWork
  /\ asleep' = asleep \cup {"worker"}
  /\ UNCHANGED <<loader, worker, idler, flags, queue, eventQueue, luaState, current, history>>

(* run(): the loop ends when stop was asked for and both queues are empty. *)
WorkerLeave ==
  /\ worker = "take" /\ "worker" \notin asleep
  /\ stopping /\ NoWork
  /\ worker' = "close"
  /\ UNCHANGED <<loader, idler, asleep, flags, queue, eventQueue, luaState, current, history>>

(* Mutant of Oldest: the wrong end of the queue. *)
Newest(q) == q[Len(q)]

(* The element pop_front() is about to remove. *)
Oldest(q) == Head(q)

(* run(): commands are taken before events. *)
TakeCommand ==
  /\ worker = "take" /\ "worker" \notin asleep
  /\ queue # <<>>
  /\ current' = Oldest(queue)
  /\ queue' = Tail(queue)
  /\ busy' = TRUE
  /\ worker' = "callback"
  /\ UNCHANGED <<loader, idler, asleep, initialized, running, stopping, eventQueue,
                 luaState, history>>

TakeEvent ==
  /\ worker = "take" /\ "worker" \notin asleep
  /\ queue = <<>> /\ eventQueue # <<>>
  /\ current' = Oldest(eventQueue)
  /\ eventQueue' = Tail(eventQueue)
  /\ busy' = TRUE
  /\ worker' = "callback"
  /\ UNCHANGED <<loader, idler, asleep, initialized, running, stopping, queue,
                 luaState, history>>

(* invoke / invoke_event return, normally or after a logged Lua error. *)
CallbackReturn ==
  /\ worker = "callback"
  /\ IF current \in Commands
     THEN ranC' = Append(ranC, current) /\ UNCHANGED ranE
     ELSE ranE' = Append(ranE, current) /\ UNCHANGED ranC
  /\ current' = None
  /\ worker' = "done"
  /\ UNCHANGED <<loader, idler, asleep, flags, queue, eventQueue, luaState,
                 acceptedC, acceptedE>>

(* run(): lower busy_, and wake wait_idle when no work is left. *)
CallbackDone ==
  /\ worker = "done"
  /\ busy' = FALSE
  /\ asleep' = IF NoWork THEN Notify("idler") ELSE asleep
  /\ worker' = "take"
  /\ UNCHANGED <<loader, idler, initialized, running, stopping, queue, eventQueue,
                 luaState, current, history>>

(* run(): lua_close has returned; the final section. *)
WorkerExit ==
  /\ worker = "close"
  /\ running' = FALSE
  /\ busy' = FALSE
  /\ asleep' = Notify("idler")
  /\ worker' = "exited"
  /\ UNCHANGED <<loader, idler, initialized, stopping, queue, eventQueue, luaState,
                 current, history>>

-----------------------------------------------------------------------------
LuaStep ==
  \/ \E n \in Names : LuaOnCommand(n)
  \/ \E k \in Kinds : LuaOnEvent(k)

WorkerStep ==
  \/ \E ok \in BOOLEAN : Initialized(ok)
  \/ WorkerSleep
  \/ WorkerLeave
  \/ TakeCommand
  \/ TakeEvent
  \/ CallbackReturn
  \/ CallbackDone
  \/ WorkerExit

Next ==
  \/ Start \/ StartWait \/ StopRequest \/ Join
  \/ \E c \in Commands : Enqueue(c)
  \/ \E e \in Events : EnqueueEvent(e)
  \/ WaitIdle \/ WaitIdleTimeout \/ WaitIdleDone
  \/ \E who \in {"loader", "worker", "idler"} : SpuriousWakeup(who)
  \/ LuaStep
  \/ WorkerStep

Spec == Init /\ [][Next]_vars

(***************************************************************************)
(* A callback returns (the instruction hook ends a runaway one), and a     *)
(* thread that can run does.  Nothing makes anyone enqueue or stop, and    *)
(* neither timeouts nor spurious wakeups are relied upon.                  *)
(***************************************************************************)
Fairness ==
  /\ WF_vars(StartWait)
  /\ WF_vars(Join)
  /\ WF_vars(WorkerStep)
  /\ WF_vars(WaitIdle /\ idler = "waiting")

FairSpec == Spec /\ Fairness

-----------------------------------------------------------------------------
Loaders == {"new", "starting", "started", "stopping", "joined"}
WorkerStates == {"none", "init", "take", "callback", "done", "close", "exited"}

TypeOK ==
  /\ loader \in Loaders
  /\ worker \in WorkerStates
  /\ idler \in {"out", "waiting", "idle"}
  /\ asleep \subseteq {"loader", "worker", "idler"}
  /\ initialized \in BOOLEAN /\ running \in BOOLEAN
  /\ stopping \in BOOLEAN /\ busy \in BOOLEAN
  /\ queue \in Seq(Commands) /\ Len(queue) <= QueueLimit
  /\ eventQueue \in Seq(Events) /\ Len(eventQueue) <= QueueLimit
  /\ handlers \subseteq Names /\ eventHandlers \subseteq Kinds
  /\ subscribed \subseteq Kinds
  /\ current \in Commands \cup Events \cup {None}
  /\ acceptedC \in Seq(Commands) /\ ranC \in Seq(Commands)
  /\ acceptedE \in Seq(Events) /\ ranE \in Seq(Events)

(* The member of S the worker has popped and whose callback is running. *)
InHand(S) == IF current \in S THEN <<current>> ELSE <<>>

(***************************************************************************)
(* Every command and every event that enqueue / enqueue_event reported as  *)
(* accepted is in exactly one place, in acceptance order: run, in the      *)
(* worker's hand outside mu_, or queued.                                   *)
(***************************************************************************)
NothingLost ==
  /\ acceptedC = ranC \o InHand(Commands) \o queue
  /\ acceptedE = ranE \o InHand(Events) \o eventQueue

(***************************************************************************)
(* stop() drains: when its join returns, every accepted callback has run.  *)
(* reload_plugins relies on it (runtime.cpp:471), and so does the freedom  *)
(* to destroy the instance.                                                *)
(***************************************************************************)
JoinedClean == loader = "joined" => acceptedC = ranC /\ acceptedE = ranE

(***************************************************************************)
(* When wait_idle returns true, everything accepted so far has run: the    *)
(* callback the worker popped but has not finished is not overlooked.      *)
(***************************************************************************)
WaitIdleSound ==
  [][idler # "idle" /\ idler' = "idle" => acceptedC = ranC /\ acceptedE = ranE]_vars

(***************************************************************************)
(* An accepted command or event always finds its handler: invoke and       *)
(* invoke_event never drop one silently at their `found == end()` return,  *)
(* although enqueue looks at the manifest or at subscribed_kinds_ on       *)
(* another thread and handlers_ belongs to the worker.                     *)
(***************************************************************************)
HandlersReady ==
  /\ \A i \in 1..Len(queue) : NameOf[queue[i]] \in handlers
  /\ \A i \in 1..Len(eventQueue) : KindOf[eventQueue[i]] \in eventHandlers
  /\ current \in Commands => NameOf[current] \in handlers
  /\ current \in Events => KindOf[current] \in eventHandlers

(***************************************************************************)
(* The inductive invariant behind the above: how the flags follow the two  *)
(* threads, and that nothing can be accepted once the worker has left its  *)
(* loop.                                                                   *)
(***************************************************************************)
Phases ==
  /\ worker = "none" <=> loader = "new"
  /\ stopping <=> loader \in {"stopping", "joined"}
  /\ loader = "joined" => worker = "exited"
  /\ current # None <=> worker = "callback"
  /\ busy <=> worker \in {"callback", "done"}
  /\ running => worker \in {"take", "callback", "done", "close"}
  /\ worker = "close" => stopping \/ ~running
  /\ worker \in {"none", "init", "close", "exited"} => NoWork
  /\ running => Names \subseteq handlers
  /\ subscribed \subseteq eventHandlers

IInv ==
  /\ TypeOK
  /\ NothingLost
  /\ HandlersReady
  /\ Phases

(***************************************************************************)
(* No thread is left asleep in a condition variable: start() returns,      *)
(* whether the plugin loads or not; stop() returns, whether the worker     *)
(* sleeps, is in a callback, or never got past initialization; wait_idle   *)
(* gets out without its timeout once the callers stop submitting, woken by *)
(* the last callback or the worker's exit.                                 *)
(***************************************************************************)
CallersReturn ==
  /\ loader = "starting" ~> loader # "starting"
  /\ loader = "stopping" ~> loader = "joined"
  /\ idler = "waiting" ~> idler # "waiting"

(***************************************************************************)
(* Every accepted command and event runs, even when stop() comes right     *)
(* after it.                                                               *)
(***************************************************************************)
AcceptedRuns ==
  /\ \A n \in 1..Cardinality(Commands) : Len(acceptedC) >= n ~> Len(ranC) >= n
  /\ \A n \in 1..Cardinality(Events) : Len(acceptedE) >= n ~> Len(ranE) >= n

=============================================================================
