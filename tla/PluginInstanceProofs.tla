------------------------ MODULE PluginInstanceProofs ------------------------
(***************************************************************************)
(* Proofs about PluginInstance for every set of commands and events, every *)
(* manifest and every queue limit: the inductive invariant IInv and the    *)
(* properties that follow from it.                                         *)
(***************************************************************************)
EXTENDS PluginInstance, TLAPS

(* A plugin that was not started has accepted nothing.                     *)
LEMMA InitIInv == Init => IInv
<1> SUFFICES ASSUME Init PROVE IInv
  OBVIOUS
<1>1. TypeOK
  <2>1. /\ queue \in Seq(Commands) /\ eventQueue \in Seq(Events)
        /\ acceptedC \in Seq(Commands) /\ ranC \in Seq(Commands)
        /\ acceptedE \in Seq(Events) /\ ranE \in Seq(Events)
    BY DEF Init
  <2>2. Len(queue) <= QueueLimit /\ Len(eventQueue) <= QueueLimit
    BY PluginInstanceAssumptions DEF Init
  <2> QED
    BY <2>1, <2>2 DEF Init, TypeOK, Loaders, WorkerStates
<1>2. NothingLost
  BY PluginInstanceAssumptions DEF Init, NothingLost, InHand
<1>3. HandlersReady
  BY PluginInstanceAssumptions DEF Init, HandlersReady
<1>4. Phases
  BY DEF Init, Phases, NoWork
<1> QED
  BY <1>1, <1>2, <1>3, <1>4 DEF IInv

(* A step that touches neither queues, callback nor history keeps what is  *)
(* said of them; registering more handlers only helps.                     *)
LEMMA QuietStep ==
  ASSUME IInv, UNCHANGED <<queue, eventQueue, current, history>>,
         handlers \subseteq handlers', eventHandlers \subseteq eventHandlers'
  PROVE  NothingLost' /\ HandlersReady'
<1>1. NothingLost'
  BY DEF IInv, NothingLost, InHand, history
<1>2. HandlersReady'
  BY DEF IInv, HandlersReady
<1> QED
  BY <1>1, <1>2

(* start(), stop() and join: only the loader, the flags and wakeups move.  *)
LEMMA LoaderKeepsIInv ==
  ASSUME IInv, Start \/ StartWait \/ StopRequest \/ Join
  PROVE  IInv'
<1>1. CASE Start
  <2>1. NothingLost' /\ HandlersReady'
    BY <1>1, QuietStep DEF Start, luaState
  <2>2. TypeOK'
    BY <1>1 DEF Start, IInv, TypeOK, flags, luaState, history, Loaders, WorkerStates
  <2>3. Phases'
    BY <1>1 DEF Start, IInv, TypeOK, Phases, NoWork, flags, luaState
  <2> QED
    BY <2>1, <2>2, <2>3 DEF IInv
<1>2. CASE StartWait
  <2>1. NothingLost' /\ HandlersReady'
    BY <1>2, QuietStep DEF StartWait, luaState
  <2>2. TypeOK'
    BY <1>2 DEF StartWait, IInv, TypeOK, flags, luaState, history, Loaders, WorkerStates
  <2>3. Phases'
    BY <1>2 DEF StartWait, IInv, TypeOK, Phases, NoWork, flags, luaState
  <2> QED
    BY <2>1, <2>2, <2>3 DEF IInv
<1>3. CASE StopRequest
  <2>1. NothingLost' /\ HandlersReady'
    BY <1>3, QuietStep DEF StopRequest, luaState
  <2>2. TypeOK'
    BY <1>3 DEF StopRequest, Notify, IInv, TypeOK, luaState, history, Loaders, WorkerStates
  <2>3. Phases'
    BY <1>3 DEF StopRequest, IInv, TypeOK, Phases, NoWork, luaState
  <2> QED
    BY <2>1, <2>2, <2>3 DEF IInv
<1>4. CASE Join
  <2>1. NothingLost' /\ HandlersReady'
    BY <1>4, QuietStep DEF Join, luaState
  <2>2. TypeOK'
    BY <1>4 DEF Join, IInv, TypeOK, flags, luaState, history, Loaders, WorkerStates
  <2>3. Phases'
    BY <1>4 DEF Join, IInv, TypeOK, Phases, NoWork, flags, luaState
  <2> QED
    BY <2>1, <2>2, <2>3 DEF IInv
<1> QED
  BY <1>1, <1>2, <1>3, <1>4

(* A command is accepted while the plugin runs, so its handler is there;   *)
(* it joins the history and the queue at the same end.                     *)
LEMMA EnqueueKeepsIInv ==
  ASSUME IInv, NEW c \in Commands, Enqueue(c)
  PROVE  IInv'
<1>1. TypeOK'
  <2>1. queue' \in Seq(Commands) /\ acceptedC' \in Seq(Commands)
    BY DEF Enqueue, IInv, TypeOK
  <2>2. Len(queue') <= QueueLimit
    BY PluginInstanceAssumptions DEF Enqueue, Accepts, IInv, TypeOK
  <2> QED
    BY <2>1, <2>2 DEF Enqueue, Notify, IInv, TypeOK, flags, luaState
<1>2. NothingLost'
  <2> DEFINE h == InHand(Commands)
  <2>1. h \in Seq(Commands) /\ ranC \in Seq(Commands) /\ queue \in Seq(Commands)
    BY DEF IInv, TypeOK, InHand
  <2>2. h' = h /\ InHand(Events)' = InHand(Events)
    BY DEF Enqueue, InHand
  <2> HIDE DEF h
  <2>3. Append(ranC \o h \o queue, c) = ranC \o h \o Append(queue, c)
    BY <2>1, SMTT(60)
  <2>4. acceptedC' = ranC' \o h' \o queue'
    BY <2>2, <2>3 DEF Enqueue, IInv, NothingLost, h
  <2> QED
    BY <2>2, <2>4 DEF Enqueue, IInv, NothingLost, h
<1>3. HandlersReady'
  <2>1. NameOf[c] \in handlers
    BY PluginInstanceAssumptions DEF Enqueue, Accepts, IInv, Phases
  <2>2. \A i \in 1..Len(queue') : NameOf[queue'[i]] \in handlers
    BY <2>1 DEF Enqueue, IInv, TypeOK, HandlersReady
  <2> QED
    BY <2>2 DEF Enqueue, luaState, IInv, HandlersReady
<1>4. Phases'
  BY DEF Enqueue, Accepts, flags, luaState, IInv, TypeOK, Phases, NoWork
<1> QED
  BY <1>1, <1>2, <1>3, <1>4 DEF IInv

(* An event is accepted only if its kind is subscribed, hence handled.     *)
LEMMA EnqueueEventKeepsIInv ==
  ASSUME IInv, NEW e \in Events, EnqueueEvent(e)
  PROVE  IInv'
<1>1. TypeOK'
  <2>1. eventQueue' \in Seq(Events) /\ acceptedE' \in Seq(Events)
    BY DEF EnqueueEvent, IInv, TypeOK
  <2>2. Len(eventQueue') <= QueueLimit
    BY PluginInstanceAssumptions DEF EnqueueEvent, Accepts, IInv, TypeOK
  <2> QED
    BY <2>1, <2>2 DEF EnqueueEvent, Notify, IInv, TypeOK, flags, luaState
<1>2. NothingLost'
  <2> DEFINE h == InHand(Events)
  <2>1. h \in Seq(Events) /\ ranE \in Seq(Events) /\ eventQueue \in Seq(Events)
    BY DEF IInv, TypeOK, InHand
  <2>2. h' = h /\ InHand(Commands)' = InHand(Commands)
    BY DEF EnqueueEvent, InHand
  <2> HIDE DEF h
  <2>3. Append(ranE \o h \o eventQueue, e) = ranE \o h \o Append(eventQueue, e)
    BY <2>1, SMTT(60)
  <2>4. acceptedE' = ranE' \o h' \o eventQueue'
    BY <2>2, <2>3 DEF EnqueueEvent, IInv, NothingLost, h
  <2> QED
    BY <2>2, <2>4 DEF EnqueueEvent, IInv, NothingLost, h
<1>3. HandlersReady'
  <2>1. KindOf[e] \in eventHandlers
    BY DEF EnqueueEvent, IInv, Phases
  <2>2. \A i \in 1..Len(eventQueue') : KindOf[eventQueue'[i]] \in eventHandlers
    BY <2>1 DEF EnqueueEvent, IInv, TypeOK, HandlersReady
  <2> QED
    BY <2>2 DEF EnqueueEvent, luaState, IInv, HandlersReady
<1>4. Phases'
  BY DEF EnqueueEvent, Accepts, flags, luaState, IInv, TypeOK, Phases, NoWork
<1> QED
  BY <1>1, <1>2, <1>3, <1>4 DEF IInv

(* wait_idle and spurious wakeups only move the waiter and asleep.         *)
LEMMA WaiterKeepsIInv ==
  ASSUME IInv,
         \/ WaitIdle \/ WaitIdleTimeout \/ WaitIdleDone
         \/ \E who \in {"loader", "worker", "idler"} : SpuriousWakeup(who)
  PROVE  IInv'
<1>1. /\ UNCHANGED <<loader, worker, flags, queue, eventQueue, luaState, current, history>>
      /\ idler' \in {"out", "waiting", "idle"}
      /\ asleep' \subseteq asleep \cup {"idler"}
  BY DEF IInv, TypeOK, WaitIdle, WaitIdleTimeout, WaitIdleDone, SpuriousWakeup
<1>2. NothingLost' /\ HandlersReady'
  BY <1>1, QuietStep DEF luaState
<1>3. TypeOK'
  BY <1>1 DEF IInv, TypeOK, flags, luaState, history
<1>4. Phases'
  BY <1>1 DEF IInv, Phases, NoWork, flags, luaState
<1> QED
  BY <1>2, <1>3, <1>4 DEF IInv

(* Lua only adds handlers and subscriptions, the two together for events.  *)
LEMMA LuaKeepsIInv ==
  ASSUME IInv, LuaStep
  PROVE  IInv'
<1>1. CASE \E n \in Names : LuaOnCommand(n)
  <2>1. NothingLost' /\ HandlersReady'
    BY <1>1, QuietStep DEF LuaOnCommand
  <2>2. TypeOK'
    BY <1>1 DEF IInv, TypeOK, LuaOnCommand, flags, history
  <2>3. Phases'
    BY <1>1 DEF IInv, Phases, NoWork, LuaOnCommand, flags
  <2> QED
    BY <2>1, <2>2, <2>3 DEF IInv
<1>2. CASE \E k \in Kinds : LuaOnEvent(k)
  <2>1. NothingLost' /\ HandlersReady'
    BY <1>2, QuietStep DEF LuaOnEvent
  <2>2. TypeOK'
    BY <1>2 DEF IInv, TypeOK, LuaOnEvent, flags, history
  <2>3. Phases'
    BY <1>2 DEF IInv, Phases, NoWork, LuaOnEvent, flags
  <2> QED
    BY <2>1, <2>2, <2>3 DEF IInv
<1> QED
  BY <1>1, <1>2 DEF LuaStep
-----------------------------------------------------------------------------
(* What every popping step needs: the front of a queue is a member of its  *)
(* set, and moving it to the worker's hand leaves the whole unchanged.     *)
LEMMA PopFront ==
  ASSUME NEW S, NEW q \in Seq(S), q # <<>>, NEW r \in Seq(S)
  PROVE  /\ Head(q) \in S /\ Tail(q) \in Seq(S) /\ Len(Tail(q)) <= Len(q)
         /\ r \o <<>> \o q = r \o <<Head(q)>> \o Tail(q)
         /\ \A i \in 1..Len(Tail(q)) : Tail(q)[i] = q[i + 1] /\ i + 1 \in 1..Len(q)
         /\ Head(q) = q[1] /\ 1 \in 1..Len(q)
<1>1. Head(q) \in S /\ Tail(q) \in Seq(S) /\ Len(Tail(q)) <= Len(q)
  OBVIOUS
<1>2. r \o <<>> \o q = r \o <<Head(q)>> \o Tail(q)
  <2>1. r \o <<>> = r
    OBVIOUS
  <2>2. r \o q = r \o <<Head(q)>> \o Tail(q)
    BY SMTT(60)
  <2> QED
    BY <2>1, <2>2
<1>3. \A i \in 1..Len(Tail(q)) : Tail(q)[i] = q[i + 1] /\ i + 1 \in 1..Len(q)
  OBVIOUS
<1>4. Head(q) = q[1] /\ 1 \in 1..Len(q)
  OBVIOUS
<1> QED
  BY <1>1, <1>2, <1>3, <1>4

(* The worker pops the oldest command under mu_ and holds it outside.      *)
LEMMA TakeCommandKeepsIInv ==
  ASSUME IInv, TakeCommand
  PROVE  IInv'
<1>1. queue \in Seq(Commands) /\ ranC \in Seq(Commands) /\ queue # <<>>
  BY DEF IInv, TypeOK, TakeCommand
<1>2. /\ Head(queue) \in Commands /\ Tail(queue) \in Seq(Commands)
      /\ Len(Tail(queue)) <= Len(queue)
      /\ ranC \o <<>> \o queue = ranC \o <<Head(queue)>> \o Tail(queue)
      /\ \A i \in 1..Len(Tail(queue)) :
           Tail(queue)[i] = queue[i + 1] /\ i + 1 \in 1..Len(queue)
      /\ Head(queue) = queue[1] /\ 1 \in 1..Len(queue)
  BY <1>1, PopFront
<1>3. current = None /\ current' = Head(queue) /\ queue' = Tail(queue)
  BY DEF IInv, Phases, TypeOK, TakeCommand, Oldest
<1>4. current' # None /\ current' \notin Events
  BY <1>2, <1>3, PluginInstanceAssumptions
<1>5. TypeOK'
  <2>1. Len(queue') <= QueueLimit
    BY <1>1, <1>2, <1>3, PluginInstanceAssumptions DEF IInv, TypeOK
  <2> QED
    BY <1>2, <1>3, <2>1 DEF IInv, TypeOK, TakeCommand, luaState, history, WorkerStates
<1>6. NothingLost'
  <2>1. InHand(Commands) = <<>> /\ InHand(Events) = <<>>
    BY <1>3, PluginInstanceAssumptions DEF InHand
  <2>2. InHand(Commands)' = <<Head(queue)>> /\ InHand(Events)' = <<>>
    BY <1>2, <1>3, <1>4 DEF InHand
  <2> QED
    BY <1>2, <1>3, <2>1, <2>2 DEF IInv, NothingLost, TakeCommand, history
<1>7. HandlersReady'
  BY <1>2, <1>3, <1>4 DEF IInv, HandlersReady, TakeCommand, luaState
<1>8. Phases'
  BY <1>4 DEF IInv, TypeOK, Phases, TakeCommand, NoWork, luaState
<1> QED
  BY <1>5, <1>6, <1>7, <1>8 DEF IInv

(* With no command left the worker pops the oldest event.                  *)
LEMMA TakeEventKeepsIInv ==
  ASSUME IInv, TakeEvent
  PROVE  IInv'
<1>1. eventQueue \in Seq(Events) /\ ranE \in Seq(Events) /\ eventQueue # <<>>
  BY DEF IInv, TypeOK, TakeEvent
<1>2. /\ Head(eventQueue) \in Events /\ Tail(eventQueue) \in Seq(Events)
      /\ Len(Tail(eventQueue)) <= Len(eventQueue)
      /\ ranE \o <<>> \o eventQueue = ranE \o <<Head(eventQueue)>> \o Tail(eventQueue)
      /\ \A i \in 1..Len(Tail(eventQueue)) :
           Tail(eventQueue)[i] = eventQueue[i + 1] /\ i + 1 \in 1..Len(eventQueue)
      /\ Head(eventQueue) = eventQueue[1] /\ 1 \in 1..Len(eventQueue)
  BY <1>1, PopFront
<1>3. current = None /\ current' = Head(eventQueue) /\ eventQueue' = Tail(eventQueue)
  BY DEF IInv, Phases, TypeOK, TakeEvent, Oldest
<1>4. current' # None /\ current' \notin Commands
  BY <1>2, <1>3, PluginInstanceAssumptions
<1>5. TypeOK'
  <2>1. Len(eventQueue') <= QueueLimit
    BY <1>1, <1>2, <1>3, PluginInstanceAssumptions DEF IInv, TypeOK
  <2> QED
    BY <1>2, <1>3, <2>1 DEF IInv, TypeOK, TakeEvent, luaState, history, WorkerStates
<1>6. NothingLost'
  <2>1. InHand(Commands) = <<>> /\ InHand(Events) = <<>>
    BY <1>3, PluginInstanceAssumptions DEF InHand
  <2>2. InHand(Events)' = <<Head(eventQueue)>> /\ InHand(Commands)' = <<>>
    BY <1>2, <1>3, <1>4 DEF InHand
  <2> QED
    BY <1>2, <1>3, <2>1, <2>2 DEF IInv, NothingLost, TakeEvent, history
<1>7. HandlersReady'
  BY <1>2, <1>3, <1>4 DEF IInv, HandlersReady, TakeEvent, luaState
<1>8. Phases'
  BY <1>4 DEF IInv, TypeOK, Phases, TakeEvent, NoWork, luaState
<1> QED
  BY <1>5, <1>6, <1>7, <1>8 DEF IInv

(* A finished callback moves from the worker's hand to the end of its      *)
(* history.                                                                *)
LEMMA CallbackReturnKeepsIInv ==
  ASSUME IInv, CallbackReturn
  PROVE  IInv'
<1>1. current \in Commands \cup Events /\ current' = None
  BY DEF IInv, TypeOK, Phases, CallbackReturn
<1>2. InHand(Commands)' = <<>> /\ InHand(Events)' = <<>>
  BY <1>1, PluginInstanceAssumptions DEF InHand
<1>3. HandlersReady'
  BY <1>1, PluginInstanceAssumptions DEF IInv, HandlersReady, CallbackReturn, luaState
<1>4. Phases'
  BY DEF IInv, TypeOK, Phases, CallbackReturn, NoWork, flags, luaState
<1>5. CASE current \in Commands
  <2>1. current \notin Events /\ ranC' = Append(ranC, current) /\ ranE' = ranE
    BY <1>5, PluginInstanceAssumptions DEF CallbackReturn
  <2>2. ranC \in Seq(Commands) /\ queue \in Seq(Commands)
    BY DEF IInv, TypeOK
  <2>3. ranC' \in Seq(Commands)
    BY <1>5, <2>1, <2>2
  <2>4. ranC \o <<current>> \o queue = Append(ranC, current) \o <<>> \o queue
    BY <1>5, <2>2, SMTT(60)
  <2>5. InHand(Commands) = <<current>> /\ InHand(Events) = <<>>
    BY <1>5, <2>1 DEF InHand
  <2>6. NothingLost'
    BY <1>2, <2>1, <2>4, <2>5 DEF IInv, NothingLost, CallbackReturn
  <2>7. TypeOK'
    BY <1>1, <2>1, <2>3 DEF IInv, TypeOK, CallbackReturn, flags, luaState, WorkerStates
  <2> QED
    BY <1>3, <1>4, <2>6, <2>7 DEF IInv
<1>6. CASE current \in Events
  <2>1. current \notin Commands /\ ranE' = Append(ranE, current) /\ ranC' = ranC
    BY <1>6, PluginInstanceAssumptions DEF CallbackReturn
  <2>2. ranE \in Seq(Events) /\ eventQueue \in Seq(Events)
    BY DEF IInv, TypeOK
  <2>3. ranE' \in Seq(Events)
    BY <1>6, <2>1, <2>2
  <2>4. ranE \o <<current>> \o eventQueue = Append(ranE, current) \o <<>> \o eventQueue
    BY <1>6, <2>2, SMTT(60)
  <2>5. InHand(Events) = <<current>> /\ InHand(Commands) = <<>>
    BY <1>6, <2>1 DEF InHand
  <2>6. NothingLost'
    BY <1>2, <2>1, <2>4, <2>5 DEF IInv, NothingLost, CallbackReturn
  <2>7. TypeOK'
    BY <1>1, <2>1, <2>3 DEF IInv, TypeOK, CallbackReturn, flags, luaState, WorkerStates
  <2> QED
    BY <1>3, <1>4, <2>6, <2>7 DEF IInv
<1> QED
  BY <1>1, <1>5, <1>6

(* The other steps of run() move the worker and the flags.                 *)
LEMMA WorkerKeepsIInv ==
  ASSUME IInv, WorkerStep
  PROVE  IInv'
<1>1. CASE \E ok \in BOOLEAN : Initialized(ok)
  <2>1. NothingLost' /\ HandlersReady'
    BY <1>1, QuietStep DEF Initialized, luaState
  <2>2. TypeOK'
    BY <1>1 DEF Initialized, Notify, IInv, TypeOK, luaState, history, WorkerStates
  <2>3. Phases'
    <3>1. PICK ok \in BOOLEAN : Initialized(ok)
      BY <1>1
    <3>2. running' => Names \subseteq handlers'
      BY <3>1 DEF Initialized, LoadOk, luaState
    <3>3. stopping' = stopping /\ busy' = busy /\ NoWork' /\ current' = current
      BY <3>1 DEF Initialized, IInv, Phases, NoWork
    <3>4. worker' \in {"take", "close"} /\ (running' => worker' = "take")
      BY <3>1 DEF Initialized
    <3> QED
      BY <3>1, <3>2, <3>3, <3>4 DEF Initialized, IInv, TypeOK, Phases, luaState
  <2> QED
    BY <2>1, <2>2, <2>3 DEF IInv
<1>2. CASE WorkerSleep \/ WorkerLeave
  <2>1. NothingLost' /\ HandlersReady'
    BY <1>2, QuietStep DEF WorkerSleep, WorkerLeave, luaState
  <2>2. TypeOK'
    BY <1>2 DEF WorkerSleep, WorkerLeave, IInv, TypeOK, flags, luaState, history, WorkerStates
  <2>3. Phases'
    BY <1>2 DEF WorkerSleep, WorkerLeave, IInv, TypeOK, Phases, NoWork, flags, luaState
  <2> QED
    BY <2>1, <2>2, <2>3 DEF IInv
<1>3. CASE CallbackDone \/ WorkerExit
  <2>1. NothingLost' /\ HandlersReady'
    BY <1>3, QuietStep DEF CallbackDone, WorkerExit, luaState
  <2>2. TypeOK'
    BY <1>3 DEF CallbackDone, WorkerExit, Notify, IInv, TypeOK, luaState, history, WorkerStates
  <2>3. Phases'
    BY <1>3 DEF CallbackDone, WorkerExit, IInv, TypeOK, Phases, NoWork, luaState
  <2> QED
    BY <2>1, <2>2, <2>3 DEF IInv
<1> QED
  BY <1>1, <1>2, <1>3, TakeCommandKeepsIInv, TakeEventKeepsIInv, CallbackReturnKeepsIInv
     DEF WorkerStep

-----------------------------------------------------------------------------
(* IInv is an invariant of the plugin instance.                            *)
THEOREM Invariance == Spec => []IInv
<1>1. IInv /\ [Next]_vars => IInv'
  <2> SUFFICES ASSUME IInv, [Next]_vars PROVE IInv'
    OBVIOUS
  <2>1. CASE UNCHANGED vars
    <3>1. NothingLost' /\ HandlersReady'
      BY <2>1, QuietStep DEF vars, luaState
    <3> QED
      BY <2>1, <3>1 DEF IInv, TypeOK, Phases, NoWork, vars, flags, luaState, history
  <2>2. CASE Next
    BY <2>2, LoaderKeepsIInv, EnqueueKeepsIInv, EnqueueEventKeepsIInv, WaiterKeepsIInv,
       LuaKeepsIInv, WorkerKeepsIInv DEF Next
  <2> QED
    BY <2>1, <2>2
<1> QED
  BY InitIInv, <1>1, PTL DEF Spec

(* Every variable keeps its type and both queues their limit.              *)
THEOREM TypeCorrect == Spec => []TypeOK
<1>1. IInv => TypeOK
  BY DEF IInv
<1> QED
  BY Invariance, <1>1, PTL

(* No accepted command or event is lost, repeated or reordered.            *)
THEOREM NothingLostHolds == Spec => []NothingLost
<1>1. IInv => NothingLost
  BY DEF IInv
<1> QED
  BY Invariance, <1>1, PTL

(* No callback finds its handler missing.                                  *)
THEOREM HandlersReadyHolds == Spec => []HandlersReady
<1>1. IInv => HandlersReady
  BY DEF IInv
<1> QED
  BY Invariance, <1>1, PTL

(* With empty queues and nothing in hand, all that was accepted has run.   *)
LEMMA AllRan ==
  ASSUME IInv, NoWork, current = None
  PROVE  acceptedC = ranC /\ acceptedE = ranE
<1>1. InHand(Commands) = <<>> /\ InHand(Events) = <<>>
  BY PluginInstanceAssumptions DEF InHand
<1>2. ranC \in Seq(Commands) /\ ranE \in Seq(Events)
  BY DEF IInv, TypeOK
<1>3. ranC \o <<>> \o <<>> = ranC /\ ranE \o <<>> \o <<>> = ranE
  BY <1>2
<1> QED
  BY <1>1, <1>3 DEF IInv, NothingLost, NoWork

(* When stop() has joined the worker, every accepted callback has run.     *)
THEOREM JoinedCleanHolds == Spec => []JoinedClean
<1>1. IInv => JoinedClean
  <2> SUFFICES ASSUME IInv, loader = "joined" PROVE acceptedC = ranC /\ acceptedE = ranE
    BY DEF JoinedClean
  <2>1. NoWork /\ current = None
    BY DEF IInv, TypeOK, Phases
  <2> QED
    BY <2>1, AllRan
<1> QED
  BY Invariance, <1>1, PTL

(* wait_idle returns true only when every accepted callback has run.       *)
THEOREM WaitIdleSoundHolds == Spec => WaitIdleSound
<1>1. IInv /\ [Next]_vars =>
        [idler # "idle" /\ idler' = "idle" => acceptedC = ranC /\ acceptedE = ranE]_vars
  <2> SUFFICES ASSUME IInv, Next, idler # "idle", idler' = "idle"
               PROVE  acceptedC = ranC /\ acceptedE = ranE
    OBVIOUS
  <2>1. WaitIdle \/ WaitIdleTimeout
    BY DEF Next, Start, StartWait, StopRequest, Join, Enqueue, EnqueueEvent, WaitIdleDone,
           SpuriousWakeup, LuaStep, LuaOnCommand, LuaOnEvent, WorkerStep, Initialized,
           WorkerSleep, WorkerLeave, TakeCommand, TakeEvent, CallbackReturn, CallbackDone,
           WorkerExit
  <2>2. Idle
    BY <2>1 DEF WaitIdle, WaitIdleTimeout
  <2>3. NoWork /\ current = None
    BY <2>2 DEF Idle, IInv, TypeOK, Phases
  <2> QED
    BY <2>3, AllRan
<1> QED
  BY Invariance, <1>1, PTL DEF Spec, WaitIdleSound
=============================================================================
