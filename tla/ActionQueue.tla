---------------------------- MODULE ActionQueue ----------------------------
(***************************************************************************)
(* palmod::ActionQueue (native/src/action_queue.cpp): the bounded queue    *)
(* that carries palmod.call from the plugin worker threads to the game     *)
(* thread.  push and each pop hold mu_, so each is one step; drain checks  *)
(* its thread under mu_, releases it, and then pops one action at a time   *)
(* and executes it with mu_ released, so pushes and other drains           *)
(* interleave with it.                                                     *)
(***************************************************************************)
EXTENDS Naturals, Sequences, FiniteSets

CONSTANTS
  Workers,      \* plugin worker threads: the callers of push
  Threads,      \* threads that call drain: the one running GEngine::Tick, and strays
  NoThread,     \* std::thread::id{}
  NoAction,     \* a default-constructed SemanticAction
  Capacity,     \* capacity_ (1024)
  MaxActions,   \* max_actions of one drain (128)
  MaxIssue      \* bound: how many actions each worker issues

ASSUME ActionQueueAssumptions ==
  /\ NoThread \notin Threads
  /\ Capacity \in Nat \ {0}
  /\ MaxActions \in Nat \ {0}
  /\ MaxIssue \in Nat
  /\ NoAction \notin Workers \X (1..MaxIssue)

VARIABLES
  queue,        \* queue_
  dropped,      \* dropped_
  gameThread,   \* game_thread_
  pc,           \* where each thread is in drain
  processed,    \* drain's local count
  action,       \* drain's local action
  returned,     \* what the thread's last drain returned
  issued,       \* how many actions each worker has passed to push
  accepted,     \* history: the actions push accepted, in order
  executed,     \* history: the actions executor finished, in order
  executors     \* history: the threads that ran executor

vars == <<queue, dropped, gameThread, pc, processed, action, returned,
          issued, accepted, executed, executors>>

Action == Workers \X (1..MaxIssue)

Init ==
  /\ queue = <<>>
  /\ dropped = 0
  /\ gameThread = NoThread
  /\ pc = [t \in Threads |-> "idle"]
  /\ processed = [t \in Threads |-> 0]
  /\ action = [t \in Threads |-> NoAction]
  /\ returned = [t \in Threads |-> 0]
  /\ issued = [w \in Workers |-> 0]
  /\ accepted = <<>>
  /\ executed = <<>>
  /\ executors = {}

-----------------------------------------------------------------------------
(* Mutants of Full: push's size check is off by one, in either direction. *)
FullTooLate == Len(queue) > Capacity
FullTooEarly == Len(queue) + 1 >= Capacity

(* push refuses an action when the queue holds capacity_ of them. *)
Full == Len(queue) >= Capacity

(* Mutant of MayDrain: drain does not compare thread ids. *)
AnyoneMayDrain(t) == TRUE

(* drain runs on the first thread that called it, and on no other. *)
MayDrain(t) == gameThread \in {NoThread, t}

(* Mutant of MoreToDo: the loop leaves the last action. *)
LastNotToDo(t) == processed[t] < MaxActions /\ Len(queue) > 1

(* drain's loop condition. *)
MoreToDo(t) == processed[t] < MaxActions /\ queue # <<>>

(* Mutants of Front and Rest: the wrong end, and a front that is not removed. *)
Back == queue[Len(queue)]
AllOfIt == queue

(* queue_.front() and what pop_front() leaves. *)
Front == Head(queue)
Rest == Tail(queue)

(* bind_game_thread(): the test programs and the fake server call it, from *)
(* the thread that will drain, before anything is drained.                 *)
BindGameThread(t) ==
  /\ gameThread = NoThread
  /\ gameThread' = t
  /\ UNCHANGED <<queue, dropped, pc, processed, action, returned, issued,
                 accepted, executed, executors>>

(* push(action) by worker w: refused and counted when the queue is full. *)
Push(w) ==
  /\ issued[w] < MaxIssue
  /\ issued' = [issued EXCEPT ![w] = @ + 1]
  /\ LET a == <<w, issued[w] + 1>>
     IN  \/ /\ Full
            /\ dropped' = dropped + 1
            /\ UNCHANGED <<queue, accepted>>
         \/ /\ ~Full
            /\ queue' = Append(queue, a)
            /\ accepted' = Append(accepted, a)
            /\ UNCHANGED dropped
  /\ UNCHANGED <<gameThread, pc, processed, action, returned, executed, executors>>

(* drain: the first draining thread becomes the game thread. *)
DrainEnter(t) ==
  /\ pc[t] = "idle"
  /\ MayDrain(t)
  /\ gameThread' = t
  /\ pc' = [pc EXCEPT ![t] = "loop"]
  /\ processed' = [processed EXCEPT ![t] = 0]
  /\ UNCHANGED <<queue, dropped, action, returned, issued, accepted, executed, executors>>

(* drain on any other thread is refused and returns 0. *)
DrainRefused(t) ==
  /\ pc[t] = "idle"
  /\ ~MayDrain(t)
  /\ returned' = [returned EXCEPT ![t] = 0]
  /\ UNCHANGED <<queue, dropped, gameThread, pc, processed, action, issued,
                 accepted, executed, executors>>

(* One turn of the loop takes the front action under mu_ ... *)
DrainPop(t) ==
  /\ pc[t] = "loop"
  /\ MoreToDo(t)
  /\ action' = [action EXCEPT ![t] = Front]
  /\ queue' = Rest
  /\ pc' = [pc EXCEPT ![t] = "execute"]
  /\ UNCHANGED <<dropped, gameThread, processed, returned, issued, accepted,
                 executed, executors>>

(* ... and executes it with mu_ released. *)
DrainExecute(t) ==
  /\ pc[t] = "execute"
  /\ executed' = Append(executed, action[t])
  /\ executors' = executors \cup {t}
  /\ processed' = [processed EXCEPT ![t] = @ + 1]
  /\ action' = [action EXCEPT ![t] = NoAction]
  /\ pc' = [pc EXCEPT ![t] = "loop"]
  /\ UNCHANGED <<queue, dropped, gameThread, returned, issued, accepted>>

(* The loop ends at max_actions or on an empty queue. *)
DrainReturn(t) ==
  /\ pc[t] = "loop"
  /\ ~MoreToDo(t)
  /\ returned' = [returned EXCEPT ![t] = processed[t]]
  /\ pc' = [pc EXCEPT ![t] = "idle"]
  /\ UNCHANGED <<queue, dropped, gameThread, processed, action, issued, accepted,
                 executed, executors>>

Drain(t) ==
  \/ DrainEnter(t)
  \/ DrainRefused(t)
  \/ DrainPop(t)
  \/ DrainExecute(t)
  \/ DrainReturn(t)

Next ==
  \/ \E t \in Threads : BindGameThread(t)
  \/ \E w \in Workers : Push(w)
  \/ \E t \in Threads : Drain(t)

Spec == Init /\ [][Next]_vars

(* The engine calls Tick on its thread every frame, and executor returns:  *)
(* a draining thread keeps draining.  Nothing makes a plugin push.         *)
Fairness == \A t \in Threads : WF_vars(Drain(t))

FairSpec == Spec /\ Fairness

-----------------------------------------------------------------------------
TypeOK ==
  /\ queue \in Seq(Action)
  /\ dropped \in Nat
  /\ gameThread \in Threads \cup {NoThread}
  /\ pc \in [Threads -> {"idle", "loop", "execute"}]
  /\ processed \in [Threads -> 0..MaxActions]
  /\ action \in [Threads -> Action \cup {NoAction}]
  /\ returned \in [Threads -> 0..MaxActions]
  /\ issued \in [Workers -> 0..MaxIssue]
  /\ accepted \in Seq(Action)
  /\ executed \in Seq(Action)
  /\ executors \in SUBSET Threads

(* The action the game thread has popped and not finished. *)
InFlight ==
  IF gameThread \in Threads /\ pc[gameThread] = "execute"
  THEN <<action[gameThread]>>
  ELSE <<>>

(***************************************************************************)
(* Every accepted action is in exactly one place: already executed, being  *)
(* executed, or still queued, in the order push accepted them.  So drain,  *)
(* which releases mu_ around every executor call, never loses, repeats or  *)
(* reorders a palmod.call while workers push concurrently.                 *)
(***************************************************************************)
ExecutionOrder == accepted = executed \o InFlight \o queue

(***************************************************************************)
(* Game functions run on one thread only: every thread inside drain's loop *)
(* is the bound game thread, and so is every thread that ever ran executor.*)
(***************************************************************************)
OneGameThread ==
  /\ \A t \in Threads : pc[t] # "idle" => t = gameThread
  /\ executors \subseteq {gameThread}

(***************************************************************************)
(* At most capacity_ accepted actions wait, and at most one more, popped   *)
(* and in flight outside mu_, has not finished.                            *)
(***************************************************************************)
Backlog ==
  /\ Len(queue) <= Capacity
  /\ Len(accepted) <= Len(executed) + Capacity + 1

(* s holds the actions of each worker in the order it issued them. *)
InIssueOrder(s) ==
  \A i, j \in 1..Len(s) : i < j /\ s[i][1] = s[j][1] => s[i][2] < s[j][2]

(***************************************************************************)
(* The palmod.calls of one plugin take effect in the order in which the    *)
(* plugin issued them and none takes effect twice, whatever the other      *)
(* plugins push and whichever of its calls were refused by a full queue.   *)
(***************************************************************************)
PluginOrder == InIssueOrder(executed)

(***************************************************************************)
(* The inductive invariant behind the above: a thread about to execute     *)
(* holds a real action and still has room under max_actions, and the       *)
(* accepted history is in issue order and bounded by what was issued.      *)
(***************************************************************************)
ActionInHand ==
  \A t \in Threads :
    pc[t] = "execute" => action[t] \in Action /\ processed[t] < MaxActions

AcceptedInOrder ==
  /\ InIssueOrder(accepted)
  /\ \A i \in 1..Len(accepted) : accepted[i][2] <= issued[accepted[i][1]]

IInv ==
  /\ TypeOK
  /\ ActionInHand
  /\ OneGameThread
  /\ ExecutionOrder
  /\ Len(queue) <= Capacity
  /\ AcceptedInOrder

(***************************************************************************)
(* Every action push accepted is executed, however often a frame's drain   *)
(* stops at max_actions with work left over.                               *)
(***************************************************************************)
AcceptedExecutes ==
  \A n \in 1..(MaxIssue * Cardinality(Workers)) :
    (Len(accepted) >= n) ~> (Len(executed) >= n)

(***************************************************************************)
(* The queue implements the abstract channel: the pending actions are the  *)
(* one in flight followed by the queue.                                    *)
(***************************************************************************)
Channel == INSTANCE ActionChannel
             WITH Actions <- Action, Capacity <- Capacity,
                  pending <- InFlight \o queue, done <- executed, lost <- dropped

ImplementsChannel == Channel!ChannelSpec

=============================================================================
