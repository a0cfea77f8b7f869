------------------------- MODULE ActionQueueProofs -------------------------
(***************************************************************************)
(* Proofs about ActionQueue for every number of workers and threads, every *)
(* capacity and every max_actions: the inductive invariant IInv, the       *)
(* safety properties that follow from it, and the step simulation of       *)
(* ActionChannel.                                                          *)
(***************************************************************************)
EXTENDS ActionQueue, SequenceTheorems, TLAPS

(* An action a worker issues within the bound MaxIssue is an action.       *)
LEMMA IssuedAction ==
  ASSUME TypeOK, NEW w \in Workers, issued[w] < MaxIssue
  PROVE  <<w, issued[w] + 1>> \in Action
BY ActionQueueAssumptions DEF TypeOK, Action

(* What drain has popped is a sequence of at most one action.              *)
LEMMA InFlightType ==
  ASSUME TypeOK, ActionInHand
  PROVE  InFlight \in Seq(Action) /\ Len(InFlight) <= 1
BY DEF TypeOK, ActionInHand, InFlight

-----------------------------------------------------------------------------
(* Nothing is queued, running or executed before the first push.           *)
LEMMA InitIInv == Init => IInv
<1> SUFFICES ASSUME Init PROVE IInv
  OBVIOUS
<1>1. TypeOK
  BY ActionQueueAssumptions DEF Init, TypeOK
<1>2. ActionInHand /\ OneGameThread
  BY DEF Init, ActionInHand, OneGameThread
<1>3. ExecutionOrder
  BY DEF Init, ExecutionOrder, InFlight
<1>4. Len(queue) <= Capacity /\ AcceptedInOrder
  BY ActionQueueAssumptions DEF Init, AcceptedInOrder, InIssueOrder
<1> QED
  BY <1>1, <1>2, <1>3, <1>4 DEF IInv

(* bind_game_thread leaves the queue alone; nobody is inside drain yet.    *)
LEMMA BindKeepsIInv ==
  ASSUME IInv, NEW t \in Threads, BindGameThread(t)
  PROVE  IInv'
<1> USE DEF IInv, BindGameThread
<1>1. TypeOK'
  BY DEF TypeOK
<1>2. \A s \in Threads : pc[s] = "idle"
  BY ActionQueueAssumptions DEF TypeOK, OneGameThread
<1>3. ActionInHand' /\ AcceptedInOrder' /\ (Len(queue) <= Capacity)'
  BY DEF ActionInHand, AcceptedInOrder, InIssueOrder
<1>4. executors = {}
  BY ActionQueueAssumptions DEF TypeOK, OneGameThread
<1>5. OneGameThread'
  BY <1>2, <1>4 DEF OneGameThread
<1>6. ExecutionOrder'
  BY <1>2, ActionQueueAssumptions DEF TypeOK, ExecutionOrder, InFlight
<1> QED
  BY <1>1, <1>3, <1>5, <1>6

(* push appends under mu_ or refuses; the issue number is fresh.           *)
LEMMA PushKeepsIInv ==
  ASSUME IInv, NEW w \in Workers, Push(w)
  PROVE  IInv'
<1> DEFINE a == <<w, issued[w] + 1>>
<1>1. a \in Action
  BY IssuedAction DEF IInv, Push
<1>2. TypeOK'
  <2>1. issued' \in [Workers -> 0..MaxIssue]
    BY ActionQueueAssumptions DEF IInv, TypeOK, Push
  <2>2. dropped' \in Nat /\ queue' \in Seq(Action) /\ accepted' \in Seq(Action)
    <3> HIDE DEF a
    <3>1. CASE UNCHANGED <<queue, accepted>> /\ dropped' = dropped + 1
      BY <3>1 DEF IInv, TypeOK
    <3>2. CASE queue' = Append(queue, a) /\ accepted' = Append(accepted, a)
                 /\ dropped' = dropped
      BY <1>1, <3>2 DEF IInv, TypeOK
    <3> QED
      BY <3>1, <3>2 DEF Push, a
  <2> QED
    BY <2>1, <2>2 DEF IInv, TypeOK, Push
<1>3. ActionInHand' /\ OneGameThread'
  BY DEF IInv, Push, ActionInHand, OneGameThread
<1>4. InFlight' = InFlight
  BY DEF Push, InFlight
<1>5. ExecutionOrder'
  <2>1. CASE UNCHANGED <<queue, accepted>>
    BY <1>4, <2>1 DEF IInv, Push, ExecutionOrder
  <2>2. CASE queue' = Append(queue, a) /\ accepted' = Append(accepted, a)
    <3>1. executed \in Seq(Action) /\ InFlight \in Seq(Action) /\ queue \in Seq(Action)
      BY InFlightType DEF IInv, TypeOK
    <3> HIDE DEF a
    <3>2. Append(executed \o InFlight \o queue, a) = executed \o InFlight \o Append(queue, a)
      BY <1>1, <3>1, SMTT(60)
    <3> QED
      BY <1>4, <2>2, <3>2 DEF IInv, Push, ExecutionOrder
  <2> QED
    BY <2>1, <2>2 DEF Push
<1>6. (Len(queue) <= Capacity)'
  BY <1>1, ActionQueueAssumptions DEF IInv, TypeOK, Push, Full
<1>7. AcceptedInOrder'
  <2>1. issued' = [issued EXCEPT ![w] = @ + 1] /\ issued[w] \in Nat
    BY ActionQueueAssumptions DEF IInv, TypeOK, Push
  <2>2. \A v \in Workers : issued[v] <= issued'[v]
    BY <2>1 DEF IInv, TypeOK
  <2>3. \A i \in 1..Len(accepted) : accepted[i] \in Action
    BY DEF IInv, TypeOK
  <2>4. \A i \in 1..Len(accepted) : accepted[i][1] \in Workers /\ accepted[i][2] \in Nat
    BY <2>3, ActionQueueAssumptions DEF Action
  <2>5. \A v \in Workers : issued[v] \in Nat /\ issued'[v] \in Nat
    BY <1>2, ActionQueueAssumptions DEF IInv, TypeOK
  <2>6. \A i \in 1..Len(accepted) : accepted[i][2] <= issued'[accepted[i][1]]
    BY <2>2, <2>4, <2>5 DEF IInv, AcceptedInOrder
  <2>7. CASE accepted' = accepted
    BY <2>6, <2>7 DEF IInv, AcceptedInOrder, InIssueOrder
  <2>8. CASE accepted' = Append(accepted, a)
    <3>1. Len(accepted') = Len(accepted) + 1 /\ Len(accepted) \in Nat
      BY <1>1, <2>8 DEF IInv, TypeOK
    <3>2. \A i \in 1..Len(accepted) : accepted'[i] = accepted[i]
      BY <1>1, <2>8 DEF IInv, TypeOK
    <3>3. accepted'[Len(accepted) + 1] = a /\ a[1] = w /\ a[2] = issued[w] + 1
      BY <1>1, <2>8 DEF IInv, TypeOK
    <3>4. \A i \in 1..Len(accepted) : accepted[i][1] = w => accepted[i][2] < a[2]
      BY <2>4, <2>5, <3>3 DEF IInv, AcceptedInOrder
    <3> HIDE DEF a
    <3>5. InIssueOrder(accepted)'
      BY <3>1, <3>2, <3>3, <3>4 DEF IInv, AcceptedInOrder, InIssueOrder
    <3>6. issued'[w] = a[2]
      BY <2>1, <3>3 DEF IInv, TypeOK
    <3>7. \A i \in 1..(Len(accepted) + 1) : accepted'[i][2] <= issued'[accepted'[i][1]]
      BY <2>5, <2>6, <3>1, <3>2, <3>3, <3>6
    <3> QED
      BY <3>1, <3>5, <3>7 DEF AcceptedInOrder
  <2> QED
    BY <2>7, <2>8 DEF Push
<1> QED
  BY <1>2, <1>3, <1>5, <1>6, <1>7 DEF IInv

(* A thread enters drain's loop only as the game thread, with count 0.     *)
LEMMA EnterKeepsIInv ==
  ASSUME IInv, NEW t \in Threads, DrainEnter(t)
  PROVE  IInv'
<1> USE DEF IInv, DrainEnter, MayDrain
<1>1. TypeOK'
  BY ActionQueueAssumptions DEF TypeOK
<1>2. \A s \in Threads : s # t => pc[s] = "idle"
  BY ActionQueueAssumptions DEF TypeOK, OneGameThread
<1>3. ActionInHand' /\ AcceptedInOrder' /\ (Len(queue) <= Capacity)'
  BY DEF TypeOK, ActionInHand, AcceptedInOrder, InIssueOrder
<1>4. OneGameThread'
  BY <1>2, ActionQueueAssumptions DEF TypeOK, OneGameThread
<1>5. InFlight = <<>> /\ InFlight' = <<>>
  BY ActionQueueAssumptions DEF TypeOK, InFlight
<1>6. ExecutionOrder'
  BY <1>5 DEF ExecutionOrder
<1> QED
  BY <1>1, <1>3, <1>4, <1>6

(* A refused drain changes nothing the invariant speaks of.                *)
LEMMA RefusedKeepsIInv ==
  ASSUME IInv, NEW t \in Threads, DrainRefused(t)
  PROVE  IInv'
<1> USE DEF IInv, DrainRefused
<1>1. TypeOK'
  BY ActionQueueAssumptions DEF TypeOK
<1>2. ActionInHand' /\ OneGameThread'
  BY DEF ActionInHand, OneGameThread
<1>3. InFlight' = InFlight
  BY DEF InFlight
<1>4. ExecutionOrder' /\ (Len(queue) <= Capacity)' /\ AcceptedInOrder'
  BY <1>3 DEF ExecutionOrder, AcceptedInOrder, InIssueOrder
<1> QED
  BY <1>1, <1>2, <1>4

(* Popping moves the head of the queue into flight.                        *)
LEMMA PopKeepsIInv ==
  ASSUME IInv, NEW t \in Threads, DrainPop(t)
  PROVE  IInv'
<1> USE DEF IInv, DrainPop, MoreToDo, Front, Rest
<1>1. Head(queue) \in Action /\ Tail(queue) \in Seq(Action)
        /\ Len(Tail(queue)) = Len(queue) - 1 /\ Len(queue) \in Nat
  BY DEF TypeOK
<1>2. TypeOK'
  BY <1>1 DEF TypeOK
<1>3. ActionInHand'
  BY <1>1 DEF TypeOK, ActionInHand
<1>4. t = gameThread /\ OneGameThread'
  BY DEF TypeOK, OneGameThread
<1>5. InFlight = <<>> /\ InFlight' = <<Head(queue)>>
  BY <1>4 DEF TypeOK, InFlight
<1>6. executed \o <<Head(queue)>> \o Tail(queue) = executed \o <<>> \o queue
  BY DEF TypeOK
<1>7. ExecutionOrder'
  BY <1>5, <1>6 DEF ExecutionOrder
<1>8. (Len(queue) <= Capacity)' /\ AcceptedInOrder'
  BY <1>1, ActionQueueAssumptions DEF AcceptedInOrder, InIssueOrder
<1> QED
  BY <1>2, <1>3, <1>4, <1>7, <1>8

(* Executing moves the action in flight to the end of the history.         *)
LEMMA ExecuteKeepsIInv ==
  ASSUME IInv, NEW t \in Threads, DrainExecute(t)
  PROVE  IInv'
<1> USE DEF IInv, DrainExecute
<1>1. action[t] \in Action /\ processed[t] < MaxActions
  BY DEF ActionInHand
<1>2. TypeOK'
  BY <1>1, ActionQueueAssumptions DEF TypeOK
<1>3. ActionInHand'
  BY DEF TypeOK, ActionInHand
<1>4. t = gameThread /\ OneGameThread'
  BY DEF TypeOK, OneGameThread
<1>5. InFlight = <<action[t]>> /\ InFlight' = <<>>
  BY <1>4 DEF TypeOK, InFlight
<1>6. executed \o <<action[t]>> \o queue = Append(executed, action[t]) \o <<>> \o queue
  <2>1. \A e \in Action : executed \o <<e>> \o queue = Append(executed, e) \o <<>> \o queue
    BY DEF TypeOK
  <2> QED
    BY <1>1, <2>1
<1>7. ExecutionOrder'
  BY <1>5, <1>6 DEF ExecutionOrder
<1>8. (Len(queue) <= Capacity)' /\ AcceptedInOrder'
  BY DEF AcceptedInOrder, InIssueOrder
<1> QED
  BY <1>2, <1>3, <1>4, <1>7, <1>8

(* Returning from drain leaves nothing in flight.                          *)
LEMMA ReturnKeepsIInv ==
  ASSUME IInv, NEW t \in Threads, DrainReturn(t)
  PROVE  IInv'
<1> USE DEF IInv, DrainReturn
<1>1. TypeOK' /\ ActionInHand' /\ OneGameThread'
  BY DEF TypeOK, ActionInHand, OneGameThread
<1>2. InFlight' = InFlight
  BY DEF TypeOK, InFlight
<1>3. ExecutionOrder' /\ (Len(queue) <= Capacity)' /\ AcceptedInOrder'
  BY <1>2 DEF ExecutionOrder, AcceptedInOrder, InIssueOrder
<1> QED
  BY <1>1, <1>3

(* A step that changes no variable keeps the invariant.                    *)
LEMMA StutterKeepsIInv ==
  ASSUME IInv, UNCHANGED vars
  PROVE  IInv'
BY DEF IInv, vars, TypeOK, ActionInHand, OneGameThread, ExecutionOrder, InFlight,
       AcceptedInOrder, InIssueOrder

(* IInv is inductive: one case per operation of the queue.                 *)
LEMMA NextIInv == IInv /\ [Next]_vars => IInv'
<1> SUFFICES ASSUME IInv, [Next]_vars PROVE IInv'
  OBVIOUS
<1>1. ASSUME NEW t \in Threads, BindGameThread(t) PROVE IInv'
  BY <1>1, BindKeepsIInv
<1>2. ASSUME NEW w \in Workers, Push(w) PROVE IInv'
  BY <1>2, PushKeepsIInv
<1>3. ASSUME NEW t \in Threads, Drain(t) PROVE IInv'
  BY <1>3, EnterKeepsIInv, RefusedKeepsIInv, PopKeepsIInv, ExecuteKeepsIInv,
     ReturnKeepsIInv DEF Drain
<1>4. CASE UNCHANGED vars
  BY <1>4, StutterKeepsIInv
<1> QED
  BY <1>1, <1>2, <1>3, <1>4 DEF Next

(***************************************************************************)
(* The inductive invariant holds in every reachable state of the queue.    *)
(***************************************************************************)
THEOREM Invariance == Spec => []IInv
BY InitIInv, NextIInv, PTL DEF Spec

(***************************************************************************)
(* Type correctness of the action queue.                                   *)
(***************************************************************************)
THEOREM TypeCorrect == Spec => []TypeOK
<1>1. IInv => TypeOK
  BY DEF IInv
<1> QED
  BY <1>1, Invariance, PTL

(***************************************************************************)
(* No accepted palmod.call is lost, repeated or reordered by drain.        *)
(***************************************************************************)
THEOREM ExecutionOrderHolds == Spec => []ExecutionOrder
<1>1. IInv => ExecutionOrder
  BY DEF IInv
<1> QED
  BY <1>1, Invariance, PTL

(***************************************************************************)
(* Game functions are only ever executed on one thread.                    *)
(***************************************************************************)
THEOREM OneGameThreadHolds == Spec => []OneGameThread
<1>1. IInv => OneGameThread
  BY DEF IInv
<1> QED
  BY <1>1, Invariance, PTL

(***************************************************************************)
(* At most capacity_ actions wait and at most one more is unfinished.      *)
(***************************************************************************)
THEOREM BacklogHolds == Spec => []Backlog
<1>1. IInv => Backlog
  <2> SUFFICES ASSUME IInv PROVE Backlog
    OBVIOUS
  <2>1. InFlight \in Seq(Action) /\ Len(InFlight) <= 1 /\ Len(InFlight) \in Nat
    BY InFlightType DEF IInv
  <2>2. executed \in Seq(Action) /\ queue \in Seq(Action)
    BY DEF IInv, TypeOK
  <2>3. Len(executed \o InFlight \o queue) = Len(executed) + Len(InFlight) + Len(queue)
    BY <2>1, <2>2
  <2>4. Len(accepted) = Len(executed) + Len(InFlight) + Len(queue)
    BY <2>3 DEF IInv, ExecutionOrder
  <2>5. Len(executed) \in Nat /\ Len(queue) \in Nat /\ Len(queue) <= Capacity
    BY <2>2 DEF IInv
  <2> QED
    BY <2>1, <2>4, <2>5, ActionQueueAssumptions DEF Backlog
<1> QED
  BY <1>1, Invariance, PTL

(***************************************************************************)
(* Each plugin's calls take effect in the order the plugin issued them.    *)
(***************************************************************************)
THEOREM PluginOrderHolds == Spec => []PluginOrder
<1>1. IInv => PluginOrder
  <2> SUFFICES ASSUME IInv PROVE PluginOrder
    OBVIOUS
  <2>1. InFlight \in Seq(Action) /\ executed \in Seq(Action) /\ queue \in Seq(Action)
    BY InFlightType DEF IInv, TypeOK
  <2> DEFINE all == executed \o InFlight \o queue
  <2>2. Len(executed) \in Nat /\ Len(all) \in Nat /\ Len(executed) <= Len(all)
    BY <2>1
  <2>3. \A i \in 1..Len(executed) : all[i] = executed[i]
    BY <2>1
  <2>4. accepted = all /\ InIssueOrder(accepted)
    BY DEF IInv, ExecutionOrder, AcceptedInOrder
  <2> HIDE DEF all
  <2> QED
    BY <2>2, <2>3, <2>4 DEF PluginOrder, InIssueOrder
<1> QED
  BY <1>1, Invariance, PTL

-----------------------------------------------------------------------------
(* The abstract pending actions: the one in flight, then the queue.        *)
Pending == InFlight \o queue

(* The pending actions are actions, at most one more than are queued.      *)
LEMMA PendingType ==
  ASSUME IInv
  PROVE  /\ InFlight \in Seq(Action) /\ queue \in Seq(Action)
         /\ Len(InFlight) \in Nat /\ Len(InFlight) <= 1 /\ Len(queue) \in Nat
         /\ Len(Pending) = Len(InFlight) + Len(queue)
<1>1. InFlight \in Seq(Action) /\ Len(InFlight) <= 1 /\ queue \in Seq(Action)
  BY InFlightType DEF IInv, TypeOK
<1>2. Len(InFlight) \in Nat /\ Len(queue) \in Nat
  BY <1>1
<1>3. Len(InFlight \o queue) = Len(InFlight) + Len(queue)
  BY <1>1
<1>4. Len(Pending) = Len(InFlight) + Len(queue)
  BY <1>3 DEF Pending
<1> QED
  BY <1>1, <1>2, <1>4

(* push is a Submit or a Refuse of the channel.                            *)
LEMMA PushSimulates ==
  ASSUME IInv, NEW w \in Workers, Push(w)
  PROVE  Channel!ChannelNext
<1> DEFINE a == <<w, issued[w] + 1>>
<1>1. a \in Action
  BY IssuedAction DEF IInv, Push
<1>2. InFlight' = InFlight
  BY DEF Push, InFlight
<1>3. CASE Full /\ dropped' = dropped + 1 /\ UNCHANGED queue
  <2>1. Len(Pending) >= Capacity
    BY <1>3, PendingType, ActionQueueAssumptions DEF Full
  <2>2. Channel!Refuse
    BY <1>2, <1>3, <2>1 DEF Channel!Refuse, Pending, Push
  <2> QED
    BY <2>2 DEF Channel!ChannelNext
<1>4. CASE ~Full /\ queue' = Append(queue, a) /\ UNCHANGED dropped
  <2>1. Len(Pending) <= Capacity
    <3>1. Len(queue) < Capacity
      BY <1>4, PendingType, ActionQueueAssumptions DEF Full
    <3>2. /\ Len(queue) \in Nat /\ Len(InFlight) \in Nat /\ Len(InFlight) <= 1
          /\ Len(Pending) = Len(InFlight) + Len(queue)
      BY PendingType
    <3> QED
      BY <3>1, <3>2, ActionQueueAssumptions
  <2>2. InFlight \o Append(queue, a) = Append(InFlight \o queue, a)
    <3>1. InFlight \in Seq(Action) /\ queue \in Seq(Action)
      BY PendingType
    <3> HIDE DEF a
    <3> QED
      BY <1>1, <3>1, SMTT(60)
  <2>3. Channel!Submit(a)
    BY <1>2, <1>4, <2>1, <2>2 DEF Channel!Submit, Pending, Push
  <2> QED
    BY <1>1, <2>3 DEF Channel!ChannelNext
<1> QED
  BY <1>3, <1>4 DEF Push

(* executor performs the oldest pending action.                            *)
LEMMA ExecuteSimulates ==
  ASSUME IInv, NEW t \in Threads, DrainExecute(t)
  PROVE  Channel!ChannelNext
<1>1. action[t] \in Action /\ queue \in Seq(Action) /\ t = gameThread
  BY DEF IInv, TypeOK, ActionInHand, OneGameThread, DrainExecute
<1>2. InFlight = <<action[t]>> /\ InFlight' = <<>> /\ queue' = queue
  BY <1>1 DEF IInv, TypeOK, InFlight, DrainExecute
<1>3. \A e \in Action : /\ <<e>> \o queue # <<>>
                        /\ Head(<<e>> \o queue) = e
                        /\ Tail(<<e>> \o queue) = <<>> \o queue
  BY <1>1
<1>4. Channel!Perform
  BY <1>1, <1>2, <1>3 DEF Channel!Perform, DrainExecute
<1> QED
  BY <1>4 DEF Channel!ChannelNext

(* Every other step leaves the channel as it is.                           *)
LEMMA OthersStutter ==
  ASSUME IInv,
         \/ UNCHANGED vars
         \/ \E t \in Threads : \/ BindGameThread(t)
                               \/ DrainEnter(t)
                               \/ DrainRefused(t)
                               \/ DrainPop(t)
                               \/ DrainReturn(t)
  PROVE  UNCHANGED Channel!channelVars
<1>1. CASE UNCHANGED vars
  BY <1>1 DEF vars, InFlight, Channel!channelVars
<1>2. ASSUME NEW t \in Threads, BindGameThread(t) PROVE UNCHANGED Channel!channelVars
  BY <1>2, ActionQueueAssumptions
     DEF IInv, TypeOK, OneGameThread, BindGameThread, InFlight, Channel!channelVars
<1>3. ASSUME NEW t \in Threads, DrainEnter(t) PROVE UNCHANGED Channel!channelVars
  BY <1>3, ActionQueueAssumptions
     DEF IInv, TypeOK, DrainEnter, MayDrain, InFlight, Channel!channelVars
<1>4. ASSUME NEW t \in Threads, DrainRefused(t) PROVE UNCHANGED Channel!channelVars
  BY <1>4 DEF DrainRefused, InFlight, Channel!channelVars
<1>5. ASSUME NEW t \in Threads, DrainPop(t) PROVE UNCHANGED Channel!channelVars
  <2>1. t = gameThread /\ queue \in Seq(Action) /\ queue # <<>>
    BY <1>5 DEF IInv, TypeOK, OneGameThread, DrainPop, MoreToDo
  <2>2. InFlight = <<>> /\ InFlight' = <<Head(queue)>> /\ queue' = Tail(queue)
    BY <1>5, <2>1 DEF IInv, TypeOK, DrainPop, Front, Rest, InFlight
  <2>3. <<Head(queue)>> \o Tail(queue) = <<>> \o queue
    BY <2>1
  <2> QED
    BY <1>5, <2>2, <2>3 DEF DrainPop, Channel!channelVars
<1>6. ASSUME NEW t \in Threads, DrainReturn(t) PROVE UNCHANGED Channel!channelVars
  BY <1>6 DEF IInv, TypeOK, DrainReturn, InFlight, Channel!channelVars
<1> QED
  BY <1>1, <1>2, <1>3, <1>4, <1>5, <1>6

(***************************************************************************)
(* The queue implements the abstract channel for every capacity and every  *)
(* number of workers and threads: each step of push and drain is a step of *)
(* ActionChannel or leaves it unchanged.                                   *)
(***************************************************************************)
THEOREM Refinement == Spec => ImplementsChannel
<1>1. Init => Channel!ChannelInit
  BY DEF Init, InFlight, Channel!ChannelInit
<1>2. IInv /\ [Next]_vars => [Channel!ChannelNext]_(Channel!channelVars)
  <2> SUFFICES ASSUME IInv, [Next]_vars
               PROVE  Channel!ChannelNext \/ UNCHANGED Channel!channelVars
    OBVIOUS
  <2> QED
    BY PushSimulates, ExecuteSimulates, OthersStutter DEF Next, Drain
<1> QED
  BY <1>1, <1>2, Invariance, PTL DEF Spec, ImplementsChannel, Channel!ChannelSpec

=============================================================================
