--------------------------- MODULE ActionChannel ---------------------------
(***************************************************************************)
(* What palmod::ActionQueue promises the plugins: palmod.call from a       *)
(* plugin worker becomes one execution on the game thread, in the order    *)
(* in which the calls were accepted, and a call is only refused (and       *)
(* counted) when the channel holds its full capacity.  One action more     *)
(* than Capacity can be pending: the one the game thread has popped and is *)
(* executing no longer occupies a place in the queue.                      *)
(***************************************************************************)
EXTENDS Naturals, Sequences

CONSTANTS
  Actions,   \* the actions plugins submit
  Capacity   \* ActionQueue::capacity_

VARIABLES
  pending,   \* accepted and not yet executed, oldest first
  done,      \* executed, in order
  lost       \* number of refused submissions

channelVars == <<pending, done, lost>>

ChannelInit ==
  /\ pending = <<>>
  /\ done = <<>>
  /\ lost = 0

Submit(a) ==
  /\ Len(pending) <= Capacity
  /\ pending' = Append(pending, a)
  /\ UNCHANGED <<done, lost>>

Refuse ==
  /\ Len(pending) >= Capacity
  /\ lost' = lost + 1
  /\ UNCHANGED <<pending, done>>

Perform ==
  /\ pending # <<>>
  /\ done' = Append(done, Head(pending))
  /\ pending' = Tail(pending)
  /\ UNCHANGED lost

ChannelNext ==
  \/ \E a \in Actions : Submit(a)
  \/ Refuse
  \/ Perform

ChannelSpec == ChannelInit /\ [][ChannelNext]_channelVars

=============================================================================
