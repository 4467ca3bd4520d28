----------------------------- MODULE FifoQueue -----------------------------
(***************************************************************************)
(* What MpmcQueue promises: a bounded first-in first-out queue.  An item   *)
(* is in exactly one place, a thread's hand or the queue; a successful     *)
(* push moves it from the hand to the back, a successful pop from the      *)
(* front to a hand.                                                        *)
(***************************************************************************)
EXTENDS Naturals, Sequences

CONSTANTS Threads, Items, NoItem, Bound

VARIABLES queue, hand

FifoInit == queue = <<>> /\ hand = [t \in Threads |-> NoItem]

\* The caller brings a new item, or goes away with the one in its hand.
Bring(t) ==
    /\ hand[t] = NoItem
    /\ \E item \in Items : hand' = [hand EXCEPT ![t] = item]
    /\ UNCHANGED queue

Keep(t) == hand' = [hand EXCEPT ![t] = NoItem] /\ UNCHANGED queue

Put(t) ==
    /\ hand[t] # NoItem
    /\ Len(queue) < Bound
    /\ queue' = Append(queue, hand[t])
    /\ hand' = [hand EXCEPT ![t] = NoItem]

Get(t) ==
    /\ hand[t] = NoItem
    /\ queue # <<>>
    /\ queue' = Tail(queue)
    /\ hand' = [hand EXCEPT ![t] = Head(queue)]

FifoNext == \E t \in Threads : Bring(t) \/ Keep(t) \/ Put(t) \/ Get(t)

FifoSpec == FifoInit /\ [][FifoNext]_<<queue, hand>>
=============================================================================
