----------------------------- MODULE MpmcQueue -----------------------------
(***************************************************************************)
(* MpmcQueue, the lock-free ring of slots with sequence numbers.  Each     *)
(* action is one atomic access to memory; a push or pop is a walk of its   *)
(* thread through the labels in `pc`.  The write or read of a slot's data  *)
(* and the release store after it are one step: no other thread looks at   *)
(* the data before the store.                                              *)
(*                                                                         *)
(* head_ and tail_ are read relaxed: a stale value is one read earlier by  *)
(* a thread that then waited, which the interleaving includes.  A spurious *)
(* failure of the weak compare-exchange goes back to the same slot and is  *)
(* left out.                                                               *)
(***************************************************************************)
EXTENDS Integers, Sequences

CONSTANTS Threads,
          NoItem,
          capacity_           \* a power of two

VARIABLES head_, tail_,
          buffer_,            \* slot -> [sequence, data]
          pc,                 \* where each thread is
          pos,                \* local `pos` of a push or pop, 0 outside
          data                \* item a thread holds

ringVars == <<head_, tail_, buffer_, pc, pos, data>>

Slot(p) == p % capacity_

Goto(t, label) == pc' = [pc EXCEPT ![t] = label]

-----------------------------------------------------------------------------
\* try_push(data[t]): from "push" to "pushed" or "full".

push_load(t) ==
    /\ pc[t] = "push"
    /\ pos' = [pos EXCEPT ![t] = head_]
    /\ Goto(t, "push_slot")
    /\ UNCHANGED <<head_, tail_, buffer_, data>>

push_slot(t) ==
    LET diff == buffer_[Slot(pos[t])].sequence - pos[t]
    IN  /\ pc[t] = "push_slot"
        /\ Goto(t, IF diff = 0 THEN "push_claim" ELSE IF diff < 0 THEN "full" ELSE "push_slot")
        /\ pos' = [pos EXCEPT ![t] = IF diff = 0 THEN @ ELSE IF diff < 0 THEN 0 ELSE head_]
        /\ UNCHANGED <<head_, tail_, buffer_, data>>

\* Variant: head_ is stored without comparing it.
push_claim_store(t) ==
    /\ pc[t] = "push_claim"
    /\ head_' = pos[t] + 1
    /\ Goto(t, "push_data")
    /\ UNCHANGED <<tail_, buffer_, pos, data>>

push_claim(t) ==
    /\ pc[t] = "push_claim"
    /\ \/ /\ head_ = pos[t]
          /\ head_' = pos[t] + 1
          /\ Goto(t, "push_data")
          /\ UNCHANGED pos
       \/ /\ head_ # pos[t]
          /\ pos' = [pos EXCEPT ![t] = head_]
          /\ Goto(t, "push_slot")
          /\ UNCHANGED head_
    /\ UNCHANGED <<tail_, buffer_, data>>

push_data(t) ==
    /\ pc[t] = "push_data"
    /\ buffer_' = [buffer_ EXCEPT ![Slot(pos[t])] = [sequence |-> pos[t] + 1, data |-> data[t]]]
    /\ data' = [data EXCEPT ![t] = NoItem]
    /\ pos' = [pos EXCEPT ![t] = 0]
    /\ Goto(t, "pushed")
    /\ UNCHANGED <<head_, tail_>>

try_push(t) == push_load(t) \/ push_slot(t) \/ push_claim(t) \/ push_data(t)

-----------------------------------------------------------------------------
\* try_pop: from "pop" to "popped", with the item in data[t], or "empty".

pop_load(t) ==
    /\ pc[t] = "pop"
    /\ pos' = [pos EXCEPT ![t] = tail_]
    /\ Goto(t, "pop_slot")
    /\ UNCHANGED <<head_, tail_, buffer_, data>>

pop_slot(t) ==
    LET diff == buffer_[Slot(pos[t])].sequence - (pos[t] + 1)
    IN  /\ pc[t] = "pop_slot"
        /\ Goto(t, IF diff = 0 THEN "pop_claim" ELSE IF diff < 0 THEN "empty" ELSE "pop_slot")
        /\ pos' = [pos EXCEPT ![t] = IF diff = 0 THEN @ ELSE IF diff < 0 THEN 0 ELSE tail_]
        /\ UNCHANGED <<head_, tail_, buffer_, data>>

pop_claim(t) ==
    /\ pc[t] = "pop_claim"
    /\ \/ /\ tail_ = pos[t]
          /\ tail_' = pos[t] + 1
          /\ Goto(t, "pop_data")
          /\ UNCHANGED pos
       \/ /\ tail_ # pos[t]
          /\ pos' = [pos EXCEPT ![t] = tail_]
          /\ Goto(t, "pop_slot")
          /\ UNCHANGED tail_
    /\ UNCHANGED <<head_, buffer_, data>>

\* Variant: the slot is not recycled.
pop_data_kept(t) ==
    /\ pc[t] = "pop_data"
    /\ data' = [data EXCEPT ![t] = buffer_[Slot(pos[t])].data]
    /\ buffer_' = [buffer_ EXCEPT ![Slot(pos[t])].data = NoItem]
    /\ pos' = [pos EXCEPT ![t] = 0]
    /\ Goto(t, "popped")
    /\ UNCHANGED <<head_, tail_>>

\* Variant: the slot is recycled for a lap in the wrong direction.
pop_data_back(t) ==
    /\ pc[t] = "pop_data"
    /\ data' = [data EXCEPT ![t] = buffer_[Slot(pos[t])].data]
    /\ buffer_' = [buffer_ EXCEPT ![Slot(pos[t])] =
                      [sequence |-> pos[t] - capacity_, data |-> NoItem]]
    /\ pos' = [pos EXCEPT ![t] = 0]
    /\ Goto(t, "popped")
    /\ UNCHANGED <<head_, tail_>>

\* The move leaves the slot's data behind, but nothing reads it again.
pop_data(t) ==
    /\ pc[t] = "pop_data"
    /\ data' = [data EXCEPT ![t] = buffer_[Slot(pos[t])].data]
    /\ buffer_' = [buffer_ EXCEPT ![Slot(pos[t])] =
                      [sequence |-> pos[t] + capacity_, data |-> NoItem]]
    /\ pos' = [pos EXCEPT ![t] = 0]
    /\ Goto(t, "popped")
    /\ UNCHANGED <<head_, tail_>>

try_pop(t) == pop_load(t) \/ pop_slot(t) \/ pop_claim(t) \/ pop_data(t)

RingInit ==
    /\ head_ = 0
    /\ tail_ = 0
    /\ buffer_ = [i \in 0..capacity_ - 1 |-> [sequence |-> i, data |-> NoItem]]
    /\ pc = [t \in Threads |-> "idle"]
    /\ pos = [t \in Threads |-> 0]
    /\ data = [t \in Threads |-> NoItem]

-----------------------------------------------------------------------------
\* The queue the ring stands for: an item enters it when its position is claimed.

Published(p) == buffer_[Slot(p)].sequence = p + 1

ItemAt(p) ==
    LET claimed == {t \in Threads : pc[t] = "push_data" /\ pos[t] = p}
    IN  IF Published(p) THEN buffer_[Slot(p)].data
        ELSE IF claimed # {} THEN data[CHOOSE t \in claimed : TRUE] ELSE NoItem

Queue == [i \in 1..head_ - tail_ |-> ItemAt(tail_ + i - 1)]

Hand == [t \in Threads |-> CASE pc[t] = "push_data" -> NoItem
                             [] pc[t] = "pop_data" -> buffer_[Slot(pos[t])].data
                             [] OTHER -> data[t]]
=============================================================================
