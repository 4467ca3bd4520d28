--------------------------- MODULE LockFreeQueue ---------------------------
(***************************************************************************)
(* LockFreeQueue: an MpmcQueue whose pop() waits.  A pop spins and yields  *)
(* for a number of attempts and then sleeps on wait_cv_ under wait_mutex_; *)
(* push() and shutdown() pass through the mutex before they notify.  In    *)
(* E3Interface many threads push to response_queue_ and one outbound loop  *)
(* pops; stop() shuts the queue down and joins that loop, and the next     *)
(* start() re-arms it.                                                     *)
(***************************************************************************)
EXTENDS MpmcQueue

CONSTANTS Producers, Consumers, Owner,
          NoThread,
          Attempts,           \* SPIN_COUNT + YIELD_COUNT, 140 in the code
          MaxPushes,          \* bound on the calls of push()
          MaxShutdowns        \* bound on the calls of shutdown()

ASSUME QueueThreads == Threads = Producers \union Consumers \union {Owner}

VARIABLES shutdown_,
          wait_mutex_,        \* holder, or NoThread
          waiting,            \* threads asleep on wait_cv_
          attempts,           \* attempts a pop has left before it sleeps
          deadline,           \* "none" for pop(), "ahead" or "passed" for pop(timeout)
          pushes, shutdowns   \* calls so far

waitVars == <<wait_mutex_, waiting, attempts, deadline>>
queueVars == <<ringVars, shutdown_, waitVars, pushes, shutdowns>>

Items == 1..MaxPushes

Move(t, label) == Goto(t, label) /\ UNCHANGED <<head_, tail_, buffer_, pos, data>>

-----------------------------------------------------------------------------
\* push

push(t) ==
    /\ pc[t] = "idle"
    /\ pushes < MaxPushes
    /\ pushes' = pushes + 1
    /\ \/ /\ shutdown_                       \* NOT_INITIALIZED
          /\ UNCHANGED ringVars
       \/ /\ ~shutdown_
          /\ data' = [data EXCEPT ![t] = pushes']
          /\ Goto(t, "push")
          /\ UNCHANGED <<head_, tail_, buffer_, pos>>
    /\ UNCHANGED <<shutdown_, waitVars, shutdowns>>

\* BUFFER_TOO_SMALL: the item is dropped.
push_full(t) ==
    /\ pc[t] = "full"
    /\ data' = [data EXCEPT ![t] = NoItem]
    /\ Goto(t, "idle")
    /\ UNCHANGED <<head_, tail_, buffer_, pos, shutdown_, waitVars, pushes, shutdowns>>

\* Variant: the notifier does not pass through wait_mutex_.
lock_to_notify_not(t, from, to) ==
    /\ pc[t] = from
    /\ Move(t, to)
    /\ UNCHANGED <<shutdown_, waitVars, pushes, shutdowns>>

\* The empty critical section before a notify.
lock_to_notify(t, from, to) ==
    /\ pc[t] = from
    /\ wait_mutex_ = NoThread
    /\ Move(t, to)
    /\ UNCHANGED <<shutdown_, waitVars, pushes, shutdowns>>

\* Variant: no notification.
notify_one_not(t) ==
    /\ pc[t] = "notify"
    /\ Move(t, "idle")
    /\ UNCHANGED <<shutdown_, waitVars, pushes, shutdowns>>

notify_one(t) ==
    /\ pc[t] = "notify"
    /\ \/ waiting = {} /\ UNCHANGED waiting
       \/ \E c \in waiting : waiting' = waiting \ {c}
    /\ Move(t, "idle")
    /\ UNCHANGED <<shutdown_, wait_mutex_, attempts, deadline, pushes, shutdowns>>

-----------------------------------------------------------------------------
\* pop() and pop(timeout).  Attempts left: phases 1 and 2.  None left: phase 3
\* with the mutex held, the last attempt without it.

pop(c, limit) ==
    /\ pc[c] = "idle"
    /\ pc[Owner] \in {"idle", "shut", "notify_all"}      \* the consumer is not joined yet
    /\ Move(c, "pop")
    /\ attempts' = [attempts EXCEPT ![c] = Attempts]
    /\ deadline' = [deadline EXCEPT ![c] = limit]
    /\ UNCHANGED <<shutdown_, wait_mutex_, waiting, pushes, shutdowns>>

\* The locals go and the mutex, if held, is released.
Return(c) ==
    /\ wait_mutex_' = IF wait_mutex_ = c THEN NoThread ELSE wait_mutex_
    /\ attempts' = [attempts EXCEPT ![c] = 0]
    /\ deadline' = [deadline EXCEPT ![c] = "none"]

pop_item(c) ==
    /\ pc[c] = "popped"
    /\ Return(c)
    /\ data' = [data EXCEPT ![c] = NoItem]
    /\ Goto(c, "idle")
    /\ UNCHANGED <<head_, tail_, buffer_, pos, shutdown_, waiting, pushes, shutdowns>>

\* An attempt found nothing: return on shutdown and after the last attempt, else
\* try again, take the mutex, or sleep.
pop_nothing(c) ==
    /\ pc[c] = "empty"
    /\ \/ /\ shutdown_ \/ (attempts[c] = 0 /\ wait_mutex_ # c)
          /\ Return(c)
          /\ Move(c, "idle")
       \/ /\ ~shutdown_
          /\ attempts[c] > 0
          /\ attempts' = [attempts EXCEPT ![c] = @ - 1]
          /\ Move(c, IF attempts[c] = 1 THEN "lock" ELSE "pop")
          /\ UNCHANGED <<wait_mutex_, deadline>>
       \/ /\ ~shutdown_
          /\ wait_mutex_ = c
          /\ Move(c, "sleep")
          /\ UNCHANGED <<attempts, wait_mutex_, deadline>>
    /\ UNCHANGED <<shutdown_, waiting, pushes, shutdowns>>

\* wait() gives the mutex up and sleeps in one step; wait_until() of a deadline that
\* has passed does not sleep.
wait(c) ==
    /\ pc[c] = "sleep"
    /\ wait_mutex_' = NoThread
    /\ waiting' = IF deadline[c] = "passed" THEN waiting ELSE waiting \union {c}
    /\ Move(c, "asleep")
    /\ UNCHANGED <<shutdown_, attempts, deadline, pushes, shutdowns>>

\* A notified sleeper, or one that wakes up on its own.
wake(c) ==
    /\ pc[c] = "asleep"
    /\ c \notin waiting
    /\ Move(c, "lock")
    /\ UNCHANGED <<shutdown_, waitVars, pushes, shutdowns>>

spurious_wake(c) ==
    /\ c \in waiting
    /\ waiting' = waiting \ {c}
    /\ UNCHANGED <<ringVars, shutdown_, wait_mutex_, attempts, deadline, pushes, shutdowns>>

\* The mutex is taken, or taken back after a wait, and the deadline is tested.
lock(c) ==
    /\ pc[c] = "lock"
    /\ wait_mutex_ = NoThread
    /\ wait_mutex_' = IF deadline[c] = "passed" THEN NoThread ELSE c
    /\ Move(c, "pop")
    /\ UNCHANGED <<shutdown_, waiting, attempts, deadline, pushes, shutdowns>>

timeout(c) ==
    /\ deadline[c] = "ahead"
    /\ pc[c] # "idle"
    /\ deadline' = [deadline EXCEPT ![c] = "passed"]
    /\ waiting' = waiting \ {c}
    /\ UNCHANGED <<ringVars, shutdown_, wait_mutex_, attempts, pushes, shutdowns>>

-----------------------------------------------------------------------------
\* shutdown() and rearm(), called by stop() and start().

shutdown(t) ==
    /\ pc[t] = "idle"
    /\ shutdowns < MaxShutdowns
    /\ shutdowns' = shutdowns + 1
    /\ shutdown_' = TRUE
    /\ Move(t, "shut")
    /\ UNCHANGED <<waitVars, pushes>>

\* Variant: shutdown() sets the flag and wakes nobody.
notify_all_not(t) ==
    /\ pc[t] = "notify_all"
    /\ Move(t, "stopped")
    /\ UNCHANGED <<shutdown_, waitVars, pushes, shutdowns>>

notify_all(t) ==
    /\ pc[t] = "notify_all"
    /\ waiting' = {}
    /\ Move(t, "stopped")
    /\ UNCHANGED <<shutdown_, wait_mutex_, attempts, deadline, pushes, shutdowns>>

\* The consumers are joined; clear() pops until a try_pop fails.
rearm(t) ==
    /\ pc[t] = "stopped"
    /\ \A c \in Consumers : pc[c] = "idle"
    /\ Move(t, "pop")
    /\ UNCHANGED <<shutdown_, waitVars, pushes, shutdowns>>

clear_next(t) ==
    /\ pc[t] = "popped"
    /\ data' = [data EXCEPT ![t] = NoItem]
    /\ Goto(t, "pop")
    /\ UNCHANGED <<head_, tail_, buffer_, pos, shutdown_, waitVars, pushes, shutdowns>>

rearmed(t) ==
    /\ pc[t] = "empty"
    /\ shutdown_' = FALSE
    /\ Move(t, "idle")
    /\ UNCHANGED <<waitVars, pushes, shutdowns>>

-----------------------------------------------------------------------------

QueueInit ==
    /\ RingInit
    /\ shutdown_ = FALSE
    /\ wait_mutex_ = NoThread
    /\ waiting = {}
    /\ attempts = [c \in Consumers |-> 0]
    /\ deadline = [c \in Consumers |-> "none"]
    /\ pushes = 0
    /\ shutdowns = 0

Ring(step) == step /\ UNCHANGED <<shutdown_, waitVars, pushes, shutdowns>>

\* What a producer does once it has called push.
Push(t) ==
    \/ Ring(try_push(t))
    \/ push_full(t)
    \/ lock_to_notify(t, "pushed", "notify")
    \/ notify_one(t)

\* outbound_loop_ran, outbound_loop_dapp, report_worker_loop: pop again and again.
Pop(c) ==
    \/ \E limit \in {"none", "ahead"} : pop(c, limit)
    \/ Ring(try_pop(c))
    \/ pop_item(c)
    \/ pop_nothing(c)
    \/ wait(c)
    \/ wake(c)
    \/ lock(c)

Stop(t) == lock_to_notify(t, "shut", "notify_all") \/ notify_all(t)

Restart(t) ==
    \/ rearm(t)
    \/ Ring(try_pop(t))
    \/ clear_next(t)
    \/ rearmed(t)

QueueNext ==
    \/ \E t \in Producers : push(t) \/ Push(t)
    \/ \E c \in Consumers : Pop(c) \/ spurious_wake(c) \/ timeout(c)
    \/ shutdown(Owner)
    \/ Stop(Owner)
    \/ Restart(Owner)

QueueSpec == QueueInit /\ [][QueueNext]_queueVars

\* A thread that is inside a call goes on with it, and a consumer's loop calls pop
\* again.  Nothing is assumed of spurious wake-ups and time-outs.
QueueFairness ==
    /\ \A t \in Producers : WF_queueVars(Push(t))
    /\ \A c \in Consumers : WF_queueVars(Pop(c))
    /\ WF_queueVars(Stop(Owner))

FairQueueSpec == QueueSpec /\ QueueFairness

-----------------------------------------------------------------------------
\* Properties.

QueueTypeOK ==
    /\ head_ \in Nat
    /\ tail_ \in Nat
    /\ buffer_ \in [0..capacity_ - 1 -> [sequence : Nat, data : Items \union {NoItem}]]
    /\ pos \in [Threads -> Nat]
    /\ data \in [Threads -> Items \union {NoItem}]
    /\ shutdown_ \in BOOLEAN
    /\ wait_mutex_ \in Consumers \union {NoThread}
    /\ waiting \subseteq Consumers
    /\ attempts \in [Consumers -> 0..Attempts]

Fifo == INSTANCE FifoQueue WITH Bound <- capacity_, queue <- Queue, hand <- Hand

\* However pushes, pops and clear() overlap, the ring is a bounded first-in first-out
\* queue: nothing is lost, delivered twice, overtaken or overwritten.
ImplementsFifo == Fifo!FifoSpec

\* try_push returns false only when the ring is full or a pop that has claimed an item
\* has not recycled its slot; try_pop only when the ring is empty or the push that
\* claimed the oldest position has not published it.
HonestRefusals ==
    [][\A t \in Threads :
          /\ pc[t] # "full" /\ pc'[t] = "full" =>
                \/ head_ - tail_ = capacity_
                \/ \E u \in Threads : pc[u] = "pop_data"
          /\ pc[t] # "empty" /\ pc'[t] = "empty" =>
                \/ head_ = tail_
                \/ \E u \in Threads : pc[u] = "push_data" /\ pos[u] = tail_]_queueVars

\* "it is what prevents the classic missed-wakeup race": with one consumer, nobody
\* sleeps on an item that is there, or through a shutdown, unless the thread that must
\* wake it is on its way.
NoMissedWakeup ==
    waiting # {} =>
       /\ head_ > tail_ /\ Published(tail_) =>
             \E t \in Producers : pc[t] \in {"pushed", "notify"}
       /\ shutdown_ => pc[Owner] \in {"shut", "notify_all"}

\* Every item that is pushed is popped, unless the queue is shut down first.
Delivered ==
    \A p \in 0..MaxPushes - 1 :
       (tail_ =< p /\ p < head_) ~> (tail_ > p \/ shutdown_)

\* "Signal shutdown so that all blocked pop() calls return promptly": after shutdown()
\* every pop returns, even one without a time limit, so the join in stop() does.
ShutdownReturns ==
    \A c \in Consumers : shutdown_ ~> (pc[c] = "idle" \/ ~shutdown_)
=============================================================================
