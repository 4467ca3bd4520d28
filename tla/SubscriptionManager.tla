------------------------ MODULE SubscriptionManager ------------------------
(***************************************************************************)
(* The RAN-role SubscriptionManager.  Each operation changes its maps in   *)
(* one step, under the exclusive lock mutex_.  The SM lifecycle work it    *)
(* leaves behind (check_sm_lifecycle) runs after the lock is released: one *)
(* step reads has_subscribers under the shared lock, a later one calls the *)
(* callback, and steps of other threads come in between.                   *)
(*                                                                         *)
(* A map entry that is absent is modelled by a null value: {} for a set of *)
(* subscriptions or subscribers (no operation tells an absent set from an  *)
(* empty one), NoOwner, id 0 and NoDetails for the others.                 *)
(***************************************************************************)
EXTENDS SubscriptionTypes

CONSTANTS Threads,            \* threads that call the manager
          NoOwner             \* subscription_ids_ holds no entry

ASSUME NoOwnerAssumption == NoOwner \notin Keys

VARIABLES
    registered_dapps,         \* set of dApp ids
    dapp_subscriptions,       \* dApp id -> RAN functions
    ran_function_subscribers, \* RAN function -> dApp ids
    subscription_ids,         \* subscription id -> (dApp, RAN function)
    subscription_id_reverse,  \* (dApp, RAN function) -> subscription id
    subscription_details,     \* (dApp, RAN function) -> expires_at
    now,                      \* the clock
    ret,                      \* what the last call returned
    had_subscribers,          \* argument of each thread's lifecycle checks
    to_check,                 \* RAN functions each thread has still to check
    to_notify                 \* the callback each thread is about to make

indexVars == <<dapp_subscriptions, ran_function_subscribers, subscription_ids,
               subscription_id_reverse, subscription_details>>
lifecycleVars == <<had_subscribers, to_check, to_notify>>
mapVars == <<registered_dapps, indexVars>>
vars == <<mapVars, now, ret, lifecycleVars>>

NoDetails == -1

-----------------------------------------------------------------------------
\* Queries (each one a shared-lock read).

is_dapp_registered(d) == d \in registered_dapps

has_subscribers(rf) == ran_function_subscribers[rf] # {}

is_subscribed(d, rf) == rf \in dapp_subscriptions[d]

\* Variant: the deadline is left to the sweep.
get_subscribed_dapps_unswept(rf) == ran_function_subscribers[rf]

get_subscribed_dapps(rf) ==
    {d \in ran_function_subscribers[rf] :
        ~is_expired(subscription_details[<<d, rf>>], now)}

-----------------------------------------------------------------------------
\* Parts of the operations.

\* A thread calls the manager when its previous call has returned.
Idle(t) == to_check[t] = {} /\ to_notify[t] = {}

Returns(code, id) == ret' = [code |-> code, id |-> id]

\* Lifecycle checks that follow the operation once the lock is released.
ThenCheck(t, rfs, had) ==
    /\ to_check' = [to_check EXCEPT ![t] = rfs]
    /\ had_subscribers' = [had_subscribers EXCEPT ![t] = had]
    /\ UNCHANGED to_notify

\* Variant of Erase: the details stay behind.
Erase_keeps_details(keys, ids) ==
    /\ dapp_subscriptions' =
          [d \in Ids |-> {rf \in dapp_subscriptions[d] : <<d, rf>> \notin keys}]
    /\ ran_function_subscribers' =
          [rf \in RanFunctions |-> {d \in ran_function_subscribers[rf] : <<d, rf>> \notin keys}]
    /\ subscription_ids' =
          [i \in Ids |-> IF i \in ids THEN NoOwner ELSE subscription_ids[i]]
    /\ subscription_id_reverse' =
          [k \in Keys |-> IF k \in keys THEN 0 ELSE subscription_id_reverse[k]]
    /\ UNCHANGED subscription_details

\* Erase the subscriptions `keys`, which have the ids `ids`, from the maps.
Erase(keys, ids) ==
    /\ dapp_subscriptions' =
          [d \in Ids |-> {rf \in dapp_subscriptions[d] : <<d, rf>> \notin keys}]
    /\ ran_function_subscribers' =
          [rf \in RanFunctions |-> {d \in ran_function_subscribers[rf] : <<d, rf>> \notin keys}]
    /\ subscription_ids' =
          [i \in Ids |-> IF i \in ids THEN NoOwner ELSE subscription_ids[i]]
    /\ subscription_id_reverse' =
          [k \in Keys |-> IF k \in keys THEN 0 ELSE subscription_id_reverse[k]]
    /\ subscription_details' =
          [k \in Keys |-> IF k \in keys THEN NoDetails ELSE subscription_details[k]]

\* Variant of IdsOf: the forward map is not cleaned.
IdsOf_none(keys) == {}

\* The ids the reverse map holds for `keys`.
IdsOf(keys) == {subscription_id_reverse[k] : k \in keys}

\* Variant of Emptied: emptiness is tested before the erase.
Emptied_too_early(keys) ==
    {rf \in RanFunctions :
        /\ \E d \in Ids : <<d, rf>> \in keys
        /\ ran_function_subscribers[rf] = {}}

\* RAN functions whose subscriber set becomes empty when `keys` are erased.
Emptied(keys) ==
    {rf \in RanFunctions :
        /\ \E d \in Ids : <<d, rf>> \in keys
        /\ \A d \in ran_function_subscribers[rf] : <<d, rf>> \in keys}

-----------------------------------------------------------------------------
\* Operations.

register_dapp(t) ==
    /\ Idle(t)
    /\ \/ \E i \in Ids :
             /\ lowest_free_id(i, registered_dapps)
             /\ registered_dapps' = registered_dapps \union {i}
             /\ dapp_subscriptions' = [dapp_subscriptions EXCEPT ![i] = {}]
             /\ Returns("SUCCESS", i)
             /\ UNCHANGED <<ran_function_subscribers, subscription_ids,
                            subscription_id_reverse, subscription_details>>
       \/ /\ Ids \subseteq registered_dapps
          /\ Returns("INTERNAL_ERROR", 0)
          /\ UNCHANGED mapVars
    /\ UNCHANGED <<now, lifecycleVars>>

\* Variant: the registration goes, the subscriptions stay.
unregister_dapp_only(t, d) ==
    /\ Idle(t)
    /\ is_dapp_registered(d)
    /\ registered_dapps' = registered_dapps \ {d}
    /\ Returns("SUCCESS", 0)
    /\ UNCHANGED <<indexVars, lifecycleVars, now>>

unregister_dapp(t, d) ==
    LET keys == {d} \X dapp_subscriptions[d]
    IN  /\ Idle(t)
        /\ \/ /\ ~is_dapp_registered(d)
              /\ Returns("DAPP_NOT_REGISTERED", 0)
              /\ UNCHANGED <<mapVars, lifecycleVars>>
           \/ /\ is_dapp_registered(d)
              /\ Erase(keys, IdsOf(keys))
              /\ registered_dapps' = registered_dapps \ {d}
              /\ Returns("SUCCESS", 0)
              /\ ThenCheck(t, {rf \in Emptied(keys) : has_subscribers(rf)}, TRUE)
        /\ UNCHANGED now

\* Variant of RenewExpired: a live subscription is renewed too.
RenewExpired_always(k, time) ==
    /\ subscription_details[k] # NoDetails
    /\ subscription_details' =
          [subscription_details EXCEPT ![k] = ExpiresAt(now, time)]
    /\ Returns("SUCCESS", subscription_id_reverse[k])
    /\ UNCHANGED <<dapp_subscriptions, ran_function_subscribers, subscription_ids,
                   subscription_id_reverse, lifecycleVars>>

\* Variant of AlreadySubscribed: an existing subscription counts as a new one.
AlreadySubscribed_success(k) ==
    /\ ~(subscription_details[k] # NoDetails /\ is_expired(subscription_details[k], now))
    /\ Returns("SUCCESS", subscription_id_reverse[k])
    /\ UNCHANGED <<indexVars, lifecycleVars>>

\* Variant of TakenIds: the id of an expired, unswept subscription counts as free.
TakenIds_live == {i \in Ids : /\ subscription_ids[i] # NoOwner
                              /\ ~is_expired(subscription_details[subscription_ids[i]], now)}

\* Outcomes of add_subscription for a registered dApp.
RenewExpired(k, time) ==
    /\ subscription_details[k] # NoDetails
    /\ is_expired(subscription_details[k], now)
    /\ subscription_details' =
          [subscription_details EXCEPT ![k] = ExpiresAt(now, time)]
    /\ Returns("SUCCESS", subscription_id_reverse[k])
    /\ UNCHANGED <<dapp_subscriptions, ran_function_subscribers, subscription_ids,
                   subscription_id_reverse, lifecycleVars>>

AlreadySubscribed(k) ==
    /\ ~(subscription_details[k] # NoDetails /\ is_expired(subscription_details[k], now))
    /\ Returns("SUBSCRIPTION_EXISTS", subscription_id_reverse[k])
    /\ UNCHANGED <<indexVars, lifecycleVars>>

TakenIds == {i \in Ids : subscription_ids[i] # NoOwner}

\* Variant of SubscribeNew: had_subscribers is read after the insertion.
SubscribeNew_read_late(t, d, rf, time) ==
    \E i \in Ids :
       /\ lowest_free_id(i, TakenIds)
       /\ dapp_subscriptions' = [dapp_subscriptions EXCEPT ![d] = @ \union {rf}]
       /\ ran_function_subscribers' = [ran_function_subscribers EXCEPT ![rf] = @ \union {d}]
       /\ subscription_ids' = [subscription_ids EXCEPT ![i] = <<d, rf>>]
       /\ subscription_id_reverse' = [subscription_id_reverse EXCEPT ![<<d, rf>>] = i]
       /\ subscription_details' = [subscription_details EXCEPT ![<<d, rf>>] = ExpiresAt(now, time)]
       /\ Returns("SUCCESS", i)
       /\ ThenCheck(t, {rf}, ran_function_subscribers'[rf] # {})

SubscribeNew(t, d, rf, time) ==
    \E i \in Ids :
       /\ lowest_free_id(i, TakenIds)
       /\ dapp_subscriptions' = [dapp_subscriptions EXCEPT ![d] = @ \union {rf}]
       /\ ran_function_subscribers' = [ran_function_subscribers EXCEPT ![rf] = @ \union {d}]
       /\ subscription_ids' = [subscription_ids EXCEPT ![i] = <<d, rf>>]
       /\ subscription_id_reverse' = [subscription_id_reverse EXCEPT ![<<d, rf>>] = i]
       /\ subscription_details' = [subscription_details EXCEPT ![<<d, rf>>] = ExpiresAt(now, time)]
       /\ Returns("SUCCESS", i)
       /\ ThenCheck(t, IF has_subscribers(rf) THEN {} ELSE {rf}, FALSE)

add_subscription(t, d, rf, time) ==
    /\ Idle(t)
    /\ \/ /\ ~is_dapp_registered(d)
          /\ Returns("DAPP_NOT_REGISTERED", 0)
          /\ UNCHANGED <<indexVars, lifecycleVars>>
       \/ /\ is_dapp_registered(d)
          /\ is_subscribed(d, rf)
          /\ RenewExpired(<<d, rf>>, time) \/ AlreadySubscribed(<<d, rf>>)
       \/ /\ is_dapp_registered(d)
          /\ ~is_subscribed(d, rf)
          /\ \/ SubscribeNew(t, d, rf, time)
             \/ /\ Ids \subseteq TakenIds
                /\ Returns("INTERNAL_ERROR", 0)
                /\ UNCHANGED <<indexVars, lifecycleVars>>
    /\ UNCHANGED <<registered_dapps, now>>

expire_subscriptions(t) ==
    LET expired == {k \in Keys : is_expired(subscription_details[k], now)}
    IN  /\ Idle(t)
        /\ Erase(expired, IdsOf(expired))
        /\ Returns("SUCCESS", 0)
        /\ ThenCheck(t, Emptied(expired), TRUE)
        /\ UNCHANGED <<registered_dapps, now>>

remove_subscription(t, d, rf) ==
    LET key == <<d, rf>>
    IN  /\ Idle(t)
        /\ \/ /\ ~is_subscribed(d, rf)
              /\ Returns("SUBSCRIPTION_NOT_FOUND", 0)
              /\ UNCHANGED <<indexVars, lifecycleVars>>
           \/ /\ is_subscribed(d, rf)
              /\ Erase({key}, IdsOf({key}))
              /\ Returns("SUCCESS", 0)
              /\ ThenCheck(t, {r \in Emptied({key}) : has_subscribers(r)}, TRUE)
        /\ UNCHANGED <<registered_dapps, now>>

remove_subscription_by_id(t, d, i) ==
    LET key == subscription_ids[i]
    IN  /\ Idle(t)
        /\ \/ /\ ~(key # NoOwner /\ key[1] = d)
              /\ Returns("SUBSCRIPTION_NOT_FOUND", 0)
              /\ UNCHANGED <<indexVars, lifecycleVars>>
           \/ /\ key # NoOwner
              /\ key[1] = d
              /\ Erase({key}, {i})
              /\ Returns("SUCCESS", 0)
              /\ ThenCheck(t, {r \in Emptied({key}) : has_subscribers(r)}, TRUE)
        /\ UNCHANGED <<registered_dapps, now>>

\* clear() makes no lifecycle check.
clear(t) ==
    /\ Idle(t)
    /\ registered_dapps' = {}
    /\ Erase(Keys, Ids)
    /\ Returns("SUCCESS", 0)
    /\ UNCHANGED <<now, lifecycleVars>>

\* check_sm_lifecycle, up to the decision whether to call the callback.
check_sm_lifecycle(t) ==
    /\ to_notify[t] = {}
    /\ \E rf \in to_check[t] :
          /\ to_check' = [to_check EXCEPT ![t] = @ \ {rf}]
          /\ to_notify' = [to_notify EXCEPT
                ![t] = IF had_subscribers[t] # has_subscribers(rf) THEN {rf} ELSE {}]
    /\ UNCHANGED <<mapVars, now, ret, had_subscribers>>

\* sm_lifecycle_callback_(rf, should_start) with should_start = ~had_subscribers.
sm_lifecycle_callback(t) ==
    /\ to_notify[t] # {}
    /\ to_notify' = [to_notify EXCEPT ![t] = {}]
    /\ UNCHANGED <<mapVars, now, ret, had_subscribers, to_check>>

Tick ==
    /\ now < MaxTime
    /\ now' = now + 1
    /\ UNCHANGED <<mapVars, ret, lifecycleVars>>

-----------------------------------------------------------------------------

Init ==
    /\ registered_dapps = {}
    /\ dapp_subscriptions = [d \in Ids |-> {}]
    /\ ran_function_subscribers = [rf \in RanFunctions |-> {}]
    /\ subscription_ids = [i \in Ids |-> NoOwner]
    /\ subscription_id_reverse = [k \in Keys |-> 0]
    /\ subscription_details = [k \in Keys |-> NoDetails]
    /\ now = 0
    /\ ret = [code |-> "SUCCESS", id |-> 0]
    /\ had_subscribers = [t \in Threads |-> FALSE]
    /\ to_check = [t \in Threads |-> {}]
    /\ to_notify = [t \in Threads |-> {}]

Operation(t) ==
    \/ register_dapp(t)
    \/ \E d \in Ids : unregister_dapp(t, d)
    \/ \E d \in Ids, rf \in RanFunctions, time \in SubscriptionTimes :
          add_subscription(t, d, rf, time)
    \/ expire_subscriptions(t)
    \/ \E d \in Ids, rf \in RanFunctions : remove_subscription(t, d, rf)
    \/ \E d \in Ids, i \in Ids : remove_subscription_by_id(t, d, i)
    \/ clear(t)

Lifecycle(t) == check_sm_lifecycle(t) \/ sm_lifecycle_callback(t)

Next == Tick \/ \E t \in Threads : Operation(t) \/ Lifecycle(t)

Spec == Init /\ [][Next]_vars

-----------------------------------------------------------------------------
\* Properties.

TypeOK ==
    /\ registered_dapps \subseteq Ids
    /\ dapp_subscriptions \in [Ids -> SUBSET RanFunctions]
    /\ ran_function_subscribers \in [RanFunctions -> SUBSET Ids]
    /\ subscription_ids \in [Ids -> Keys \union {NoOwner}]
    /\ subscription_id_reverse \in [Keys -> 0..MAX_ID]
    /\ subscription_details \in [Keys -> Nat \union {NoDetails}]
    /\ now \in Nat
    /\ ret \in Results
    /\ had_subscribers \in [Threads -> BOOLEAN]
    /\ to_check \in [Threads -> SUBSET RanFunctions]
    /\ to_notify \in [Threads -> SUBSET RanFunctions]

\* The dApp's set, the RAN function's set, the id map and the details map name
\* the same subscriptions: no operation updates one of them without the others.
IndexesAgree ==
    \A d \in Ids, rf \in RanFunctions :
       /\ (rf \in dapp_subscriptions[d]) <=> (d \in ran_function_subscribers[rf])
       /\ (rf \in dapp_subscriptions[d]) <=> (subscription_id_reverse[<<d, rf>>] # 0)
       /\ (rf \in dapp_subscriptions[d]) <=> (subscription_details[<<d, rf>>] # NoDetails)

\* subscription_ids_ and subscription_id_reverse_ are inverse maps, so an id that
\* lowest_free_id hands out belongs to no other subscription.
IdsInverse ==
    \A i \in Ids, k \in Keys :
       (subscription_ids[i] = k) <=> (subscription_id_reverse[k] = i)

\* unregister_dapp leaves nothing behind: only registered dApps hold
\* subscriptions, so the next dApp that is given a released id inherits none.
OnlyRegisteredSubscribe ==
    \A d \in Ids : dapp_subscriptions[d] # {} => d \in registered_dapps

\* The dApps an indication goes to (get_subscribed_dapps) are exactly the
\* registered ones that hold a subscription id whose deadline has not passed.
IndicationTargets ==
    \A rf \in RanFunctions :
       get_subscribed_dapps(rf) =
          {d \in registered_dapps :
              /\ subscription_id_reverse[<<d, rf>>] # 0
              /\ ~is_expired(subscription_details[<<d, rf>>], now)}

\* A subscription id never passes from one subscription to another in one step:
\* it is freed first.
IdKeepsOwner ==
    [][\A i \in Ids :
          subscription_ids[i] # NoOwner /\ subscription_ids'[i] # NoOwner
             => subscription_ids'[i] = subscription_ids[i]]_vars

\* While a subscription is live nothing moves its deadline: add_subscription
\* reports SUBSCRIPTION_EXISTS and keeps the stored details.
LiveDeadlineKept ==
    [][\A k \in Keys :
          /\ subscription_details[k] # NoDetails
          /\ subscription_details'[k] # NoDetails
          /\ ~is_expired(subscription_details[k], now)
          => subscription_details'[k] = subscription_details[k]]_vars

\* Whenever a RAN function gains its first or loses its last subscriber, the
\* thread that caused it has a lifecycle check of it to make (clear() aside).
TransitionsChecked ==
    [][\A rf \in RanFunctions :
          has_subscribers(rf) # has_subscribers(rf)' =>
             \E t \in Threads : \/ clear(t)
                                \/ /\ rf \in to_check'[t]
                                   /\ had_subscribers'[t] = has_subscribers(rf)]_vars

-----------------------------------------------------------------------------
\* The manager implements the one-table specification.

Table == INSTANCE SubscriptionTable WITH
    registered <- registered_dapps,
    table <- [k \in Keys |->
                [id |-> subscription_id_reverse[k],
                 expires_at |-> IF subscription_details[k] = NoDetails
                                THEN NoLimit ELSE subscription_details[k]]]

\* Seen through the subscription ids and deadlines it stores, every step of the
\* manager is one operation of SubscriptionTable, with the same return value.
ImplementsTable == Table!TableSpec
=============================================================================
