--------------------- MODULE SubscriptionManagerProofs ---------------------
(***************************************************************************)
(* For every set of RAN functions and threads, every id range and every    *)
(* clock bound: the maps of SubscriptionManager have their types and stay  *)
(* consistent.                                                             *)
(***************************************************************************)
EXTENDS SubscriptionManager, TLAPS

\* The inductive invariant.  TypeOK is inductive; the others need each other: to keep
\* the sets in step an operation relies on the id maps being inverse (it finds
\* the ids it erases through the reverse map), and the other way round.
IInv ==
    /\ TypeOK
    /\ IndexesAgree
    /\ IdsInverse
    /\ OnlyRegisteredSubscribe

-----------------------------------------------------------------------------
\* Type correctness.

\* Erasing subscriptions from the maps keeps their types.
LEMMA EraseType ==
    ASSUME TypeOK, NEW keys, NEW ids, Erase(keys, ids)
    PROVE  /\ dapp_subscriptions' \in [Ids -> SUBSET RanFunctions]
           /\ ran_function_subscribers' \in [RanFunctions -> SUBSET Ids]
           /\ subscription_ids' \in [Ids -> Keys \union {NoOwner}]
           /\ subscription_id_reverse' \in [Keys -> 0..MAX_ID]
           /\ subscription_details' \in [Keys -> Nat \union {NoDetails}]
  <1>1. dapp_subscriptions' \in [Ids -> SUBSET RanFunctions]
    BY DEF Erase, TypeOK
  <1>2. ran_function_subscribers' \in [RanFunctions -> SUBSET Ids]
    BY DEF Erase, TypeOK
  <1>3. subscription_ids' \in [Ids -> Keys \union {NoOwner}]
    BY DEF Erase, TypeOK
  <1>4. subscription_id_reverse' \in [Keys -> 0..MAX_ID]
    BY SubscriptionConstants DEF Erase, TypeOK
  <1>5. subscription_details' \in [Keys -> Nat \union {NoDetails}]
    BY DEF Erase, TypeOK
  <1> QED BY <1>1, <1>2, <1>3, <1>4, <1>5

\* A deadline is a natural number.
LEMMA ExpiresAtType ==
    ASSUME TypeOK, NEW time \in SubscriptionTimes
    PROVE  ExpiresAt(now, time) \in Nat
  BY SubscriptionConstants DEF TypeOK, ExpiresAt, NoLimit

\* The lifecycle work a thread is given is a set of RAN functions.
LEMMA ThenCheckType ==
    ASSUME TypeOK, NEW t \in Threads, NEW rfs \in SUBSET RanFunctions,
           NEW had \in BOOLEAN, ThenCheck(t, rfs, had)
    PROVE  /\ had_subscribers' \in [Threads -> BOOLEAN]
           /\ to_check' \in [Threads -> SUBSET RanFunctions]
           /\ to_notify' \in [Threads -> SUBSET RanFunctions]
  BY DEF ThenCheck, TypeOK

\* What a call returns is a result.
LEMMA ReturnsType ==
    ASSUME NEW code \in Codes, NEW id \in 0..MAX_ID, Returns(code, id)
    PROVE  ret' \in Results
  BY DEF Returns, Results

\* A step of an operation preserves the type invariant.
LEMMA OperationType ==
    ASSUME TypeOK, NEW t \in Threads, Operation(t)
    PROVE  TypeOK'
  <1> USE SubscriptionConstants
  <1>0. /\ "SUCCESS" \in Codes /\ "INTERNAL_ERROR" \in Codes
        /\ "DAPP_NOT_REGISTERED" \in Codes /\ "SUBSCRIPTION_EXISTS" \in Codes
        /\ "SUBSCRIPTION_NOT_FOUND" \in Codes /\ 0 \in 0..MAX_ID
        /\ \A i \in Ids : i \in 0..MAX_ID
        /\ \A k \in Keys : subscription_id_reverse[k] \in 0..MAX_ID
    BY DEF Codes, Ids, MIN_ID, TypeOK
  <1>1. CASE register_dapp(t)
    <2>1. ret' \in Results
      BY <1>1, <1>0, ReturnsType DEF register_dapp
    <2> QED BY <1>1, <2>1 DEF register_dapp, TypeOK, mapVars, indexVars, lifecycleVars
  <1>2. ASSUME NEW d \in Ids, unregister_dapp(t, d) PROVE TypeOK'
    <2> DEFINE keys == {d} \X dapp_subscriptions[d]
               rfs == {rf \in Emptied(keys) : has_subscribers(rf)}
    <2>0. rfs \in SUBSET RanFunctions
      BY DEF Emptied
    <2>1. ret' \in Results
      BY <1>2, <1>0, ReturnsType DEF unregister_dapp
    <2>2. CASE ~is_dapp_registered(d)
      BY <1>2, <2>1, <2>2 DEF unregister_dapp, TypeOK, mapVars, indexVars, lifecycleVars
    <2>3. CASE is_dapp_registered(d)
      <3>1. Erase(keys, IdsOf(keys)) /\ ThenCheck(t, rfs, TRUE)
        BY <1>2, <2>3 DEF unregister_dapp
      <3>2. registered_dapps' \subseteq Ids /\ now' \in Nat
        BY <1>2, <2>3 DEF unregister_dapp, TypeOK
      <3> HIDE DEF keys, rfs
      <3> QED BY <2>0, <2>1, <3>1, <3>2, EraseType, ThenCheckType DEF TypeOK
    <2> QED BY <2>2, <2>3
  <1>3. ASSUME NEW d \in Ids, NEW rf \in RanFunctions, NEW time \in SubscriptionTimes,
               add_subscription(t, d, rf, time)
        PROVE  TypeOK'
    <2>0. <<d, rf>> \in Keys
      BY DEF Keys
    <2>1. ret' \in Results
      BY <1>3, <1>0, <2>0, ReturnsType
         DEF add_subscription, RenewExpired, AlreadySubscribed, SubscribeNew
    <2>2. registered_dapps' \subseteq Ids /\ now' \in Nat
      BY <1>3 DEF add_subscription, TypeOK
    <2>3. CASE UNCHANGED <<indexVars, lifecycleVars>>
      BY <2>1, <2>2, <2>3 DEF TypeOK, indexVars, lifecycleVars
    <2>4. CASE RenewExpired(<<d, rf>>, time)
      <3>1. subscription_details' \in [Keys -> Nat \union {NoDetails}]
        BY <2>0, <2>4, ExpiresAtType DEF RenewExpired, TypeOK
      <3> QED BY <2>1, <2>2, <2>4, <3>1 DEF RenewExpired, TypeOK, lifecycleVars
    <2>5. CASE SubscribeNew(t, d, rf, time)
      <3>1. subscription_details' \in [Keys -> Nat \union {NoDetails}]
        BY <2>0, <2>5, ExpiresAtType DEF SubscribeNew, TypeOK
      <3>2. ThenCheck(t, IF has_subscribers(rf) THEN {} ELSE {rf}, FALSE)
        BY <2>5 DEF SubscribeNew
      <3>3. (IF has_subscribers(rf) THEN {} ELSE {rf}) \in SUBSET RanFunctions
        OBVIOUS
      <3>4. /\ had_subscribers' \in [Threads -> BOOLEAN]
            /\ to_check' \in [Threads -> SUBSET RanFunctions]
            /\ to_notify' \in [Threads -> SUBSET RanFunctions]
        BY <3>2, <3>3, ThenCheckType
      <3>5. /\ dapp_subscriptions' \in [Ids -> SUBSET RanFunctions]
            /\ ran_function_subscribers' \in [RanFunctions -> SUBSET Ids]
            /\ subscription_ids' \in [Ids -> Keys \union {NoOwner}]
            /\ subscription_id_reverse' \in [Keys -> 0..MAX_ID]
        BY <1>0, <2>0, <2>5 DEF SubscribeNew, TypeOK
      <3> QED BY <2>1, <2>2, <3>1, <3>4, <3>5 DEF TypeOK
    <2> QED BY <1>3, <2>3, <2>4, <2>5 DEF add_subscription, AlreadySubscribed
  <1>4. CASE expire_subscriptions(t)
    <2> DEFINE expired == {k \in Keys : is_expired(subscription_details[k], now)}
    <2>0. Emptied(expired) \in SUBSET RanFunctions
      BY DEF Emptied
    <2>1. ret' \in Results
      BY <1>4, <1>0, ReturnsType DEF expire_subscriptions
    <2>2. /\ Erase(expired, IdsOf(expired)) /\ ThenCheck(t, Emptied(expired), TRUE)
          /\ registered_dapps' \subseteq Ids /\ now' \in Nat
      BY <1>4 DEF expire_subscriptions, TypeOK
    <2> HIDE DEF expired
    <2> QED BY <2>0, <2>1, <2>2, EraseType, ThenCheckType DEF TypeOK
  <1>5. ASSUME NEW d \in Ids, NEW rf \in RanFunctions, remove_subscription(t, d, rf)
        PROVE  TypeOK'
    <2> DEFINE rfs == {r \in Emptied({<<d, rf>>}) : has_subscribers(r)}
    <2>0. rfs \in SUBSET RanFunctions
      BY DEF Emptied
    <2>1. ret' \in Results
      BY <1>5, <1>0, ReturnsType DEF remove_subscription
    <2>2. registered_dapps' \subseteq Ids /\ now' \in Nat
      BY <1>5 DEF remove_subscription, TypeOK
    <2>3. CASE UNCHANGED <<indexVars, lifecycleVars>>
      BY <2>1, <2>2, <2>3 DEF TypeOK, indexVars, lifecycleVars
    <2>4. CASE Erase({<<d, rf>>}, IdsOf({<<d, rf>>})) /\ ThenCheck(t, rfs, TRUE)
      <3> HIDE DEF rfs
      <3> QED BY <2>0, <2>1, <2>2, <2>4, EraseType, ThenCheckType DEF TypeOK
    <2> QED BY <1>5, <2>3, <2>4 DEF remove_subscription
  <1>6. ASSUME NEW d \in Ids, NEW i \in Ids, remove_subscription_by_id(t, d, i)
        PROVE  TypeOK'
    <2> DEFINE key == subscription_ids[i]
               rfs == {r \in Emptied({key}) : has_subscribers(r)}
    <2>0. rfs \in SUBSET RanFunctions
      BY DEF Emptied
    <2>1. ret' \in Results
      BY <1>6, <1>0, ReturnsType DEF remove_subscription_by_id
    <2>2. registered_dapps' \subseteq Ids /\ now' \in Nat
      BY <1>6 DEF remove_subscription_by_id, TypeOK
    <2>3. CASE UNCHANGED <<indexVars, lifecycleVars>>
      BY <2>1, <2>2, <2>3 DEF TypeOK, indexVars, lifecycleVars
    <2>4. CASE Erase({key}, {i}) /\ ThenCheck(t, rfs, TRUE)
      <3> HIDE DEF rfs, key
      <3> QED BY <2>0, <2>1, <2>2, <2>4, EraseType, ThenCheckType DEF TypeOK
    <2> QED BY <1>6, <2>3, <2>4 DEF remove_subscription_by_id
  <1>7. CASE clear(t)
    <2>1. ret' \in Results
      BY <1>7, <1>0, ReturnsType DEF clear
    <2> QED BY <1>7, <2>1, EraseType DEF clear, TypeOK, lifecycleVars
  <1> QED BY <1>1, <1>2, <1>3, <1>4, <1>5, <1>6, <1>7 DEF Operation

\* Every step preserves the type invariant.
LEMMA NextType == TypeOK /\ [Next]_vars => TypeOK'
  <1> SUFFICES ASSUME TypeOK, [Next]_vars PROVE TypeOK'
    OBVIOUS
  <1>1. CASE Tick
    BY <1>1 DEF Tick, TypeOK, mapVars, indexVars, lifecycleVars
  <1>2. ASSUME NEW t \in Threads, Operation(t) PROVE TypeOK'
    BY <1>2, OperationType
  <1>3. ASSUME NEW t \in Threads, check_sm_lifecycle(t) PROVE TypeOK'
    BY <1>3 DEF check_sm_lifecycle, TypeOK, mapVars, indexVars
  <1>4. ASSUME NEW t \in Threads, sm_lifecycle_callback(t) PROVE TypeOK'
    BY <1>4 DEF sm_lifecycle_callback, TypeOK, mapVars, indexVars
  <1>5. CASE UNCHANGED vars
    BY <1>5 DEF TypeOK, vars, mapVars, indexVars, lifecycleVars
  <1> QED BY <1>1, <1>2, <1>3, <1>4, <1>5 DEF Next, Lifecycle

\* Every variable of the manager keeps its type in every reachable state.
THEOREM TypeCorrect == Spec => []TypeOK
  <1>1. Init => TypeOK
    BY SubscriptionConstants DEF Init, TypeOK, Results, Codes
  <1> QED BY <1>1, NextType, PTL DEF Spec

-----------------------------------------------------------------------------
\* The consistency of the maps.

\* Erasing a set of keys together with exactly the ids the reverse map holds for
\* them keeps the maps consistent and adds no subscription.
LEMMA EraseConsistent ==
    ASSUME IInv, NEW keys \in SUBSET Keys, NEW ids, Erase(keys, ids),
           \A i \in Ids : (i \in ids) <=> (\E k \in keys : subscription_id_reverse[k] = i)
    PROVE  /\ IndexesAgree'
           /\ IdsInverse'
           /\ \A d \in Ids : dapp_subscriptions'[d] =
                 {rf \in dapp_subscriptions[d] : <<d, rf>> \notin keys}
  <1> USE SubscriptionConstants, NoOwnerAssumption
  <1>1. IndexesAgree'
    <2> SUFFICES ASSUME NEW d \in Ids, NEW rf \in RanFunctions
                 PROVE  /\ (rf \in dapp_subscriptions'[d]) <=> (d \in ran_function_subscribers'[rf])
                        /\ (rf \in dapp_subscriptions'[d]) <=> (subscription_id_reverse'[<<d, rf>>] # 0)
                        /\ (rf \in dapp_subscriptions'[d]) <=> (subscription_details'[<<d, rf>>] # NoDetails)
      BY DEF IndexesAgree
    <2>1. <<d, rf>> \in Keys
      BY DEF Keys
    <2>2. CASE <<d, rf>> \in keys
      BY <2>1, <2>2 DEF Erase
    <2>3. CASE <<d, rf>> \notin keys
      BY <2>1, <2>3 DEF Erase, IInv, IndexesAgree
    <2> QED BY <2>2, <2>3
  <1>2. IdsInverse'
    <2> SUFFICES ASSUME NEW i \in Ids, NEW k \in Keys
                 PROVE  (subscription_ids'[i] = k) <=> (subscription_id_reverse'[k] = i)
      BY DEF IdsInverse
    <2>0. i # 0
      BY DEF Ids, MIN_ID
    <2>1. (subscription_ids[i] = k) <=> (subscription_id_reverse[k] = i)
      BY DEF IInv, IdsInverse
    <2>2. CASE k \in keys
      BY <2>0, <2>1, <2>2 DEF Erase
    <2>3. CASE k \notin keys /\ i \notin ids
      BY <2>1, <2>3 DEF Erase
    <2>4. CASE k \notin keys /\ i \in ids
      <3>1. PICK j \in keys : subscription_id_reverse[j] = i
        BY <2>4
      <3>2. subscription_ids[i] = j
        BY <3>1 DEF IInv, IdsInverse
      <3>3. subscription_id_reverse[k] # i
        BY <2>1, <2>4, <3>1, <3>2
      <3> QED BY <2>4, <3>3 DEF Erase
    <2> QED BY <2>2, <2>3, <2>4
  <1> QED BY <1>1, <1>2 DEF Erase

\* IdsOf gives EraseConsistent the ids it asks for.
LEMMA IdsOfKeys ==
    ASSUME NEW keys
    PROVE  \A i \in Ids : (i \in IdsOf(keys)) <=> (\E k \in keys : subscription_id_reverse[k] = i)
  BY DEF IdsOf

\* Erasing keys with their ids keeps the maps consistent and adds no subscription.
LEMMA EraseKeys ==
    ASSUME IInv, NEW keys \in SUBSET Keys, Erase(keys, IdsOf(keys))
    PROVE  /\ IndexesAgree'
           /\ IdsInverse'
           /\ \A d \in Ids : dapp_subscriptions'[d] =
                 {rf \in dapp_subscriptions[d] : <<d, rf>> \notin keys}
  <1> DEFINE ids == IdsOf(keys)
  <1>1. \A i \in Ids : (i \in ids) <=> (\E k \in keys : subscription_id_reverse[k] = i)
    BY IdsOfKeys
  <1>2. Erase(keys, ids)
    OBVIOUS
  <1> HIDE DEF ids
  <1> QED BY <1>1, <1>2, EraseConsistent, Zenon

\* The same for removal and expiry, which leave the registrations alone.
LEMMA EraseKeysConsistent ==
    ASSUME IInv, NEW keys \in SUBSET Keys, Erase(keys, IdsOf(keys)),
           registered_dapps' = registered_dapps
    PROVE  IndexesAgree' /\ IdsInverse' /\ OnlyRegisteredSubscribe'
  <1>1. /\ IndexesAgree'
        /\ IdsInverse'
        /\ \A d \in Ids : dapp_subscriptions'[d] =
              {rf \in dapp_subscriptions[d] : <<d, rf>> \notin keys}
    BY EraseKeys, Zenon
  <1>2. \A d \in Ids : dapp_subscriptions'[d] # {} => dapp_subscriptions[d] # {}
    BY <1>1
  <1> QED BY <1>1, <1>2 DEF IInv, OnlyRegisteredSubscribe

\* A step that leaves the maps alone keeps them consistent.
LEMMA UnchangedConsistent ==
    ASSUME IInv, UNCHANGED mapVars
    PROVE  IndexesAgree' /\ IdsInverse' /\ OnlyRegisteredSubscribe'
  BY DEF IInv, IndexesAgree, IdsInverse, OnlyRegisteredSubscribe, mapVars, indexVars

\* A step of an operation preserves the consistency of the maps.
LEMMA OperationConsistent ==
    ASSUME IInv, NEW t \in Threads, Operation(t)
    PROVE  IndexesAgree' /\ IdsInverse' /\ OnlyRegisteredSubscribe'
  <1> USE SubscriptionConstants, NoOwnerAssumption
  <1>1. CASE register_dapp(t)
    <2>1. CASE UNCHANGED mapVars
      BY <2>1, UnchangedConsistent
    <2>2. ASSUME NEW i \in Ids, lowest_free_id(i, registered_dapps),
                 registered_dapps' = registered_dapps \union {i},
                 dapp_subscriptions' = [dapp_subscriptions EXCEPT ![i] = {}],
                 UNCHANGED <<ran_function_subscribers, subscription_ids,
                             subscription_id_reverse, subscription_details>>
          PROVE  IndexesAgree' /\ IdsInverse' /\ OnlyRegisteredSubscribe'
      <3>1. dapp_subscriptions[i] = {}
        BY <2>2 DEF IInv, OnlyRegisteredSubscribe, lowest_free_id
      <3>2. dapp_subscriptions' = dapp_subscriptions
        BY <2>2, <3>1 DEF IInv, TypeOK
      <3> QED BY <2>2, <3>2 DEF IInv, IndexesAgree, IdsInverse, OnlyRegisteredSubscribe
    <2> QED BY <1>1, <2>1, <2>2 DEF register_dapp
  <1>2. ASSUME NEW d \in Ids, unregister_dapp(t, d)
        PROVE  IndexesAgree' /\ IdsInverse' /\ OnlyRegisteredSubscribe'
    <2> DEFINE keys == {d} \X dapp_subscriptions[d]
    <2>0. keys \in SUBSET Keys
      BY DEF Keys, IInv, TypeOK
    <2>1. CASE UNCHANGED mapVars
      BY <2>1, UnchangedConsistent
    <2>2. CASE Erase(keys, IdsOf(keys)) /\ registered_dapps' = registered_dapps \ {d}
      <3>1. /\ IndexesAgree' /\ IdsInverse'
            /\ \A e \in Ids : dapp_subscriptions'[e] =
                  {rf \in dapp_subscriptions[e] : <<e, rf>> \notin keys}
        <4> HIDE DEF keys
        <4> QED BY <2>0, <2>2, EraseKeys, Zenon
      <3>2. dapp_subscriptions'[d] = {}
        BY <3>1
      <3>3. \A e \in Ids : dapp_subscriptions'[e] # {} => e # d /\ dapp_subscriptions[e] # {}
        BY <3>1, <3>2
      <3> QED BY <2>2, <3>1, <3>3 DEF IInv, OnlyRegisteredSubscribe
    <2> QED BY <1>2, <2>1, <2>2 DEF unregister_dapp
  <1>3. ASSUME NEW d \in Ids, NEW rf \in RanFunctions, NEW time \in SubscriptionTimes,
               add_subscription(t, d, rf, time)
        PROVE  IndexesAgree' /\ IdsInverse' /\ OnlyRegisteredSubscribe'
    <2> DEFINE key == <<d, rf>>
    <2>0. key \in Keys /\ NoDetails \notin Nat
      BY DEF Keys, NoDetails
    <2>1. CASE UNCHANGED mapVars
      BY <2>1, UnchangedConsistent
    <2>2. CASE is_subscribed(d, rf) /\ RenewExpired(key, time)
      <3>1. ExpiresAt(now, time) # NoDetails
        BY <2>0, ExpiresAtType DEF IInv
      <3>2. \A k \in Keys : (subscription_details'[k] # NoDetails) <=>
                            (subscription_details[k] # NoDetails)
        BY <2>0, <2>2, <3>1 DEF RenewExpired, IInv, TypeOK
      <3>3. IndexesAgree'
        BY <2>2, <3>2 DEF RenewExpired, IInv, IndexesAgree, Keys
      <3> QED BY <1>3, <2>2, <3>3 DEF add_subscription, RenewExpired, IInv, IdsInverse,
                                     OnlyRegisteredSubscribe
    <2>3. CASE is_dapp_registered(d) /\ ~is_subscribed(d, rf) /\ SubscribeNew(t, d, rf, time)
      <3>1. PICK i \in Ids :
               /\ lowest_free_id(i, TakenIds)
               /\ dapp_subscriptions' = [dapp_subscriptions EXCEPT ![d] = @ \union {rf}]
               /\ ran_function_subscribers' = [ran_function_subscribers EXCEPT ![rf] = @ \union {d}]
               /\ subscription_ids' = [subscription_ids EXCEPT ![i] = key]
               /\ subscription_id_reverse' = [subscription_id_reverse EXCEPT ![key] = i]
               /\ subscription_details' = [subscription_details EXCEPT ![key] = ExpiresAt(now, time)]
        BY <2>3 DEF SubscribeNew
      <3>2. subscription_ids[i] = NoOwner /\ i # 0 /\ i \in Nat
        BY <3>1 DEF lowest_free_id, TakenIds, Ids, MIN_ID
      <3>3. ExpiresAt(now, time) # NoDetails
        BY <2>0, ExpiresAtType DEF IInv
      <3>4. subscription_id_reverse[key] = 0
        BY <2>3 DEF is_subscribed, IInv, IndexesAgree
      <3>5. IndexesAgree'
        <4> SUFFICES ASSUME NEW e \in Ids, NEW r \in RanFunctions
                     PROVE  /\ (r \in dapp_subscriptions'[e]) <=> (e \in ran_function_subscribers'[r])
                            /\ (r \in dapp_subscriptions'[e]) <=> (subscription_id_reverse'[<<e, r>>] # 0)
                            /\ (r \in dapp_subscriptions'[e]) <=> (subscription_details'[<<e, r>>] # NoDetails)
          BY DEF IndexesAgree
        <4>1. <<e, r>> \in Keys
          BY DEF Keys
        <4>2. CASE e = d /\ r = rf
          BY <2>0, <3>1, <3>2, <3>3, <4>2 DEF IInv, TypeOK
        <4>3. CASE ~(e = d /\ r = rf)
          <5>1. <<e, r>> # key
            BY <4>3
          <5>2. /\ subscription_id_reverse'[<<e, r>>] = subscription_id_reverse[<<e, r>>]
                /\ subscription_details'[<<e, r>>] = subscription_details[<<e, r>>]
            BY <3>1, <4>1, <5>1 DEF IInv, TypeOK
          <5>3. /\ (r \in dapp_subscriptions'[e]) <=> (r \in dapp_subscriptions[e])
                /\ (e \in ran_function_subscribers'[r]) <=> (e \in ran_function_subscribers[r])
            BY <3>1, <4>3 DEF IInv, TypeOK
          <5> QED BY <5>2, <5>3 DEF IInv, IndexesAgree
        <4> QED BY <4>2, <4>3
      <3>6. IdsInverse'
        <4> SUFFICES ASSUME NEW j \in Ids, NEW k \in Keys
                     PROVE  (subscription_ids'[j] = k) <=> (subscription_id_reverse'[k] = j)
          BY DEF IdsInverse
        <4>0. j # 0
          BY DEF Ids, MIN_ID
        <4>1. (subscription_ids[j] = k) <=> (subscription_id_reverse[k] = j)
          BY DEF IInv, IdsInverse
        <4>2. subscription_ids'[j] = IF j = i THEN key ELSE subscription_ids[j]
          BY <3>1 DEF IInv, TypeOK
        <4>3. subscription_id_reverse'[k] = IF k = key THEN i ELSE subscription_id_reverse[k]
          BY <3>1 DEF IInv, TypeOK
        <4>4. k # NoOwner
          OBVIOUS
        <4> HIDE DEF key
        <4> QED BY <3>2, <3>4, <4>0, <4>1, <4>2, <4>3, <4>4
      <3>7. OnlyRegisteredSubscribe'
        BY <1>3, <2>3, <3>1 DEF add_subscription, is_dapp_registered, IInv, TypeOK,
                               OnlyRegisteredSubscribe
      <3> QED BY <3>5, <3>6, <3>7
    <2> QED BY <1>3, <2>1, <2>2, <2>3 DEF add_subscription, AlreadySubscribed, mapVars
  <1>4. CASE expire_subscriptions(t)
    <2> DEFINE expired == {k \in Keys : is_expired(subscription_details[k], now)}
    <2>1. expired \in SUBSET Keys /\ Erase(expired, IdsOf(expired))
          /\ registered_dapps' = registered_dapps
      BY <1>4 DEF expire_subscriptions
    <2> HIDE DEF expired
    <2> QED BY <2>1, EraseKeysConsistent, Zenon
  <1>5. ASSUME NEW d \in Ids, NEW rf \in RanFunctions, remove_subscription(t, d, rf)
        PROVE  IndexesAgree' /\ IdsInverse' /\ OnlyRegisteredSubscribe'
    <2> DEFINE keys == {<<d, rf>>}
    <2>0. keys \in SUBSET Keys /\ registered_dapps' = registered_dapps
      BY <1>5 DEF Keys, remove_subscription
    <2>1. CASE UNCHANGED mapVars
      BY <2>1, UnchangedConsistent
    <2>2. CASE Erase(keys, IdsOf(keys))
      <3> HIDE DEF keys
      <3> QED BY <2>0, <2>2, EraseKeysConsistent, Zenon
    <2> QED BY <1>5, <2>0, <2>1, <2>2 DEF remove_subscription, mapVars
  <1>6. ASSUME NEW d \in Ids, NEW i \in Ids, remove_subscription_by_id(t, d, i)
        PROVE  IndexesAgree' /\ IdsInverse' /\ OnlyRegisteredSubscribe'
    <2> DEFINE key == subscription_ids[i]
               keys == {key}
    <2>0. registered_dapps' = registered_dapps
      BY <1>6 DEF remove_subscription_by_id
    <2>1. CASE UNCHANGED mapVars
      BY <2>1, UnchangedConsistent
    <2>2. CASE key # NoOwner /\ Erase({key}, {i})
      <3>0. key \in Keys
        BY <2>2 DEF IInv, TypeOK
      <3>1. \A j \in Ids : (j \in {i}) <=> (\E k \in {key} : subscription_id_reverse[k] = j)
        BY <3>0 DEF IInv, IdsInverse
      <3> HIDE DEF key
      <3>2. /\ IndexesAgree' /\ IdsInverse'
            /\ \A e \in Ids : dapp_subscriptions'[e] =
                  {r \in dapp_subscriptions[e] : <<e, r>> \notin {key}}
        <4> DEFINE keys1 == {key}
                   ids1 == {i}
        <4>1. keys1 \in SUBSET Keys /\ Erase(keys1, ids1)
          BY <2>2, <3>0
        <4>2. \A j \in Ids : (j \in ids1) <=> (\E k \in keys1 : subscription_id_reverse[k] = j)
          BY <3>1
        <4> HIDE DEF keys1, ids1
        <4>3. /\ IndexesAgree' /\ IdsInverse'
              /\ \A e \in Ids : dapp_subscriptions'[e] =
                    {r \in dapp_subscriptions[e] : <<e, r>> \notin keys1}
          BY <4>1, <4>2, EraseConsistent, Zenon
        <4> QED BY <4>3 DEF keys1
      <3>3. \A e \in Ids : dapp_subscriptions'[e] # {} => dapp_subscriptions[e] # {}
        BY <3>2
      <3> QED BY <2>0, <3>2, <3>3 DEF IInv, OnlyRegisteredSubscribe
    <2> QED BY <1>6, <2>0, <2>1, <2>2 DEF remove_subscription_by_id, mapVars
  <1>7. CASE clear(t)
    <2>1. \A d \in Ids, rf \in RanFunctions : <<d, rf>> \in Keys
      BY DEF Keys
    <2>2. /\ \A d \in Ids : dapp_subscriptions'[d] = {}
          /\ \A rf \in RanFunctions : ran_function_subscribers'[rf] = {}
      BY <1>7, <2>1 DEF clear, Erase, IInv, TypeOK
    <2>3. /\ \A i \in Ids : subscription_ids'[i] = NoOwner
          /\ \A k \in Keys : subscription_id_reverse'[k] = 0 /\ subscription_details'[k] = NoDetails
      BY <1>7 DEF clear, Erase
    <2>4. IndexesAgree'
      BY <2>1, <2>2, <2>3 DEF IndexesAgree
    <2>5. IdsInverse'
      BY <2>3 DEF IdsInverse, Ids, MIN_ID
    <2> QED BY <2>2, <2>4, <2>5 DEF OnlyRegisteredSubscribe
  <1> QED BY <1>1, <1>2, <1>3, <1>4, <1>5, <1>6, <1>7 DEF Operation

\* The invariant holds initially.
LEMMA InitConsistent == Init => IInv
  <1> SUFFICES ASSUME Init PROVE IInv
    OBVIOUS
  <1>1. TypeOK
    BY SubscriptionConstants DEF Init, TypeOK, Results, Codes
  <1>2. \A d \in Ids, rf \in RanFunctions : <<d, rf>> \in Keys
    BY DEF Keys
  <1>3. IndexesAgree /\ OnlyRegisteredSubscribe
    BY <1>2 DEF Init, IndexesAgree, OnlyRegisteredSubscribe
  <1>4. IdsInverse
    BY SubscriptionConstants, NoOwnerAssumption DEF Init, IdsInverse, Ids, MIN_ID
  <1> QED BY <1>1, <1>3, <1>4 DEF IInv

\* Every step preserves the invariant.
LEMMA NextConsistent == IInv /\ [Next]_vars => IInv'
  <1> SUFFICES ASSUME IInv, [Next]_vars PROVE IInv'
    OBVIOUS
  <1>1. TypeOK'
    BY NextType DEF IInv
  <1>2. CASE \E t \in Threads : Operation(t)
    BY <1>1, <1>2, OperationConsistent DEF IInv
  <1>3. CASE UNCHANGED mapVars
    BY <1>1, <1>3, UnchangedConsistent DEF IInv
  <1> QED BY <1>2, <1>3 DEF Next, Lifecycle, Tick, check_sm_lifecycle,
                           sm_lifecycle_callback, vars

\* In every reachable state the five maps describe the same subscriptions, the
\* id maps are inverse, and only registered dApps hold subscriptions.
THEOREM Consistency == Spec => [](IndexesAgree /\ IdsInverse /\ OnlyRegisteredSubscribe)
  <1>1. IInv => IndexesAgree /\ IdsInverse /\ OnlyRegisteredSubscribe
    BY DEF IInv
  <1> QED BY <1>1, InitConsistent, NextConsistent, PTL DEF Spec

=============================================================================
