------------------------- MODULE SubscriptionTable -------------------------
(***************************************************************************)
(* What the RAN side's SubscriptionManager promises its callers: a set of  *)
(* registered dApps and ONE table from (dApp, RAN function) to a           *)
(* subscription id and a deadline.  Every operation is a single step and   *)
(* returns a code and an id.  The class itself keeps five maps that must   *)
(* agree; SubscriptionManager is shown to implement this module.           *)
(***************************************************************************)
EXTENDS SubscriptionTypes

VARIABLES registered,  \* ids of the registered dApps
          table,       \* Keys -> [id, expires_at]; id 0 = no subscription
          now,         \* the steady clock
          ret          \* what the last call returned

tableVars == <<registered, table, now, ret>>

NoSub == [id |-> 0, expires_at |-> NoLimit]

UsedIds == {i \in Ids : \E k \in Keys : table[k].id = i}

Returns(code, id) == ret' = [code |-> code, id |-> id]

-----------------------------------------------------------------------------

TableInit ==
    /\ registered = {}
    /\ table = [k \in Keys |-> NoSub]
    /\ now = 0
    /\ ret = [code |-> "SUCCESS", id |-> 0]

Register ==
    \/ \E i \in Ids : /\ lowest_free_id(i, registered)
                      /\ registered' = registered \union {i}
                      /\ Returns("SUCCESS", i)
                      /\ UNCHANGED <<table, now>>
    \/ /\ Ids \subseteq registered
       /\ Returns("INTERNAL_ERROR", 0)
       /\ UNCHANGED <<registered, table, now>>

Drop(keys) == table' = [k \in Keys |-> IF k \in keys THEN NoSub ELSE table[k]]

Unregister(d) ==
    \/ /\ d \in registered
       /\ registered' = registered \ {d}
       /\ Drop({d} \X RanFunctions)
       /\ Returns("SUCCESS", 0)
       /\ UNCHANGED now
    \/ /\ d \notin registered
       /\ Returns("DAPP_NOT_REGISTERED", 0)
       /\ UNCHANGED <<registered, table, now>>

\* A new subscription, or one that has run out, gets a deadline counted from
\* now; a live one is reported back as it stands.
Add(k, time) ==
    LET fresh(i) == [id |-> i, expires_at |-> ExpiresAt(now, time)]
    IN  /\ UNCHANGED <<registered, now>>
        /\ \/ /\ k[1] \notin registered
              /\ Returns("DAPP_NOT_REGISTERED", 0)
              /\ UNCHANGED table
           \/ /\ k[1] \in registered
              /\ table[k].id # 0
              /\ is_expired(table[k].expires_at, now)
              /\ table' = [table EXCEPT ![k] = fresh(table[k].id)]
              /\ Returns("SUCCESS", table[k].id)
           \/ /\ k[1] \in registered
              /\ table[k].id # 0
              /\ ~is_expired(table[k].expires_at, now)
              /\ Returns("SUBSCRIPTION_EXISTS", table[k].id)
              /\ UNCHANGED table
           \/ /\ k[1] \in registered
              /\ table[k].id = 0
              /\ \/ \E i \in Ids : /\ lowest_free_id(i, UsedIds)
                                   /\ table' = [table EXCEPT ![k] = fresh(i)]
                                   /\ Returns("SUCCESS", i)
                 \/ /\ Ids \subseteq UsedIds
                    /\ Returns("INTERNAL_ERROR", 0)
                    /\ UNCHANGED table

Expire ==
    /\ Drop({k \in Keys : is_expired(table[k].expires_at, now)})
    /\ Returns("SUCCESS", 0)
    /\ UNCHANGED <<registered, now>>

\* Deletes the one subscription `k` if it is there.
Remove(k) ==
    /\ UNCHANGED <<registered, now>>
    /\ \/ table[k].id # 0 /\ Drop({k}) /\ Returns("SUCCESS", 0)
       \/ table[k].id = 0 /\ Returns("SUBSCRIPTION_NOT_FOUND", 0) /\ UNCHANGED table

\* Deletes the dApp's own subscription with id `i`, and no other dApp's.
RemoveById(d, i) ==
    LET held == {k \in {d} \X RanFunctions : table[k].id = i}
    IN  /\ UNCHANGED <<registered, now>>
        /\ \/ held # {} /\ Drop(held) /\ Returns("SUCCESS", 0)
           \/ held = {} /\ Returns("SUBSCRIPTION_NOT_FOUND", 0) /\ UNCHANGED table

Clear ==
    /\ registered' = {}
    /\ Drop(Keys)
    /\ Returns("SUCCESS", 0)
    /\ UNCHANGED now

Tick == now < MaxTime /\ now' = now + 1 /\ UNCHANGED <<registered, table, ret>>

TableNext ==
    \/ Register \/ Expire \/ Clear
    \/ \E d \in Ids : Unregister(d) \/ \E i \in Ids : RemoveById(d, i)
    \/ \E k \in Keys : Remove(k) \/ \E time \in SubscriptionTimes : Add(k, time)
    \/ Tick

TableSpec == TableInit /\ [][TableNext]_tableVars
=============================================================================
