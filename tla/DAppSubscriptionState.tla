----------------------- MODULE DAppSubscriptionState -----------------------
(***************************************************************************)
(* DAppSubscriptionState, what a dApp-role E3Interface keeps of its        *)
(* session, as a record, and its operations as functions of that record    *)
(* (each runs under `mu`).  An absent entry is 0 in `sid` and `expiry` and *)
(* NoRf in `rf`; an assigned_dapp_id of 0 is nullopt.                      *)
(***************************************************************************)
EXTENDS SubscriptionTypes

CONSTANT NoRf

DAppStates == [assigned_dapp_id : 0..MAX_ID,
               sid : [RanFunctions -> 0..MAX_ID],       \* ran_function_to_subscription_id
               rf : [Ids -> RanFunctions \union {NoRf}], \* subscription_id_to_ran_function
               expiry : [RanFunctions -> Nat]]          \* ran_function_expiry

clear_session == [assigned_dapp_id |-> 0,
                  sid |-> [rf \in RanFunctions |-> 0],
                  rf |-> [i \in Ids |-> NoRf],
                  expiry |-> [rf \in RanFunctions |-> NoLimit]]

record_setup_response(s, d) == [s EXCEPT !.assigned_dapp_id = d]

record_subscription(s, rf, i, expires_at) ==
    [s EXCEPT !.sid[rf] = i, !.rf[i] = rf, !.expiry[rf] = expires_at]

\* Forget the subscriptions to `rfs`, and whatever their ids map to.
Forget(s, rfs) ==
    LET ids == {s.sid[rf] : rf \in rfs}
    IN  [s EXCEPT !.sid = [rf \in RanFunctions |-> IF rf \in rfs THEN 0 ELSE s.sid[rf]],
                  !.rf = [i \in Ids |-> IF i \in ids THEN NoRf ELSE s.rf[i]],
                  !.expiry = [rf \in RanFunctions |-> IF rf \in rfs THEN NoLimit
                                                                    ELSE s.expiry[rf]]]

\* Variant: a subscription is forgotten one tick before its deadline.
expire_subscriptions_early(s, at) ==
    Forget(s, {rf \in RanFunctions : is_expired(s.expiry[rf], at + 1)})

expire_subscriptions(s, at) ==
    Forget(s, {rf \in RanFunctions : is_expired(s.expiry[rf], at)})

remove_subscription_by_rf(s, rf) == IF s.sid[rf] = 0 THEN s ELSE Forget(s, {rf})

subscription_id_for(s, rf) == s.sid[rf]
=============================================================================
