----------------------------- MODULE E3Session -----------------------------
(***************************************************************************)
(* One E3 Agent and several dApps that subscribe and unsubscribe.  The RAN *)
(* side is SubscriptionTable, which SubscriptionManager implements; each   *)
(* dApp has its DAppSubscriptionState, its pending requests and its own    *)
(* message id counter.  A dApp's requests reach the agent in order.  The   *)
(* agent's responses go through one queue and are broadcast: every dApp    *)
(* receives every response, in order, and picks out its own.               *)
(*                                                                         *)
(* All clocks read `now`.  Setup is one step here.                         *)
(***************************************************************************)
EXTENDS SubscriptionTable, DAppSubscriptionState, Sequences, TLC

CONSTANTS DApps,
          Resubscribes,       \* dApps subscribe to what they already hold
          MaxMessages,        \* bound on the messages a dApp sends
          MaxReleases         \* bound on the releases of a dApp

VARIABLES dapp_state,         \* DAppSubscriptionState of each dApp
          pending_subscriptions,  \* message id -> PendingSubscriptionOp
          calling,            \* the request each application is in the middle of
          next_message_id,    \* message ids handed out so far
          releases,           \* releases so far
          release_sent,
          to_ran, from_ran    \* messages under way

dappVars == <<dapp_state, pending_subscriptions, calling, next_message_id, releases,
              release_sent>>
netVars == <<to_ran, from_ran>>
sessionVars == <<tableVars, dappVars, netVars>>

Mids == 1..MaxMessages
NoOp == [op |-> "none"]
Ops == [op : {"subscribe", "delete"}, rf : RanFunctions, time : SubscriptionTimes \union {0}]

NoCall == [op |-> NoOp]

Id(a) == dapp_state[a].assigned_dapp_id

Outstanding(a, rf) ==
    \E mid \in Mids : /\ pending_subscriptions[a][mid] # NoOp
                      /\ pending_subscriptions[a][mid].rf = rf

-----------------------------------------------------------------------------
\* A dApp.  Its application is one thread, waits for the answer to a request for a
\* RAN function before it makes the next one, and makes none after release().

\* Every message takes the next id.
generate_message_id(a) ==
    /\ next_message_id[a] < MaxMessages
    /\ next_message_id' = [next_message_id EXCEPT ![a] = @ + 1]

Setup(a) ==
    /\ Id(a) = 0
    /\ generate_message_id(a)
    /\ \E d \in Ids : lowest_free_id(d, registered)
    /\ Register
    /\ dapp_state' = [dapp_state EXCEPT ![a] = record_setup_response(@, ret'.id)]
    /\ UNCHANGED <<pending_subscriptions, calling, releases, release_sent, netVars>>

\* Variant: the request is sent before it is recorded.
Statements_late == <<"queue_outbound", "remember_subscription_op">>

\* "Recorded before the send, not after": the other threads and the agent may act
\* between the two.
Statements == <<"remember_subscription_op", "queue_outbound">>

\* A push that the queue refuses is taken back (forget_subscription_op).
Perform(a, statement, call) ==
    \/ /\ statement = "remember_subscription_op"
       /\ pending_subscriptions' = [pending_subscriptions EXCEPT ![a][call.msg.mid] = call.op]
       /\ UNCHANGED to_ran
    \/ /\ statement = "queue_outbound"
       /\ \/ /\ to_ran' = [to_ran EXCEPT ![a] = Append(@, call.msg)]
             /\ UNCHANGED pending_subscriptions
          \/ /\ pending_subscriptions' =
                   [pending_subscriptions EXCEPT ![a][call.msg.mid] = NoOp]
             /\ UNCHANGED to_ran

\* The call up to its first statement that others can see.  (`rf` is not part of a
\* DELETE message: a property uses it.)
Request(a, op, msg) ==
    LET call == [op |-> op,
                 msg |-> msg @@ [mid |-> next_message_id[a] + 1, dapp |-> Id(a)]]
    IN  /\ Id(a) # 0
        /\ ~release_sent[a]
        /\ calling[a] = NoCall
        /\ ~Outstanding(a, op.rf)
        /\ generate_message_id(a)
        /\ Perform(a, Statements[1], call)
        /\ calling' = [calling EXCEPT ![a] = call]
        /\ UNCHANGED <<tableVars, dapp_state, releases, release_sent, from_ran>>

FinishRequest(a) ==
    /\ calling[a] # NoCall
    /\ Perform(a, Statements[2], calling[a])
    /\ calling' = [calling EXCEPT ![a] = NoCall]
    /\ UNCHANGED <<tableVars, dapp_state, next_message_id, releases, release_sent, from_ran>>

queue_subscription_request(a, rf, time) ==
    /\ Resubscribes \/ dapp_state[a].sid[rf] = 0
    /\ Request(a, [op |-> "subscribe", rf |-> rf, time |-> time],
                  [pdu |-> "SUBSCRIBE", rf |-> rf, time |-> time])

queue_subscription_delete(a, rf) ==
    /\ subscription_id_for(dapp_state[a], rf) # 0
    /\ Request(a, [op |-> "delete", rf |-> rf, time |-> 0],
                  [pdu |-> "DELETE", rf |-> rf, sid |-> subscription_id_for(dapp_state[a], rf)])

queue_release_message(a) ==
    /\ Id(a) # 0
    /\ ~release_sent[a]
    /\ calling[a] = NoCall
    /\ releases[a] < MaxReleases
    /\ generate_message_id(a)
    /\ releases' = [releases EXCEPT ![a] = @ + 1]
    /\ release_sent' = [release_sent EXCEPT ![a] = TRUE]
    /\ to_ran' = [to_ran EXCEPT ![a] = Append(@, [pdu |-> "RELEASE", dapp |-> Id(a)])]
    /\ UNCHANGED <<tableVars, dapp_state, pending_subscriptions, calling, from_ran>>

\* stop() and start() of a dApp whose release has been sent out.
Restart(a) ==
    /\ release_sent[a]
    /\ to_ran[a] = <<>>
    /\ dapp_state' = [dapp_state EXCEPT ![a] = clear_session]
    /\ pending_subscriptions' = [pending_subscriptions EXCEPT ![a] = [mid \in Mids |-> NoOp]]
    /\ release_sent' = [release_sent EXCEPT ![a] = FALSE]
    /\ from_ran' = [from_ran EXCEPT ![a] = <<>>]
    /\ UNCHANGED <<tableVars, calling, next_message_id, releases, to_ran>>

IsMine(a, msg) == Id(a) # 0 /\ Id(a) = msg.dapp

\* Variant: the deadline counts from an instant before the response.
Deadline_early(op) == IF op.time = 0 THEN NoLimit ELSE ExpiresAt(now, op.time) - 1

\* The deadline counts from the response.
Deadline(op) == ExpiresAt(now, op.time)

handle_subscription_response(a) ==
    LET msg == Head(from_ran[a])
        op == pending_subscriptions[a][msg.request_id]
        s == dapp_state[a]
    IN  /\ from_ran[a] # <<>>
        /\ from_ran' = [from_ran EXCEPT ![a] = Tail(@)]
        /\ \/ /\ ~IsMine(a, msg)
              /\ UNCHANGED <<dapp_state, pending_subscriptions>>
           \/ /\ IsMine(a, msg)
              /\ op = NoOp
              /\ UNCHANGED <<dapp_state, pending_subscriptions>>
           \/ /\ IsMine(a, msg)
              /\ op # NoOp
              /\ pending_subscriptions' =
                    [pending_subscriptions EXCEPT ![a][msg.request_id] = NoOp]
              /\ dapp_state' = [dapp_state EXCEPT ![a] =
                    IF ~msg.positive THEN s
                    ELSE IF op.op = "delete" THEN remove_subscription_by_rf(s, op.rf)
                    ELSE record_subscription(s, op.rf, msg.sid, Deadline(op))]
        /\ UNCHANGED <<tableVars, calling, next_message_id, releases, release_sent, to_ran>>

subscription_expiry_loop(a) ==
    /\ dapp_state' = [dapp_state EXCEPT ![a] = expire_subscriptions(@, now)]
    /\ UNCHANGED <<tableVars, pending_subscriptions, calling, next_message_id, releases,
                   release_sent, netVars>>

-----------------------------------------------------------------------------
\* The agent.

Respond(msg, positive, sid) ==
    from_ran' = [b \in DApps |-> Append(from_ran[b],
        [dapp |-> msg.dapp, request_id |-> msg.mid, positive |-> positive, sid |-> sid])]

handle_subscription_request(msg) ==
    /\ msg.pdu = "SUBSCRIBE"
    /\ Add(<<msg.dapp, msg.rf>>, msg.time)
    /\ Respond(msg, ret'.code \in {"SUCCESS", "SUBSCRIPTION_EXISTS"}, ret'.id)

handle_subscription_delete(msg) ==
    /\ msg.pdu = "DELETE"
    /\ RemoveById(msg.dapp, msg.sid)
    /\ Respond(msg, ret'.code = "SUCCESS", msg.sid)

handle_release_message(msg) ==
    /\ msg.pdu = "RELEASE"
    /\ Unregister(msg.dapp)
    /\ UNCHANGED from_ran

inbound_loop_ran(a) ==
    /\ to_ran[a] # <<>>
    /\ LET msg == Head(to_ran[a])
       IN  \/ handle_subscription_request(msg)
           \/ handle_subscription_delete(msg)
           \/ handle_release_message(msg)
    /\ to_ran' = [to_ran EXCEPT ![a] = Tail(@)]
    /\ UNCHANGED dappVars

RanExpiry == Expire /\ UNCHANGED <<dappVars, netVars>>

Clock == Tick /\ UNCHANGED <<dappVars, netVars>>

-----------------------------------------------------------------------------

SessionInit ==
    /\ TableInit
    /\ dapp_state = [a \in DApps |-> clear_session]
    /\ pending_subscriptions = [a \in DApps |-> [mid \in Mids |-> NoOp]]
    /\ calling = [a \in DApps |-> NoCall]
    /\ next_message_id = [a \in DApps |-> 0]
    /\ releases = [a \in DApps |-> 0]
    /\ release_sent = [a \in DApps |-> FALSE]
    /\ to_ran = [a \in DApps |-> <<>>]
    /\ from_ran = [a \in DApps |-> <<>>]

DApp(a) ==
    \/ Setup(a)
    \/ \E rf \in RanFunctions :
          \/ queue_subscription_delete(a, rf)
          \/ \E time \in SubscriptionTimes : queue_subscription_request(a, rf, time)
    \/ FinishRequest(a)
    \/ queue_release_message(a)
    \/ Restart(a)
    \/ handle_subscription_response(a)
    \/ subscription_expiry_loop(a)

SessionNext ==
    \/ \E a \in DApps : DApp(a) \/ inbound_loop_ran(a)
    \/ RanExpiry
    \/ Clock

SessionSpec == SessionInit /\ [][SessionNext]_sessionVars

-----------------------------------------------------------------------------
\* Properties.

SessionTypeOK ==
    /\ registered \subseteq Ids
    /\ dapp_state \in [DApps -> DAppStates]
    /\ pending_subscriptions \in [DApps -> [Mids -> Ops \union {NoOp}]]
    /\ \A a \in DApps : calling[a].op \in Ops \union {NoOp}
    /\ next_message_id \in [DApps -> 0..MaxMessages]
    /\ \A a \in DApps : \A n \in DOMAIN from_ran[a] : from_ran[a][n].dapp \in Ids

\* Without time limits the two ends agree: whenever a dApp has no request for a RAN
\* function under way, it holds exactly the subscription the agent has for it.
InSync ==
    \A a \in DApps, rf \in RanFunctions :
       Id(a) # 0 /\ ~release_sent[a] /\ ~Outstanding(a, rf) =>
          dapp_state[a].sid[rf] = table[<<Id(a), rf>>].id

\* "the dApp deadline is never earlier than that of the E3 Agent": for every
\* subscription both ends hold, with no request for it under way.
DeadlineNotEarlier ==
    \A a \in DApps, rf \in RanFunctions :
       LET mine == dapp_state[a].expiry[rf]
           theirs == table[<<Id(a), rf>>]
       IN  /\ Id(a) # 0
           /\ dapp_state[a].sid[rf] # 0
           /\ ~Outstanding(a, rf)
           /\ theirs.id # 0
           => mine = NoLimit \/ (theirs.expires_at # NoLimit /\ theirs.expires_at =< mine)

\* "A dApp that renews the moment its deadline passes always reaches the E3 Agent
\* after the old subscription is gone": what a dApp no longer holds, and has no
\* request for, the agent has ended or will treat as ended.
RenewalIsFresh ==
    \A a \in DApps, rf \in RanFunctions :
       LET theirs == table[<<Id(a), rf>>]
       IN  /\ Id(a) # 0
           /\ ~release_sent[a]
           /\ dapp_state[a].sid[rf] = 0
           /\ ~Outstanding(a, rf)
           => theirs.id = 0 \/ is_expired(theirs.expires_at, now)

\* unsubscribe(rf), "Send a SubscriptionDelete for a previously subscribed RAN
\* function", ends no other subscription.
UnsubscribeEndsItsOwn ==
    [][\A a \in DApps :
          inbound_loop_ran(a) /\ Head(to_ran[a]).pdu = "DELETE" =>
             \A k \in Keys : k # <<Head(to_ran[a]).dapp, Head(to_ran[a]).rf>>
                                => table'[k] = table[k]]_sessionVars
=============================================================================
