------------------------------ MODULE RanAgent ------------------------------
(***************************************************************************)
(* The RAN-role E3Interface: the threads it starts, the handlers they run  *)
(* on SubscriptionManager and SmRegistry, and start() and stop().          *)
(*                                                                         *)
(* A handler is one step up to the manager call, whose lifecycle checks    *)
(* and callbacks (start_sm, stop_sm) follow as steps of the same thread;   *)
(* its answer is queued when they are done.  The reads a handler makes     *)
(* before the manager call are merged with it: only the inbound thread     *)
(* unregisters dApps, and the registry shrinks only in stop(), after join. *)
(*                                                                         *)
(* One application thread calls start() and stop(), so start() is one step *)
(* and its CONNECTING and CONNECTED are not seen: nothing but start() and  *)
(* stop() acts on the state.                                               *)
(***************************************************************************)
EXTENDS SubscriptionManager

CONSTANTS SetupThread, InboundThread, ExpiryThread,
          MAX_RAN_FUNCTIONS,
          FactoryFunctions,   \* RAN functions the application gives a factory
          SmMayFail,          \* an SM's init() or start() may fail
          MaxStops            \* bound on the calls of stop()

ASSUME AgentThreads == Threads = {SetupThread, InboundThread, ExpiryThread}

VARIABLES sms, factories, running, result,   \* SmRegistry
          state,              \* E3Interface::state_
          alive,              \* threads that have not left their loop
          last_pass,          \* threads that took their last message or sweep
          listing,            \* RAN functions the setup thread has still to look up
          answer,             \* what the inbound thread does once its call is done
          stops,              \* calls of stop() so far
          start_failed        \* history: RAN functions whose SM's last start() failed

Registry == INSTANCE SmRegistry

registryVars == <<sms, factories, running, result, start_failed>>
threadVars == <<state, alive, last_pass, stops>>
agentVars == <<vars, registryVars, threadVars, listing, answer>>

States == {"INITIALIZED", "RUNNING", "STOPPING", "ERROR"}

\* Request lists and control ids, seen against what the SM offers.
Lists == {"empty", "unknown", "offered"}
Controls == {"unknown", "offered"}

Pdus == {"none", "SUBSCRIBED", "DELETED", "ACK", "CONTROL"}
Causes == {"none", "SETUP_REQUIRED", "UNSUPPORTED_RAN_FUNCTION", "INVALID_REQUEST",
           "UNSUPPORTED_IDENTIFIER", "RESOURCE_EXHAUSTED", "NOT_FOUND", "UNSPECIFIED"}
NoAnswer == [pdu |-> "none"]
Answers == [pdu : Pdus \ {"none"}, cause : Causes, dapp : Ids, key : Keys \union {NoOwner}]

\* A cause of "none" is a positive answer.
Answer(pdu, cause, d, key) ==
    answer' = [pdu |-> pdu, cause |-> cause, dapp |-> d, key |-> key]

-----------------------------------------------------------------------------
\* Threads.

Done(t) ==
    /\ Idle(t)
    /\ t = SetupThread => listing = {}
    /\ t = InboundThread => answer = NoAnswer

\* The loop `while (!should_stop_)`: a thread that was already past the test when
\* stop() set the flag makes one more pass.
Takes(t) ==
    /\ t \in alive \ last_pass
    /\ Done(t)
    /\ last_pass' = IF state = "STOPPING" THEN last_pass \union {t} ELSE last_pass
    /\ UNCHANGED <<state, alive, stops>>

\* Variant: the expiry loop does not test should_stop_ after its wait.
Leaves_but_expiry(t) ==
    /\ t # ExpiryThread
    /\ state = "STOPPING"
    /\ t \in alive
    /\ Done(t)
    /\ alive' = alive \ {t}
    /\ UNCHANGED <<vars, registryVars, state, last_pass, listing, answer, stops>>

Leaves(t) ==
    /\ state = "STOPPING"
    /\ t \in alive
    /\ Done(t)
    /\ alive' = alive \ {t}
    /\ UNCHANGED <<vars, registryVars, state, last_pass, listing, answer, stops>>

\* register_dapp, then one registry lookup per available RAN function.
handle_setup_request ==
    /\ Takes(SetupThread)
    /\ register_dapp(SetupThread)
    /\ listing' = Registry!get_available_ran_functions
    /\ UNCHANGED <<registryVars, answer>>

list_ran_function ==
    /\ \E rf \in listing, found \in BOOLEAN :
          /\ Registry!get_by_ran_function(rf, found)
          /\ ~found => SmMayFail
          /\ listing' = listing \ {rf}
    /\ UNCHANGED <<vars, threadVars, answer, start_failed>>

handle_subscription_request(d, rf, lists, time) ==
    /\ Takes(InboundThread)
    /\ \/ /\ ~is_dapp_registered(d)
          /\ Answer("SUBSCRIBED", "SETUP_REQUIRED", d, NoOwner)
          /\ UNCHANGED <<vars, registryVars>>
       \/ /\ is_dapp_registered(d)
          /\ Registry!get_by_ran_function(rf, FALSE)
          /\ rf \in factories => SmMayFail
          /\ Answer("SUBSCRIBED", "UNSUPPORTED_RAN_FUNCTION", d, NoOwner)
          /\ UNCHANGED vars
       \/ /\ is_dapp_registered(d)
          /\ Registry!get_by_ran_function(rf, TRUE)
          /\ lists # "offered"
          /\ Answer("SUBSCRIBED", IF lists = "empty" THEN "INVALID_REQUEST"
                                                     ELSE "UNSUPPORTED_IDENTIFIER", d, NoOwner)
          /\ UNCHANGED vars
       \/ /\ is_dapp_registered(d)
          /\ Registry!get_by_ran_function(rf, TRUE)
          /\ lists = "offered"
          /\ add_subscription(InboundThread, d, rf, time)
          /\ Answer("SUBSCRIBED",
                    CASE ret'.code \in {"SUCCESS", "SUBSCRIPTION_EXISTS"} -> "none"
                      [] ret'.code = "INTERNAL_ERROR" -> "RESOURCE_EXHAUSTED"
                      [] OTHER -> "UNSPECIFIED",
                    d, <<d, rf>>)
    /\ UNCHANGED <<listing, start_failed>>

handle_subscription_delete(d, i) ==
    /\ Takes(InboundThread)
    /\ remove_subscription_by_id(InboundThread, d, i)
    /\ Answer("DELETED",
              CASE ret'.code = "SUCCESS" -> "none"
                [] ret'.code = "DAPP_NOT_REGISTERED" -> "SETUP_REQUIRED"
                [] OTHER -> "NOT_FOUND",
              d, subscription_ids[i])
    /\ UNCHANGED <<registryVars, listing>>

\* A control that is not refused goes to the SM in a later step: the SM may be
\* stopped by another thread after the is_running() test.
handle_control_action(d, rf, control) ==
    /\ Takes(InboundThread)
    /\ \/ /\ ~is_dapp_registered(d)
          /\ Answer("ACK", "SETUP_REQUIRED", d, <<d, rf>>)
          /\ UNCHANGED registryVars
       \/ /\ is_dapp_registered(d)
          /\ Registry!get_by_ran_function(rf, FALSE)
          /\ rf \in factories => SmMayFail
          /\ Answer("ACK", "UNSUPPORTED_RAN_FUNCTION", d, <<d, rf>>)
       \/ /\ is_dapp_registered(d)
          /\ Registry!get_by_ran_function(rf, TRUE)
          /\ \/ /\ control = "unknown"
                /\ Answer("ACK", "UNSUPPORTED_IDENTIFIER", d, <<d, rf>>)
             \/ /\ control = "offered"
                /\ rf \notin running
                /\ Answer("ACK", "NOT_FOUND", d, <<d, rf>>)
             \/ /\ control = "offered"
                /\ rf \in running
                /\ Answer("CONTROL", "none", d, <<d, rf>>)
    /\ UNCHANGED <<vars, listing, start_failed>>

\* handle_dapp_disconnection; a release has no answer.
handle_release_message(d) ==
    /\ Takes(InboundThread)
    /\ unregister_dapp(InboundThread, d)
    /\ UNCHANGED <<registryVars, listing, answer>>

\* queue_outbound of the answer, or the SM's handle_control_action.
FinishAnswer ==
    /\ answer # NoAnswer
    /\ Idle(InboundThread)
    /\ answer' = NoAnswer
    /\ UNCHANGED <<vars, registryVars, threadVars, listing>>

\* Variant: the expiry thread sweeps only when it starts.
subscription_expiry_loop_once ==
    /\ Takes(ExpiryThread)
    /\ now = 0
    /\ expire_subscriptions(ExpiryThread)
    /\ UNCHANGED <<registryVars, listing, answer>>

subscription_expiry_loop ==
    /\ Takes(ExpiryThread)
    /\ expire_subscriptions(ExpiryThread)
    /\ UNCHANGED <<registryVars, listing, answer>>

CheckLifecycle(t) ==
    /\ check_sm_lifecycle(t)
    /\ UNCHANGED <<registryVars, threadVars, listing, answer>>

\* The result of start_sm is logged and goes nowhere else.
NoteStart(rf) ==
    start_failed' = IF result' = "START_FAILED" THEN start_failed \union {rf}
                                                ELSE start_failed \ {rf}

\* Variant: the start is asked for, the stop is not.
on_sm_lifecycle_change_start_only(t) ==
    /\ sm_lifecycle_callback(t)
    /\ \E rf \in to_notify[t] :
          IF had_subscribers[t] THEN UNCHANGED registryVars
                                ELSE Registry!start_sm(rf) /\ NoteStart(rf)
    /\ result' = "START_FAILED" => SmMayFail
    /\ UNCHANGED <<threadVars, listing, answer>>

on_sm_lifecycle_change(t) ==
    /\ sm_lifecycle_callback(t)
    /\ \E rf \in to_notify[t] :
          /\ IF had_subscribers[t] THEN Registry!stop_sm(rf) ELSE Registry!start_sm(rf)
          /\ NoteStart(rf)
    /\ result' = "START_FAILED" => SmMayFail
    /\ UNCHANGED <<threadVars, listing, answer>>

-----------------------------------------------------------------------------
\* The application.

register_sm(rf) ==
    /\ \E acceptable \in BOOLEAN : Registry!register_sm(rf, acceptable)
    /\ result' = "INIT_FAILED" => SmMayFail
    /\ UNCHANGED <<vars, threadVars, listing, answer, start_failed>>

register_sm_factory(rf) ==
    /\ Registry!register_sm_factory(rf)
    /\ UNCHANGED <<vars, threadVars, listing, answer, start_failed>>

\* start() fails when the connector cannot be set up; the inbound thread ends at
\* once when its own socket cannot.  A restart keeps the subscription manager.
start ==
    /\ state = "INITIALIZED"
    /\ \/ /\ state' = "RUNNING"
          /\ alive' \in {Threads, Threads \ {InboundThread}}
          /\ last_pass' = {}
       \/ /\ state' = "ERROR"
          /\ UNCHANGED <<alive, last_pass>>
    /\ UNCHANGED <<vars, registryVars, listing, answer, stops>>

\* stop() up to the joins.
stop ==
    /\ state # "STOPPING"
    /\ stops < MaxStops
    /\ stops' = stops + 1
    /\ state' = "STOPPING"
    /\ UNCHANGED <<vars, registryVars, alive, last_pass, listing, answer>>

\* Variant: the expiry thread is not joined.
stop_joined_but_expiry ==
    /\ state = "STOPPING"
    /\ alive \subseteq {ExpiryThread}
    /\ Registry!clear
    /\ start_failed' = {}
    /\ state' = "INITIALIZED"
    /\ UNCHANGED <<vars, alive, last_pass, stops, listing, answer>>

\* The rest of stop(), once every thread is joined.
stop_joined ==
    /\ state = "STOPPING"
    /\ alive = {}
    /\ Registry!clear
    /\ start_failed' = {}
    /\ state' = "INITIALIZED"
    /\ UNCHANGED <<vars, alive, last_pass, stops, listing, answer>>

Clock == Tick /\ UNCHANGED <<registryVars, threadVars, listing, answer>>

-----------------------------------------------------------------------------

AgentInit ==
    /\ Init
    /\ Registry!Init
    /\ state = "INITIALIZED"
    /\ alive = {}
    /\ last_pass = {}
    /\ listing = {}
    /\ answer = NoAnswer
    /\ stops = 0
    /\ start_failed = {}

Setup == handle_setup_request \/ list_ran_function

Inbound ==
    \/ \E d \in Ids, rf \in RanFunctions, lists \in Lists, time \in SubscriptionTimes :
          handle_subscription_request(d, rf, lists, time)
    \/ \E d, i \in Ids : handle_subscription_delete(d, i)
    \/ \E d \in Ids, rf \in RanFunctions, control \in Controls :
          handle_control_action(d, rf, control)
    \/ \E d \in Ids : handle_release_message(d)
    \/ FinishAnswer

Application ==
    \/ \E rf \in RanFunctions : register_sm(rf)
    \/ \E rf \in FactoryFunctions : register_sm_factory(rf)
    \/ start
    \/ stop
    \/ stop_joined

AgentNext ==
    \/ Setup
    \/ Inbound
    \/ subscription_expiry_loop
    \/ \E t \in Threads : CheckLifecycle(t) \/ on_sm_lifecycle_change(t) \/ Leaves(t)
    \/ Application
    \/ Clock

AgentSpec == AgentInit /\ [][AgentNext]_agentVars

\* A thread finishes the call it is in and, told to stop, leaves its loop; the
\* expiry thread wakes up every 250 ms; stop() goes on once its joins return.
AgentFairness ==
    /\ \A t \in Threads : WF_agentVars(CheckLifecycle(t) \/ on_sm_lifecycle_change(t))
    /\ \A t \in Threads : WF_agentVars(Leaves(t))
    /\ WF_agentVars(list_ran_function)
    /\ WF_agentVars(FinishAnswer)
    /\ WF_agentVars(subscription_expiry_loop)
    /\ WF_agentVars(stop_joined)

FairAgentSpec == AgentSpec /\ AgentFairness

-----------------------------------------------------------------------------
\* Properties.

AgentTypeOK ==
    /\ TypeOK
    /\ Registry!TypeOK
    /\ state \in States
    /\ alive \subseteq Threads
    /\ last_pass \subseteq Threads
    /\ listing \subseteq RanFunctions
    /\ answer \in Answers \union {NoAnswer}
    /\ stops \in 0..MaxStops
    /\ start_failed \subseteq RanFunctions \ running

\* "Starts and stops with the first and the last subscriber": when no thread is
\* inside a call, a registered SM that runs has subscribers, and one that has
\* subscribers runs, unless it failed the start() they called for.
SettledLifecycle ==
    state = "RUNNING" /\ (\A t \in Threads : Done(t)) =>
       \A rf \in sms : /\ rf \in running => has_subscribers(rf)
                       /\ has_subscribers(rf) => rf \in running \union start_failed

\* The positive answer to a subscription request is queued after on_sm_lifecycle_change
\* started the SM, so a control the dApp sends on receiving it finds the SM running.
\* The one exception is documented: "The service model fails to start. The E3 Agent
\* still answers "positive"."
GrantedIsRunning ==
    /\ answer # NoAnswer
    /\ answer.pdu = "SUBSCRIBED"
    /\ answer.cause = "none"
    /\ Idle(InboundThread)
    => answer.key[2] \in running \union start_failed

\* handle_control_action answers NOT_FOUND ("the service model does not run, because
\* no dApp has a subscription to the RAN function") only when no dApp has one or the
\* service model failed to start for it.
NotFoundMeansUnsubscribed ==
    /\ answer # NoAnswer
    /\ answer.pdu = "ACK"
    /\ answer.cause = "NOT_FOUND"
    => ~has_subscribers(answer.key[2]) \/ answer.key[2] \in start_failed

\* The list of RAN functions in a SetupResponse fits its limit, while the application
\* registers SMs and factories and handlers turn factories into SMs.
RegistryFits == Registry!WithinCapacity

\* stop() leaves nothing behind that can start an SM: no thread is alive and no SM
\* runs in an agent that is not started, whatever was in progress when it stopped.
StoppedIsQuiet ==
    state \in {"INITIALIZED", "ERROR"} => alive = {} /\ running = {}

\* stop() returns: no thread it joins waits for ever, whatever it was doing.
StopCompletes == state = "STOPPING" ~> state = "INITIALIZED"

\* While the agent runs, a subscription whose time is up is ended (the maps lose it)
\* or renewed.
ExpiredIsEnded ==
    \A k \in Keys :
       (state = "RUNNING" /\ is_expired(subscription_details[k], now))
          ~> (state # "RUNNING" \/ ~is_expired(subscription_details[k], now))
=============================================================================
