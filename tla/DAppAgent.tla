----------------------------- MODULE DAppAgent -----------------------------
(***************************************************************************)
(* The session of a dApp-role E3Interface: the setup thread's handshake    *)
(* with its retries, the inbound thread that notices that the RAN is gone, *)
(* the application that waits, releases, stops and starts again, and a RAN *)
(* that may be slow, refuse, restart or release the dApp.                  *)
(*                                                                         *)
(* The setup response and the release travel on different channels, so     *)
(* they may overtake each other.  The inbound thread's on_ran_gone and the *)
(* setup thread run side by side: on_ran_gone is split where the other     *)
(* threads can see it.  A loop's test of should_stop and the blocking call *)
(* after it are separate steps: stop() may come in between, and what the   *)
(* call then returns is still handled.                                     *)
(***************************************************************************)
EXTENDS Integers

CONSTANTS MAX_RETRIES,        \* 5 in the code
          RecvAttempts,       \* receive attempts per request, 4 in the code
          MaxStarts,          \* bound on the calls of start()
          MaxRestarts,        \* bound on the restarts of the RAN
          MaxEvents           \* cap on the count of disconnect events

VARIABLES state,              \* E3Interface::state_
          setup_thread,       \* where setup_loop_dapp is
          retries, attempt,   \* its locals
          inbound_thread,     \* where inbound_loop_dapp is
          assigned_dapp_id,   \* the dApp has an id
          ran_gone,
          setup_complete, setup_succeeded,
          release,            \* release(): "none", "sending", "sent", "failed"
          waiter,             \* wait_for_setup: "none", "waiting", or its result
          events,             \* calls of disconnect_handler_ since start()
          silenced,           \* history: on_ran_gone found release_sent_ set
          setup_response,     \* history: the SetupResponse handled since start()
          request, response,  \* under way on the setup channel
          registered,         \* the RAN has the dApp registered
          released, link_lost, \* what the inbound socket has to tell
          starts, restarts

appVars == <<state, release, waiter, starts>>
setupVars == <<setup_thread, retries, attempt>>
sessionVars == <<assigned_dapp_id, ran_gone, setup_complete, setup_succeeded, events>>
historyVars == <<silenced, setup_response>>
ranVars == <<request, response, registered, released, link_lost, restarts>>
vars == <<appVars, setupVars, inbound_thread, sessionVars, historyVars, ranVars>>

should_stop == state = "STOPPING"

Responses == {"positive", "negative", "garbage"}

-----------------------------------------------------------------------------
\* setup_loop_dapp

\* An attempt without a response: the next request, if any is left.
Retry ==
    /\ retries' = retries + 1
    /\ attempt' = 0
    /\ setup_thread' = "loop"

\* The request is encoded once, before the loop; a failure ends the setup at once.
encode_setup_request ==
    /\ setup_thread = "encode"
    /\ \/ /\ setup_thread' = "loop"
          /\ UNCHANGED <<setup_complete, setup_succeeded>>
       \/ /\ setup_thread' = "done"
          /\ setup_complete' = TRUE
          /\ setup_succeeded' = FALSE
    /\ UNCHANGED <<appVars, retries, attempt, inbound_thread, assigned_dapp_id, ran_gone,
                   events, historyVars, ranVars>>

\* Variant: one request too many.
next_request_extra ==
    /\ setup_thread = "loop"
    /\ ~should_stop
    /\ retries =< MAX_RETRIES
    /\ setup_thread' = "send"
    /\ UNCHANGED <<appVars, retries, attempt, inbound_thread, sessionVars, historyVars, ranVars>>

next_request ==
    /\ setup_thread = "loop"
    /\ ~should_stop
    /\ retries < MAX_RETRIES
    /\ setup_thread' = "send"
    /\ UNCHANGED <<appVars, retries, attempt, inbound_thread, sessionVars, historyVars, ranVars>>

\* A new REQ socket each time: what the RAN sends to the old one is lost.
send_setup_request ==
    /\ setup_thread = "send"
    /\ \/ /\ request' = TRUE
          /\ response' = "none"
          /\ setup_thread' = "sent"
          /\ UNCHANGED <<retries, attempt>>
       \/ Retry /\ UNCHANGED <<request, response>>
    /\ UNCHANGED <<appVars, inbound_thread, sessionVars, historyVars, registered, released,
                   link_lost, restarts>>

next_attempt ==
    /\ setup_thread = "sent"
    /\ ~should_stop
    /\ attempt < RecvAttempts
    /\ setup_thread' = "recv"
    /\ UNCHANGED <<appVars, retries, attempt, inbound_thread, sessionVars, historyVars, ranVars>>

\* recv_setup_response_client: a time-out, an error, or a response.  A response that
\* does not decode costs the whole attempt.
recv_setup_response ==
    /\ setup_thread = "recv"
    /\ \/ /\ attempt' = attempt + 1
          /\ setup_thread' = "sent"
          /\ UNCHANGED <<retries, response, assigned_dapp_id, setup_response>>
       \/ /\ Retry
          /\ UNCHANGED <<response, assigned_dapp_id, setup_response>>
       \/ /\ response = "garbage"
          /\ response' = "none"
          /\ Retry
          /\ UNCHANGED <<assigned_dapp_id, setup_response>>
       \/ /\ response \in {"positive", "negative"}       \* handle_setup_response
          /\ assigned_dapp_id' = (assigned_dapp_id \/ response = "positive")
          /\ setup_response' = response
          /\ response' = "none"
          /\ setup_thread' = "got_response"
          /\ UNCHANGED <<retries, attempt>>
    /\ UNCHANGED <<appVars, inbound_thread, ran_gone, setup_complete, setup_succeeded, events,
                   silenced, request, registered, released, link_lost, restarts>>

recv_exhausted ==
    /\ setup_thread = "sent"
    /\ should_stop \/ attempt = RecvAttempts
    /\ Retry
    /\ UNCHANGED <<appVars, inbound_thread, sessionVars, historyVars, ranVars>>


\* Variant: the loop that runs out of retries returns without completing the setup.
setup_finished_not ==
    /\ \/ setup_thread = "got_response" /\ setup_complete' = TRUE /\ setup_succeeded' = TRUE
       \/ /\ setup_thread = "loop" /\ (should_stop \/ retries = MAX_RETRIES)
          /\ UNCHANGED <<setup_complete, setup_succeeded>>
    /\ setup_thread' = "done"
    /\ UNCHANGED <<appVars, retries, attempt, inbound_thread, assigned_dapp_id, ran_gone,
                   events, historyVars, ranVars>>

setup_finished ==
    /\ \/ setup_thread = "got_response"
       \/ setup_thread = "loop" /\ (should_stop \/ retries = MAX_RETRIES)
    /\ setup_complete' = TRUE
    /\ setup_succeeded' = (setup_thread = "got_response")
    /\ setup_thread' = "done"
    /\ UNCHANGED <<appVars, retries, attempt, inbound_thread, assigned_dapp_id, ran_gone,
                   events, historyVars, ranVars>>

setup_loop_dapp ==
    \/ encode_setup_request
    \/ next_request
    \/ send_setup_request
    \/ next_attempt
    \/ recv_setup_response
    \/ recv_exhausted
    \/ setup_finished

-----------------------------------------------------------------------------
\* inbound_loop_dapp.  After a release the loop goes on, after a lost connection it
\* ends.

\* Variant: a session that has already ended ends again.
on_ran_gone_again(then) ==
    /\ ran_gone' = TRUE
    /\ assigned_dapp_id' = FALSE
    /\ inbound_thread' = [at |-> "gone", then |-> then]

\* The exchange and clear_session.
on_ran_gone(then) ==
    IF ran_gone
    THEN inbound_thread' = [at |-> then, then |-> then] /\ UNCHANGED <<ran_gone, assigned_dapp_id>>
    ELSE /\ ran_gone' = TRUE
         /\ assigned_dapp_id' = FALSE
         /\ inbound_thread' = [at |-> "gone", then |-> then]

inbound_receives ==
    /\ inbound_thread.at = "loop"
    /\ ~should_stop
    /\ inbound_thread' = [inbound_thread EXCEPT !.at = "recv"]
    /\ UNCHANGED <<appVars, setupVars, sessionVars, historyVars, ranVars>>

handle_release_from_ran ==
    /\ inbound_thread.at = "recv"
    /\ released
    /\ released' = FALSE
    /\ IF assigned_dapp_id THEN on_ran_gone("loop")
                           ELSE /\ inbound_thread' = [inbound_thread EXCEPT !.at = "loop"]
                                /\ UNCHANGED <<ran_gone, assigned_dapp_id>>
    /\ UNCHANGED <<appVars, setupVars, setup_complete, setup_succeeded, events, historyVars,
                   request, response, registered, link_lost, restarts>>

\* receive() returned no message: should_stop_ is tested again.  A time-out has looked
\* for the break of the connection.
receive_nothing ==
    /\ inbound_thread.at = "recv"
    /\ ~released \/ link_lost
    /\ link_lost' = FALSE
    /\ inbound_thread' = IF should_stop THEN [at |-> "done", then |-> "done"]
                         ELSE [inbound_thread EXCEPT !.at = IF link_lost THEN "lost" ELSE "loop"]
    /\ UNCHANGED <<appVars, setupVars, sessionVars, historyVars,
                   request, response, registered, released, restarts>>

connection_lost ==
    /\ inbound_thread.at = "lost"
    /\ on_ran_gone("done")
    /\ UNCHANGED <<appVars, setupVars, setup_complete, setup_succeeded, events, historyVars,
                   ranVars>>

ran_gone_setup ==
    /\ inbound_thread.at = "gone"
    /\ setup_succeeded' = FALSE
    /\ inbound_thread' = [inbound_thread EXCEPT !.at = "event"]
    /\ UNCHANGED <<appVars, setupVars, assigned_dapp_id, ran_gone, setup_complete, events,
                   historyVars, ranVars>>

release_sent == release \in {"sending", "sent"}

\* Variant: release_sent_ stays set when the release could not be queued.
disconnect_event_after_failure == release = "none"

\* The application that released needs no event.
disconnect_event == ~release_sent

ran_gone_event ==
    /\ inbound_thread.at = "event"
    /\ events' = IF disconnect_event /\ events < MaxEvents THEN events + 1 ELSE events
    /\ silenced' = (silenced \/ release_sent)
    /\ inbound_thread' = [inbound_thread EXCEPT !.at = inbound_thread.then]
    /\ UNCHANGED <<appVars, setupVars, assigned_dapp_id, ran_gone, setup_complete,
                   setup_succeeded, setup_response, ranVars>>

inbound_stops ==
    /\ inbound_thread.at = "loop"
    /\ should_stop
    /\ inbound_thread' = [at |-> "done", then |-> "done"]
    /\ UNCHANGED <<appVars, setupVars, sessionVars, historyVars, ranVars>>

inbound_loop_dapp ==
    \/ inbound_receives
    \/ handle_release_from_ran
    \/ receive_nothing
    \/ connection_lost
    \/ ran_gone_setup
    \/ ran_gone_event
    \/ inbound_stops
-----------------------------------------------------------------------------
\* The application.

\* A restart creates the connector anew; if that fails the old session is untouched.
start_no_connector ==
    /\ state = "INITIALIZED"
    /\ starts \in 1..(MaxStarts - 1)
    /\ starts' = starts + 1
    /\ state' = "ERROR"
    /\ UNCHANGED <<release, waiter, setupVars, inbound_thread, sessionVars, historyVars, ranVars>>

\* start() also fails when the setup channel cannot be opened; the inbound thread ends
\* at once when its socket cannot.
start ==
    /\ state = "INITIALIZED"
    /\ starts < MaxStarts
    /\ starts' = starts + 1
    /\ assigned_dapp_id' = FALSE
    /\ ran_gone' = FALSE
    /\ release' = "none"
    /\ setup_complete' = FALSE
    /\ setup_succeeded' = FALSE
    /\ events' = 0
    /\ silenced' = FALSE
    /\ setup_response' = "none"
    /\ \/ /\ state' = "ERROR"
          /\ UNCHANGED <<setupVars, inbound_thread>>
       \/ /\ state' = "RUNNING"
          /\ setup_thread' = "encode"
          /\ retries' = 0
          /\ attempt' = 0
          /\ \E at \in {"loop", "done"} : inbound_thread' = [at |-> at, then |-> at]
    /\ request' = FALSE
    /\ response' = "none"
    /\ released' = FALSE
    /\ link_lost' = FALSE
    /\ UNCHANGED <<waiter, registered, restarts>>

\* queue_release_message: release_sent_ is set before the push and reset if it fails.
\* One thread of the application calls release() and stop().
queue_release_message ==
    /\ state = "RUNNING"
    /\ \/ /\ release # "sending"
          /\ assigned_dapp_id
          /\ release' = "sending"
       \/ /\ release = "sending"
          /\ release' \in {"sent", "failed"}
    /\ UNCHANGED <<state, waiter, starts, setupVars, inbound_thread, sessionVars, historyVars, ranVars>>

wait_for_setup ==
    /\ \/ /\ waiter # "waiting"
          /\ waiter' = "waiting"
       \/ /\ waiter = "waiting"
          /\ setup_complete
          /\ waiter' = IF setup_succeeded THEN "SUCCESS" ELSE "CONNECTION_FAILED"
    /\ UNCHANGED <<state, release, starts, setupVars, inbound_thread, sessionVars, historyVars, ranVars>>

wait_times_out ==
    /\ waiter = "waiting"
    /\ waiter' = "TIMEOUT"
    /\ UNCHANGED <<state, release, starts, setupVars, inbound_thread, sessionVars, historyVars, ranVars>>

\* stop() up to the joins.
stop ==
    /\ state # "STOPPING"
    /\ release # "sending"
    /\ state' = "STOPPING"
    /\ UNCHANGED <<release, waiter, starts, setupVars, inbound_thread, sessionVars, historyVars, ranVars>>

stop_joined ==
    /\ state = "STOPPING"
    /\ setup_thread = "done"
    /\ inbound_thread.at = "done"
    /\ setup_complete' = TRUE
    /\ state' = "INITIALIZED"
    /\ UNCHANGED <<release, waiter, starts, setupVars, inbound_thread, assigned_dapp_id,
                   ran_gone, setup_succeeded, events, historyVars, ranVars>>

Application ==
    \/ start_no_connector
    \/ start
    \/ queue_release_message
    \/ wait_for_setup
    \/ wait_times_out
    \/ stop
    \/ stop_joined

-----------------------------------------------------------------------------
\* The RAN, as the dApp sees it.

\* The answer may also be one that does not decode.
ran_answers ==
    /\ request
    /\ request' = FALSE
    /\ response' \in Responses
    /\ registered' = (registered \/ response' = "positive")
    /\ UNCHANGED <<appVars, setupVars, inbound_thread, sessionVars, historyVars, released, link_lost, restarts>>

ran_releases ==
    /\ registered
    /\ registered' = FALSE
    /\ released' = TRUE
    /\ UNCHANGED <<appVars, setupVars, inbound_thread, sessionVars, historyVars, request, response,
                   link_lost, restarts>>

\* A request the RAN has taken is lost, one still queued is not; the dApp sees the
\* break only on a socket that was already connected.
ran_restarts ==
    /\ restarts < MaxRestarts
    /\ restarts' = restarts + 1
    /\ registered' = FALSE
    /\ request' \in {request, FALSE}
    /\ link_lost' \in {link_lost, TRUE}
    /\ UNCHANGED <<appVars, setupVars, inbound_thread, sessionVars, historyVars, response, released>>

Ran == ran_answers \/ ran_releases \/ ran_restarts

-----------------------------------------------------------------------------

DAppInit ==
    /\ state = "INITIALIZED"
    /\ setup_thread = "done"
    /\ retries = 0
    /\ attempt = 0
    /\ inbound_thread = [at |-> "done", then |-> "done"]
    /\ assigned_dapp_id = FALSE
    /\ ran_gone = FALSE
    /\ setup_complete = FALSE
    /\ setup_succeeded = FALSE
    /\ release = "none"
    /\ waiter = "none"
    /\ events = 0
    /\ silenced = FALSE
    /\ setup_response = "none"
    /\ request = FALSE
    /\ response = "none"
    /\ registered = FALSE
    /\ released = FALSE
    /\ link_lost = FALSE
    /\ starts = 0
    /\ restarts = 0

DAppNext == setup_loop_dapp \/ inbound_loop_dapp \/ Application \/ Ran

DAppSpec == DAppInit /\ [][DAppNext]_vars

\* Every connector call returns (they have time-outs), so both threads go on; a
\* release() and a stop() that was called run on; a waiter whose condition holds
\* returns.  Nothing is assumed of the RAN and of time limits.
DAppFairness ==
    /\ WF_vars(setup_loop_dapp)
    /\ WF_vars(inbound_loop_dapp)
    /\ WF_vars(release = "sending" /\ queue_release_message)
    /\ WF_vars(waiter = "waiting" /\ wait_for_setup)
    /\ WF_vars(stop_joined)

FairDAppSpec == DAppSpec /\ DAppFairness

-----------------------------------------------------------------------------
\* Properties.

SetupLabels == {"encode", "loop", "send", "sent", "recv", "got_response", "done"}
InboundLabels == {"loop", "recv", "lost", "gone", "event", "done"}

DAppTypeOK ==
    /\ state \in {"INITIALIZED", "RUNNING", "STOPPING", "ERROR"}
    /\ setup_thread \in SetupLabels
    /\ retries \in 0..MAX_RETRIES
    /\ attempt \in 0..RecvAttempts
    /\ inbound_thread \in [at : InboundLabels, then : {"loop", "done"}]
    /\ <<assigned_dapp_id, ran_gone, setup_complete, setup_succeeded, silenced>>
          \in BOOLEAN \X BOOLEAN \X BOOLEAN \X BOOLEAN \X BOOLEAN
    /\ release \in {"none", "sending", "sent", "failed"}
    /\ waiter \in {"none", "waiting", "SUCCESS", "CONNECTION_FAILED", "TIMEOUT"}
    /\ events \in 0..MaxEvents
    /\ response \in Responses \union {"none"}
    /\ setup_response \in {"none", "positive", "negative"}

\* The disconnect handler "Fires once": a session that the RAN releases and whose
\* connection then breaks ends once.
EndsOnce == events =< 1


\* The handshake ends: however often requests or responses are lost, setup_loop_dapp
\* completes and lets wait_for_setup return.
SetupCompletes == state = "RUNNING" ~> setup_complete \/ state # "RUNNING"

\* No caller of wait_for_setup is left to its own time limit, whenever it calls and
\* also when stop() or a restart of the dApp comes in between; only a dApp that was
\* never started, or whose start() fails, leaves it there.
WaiterReturns ==
    waiter = "waiting" ~> (waiter # "waiting" \/ state = "ERROR" \/ starts = 0)

\* A lost connection is reported to the application, unless on_ran_gone finds that it
\* has asked for the end with release(), or it calls stop().  A release() that failed
\* before is no excuse.
LossIsReported ==
    (inbound_thread.at \in {"loop", "recv"} /\ link_lost /\ ~should_stop)
       ~> (events > 0 \/ silenced \/ state # "RUNNING")

\* The disconnect handler fires "after dapp_id() has been cleared. The dApp does not
\* reconnect": once it has fired the dApp has no id until the next start().
DisconnectIsFinal == events > 0 => ~assigned_dapp_id
=============================================================================
