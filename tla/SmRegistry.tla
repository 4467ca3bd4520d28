----------------------------- MODULE SmRegistry -----------------------------
(***************************************************************************)
(* SmRegistry: the Service Models (SMs) of a RAN node, at most one per RAN *)
(* function, and the factories that create one on demand.  Every operation *)
(* holds mutex_ from start to end, the virtual calls into the SM included, *)
(* so each is one step.  An SM's init() and start() may fail.  RanAgent is *)
(* the system these actions are steps of; unregister_sm, which nothing in  *)
(* the library calls, is left out.                                         *)
(***************************************************************************)
EXTENDS Integers, FiniteSets

CONSTANTS RanFunctions,
          MAX_RAN_FUNCTIONS   \* 64 in the code

VARIABLES sms,                \* RAN functions with a registered SM
          factories,          \* RAN functions with a factory
          running,            \* RAN functions whose SM is_running()
          result              \* what the last call returned

registryVars == <<sms, factories, running, result>>

ResultCodes == {"SUCCESS", "INVALID_PARAM", "SM_ALREADY_REGISTERED", "SM_NOT_FOUND",
                "INIT_FAILED", "START_FAILED"}

Full == Cardinality(sms) + Cardinality(factories) >= MAX_RAN_FUNCTIONS

\* Variant of register_sm: the factories are not counted.
register_sm_uncounted(rf, acceptable) ==
    /\ acceptable
    /\ rf \notin sms
    /\ Cardinality(sms) < MAX_RAN_FUNCTIONS
    /\ sms' = sms \union {rf}
    /\ result' = "SUCCESS"
    /\ UNCHANGED <<factories, running>>

\* `acceptable`: what the SM advertises, its data and its lists, is within the limits.
\* That is tested before the lock, the capacity and the conflict under it.
register_sm(rf, acceptable) ==
    /\ \/ /\ ~acceptable \/ Full
          /\ result' = "INVALID_PARAM"
          /\ UNCHANGED sms
       \/ /\ acceptable
          /\ ~Full
          /\ rf \in sms
          /\ result' = "SM_ALREADY_REGISTERED"
          /\ UNCHANGED sms
       \/ /\ acceptable
          /\ ~Full
          /\ rf \notin sms
          /\ \/ result' = "SUCCESS" /\ sms' = sms \union {rf}
             \/ result' = "INIT_FAILED" /\ UNCHANGED sms
    /\ UNCHANGED <<factories, running>>

register_sm_factory(rf) ==
    /\ \/ /\ rf \in sms \union factories
          /\ result' = "SM_ALREADY_REGISTERED"
          /\ UNCHANGED factories
       \/ /\ rf \notin sms \union factories
          /\ Full
          /\ result' = "INVALID_PARAM"
          /\ UNCHANGED factories
       \/ /\ rf \notin sms \union factories
          /\ ~Full
          /\ result' = "SUCCESS"
          /\ factories' = factories \union {rf}
    /\ UNCHANGED <<sms, running>>

\* `found`: the lookup returns an SM.  One made by a factory stays registered;
\* a factory whose SM fails to initialise is kept.
get_by_ran_function(rf, found) ==
    /\ \/ /\ rf \in sms
          /\ found
          /\ UNCHANGED <<sms, factories>>
       \/ /\ rf \in factories \ sms
          /\ found
          /\ sms' = sms \union {rf}
          /\ factories' = factories \ {rf}
       \/ /\ rf \notin sms
          /\ ~found
          /\ UNCHANGED <<sms, factories>>
    /\ UNCHANGED <<running, result>>

get_available_ran_functions == sms \union factories

start_sm(rf) ==
    /\ \/ /\ rf \notin sms
          /\ result' = "SM_NOT_FOUND"
          /\ UNCHANGED running
       \/ /\ rf \in running
          /\ result' = "SUCCESS"
          /\ UNCHANGED running
       \/ /\ rf \in sms \ running
          /\ \/ result' = "SUCCESS" /\ running' = running \union {rf}
             \/ result' = "START_FAILED" /\ UNCHANGED running
    /\ UNCHANGED <<sms, factories>>

stop_sm(rf) ==
    /\ result' = IF rf \in sms THEN "SUCCESS" ELSE "SM_NOT_FOUND"
    /\ running' = running \ {rf}
    /\ UNCHANGED <<sms, factories>>

clear ==
    /\ sms' = {}
    /\ factories' = {}
    /\ running' = {}
    /\ UNCHANGED result

Init ==
    /\ sms = {}
    /\ factories = {}
    /\ running = {}
    /\ result = "SUCCESS"

-----------------------------------------------------------------------------

TypeOK ==
    /\ sms \subseteq RanFunctions
    /\ factories \subseteq RanFunctions
    /\ running \subseteq RanFunctions
    /\ result \in ResultCodes

\* SMs and factories together never exceed MAX_RAN_FUNCTIONS, so the list that
\* get_available_ran_functions gives the SetupResponse always fits it, whichever
\* factories have been turned into SMs meanwhile.
WithinCapacity == Cardinality(sms) + Cardinality(factories) =< MAX_RAN_FUNCTIONS
=============================================================================
