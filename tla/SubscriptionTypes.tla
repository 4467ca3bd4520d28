------------------------- MODULE SubscriptionTypes -------------------------
(***************************************************************************)
(* Ids, deadlines and return values shared by SubscriptionManager and its  *)
(* abstract specification SubscriptionTable.                               *)
(***************************************************************************)
EXTENDS Integers

CONSTANTS RanFunctions,       \* RAN function identifiers
          MAX_ID,             \* ids are MIN_ID..MAX_ID (65535 in the code)
          SubscriptionTimes,  \* values of subscription_time_s, 0 = no limit
          MaxTime             \* bound on the clock

ASSUME SubscriptionConstants ==
    /\ MAX_ID \in Nat \ {0}
    /\ MaxTime \in Nat
    /\ SubscriptionTimes \subseteq Nat

MIN_ID == 1
\* Variant: the loop over candidate ids runs one past MAX_ID.
Ids_past_max == MIN_ID..(MAX_ID + 1)

Ids == MIN_ID..MAX_ID

\* make_sub_key: the composite key of a subscription.
Keys == Ids \X RanFunctions

Codes == {"SUCCESS", "INTERNAL_ERROR", "DAPP_NOT_REGISTERED",
          "SUBSCRIPTION_EXISTS", "SUBSCRIPTION_NOT_FOUND"}
Results == [code : Codes, id : 0..MAX_ID]

\* i is the lowest id that `taken` does not hold.
lowest_free_id(i, taken) ==
    /\ i \in Ids \ taken
    /\ \A j \in MIN_ID..(i - 1) : j \in taken

\* An unset expires_at.
NoLimit == 0

\* Deadline of a subscription that starts at `at`; the clock starts at 0, so a
\* set deadline is never NoLimit.
ExpiresAt(at, time) == IF time = 0 THEN NoLimit ELSE at + time

is_expired(deadline, at) == deadline > NoLimit /\ at >= deadline
=============================================================================
