-------------------------- MODULE AlertStateMachine --------------------------
(***************************************************************************)
(* The alert policy of app/alerts/state_machine.py as operators: how one   *)
(* market cycle turns the persisted alert_state row and the observed set   *)
(* of qualifying coins into a decision and the next row.                   *)
(*                                                                         *)
(* Abstractions.  A coin is a model value and a fingerprint (a sorted      *)
(* tuple of distinct coins) is the set of its coins.  The UTC hour is      *)
(* HourLen clock units.  pending_from and updated_at are left out: the     *)
(* first only words the alert text and nothing reads the second.           *)
(***************************************************************************)
EXTENDS Integers, FiniteSets

CONSTANTS
    Coins,               \* base coins of the market universe
    MinCoins,            \* min_qualifying_coins
    MaxCoins,            \* max_qualifying_coins
    Debounce,            \* int(alert_debounce_seconds)
    Cooldown,            \* int(composition_change_cooldown_seconds)
    HourLen,             \* length of an hourly bucket
    ImmediateTransition, \* immediate_transition_alerts
    HourlyActive,        \* hourly_active_alerts
    CompositionChange,   \* composition_change_alerts
    None                 \* Python's None

\* What Settings validates (app/config.py): non-negative numbers, at least one
\* coin, and every flag a boolean.  A cooldown of zero is accepted.
ASSUME SettingsAssumption ==
    /\ MinCoins \in Nat \ {0} /\ MaxCoins \in Nat \ {0}
    /\ Debounce \in Nat /\ Cooldown \in Nat /\ HourLen \in Nat \ {0}
    /\ ImmediateTransition \in BOOLEAN
    /\ HourlyActive \in BOOLEAN
    /\ CompositionChange \in BOOLEAN
    /\ None \notin Int

STATE_EMPTY == "EMPTY"
STATE_ACTIVE_RANGE == "ACTIVE_RANGE"
STATE_OVER_RANGE == "OVER_RANGE"
States == {STATE_EMPTY, STATE_ACTIVE_RANGE, STATE_OVER_RANGE}

Instant == Nat \union {None}

\* The alert_state row (repository.py, AlertStateRepository).
AlertState == [state : States,
               fingerprint : SUBSET Coins,
               last_transition_at : Instant,
               pending_since : Instant,
               last_hourly_bucket : Instant,
               last_composition_at : Instant]

\* What load() answers while the table is empty.
InitialAlertState == [state |-> STATE_EMPTY,
                      fingerprint |-> {},
                      last_transition_at |-> None,
                      pending_since |-> None,
                      last_hourly_bucket |-> None,
                      last_composition_at |-> None]

classify_state(coins) ==
    IF Cardinality(coins) < MinCoins THEN STATE_EMPTY
    ELSE IF Cardinality(coins) <= MaxCoins THEN STATE_ACTIVE_RANGE
    ELSE STATE_OVER_RANGE

Active(coins) == classify_state(coins) = STATE_ACTIVE_RANGE

hourly_bucket(ts) == ts \div HourLen

\* Mutants of PendingSince: entry is not tested, so a stable range pends
\* again; every cycle restarts the debounce.
MutPendingAgain(row, ts) ==
    IF row.pending_since = None THEN ts ELSE row.pending_since
MutPendingRestarts(row, ts) ==
    IF row.state # STATE_ACTIVE_RANGE \/ row.pending_since # None
    THEN ts ELSE row.pending_since

\* pending_since once the entry into the active range has been noted.
PendingSince(row, ts) ==
    IF row.state # STATE_ACTIVE_RANGE /\ row.pending_since = None
    THEN ts ELSE row.pending_since

Debounced(row, ts) ==
    /\ PendingSince(row, ts) # None
    /\ ts - PendingSince(row, ts) >= Debounce

\* decision.live_transition
LiveTransition(row, coins, ts) ==
    Active(coins) /\ Debounced(row, ts) /\ ImmediateTransition

\* Mutant of CompositionUpdate: no cooldown.
MutNoCooldown(row, coins, ts) ==
    /\ Active(coins) /\ PendingSince(row, ts) = None
    /\ coins # row.fingerprint /\ CompositionChange

\* decision.composition_update, decided by _maybe_composition_update
CompositionUpdate(row, coins, ts) ==
    /\ Active(coins)
    /\ PendingSince(row, ts) = None
    /\ coins # row.fingerprint
    /\ CompositionChange
    /\ \/ row.last_composition_at = None
       \/ ts - row.last_composition_at >= Cooldown

\* Mutant of NextPending: leaving the range does not cancel the debounce.
MutPendingKept(row, coins, ts) ==
    IF Active(coins) /\ Debounced(row, ts) THEN None
    ELSE IF Active(coins) THEN PendingSince(row, ts) ELSE row.pending_since

\* Leaving the range, or a completed debounce, ends the pending transition.
NextPending(row, coins, ts) ==
    IF Active(coins) /\ ~Debounced(row, ts) THEN PendingSince(row, ts) ELSE None

\* decision.hourly_update
HourlyUpdate(row, coins, ts) ==
    /\ Active(coins)
    /\ NextPending(row, coins, ts) = None
    /\ HourlyActive
    /\ ~LiveTransition(row, coins, ts)
    /\ row.last_hourly_bucket # hourly_bucket(ts)

\* Mutant of NextHourlyBucket: a transition leaves the hour to the hourly
\* message.
MutTransitionLeavesHour(row, coins, ts) ==
    IF HourlyUpdate(row, coins, ts)
    THEN hourly_bucket(ts) ELSE row.last_hourly_bucket

\* A live transition and an hourly update both consume the hour.
NextHourlyBucket(row, coins, ts) ==
    IF LiveTransition(row, coins, ts) \/ HourlyUpdate(row, coins, ts)
    THEN hourly_bucket(ts) ELSE row.last_hourly_bucket

\* The row evaluate() returns beside the decision.
NextAlertState(row, coins, ts) ==
    [state |-> classify_state(coins),
     fingerprint |-> coins,
     last_transition_at |->
        IF LiveTransition(row, coins, ts) THEN ts ELSE row.last_transition_at,
     pending_since |-> NextPending(row, coins, ts),
     last_hourly_bucket |-> NextHourlyBucket(row, coins, ts),
     last_composition_at |->
        IF CompositionUpdate(row, coins, ts) THEN ts ELSE row.last_composition_at]

\* The message process() writes for the decision: a transition hides a
\* composition update, which hides an hourly one.
AlertKind(row, coins, ts) ==
    IF LiveTransition(row, coins, ts) THEN "transition"
    ELSE IF CompositionUpdate(row, coins, ts) THEN "composition"
    ELSE IF HourlyUpdate(row, coins, ts) THEN "hourly"
    ELSE "none"
==============================================================================
