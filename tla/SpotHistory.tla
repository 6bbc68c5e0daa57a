------------------------------ MODULE SpotHistory ------------------------------
(***************************************************************************)
(* app/market/momentum.py for one spot market: the market loop evaluates it *)
(* again and again, keeps at most one sample per sampling interval in       *)
(* SQLite, compares the price with the sample closest to an hour ago, and   *)
(* prunes old samples.  A sample is known by its time; that is its key in   *)
(* the table too.                                                          *)
(***************************************************************************)
EXTENDS Integers, FiniteSets

CONSTANTS
    Hour,          \* SECONDS_PER_HOUR
    SampleEvery,   \* spot_sample_seconds
    Tolerance,     \* spot_anchor_tolerance_seconds
    Retention,     \* spot_history_retention_seconds
    Poll,          \* wait between two cycles of the market loop
    Lag,           \* bound: the duration of one cycle
    MaxTime,       \* bound: the clock
    MaxFaults,     \* bound: database errors
    MaxRestarts,   \* bound: restarts
    None

(* Settings checks that the numbers are positive; that they fit each other is *)
(* true of the defaults (60, 90, 7200, 10 seconds) and not checked.           *)
ASSUME HistoryAssumption ==
    /\ {Hour, SampleEvery, Tolerance, Retention, Poll} \subseteq Nat \ {0}
    /\ {Lag, MaxTime, MaxFaults, MaxRestarts} \subseteq Nat /\ None \notin Int
    /\ SampleEvery + Poll + Lag <= 2 * Tolerance + 2 /\ Tolerance <= Hour
    /\ Hour + Tolerance <= Retention

VARIABLES
    now,
    samples,      \* price_samples of the market                   (persistent)
    last,         \* _last_sample_at, or None
    pc,           \* the cycle: "wait", "record", "anchor", "policy", "prune"
    at,           \* `now' of evaluate_all, read when the cycle begins
    due,          \* when the next cycle begins
    status,       \* of the last evaluation
    anchor,       \* the sample it compared with
    faults, restarts,
    recorded,     \* history: every sample ever inserted
    steady        \* history: first evaluation of an unbroken run, or None

store == <<samples, last, recorded>>
loop == <<pc, at, due>>
result == <<status, anchor>>
bounds == <<faults, restarts>>
vars == <<now, store, loop, result, bounds, steady>>

TypeOK ==
    /\ now \in 0 .. MaxTime /\ samples \subseteq recorded /\ recorded \subseteq 0 .. now
    /\ last \in recorded \union {None}
    /\ pc \in {"wait", "record", "anchor", "policy", "prune"}
    /\ at \in 0 .. now /\ due \in 0 .. MaxTime + Poll + SampleEvery
    /\ status \in {"NO_DATA", "WARMING_UP", "OK"} /\ anchor \in samples \union {None}
    /\ faults \in 0 .. MaxFaults /\ restarts \in 0 .. MaxRestarts
    /\ steady \in 0 .. now \union {None}

Init ==
    /\ now = 0 /\ samples = {} /\ last = None
    /\ pc = "wait" /\ at = 0 /\ due = 0
    /\ status = "NO_DATA" /\ anchor = None
    /\ faults = 0 /\ restarts = 0 /\ recorded = {} /\ steady = None

(* The loop wakes on time, and a cycle takes at most Lag.                     *)
Tick ==
    /\ now < MaxTime
    /\ IF pc = "wait" THEN now < due ELSE now - at < Lag
    /\ now' = now + 1
    /\ UNCHANGED <<store, loop, result, bounds, steady>>

(* evaluate_all reads the clock once, whenever it gets to this market.        *)
CycleStarts ==
    /\ pc = "wait" /\ now >= due
    /\ pc' = "record" /\ at' = now
    /\ UNCHANGED <<now, store, due, result, bounds, steady>>

(* No ticker, or one without a positive price.                                *)
NoPrice ==
    /\ pc = "record"
    /\ pc' = "policy" /\ status' = "NO_DATA" /\ anchor' = None /\ steady' = None
    /\ UNCHANGED <<now, store, at, due, bounds>>

\* Mutant of TooSoon: off by one.
MutTooSoonLate == last # None /\ at - last <= SampleEvery
TooSoon == last # None /\ at - last < SampleEvery

(* INSERT OR IGNORE: `last' only moves when a row was written.                *)
Record ==
    /\ pc = "record"
    /\ IF TooSoon \/ at \in samples
       THEN UNCHANGED store
       ELSE /\ samples' = samples \union {at} /\ recorded' = recorded \union {at}
            /\ last' = at
    /\ pc' = "anchor" /\ steady' = IF steady = None THEN at ELSE steady
    /\ UNCHANGED <<now, at, due, result, bounds>>

Dist(a, b) == IF a < b THEN b - a ELSE a - b

Near(kept, target) == {s \in kept : s \in target - Tolerance .. target + Tolerance}

(* ORDER BY ABS(timestamp - target), timestamp DESC LIMIT 1                   *)
Closest(near, target) ==
    CHOOSE s \in near : \A r \in near :
        \/ Dist(s, target) < Dist(r, target)
        \/ Dist(s, target) = Dist(r, target) /\ s >= r

Reference(kept, target) ==
    IF Near(kept, target) = {} THEN None ELSE Closest(Near(kept, target), target)

FindAnchor ==
    /\ pc = "anchor"
    /\ anchor' = Reference(samples, at - Hour)
    /\ status' = IF anchor' = None THEN "WARMING_UP" ELSE "OK"
    /\ pc' = "policy"
    /\ UNCHANGED <<now, store, at, due, bounds, steady>>

(* The alert service has processed the cycle.                                 *)
PolicyDone ==
    /\ pc = "policy" /\ pc' = "prune"
    /\ UNCHANGED <<now, store, at, due, result, bounds, steady>>

\* Mutant of Cutoff: nothing older than the hour is kept.
MutCutoffHour == now - Hour

Cutoff == now - Retention

Ended == pc' = "wait" /\ due' = now + Poll

Prune ==
    /\ pc = "prune"
    /\ samples' = {s \in samples : s >= Cutoff}
    /\ anchor' = None
    /\ Ended
    /\ UNCHANGED <<now, last, recorded, at, status, bounds, steady>>

(* Any database call of the cycle raises: what is left of the cycle is        *)
(* skipped (main.py:233-236).                                                 *)
CycleFails ==
    /\ pc # "wait" /\ faults < MaxFaults /\ faults' = faults + 1
    /\ anchor' = None /\ steady' = IF pc = "record" THEN None ELSE steady
    /\ Ended
    /\ UNCHANGED <<now, store, at, status, restarts>>

(* The map of last samples is lost, the table is not.                         *)
Restart ==
    /\ restarts < MaxRestarts /\ restarts' = restarts + 1
    /\ last' = None /\ pc' = "wait"
    /\ \E pause \in {0, SampleEvery} :
          /\ due' = now + pause
          /\ steady' = IF pause = 0 /\ pc # "record" THEN steady ELSE None
    /\ status' = "NO_DATA" /\ anchor' = None
    /\ UNCHANGED <<now, samples, recorded, at, faults>>

Next ==
    \/ Tick \/ CycleStarts \/ NoPrice \/ Record \/ FindAnchor \/ PolicyDone
    \/ Prune \/ CycleFails \/ Restart

Spec == Init /\ [][Next]_vars

--------------------------------------------------------------------------------
(* After an hour of unbroken evaluation with a price the market has an        *)
(* anchor: sampling, polling and tolerance leave no hole, pruning does not    *)
(* make one, and the history survives a quick restart (SPEC.md:66).           *)
WarmAfterAnHour ==
    pc = "policy" /\ steady # None /\ at - steady >= Hour => status = "OK"

(* Pruning never costs accuracy: the anchor is the one that all samples ever  *)
(* taken would give.                                                          *)
PruningIsInvisible ==
    pc = "policy" /\ status # "NO_DATA" => anchor = Reference(recorded, at - Hour)

(* The table stays small: any stretch of SampleEvery units holds one sample,  *)
(* and one more for each restart ("harmless", momentum.py:59-62).             *)
HistoryIsBounded ==
    \A t \in samples :
        Cardinality({s \in samples : s \in t .. t + SampleEvery - 1}) <= 1 + restarts
================================================================================
