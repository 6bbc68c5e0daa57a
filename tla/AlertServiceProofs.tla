-------------------------- MODULE AlertServiceProofs --------------------------
(***************************************************************************)
(* The safety properties of AlertService hold for every universe of coins, *)
(* every setting that app/config.py accepts, and every number of restarts  *)
(* and failed transactions.                                                *)
(***************************************************************************)
EXTENDS AlertService, FiniteSetTheorems, TLAPS

\* The inductive invariant: the properties need each other.
IInv == TypeOK /\ StateFollowsEpisode /\ DecisionInTime /\ RowsMatchState

-------------------------------------------------------------------------------
(* Lemmas about the operators *)

\* Hours are natural numbers and follow the clock.
LEMMA HourlyBucketMonotone ==
    /\ \A t \in Nat : hourly_bucket(t) \in Nat
    /\ \A s, t \in Nat : s <= t => hourly_bucket(s) <= hourly_bucket(t)
  BY SettingsAssumption DEF hourly_bucket

\* Every set of coins is in one of the three states.
LEMMA ClassifyTyped == \A coins : classify_state(coins) \in States
  BY DEF classify_state, States

\* evaluate() answers a well-formed row.
LEMMA NextAlertStateTyped ==
    ASSUME NEW row \in AlertState, NEW coins \in SUBSET Coins, NEW ts \in Nat
    PROVE  NextAlertState(row, coins, ts) \in AlertState
<1>1. hourly_bucket(ts) \in Instant /\ ts \in Instant
  BY HourlyBucketMonotone DEF Instant
<1>2. PendingSince(row, ts) \in Instant
  BY <1>1 DEF PendingSince, AlertState
<1>3. NextPending(row, coins, ts) \in Instant
  BY <1>2 DEF NextPending, Instant
<1>4. NextHourlyBucket(row, coins, ts) \in Instant
  BY <1>1 DEF NextHourlyBucket, AlertState
<1> QED
  BY <1>1, <1>3, <1>4, ClassifyTyped DEF NextAlertState, AlertState

\* A key that can be computed is well-formed.
LEMMA DedupeKeyTyped ==
    ASSUME NEW kind \in Kinds, NEW coins \in SUBSET Coins, NEW ts \in Nat,
           ~KeyRaises(kind)
    PROVE  DedupeKey(kind, coins, ts) \in Keys
<1>1. KeySlot(kind, ts) \in Nat
  <2>1. CASE kind \in {"transition", "hourly"}
    BY <2>1, HourlyBucketMonotone DEF KeySlot
  <2>2. CASE kind = "composition"
    <3>1. Cooldown \in Nat \ {0}
      BY <2>2, SettingsAssumption DEF KeyRaises
    <3>2. ts \div Cooldown \in Nat
      BY <3>1
    <3> QED
      BY <2>2, <3>2 DEF KeySlot
  <2> QED
    BY <2>1, <2>2 DEF Kinds
<1> QED
  BY <1>1 DEF DedupeKey, Keys

\* The kind of a message says which decision produced it.
LEMMA AlertKindMeaning ==
    ASSUME NEW row, NEW coins, NEW ts
    PROVE  /\ AlertKind(row, coins, ts) \in Kinds \union {"none"}
           /\ AlertKind(row, coins, ts) = "transition"
                <=> LiveTransition(row, coins, ts)
           /\ AlertKind(row, coins, ts) = "composition"
                => CompositionUpdate(row, coins, ts)
           /\ AlertKind(row, coins, ts) = "hourly"
                => HourlyUpdate(row, coins, ts)
  BY DEF AlertKind, Kinds
-------------------------------------------------------------------------------
(* The step that matters: a transaction that commits *)

\* The row that Commit writes is well-formed and newer than the outbox.
LEMMA CycleRowTyped ==
    ASSUME TypeOK, DecisionInTime, pc = "evaluated", CycleKind # "none"
    PROVE  CycleRow \in Row /\ CycleRow.at = cycle.at /\ CycleRow.key.kind = CycleKind
<1>1. CycleKind \in Kinds
  BY AlertKindMeaning DEF CycleKind
<1>2. cycle.coins \in SUBSET Coins /\ cycle.at \in Nat /\ ~KeyRaises(CycleKind)
  BY DEF TypeOK, DecisionInTime
<1>3. DedupeKey(CycleKind, cycle.coins, cycle.at) \in Keys
  BY <1>1, <1>2, DedupeKeyTyped
<1> QED
  BY <1>2, <1>3 DEF CycleRow, Row, DedupeKey

\* A committed cycle keeps every variable in its type.
LEMMA CommitTyped ==
    ASSUME TypeOK, DecisionInTime, Commit
    PROVE  TypeOK'
<1>1. alert_state' \in AlertState
  BY NextAlertStateTyped DEF TypeOK, Commit
<1>2. outbox' \in SUBSET Row
  BY CycleRowTyped DEF TypeOK, Commit
<1>3. episode' \in [start : Instant, transitions : Nat]
  BY DEF TypeOK, Commit, NextEpisode, NoEpisode, Instant
<1>4. announced' \in Nat
  BY DEF TypeOK, Commit
<1> QED
  BY <1>1, <1>2, <1>3, <1>4 DEF TypeOK, Commit

\* The pending debounce still dates from the start of the episode.
LEMMA CommitFollowsEpisode ==
    ASSUME TypeOK, StateFollowsEpisode, Commit
    PROVE  StateFollowsEpisode'
<1> DEFINE row == alert_state
           coins == cycle.coins
           ts == cycle.at
<1>1. /\ cycle.row = alert_state /\ row \in AlertState /\ ts \in Nat
      /\ alert_state' = NextAlertState(row, coins, ts)
      /\ episode' = NextEpisode
      /\ None # ts
  BY SettingsAssumption DEF StateFollowsEpisode, Commit, TypeOK
<1>2. CycleKind = "transition" <=> LiveTransition(row, coins, ts)
  BY <1>1, AlertKindMeaning DEF CycleKind
<1>3. CASE ~Active(coins)
  BY <1>1, <1>3 DEF NextAlertState, NextEpisode, NoEpisode, NextPending,
     StateFollowsEpisode, Active, Commit
<1>4. CASE Active(coins)
  <2>1. /\ alert_state'.state = STATE_ACTIVE_RANGE
        /\ alert_state'.pending_since = NextPending(row, coins, ts)
        /\ episode'.start = IF episode.start = None THEN ts ELSE episode.start
    BY <1>1, <1>4 DEF NextAlertState, NextEpisode, Active
  <2>2. episode'.start # None
    BY <2>1, <1>1
  <2>3. ASSUME NextPending(row, coins, ts) # None
        PROVE  /\ NextPending(row, coins, ts) = episode'.start
               /\ episode'.transitions = 0
    <3>1. ~LiveTransition(row, coins, ts)
      BY <2>3, <1>4 DEF LiveTransition, NextPending
    <3>2. episode'.transitions = episode.transitions
      BY <3>1, <1>1, <1>2, <1>4 DEF NextEpisode
    <3>3. NextPending(row, coins, ts) = PendingSince(row, ts)
      BY <2>3 DEF NextPending
    <3>4. CASE row.state # STATE_ACTIVE_RANGE
      <4>1. episode.start = None /\ row.pending_since = None
        BY <3>4, <1>1 DEF StateFollowsEpisode
      <4>2. episode.transitions = 0
        BY <4>1 DEF StateFollowsEpisode
      <4> QED
        BY <4>1, <4>2, <3>2, <3>3, <3>4, <2>1 DEF PendingSince
    <3>5. CASE row.state = STATE_ACTIVE_RANGE
      <4>1. row.pending_since # None
        BY <2>3, <3>3, <3>5 DEF PendingSince
      <4> QED
        BY <4>1, <3>2, <3>3, <3>5, <2>1, <1>1 DEF PendingSince, StateFollowsEpisode
    <3> QED
      BY <3>4, <3>5
  <2> QED
    BY <2>1, <2>2, <2>3 DEF StateFollowsEpisode, Commit
<1> QED
  BY <1>3, <1>4
\* The remembered times are those of the messages committed with them.
LEMMA CommitRowsMatch ==
    ASSUME TypeOK, DecisionInTime, StateFollowsEpisode, RowsMatchState, Commit
    PROVE  RowsMatchState'
<1> DEFINE row == alert_state
           coins == cycle.coins
           ts == cycle.at
<1>1. /\ cycle.row = alert_state /\ pc = "evaluated"
      /\ ts \in Nat /\ ts # None
      /\ alert_state' = NextAlertState(row, coins, ts)
      /\ row \in AlertState /\ outbox \in SUBSET Row
      /\ \A r \in outbox : r.at <= ts
  BY SettingsAssumption DEF StateFollowsEpisode, Commit, TypeOK, DecisionInTime
<1>2. /\ alert_state'.last_transition_at =
            IF CycleKind = "transition" THEN ts ELSE row.last_transition_at
      /\ CycleKind = "composition" => alert_state'.last_composition_at = ts
      /\ CycleKind # "composition" =>
            alert_state'.last_composition_at = row.last_composition_at
  <2>1. CompositionUpdate(row, coins, ts) => ~LiveTransition(row, coins, ts)
    BY DEF CompositionUpdate, LiveTransition, Debounced
  <2> QED
    BY <1>1, <2>1 DEF NextAlertState, CycleKind, AlertKind
<1>3. CycleKind # "none" => /\ CycleRow.at = ts /\ CycleRow.key.kind = CycleKind
  BY <1>1, CycleRowTyped
<1>4. CASE CycleKind = "none"
  BY <1>1, <1>2, <1>4 DEF Commit, RowsMatchState
<1>5. CASE CycleKind # "none"
  <2>1. outbox' = outbox \union {CycleRow}
    BY <1>5 DEF Commit
  <2>2. ASSUME alert_state'.last_transition_at # None
        PROVE  \E r \in outbox' : /\ r.key.kind = "transition"
                                 /\ r.at = alert_state'.last_transition_at
    BY <1>2, <1>3, <1>5, <2>1, <2>2 DEF RowsMatchState
  <2>3. ASSUME alert_state'.last_composition_at # None
        PROVE  \E r \in outbox' : /\ r.key.kind = "composition"
                                 /\ r.at = alert_state'.last_composition_at
    BY <1>2, <1>3, <1>5, <2>1, <2>3 DEF RowsMatchState
  <2>4. ASSUME NEW r \in outbox', r.key.kind = "transition"
        PROVE  /\ alert_state'.last_transition_at # None
               /\ r.at <= alert_state'.last_transition_at
    BY <1>1, <1>2, <1>3, <1>5, <2>1, <2>4 DEF RowsMatchState
  <2>5. ASSUME NEW r \in outbox', r.key.kind = "composition"
        PROVE  /\ alert_state'.last_composition_at # None
               /\ r.at <= alert_state'.last_composition_at
    BY <1>1, <1>2, <1>3, <1>5, <2>1, <2>5 DEF RowsMatchState
  <2> QED
    BY <2>2, <2>3, <2>4, <2>5 DEF RowsMatchState
<1> QED
  BY <1>4, <1>5

\* The hour of the row still covers every message that owns an hour.
LEMMA CommitInTime ==
    ASSUME TypeOK, DecisionInTime, StateFollowsEpisode, Commit
    PROVE  DecisionInTime'
<1> DEFINE row == alert_state
           coins == cycle.coins
           ts == cycle.at
           last == alert_state.last_hourly_bucket
<1>1. /\ cycle.row = alert_state /\ pc = "evaluated" /\ pc' = "idle"
      /\ ts \in Nat /\ now \in Nat /\ ts <= now /\ now' = now
      /\ alert_state' = NextAlertState(row, coins, ts)
      /\ row \in AlertState /\ outbox \in SUBSET Row
      /\ last # None => last \in Nat /\ last <= hourly_bucket(ts)
  BY DEF StateFollowsEpisode, Commit, TypeOK, DecisionInTime, AlertState, Instant
<1>2. /\ hourly_bucket(ts) \in Nat /\ hourly_bucket(now) \in Nat
      /\ hourly_bucket(ts) <= hourly_bucket(now)
      /\ hourly_bucket(ts) # None
  BY <1>1, HourlyBucketMonotone, SettingsAssumption
<1>3. \/ alert_state'.last_hourly_bucket = hourly_bucket(ts)
      \/ alert_state'.last_hourly_bucket = last
  BY <1>1 DEF NextAlertState, NextHourlyBucket
<1>4. CycleKind \in {"transition", "hourly"} =>
        alert_state'.last_hourly_bucket = hourly_bucket(ts)
  BY <1>1, AlertKindMeaning DEF NextAlertState, NextHourlyBucket, CycleKind
<1>5. /\ outbox' \in SUBSET (outbox \union {CycleRow})
      /\ CycleKind = "none" => outbox' = outbox
  BY DEF Commit
<1>6. CycleKind # "none" =>
        /\ CycleRow.at = ts /\ CycleRow.key.kind = CycleKind
  BY <1>1, CycleRowTyped
<1>7. \A r \in outbox' : r.at <= now'
  BY <1>1, <1>5, <1>6 DEF DecisionInTime
<1>8. alert_state'.last_hourly_bucket # None =>
        alert_state'.last_hourly_bucket <= hourly_bucket(now')
  BY <1>1, <1>2, <1>3
<1>9. ASSUME NEW r \in outbox', IsHourOwner(r)
      PROVE  /\ alert_state'.last_hourly_bucket # None
             /\ hourly_bucket(r.at) <= alert_state'.last_hourly_bucket
  <2>1. CASE r \in outbox
    <3>1. last # None /\ hourly_bucket(r.at) <= last /\ r.at \in Nat
      BY <1>9, <2>1, <1>1 DEF DecisionInTime, Row
    <3>2. hourly_bucket(r.at) \in Nat
      BY <3>1, HourlyBucketMonotone
    <3> QED
      BY <1>1, <1>2, <1>3, <3>1, <3>2
  <2>2. CASE r \notin outbox
    <3>1. r = CycleRow /\ CycleKind # "none"
      BY <1>5, <2>2
    <3>2. CycleKind \in {"transition", "hourly"} /\ r.at = ts
      BY <3>1, <1>6, <1>9 DEF IsHourOwner
    <3> QED
      BY <3>2, <1>2, <1>4
  <2> QED
    BY <2>1, <2>2
<1> QED
  BY <1>1, <1>7, <1>8, <1>9 DEF DecisionInTime, IsHourOwner
-------------------------------------------------------------------------------
(* The invariant is inductive *)

LEMMA InitIInv == Init => IInv
<1> SUFFICES ASSUME Init PROVE IInv
  OBVIOUS
<1>1. InitialAlertState \in AlertState
  BY DEF InitialAlertState, AlertState, Instant, States
<1>2. TypeOK
  BY <1>1 DEF Init, TypeOK, NoEpisode, Instant
<1>3. StateFollowsEpisode
  BY DEF Init, StateFollowsEpisode, InitialAlertState, NoEpisode,
     STATE_EMPTY, STATE_ACTIVE_RANGE
<1>4. DecisionInTime /\ RowsMatchState
  BY DEF Init, DecisionInTime, RowsMatchState, InitialAlertState
<1> QED
  BY <1>2, <1>3, <1>4 DEF IInv

\* Time passing does not overtake a decision.
LEMMA TickInTime ==
    ASSUME TypeOK, DecisionInTime, Tick
    PROVE  DecisionInTime'
<1>1. /\ now \in Nat /\ now' = now + 1 /\ now <= now'
      /\ cycle \in [row : AlertState, coins : SUBSET Coins, at : Nat]
      /\ UNCHANGED <<cycle, alert_state, outbox, pc>>
      /\ outbox \in SUBSET Row
  BY DEF TypeOK, Tick, durable
<1>2. /\ hourly_bucket(now) \in Nat /\ hourly_bucket(now') \in Nat
      /\ hourly_bucket(now) <= hourly_bucket(now')
  BY <1>1, HourlyBucketMonotone
<1>3. alert_state.last_hourly_bucket # None =>
        /\ alert_state.last_hourly_bucket \in Nat
        /\ alert_state.last_hourly_bucket <= hourly_bucket(now')
  BY <1>2 DEF DecisionInTime, TypeOK, AlertState, Instant
<1>4. \A r \in outbox : r.at <= now'
  BY <1>1 DEF DecisionInTime, Row
<1>5. CycleKind' = CycleKind
  BY <1>1 DEF CycleKind
<1> QED
  BY <1>1, <1>3, <1>4, <1>5 DEF DecisionInTime

\* A cycle begins with the stored row and the present time.
LEMMA EvaluateStep ==
    ASSUME IInv, Evaluate
    PROVE  IInv'
<1>1. /\ cycle' = [row |-> alert_state, coins |-> Qualifying, at |-> now]
      /\ pc' \in {"raised", "evaluated"}
      /\ pc' = "evaluated" => ~KeyRaises(AlertKind(alert_state, Qualifying, now))
      /\ UNCHANGED <<now, market, warm, alert_state, outbox, restarts, failures,
                     episode, announced>>
  BY DEF Evaluate, durable, history
<1>2. Qualifying \in SUBSET Coins
  BY DEF Qualifying, IInv, TypeOK
<1>3. TypeOK'
  BY <1>1, <1>2 DEF IInv, TypeOK
<1>4. StateFollowsEpisode'
  BY <1>1 DEF IInv, StateFollowsEpisode
<1>5. RowsMatchState'
  BY <1>1 DEF IInv, RowsMatchState
<1>6. pc' = "evaluated" => ~KeyRaises(CycleKind')
  BY <1>1 DEF CycleKind
<1>7. now \in Nat
  BY DEF IInv, TypeOK
<1>8. DecisionInTime'
  BY <1>1, <1>6, <1>7 DEF IInv, DecisionInTime
<1> QED
  BY <1>3, <1>4, <1>5, <1>8 DEF IInv

\* Every other step leaves the row and the outbox alone and decides nothing.
LEMMA QuietStep ==
    ASSUME IInv,
           UNCHANGED <<now, cycle, alert_state, outbox, episode>>,
           pc' = pc \/ pc' = "idle",
           TypeOK'
    PROVE  IInv'
<1>1. StateFollowsEpisode'
  BY DEF IInv, StateFollowsEpisode
<1>2. CycleKind' = CycleKind
  BY DEF CycleKind
<1>3. DecisionInTime'
  BY <1>2 DEF IInv, DecisionInTime
<1>4. RowsMatchState'
  BY DEF IInv, RowsMatchState
<1> QED
  BY <1>1, <1>3, <1>4 DEF IInv

LEMMA NextIInv == IInv /\ [Next]_vars => IInv'
<1> SUFFICES ASSUME IInv, [Next]_vars PROVE IInv'
  OBVIOUS
<1> USE DEF durable, history
<1>1. CASE Tick
  <2>1. TypeOK'
    BY <1>1 DEF IInv, TypeOK, Tick
  <2>2. DecisionInTime'
    BY <1>1, TickInTime DEF IInv
  <2>3. StateFollowsEpisode' /\ RowsMatchState'
    BY <1>1 DEF IInv, Tick, StateFollowsEpisode, RowsMatchState
  <2> QED
    BY <2>1, <2>2, <2>3 DEF IInv
<1>2. CASE MarketMove
  <2>1. TypeOK'
    BY <1>2 DEF IInv, TypeOK, MarketMove
  <2> QED
    BY <1>2, <2>1, QuietStep DEF MarketMove
<1>3. CASE WarmUp
  <2>1. TypeOK'
    BY <1>3 DEF IInv, TypeOK, WarmUp
  <2> QED
    BY <1>3, <2>1, QuietStep DEF WarmUp
<1>4. CASE Restart
  <2>1. TypeOK'
    <3>1. /\ UNCHANGED <<now, market, cycle, alert_state, outbox, failures,
                         episode, announced>>
          /\ warm' \in BOOLEAN /\ pc' = "idle"
      BY <1>4 DEF Restart
    <3>2. restarts' \in Nat
      BY <1>4 DEF IInv, TypeOK, Restart
    <3> QED
      BY <3>1, <3>2 DEF IInv, TypeOK
  <2> QED
    BY <1>4, <2>1, QuietStep DEF Restart
<1>5. CASE Evaluate
  BY <1>5, EvaluateStep
<1>6. CASE Commit
  BY <1>6, CommitTyped, CommitFollowsEpisode, CommitInTime, CommitRowsMatch DEF IInv
<1>7. CASE Suppress
  <2>1. TypeOK'
    BY <1>7 DEF IInv, TypeOK, Suppress
  <2> QED
    BY <1>7, <2>1, QuietStep DEF Suppress
<1>8. CASE TransactionFails
  <2>1. TypeOK'
    BY <1>8 DEF IInv, TypeOK, TransactionFails
  <2> QED
    BY <1>8, <2>1, QuietStep DEF TransactionFails
<1>9. CASE LoopError
  <2>1. TypeOK'
    BY <1>9 DEF IInv, TypeOK, LoopError
  <2> QED
    BY <1>9, <2>1, QuietStep DEF LoopError
<1>10. CASE UNCHANGED vars
  <2>1. TypeOK'
    BY <1>10 DEF IInv, TypeOK, vars
  <2> QED
    BY <1>10, <2>1, QuietStep DEF vars
<1> QED
  BY <1>1, <1>2, <1>3, <1>4, <1>5, <1>6, <1>7, <1>8, <1>9, <1>10
  DEF Next, MarketLoop

\* The inductive invariant holds in every reachable state.
THEOREM Invariance == Spec => []IInv
  BY InitIInv, NextIInv, PTL DEF Spec

\* The clock, the loop and both tables keep their types.
THEOREM TypeCorrectness == Spec => []TypeOK
  BY Invariance, PTL DEF IInv

\* The row's pending debounce always dates from the first of the committed
\* observations in range.
THEOREM EpisodeTracking == Spec => []StateFollowsEpisode
  BY Invariance, PTL DEF IInv

\* The row and the messages it remembers are never torn apart.
THEOREM AtomicAlert == Spec => []RowsMatchState
  BY Invariance, PTL DEF IInv

\* A decision in flight is never older than what is in the outbox.
THEOREM DecisionsAreInTime == Spec => []DecisionInTime
  BY Invariance, PTL DEF IInv

-------------------------------------------------------------------------------
(* The action properties *)

\* Only Commit writes to the outbox, and what it writes is its own row.
LEMMA NewRow ==
    ASSUME IInv, [Next]_vars, NEW r \in outbox' \ outbox
    PROVE  /\ Commit /\ r = CycleRow
           /\ r.at = cycle.at /\ r.key.kind = CycleKind
           /\ cycle.row = alert_state
<1>1. Commit
  BY DEF Next, MarketLoop, Tick, MarketMove, WarmUp, Restart, Evaluate,
     Suppress, TransactionFails, LoopError, vars, durable
<1>2. CycleKind # "none" /\ r = CycleRow
  BY <1>1 DEF Commit
<1>3. pc = "evaluated" /\ cycle.row = alert_state
  BY <1>1 DEF Commit, IInv, StateFollowsEpisode
<1> QED
  BY <1>1, <1>2, <1>3, CycleRowTyped DEF IInv

\* A live transition is announced only after a full debounce of observations
\* in range, and once per episode.
THEOREM TransitionsAreDebounced == Spec => DebouncedTransition
<1> DEFINE Good ==
      \A r \in outbox' \ outbox : r.key.kind = "transition" =>
         /\ episode'.start # None
         /\ r.at - episode'.start >= Debounce
         /\ episode.transitions = 0
<1>1. ASSUME IInv, [Next]_vars PROVE Good
  <2> SUFFICES ASSUME NEW r \in outbox' \ outbox, r.key.kind = "transition"
               PROVE  /\ episode'.start # None
                      /\ r.at - episode'.start >= Debounce
                      /\ episode.transitions = 0
    OBVIOUS
  <2> DEFINE row == alert_state
             ts == cycle.at
  <2>1. /\ Commit /\ r.at = ts /\ CycleKind = "transition"
        /\ cycle.row = row
    BY <1>1, NewRow
  <2>2. LiveTransition(row, cycle.coins, ts)
    BY <2>1, AlertKindMeaning DEF CycleKind
  <2>3. Active(cycle.coins) /\ PendingSince(row, ts) # None
        /\ ts - PendingSince(row, ts) >= Debounce
    BY <2>2 DEF LiveTransition, Debounced
  <2>4. /\ ts \in Nat /\ ts # None
        /\ episode'.start = IF episode.start = None THEN ts ELSE episode.start
    BY <1>1, <2>1, <2>3, SettingsAssumption DEF Commit, NextEpisode, IInv, TypeOK
  <2>5. CASE row.state # STATE_ACTIVE_RANGE
    <3>1. episode.start = None /\ row.pending_since = None
          /\ episode.transitions = 0
      BY <1>1, <2>5 DEF IInv, StateFollowsEpisode
    <3>2. PendingSince(row, ts) = ts
      BY <3>1, <2>5 DEF PendingSince
    <3> QED
      BY <2>1, <2>3, <2>4, <3>1, <3>2
  <2>6. CASE row.state = STATE_ACTIVE_RANGE
    <3>1. PendingSince(row, ts) = row.pending_since
      BY <2>6 DEF PendingSince
    <3>2. episode.start = PendingSince(row, ts) /\ episode.transitions = 0
      BY <1>1, <2>3, <3>1 DEF IInv, StateFollowsEpisode
    <3> QED
      BY <2>1, <2>3, <2>4, <3>2
  <2> QED
    BY <2>5, <2>6
<1>2. Spec => [][Good]_vars
  BY <1>1, Invariance, PTL DEF Spec
<1> QED
  BY <1>2 DEF DebouncedTransition

\* No hour gets an hourly message when it has a message already.
THEOREM HoursAreOwnedOnce == Spec => HourlyOwnsBucket
<1> DEFINE Good ==
      \A r \in outbox' \ outbox : r.key.kind = "hourly" =>
          ~ \E q \in outbox : /\ IsHourOwner(q)
                              /\ hourly_bucket(q.at) = hourly_bucket(r.at)
<1>1. ASSUME IInv, [Next]_vars PROVE Good
  <2> SUFFICES ASSUME NEW r \in outbox' \ outbox, r.key.kind = "hourly",
                      NEW q \in outbox, IsHourOwner(q),
                      hourly_bucket(q.at) = hourly_bucket(r.at)
               PROVE  FALSE
    OBVIOUS
  <2> DEFINE last == alert_state.last_hourly_bucket
  <2>1. /\ Commit /\ r.at = cycle.at /\ CycleKind = "hourly"
        /\ cycle.row = alert_state
    BY <1>1, NewRow
  <2>2. last # hourly_bucket(cycle.at)
    BY <2>1, AlertKindMeaning DEF CycleKind, HourlyUpdate
  <2>3. last # None /\ hourly_bucket(q.at) <= last
    BY <1>1 DEF IInv, DecisionInTime
  <2>4. last <= hourly_bucket(cycle.at)
    BY <1>1, <2>1, <2>3 DEF IInv, DecisionInTime, Commit
  <2>5. last \in Nat /\ hourly_bucket(cycle.at) \in Nat
    BY <1>1, <2>3, HourlyBucketMonotone DEF IInv, TypeOK, AlertState, Instant
  <2> QED
    BY <2>1, <2>2, <2>3, <2>4, <2>5
<1>2. Spec => [][Good]_vars
  BY <1>1, Invariance, PTL DEF Spec
<1> QED
  BY <1>2 DEF HourlyOwnsBucket

\* Composition messages keep the cooldown, across restarts and failures.
THEOREM CompositionsAreSpaced == Spec => []CompositionSpacing
<1>1. Init => CompositionSpacing
  BY DEF Init, CompositionSpacing
<1>2. ASSUME IInv, CompositionSpacing, [Next]_vars
      PROVE  CompositionSpacing'
  <2>1. ASSUME NEW r \in outbox' \ outbox, NEW s \in outbox,
               r.key.kind = "composition", s.key.kind = "composition"
        PROVE  r.at - s.at >= Cooldown
    <3>1. /\ r.at = cycle.at /\ CycleKind = "composition"
          /\ cycle.row = alert_state
      BY <1>2, <2>1, NewRow
    <3>2. \/ alert_state.last_composition_at = None
          \/ cycle.at - alert_state.last_composition_at >= Cooldown
      BY <3>1, AlertKindMeaning DEF CycleKind, CompositionUpdate
    <3>3. /\ alert_state.last_composition_at # None
          /\ s.at <= alert_state.last_composition_at
      BY <1>2, <2>1 DEF IInv, RowsMatchState
    <3>4. /\ alert_state.last_composition_at \in Nat
          /\ s.at \in Nat /\ cycle.at \in Nat
      BY <1>2, <3>3 DEF IInv, TypeOK, AlertState, Instant, Row
    <3> QED
      BY <3>1, <3>2, <3>3, <3>4, SettingsAssumption
  <2>2. \A r, s \in outbox' \ outbox : r = s
    BY <1>2, NewRow
  <2> QED
    BY <1>2, <2>1, <2>2 DEF CompositionSpacing
<1> QED
  BY <1>1, <1>2, Invariance, PTL DEF Spec

-------------------------------------------------------------------------------
(* One process announces a market once *)

\* The strengthening of AnnouncedOncePerRun.  A market that stays in range and
\* was announced is seen in range by each observation in flight, and its
\* episode has had its transition; one that left the range after the decision
\* to announce it is seen outside.
Settled ==
    restarts = 0 =>
        /\ announced <= 1
        /\ pc = "evaluated" /\ Active(cycle.coins) => warm
        /\ announced > 0 /\ Active(market) =>
             /\ warm /\ episode.transitions > 0
             /\ pc = "evaluated" => Active(cycle.coins)
        /\ announced > 0 /\ ~Active(market) =>
             (pc = "evaluated" => ~Active(cycle.coins))

\* An empty price engine is never in range.
LEMMA EmptyIsInactive == ~Active({})
  BY FS_EmptySet, SettingsAssumption
  DEF Active, classify_state, STATE_EMPTY, STATE_ACTIVE_RANGE

\* A cycle that announces has an observation in range, and an episode that
\* was not announced yet.
LEMMA NoSecondTransition ==
    ASSUME IInv, Commit, CycleKind = "transition"
    PROVE  Active(cycle.coins) /\ episode.transitions = 0
<1>1. cycle.row = alert_state
  BY DEF IInv, StateFollowsEpisode, Commit
<1>2. LiveTransition(alert_state, cycle.coins, cycle.at)
  BY <1>1, AlertKindMeaning DEF CycleKind
<1>3. Active(cycle.coins) /\ PendingSince(alert_state, cycle.at) # None
  BY <1>2 DEF LiveTransition, Debounced
<1>4. \/ alert_state.state # STATE_ACTIVE_RANGE
      \/ alert_state.pending_since # None
  BY <1>3 DEF PendingSince
<1> QED
  BY <1>3, <1>4 DEF IInv, StateFollowsEpisode

LEMMA CommitSettled ==
    ASSUME IInv, Settled, Commit
    PROVE  Settled'
<1>1. /\ announced \in Nat /\ episode.transitions \in Nat /\ pc = "evaluated"
      /\ pc' = "idle" /\ episode' = NextEpisode
      /\ UNCHANGED <<market, warm, cycle, restarts>>
  BY DEF Commit, IInv, TypeOK
<1>2. CASE CycleKind = "transition"
  <2>1. Active(cycle.coins) /\ episode.transitions = 0 /\ announced' = announced + 1
    BY <1>2, NoSecondTransition DEF Commit
  <2>2. restarts = 0 => announced = 0
    BY <1>1, <2>1 DEF Settled
  <2>3. episode'.transitions = 1
    BY <1>1, <1>2, <2>1 DEF NextEpisode
  <2> QED
    BY <1>1, <2>1, <2>2, <2>3 DEF Settled, Active, classify_state
<1>3. CASE CycleKind # "transition"
  <2>1. announced' = announced
    BY <1>3 DEF Commit
  <2>2. Active(cycle.coins) => episode'.transitions = episode.transitions
    BY <1>1, <1>3 DEF NextEpisode
  <2> QED
    BY <1>1, <2>1, <2>2 DEF Settled, Active, classify_state
<1> QED
  BY <1>2, <1>3

\* As long as the process lives, a market that stays in range is announced at
\* most once.
THEOREM OneAnnouncementPerRun == Spec => []AnnouncedOncePerRun
<1>1. Init => Settled
  BY DEF Init, Settled
<1>2. ASSUME IInv, Settled, [Next]_vars
      PROVE  Settled'
  <2> USE DEF durable, history
  <2>1. CASE MarketMove
    BY <1>2, <2>1 DEF MarketMove, Settled, Active, classify_state
  <2>2. CASE WarmUp
    BY <1>2, <2>2 DEF WarmUp, Settled, Active, classify_state
  <2>3. CASE Restart
    BY <1>2, <2>3 DEF Restart, Settled, IInv, TypeOK
  <2>4. CASE Evaluate
    <3>1. /\ cycle'.coins = Qualifying
          /\ UNCHANGED <<market, warm, restarts, announced, episode>>
      BY <2>4 DEF Evaluate
    <3>2. Qualifying = IF warm THEN market ELSE {}
      BY DEF Qualifying
    <3>3. Active(Qualifying) => warm /\ Active(market)
      BY <3>2, EmptyIsInactive
    <3>4. warm /\ Active(market) => Active(Qualifying)
      BY <3>2
    <3> QED
      BY <1>2, <3>1, <3>3, <3>4 DEF Settled, Active, classify_state
  <2>5. CASE Commit
    BY <1>2, <2>5, CommitSettled
  <2>6. CASE Tick \/ Suppress \/ TransactionFails \/ LoopError \/ UNCHANGED vars
    BY <1>2, <2>6 DEF Tick, Suppress, TransactionFails, LoopError, vars,
       Settled, Active, classify_state
  <2> QED
    BY <1>2, <2>1, <2>2, <2>3, <2>4, <2>5, <2>6 DEF Next, MarketLoop
<1>3. Settled => AnnouncedOncePerRun
  BY DEF Settled, AnnouncedOncePerRun, AnnouncedOnce
<1> QED
  BY <1>1, <1>2, <1>3, Invariance, PTL DEF Spec
===============================================================================
