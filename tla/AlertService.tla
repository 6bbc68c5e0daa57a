----------------------------- MODULE AlertService -----------------------------
(***************************************************************************)
(* The market loop of app/main.py driving AlertService.process: a cycle    *)
(* observes the price engine, evaluates the alert policy on the persisted  *)
(* row, and writes the next row and the outgoing notification in one       *)
(* transaction.  The clock runs, the market moves, a transaction may fail  *)
(* and the process may restart between any two of these steps.             *)
(*                                                                         *)
(* Named assumption: the wall clock does not run backwards.                *)
(***************************************************************************)
EXTENDS AlertStateMachine

CONSTANTS MaxTime,      \* bound: the last instant of the clock
          MaxRestarts,  \* bound: process restarts
          MaxFailures   \* bound: transactions the database refuses

ASSUME BoundsAssumption ==
    MaxTime \in Nat /\ MaxRestarts \in Nat /\ MaxFailures \in Nat

VARIABLES
    now,            \* the clock (int(time.time()))
    market,         \* the coins that really qualify
    warm,           \* the price engine has data (it starts empty)
    pc,             \* the market loop: "idle", "evaluated", "raised"
    cycle,          \* what process() read and decided: row, coins, time
    alert_state,    \* the alert_state row            (persistent)
    outbox,         \* outgoing_notifications rows     (persistent)
    restarts, failures,
    \* History variables: no action reads them.
    episode,        \* committed ACTIVE_RANGE run: its start, its transitions
    announced       \* transitions since the market itself last entered the range

durable == <<alert_state, outbox>>
history == <<episode, announced>>
vars == <<now, market, warm, pc, cycle, durable, restarts, failures, history>>

Kinds == {"transition", "composition", "hourly"}
NoEpisode == [start |-> None, transitions |-> 0]

\* The slot of a dedupe key: the second, the hour or the cooldown window.
KeySlot(kind, ts) ==
    IF kind = "transition" THEN ts
    ELSE IF kind = "hourly" THEN hourly_bucket(ts)
    ELSE ts \div Cooldown

\* _dedupe_key; the partial unique index makes it the row's identity.
DedupeKey(kind, coins, ts) ==
    [kind |-> kind, coins |-> coins, slot |-> KeySlot(kind, ts)]

\* Mutant of KeyRaises: no composition key can be computed.
MutKeyRaises(kind) == kind = "composition"

\* int(now) // cooldown has no value for a cooldown of zero.
KeyRaises(kind) == kind = "composition" /\ Cooldown = 0

Keys == [kind : Kinds, coins : SUBSET Coins, slot : Nat]
Row == [key : Keys, at : Nat]

TypeOK ==
    /\ now \in Nat
    /\ market \in SUBSET Coins
    /\ warm \in BOOLEAN
    /\ pc \in {"idle", "evaluated", "raised"}
    /\ cycle \in [row : AlertState, coins : SUBSET Coins, at : Nat]
    /\ alert_state \in AlertState
    /\ outbox \in SUBSET Row
    /\ restarts \in Nat /\ failures \in Nat
    /\ episode \in [start : Instant, transitions : Nat]
    /\ announced \in Nat

Init ==
    /\ now = 0
    /\ market = {}
    /\ warm = FALSE
    /\ pc = "idle"
    /\ cycle = [row |-> InitialAlertState, coins |-> {}, at |-> 0]
    /\ alert_state = InitialAlertState
    /\ outbox = {}
    /\ restarts = 0 /\ failures = 0
    /\ episode = NoEpisode
    /\ announced = 0

-------------------------------------------------------------------------------
(* The environment *)

Tick ==
    /\ now < MaxTime
    /\ now' = now + 1
    /\ UNCHANGED <<market, warm, pc, cycle, durable, restarts, failures, history>>

\* Prices move: another set of coins qualifies.
MarketMove ==
    /\ market' \in SUBSET Coins
    /\ announced' = IF Active(market) /\ Active(market') THEN announced ELSE 0
    /\ UNCHANGED <<now, warm, pc, cycle, durable, restarts, failures, episode>>

\* The tickers arrive (WebSocket snapshots or the first REST poll).
WarmUp ==
    /\ ~warm
    /\ warm' = TRUE
    /\ UNCHANGED <<now, market, pc, cycle, durable, restarts, failures, history>>

\* The process dies, or is stopped, and comes back with an empty price engine.
Restart ==
    /\ restarts < MaxRestarts
    /\ restarts' = restarts + 1
    /\ warm' = FALSE
    /\ pc' = "idle"
    /\ UNCHANGED <<now, market, cycle, durable, failures, history>>

-------------------------------------------------------------------------------
(* The market loop *)

\* What evaluate_all and aggregate_qualifying answer: nothing while the price
\* engine is empty.
Qualifying == IF warm THEN market ELSE {}

\* One pass begins: observe the market and load the row.  The dedupe key is
\* computed before the transaction opens, and may raise.
Evaluate ==
    /\ pc = "idle"
    /\ cycle' = [row |-> alert_state, coins |-> Qualifying, at |-> now]
    /\ pc' = IF KeyRaises(AlertKind(alert_state, Qualifying, now))
             THEN "raised" ELSE "evaluated"
    /\ UNCHANGED <<now, market, warm, durable, restarts, failures, history>>

CycleKind == AlertKind(cycle.row, cycle.coins, cycle.at)
CycleRow ==
    [key |-> DedupeKey(CycleKind, cycle.coins, cycle.at), at |-> cycle.at]
KeyTaken == \E r \in outbox : r.key = CycleRow.key

\* History: the committed observation continues, starts or ends an episode.
NextEpisode ==
    IF ~Active(cycle.coins) THEN NoEpisode
    ELSE [start |-> IF episode.start = None THEN cycle.at ELSE episode.start,
          transitions |-> IF CycleKind = "transition"
                          THEN episode.transitions + 1 ELSE episode.transitions]

\* Mutant of Commit: the notification is written after the state's
\* transaction, and may be lost.
MutCommitSplit ==
    /\ pc = "evaluated"
    /\ pc' = "idle"
    /\ alert_state' = NextAlertState(cycle.row, cycle.coins, cycle.at)
    /\ episode' = NextEpisode
    /\ outbox' \in
         {outbox, IF CycleKind = "none" THEN outbox ELSE outbox \union {CycleRow}}
    /\ UNCHANGED <<now, market, warm, cycle, restarts, failures, announced>>

\* The transaction commits: the next row and, if there is a message, the
\* outbox row whose key nobody holds.
Commit ==
    /\ pc = "evaluated"
    /\ pc' = "idle"
    /\ alert_state' = NextAlertState(cycle.row, cycle.coins, cycle.at)
    /\ episode' = NextEpisode
    /\ \/ /\ CycleKind = "none"
          /\ UNCHANGED <<outbox, announced>>
       \/ /\ CycleKind # "none" /\ ~KeyTaken
          /\ outbox' = outbox \union {CycleRow}
          /\ announced' = IF CycleKind = "transition"
                          THEN announced + 1 ELSE announced
    /\ UNCHANGED <<now, market, warm, cycle, restarts, failures>>

\* sqlite3.IntegrityError: the key is taken, the state write rolls back too.
Suppress ==
    /\ pc = "evaluated" /\ CycleKind # "none" /\ KeyTaken
    /\ pc' = "idle"
    /\ UNCHANGED <<now, market, warm, cycle, durable, restarts, failures, history>>

\* Any other database error rolls back; the loop logs it and goes on.
TransactionFails ==
    /\ pc = "evaluated" /\ failures < MaxFailures
    /\ failures' = failures + 1
    /\ pc' = "idle"
    /\ UNCHANGED <<now, market, warm, cycle, durable, restarts, history>>

\* The key raised: the loop logs the error and starts over.
LoopError ==
    /\ pc = "raised"
    /\ pc' = "idle"
    /\ UNCHANGED <<now, market, warm, cycle, durable, restarts, failures, history>>

-------------------------------------------------------------------------------
MarketLoop == Evaluate \/ Commit \/ Suppress \/ TransactionFails \/ LoopError
Next == Tick \/ MarketMove \/ WarmUp \/ Restart \/ MarketLoop

\* The loop is a task of a running event loop that wakes every
\* rest_ticker_poll_seconds, the clock runs and the feeds deliver.
Fairness ==
    /\ WF_vars(Tick) /\ WF_vars(WarmUp)
    /\ WF_vars(Evaluate) /\ WF_vars(Commit \/ Suppress) /\ WF_vars(LoopError)

Spec == Init /\ [][Next]_vars
FairSpec == Spec /\ Fairness
-------------------------------------------------------------------------------
(* Properties *)

IsHourOwner(r) == r.key.kind \in {"transition", "hourly"}

\* The inductive core: the persisted row agrees with the committed
\* observations (a pending debounce began with the episode and nothing was
\* announced since), and a decided cycle works on the row still stored.
StateFollowsEpisode ==
    /\ (alert_state.state = STATE_ACTIVE_RANGE) <=> (episode.start # None)
    /\ alert_state.pending_since # None =>
         /\ alert_state.pending_since = episode.start
         /\ episode.transitions = 0
    /\ episode.start = None => episode.transitions = 0
    /\ pc = "evaluated" => cycle.row = alert_state

\* A decision in flight is not overtaken: nothing in the outbox is newer than
\* it, its key can be computed, and the hour the row remembers covers every
\* message that owns an hour (one market loop, a clock that never runs back).
DecisionInTime ==
    /\ \A r \in outbox : r.at <= now
    /\ pc = "evaluated" =>
         /\ ~KeyRaises(CycleKind)
         /\ cycle.at <= now
         /\ \A r \in outbox : r.at <= cycle.at
         /\ alert_state.last_hourly_bucket # None =>
              alert_state.last_hourly_bucket <= hourly_bucket(cycle.at)
    /\ alert_state.last_hourly_bucket # None =>
         alert_state.last_hourly_bucket <= hourly_bucket(now)
    /\ \A r \in outbox : IsHourOwner(r) =>
         /\ alert_state.last_hourly_bucket # None
         /\ hourly_bucket(r.at) <= alert_state.last_hourly_bucket

\* A live transition is written only when every committed observation of at
\* least Debounce was in range, and only once for that run of observations,
\* whatever restarts and failed transactions come between (evaluate() and its
\* pending_since).
DebouncedTransition ==
    [][\A r \in outbox' \ outbox : r.key.kind = "transition" =>
          /\ episode'.start # None
          /\ r.at - episode'.start >= Debounce
          /\ episode.transitions = 0]_vars

\* The hourly message is written only for an hour that no transition and no
\* other hourly message owns already (last_hourly_bucket).
HourlyOwnsBucket ==
    [][\A r \in outbox' \ outbox : r.key.kind = "hourly" =>
          ~ \E q \in outbox : /\ IsHourOwner(q)
                              /\ hourly_bucket(q.at) = hourly_bucket(r.at)]_vars

\* State and notification commit together: the times the row remembers are
\* the times of the latest transition and composition messages.
RowsMatchState ==
    /\ alert_state.last_transition_at # None =>
         \E r \in outbox : /\ r.key.kind = "transition"
                          /\ r.at = alert_state.last_transition_at
    /\ alert_state.last_composition_at # None =>
         \E r \in outbox : /\ r.key.kind = "composition"
                          /\ r.at = alert_state.last_composition_at
    /\ \A r \in outbox :
         /\ r.key.kind = "transition" =>
              /\ alert_state.last_transition_at # None
              /\ r.at <= alert_state.last_transition_at
         /\ r.key.kind = "composition" =>
              /\ alert_state.last_composition_at # None
              /\ r.at <= alert_state.last_composition_at

\* Two composition messages are at least the cooldown apart, across restarts
\* and failures (last_composition_at is persisted with the message).
CompositionSpacing ==
    \A r, s \in outbox :
        /\ r.key.kind = "composition" /\ s.key.kind = "composition"
        /\ r # s
        => r.at - s.at >= Cooldown \/ s.at - r.at >= Cooldown

\* An hour marked as consumed has its message: a transition or an hourly one
\* (SPEC.md: "once per hourly bucket when count is 1-3").
ConsumedHourHasMessage ==
    alert_state.last_hourly_bucket # None =>
        \E r \in outbox : /\ IsHourOwner(r)
                         /\ hourly_bucket(r.at) = alert_state.last_hourly_bucket

\* While the market itself stays in range it is announced at most once
\* (state_machine.py: "restarts never create duplicate alerts").
AnnouncedOnce == announced <= 1

\* The part of it that the code does keep: as long as the process lives, a
\* market that stays in range is announced at most once, however often its
\* coins change and its transactions fail (pending_since and the stored state).
AnnouncedOncePerRun == restarts = 0 => AnnouncedOnce

\* Every decision can be written: no cycle dies on its own settings.
NoCycleRaises == pc # "raised"

\* A pending transition does not stay pending: it is announced, silently
\* completed or cancelled (before the clock's bound).
PendingResolves ==
    (/\ alert_state.pending_since # None
     /\ alert_state.pending_since + Debounce <= MaxTime)
    ~> (alert_state.pending_since = None)

\* When the market comes to rest, the persisted row comes to describe it.
PersistedStateCatchesUp ==
    \A c \in SUBSET Coins :
        <>[](market = c /\ warm) => <>[](alert_state.fingerprint = c)
===============================================================================
