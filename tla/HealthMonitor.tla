----------------------------- MODULE HealthMonitor -----------------------------
(***************************************************************************)
(* app/health/monitor.py and scripts/container_healthcheck.py: a loop that  *)
(* samples the subsystems, keeps for every critical one how long it has     *)
(* been bad, and writes a verdict into the kv table; the container's check  *)
(* reads that row from a process of its own.                                *)
(*                                                                         *)
(* Clocks are ages: every variable of that kind counts the time since an    *)
(* event, up to the largest value anything compares it with.  A pass of the *)
(* loop takes less than one unit of time.                                   *)
(***************************************************************************)
EXTENDS Naturals, FiniteSets, FiniteSetsExt

CONSTANTS
    Streams,        \* what is judged by the age of its last success: REST, sockets
    Fresh,          \* the age up to which it counts as good
    Grace,          \* critical_health_failure_seconds
    Interval,       \* of the loop
    Stale,          \* health_heartbeat_stale_seconds
    Critical,       \* the critical dimensions, Streams among them
    MaxConnFaults,  \* bound: failures of the database connection
    MaxRestarts,    \* bound: deaths of the process
    None

Verdicts == {"healthy", "degraded", "unhealthy"}

ASSUME HealthAssumption ==
    /\ Streams \subseteq Critical /\ {"dispatcher", "database"} \subseteq Critical \ Streams
    /\ Fresh \in Nat /\ Grace \in Nat \ {0} /\ Interval \in Nat \ {0} /\ Stale \in Nat \ {0}
    /\ MaxConnFaults \in Nat /\ MaxRestarts \in Nat
    /\ None \notin Nat /\ None \notin Verdicts /\ None \notin [overall : Verdicts, age : Nat]

VARIABLES
    running,   \* the process is up
    conn,      \* its database connection works
    worker,    \* dispatcher.worker_healthy
    degraded,  \* Telegram failing or outbox not empty
    age,       \* age of each stream's last success in this process, or None
    pc,        \* the loop: "probe", "collect", "persist", "wait"
    timer,     \* time left until the next pass
    database,  \* database_healthy, as probed
    since,     \* _critical_since, as ages
    verdict,   \* last_state.overall
    row,       \* the kv row "health:snapshot": its verdict and age   (persistent)
    connFaults, restarts,
    notGood,   \* history: age of the last pass that found a dimension good
    trouble,   \* history: time a dimension is bad while process and connection are up
    silent     \* history: time the process or its connection is down

world == <<running, conn, worker, degraded, age, connFaults, restarts>>
monitor == <<pc, timer, database, since, verdict>>
history == <<notGood, trouble, silent>>
vars == <<world, monitor, row, history>>

Notice == Grace + 2 * Interval
AgeCap == Fresh + Grace

TypeOK ==
    /\ running \in BOOLEAN /\ conn \in BOOLEAN /\ worker \in BOOLEAN /\ degraded \in BOOLEAN
    /\ age \in [Streams -> 0 .. AgeCap \union {None}]
    /\ pc \in {"probe", "collect", "persist", "wait"} /\ timer \in 0 .. Interval
    /\ database \in BOOLEAN /\ since \in [Critical -> 0 .. Grace \union {None}]
    /\ verdict \in Verdicts \union {None}
    /\ row \in [overall : Verdicts, age : 0 .. Stale + 1] \union {None}
    /\ connFaults \in 0 .. MaxConnFaults /\ restarts \in 0 .. MaxRestarts
    /\ notGood \in [Critical -> 0 .. Grace] /\ trouble \in [Critical -> 0 .. Notice]
    /\ silent \in 0 .. Stale + 1
    /\ pc # "wait" => timer = 0
    /\ pc = "persist" => since["database"] = None <=> database

Boot ==
    /\ conn' = TRUE /\ worker' = TRUE
    /\ age' = [d \in Streams |-> None]
    /\ pc' = "probe" /\ timer' = 0 /\ database' = FALSE
    /\ since' = [d \in Critical |-> None] /\ verdict' = None
    /\ notGood' = [d \in Critical |-> 0] /\ trouble' = [d \in Critical |-> 0] /\ silent' = 0

Init ==
    /\ running = TRUE /\ conn = TRUE /\ worker = TRUE /\ degraded = TRUE
    /\ age = [d \in Streams |-> None]
    /\ pc = "probe" /\ timer = 0 /\ database = FALSE
    /\ since = [d \in Critical |-> None] /\ verdict = None /\ row = None
    /\ connFaults = 0 /\ restarts = 0
    /\ notGood = [d \in Critical |-> 0] /\ trouble = [d \in Critical |-> 0] /\ silent = 0

(* A stream counts as good up to and including the threshold age.             *)
Acceptable(d) == age[d] # None /\ age[d] <= Fresh

BadNow(d) ==
    \/ d \in Streams /\ ~Acceptable(d)
    \/ d = "dispatcher" /\ ~worker
    \/ d = "database" /\ ~conn

--------------------------------------------------------------------------------
(* Time and the subsystems *)

Older(a, cap) == IF a = None THEN None ELSE Min({a + 1, cap})

Tick ==
    /\ running => pc = "wait" /\ timer > 0
    /\ timer' = IF running THEN timer - 1 ELSE timer
    /\ age' = [d \in Streams |-> Older(age[d], AgeCap)]
    /\ since' = [d \in Critical |-> Older(since[d], Grace)]
    /\ row' = IF row = None THEN None ELSE [row EXCEPT !.age = Older(@, Stale + 1)]
    /\ notGood' = [d \in Critical |-> Older(notGood[d], Grace)]
    /\ trouble' = [d \in Critical |->
                     IF running /\ conn /\ BadNow(d) THEN Older(trouble[d], Notice) ELSE 0]
    /\ silent' = IF running /\ conn THEN 0 ELSE Older(silent, Stale + 1)
    /\ UNCHANGED <<running, conn, worker, degraded, connFaults, restarts, pc, database, verdict>>

(* A ticker, or a discovery that succeeds.                                    *)
Succeeds(d) ==
    /\ running /\ age' = [age EXCEPT ![d] = 0]
    /\ trouble' = [trouble EXCEPT ![d] = 0]
    /\ UNCHANGED <<running, conn, worker, degraded, connFaults, restarts, monitor, row, notGood, silent>>

(* The delivery worker fails too often in a row, or delivers again.           *)
WorkerTurns ==
    /\ running /\ worker' = ~worker
    /\ trouble' = [trouble EXCEPT !["dispatcher"] = 0]
    /\ UNCHANGED <<running, conn, degraded, age, connFaults, restarts, monitor, row, notGood, silent>>

(* Telegram answers or not, the outbox fills or empties.                      *)
DegradationTurns ==
    /\ running /\ degraded' = ~degraded
    /\ UNCHANGED <<running, conn, worker, age, connFaults, restarts, monitor, row, history>>

ConnectionFails ==
    /\ running /\ conn /\ connFaults < MaxConnFaults
    /\ conn' = FALSE /\ connFaults' = connFaults + 1
    /\ trouble' = [d \in Critical |-> 0]
    /\ UNCHANGED <<running, worker, degraded, age, restarts, monitor, row, notGood, silent>>

ConnectionHeals ==
    /\ running /\ ~conn
    /\ conn' = TRUE /\ trouble' = [d \in Critical |-> 0] /\ silent' = 0
    /\ UNCHANGED <<running, worker, degraded, age, connFaults, restarts, monitor, row, notGood>>

(* The process dies; the row it wrote stays.                                  *)
Dies ==
    /\ running /\ restarts < MaxRestarts
    /\ running' = FALSE /\ restarts' = restarts + 1
    /\ UNCHANGED <<conn, worker, degraded, age, connFaults, monitor, row, history>>

(* The container is restarted: everything but the row begins anew.            *)
Starts ==
    /\ ~running /\ running' = TRUE
    /\ Boot
    /\ UNCHANGED <<degraded, connFaults, restarts, row>>

--------------------------------------------------------------------------------
(* One pass of run_forever: snapshot(), then persist_snapshot() *)

(* _database_healthy: SELECT 1, any exception counts as bad.                  *)
Probe ==
    /\ running /\ pc = "probe"
    /\ database' = conn /\ pc' = "collect"
    /\ UNCHANGED <<world, timer, since, verdict, row, history>>

(* Everything else is read, then depth() and load_all() ask the database      *)
(* again; an exception of theirs ends the pass before _classify.              *)
PassFails ==
    /\ running /\ pc \in {"collect", "persist"} /\ ~conn
    /\ pc' = "wait" /\ timer' = Interval
    /\ UNCHANGED <<world, database, since, verdict, row, history>>

Bad == {d \in Critical : IF d = "database" THEN ~database ELSE BadNow(d)}

\* Mutants of Tracked: a recovered dimension keeps its window; the window
\* starts again at every pass.
MutTrackedKeeps(bad) == [d \in Critical |-> IF d \in bad /\ since[d] = None THEN 0 ELSE since[d]]
MutTrackedRestarts(bad) == [d \in Critical |-> IF d \in bad THEN 0 ELSE None]

Tracked(bad) == [d \in Critical |-> IF d \notin bad THEN None
                                    ELSE IF since[d] = None THEN 0 ELSE since[d]]

Persisted(bad) == {d \in bad : d = "database" \/ Tracked(bad)[d] >= Grace}

(* _classify *)
Collect ==
    /\ running /\ pc = "collect" /\ conn
    /\ since' = Tracked(Bad)
    /\ verdict' = IF Persisted(Bad) # {} THEN "unhealthy"
                  ELSE IF Bad # {} \/ degraded THEN "degraded" ELSE "healthy"
    /\ notGood' = [d \in Critical |-> IF d \in Bad THEN notGood[d] ELSE 0]
    /\ pc' = "persist"
    /\ UNCHANGED <<world, timer, database, row, trouble, silent>>

\* Mutant of Persist: a verdict that has not changed is not written again.
MutPersistChanges ==
    /\ running /\ pc = "persist" /\ conn
    /\ row' = IF row # None /\ row.overall = verdict THEN row ELSE [overall |-> verdict, age |-> 0]
    /\ pc' = "wait" /\ timer' = Interval
    /\ UNCHANGED <<world, database, since, verdict, history>>

Persist ==
    /\ running /\ pc = "persist" /\ conn
    /\ row' = [overall |-> verdict, age |-> 0]
    /\ pc' = "wait" /\ timer' = Interval
    /\ UNCHANGED <<world, database, since, verdict, history>>

Wakes ==
    /\ running /\ pc = "wait" /\ timer = 0
    /\ pc' = "probe"
    /\ UNCHANGED <<world, timer, database, since, verdict, row, history>>

Pass == Probe \/ Collect \/ PassFails \/ Persist \/ Wakes
Environment ==
    \/ \E d \in Streams : Succeeds(d)
    \/ WorkerTurns \/ DegradationTurns \/ ConnectionFails \/ ConnectionHeals \/ Dies

Next == Tick \/ Starts \/ Pass \/ Environment

Spec == Init /\ [][Next]_vars

(* Time passes, the event loop runs the monitor, and the container's restart  *)
(* policy (unless-stopped) starts the process again.                          *)
FairSpec == Spec /\ WF_vars(Tick) /\ WF_vars(Pass) /\ WF_vars(Starts)

(* check_health of the container's script, which opens the file itself.       *)
check_health == row # None /\ row.age <= Stale /\ row.overall # "unhealthy"

--------------------------------------------------------------------------------
(* Unless the database itself fails, the monitor calls the container          *)
(* unhealthy only when some dimension was bad at every completed pass for the *)
(* length of the grace window (monitor.py:202-206): the windows of dimensions *)
(* that take turns failing, or of one that keeps recovering, do not add up.   *)
GraceRespected ==
    pc = "persist" /\ verdict = "unhealthy" /\ database =>
        \E d \in Critical : notGood[d] >= Grace

(* What has been broken for grace plus two passes, while process and          *)
(* connection were up, makes the container's check fail; and so does silence  *)
(* of the monitor beyond the heartbeat threshold, whatever the row that the   *)
(* process left behind says (container_healthcheck.py:64-78).                 *)
FailuresAreNoticed ==
    /\ \A d \in Critical : running /\ trouble[d] >= Notice => ~check_health
    /\ silent > Stale => ~check_health

(* When every subsystem stays good from some time on the check succeeds from  *)
(* some time on: no window, verdict or row of the past sticks.                *)
Sound == running /\ \A d \in Critical : ~BadNow(d)
AlarmsEnd == <>[]Sound => <>[]check_health

(* "Database failures are critical immediately (no grace)" (monitor.py:245):  *)
(* after a pass whose probe found the database bad the verdict is unhealthy.  *)
DatabaseCriticalAtOnce == running /\ pc = "wait" /\ verdict # None /\ ~database => verdict = "unhealthy"

(* "Temporary Telegram failures and short reconnects are degraded, not        *)
(* unhealthy" (README.md:79): with database and dispatcher good, unhealthy    *)
(* means a stream that has had no success for as long as the grace window.    *)
ShortReconnectsTolerated ==
    [][pc = "collect" /\ pc' = "persist" /\ verdict' = "unhealthy"
         /\ {d \in Critical : since'[d] # None} \subseteq Streams =>
            \E d \in Streams : age[d] = None \/ age[d] >= Grace]_vars
================================================================================
