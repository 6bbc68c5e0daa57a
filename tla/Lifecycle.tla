------------------------------- MODULE Lifecycle -------------------------------
(***************************************************************************)
(* One process after another of app/main.py: start() connects to SQLite,   *)
(* migrates the schema and starts the services; run() waits for the stop   *)
(* event; shutdown(), which also follows a failed start, cancels the loops,*)
(* stops the outbox worker and closes the clients and the database.  The   *)
(* worker is no part of the cancelled tasks: it delivers the backlog from  *)
(* the first moment on and until stop() has waited for it.                 *)
(*                                                                         *)
(* Time passes only while a message is sent: what else happens is short    *)
(* against the stop timeout.  A process may be killed anywhere.            *)
(***************************************************************************)
EXTENDS Naturals, Sequences, FiniteSetsExt

CONSTANTS
    Statements,   \* Statements[v]: the statements of migration v
    Loops,        \* tasks of _tasks that write to the database
    Sockets,      \* tasks of _tasks that the WebSocket manager starts
    Ids,          \* outbox rows, in insertion order
    StopTimeout,  \* timeout of AlertDispatcher.stop
    Chunks, MaxRetries, PostMax, Backoffs,      \* of TelegramClient
    Symbols, PageLimit, RestRetries, MaxChurn,  \* of RestClient
    MaxBoots,     \* bound: processes
    MaxFaults     \* bound: failures of Telegram, Bybit, the database, the start

VARIABLES
    stage,       \* where start(), run() or shutdown() is
    db,          \* the connection: "none", "open", "closed"
    schema,      \* committed migrations and statements               (persistent)
    tx,          \* statements executed in the open migration transaction
    clients,     \* the HTTP clients: "none", "open", "closed"
    stop_event,
    tasks,       \* _tasks that have not ended
    writer,      \* the loop that holds the transaction lock, or "nobody"
    row,         \* status of the outbox rows                         (persistent)
    worker,      \* where the dispatcher's worker is
    batch,       \* rows it has fetched and not settled
    stopping,    \* the dispatcher's _stop
    waited,      \* how long stop() has been waiting
    boots, faults,
    call, taken,                                \* of TelegramClient
    whole,       \* history: rows whose message Telegram has taken in full
    doubt,       \* history: of these, the rows whose answer or process was lost
    fetch, results, listed, churn, steady, ever \* of RestClient

T == INSTANCE TelegramClient
R == INSTANCE RestClient

ASSUME LifecycleAssumption ==
    /\ T!TelegramConstants /\ R!RestConstants
    /\ Statements \in Seq(Nat \ {0})
    /\ Loops # {} /\ "nobody" \notin Loops /\ Loops \intersect Sockets = {}
    /\ Ids \subseteq Nat
    /\ {StopTimeout, MaxBoots, MaxFaults} \subseteq Nat

main == <<stage, db, clients, stop_event>>
loops == <<tasks, writer>>
dispatcher == <<worker, batch, stopping, waited>>
bounds == <<boots, faults>>
history == <<whole, doubt>>
telegram == <<call, taken, history>>
rest == <<fetch, results, listed, churn, steady, ever>>
vars == <<main, schema, tx, loops, row, dispatcher, bounds, telegram, rest>>

\* The first n statements of migration m, and all of the first v migrations.
Part(m, n) == {<<m, k>> : k \in 1 .. n}
Made(v) == UNION {Part(m, Statements[m]) : m \in 1 .. v}

Starting == {"migrate", "handlers", "services", "reconcile", "discover",
             "sockets", "spawn"}
Gone == {"down", "ended"}

TypeOK ==
    /\ stage \in Starting \union Gone \union {"connect", "running", "cancel", "stop",
                                              "commit", "stuck"}
    /\ db \in {"none", "open", "closed"} /\ clients \in {"none", "open", "closed"}
    /\ schema.version \in 0 .. Len(Statements) /\ schema.made \subseteq Made(Len(Statements))
    /\ tx \in Nat
    /\ stop_event \in BOOLEAN /\ stopping \in BOOLEAN
    /\ tasks \subseteq Loops \union Sockets /\ writer \in Loops \union {"nobody"}
    /\ row \in [Ids -> {"absent", "pending", "retry", "sent", "dead"}]
    /\ worker \in {"none", "loop", "wait", "next", "send", "ended", "cancelled"}
    /\ batch \subseteq Ids
    /\ waited \in 0 .. StopTimeout
    /\ whole \subseteq Ids /\ doubt \subseteq whole
    /\ boots \in 0 .. MaxBoots /\ faults \in 0 .. MaxFaults
    /\ T!TypeOK /\ R!TypeOK

Volatile(s) ==
    /\ stage' = s /\ db' = "none" /\ clients' = "none" /\ stop_event' = FALSE
    /\ tx' = 0 /\ tasks' = {} /\ writer' = "nobody"
    /\ worker' = "none" /\ batch' = {} /\ stopping' = FALSE /\ waited' = 0
    /\ T!Forget /\ R!Forget

\* A new file, or one that an earlier release has left.
Init ==
    /\ stage = "down" /\ db = "none" /\ clients = "none" /\ stop_event = FALSE
    /\ schema \in {[version |-> v, made |-> Made(v)] : v \in 0 .. Len(Statements)}
    /\ tx = 0 /\ tasks = {} /\ writer = "nobody"
    /\ row = [i \in Ids |-> "absent"]
    /\ worker = "none" /\ batch = {} /\ stopping = FALSE /\ waited = 0
    /\ boots = 0 /\ faults = 0
    /\ T!Init /\ R!Init /\ whole = {} /\ doubt = {}

\* A new outbox row is committed.
Inserts ==
    \E i \in Ids : /\ row[i] = "absent" /\ \A j \in Ids : j < i => row[j] # "absent"
                   /\ row' = [row EXCEPT ![i] = "pending"]

-------------------------------------------------------------------------------
(* start() *)

\* The supervisor starts a process (`restart: unless-stopped').
Boot ==
    /\ stage \in Gone /\ boots < MaxBoots /\ boots' = boots + 1
    /\ Volatile("connect") /\ UNCHANGED <<schema, row, history, faults>>

Connect ==
    /\ stage = "connect" /\ stage' = "migrate" /\ db' = "open"
    /\ UNCHANGED <<clients, stop_event, schema, tx, loops, row, dispatcher, bounds,
                   telegram, rest>>

Migration == schema.version + 1
Migrating == stage = "migrate" /\ schema.version < Len(Statements)

MigrationStatement ==
    /\ Migrating /\ tx < Statements[Migration] /\ tx' = tx + 1
    /\ UNCHANGED <<main, schema, loops, row, dispatcher, bounds, telegram, rest>>

\* Mutant of MigrationCommit: the version's row may miss the commit.
MutMigrationCommit ==
    /\ Migrating /\ tx = Statements[Migration] /\ tx' = 0
    /\ \E v \in {schema.version, Migration} :
          schema' = [version |-> v, made |-> schema.made \union Part(Migration, tx)]
    /\ UNCHANGED <<main, loops, row, dispatcher, bounds, telegram, rest>>

\* One transaction holds a migration's statements and its version.
MigrationCommit ==
    /\ Migrating /\ tx = Statements[Migration] /\ tx' = 0
    /\ schema' = [version |-> Migration, made |-> schema.made \union Part(Migration, tx)]
    /\ UNCHANGED <<main, loops, row, dispatcher, bounds, telegram, rest>>

\* The steps of start() that only lead to the next one.
NextStage == [migrate |-> "handlers", handlers |-> "services", reconcile |-> "discover"]
Advance ==
    /\ stage \in DOMAIN NextStage /\ ~Migrating
    /\ stage = "reconcile" => writer = "nobody"
    /\ stage' = NextStage[stage]
    /\ UNCHANGED <<db, clients, stop_event, schema, tx, loops, row, dispatcher, bounds,
                   telegram, rest>>

\* The clients are made, and the outbox worker starts at once.
StartServices ==
    /\ stage = "services" /\ stage' = "reconcile"
    /\ clients' = "open" /\ worker' = "loop"
    /\ UNCHANGED <<db, stop_event, schema, tx, loops, row, batch, stopping, waited,
                   bounds, telegram, rest>>

Asking(step) ==
    /\ stage = "discover" /\ step
    /\ UNCHANGED <<main, schema, tx, loops, row, dispatcher, boots, telegram>>
Discover ==
    \/ Asking(R!Start /\ UNCHANGED faults)
    \/ Asking(R!PageArrives /\ UNCHANGED faults)
    \/ Asking(R!SleepEnds /\ UNCHANGED faults)
    \/ Asking((\E s \in Symbols : R!Relist(s)) /\ UNCHANGED faults)
    \/ Asking((R!RequestFails \/ R!RequestRefused)
              /\ faults < MaxFaults /\ faults' = faults + 1)

\* A BybitError is logged and start() goes on; the result may bring news.
Discovered ==
    /\ stage = "discover" /\ fetch.at \in {"done", "failed"} /\ writer = "nobody"
    /\ stage' = "sockets" /\ R!Forget
    /\ \/ UNCHANGED row
       \/ fetch.at = "done" /\ Inserts
    /\ UNCHANGED <<db, clients, stop_event, schema, tx, loops, dispatcher, bounds, telegram>>

StartSockets ==
    /\ stage = "sockets" /\ stage' = "spawn" /\ tasks' = Sockets
    /\ UNCHANGED <<db, clients, stop_event, schema, tx, writer, row, dispatcher, bounds,
                   telegram, rest>>

SpawnLoops ==
    /\ stage = "spawn" /\ stage' = "running" /\ tasks' = tasks \union Loops
    /\ UNCHANGED <<db, clients, stop_event, schema, tx, writer, row, dispatcher, bounds,
                   telegram, rest>>

\* A step of start() raises (SIGINT before the handlers are there included);
\* an open migration rolls back and run() goes on to shutdown().
StartFails ==
    /\ stage \in Starting \union {"connect"}
    /\ faults < MaxFaults /\ faults' = faults + 1
    /\ stage' = "cancel" /\ tx' = 0 /\ R!Forget
    /\ UNCHANGED <<db, clients, stop_event, schema, loops, row, dispatcher, boots, telegram>>

-------------------------------------------------------------------------------
(* run() *)

\* request_shutdown; start() does not look at it.
Signal ==
    /\ stage \in (Starting \ {"migrate", "handlers"}) \union {"running"}
    /\ ~stop_event /\ stop_event' = TRUE
    /\ UNCHANGED <<stage, db, clients, schema, tx, loops, row, dispatcher, bounds,
                   telegram, rest>>

Leave ==
    /\ stage = "running" /\ stop_event /\ stage' = "cancel"
    /\ UNCHANGED <<db, clients, stop_event, schema, tx, loops, row, dispatcher, bounds,
                   telegram, rest>>

\* A cycle of a loop opens a transaction that is to add a row ...
LoopBegins(l) ==
    /\ stage = "running" /\ l \in tasks /\ writer = "nobody" /\ writer' = l
    /\ \E i \in Ids : row[i] = "absent"
    /\ UNCHANGED <<main, schema, tx, tasks, row, dispatcher, bounds, telegram, rest>>

\* ... and commits it.
LoopCommits(l) ==
    /\ stage = "running" /\ writer = l /\ writer' = "nobody" /\ Inserts
    /\ UNCHANGED <<main, schema, tx, tasks, dispatcher, bounds, telegram, rest>>

\* Mutant of TaskEnds: cancellation is swallowed, only the event ends a task.
MutTaskEnds(t) ==
    /\ t \in tasks /\ stop_event /\ writer # t /\ tasks' = tasks \ {t}
    /\ UNCHANGED <<main, schema, tx, writer, row, dispatcher, bounds, telegram, rest>>

\* A task sees the event between two cycles, or is cancelled: its transaction
\* rolls back, or its commit was already on the way.
TaskEnds(t) ==
    /\ t \in tasks /\ tasks' = tasks \ {t}
    /\ stage = "cancel" \/ (stage = "running" /\ stop_event /\ writer # t)
    /\ \/ UNCHANGED row
       \/ writer = t /\ Inserts
    /\ writer' = IF writer = t THEN "nobody" ELSE writer
    /\ UNCHANGED <<main, schema, tx, dispatcher, bounds, telegram, rest>>

-------------------------------------------------------------------------------
(* The outbox worker *)

WorkerOnly == UNCHANGED <<main, schema, tx, loops, boots, rest>>

\* Mutant of Iterate: an empty outbox ends the worker.
MutIterate ==
    /\ worker = "loop" /\ writer = "nobody"
    /\ batch' = {i \in Ids : row[i] = "pending"}
    /\ worker' = IF stopping \/ batch' = {} THEN "ended" ELSE "next"
    /\ UNCHANGED <<row, stopping, waited, faults, telegram>> /\ WorkerOnly

\* Top of the loop: leave when stopped; else fetch what is due and deliver it,
\* or wait when there is nothing.
Iterate ==
    /\ worker = "loop"
    /\ \/ stopping /\ worker' = "ended" /\ UNCHANGED batch
       \/ /\ ~stopping /\ writer = "nobody"
          /\ batch' = {i \in Ids : row[i] = "pending"}
          /\ worker' = IF batch' = {} THEN "wait" ELSE "next"
    /\ UNCHANGED <<row, stopping, waited, faults, telegram>> /\ WorkerOnly

\* The event is set, or dispatcher_poll_seconds are over.
WaitEnds ==
    /\ worker = "wait" /\ worker' = "loop"
    /\ UNCHANGED <<row, batch, stopping, waited, faults, telegram>> /\ WorkerOnly

\* The row that is being delivered, and whether Telegram has its whole message.
Current == {i \in batch : worker = "send" /\ i = Min(batch)}
Complete == \A c \in 1 .. Chunks : taken[c] > 0

SendStarts ==
    /\ worker = "next" /\ worker' = "send" /\ T!Start
    /\ UNCHANGED <<row, batch, stopping, waited, faults, history>> /\ WorkerOnly

\* A lost answer leaves the process in doubt.
Sending(step, lost) ==
    /\ worker = "send" /\ step
    /\ lost => faults < MaxFaults
    /\ faults' = IF lost THEN faults + 1 ELSE faults
    /\ whole' = whole \union (IF Complete' THEN Current ELSE {})
    /\ doubt' = doubt \union (IF lost /\ Complete' THEN Current ELSE {})
    /\ UNCHANGED <<row, dispatcher>> /\ WorkerOnly
Send ==
    \/ Sending(T!ChunkTaken \/ T!SleepEnds \/ T!PostRefused, FALSE)
    \/ Sending(T!PostFails \/ T!PostUnclear, TRUE)

Elapse ==
    /\ worker = "send" /\ T!Elapse
    /\ stage = "stop" => waited < StopTimeout
    /\ waited' = IF stage = "stop" THEN waited + 1 ELSE waited
    /\ UNCHANGED <<row, worker, batch, stopping, faults, history>> /\ WorkerOnly

Outcome == CASE call.at = "accepted" -> "sent"
             [] call.at = "permanent" -> "dead"
             [] call.at = "transient" -> "retry"

\* Mutant of Settle: a worker that is told to stop leaves the row as it is.
MutSettle ==
    /\ worker = "send" /\ T!Answered /\ writer = "nobody"
    /\ row' = IF stopping THEN row ELSE [row EXCEPT ![Min(batch)] = Outcome]
    /\ batch' = batch \ {Min(batch)}
    /\ worker' = IF batch' = {} THEN "loop" ELSE "next"
    /\ T!Forget /\ UNCHANGED <<stopping, waited, faults, history>> /\ WorkerOnly

\* The outcome is written to the row, and the next one is taken up.
Settle ==
    /\ worker = "send" /\ T!Answered /\ writer = "nobody"
    /\ row' = [row EXCEPT ![Min(batch)] = Outcome]
    /\ batch' = batch \ {Min(batch)}
    /\ worker' = IF batch' = {} THEN "loop" ELSE "next"
    /\ T!Forget /\ UNCHANGED <<stopping, waited, faults, history>> /\ WorkerOnly

\* next_attempt_at is reached.
RetryDue(i) ==
    /\ row[i] = "retry" /\ row' = [row EXCEPT ![i] = "pending"]
    /\ UNCHANGED <<dispatcher, faults, telegram>> /\ WorkerOnly

-------------------------------------------------------------------------------
(* shutdown() *)

\* Mutant of StopCalled: the tasks are cancelled and not waited for.
MutStopCalled ==
    /\ stage = "cancel"
    /\ IF worker = "none"
       THEN stage' = "commit" /\ clients' = "closed" /\ UNCHANGED stopping
       ELSE /\ stage' = "stop" /\ stopping' = TRUE /\ UNCHANGED clients
    /\ UNCHANGED <<db, stop_event, schema, tx, loops, row, worker, batch, waited, bounds,
                   telegram, rest>>

\* Every task has ended: stop() begins to wait for the worker, or there is none.
StopCalled ==
    /\ stage = "cancel" /\ tasks = {}
    /\ IF worker = "none"
       THEN stage' = "commit" /\ clients' = "closed" /\ UNCHANGED stopping
       ELSE /\ stage' = "stop" /\ stopping' = TRUE /\ UNCHANGED clients
    /\ UNCHANGED <<db, stop_event, schema, tx, loops, row, worker, batch, waited, bounds,
                   telegram, rest>>

StopReturns ==
    /\ stage = "stop" /\ worker = "ended"
    /\ stage' = "commit" /\ clients' = "closed"
    /\ UNCHANGED <<db, stop_event, schema, tx, loops, row, dispatcher, bounds, telegram, rest>>

\* A delivery is cut, in which case its last post may still be taken.
Cut ==
    \/ ~ Complete /\ UNCHANGED history
    \/ /\ Complete \/ (call.at = "posting" /\ call.chunk = Chunks)
       /\ whole' = whole \union Current /\ doubt' = doubt \union Current

\* wait_for cancels the worker and raises: nothing of shutdown() that follows
\* is done, and the open connection's thread keeps the process.
StopTimesOut ==
    /\ stage = "stop" /\ worker # "ended" /\ waited = StopTimeout
    /\ stage' = "stuck" /\ worker' = "cancelled" /\ batch' = {} /\ T!Forget /\ Cut
    /\ UNCHANGED <<db, clients, stop_event, schema, tx, loops, row, stopping, waited,
                   bounds, rest>>

CommitAndClose ==
    /\ stage = "commit" /\ stage' = "ended"
    /\ db' = IF db = "open" THEN "closed" ELSE db
    /\ UNCHANGED <<clients, stop_event, schema, tx, loops, row, dispatcher, bounds,
                   telegram, rest>>

\* The commit raises: close() is not reached.
CommitFails ==
    /\ stage = "commit" /\ db = "open" /\ faults < MaxFaults /\ faults' = faults + 1
    /\ stage' = "stuck"
    /\ UNCHANGED <<db, clients, stop_event, schema, tx, loops, row, dispatcher, boots,
                   telegram, rest>>

\* The process is killed, the end of stop_grace_period included.
Crash ==
    /\ stage \notin Gone /\ boots < MaxBoots
    /\ Volatile("down") /\ Cut /\ UNCHANGED <<schema, row, bounds>>
-------------------------------------------------------------------------------
Start == \/ Boot \/ Connect \/ MigrationStatement \/ MigrationCommit \/ Advance
         \/ StartServices \/ Discover \/ Discovered \/ StartSockets \/ SpawnLoops
Shutdown == Leave \/ StopCalled \/ StopReturns \/ StopTimesOut \/ CommitAndClose
Worker == Iterate \/ WaitEnds \/ SendStarts \/ Send \/ Elapse \/ Settle

Next == \/ Start \/ StartFails \/ Signal \/ Crash
        \/ \E l \in Loops : LoopBegins(l) \/ LoopCommits(l)
        \/ \E t \in Loops \union Sockets : TaskEnds(t)
        \/ Worker \/ \E i \in Ids : RetryDue(i)
        \/ Shutdown \/ CommitFails

Spec == Init /\ [][Next]_vars

\* Each task runs when it can; requests are answered and the clock runs; the
\* supervisor starts a process that is gone.
FairSpec ==
    /\ Spec
    /\ WF_vars(Start) /\ WF_vars(Shutdown) /\ WF_vars(Worker)
    /\ \A l \in Loops : WF_vars(LoopCommits(l))
    /\ \A t \in Loops \union Sockets : WF_vars(TaskEnds(t))
    /\ \A i \in Ids : WF_vars(RetryDue(i))
-------------------------------------------------------------------------------
\* Nothing that works on the database outlives its connection: main.py:96-105
\* gathers the loops and stops the worker before it closes.
NothingOutlivesDatabase ==
    db # "open" => /\ tasks = {} /\ writer = "nobody"
                   /\ worker \in {"none", "ended"}

\* What is committed are the migrations up to the recorded version, whole ones,
\* whenever a process was killed or its start failed (migrations.py:140-149).
SchemaFollowsVersion == schema.made = Made(schema.version)

\* A row passes for sent only when Telegram has its whole message; and a message that
\* it has in full goes out again only if the answer or the process was lost: a worker
\* that is told to stop still settles what it has sent, and when the stop timeout
\* overtakes it, nothing is settled that was not sent (dispatcher.py:144-159, :206-212).
RowsMatchDeliveries ==
    \A i \in Ids :
        /\ row[i] = "sent" => i \in whole
        /\ i \in whole => row[i] = "sent" \/ i \in doubt \union Current

\* A chunk is taken only after those before it, and a message that passes for
\* sent is there without a hole (client.py:85-88).
ChunksInOrder == T!ChunksInOrder

\* A fetch that ends well has what was listed all the while (rest.py:170-190).
PagesAreComplete == R!PagesAreComplete

\* A row once committed is settled by this process or a later one, unless
\* shutdown() gets stuck or no process is left to start (dispatcher.py:112-160).
BacklogIsDelivered ==
    \A i \in Ids : row[i] = "pending" ~>
        \/ row[i] \in {"sent", "dead"}
        \/ stage = "stuck" \/ (stage \in Gone /\ boots = MaxBoots)

\* A process that is told to stop, or whose start failed, comes to an end or to
\* a shutdown that raised: no task and no wait keeps it (main.py:83-106).
ShutdownEnds ==
    (stop_event \/ stage = "cancel") ~> stage \in Gone \union {"stuck"}

\* "guaranteeing the database and any non-daemon worker threads are cleaned up
\* before exit" (main.py:88-90)
CleanupGuaranteed == stage # "stuck"
===============================================================================
