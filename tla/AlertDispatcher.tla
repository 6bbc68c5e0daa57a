---------------------------- MODULE AlertDispatcher ----------------------------
(***************************************************************************)
(* The outbox worker of app/alerts/dispatcher.py: the table                *)
(* outgoing_notifications is the queue; one supervised worker expires,     *)
(* fetches and delivers rows and sleeps on an event that producers set.    *)
(*                                                                         *)
(* Telegram may accept or refuse a message, and its answer may be lost;    *)
(* the database may refuse a statement; the process may die anywhere, or   *)
(* be stopped.  One Send stands for a whole TelegramClient.send_message    *)
(* call with its own retries and chunks.                                   *)
(*                                                                         *)
(* Named assumption: the wall clock does not run backwards.                *)
(***************************************************************************)
EXTENDS Integers, FiniteSets, Sequences

CONSTANTS
    Ids,            \* row ids, in insertion order
    Listing,        \* rows whose origin_type is 'listing'
    AlertMaxAge,    \* notification_max_age_seconds
    ListingMaxAge,  \* listing_notification_max_age_seconds
    RetryDelays,    \* RETRY_DELAYS
    RetryAfters,    \* values a 429 answer may carry in retry_after
    BatchLimit,     \* LIMIT of due_notifications
    StopTimeout,    \* timeout of stop()
    MaxConsecutiveFailures, \* MAX_CONSECUTIVE_WORKER_FAILURES
    MaxTime,        \* bound: the last instant of the clock
    MaxFaults,      \* bound: failing database calls
    MaxCrashes,     \* bound: process deaths and restarts
    None

ASSUME DispatcherAssumption ==
    /\ Ids \subseteq Nat /\ IsFiniteSet(Ids) /\ Listing \subseteq Ids
    /\ AlertMaxAge \in Nat /\ ListingMaxAge \in Nat
    /\ RetryDelays \in Seq(Nat \ {0}) /\ RetryDelays # <<>>
    /\ RetryAfters \subseteq Nat
    /\ BatchLimit \in Nat \ {0} /\ StopTimeout \in Nat
    /\ MaxConsecutiveFailures \in Nat
    /\ MaxTime \in Nat /\ MaxFaults \in Nat /\ MaxCrashes \in Nat
    /\ None \notin Int

VARIABLES
    now,
    row,          \* outgoing_notifications                     (persistent)
    flagged,      \* listing_events with telegram_sent = 1      (persistent)
    accepted,     \* Ids -> copies that Telegram accepted       (external)
    worker,       \* where the worker task is
    batch,        \* rows fetched and not yet dealt with, oldest first
    retryAfter,   \* retry_after of the failed send
    consecutive,  \* _consecutive_failures
    wake, stop,   \* the two asyncio events
    ctl,          \* "running", "stopping", "stopped", "failed"
    stopAt,       \* when stop() began to wait
    waking,       \* rows whose producer has inserted but not yet called wake()
    faults, crashes,
    \* History variables: no action reads them.
    lost,         \* Ids -> accepted copies whose confirmation was lost
    owed          \* rows due when stop() was called, not attempted since

tables == <<row, flagged>>
process == <<worker, batch, retryAfter, consecutive, wake, stop, ctl, stopAt, waking>>
history == <<lost, owed>>
vars == <<now, tables, accepted, process, faults, crashes, history>>

Statuses == {"absent", "pending", "retry", "sent", "dead"}
Places == {"loop", "fetch", "fetched", "deliver", "accepted", "permanent",
           "transient", "wait", "backoff", "exited", "cancelled"}

TypeOK ==
    /\ now \in Nat
    /\ row \in [Ids -> [status : Statuses, attempts : Nat,
                        next_attempt_at : Nat \union {None}, created_at : Nat]]
    /\ flagged \in SUBSET Listing
    /\ accepted \in [Ids -> Nat]
    /\ worker \in Places
    /\ batch \in SUBSET Ids
    /\ retryAfter \in RetryAfters \union {None}
    /\ consecutive \in Nat
    /\ wake \in BOOLEAN /\ stop \in BOOLEAN
    /\ ctl \in {"running", "stopping", "stopped", "failed"}
    /\ stopAt \in Nat
    /\ waking \in SUBSET Ids
    /\ faults \in Nat /\ crashes \in Nat
    /\ lost \in [Ids -> Nat]
    /\ owed \in SUBSET Ids

Unsent(i) == row[i].status \in {"pending", "retry"}

\* The WHERE clause of due_notifications.
Due(i) == /\ Unsent(i)
          /\ \/ row[i].next_attempt_at = None
             \/ row[i].next_attempt_at <= now

\* The WHERE clause of expire_notifications.
MaxAge(i) == IF i \in Listing THEN ListingMaxAge ELSE AlertMaxAge
Expired(i) == Unsent(i) /\ row[i].created_at < now - MaxAge(i)

\* Mutant of DueBatch: next_attempt_at is not consulted.
MutDueBatch == {i \in Ids : Unsent(i)}

\* ORDER BY id ASC LIMIT BatchLimit
DueBatch == {i \in Ids : /\ Due(i)
                         /\ Cardinality({j \in Ids : Due(j) /\ j < i}) < BatchLimit}

\* The row being delivered: the oldest of the batch.
IsCurrent(i) == i \in batch /\ \A j \in batch : i <= j

retry_delay_for(n) ==
    RetryDelays[IF n < Len(RetryDelays) THEN n ELSE Len(RetryDelays)]

worker_healthy ==
    /\ worker \notin {"exited", "cancelled"}
    /\ consecutive <= MaxConsecutiveFailures

Init ==
    /\ now = 0
    /\ row = [i \in Ids |-> [status |-> "absent", attempts |-> 0,
                             next_attempt_at |-> None, created_at |-> 0]]
    /\ flagged = {}
    /\ accepted = [i \in Ids |-> 0]
    /\ worker = "loop" /\ batch = {} /\ retryAfter = None /\ consecutive = 0
    /\ wake = TRUE /\ stop = FALSE
    /\ ctl = "running" /\ stopAt = 0
    /\ waking = {}
    /\ faults = 0 /\ crashes = 0
    /\ lost = [i \in Ids |-> 0]
    /\ owed = {}
-------------------------------------------------------------------------------
(* Producers: AlertService.process and the listing tracker's enqueue *)

Tick ==
    /\ now < MaxTime
    /\ now' = now + 1
    /\ UNCHANGED <<tables, accepted, process, faults, crashes, history>>

\* The row is committed; feed() or wake() comes after the commit.
Insert(i) ==
    /\ ctl = "running"
    /\ row[i].status = "absent"
    /\ \A j \in Ids : j < i => row[j].status # "absent"
    /\ row' = [row EXCEPT ![i].status = "pending", ![i].created_at = now]
    /\ waking' = waking \union {i}
    /\ UNCHANGED <<now, flagged, accepted, worker, batch, retryAfter, consecutive,
                   wake, stop, ctl, stopAt, faults, crashes, history>>

Wake(i) ==
    /\ i \in waking
    /\ waking' = waking \ {i}
    /\ wake' = TRUE
    /\ UNCHANGED <<now, tables, accepted, worker, batch, retryAfter, consecutive,
                   stop, ctl, stopAt, faults, crashes, history>>

-------------------------------------------------------------------------------
(* The worker *)

\* What the worker's steps leave alone.
Outside == <<now, stop, ctl, stopAt, waking, crashes>>

\* Top of the loop: leave when stopped, else expire what is too old.
Iterate ==
    /\ worker = "loop"
    /\ \/ /\ stop
          /\ worker' = "exited"
          /\ UNCHANGED row
       \/ /\ ~stop
          /\ worker' = "fetch"
          /\ row' = [i \in Ids |-> IF Expired(i)
                                  THEN [row[i] EXCEPT !.status = "dead"] ELSE row[i]]
    /\ UNCHANGED <<Outside, flagged, accepted, batch, retryAfter, consecutive, wake,
                   faults, history>>

\* The snapshot of due rows is read.
Fetch ==
    /\ worker = "fetch"
    /\ batch' = DueBatch
    /\ worker' = "fetched"
    /\ UNCHANGED <<Outside, tables, accepted, retryAfter, consecutive, wake, faults,
                   history>>

\* Mutant of Begin: the event is cleared before the wait, not after it.
MutBeginClears ==
    /\ worker = "fetched"
    /\ worker' = IF batch # {} THEN "deliver" ELSE IF stop THEN "loop" ELSE "wait"
    /\ wake' = IF batch # {} THEN wake ELSE FALSE
    /\ consecutive' = IF batch = {} /\ stop THEN 0 ELSE consecutive
    /\ UNCHANGED <<Outside, tables, accepted, batch, retryAfter, faults, history>>

\* With the snapshot in hand, and the tables moving on: deliver it, or wait
\* when it is empty, or end the iteration if stopped.
Begin ==
    /\ worker = "fetched"
    /\ worker' = IF batch # {} THEN "deliver" ELSE IF stop THEN "loop" ELSE "wait"
    /\ consecutive' = IF batch = {} /\ stop THEN 0 ELSE consecutive
    /\ UNCHANGED <<Outside, tables, accepted, batch, retryAfter, wake, faults, history>>

\* One send_message call; `extra' is a copy that Telegram took although the
\* client saw an error for it.
Send(i) ==
    /\ worker = "deliver" /\ IsCurrent(i)
    /\ worker' \in {"accepted", "permanent", "transient"}
    /\ retryAfter' \in
         IF worker' = "transient" THEN RetryAfters \union {None} ELSE {None}
    /\ \E extra \in {0, 1} :
         /\ faults + extra <= MaxFaults
         /\ faults' = faults + extra
         /\ lost' = [lost EXCEPT ![i] = @ + extra]
         /\ accepted' = [accepted EXCEPT
                            ![i] = @ + extra + IF worker' = "accepted" THEN 1 ELSE 0]
    /\ owed' = owed \ {i}
    /\ UNCHANGED <<Outside, tables, batch, consecutive, wake>>

\* The row is settled: on to the next, or the iteration is over.
Finish(i) ==
    /\ batch' = batch \ {i}
    /\ worker' = IF batch = {i} THEN "loop" ELSE "deliver"
    /\ consecutive' = IF batch = {i} THEN 0 ELSE consecutive

\* Mutant of MarkSent: the listing event is flagged in a transaction of its
\* own, which may not come.
MutMarkSentSplit(i) ==
    /\ worker = "accepted" /\ IsCurrent(i)
    /\ row' = [row EXCEPT ![i].status = "sent"]
    /\ flagged' \in {flagged, flagged \union ({i} \intersect Listing)}
    /\ Finish(i)
    /\ UNCHANGED <<Outside, accepted, retryAfter, wake, faults, history>>

\* Confirmation: the outbox row, and the listing event with it.
MarkSent(i) ==
    /\ worker = "accepted" /\ IsCurrent(i)
    /\ row' = [row EXCEPT ![i].status = "sent"]
    /\ flagged' = flagged \union ({i} \intersect Listing)
    /\ Finish(i)
    /\ UNCHANGED <<Outside, accepted, retryAfter, wake, faults, history>>

\* A database error while confirming falls into `except Exception'.
MarkSentFails(i) ==
    /\ worker = "accepted" /\ IsCurrent(i) /\ faults < MaxFaults
    /\ faults' = faults + 1
    /\ worker' = "transient"
    /\ lost' = [lost EXCEPT ![i] = @ + 1]
    /\ UNCHANGED <<Outside, tables, accepted, batch, retryAfter, consecutive, wake, owed>>

\* Mutant of MarkDead: a refused message passes for sent.
MutMarkDeadAsSent(i) ==
    /\ worker = "permanent" /\ IsCurrent(i)
    /\ row' = [row EXCEPT ![i].status = "sent"]
    /\ flagged' = flagged \union ({i} \intersect Listing)
    /\ Finish(i)
    /\ UNCHANGED <<Outside, accepted, retryAfter, wake, faults, history>>

\* A permanent (400-class) refusal.
MarkDead(i) ==
    /\ worker = "permanent" /\ IsCurrent(i)
    /\ row' = [row EXCEPT ![i].status = "dead"]
    /\ Finish(i)
    /\ UNCHANGED <<Outside, flagged, accepted, retryAfter, wake, faults, history>>

Delay(i) ==
    LET base == retry_delay_for(row[i].attempts + 1)
    IN  IF retryAfter # None /\ retryAfter > base THEN retryAfter ELSE base

MarkRetry(i) ==
    /\ worker = "transient" /\ IsCurrent(i)
    /\ row' = [row EXCEPT ![i].status = "retry",
                          ![i].attempts = @ + 1,
                          ![i].next_attempt_at = now + Delay(i)]
    /\ retryAfter' = None
    /\ Finish(i)
    /\ UNCHANGED <<Outside, flagged, accepted, wake, faults, history>>

\* A database error anywhere else ends the iteration: log, count, back off.
IterationFails ==
    /\ faults < MaxFaults
    /\ worker \in {"fetch", "permanent", "transient"} \/ (worker = "loop" /\ ~stop)
    /\ faults' = faults + 1
    /\ worker' = "backoff"
    /\ batch' = {}
    /\ retryAfter' = None
    /\ consecutive' = consecutive + 1
    /\ UNCHANGED <<Outside, tables, accepted, wake, history>>

BackoffEnds ==
    /\ worker = "backoff"
    /\ worker' = "loop"
    /\ UNCHANGED <<Outside, tables, accepted, batch, retryAfter, consecutive, wake,
                   faults, history>>

\* Mutant of WaitEnds: no poll timeout.
MutWaitForWake ==
    /\ worker = "wait" /\ wake
    /\ worker' = "loop" /\ wake' = FALSE /\ consecutive' = 0
    /\ UNCHANGED <<Outside, tables, accepted, batch, retryAfter, faults, history>>

\* The wait ends because the event is set, or after dispatcher_poll_seconds.
WaitEnds ==
    /\ worker = "wait"
    /\ worker' = "loop"
    /\ wake' = FALSE
    /\ consecutive' = 0
    /\ UNCHANGED <<Outside, tables, accepted, batch, retryAfter, faults, history>>

-------------------------------------------------------------------------------
(* Shutdown and restart *)

\* The accepted copy a dying worker has not confirmed.
LostNow == [i \in Ids |-> IF worker = "accepted" /\ IsCurrent(i)
                          THEN lost[i] + 1 ELSE lost[i]]

\* Application.shutdown has cancelled the producers; stop() sets both events.
StopCalled ==
    /\ ctl = "running"
    /\ ctl' = "stopping" /\ stopAt' = now
    /\ stop' = TRUE /\ wake' = TRUE
    /\ waking' = {}
    /\ owed' = {i \in Ids : Due(i)}
    /\ UNCHANGED <<now, tables, accepted, worker, batch, retryAfter, consecutive,
                   faults, crashes, lost>>

StopReturns ==
    /\ ctl = "stopping" /\ worker = "exited"
    /\ ctl' = "stopped"
    /\ UNCHANGED <<now, tables, accepted, worker, batch, retryAfter, consecutive,
                   wake, stop, stopAt, waking, faults, crashes, history>>

\* wait_for cancels the worker and raises TimeoutError out of stop().
StopTimesOut ==
    /\ ctl = "stopping" /\ worker # "exited"
    /\ now >= stopAt + StopTimeout
    /\ ctl' = "failed"
    /\ worker' = "cancelled" /\ batch' = {} /\ retryAfter' = None
    /\ lost' = LostNow
    /\ UNCHANGED <<now, tables, accepted, consecutive, wake, stop, stopAt, waking,
                   faults, crashes, owed>>

\* The process dies, or has ended, and a new one starts.
Restart ==
    /\ crashes < MaxCrashes
    /\ crashes' = crashes + 1
    /\ worker' = "loop" /\ batch' = {} /\ retryAfter' = None /\ consecutive' = 0
    /\ wake' = TRUE /\ stop' = FALSE
    /\ ctl' = "running" /\ stopAt' = 0
    /\ waking' = {}
    /\ lost' = LostNow
    /\ owed' = {}
    /\ UNCHANGED <<now, tables, accepted, faults>>

-------------------------------------------------------------------------------
Deliver == \E i \in Ids : \/ Send(i) \/ MarkSent(i) \/ MarkSentFails(i)
                         \/ MarkDead(i) \/ MarkRetry(i)
Produce == \E i \in Ids : Insert(i) \/ Wake(i)
Next == \/ Tick \/ Produce
        \/ Iterate \/ Fetch \/ Begin \/ Deliver \/ IterationFails \/ BackoffEnds \/ WaitEnds
        \/ StopCalled \/ StopReturns \/ StopTimesOut \/ Restart

\* The event loop runs the worker whenever it can go on (its waits and sleeps
\* have timeouts), and a producer that has inserted goes on to wake it.
Fairness ==
    /\ WF_vars(Tick)
    /\ WF_vars(Iterate) /\ WF_vars(Fetch) /\ WF_vars(Begin) /\ WF_vars(Deliver)
    /\ WF_vars(BackoffEnds) /\ WF_vars(WaitEnds)
    /\ WF_vars(\E i \in Ids : Wake(i))

Spec == Init /\ [][Next]_vars
FairSpec == Spec /\ Fairness

-------------------------------------------------------------------------------
(* The abstract specification *)

Stage(i) == IF row[i].status = "absent" THEN "new"
            ELSE IF Unsent(i) THEN "queued"
            ELSE IF row[i].status = "sent" THEN "delivered"
            ELSE "dropped"

ND == INSTANCE NotificationDelivery
        WITH stage <- [i \in Ids |-> Stage(i)], copies <- accepted

\* The outbox and its worker deliver at least once, and nothing after a row is
\* settled: every step is a step of NotificationDelivery or a stutter.
ImplementsDelivery == ND!Spec

-------------------------------------------------------------------------------
(* Properties *)

\* Every copy is accounted for: a row is `sent' exactly when Telegram confirmed
\* a copy, and any further copy is one whose confirmation was lost.
CopiesAccountedFor ==
    \A i \in Ids :
        accepted[i] = lost[i]
            + (IF row[i].status = "sent"
                  \/ (worker = "accepted" /\ IsCurrent(i)) THEN 1 ELSE 0)

\* The listing event says `sent' exactly when its outbox row does (_deliver:
\* "a crash cannot leave them inconsistent").
ListingFlagConsistent ==
    \A i \in Listing : i \in flagged <=> row[i].status = "sent"

\* A row in the worker's snapshot is still unsent and still due when its turn
\* comes: nothing delivers a settled row again or a retry before its time.
BatchStillDue ==
    /\ \A i \in batch : Due(i)
    /\ worker \in {"deliver", "accepted", "permanent", "transient"} => batch # {}
    /\ batch # {} => worker \in {"fetched", "deliver", "accepted", "permanent", "transient"}

\* Sent and dead are final, and a sent message is not sent again.
SettledIsFinal ==
    [][\A i \in Ids : row[i].status \in {"sent", "dead"} =>
          row'[i] = row[i] /\ accepted'[i] = accepted[i]]_vars

\* No lost wake-up: while the worker sleeps, or is about to, with its event
\* clear, the producer of every row never tried is still on its way to wake().
NoLostWakeup ==
    (worker = "wait" \/ (worker = "fetched" /\ batch = {})) /\ ~wake =>
        \A i \in Ids : row[i].status = "pending" => i \in waking

\* Every row is settled in the end, unless the process is stopped or the row's
\* next attempt lies beyond the clock's bound.
EventuallySettled ==
    \A i \in Ids :
        Unsent(i) ~> \/ ~Unsent(i)
                     \/ ctl # "running"
                     \/ row[i].next_attempt_at # None /\ row[i].next_attempt_at > MaxTime

\* A worker with too many failures in a row recovers once the faults end.
WorkerRecovers == (ctl = "running") ~> (worker_healthy \/ ctl # "running")

\* stop(): "Deliver what is currently due (bounded) and stop the worker".
StopDeliversDue == ctl = "stopped" => owed = {}

\* Shutdown goes on past stop() to close the clients and the database
\* (main.py: "guaranteeing the database ... cleaned up before exit").
StopReturnsNormally == ctl # "failed"
===============================================================================
