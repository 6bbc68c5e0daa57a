--------------------------- MODULE SubscriptionClient ---------------------------
(***************************************************************************)
(* One ticker stream of app/bybit/websocket.py: the run task that connects *)
(* and listens, the sync task that follows the registry, and Bybit.        *)
(*                                                                         *)
(* Two tasks, one lock: subscribe requests stay pending until the server's *)
(* ACK for their req_id is read; ACKs are handled outside the lock; a new  *)
(* connection forgets what was confirmed and pending on the last one.      *)
(* Time is reduced to which requests are older than the ACK window; the    *)
(* order in which requests grow old is left open.                          *)
(***************************************************************************)
EXTENDS Naturals, Sequences, FiniteSets

CONSTANTS
    Symbols,
    BatchSize,   \* ws_subscribe_batch_size
    ReqIds,      \* req_id, reused once neither side can still mention it
    RestFails,   \* the REST ticker poll fails whenever it is tried
    MaxChanges,  \* bound: changes of the registry
    MaxFaults,   \* bound: refusals, silences, losses of the connection, delays
    None, Alias

ASSUME SubscriptionAssumption ==
    /\ BatchSize \in Nat \ {0}
    /\ RestFails \in BOOLEAN
    /\ MaxChanges \in Nat /\ MaxFaults \in Nat
    /\ \A S \in SUBSET Symbols : S # Alias
    /\ None \notin ReqIds /\ None \notin {"run", "sync"}

VARIABLES
    wanted,     \* Trading symbols of the registry
    desired,    \* _desired_symbols
    confirmed,  \* _subscribed
    pending,    \* _pending_subscriptions: req_id -> its batch, {} when there is none
    late,       \* requests sent longer ago than the ACK window
    ws,         \* _ws is not None
    alive,      \* the connection behind _ws still works
    reason,     \* the reason of the last status report
    pc,         \* where each task is
    lock,       \* _subscription_lock
    todo,       \* symbols a task under the lock has not sent yet
    sending,    \* the frame a task is sending: "none", "live", or "dead" (it will raise)
    batch, req, \* that frame's batch and req_id
    snapshot,   \* the symbols sync_subscriptions loaded
    previous,   \* `previous': Alias for the current _subscribed object, or an old one
    stale,      \* argument of unsubscribe()
    subs,       \* topics the server streams            (external)
    c2s, s2c,   \* frames on their way                  (external)
    changes, faults

world == <<wanted, subs, changes>>
view == <<desired, confirmed, pending, late>>
link == <<ws, alive, reason, c2s, s2c>>
send == <<todo, sending, batch, req>>
syncing == <<snapshot, previous, stale>>
vars == <<world, view, link, send, syncing, pc, lock, faults>>

Tasks == {"run", "sync"}
Places == [run |-> {"down", "waitSub", "sub", "poll", "listen"},
           sync |-> {"idle", "loaded", "waitSub", "sub", "subDone", "waitUnsub", "unsub"}]
Frames == [op : {"subscribe"}, req : ReqIds, symbols : SUBSET Symbols]
          \union [op : {"unsubscribe"}, req : {None}, symbols : SUBSET Symbols]
Acks == [req : ReqIds, success : BOOLEAN]

TypeOK ==
    /\ wanted \in SUBSET Symbols /\ desired \in SUBSET Symbols
    /\ confirmed \in SUBSET Symbols /\ subs \in SUBSET Symbols
    /\ pending \in [ReqIds -> SUBSET Symbols] /\ late \in SUBSET ReqIds
    /\ ws \in BOOLEAN /\ alive \in BOOLEAN
    /\ reason \in {"connected", "disconnected", "subscribe_ack_failed",
                   "subscribe_ack_timeout", "stale"}
    /\ pc \in [Tasks -> Places.run \union Places.sync]
    /\ pc["run"] \in Places.run /\ pc["sync"] \in Places.sync
    /\ lock \in Tasks \union {None}
    /\ todo \in [Tasks -> SUBSET Symbols]
    /\ sending \in [Tasks -> {"none", "live", "dead"}]
    /\ batch \in [Tasks -> SUBSET Symbols]
    /\ req \in [Tasks -> ReqIds \union {None}]
    /\ snapshot \in SUBSET Symbols /\ stale \in SUBSET Symbols
    /\ previous = Alias \/ previous \in SUBSET Symbols
    /\ c2s \in Seq(Frames) /\ s2c \in Seq(Acks)
    /\ changes \in Nat /\ faults \in Nat

pending_symbols == UNION {pending[r] : r \in ReqIds}

\* Some frame or ACK on its way still answers for the request.
Answered(r) == \E k \in 1 .. Len(s2c) : s2c[k].req = r
Answerable(r) == Answered(r) \/ \E k \in 1 .. Len(c2s) : c2s[k].req = r
Fresh(r) == pending[r] = {} /\ ~Answerable(r) /\ \A t \in Tasks : req[t] # r

Batches(S) == {b \in SUBSET S : Cardinality(b) = BatchSize \/ (b = S /\ Cardinality(S) < BatchSize)}

\* The streams start after the first discovery, which has synced, or failed.
Init ==
    /\ wanted \in SUBSET Symbols /\ desired \in {wanted, {}}
    /\ confirmed = {} /\ pending = [r \in ReqIds |-> {}] /\ late = {}
    /\ ws = FALSE /\ alive = FALSE /\ reason = "disconnected"
    /\ pc = [run |-> "down", sync |-> "idle"] /\ lock = None
    /\ todo = [t \in Tasks |-> {}] /\ sending = [t \in Tasks |-> "none"]
    /\ batch = [t \in Tasks |-> {}] /\ req = [t \in Tasks |-> None]
    /\ snapshot = {} /\ previous = Alias /\ stale = {}
    /\ subs = {} /\ c2s = <<>> /\ s2c = <<>>
    /\ changes = 0 /\ faults = 0

Fault == faults < MaxFaults /\ faults' = faults + 1

\* Discovery has written the registry.
RegistryChanges ==
    /\ changes < MaxChanges /\ changes' = changes + 1
    /\ wanted' \in SUBSET Symbols
    /\ UNCHANGED <<subs, view, link, send, syncing, pc, lock, faults>>

-------------------------------------------------------------------------------
(* _connect_and_listen *)

\* A sync holds the _subscribed object it will compare with `desired'.
Comparing == pc["sync"] \in {"waitSub", "sub", "subDone"}

\* A connection: nothing is confirmed or pending on it yet.  `previous' keeps
\* the set object of the last connection if a sync holds it.
Connect ==
    /\ pc["run"] = "down"
    /\ ws' = TRUE /\ alive' = TRUE /\ reason' = "connected"
    /\ c2s' = <<>> /\ s2c' = <<>> /\ subs' = {}
    /\ confirmed' = {} /\ pending' = [r \in ReqIds |-> {}] /\ late' = {}
    /\ previous' = IF previous = Alias /\ Comparing THEN confirmed ELSE previous
    /\ pc' = [pc EXCEPT !["run"] = "waitSub"]
    /\ UNCHANGED <<wanted, changes, desired, send, snapshot, stale, lock, faults>>

\* The `finally' clause: the run task leaves the connection, whatever it was
\* doing; a frame that the sync task is sending will not go out.
Teardown(why) ==
    /\ ws' = FALSE /\ alive' = FALSE /\ reason' = why
    /\ c2s' = <<>> /\ s2c' = <<>>
    /\ pc' = [pc EXCEPT !["run"] = "down"]
    /\ lock' = IF lock = "run" THEN None ELSE lock
    /\ todo' = [todo EXCEPT !["run"] = {}]
    /\ sending' = [t \in Tasks |-> IF t = "run" \/ sending[t] = "none"
                                   THEN "none" ELSE "dead"]
    /\ batch' = [batch EXCEPT !["run"] = {}]
    /\ req' = [req EXCEPT !["run"] = None]

\* The peer or the network closes the connection; the client learns of it when
\* it next receives or sends.
Disconnect ==
    /\ ws /\ alive /\ Fault
    /\ alive' = FALSE /\ c2s' = <<>>
    /\ sending' = [t \in Tasks |-> IF sending[t] = "live" THEN "dead" ELSE sending[t]]
    /\ UNCHANGED <<world, view, ws, reason, s2c, todo, batch, req, syncing, pc, lock>>

\* on_connected(): the REST poll answers before the stream is first read.
PollEnds ==
    /\ pc["run"] = "poll" /\ ~RestFails
    /\ pc' = [pc EXCEPT !["run"] = "listen"]
    /\ UNCHANGED <<world, view, link, send, syncing, lock, faults>>

\* Its exception leaves _connect_and_listen.
PollFails ==
    /\ pc["run"] = "poll"
    /\ IF RestFails THEN UNCHANGED faults ELSE Fault
    /\ Teardown("disconnected")
    /\ UNCHANGED <<world, view, syncing>>

\* Mutant of Receive: an ACK confirms whatever was asked for last.
MutReceiveConfirmsAll ==
    /\ pc["run"] = "listen" /\ s2c # <<>>
    /\ pending' = [pending EXCEPT ![Head(s2c).req] = {}]
    /\ late' = late \ {Head(s2c).req}
    /\ confirmed' = confirmed \union pending_symbols
    /\ s2c' = Tail(s2c)
    /\ UNCHANGED <<world, desired, ws, alive, reason, c2s, send, syncing, pc, lock,
                   faults>>

\* A frame is read.  An ACK resolves its own request and no other; then the
\* ACK watchdog looks at the requests that are left.
Receive ==
    /\ pc["run"] = "listen" /\ s2c # <<>>
    /\ LET ack == Head(s2c)
           known == pending[ack.req] # {}
       IN  /\ pending' = [pending EXCEPT ![ack.req] = {}]
           /\ late' = late \ {ack.req}
           /\ confirmed' = IF known /\ ack.success
                           THEN confirmed \union pending[ack.req] ELSE confirmed
           /\ \/ known /\ ~ack.success /\ Teardown("subscribe_ack_failed")
              \/ ~(known /\ ~ack.success) /\ late' # {}
                    /\ Teardown("subscribe_ack_timeout")
              \/ /\ ~(known /\ ~ack.success) /\ late' = {}
                 /\ s2c' = Tail(s2c)
                 /\ UNCHANGED <<ws, alive, reason, c2s, send, pc, lock>>
    /\ UNCHANGED <<world, desired, syncing, faults>>

\* Mutant of ReceiveNothing: no watchdog while nothing arrives.
MutReceiveNothingWaits ==
    /\ pc["run"] = "listen" /\ s2c = <<>>
    /\ ~alive /\ Teardown("disconnected")
    /\ UNCHANGED <<world, view, syncing, faults>>

\* recv() times out, or raises because the connection is gone.
ReceiveNothing ==
    /\ pc["run"] = "listen" /\ s2c = <<>>
    /\ \/ ~alive /\ Teardown("disconnected")
       \/ alive /\ late # {} /\ Teardown("subscribe_ack_timeout")
    /\ UNCHANGED <<world, view, syncing, faults>>

\* No ticker for ws_stale_seconds.
StreamStale ==
    /\ pc["run"] = "listen" /\ desired # {} /\ Fault
    /\ Teardown("stale")
    /\ UNCHANGED <<world, view, syncing>>

-------------------------------------------------------------------------------
(* resubscribe(): by the run task on a new connection, by the sync task *)

AfterSub == [run |-> "poll", sync |-> "subDone"]

\* Mutant of Resubscribe: the lock is not waited for.
MutResubscribeNoLock(t) ==
    /\ pc[t] = "waitSub"
    /\ LET missing == (desired \ confirmed) \ pending_symbols
       IN  /\ todo' = [todo EXCEPT ![t] = missing]
           /\ pc' = [pc EXCEPT ![t] = IF missing = {} THEN AfterSub[t] ELSE "sub"]
    /\ UNCHANGED <<world, view, link, sending, batch, req, syncing, lock, faults>>

\* The lock is taken and the missing symbols are worked out under it.
Resubscribe(t) ==
    /\ pc[t] = "waitSub" /\ lock = None
    /\ LET missing == (desired \ confirmed) \ pending_symbols
       IN  /\ todo' = [todo EXCEPT ![t] = missing]
           /\ lock' = IF missing = {} THEN None ELSE t
           /\ pc' = [pc EXCEPT ![t] = IF missing = {} THEN AfterSub[t] ELSE "sub"]
    /\ UNCHANGED <<world, view, link, sending, batch, req, syncing, faults>>

\* The sync task gives up: the exception leaves sync_subscriptions.
SyncRaises ==
    /\ pc' = [pc EXCEPT !["sync"] = "idle"]
    /\ lock' = None
    /\ todo' = [todo EXCEPT !["sync"] = {}]
    /\ sending' = [sending EXCEPT !["sync"] = "none"]
    /\ batch' = [batch EXCEPT !["sync"] = {}]
    /\ req' = [req EXCEPT !["sync"] = None]
    /\ previous' = Alias

\* The request is pending before its frame can be seen.
SendSubscribe(t) ==
    /\ pc[t] = "sub" /\ sending[t] = "none" /\ alive
    /\ \E b \in Batches(todo[t]), r \in ReqIds :
         /\ Fresh(r)
         /\ pending' = [pending EXCEPT ![r] = b]
         /\ todo' = [todo EXCEPT ![t] = @ \ b]
         /\ batch' = [batch EXCEPT ![t] = b]
         /\ req' = [req EXCEPT ![t] = r]
         /\ sending' = [sending EXCEPT ![t] = "live"]
         /\ c2s' = Append(c2s, [op |-> "subscribe", req |-> r, symbols |-> b])
    /\ UNCHANGED <<world, desired, confirmed, late, ws, alive, reason, s2c, syncing, pc,
                   lock, faults>>

\* Mutant of SubscribeSent: only the first batch is sent.
MutSubscribeSentStops(t) ==
    /\ pc[t] = "sub" /\ sending[t] = "live"
    /\ sending' = [sending EXCEPT ![t] = "none"]
    /\ batch' = [batch EXCEPT ![t] = {}]
    /\ req' = [req EXCEPT ![t] = None]
    /\ lock' = None
    /\ todo' = [todo EXCEPT ![t] = {}]
    /\ pc' = [pc EXCEPT ![t] = AfterSub[t]]
    /\ UNCHANGED <<world, view, link, syncing, faults>>

\* Back from send(): the next batch, or done.
SubscribeSent(t) ==
    /\ pc[t] = "sub" /\ sending[t] = "live"
    /\ sending' = [sending EXCEPT ![t] = "none"]
    /\ batch' = [batch EXCEPT ![t] = {}]
    /\ req' = [req EXCEPT ![t] = None]
    /\ lock' = IF todo[t] = {} THEN None ELSE lock
    /\ pc' = [pc EXCEPT ![t] = IF todo[t] = {} THEN AfterSub[t] ELSE "sub"]
    /\ UNCHANGED <<world, view, link, todo, syncing, faults>>

\* send() raises, or there is no _ws to send on: the pending row is rolled back
\* and the exception goes on.
SubscribeFails(t) ==
    /\ pc[t] = "sub"
    /\ sending[t] = "dead" \/ (sending[t] = "none" /\ ~alive)
    /\ pending' = [r \in ReqIds |-> IF r = req[t] THEN {} ELSE pending[r]]
    /\ late' = late \ {req[t]}
    /\ IF t = "run" THEN Teardown("disconnected") /\ UNCHANGED previous
                    ELSE SyncRaises /\ UNCHANGED link
    /\ UNCHANGED <<world, desired, confirmed, snapshot, stale, faults>>

-------------------------------------------------------------------------------
(* sync_subscriptions(), after every discovery *)

SyncLoads ==
    /\ pc["sync"] = "idle"
    /\ snapshot' = wanted
    /\ pc' = [pc EXCEPT !["sync"] = "loaded"]
    /\ UNCHANGED <<world, view, link, send, previous, stale, lock, faults>>

\* set_symbols, and resubscribe's test of _ws before it waits for the lock.
SyncSets ==
    /\ pc["sync"] = "loaded"
    /\ desired' = snapshot /\ previous' = Alias
    /\ pc' = [pc EXCEPT !["sync"] = IF ws THEN "waitSub" ELSE "subDone"]
    /\ UNCHANGED <<world, confirmed, pending, late, link, send, snapshot, stale, lock,
                   faults>>

\* unsubscribe(previous - desired), and its test of _ws.
SyncDrops ==
    /\ pc["sync"] = "subDone"
    /\ stale' = (IF previous = Alias THEN confirmed ELSE previous) \ desired
    /\ pc' = [pc EXCEPT !["sync"] = IF ws THEN "waitUnsub" ELSE "idle"]
    /\ previous' = Alias
    /\ UNCHANGED <<world, view, link, send, snapshot, lock, faults>>

Unsubscribe ==
    /\ pc["sync"] = "waitUnsub" /\ lock = None
    /\ LET gone == stale \intersect confirmed
       IN  /\ todo' = [todo EXCEPT !["sync"] = gone]
           /\ lock' = IF gone = {} THEN None ELSE "sync"
           /\ pc' = [pc EXCEPT !["sync"] = IF gone = {} THEN "idle" ELSE "unsub"]
    /\ UNCHANGED <<world, view, link, sending, batch, req, syncing, faults>>

SendUnsubscribe ==
    /\ pc["sync"] = "unsub" /\ sending["sync"] = "none" /\ alive
    /\ \E b \in Batches(todo["sync"]) :
         /\ todo' = [todo EXCEPT !["sync"] = @ \ b]
         /\ batch' = [batch EXCEPT !["sync"] = b]
         /\ sending' = [sending EXCEPT !["sync"] = "live"]
         /\ c2s' = Append(c2s, [op |-> "unsubscribe", req |-> None, symbols |-> b])
    /\ UNCHANGED <<world, view, ws, alive, reason, s2c, req, syncing, pc, lock, faults>>

UnsubscribeSent ==
    /\ pc["sync"] = "unsub" /\ sending["sync"] = "live"
    /\ confirmed' = confirmed \ batch["sync"]
    /\ sending' = [sending EXCEPT !["sync"] = "none"]
    /\ batch' = [batch EXCEPT !["sync"] = {}]
    /\ lock' = IF todo["sync"] = {} THEN None ELSE lock
    /\ pc' = [pc EXCEPT !["sync"] = IF todo["sync"] = {} THEN "idle" ELSE "unsub"]
    /\ UNCHANGED <<world, desired, pending, late, link, todo, req, syncing, faults>>

UnsubscribeFails ==
    /\ pc["sync"] = "unsub"
    /\ sending["sync"] = "dead" \/ (sending["sync"] = "none" /\ ~alive)
    /\ SyncRaises
    /\ UNCHANGED <<world, view, link, snapshot, stale, faults>>

-------------------------------------------------------------------------------
(* Bybit and time *)

\* A subscribe frame is accepted, refused or never answered.
ServerTakes ==
    /\ alive /\ c2s # <<>> /\ c2s' = Tail(c2s)
    /\ LET m == Head(c2s)
           Answer(ok) == s2c' = Append(s2c, [req |-> m.req, success |-> ok])
       IN  \/ /\ m.op = "unsubscribe"
              /\ subs' = subs \ m.symbols
              /\ UNCHANGED <<s2c, faults>>
           \/ /\ m.op = "subscribe" /\ Answer(TRUE)
              /\ subs' = subs \union m.symbols
              /\ UNCHANGED faults
           \/ m.op = "subscribe" /\ Fault /\ (Answer(FALSE) \/ UNCHANGED s2c)
              /\ UNCHANGED subs
    /\ UNCHANGED <<wanted, changes, view, ws, alive, reason, send, syncing, pc, lock>>

\* A request outlives its window: because nothing will answer it, or, as a
\* fault, although an answer is on its way or already here.
AckWindowPasses(r) ==
    /\ pending[r] # {} /\ r \notin late
    /\ IF Answerable(r) THEN Fault ELSE UNCHANGED faults
    /\ late' = late \union {r}
    /\ UNCHANGED <<world, desired, confirmed, pending, link, send, syncing, pc, lock>>

-------------------------------------------------------------------------------
Connection == Connect \/ Disconnect \/ PollEnds \/ PollFails \/ Receive
              \/ ReceiveNothing \/ StreamStale
Subscription(t) == Resubscribe(t) \/ SendSubscribe(t) \/ SubscribeSent(t) \/ SubscribeFails(t)
Sync == SyncLoads \/ SyncSets \/ SyncDrops \/ Unsubscribe \/ SendUnsubscribe
        \/ UnsubscribeSent \/ UnsubscribeFails
Next == RegistryChanges \/ Connection \/ (\E t \in Tasks : Subscription(t)) \/ Sync
        \/ ServerTakes \/ (\E r \in ReqIds : AckWindowPasses(r))

\* The event loop runs every task that can go on; asyncio.Lock is first come,
\* first served; discovery, and so sync, comes round for ever; Bybit answers;
\* a request without an answer grows old.
Fairness ==
    /\ WF_vars(Connect) /\ WF_vars(PollEnds \/ PollFails)
    /\ WF_vars(Receive) /\ WF_vars(ReceiveNothing)
    /\ \A t \in Tasks :
         /\ SF_vars(Resubscribe(t))
         /\ WF_vars(SendSubscribe(t) \/ SubscribeSent(t) \/ SubscribeFails(t))
    /\ SF_vars(Unsubscribe)
    /\ WF_vars(SyncLoads \/ SyncSets \/ SyncDrops)
    /\ WF_vars(SendUnsubscribe \/ UnsubscribeSent \/ UnsubscribeFails)
    /\ WF_vars(ServerTakes)
    /\ WF_vars(\E r \in ReqIds : ~Answerable(r) /\ AckWindowPasses(r))

Spec == Init /\ [][Next]_vars
FairSpec == Spec /\ Fairness

-------------------------------------------------------------------------------
(* Properties *)

\* No topic is asked for twice on one connection: startup and dynamic
\* subscription are serialised by the lock, ACKs come in between.
NoDoubleRequest ==
    ws => /\ confirmed \intersect pending_symbols = {}
          /\ \A r1, r2 \in ReqIds : r1 # r2 => pending[r1] \intersect pending[r2] = {}

\* README: "a topic is never silently reported as monitored when the server
\* never accepted it".  A topic whose unsubscription is being sent is leaving.
ConfirmedIsStreamed ==
    ws /\ alive =>
        confirmed \ (IF pc["sync"] = "unsub" THEN batch["sync"] ELSE {}) \subseteq subs

\* Between syncs, a working connection has every desired topic confirmed or
\* asked for: no topic falls between the two tasks.
DesiredIsRequested ==
    ws /\ alive /\ lock = None /\ pc["run"] \in {"poll", "listen"}
          /\ pc["sync"] \in {"idle", "loaded", "subDone", "waitUnsub"}
        => desired \subseteq confirmed \union pending_symbols

\* Module docstring: "missing ACKs (timeout)" trigger a reconnect.  A stream is
\* given up for an ACK timeout only if some overdue ACK is really missing.
TimeoutMeansMissing ==
    [][reason' = "subscribe_ack_timeout" /\ ws /\ ~ws' =>
          \E r \in late' : ~Answered(r)]_vars

\* Once registry and network are quiet, the stream carries the registry's
\* topics, all of them confirmed, and no others.
EventuallyStreaming == <>[](ws /\ confirmed = wanted /\ subs = wanted)
===============================================================================
