---------------------------- MODULE ListingPipeline ----------------------------
(***************************************************************************)
(* New listings, from the exchange to the outbox: app/market/discovery.py  *)
(* compares what Bybit lists with the registry, app/market/listing.py      *)
(* records one event per (symbol, type) and queues its notification, and   *)
(* at startup pairs unsent events with the outbox again.                   *)
(*                                                                         *)
(* Registry, event and outbox are written by separate transactions, so the *)
(* interest is in what happens between them.                               *)
(***************************************************************************)
EXTENDS Naturals, FiniteSets

CONSTANTS
    Spot,        \* spot symbols: one REST call returns them all
    Linear,      \* linear symbols: one call per status, Trading then PreLaunch
    Announced,   \* symbols that announcements may mention
    Enablings,   \* values listing_notifications_enabled may have at a start
    MaxMoves,    \* bound: changes on the exchange
    MaxFaults,   \* bound: failing REST or database calls
    MaxCrashes,  \* bound: process deaths
    MaxTroubles, \* bound: both together
    None

Symbols == Spot \union Linear
EventTypes == {"prelaunch", "trading", "announced", "delisted"}
Keys == (Symbols \union Announced) \X EventTypes   \* event_key_for
Producers == {"discovery", "announcements"}

ASSUME ListingAssumption ==
    /\ Spot \intersect Linear = {}
    /\ Enablings \subseteq BOOLEAN /\ Enablings # {}
    /\ MaxMoves \in Nat /\ MaxFaults \in Nat /\ MaxCrashes \in Nat
    /\ MaxTroubles \in Nat /\ None \notin Keys

VARIABLES
    market,    \* what Bybit lists                                (external)
    registry,  \* instruments                                    (persistent)
    events,    \* listing_events                                 (persistent)
    flagged,   \* those with telegram_sent = 1                   (persistent)
    outbox,    \* outgoing_notifications, by dedupe key          (persistent)
    up,        \* "down", "reconcile", "first" (the first discovery), "running"
    enabled,   \* listing_notifications_enabled of this process
    todo,      \* unsent events reconcile_unsent has yet to look at
    disc,      \* where discovery is
    fetched,   \* the instruments fetched so far
    first_run,
    found,     \* Producers -> events detected and not yet recorded
    hand,      \* Producers -> an event recorded and not yet queued
    moves, faults, crashes,
    \* History variables: no action reads them.
    seeded,    \* the statuses found in the first run
    gone,      \* symbols that Bybit has delisted
    left,      \* symbols that the registry has marked Removed
    cut,       \* detected events whose producer failed before recording them
    unpaired   \* recorded events whose producer failed before queueing them

tables == <<registry, events, flagged, outbox>>
process == <<up, enabled, todo, disc, fetched, first_run, found, hand>>
bounds == <<moves, faults, crashes>>
history == <<seeded, gone, left, cut, unpaired>>
vars == <<market, tables, process, bounds, history>>

TypeOK ==
    /\ market \in [Symbols -> {"none", "PreLaunch", "Trading", "delisted"}]
    /\ registry \in [Symbols -> {"absent", "PreLaunch", "Trading", "Removed"}]
    /\ events \in SUBSET Keys /\ flagged \in SUBSET events
    /\ outbox \in [Keys -> {"none", "queued", "sent", "dead"}]
    /\ up \in {"down", "reconcile", "first", "running"} /\ enabled \in BOOLEAN
    /\ todo \in SUBSET Keys
    /\ disc \in {"idle", "spot", "trading", "prelaunch", "fetched", "upserted", "recording"}
    /\ fetched \in [Symbols -> {"none", "PreLaunch", "Trading"}]
    /\ first_run \in BOOLEAN
    /\ found \in [Producers -> SUBSET Keys]
    /\ hand \in [Producers -> Keys \union {None}]
    /\ seeded \in [Symbols -> {"none", "PreLaunch", "Trading"}]
    /\ gone \in SUBSET Symbols /\ left \in SUBSET Symbols
    /\ cut \in SUBSET Keys /\ unpaired \in SUBSET Keys

Nothing == [s \in Symbols |-> "none"]

Init ==
    /\ market \in [Symbols -> {"none", "PreLaunch", "Trading"}]
    /\ registry = [s \in Symbols |-> "absent"]
    /\ events = {} /\ flagged = {} /\ outbox = [k \in Keys |-> "none"]
    /\ up = "down" /\ enabled = FALSE /\ todo = {}
    /\ disc = "idle" /\ fetched = Nothing /\ first_run = FALSE
    /\ found = [p \in Producers |-> {}] /\ hand = [p \in Producers |-> None]
    /\ moves = 0 /\ faults = 0 /\ crashes = 0
    /\ seeded = Nothing /\ gone = {} /\ left = {} /\ cut = {} /\ unpaired = {}

Calm == faults + crashes < MaxTroubles
Fault == Calm /\ faults < MaxFaults /\ faults' = faults + 1 /\ UNCHANGED <<moves, crashes>>

-------------------------------------------------------------------------------
(* The exchange *)

Steps == {<<"none", "PreLaunch">>, <<"none", "Trading">>, <<"PreLaunch", "Trading">>,
          <<"PreLaunch", "delisted">>, <<"Trading", "delisted">>, <<"delisted", "Trading">>}

\* A symbol is listed, starts trading, is taken off, or comes back.
MarketMoves(s) ==
    /\ moves < MaxMoves /\ moves' = moves + 1
    /\ \E x \in {"PreLaunch", "Trading", "delisted"} :
         /\ <<market[s], x>> \in Steps
         /\ market' = [market EXCEPT ![s] = x]
         /\ gone' = IF x = "delisted" THEN gone \union {s} ELSE gone
    /\ UNCHANGED <<tables, process, faults, crashes, seeded, left, cut, unpaired>>

-------------------------------------------------------------------------------
(* Discovery: three REST calls, then the comparison with the registry *)

\* discover_once begins: at startup, and then again and again.
DiscoveryStarts ==
    /\ disc = "idle" /\ up \in {"first", "running"}
    /\ disc' = "spot" /\ fetched' = Nothing
    /\ UNCHANGED <<market, tables, up, enabled, todo, first_run, found, hand, bounds,
                   history>>

\* One REST call answers, and says what the symbols in S are.
Fetch(from, to, S) ==
    /\ disc = from /\ disc' = to
    /\ fetched' = [s \in Symbols |-> IF s \in S THEN market[s] ELSE fetched[s]]
    /\ UNCHANGED <<market, tables, up, enabled, todo, first_run, found, hand, bounds,
                   history>>

FetchSpot == Fetch("spot", "trading", {s \in Spot : market[s] \in {"PreLaunch", "Trading"}})
FetchTrading == Fetch("trading", "prelaunch", {s \in Linear : market[s] = "Trading"})
FetchPreLaunch == Fetch("prelaunch", "fetched", {s \in Linear : market[s] = "PreLaunch"})

\* Mutant of Missing: only trading symbols are missed.
MutMissing(s) == fetched[s] = "none" /\ registry[s] = "Trading"

\* Known, and not in the API any more.
Missing(s) == fetched[s] = "none" /\ registry[s] \notin {"absent", "Removed"}

\* Mutant of Detected: only symbols never seen before are looked at.
MutDetected ==
    {<<s, "prelaunch">> : s \in {x \in Symbols :
        registry[x] = "absent" /\ fetched[x] = "PreLaunch"}}
    \union {<<s, "trading">> : s \in {x \in Symbols :
        registry[x] = "absent" /\ fetched[x] = "Trading"}}
    \union {<<s, "delisted">> : s \in {x \in Symbols : Missing(x)}}

\* reconcile's comparison, with the type handle_registry gives each event:
\* new symbols and PreLaunch -> Trading; other status changes have none.
Detected ==
    {<<s, "prelaunch">> : s \in {x \in Symbols :
        registry[x] = "absent" /\ fetched[x] = "PreLaunch"}}
    \union {<<s, "trading">> : s \in {x \in Symbols :
        registry[x] \in {"absent", "PreLaunch"} /\ fetched[x] = "Trading"}}
    \union {<<s, "delisted">> : s \in {x \in Symbols : Missing(x)}}

\* upsert_many commits.  The first run is silent.
Upsert ==
    /\ disc = "fetched" /\ disc' = "upserted"
    /\ first_run' = (\A s \in Symbols : registry[s] = "absent")
    /\ found' = [found EXCEPT !["discovery"] = IF first_run' THEN {} ELSE Detected]
    /\ registry' = [s \in Symbols |-> IF fetched[s] = "none" THEN registry[s]
                                      ELSE fetched[s]]
    /\ seeded' = IF first_run' THEN fetched ELSE seeded
    /\ UNCHANGED <<market, events, flagged, outbox, up, enabled, todo, fetched, hand,
                   bounds, gone, left, cut, unpaired>>

\* mark_removed commits, in a transaction of its own.
MarkRemoved ==
    /\ disc = "upserted" /\ disc' = "recording"
    /\ registry' = [s \in Symbols |-> IF Missing(s) THEN "Removed" ELSE registry[s]]
    /\ left' = left \union {s \in Symbols : Missing(s)}
    /\ UNCHANGED <<market, events, flagged, outbox, up, enabled, todo, fetched, first_run,
                   found, hand, bounds, seeded, gone, cut, unpaired>>

DiscoveryEnds ==
    /\ disc = "recording" /\ found["discovery"] = {} /\ hand["discovery"] = None
    /\ disc' = "idle" /\ up' = "running"
    /\ UNCHANGED <<market, tables, enabled, todo, fetched, first_run, found, hand, bounds,
                   history>>

-------------------------------------------------------------------------------
(* Announcements, and what both producers do with an event *)

AnnouncementsArrive ==
    /\ up = "running" /\ enabled
    /\ found["announcements"] = {} /\ hand["announcements"] = None
    /\ \E S \in SUBSET Announced :
         found' = [found EXCEPT !["announcements"] = {<<s, "announced">> : s \in S}]
    /\ UNCHANGED <<market, tables, up, enabled, todo, disc, fetched, first_run, hand,
                   bounds, history>>

\* _notify leaves delisted events and a disabled feature alone.
Notifies(k) == k[2] # "delisted" /\ enabled

\* Mutant of Record: delisted events are notified too.
MutRecordAll(p) ==
    /\ p = "discovery" => disc = "recording"
    /\ hand[p] = None
    /\ \E k \in found[p] :
         /\ found' = [found EXCEPT ![p] = @ \ {k}]
         /\ events' = events \union {k}
         /\ hand' = [hand EXCEPT ![p] = IF k \notin events /\ enabled THEN k ELSE None]
    /\ UNCHANGED <<market, registry, flagged, outbox, up, enabled, todo, disc, fetched,
                   first_run, bounds, history>>

\* INSERT OR IGNORE: only a new event is notified.
Record(p) ==
    /\ p = "discovery" => disc = "recording"
    /\ hand[p] = None
    /\ \E k \in found[p] :
         /\ found' = [found EXCEPT ![p] = @ \ {k}]
         /\ events' = events \union {k}
         /\ hand' = [hand EXCEPT ![p] = IF k \notin events /\ Notifies(k) THEN k ELSE None]
    /\ UNCHANGED <<market, registry, flagged, outbox, up, enabled, todo, disc, fetched,
                   first_run, bounds, history>>

\* enqueue: the dedupe key is unique, so a second row would raise.
Enqueue(p) ==
    /\ hand[p] # None /\ outbox[hand[p]] = "none"
    /\ outbox' = [outbox EXCEPT ![hand[p]] = "queued"]
    /\ hand' = [hand EXCEPT ![p] = None]
    /\ UNCHANGED <<market, registry, events, flagged, up, enabled, todo, disc, fetched,
                   first_run, found, bounds, history>>

-------------------------------------------------------------------------------
(* The dispatcher, which module AlertDispatcher shows to do no more than this *)

Settle(k) ==
    /\ up # "down" /\ outbox[k] = "queued"
    /\ \/ outbox' = [outbox EXCEPT ![k] = "sent"] /\ flagged' = flagged \union {k}
       \/ outbox' = [outbox EXCEPT ![k] = "dead"] /\ UNCHANGED flagged
    /\ UNCHANGED <<market, registry, events, process, bounds, history>>

-------------------------------------------------------------------------------
(* Startup, failures and crashes *)

\* The dispatcher runs already; unsent() is read.
Boot ==
    /\ up = "down" /\ up' = "reconcile"
    /\ enabled' \in Enablings
    /\ todo' = {k \in events \ flagged : k[2] # "delisted"}
    /\ UNCHANGED <<market, tables, disc, fetched, first_run, found, hand, bounds, history>>

\* Mutants of ReconcileOne: only flags are repaired; the outbox is not asked.
MutReconcileFlags(k) ==
    /\ up = "reconcile" /\ k \in todo
    /\ todo' = todo \ {k}
    /\ flagged' = IF outbox[k] = "sent" THEN flagged \union {k} ELSE flagged
    /\ UNCHANGED <<market, registry, events, outbox, up, enabled, disc, fetched,
                   first_run, found, hand, bounds, history>>
MutReconcileBlind(k) ==
    /\ up = "reconcile" /\ k \in todo
    /\ todo' = todo \ {k}
    /\ outbox' = IF Notifies(k) THEN [outbox EXCEPT ![k] = "queued"] ELSE outbox
    /\ UNCHANGED <<market, registry, events, flagged, up, enabled, disc, fetched,
                   first_run, found, hand, bounds, history>>

\* A sent row repairs the flag, any other row is the dispatcher's, and a
\* missing row is written.
ReconcileOne(k) ==
    /\ up = "reconcile" /\ k \in todo
    /\ todo' = todo \ {k}
    /\ flagged' = IF outbox[k] = "sent" THEN flagged \union {k} ELSE flagged
    /\ outbox' = IF outbox[k] = "none" /\ Notifies(k)
                 THEN [outbox EXCEPT ![k] = "queued"] ELSE outbox
    /\ UNCHANGED <<market, registry, events, up, enabled, disc, fetched, first_run, found,
                   hand, bounds, history>>

ReconcileEnds ==
    /\ up = "reconcile" /\ todo = {}
    /\ up' = "first"
    /\ unpaired' = IF enabled THEN {} ELSE unpaired
    /\ UNCHANGED <<market, tables, enabled, todo, disc, fetched, first_run, found, hand,
                   bounds, seeded, gone, left, cut>>

\* What the producers in S leave undone.
Abandon(S) ==
    /\ found' = [p \in Producers |-> IF p \in S THEN {} ELSE found[p]]
    /\ hand' = [p \in Producers |-> IF p \in S THEN None ELSE hand[p]]
    /\ cut' = cut \union UNION {found[p] : p \in S}
    /\ unpaired' = unpaired \union {hand[p] : p \in {q \in S : hand[q] # None}}

\* A BybitError from one of the REST calls: discovery tries again later.
RestFails ==
    /\ disc \in {"spot", "trading", "prelaunch"} /\ Fault
    /\ disc' = "idle" /\ up' = "running"
    /\ UNCHANGED <<market, tables, enabled, todo, fetched, first_run, found, hand, history>>

\* A database error: the loop logs it and goes on to the next round.
DiscoveryFails ==
    /\ up = "running" /\ disc \in {"fetched", "upserted", "recording"} /\ Fault
    /\ disc' = "idle" /\ Abandon({"discovery"})
    /\ UNCHANGED <<market, tables, up, enabled, todo, fetched, first_run, seeded, gone,
                   left>>

AnnouncementsFail ==
    /\ found["announcements"] # {} \/ hand["announcements"] # None
    /\ Fault /\ Abandon({"announcements"})
    /\ UNCHANGED <<market, tables, up, enabled, todo, disc, fetched, first_run, seeded,
                   gone, left>>

\* The process dies; a database error before it runs ends it too.
Crash ==
    /\ up # "down" /\ Calm /\ crashes < MaxCrashes
    /\ crashes' = crashes + 1
    /\ up' = "down" /\ todo' = {} /\ disc' = "idle"
    /\ Abandon(Producers)
    /\ UNCHANGED <<market, tables, enabled, fetched, first_run, moves, faults, seeded, gone,
                   left>>

-------------------------------------------------------------------------------
Discovery == DiscoveryStarts \/ FetchSpot \/ FetchTrading \/ FetchPreLaunch \/ Upsert
             \/ MarkRemoved \/ DiscoveryEnds
Produce(p) == Record(p) \/ Enqueue(p)
Startup == Boot \/ (\E k \in Keys : ReconcileOne(k)) \/ ReconcileEnds
Next == \/ \E s \in Symbols : MarketMoves(s)
        \/ Discovery \/ AnnouncementsArrive
        \/ \E p \in Producers : Produce(p)
        \/ \E k \in Keys : Settle(k)
        \/ Startup \/ RestFails \/ DiscoveryFails \/ AnnouncementsFail \/ Crash

\* A stopped process is started again (restart policy of the container), and
\* discovery, its producers and the dispatcher go on.
Fairness == /\ WF_vars(Discovery) /\ WF_vars(Startup)
            /\ \A p \in Producers : WF_vars(Produce(p))
            /\ WF_vars(\E k \in Keys : Settle(k))

Spec == Init /\ [][Next]_vars
FairSpec == Spec /\ Fairness

-------------------------------------------------------------------------------
(* Properties *)

\* The outbox holds listing messages only for recorded events that are
\* announced, and telegram_sent says so only after delivery.
OutboxFollowsEvents ==
    /\ \A k \in Keys : outbox[k] # "none" => k \in events /\ k[2] # "delisted"
    /\ \A k \in flagged : outbox[k] = "sent"

\* A settled listing message is never queued again, by no producer and by no
\* restart ("restarts never resend").
NeverResent ==
    [][\A k \in Keys : outbox[k] \in {"sent", "dead"} => outbox'[k] = outbox[k]]_vars

\* An event in a producer's hand has no row yet: enqueue cannot run into its
\* own unique key.
EnqueueNeverClashes ==
    \A p, q \in Producers : hand[p] # None =>
        outbox[hand[p]] = "none" /\ (p # q => hand[q] # hand[p])

\* After startup every announced event has its row, unless a producer of this
\* process is about to write it or failed to; and no event has two.
EventsArePaired ==
    /\ EnqueueNeverClashes
    /\ up \in {"first", "running"} /\ enabled =>
          \A k \in events : k[2] # "delisted" /\ outbox[k] = "none" =>
              k \in unpaired \/ \E p \in Producers : hand[p] = k

\* What was there when the database was empty is never announced as new.
SeedIsSilent ==
    \A s \in Symbols : /\ seeded[s] = "Trading" => <<s, "trading">> \notin events
                       /\ seeded[s] # "none" => <<s, "prelaunch">> \notin events

\* The seed is silent, and between discoveries a symbol that trades, did not
\* from the start, and was never lost sight of has its event, or the run that
\* saw it was cut off (discovery.py:111-125).
LaunchesAreRecorded ==
    /\ SeedIsSilent
    /\ up = "running" /\ disc = "idle" =>
          \A s \in Symbols :
              registry[s] = "Trading" /\ seeded[s] # "Trading" /\ s \notin left =>
                  <<s, "trading">> \in events \union cut

\* SPEC: "Detects newly listed instruments automatically (including Linear
\* PreLaunch)": no symbol that Bybit never took off starts trading unnoticed.
LaunchIsAnnounced ==
    up = "running" /\ disc = "idle" =>
        \A s \in Symbols :
            registry[s] = "Trading" /\ seeded[s] # "Trading" /\ s \notin gone =>
                <<s, "trading">> \in events

\* Once the exchange is quiet the registry agrees with it, and every queued
\* listing message is settled.
RegistryCatchesUp ==
    <>[](/\ \A s \in Symbols :
              /\ market[s] \in {"PreLaunch", "Trading"} => registry[s] = market[s]
              /\ market[s] \notin {"PreLaunch", "Trading"} =>
                    registry[s] \in {"absent", "Removed"}
         /\ \A k \in Keys : outbox[k] # "queued")
===============================================================================
