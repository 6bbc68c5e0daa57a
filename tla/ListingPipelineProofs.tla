------------------------ MODULE ListingPipelineProofs ------------------------
(***************************************************************************)
(* For any symbols, failures and crashes: every announced event is paired  *)
(* with one outbox row, no settled message is queued again, and a launch   *)
(* that the registry has seen is recorded.                                 *)
(***************************************************************************)
EXTENDS ListingPipeline, TLAPS

Working == up \in {"first", "running"}

\* Nothing is under way before the first discovery, and what discovery has
\* found waits only from its upsert to the end of its round.
Phases ==
    /\ ~ Working => /\ disc = "idle"
                    /\ \A p \in Producers : found[p] = {} /\ hand[p] = None
    /\ up # "reconcile" => todo = {}
    /\ disc \notin {"upserted", "recording"} => found["discovery"] = {}

\* An event in hand is recorded, is one to announce, and in no other hand.
Hands ==
    /\ EnqueueNeverClashes
    /\ \A p \in Producers : hand[p] # None => hand[p] \in events /\ Notifies(hand[p])

\* What reconcile_unsent has yet to look at is recorded and to be announced,
\* and until it is done holds every event that has no row.
Unpaired(k) == k \in events /\ k[2] # "delisted" /\ outbox[k] = "none"

Pairing ==
    /\ \A k \in todo : k \in events /\ k[2] # "delisted"
    /\ up = "reconcile" /\ enabled => \A k \in Keys : Unpaired(k) => k \in todo
    /\ Working /\ enabled =>
           \A k \in Keys : Unpaired(k) => k \in unpaired \/ \E p \in Producers : hand[p] = k

\* A symbol has an event of discovery, or a seed, only if the registry knows it.
Known(s) ==
    /\ registry[s] = "absent" =>
           seeded[s] = "none" /\ \A e \in {"prelaunch", "trading"} :
               <<s, e>> \notin events \union found["discovery"]
    /\ registry[s] = "Removed" => s \in left

\* Bybit never takes a symbol back to PreLaunch: nor do a fetch and the registry.
Forward(s) ==
    /\ fetched[s] = "PreLaunch" => market[s] # "none"
    /\ fetched[s] = "Trading" => market[s] \in {"Trading", "delisted"}
    /\ seeded[s] = "Trading" => /\ market[s] \in {"Trading", "delisted"}
                                /\ registry[s] # "PreLaunch"
                                /\ fetched[s] # "PreLaunch"

\* What the seed has is in no detected event, and a launch that the registry
\* has seen is recorded, cut off, or about to be recorded.
Seed(s) ==
    /\ seeded[s] = "Trading" => <<s, "trading">> \notin events \union found["discovery"]
    /\ seeded[s] # "none" => <<s, "prelaunch">> \notin events \union found["discovery"]
    /\ registry[s] = "Trading" /\ seeded[s] # "Trading" /\ s \notin left =>
           <<s, "trading">> \in events \union cut \union found["discovery"]

Launches ==
    /\ \A k \in found["announcements"] : k[2] = "announced"
    /\ \A s \in Symbols : Known(s) /\ Forward(s) /\ Seed(s)

Inv == TypeOK /\ Phases /\ OutboxFollowsEvents /\ Hands /\ Pairing /\ Launches

-------------------------------------------------------------------------------
LEMMA InvInit == Init => Inv
<1> SUFFICES ASSUME Init PROVE Inv
  OBVIOUS
<1>1. TypeOK
  BY DEF Init, TypeOK, Nothing, Keys, Producers
<1>2. Phases /\ OutboxFollowsEvents /\ Hands /\ Pairing
  BY DEF Init, Phases, OutboxFollowsEvents, Hands, EnqueueNeverClashes, Pairing, Working,
         Unpaired, Producers
<1>3. Launches
  BY DEF Init, Launches, Known, Forward, Seed, Nothing, Producers
<1> QED
  BY <1>1, <1>2, <1>3 DEF Inv

LEMMA DetectedKeys == Detected \subseteq Keys
  BY DEF Detected, Keys, EventTypes

LEMMA TypeStep ==
    ASSUME TypeOK, OutboxFollowsEvents, Next
    PROVE  TypeOK'
<1> USE DEF TypeOK
<1>1. ASSUME NEW s \in Symbols, MarketMoves(s) PROVE TypeOK'
  BY <1>1 DEF MarketMoves, tables, process, Steps
<1>2. CASE DiscoveryStarts
  BY <1>2 DEF DiscoveryStarts, tables, history, Nothing
<1>3. CASE FetchSpot
  BY <1>3 DEF FetchSpot, Fetch, tables, history
<1>4. CASE FetchTrading
  BY <1>4 DEF FetchTrading, Fetch, tables, history
<1>5. CASE FetchPreLaunch
  BY <1>5 DEF FetchPreLaunch, Fetch, tables, history
<1>6. CASE Upsert
  <2>1. found' \in [Producers -> SUBSET Keys]
    BY <1>6, DetectedKeys DEF Upsert
  <2>2. /\ registry' \in [Symbols -> {"absent", "PreLaunch", "Trading", "Removed"}]
        /\ seeded' \in [Symbols -> {"none", "PreLaunch", "Trading"}]
        /\ first_run' \in BOOLEAN
    BY <1>6 DEF Upsert
  <2> QED
    BY <1>6, <2>1, <2>2 DEF Upsert
<1>7. CASE MarkRemoved
  BY <1>7 DEF MarkRemoved
<1>8. CASE DiscoveryEnds
  BY <1>8 DEF DiscoveryEnds, tables, history
<1>9. CASE AnnouncementsArrive
  <2>1. \A S \in SUBSET Announced : {<<s, "announced">> : s \in S} \subseteq Keys
    BY DEF Keys, EventTypes
  <2>2. PICK S \in SUBSET Announced :
           found' = [found EXCEPT !["announcements"] = {<<s, "announced">> : s \in S}]
    BY <1>9 DEF AnnouncementsArrive
  <2>3. found' \in [Producers -> SUBSET Keys]
    <3> DEFINE new == {<<s, "announced">> : s \in S}
    <3>1. new \subseteq Keys
      BY <2>1
    <3> HIDE DEF new
    <3> QED
      BY <2>2, <3>1 DEF new
  <2> QED
    BY <1>9, <2>3 DEF AnnouncementsArrive, tables, bounds, history
<1>10. ASSUME NEW p \in Producers, Record(p) PROVE TypeOK'
  <2>1. PICK k \in found[p] :
           /\ found' = [found EXCEPT ![p] = @ \ {k}]
           /\ events' = events \union {k}
           /\ hand' = [hand EXCEPT ![p] =
                         IF k \notin events /\ Notifies(k) THEN k ELSE None]
    BY <1>10 DEF Record
  <2>2. k \in Keys
    BY <2>1
  <2> QED
    BY <1>10, <2>1, <2>2 DEF Record, bounds, history
<1>11. ASSUME NEW p \in Producers, Enqueue(p) PROVE TypeOK'
  BY <1>11 DEF Enqueue, bounds, history
<1>12. ASSUME NEW k \in Keys, Settle(k) PROVE TypeOK'
  BY <1>12 DEF Settle, process, history, OutboxFollowsEvents
<1>13. CASE Boot
  BY <1>13, ListingAssumption DEF Boot, tables, history
<1>14. ASSUME NEW k \in Keys, ReconcileOne(k) PROVE TypeOK'
  BY <1>14 DEF ReconcileOne, history, OutboxFollowsEvents
<1>15. CASE ReconcileEnds
  BY <1>15 DEF ReconcileEnds, tables
<1>16. CASE RestFails
  BY <1>16 DEF RestFails, tables, history
<1>17. ASSUME NEW S \in SUBSET Producers, Abandon(S),
              UNCHANGED <<market, tables, enabled, fetched, first_run, seeded, gone, left>>,
              disc' = "idle" \/ disc' = disc, up' = "down" \/ up' = up,
              todo' = {} \/ todo' = todo
       PROVE  TypeOK'
  <2>1. found' \in [Producers -> SUBSET Keys] /\ hand' \in [Producers -> Keys \union {None}]
    BY <1>17 DEF Abandon
  <2>2. cut' \subseteq Keys /\ unpaired' \subseteq Keys
    BY <1>17 DEF Abandon
  <2> QED
    BY <1>17, <2>1, <2>2 DEF tables
<1>18. CASE DiscoveryFails
  BY <1>17, <1>18 DEF DiscoveryFails, Producers
<1>19. CASE AnnouncementsFail
  BY <1>17, <1>19 DEF AnnouncementsFail, Producers
<1>20. CASE Crash
  BY <1>17, <1>20 DEF Crash, Producers
<1> QED
  BY <1>1, <1>2, <1>3, <1>4, <1>5, <1>6, <1>7, <1>8, <1>9, <1>10, <1>11, <1>12, <1>13,
     <1>14, <1>15, <1>16, <1>18, <1>19, <1>20 DEF Next, Discovery, Produce, Startup

LEMMA PhasesStep ==
    ASSUME TypeOK, Phases, Next
    PROVE  Phases'
<1> USE DEF Phases, Working, Producers
<1>1. CASE UNCHANGED <<up, disc, found, hand, todo>>
  BY <1>1
<1>2. ASSUME NEW s \in Symbols, MarketMoves(s) PROVE Phases'
  BY <1>1, <1>2 DEF MarketMoves, process
<1>3. ASSUME NEW k \in Keys, Settle(k) PROVE Phases'
  BY <1>1, <1>3 DEF Settle, process
<1>4. CASE DiscoveryStarts
  BY <1>4 DEF DiscoveryStarts
<1>5. ASSUME NEW from, NEW to, NEW S, Fetch(from, to, S),
             from \notin {"idle", "upserted", "recording"}, to \notin {"upserted", "recording"}
      PROVE  Phases'
  BY <1>5 DEF Fetch
<1>6. CASE FetchSpot \/ FetchTrading \/ FetchPreLaunch
  BY <1>5, <1>6 DEF FetchSpot, FetchTrading, FetchPreLaunch
<1>7. CASE Upsert
  BY <1>7 DEF Upsert
<1>8. CASE MarkRemoved
  BY <1>8 DEF MarkRemoved
<1>9. CASE DiscoveryEnds
  BY <1>9 DEF DiscoveryEnds
<1>10. CASE AnnouncementsArrive
  BY <1>10 DEF AnnouncementsArrive, TypeOK
<1>11. ASSUME NEW p \in Producers, Record(p) PROVE Phases'
  <2>1. PICK k \in found[p] : found' = [found EXCEPT ![p] = @ \ {k}]
    BY <1>11 DEF Record
  <2>2. Working
    BY <2>1
  <2>3. UNCHANGED <<up, disc, todo>>
    BY <1>11 DEF Record
  <2>4. found["discovery"] = {} => found'["discovery"] = {}
    BY <2>1 DEF TypeOK
  <2> QED
    BY <2>2, <2>3, <2>4
<1>12. ASSUME NEW p \in Producers, Enqueue(p) PROVE Phases'
  BY <1>12 DEF Enqueue, TypeOK
<1>13. CASE Boot
  BY <1>13 DEF Boot
<1>14. ASSUME NEW k \in Keys, ReconcileOne(k) PROVE Phases'
  BY <1>14 DEF ReconcileOne
<1>15. CASE ReconcileEnds
  BY <1>15 DEF ReconcileEnds
<1>16. CASE RestFails
  BY <1>16 DEF RestFails
<1>17. CASE DiscoveryFails
  BY <1>17 DEF DiscoveryFails, Abandon
<1>18. CASE AnnouncementsFail
  BY <1>18 DEF AnnouncementsFail, Abandon
<1>19. CASE Crash
  BY <1>19 DEF Crash, Abandon
<1> QED
  BY <1>2, <1>3, <1>4, <1>6, <1>7, <1>8, <1>9, <1>10, <1>11, <1>12, <1>13, <1>14, <1>15,
     <1>16, <1>17, <1>18, <1>19 DEF Next, Discovery, Produce, Startup

LEMMA PairStep ==
    ASSUME TypeOK, Phases, OutboxFollowsEvents, Hands, Pairing, Next
    PROVE  OutboxFollowsEvents' /\ Hands' /\ Pairing'
<1> DEFINE Goal == OutboxFollowsEvents' /\ Hands' /\ Pairing'
<1> USE DEF OutboxFollowsEvents, Hands, Pairing, Notifies, Unpaired, Working,
            EnqueueNeverClashes
<1>1. CASE /\ UNCHANGED <<events, flagged, outbox, hand, todo, enabled, unpaired>>
           /\ up' = up \/ Working
           /\ up' = up \/ up' = "running"
  BY <1>1
<1>2. ASSUME NEW s \in Symbols, MarketMoves(s) PROVE Goal
  BY <1>1, <1>2 DEF MarketMoves, tables, process
<1>3. CASE DiscoveryStarts \/ FetchSpot \/ FetchTrading \/ FetchPreLaunch
  BY <1>1, <1>3 DEF DiscoveryStarts, FetchSpot, FetchTrading, FetchPreLaunch, Fetch, tables,
                    history
<1>4. CASE Upsert \/ MarkRemoved
  BY <1>1, <1>4 DEF Upsert, MarkRemoved
<1>5. CASE DiscoveryEnds
  BY <1>1, <1>5 DEF DiscoveryEnds, tables, history, Phases
<1>6. CASE AnnouncementsArrive
  BY <1>1, <1>6 DEF AnnouncementsArrive, tables, history
<1>7. CASE RestFails
  BY <1>1, <1>7 DEF RestFails, tables, history, Phases
<1>8. ASSUME NEW p \in Producers, Record(p) PROVE Goal
  <2>1. PICK k \in found[p] :
           /\ events' = events \union {k}
           /\ hand' = [hand EXCEPT ![p] =
                         IF k \notin events /\ Notifies(k) THEN k ELSE None]
    BY <1>8 DEF Record
  <2>2. k \in Keys /\ k # None /\ hand[p] = None
    BY <1>8, <2>1, ListingAssumption DEF Record, TypeOK
  <2>3. UNCHANGED <<flagged, outbox, todo, enabled, unpaired, up>>
    BY <1>8 DEF Record, bounds, history
  <2>4. Working
    BY <2>1 DEF Phases
  <2>5. /\ \A q \in Producers \ {p} : hand'[q] = hand[q]
        /\ hand'[p] = IF k \notin events /\ Notifies(k) THEN k ELSE None
    BY <2>1 DEF TypeOK
  <2>6. OutboxFollowsEvents'
    BY <2>1, <2>3
  <2>7. Hands'
    BY <2>1, <2>2, <2>3, <2>5
  <2>8. ASSUME enabled, NEW j \in Keys, Unpaired(j)'
        PROVE  j \in unpaired \/ \E q \in Producers : hand'[q] = j
    <3>1. CASE j \in events
      <4>1. j \in unpaired \/ \E q \in Producers : hand[q] = j
        BY <2>3, <2>4, <2>8, <3>1
      <4> QED
        BY <2>2, <2>5, <4>1, ListingAssumption
    <3>2. CASE j \notin events
      BY <2>1, <2>5, <2>8, <3>2
    <3> QED
      BY <3>1, <3>2
  <2>9. Pairing'
    <3>1. \A j \in todo' : j \in events' /\ j[2] # "delisted"
      BY <2>1, <2>3
    <3>2. up' # "reconcile"
      BY <2>3, <2>4
    <3> QED
      BY <2>3, <2>8, <3>1, <3>2
  <2> QED
    BY <2>6, <2>7, <2>9
<1>9. ASSUME NEW p \in Producers, Enqueue(p) PROVE Goal
  <2>1. /\ outbox' = [outbox EXCEPT ![hand[p]] = "queued"] /\ hand[p] # None
        /\ hand' = [hand EXCEPT ![p] = None]
        /\ UNCHANGED <<events, flagged, todo, enabled, unpaired, up>>
    BY <1>9 DEF Enqueue, bounds, history
  <2>2. hand[p] \in Keys /\ Working
    BY <2>1 DEF TypeOK, Phases
  <2>3. OutboxFollowsEvents'
    BY <2>1, <2>2 DEF TypeOK
  <2>4. Hands' /\ Pairing'
    BY <2>1, <2>2 DEF TypeOK
  <2> QED
    BY <2>3, <2>4
<1>10. ASSUME NEW k \in Keys, Settle(k) PROVE Goal
  BY <1>10 DEF Settle, process, history, TypeOK
<1>11. CASE Boot
  BY <1>11 DEF Boot, tables, history, TypeOK, Phases
<1>12. ASSUME NEW k \in Keys, ReconcileOne(k) PROVE Goal
  BY <1>12 DEF ReconcileOne, history, TypeOK, Phases
<1>13. CASE ReconcileEnds
  BY <1>13 DEF ReconcileEnds, tables, Phases
<1>14. ASSUME NEW S \in SUBSET Producers, Abandon(S), UNCHANGED <<tables, enabled>>,
              (up' = up /\ todo' = todo) \/ (up' = "down" /\ todo' = {})
       PROVE  Goal
  <2>1. /\ hand' = [p \in Producers |-> IF p \in S THEN None ELSE hand[p]]
        /\ unpaired' = unpaired \union {hand[p] : p \in {q \in S : hand[q] # None}}
    BY <1>14 DEF Abandon
  <2>2. OutboxFollowsEvents' /\ Hands'
    BY <1>14, <2>1 DEF tables
  <2>3. Pairing'
    BY <1>14, <2>1, ListingAssumption DEF tables
  <2> QED
    BY <2>2, <2>3
<1>15. CASE DiscoveryFails
  <2>1. /\ Abandon({"discovery"}) /\ UNCHANGED <<tables, enabled>>
        /\ up' = up /\ todo' = todo
    BY <1>15 DEF DiscoveryFails
  <2> QED
    BY <1>14, <2>1 DEF Producers
<1>16. CASE AnnouncementsFail
  <2>1. /\ Abandon({"announcements"}) /\ UNCHANGED <<tables, enabled>>
        /\ up' = up /\ todo' = todo
    BY <1>16 DEF AnnouncementsFail
  <2> QED
    BY <1>14, <2>1 DEF Producers
<1>17. CASE Crash
  BY <1>14, <1>17 DEF Crash
<1> QED
  BY <1>2, <1>3, <1>4, <1>5, <1>6, <1>7, <1>8, <1>9, <1>10, <1>11, <1>12, <1>13, <1>15,
     <1>16, <1>17
     DEF Next, Discovery, Produce, Startup

\* Upsert is where events are detected and the registry learns of its symbols.
LEMMA LaunchUpsert ==
    ASSUME TypeOK, Phases, Launches, Upsert
    PROVE  Launches'
<1> USE DEF TypeOK, Launches
<1>1. /\ disc = "fetched" /\ found["discovery"] = {}
      /\ first_run' = (\A s \in Symbols : registry[s] = "absent")
      /\ found' = [found EXCEPT !["discovery"] = IF first_run' THEN {} ELSE Detected]
      /\ registry' = [s \in Symbols |-> IF fetched[s] = "none" THEN registry[s]
                                        ELSE fetched[s]]
      /\ seeded' = IF first_run' THEN fetched ELSE seeded
      /\ UNCHANGED <<market, events, fetched, left, cut>>
  BY DEF Upsert, Phases
<1>2. /\ found'["discovery"] = IF first_run' THEN {} ELSE Detected
      /\ found'["announcements"] = found["announcements"]
  BY <1>1 DEF Producers
<1>3. ASSUME NEW s \in Symbols
      PROVE  /\ <<s, "prelaunch">> \in Detected <=>
                    registry[s] = "absent" /\ fetched[s] = "PreLaunch"
             /\ <<s, "trading">> \in Detected <=>
                    registry[s] \in {"absent", "PreLaunch"} /\ fetched[s] = "Trading"
  BY DEF Detected
<1> HIDE DEF Detected
<1>4. ASSUME NEW s \in Symbols
      PROVE  Known(s)' /\ Forward(s)' /\ Seed(s)'
  <2>1. /\ registry'[s] = (IF fetched[s] = "none" THEN registry[s] ELSE fetched[s])
        /\ Known(s) /\ Forward(s) /\ Seed(s)
        /\ fetched[s] \in {"none", "PreLaunch", "Trading"}
    BY <1>1
  <2>2. CASE first_run'
    <3>1. registry[s] = "absent" /\ seeded'[s] = fetched[s] /\ found'["discovery"] = {}
      BY <1>1, <1>2, <2>2
    <3> QED
      BY <1>1, <2>1, <3>1 DEF Known, Forward, Seed
  <2>3. CASE ~ first_run'
    <3>1. seeded' = seeded /\ found'["discovery"] = Detected
      BY <1>1, <1>2, <2>3
    <3> QED
      BY <1>1, <1>3, <2>1, <3>1 DEF Known, Forward, Seed
  <2> QED
    BY <2>2, <2>3
<1> QED
  BY <1>1, <1>2, <1>4

LEMMA LaunchStep ==
    ASSUME TypeOK, Phases, Launches, Next
    PROVE  Launches'
<1> USE DEF TypeOK, Launches, Known, Forward, Seed
<1>1. CASE UNCHANGED <<market, registry, events, fetched, found, seeded, left, cut>>
  BY <1>1
<1>2. ASSUME NEW s \in Symbols, MarketMoves(s) PROVE Launches'
  <2>1. PICK x \in {"PreLaunch", "Trading", "delisted"} :
           <<market[s], x>> \in Steps /\ market' = [market EXCEPT ![s] = x]
    BY <1>2 DEF MarketMoves
  <2>2. UNCHANGED <<registry, events, fetched, found, seeded, left, cut>>
    BY <1>2 DEF MarketMoves, tables, process
  <2>3. \A y \in Symbols : /\ market[y] # "none" => market'[y] # "none"
                           /\ market[y] \in {"Trading", "delisted"} =>
                                 market'[y] \in {"Trading", "delisted"}
    BY <2>1 DEF Steps
  <2> QED
    BY <2>2, <2>3
<1>3. CASE DiscoveryStarts
  BY <1>3 DEF DiscoveryStarts, tables, history, Nothing
<1>4. ASSUME NEW from, NEW to, NEW S, Fetch(from, to, S),
             \A s \in S : market[s] \in {"PreLaunch", "Trading"}
      PROVE  Launches'
  BY <1>4 DEF Fetch, tables, history
<1>5. CASE FetchSpot \/ FetchTrading \/ FetchPreLaunch
  BY <1>4, <1>5 DEF FetchSpot, FetchTrading, FetchPreLaunch
<1>6. CASE Upsert
  BY <1>6, LaunchUpsert
<1>7. CASE MarkRemoved
  BY <1>7 DEF MarkRemoved, Missing
<1>8. CASE DiscoveryEnds
  BY <1>1, <1>8 DEF DiscoveryEnds, tables, history
<1>9. CASE AnnouncementsArrive
  <2>1. PICK S \in SUBSET Announced :
           found' = [found EXCEPT !["announcements"] = {<<s, "announced">> : s \in S}]
    BY <1>9 DEF AnnouncementsArrive
  <2>2. /\ found'["discovery"] = found["discovery"]
        /\ \A k \in found'["announcements"] : k[2] = "announced"
    BY <2>1 DEF Producers
  <2>3. UNCHANGED <<market, registry, events, fetched, seeded, left, cut>>
    BY <1>9 DEF AnnouncementsArrive, tables, history
  <2> QED
    BY <2>2, <2>3
<1>10. ASSUME NEW p \in Producers, Record(p) PROVE Launches'
  <2>1. PICK k \in found[p] :
           found' = [found EXCEPT ![p] = @ \ {k}] /\ events' = events \union {k}
    BY <1>10 DEF Record
  <2>2. UNCHANGED <<market, registry, fetched, seeded, left, cut>>
    BY <1>10 DEF Record, history
  <2>3. CASE p = "discovery"
    <3>1. /\ found'["announcements"] = found["announcements"]
          /\ events' \union found'["discovery"] = events \union found["discovery"]
      BY <2>1, <2>3 DEF Producers
    <3> QED
      BY <2>2, <3>1
  <2>4. CASE p = "announcements"
    <3>1. /\ found'["discovery"] = found["discovery"] /\ k[2] = "announced"
          /\ found'["announcements"] \subseteq found["announcements"]
      BY <2>1, <2>4 DEF Producers
    <3>2. \A s, e : e # "announced" => <<s, e>> # k
      BY <3>1
    <3> QED
      BY <2>1, <2>2, <3>1, <3>2
  <2> QED
    BY <2>3, <2>4 DEF Producers
<1>11. ASSUME NEW p \in Producers, Enqueue(p) PROVE Launches'
  BY <1>1, <1>11 DEF Enqueue, history
<1>12. ASSUME NEW k \in Keys, Settle(k) PROVE Launches'
  BY <1>1, <1>12 DEF Settle, process, history
<1>13. CASE Boot
  BY <1>1, <1>13 DEF Boot, tables, history
<1>14. ASSUME NEW k \in Keys, ReconcileOne(k) PROVE Launches'
  BY <1>1, <1>14 DEF ReconcileOne, history
<1>15. CASE ReconcileEnds
  BY <1>1, <1>15 DEF ReconcileEnds, tables
<1>16. CASE RestFails
  BY <1>1, <1>16 DEF RestFails, tables, history
<1>17. ASSUME NEW S \in SUBSET Producers, Abandon(S),
              UNCHANGED <<market, tables, fetched, seeded, left>>
       PROVE  Launches'
  <2>1. /\ found' = [p \in Producers |-> IF p \in S THEN {} ELSE found[p]]
        /\ cut' = cut \union UNION {found[p] : p \in S}
    BY <1>17 DEF Abandon
  <2>2. /\ found'["announcements"] \subseteq found["announcements"]
        /\ found'["discovery"] \subseteq found["discovery"]
        /\ found["discovery"] \subseteq cut' \union found'["discovery"] /\ cut \subseteq cut'
    BY <2>1 DEF Producers
  <2> QED
    BY <1>17, <2>2 DEF tables
<1>18. CASE DiscoveryFails
  BY <1>17, <1>18 DEF DiscoveryFails, Producers
<1>19. CASE AnnouncementsFail
  BY <1>17, <1>19 DEF AnnouncementsFail, Producers
<1>20. CASE Crash
  BY <1>17, <1>20 DEF Crash
<1> QED
  BY <1>2, <1>3, <1>5, <1>6, <1>7, <1>8, <1>9, <1>10, <1>11, <1>12, <1>13, <1>14, <1>15,
     <1>16, <1>18, <1>19, <1>20 DEF Next, Discovery, Produce, Startup

LEMMA InvAlways == Spec => []Inv
<1>1. Inv /\ [Next]_vars => Inv'
  <2> SUFFICES ASSUME Inv, [Next]_vars PROVE Inv'
    OBVIOUS
  <2>1. CASE Next
    BY <2>1, TypeStep, PhasesStep, PairStep, LaunchStep DEF Inv
  <2>2. CASE UNCHANGED vars
    <3>1. UNCHANGED <<market, tables, process, history>>
      BY <2>2 DEF vars
    <3>2. TypeOK' /\ Phases' /\ OutboxFollowsEvents'
      BY <3>1 DEF tables, process, history, Inv, TypeOK, Phases, OutboxFollowsEvents, Working
    <3>3. Hands' /\ Pairing'
      BY <3>1 DEF tables, process, history, Inv, Hands, EnqueueNeverClashes, Pairing, Working,
                  Unpaired, Notifies
    <3>4. Launches'
      BY <3>1 DEF tables, process, history, Inv, Launches, Known, Forward, Seed
    <3> QED
      BY <3>2, <3>3, <3>4 DEF Inv
  <2> QED
    BY <2>1, <2>2
<1> QED
  BY InvInit, <1>1, PTL DEF Spec

\* The types of the tables and of what discovery, the announcements and the
\* startup reconciliation have under way.
THEOREM ListingTypes == Spec => []TypeOK
<1>1. Inv => TypeOK
  BY DEF Inv
<1> QED
  BY InvAlways, <1>1, PTL

\* listing.py _notify and reconcile_unsent: a listing message is queued only for a
\* recorded event that is announced, and telegram_sent is set only when it was sent.
THEOREM OutboxIsFaithful == Spec => []OutboxFollowsEvents
<1>1. Inv => OutboxFollowsEvents
  BY DEF Inv
<1> QED
  BY InvAlways, <1>1, PTL

\* listing.py: whatever fails and wherever the process dies between recording an
\* event and queueing its message, no message is queued twice, and after startup
\* only the events of a producer that failed since are without one.
THEOREM EventsHaveTheirRow == Spec => []EventsArePaired
<1>1. ASSUME Inv PROVE EventsArePaired
  <2>1. events \subseteq Keys
    BY <1>1 DEF Inv, TypeOK
  <2> QED
    BY <1>1, <2>1 DEF Inv, Hands, Pairing, Working, Unpaired, EventsArePaired
<1> QED
  BY InvAlways, <1>1, PTL

\* discovery.py discover_once: the first run announces nothing, and between rounds
\* each symbol that trades since has its event, unless the round that saw it was cut
\* off or it went missing from the API before.
THEOREM LaunchesAreSeen == Spec => []LaunchesAreRecorded
<1>1. ASSUME Inv PROVE LaunchesAreRecorded
  <2>1. SeedIsSilent
    BY <1>1 DEF Inv, Launches, Seed, SeedIsSilent
  <2>2. disc = "idle" => found["discovery"] = {}
    BY <1>1 DEF Inv, Phases
  <2>3. \A s \in Symbols : Seed(s)
    BY <1>1 DEF Inv, Launches
  <2> QED
    BY <2>1, <2>2, <2>3 DEF LaunchesAreRecorded, Seed
<1> QED
  BY InvAlways, <1>1, PTL

\* listing.py reconcile_unsent, "restarts never resend": no producer and no startup
\* puts a message back that was sent or given up.
THEOREM RestartsNeverResend == Spec => NeverResent
<1>1. ASSUME Inv, [Next]_vars
      PROVE  [\A k \in Keys : outbox[k] \in {"sent", "dead"} => outbox'[k] = outbox[k]]_vars
  <2> SUFFICES ASSUME Next, NEW k \in Keys, outbox[k] \in {"sent", "dead"}
               PROVE  outbox'[k] = outbox[k]
    BY <1>1
  <2> USE <1>1 DEF Inv, TypeOK
  <2>1. CASE outbox' = outbox
    BY <2>1
  <2>2. ASSUME NEW p \in Producers, Enqueue(p) PROVE outbox'[k] = outbox[k]
    BY <2>2 DEF Enqueue
  <2>3. ASSUME NEW j \in Keys, Settle(j) PROVE outbox'[k] = outbox[k]
    BY <2>3 DEF Settle
  <2>4. ASSUME NEW j \in Keys, ReconcileOne(j) PROVE outbox'[k] = outbox[k]
    BY <2>4 DEF ReconcileOne
  <2>5. ASSUME NEW p \in Producers, Record(p) PROVE outbox' = outbox
    BY <2>5 DEF Record
  <2>6. CASE Discovery
    BY <2>6 DEF Discovery, DiscoveryStarts, FetchSpot, FetchTrading, FetchPreLaunch, Fetch,
                Upsert, MarkRemoved, DiscoveryEnds, tables
  <2>7. CASE \/ \E s \in Symbols : MarketMoves(s)
             \/ AnnouncementsArrive \/ Boot \/ ReconcileEnds
    BY <2>7 DEF MarketMoves, AnnouncementsArrive, Boot, ReconcileEnds, tables
  <2>8. CASE RestFails \/ DiscoveryFails \/ AnnouncementsFail \/ Crash
    BY <2>8 DEF RestFails, DiscoveryFails, AnnouncementsFail, Crash, tables
  <2> QED
    BY <2>1, <2>2, <2>3, <2>4, <2>5, <2>6, <2>7, <2>8 DEF Next, Produce, Startup
<1> QED
  BY InvAlways, <1>1, PTL DEF Spec, NeverResent
===============================================================================
