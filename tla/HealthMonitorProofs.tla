-------------------------- MODULE HealthMonitorProofs --------------------------
(***************************************************************************)
(* For any dimensions and any grace, interval and heartbeat threshold: no  *)
(* alarm before the grace window is over, none missed after it.            *)
(***************************************************************************)
EXTENDS HealthMonitor, TLAPS

\* A window is no longer than the dimension has not been found good.
Windows == \A d \in Critical : since[d] # None => since[d] <= notGood[d]

\* A verdict not yet written is there, and for a reason.
Reasons ==
    pc = "persist" =>
        /\ verdict # None
        /\ verdict = "unhealthy" /\ database =>
               \E d \in Critical : since[d] # None /\ since[d] >= Grace

\* Only what is bad, with process and connection up, has been bad for some time.
Troubles ==
    \A d \in Critical : ~ BadNow(d) \/ ~ conn => trouble[d] = 0

\* No trouble is older than its window by more than an interval; one without a
\* window began after the last pass.
Watched ==
    running => \A d \in Critical :
        /\ since[d] = None => /\ trouble[d] + timer <= Interval
                              /\ pc = "persist" => trouble[d] = 0
        /\ since[d] # None => since[d] >= Grace \/ trouble[d] <= since[d] + Interval

\* What had been bad for grace and one interval at the last pass is in the verdict
\* of that pass, and then in the row.
Reported ==
    running => \A d \in Critical :
        /\ pc = "persist" /\ trouble[d] >= Grace + Interval => verdict = "unhealthy"
        /\ trouble[d] + timer >= Notice => row # None /\ row.overall = "unhealthy"

\* While nothing can be written the row gets as old as the silence.
Silence ==
    /\ running /\ conn => silent = 0
    /\ row # None => row.age >= silent

Inv == TypeOK /\ Windows /\ Reasons /\ Troubles /\ Watched /\ Reported /\ Silence

--------------------------------------------------------------------------------
LEMMA Numbers ==
    /\ Fresh \in Nat /\ Grace \in Nat \ {0} /\ Interval \in Nat \ {0} /\ Stale \in Nat \ {0}
    /\ MaxConnFaults \in Nat /\ MaxRestarts \in Nat /\ None \notin Nat
    /\ Notice = Grace + 2 * Interval /\ AgeCap = Fresh + Grace
    /\ Streams \subseteq Critical /\ "dispatcher" \in Critical /\ "database" \in Critical
    /\ "dispatcher" \notin Streams /\ "database" \notin Streams
  BY HealthAssumption DEF Notice, AgeCap

LEMMA NoRow == None \notin [overall : Verdicts, age : 0 .. Stale + 1]
<1>1. 0 .. Stale + 1 \subseteq Nat
  BY Numbers
<1>2. [overall : Verdicts, age : 0 .. Stale + 1] \subseteq [overall : Verdicts, age : Nat]
  BY <1>1
<1> QED
  BY <1>2, HealthAssumption

\* An age grows by one up to its cap.
LEMMA OlderAge ==
    ASSUME NEW cap \in Nat
    PROVE  /\ Older(None, cap) = None
           /\ \A a \in 0 .. cap : Older(a, cap) = IF a < cap THEN a + 1 ELSE cap
<1>1. Older(None, cap) = None
  BY DEF Older
<1>2. ASSUME NEW a \in 0 .. cap
      PROVE  Older(a, cap) = IF a < cap THEN a + 1 ELSE cap
  <2>1. Older(a, cap) = Min({a + 1, cap})
    BY Numbers DEF Older
  <2>2. \E x \in {a + 1, cap} : \A y \in {a + 1, cap} : x <= y
    OBVIOUS
  <2>3. /\ Min({a + 1, cap}) \in {a + 1, cap}
        /\ \A y \in {a + 1, cap} : Min({a + 1, cap}) <= y
    BY <2>2 DEF Min
  <2> QED
    BY <2>1, <2>3
<1> QED
  BY <1>1, <1>2

LEMMA InvInit == Init => Inv
<1> SUFFICES ASSUME Init PROVE Inv
  OBVIOUS
<1> USE Numbers DEF Init
<1>1. TypeOK
  <2>1. 0 \in 0 .. Grace /\ 0 \in 0 .. Notice /\ 0 \in 0 .. Interval /\ 0 \in 0 .. Stale + 1
        /\ 0 \in 0 .. MaxConnFaults /\ 0 \in 0 .. MaxRestarts
    OBVIOUS
  <2> QED
    BY <2>1 DEF TypeOK, Verdicts
<1>2. Windows /\ Reasons /\ Troubles /\ Watched /\ Reported /\ Silence
  BY DEF Windows, Reasons, Troubles, Watched, Reported, Silence
<1> QED
  BY <1>1, <1>2 DEF Inv

\* What happens to the subsystems: no window, verdict or row changes, and a
\* trouble stays as long as it was or is over.
LEMMA WorldStep ==
    ASSUME Inv, UNCHANGED <<monitor, row, notGood>>, running' = running \/ ~ running',
           trouble' \in [Critical -> 0 .. Notice],
           \A d \in Critical : trouble'[d] \in {0, trouble[d]}
    PROVE  Windows' /\ Reasons' /\ Watched' /\ Reported'
<1> USE Numbers DEF Inv, TypeOK, monitor
<1>1. Windows' /\ Reasons'
  BY DEF Windows, Reasons
<1>2. ASSUME running', NEW d \in Critical
      PROVE  /\ trouble'[d] \in 0 .. Notice /\ timer \in 0 .. Interval
             /\ trouble'[d] <= trouble[d] /\ trouble[d] \in 0 .. Notice
             /\ running /\ since' = since /\ timer' = timer /\ pc' = pc
             /\ (since[d] # None => since[d] \in 0 .. Grace)
  <2>1. /\ trouble'[d] \in 0 .. Notice /\ trouble[d] \in 0 .. Notice
        /\ trouble'[d] \in {0, trouble[d]} /\ timer \in 0 .. Interval
    BY <1>2
  <2>2. running /\ since' = since /\ timer' = timer /\ pc' = pc
        /\ (since[d] # None => since[d] \in 0 .. Grace)
    BY <1>2
  <2>3. trouble'[d] <= trouble[d]
    BY <2>1
  <2> QED
    BY <2>1, <2>2, <2>3
<1>3. Watched'
  <2> SUFFICES ASSUME running', NEW d \in Critical
               PROVE  /\ since'[d] = None => /\ trouble'[d] + timer' <= Interval
                                             /\ pc' = "persist" => trouble'[d] = 0
                      /\ since'[d] # None => \/ since'[d] >= Grace
                                             \/ trouble'[d] <= since'[d] + Interval
    BY DEF Watched
  <2>1. trouble'[d] \in 0 .. Notice
    BY <1>2
  <2> QED
    BY <1>2, <2>1 DEF Watched
<1>4. Reported'
  <2> SUFFICES ASSUME running', NEW d \in Critical
               PROVE  /\ pc' = "persist" /\ trouble'[d] >= Grace + Interval =>
                             verdict' = "unhealthy"
                      /\ trouble'[d] + timer' >= Notice =>
                              row' # None /\ row'.overall = "unhealthy"
    BY DEF Reported
  <2>1. trouble[d] >= trouble'[d] /\ trouble[d] + timer >= trouble'[d] + timer'
    BY <1>2
  <2> QED
    BY <1>2, <2>1 DEF Reported
<1> QED
  BY <1>1, <1>3, <1>4

LEMMA EnvironmentStep ==
    ASSUME Inv, Environment
    PROVE  Inv'
<1> USE Numbers DEF Inv, TypeOK, Troubles, Silence, BadNow, Acceptable
<1>1. ASSUME NEW d \in Streams, Succeeds(d) PROVE Inv'
  <2>1. /\ age' = [age EXCEPT ![d] = 0] /\ trouble' = [trouble EXCEPT ![d] = 0]
        /\ UNCHANGED <<running, conn, worker, degraded, connFaults, restarts, monitor, row,
                       notGood, silent>>
    BY <1>1 DEF Succeeds
  <2>2. TypeOK'
    BY <2>1 DEF monitor
  <2>3. Troubles' /\ Silence'
    BY <2>1
  <2>4. Windows' /\ Reasons' /\ Watched' /\ Reported'
    BY <2>1, <2>2, WorldStep
  <2> QED
    BY <2>2, <2>3, <2>4
<1>2. CASE WorkerTurns
  <2>1. /\ trouble' = [trouble EXCEPT !["dispatcher"] = 0] /\ worker' = ~ worker
        /\ UNCHANGED <<running, conn, degraded, age, connFaults, restarts, monitor, row,
                       notGood, silent>>
    BY <1>2 DEF WorkerTurns
  <2>2. TypeOK'
    BY <2>1 DEF monitor
  <2>3. Troubles' /\ Silence'
    BY <2>1
  <2>4. Windows' /\ Reasons' /\ Watched' /\ Reported'
    BY <2>1, <2>2, WorldStep
  <2> QED
    BY <2>2, <2>3, <2>4
<1>3. CASE DegradationTurns
  <2>1. /\ UNCHANGED <<running, conn, worker, age, connFaults, restarts, monitor, row, history>>
        /\ degraded' = ~ degraded
    BY <1>3 DEF DegradationTurns
  <2>2. TypeOK' /\ Troubles' /\ Silence'
    BY <2>1 DEF monitor, history
  <2>3. Windows' /\ Reasons' /\ Watched' /\ Reported'
    BY <2>1, <2>2, WorldStep DEF history
  <2> QED
    BY <2>2, <2>3
<1>4. CASE ConnectionFails
  <2>1. /\ trouble' = [d \in Critical |-> 0] /\ conn' = FALSE /\ connFaults' = connFaults + 1
        /\ connFaults < MaxConnFaults
        /\ UNCHANGED <<running, worker, degraded, age, restarts, monitor, row, notGood, silent>>
    BY <1>4 DEF ConnectionFails
  <2>2. connFaults' \in 0 .. MaxConnFaults /\ 0 \in 0 .. Notice
    BY <2>1
  <2>3. TypeOK'
    BY <2>1, <2>2 DEF monitor
  <2>4. Troubles' /\ Silence'
    BY <2>1
  <2>5. Windows' /\ Reasons' /\ Watched' /\ Reported'
    BY <2>1, <2>3, WorldStep
  <2> QED
    BY <2>3, <2>4, <2>5
<1>5. CASE ConnectionHeals
  <2>1. /\ trouble' = [d \in Critical |-> 0] /\ conn' = TRUE /\ silent' = 0
        /\ UNCHANGED <<running, worker, degraded, age, connFaults, restarts, monitor, row,
                       notGood>>
    BY <1>5 DEF ConnectionHeals
  <2>2. TypeOK' /\ Troubles'
    BY <2>1 DEF monitor
  <2>3. Silence'
    BY <2>1
  <2>4. Windows' /\ Reasons' /\ Watched' /\ Reported'
    BY <2>1, <2>2, WorldStep
  <2> QED
    BY <2>2, <2>3, <2>4
<1>6. CASE Dies
  <2>1. /\ running' = FALSE /\ restarts < MaxRestarts /\ restarts' = restarts + 1
        /\ UNCHANGED <<conn, worker, degraded, age, connFaults, monitor, row, history>>
    BY <1>6 DEF Dies
  <2>2. restarts' \in 0 .. MaxRestarts
    BY <2>1
  <2>3. TypeOK'
    BY <2>1, <2>2 DEF monitor, history
  <2>4. Troubles' /\ Silence'
    BY <2>1 DEF history
  <2>5. Windows' /\ Reasons' /\ Watched' /\ Reported'
    BY <2>1, <2>3, WorldStep DEF history
  <2> QED
    BY <2>3, <2>4, <2>5
<1> QED
  BY <1>1, <1>2, <1>3, <1>4, <1>5, <1>6 DEF Environment

LEMMA StartsStep ==
    ASSUME Inv, Starts
    PROVE  Inv'
<1> USE Numbers DEF Inv, TypeOK, Starts, Boot
<1>1. 0 \in 0 .. Grace /\ 0 \in 0 .. Notice /\ 0 \in 0 .. Interval /\ 0 \in 0 .. Stale + 1
  OBVIOUS
<1>2. TypeOK'
  BY <1>1
<1>3. Windows' /\ Reasons' /\ Troubles'
  BY DEF Windows, Reasons, Troubles
<1>4. Watched' /\ Reported'
  BY DEF Watched, Reported
<1>5. Silence'
  BY DEF Silence
<1> QED
  BY <1>2, <1>3, <1>4, <1>5

\* A unit of time passes.
LEMMA TickStep ==
    ASSUME Inv, Tick
    PROVE  Inv'
<1> USE Numbers
<1> DEFINE Aged(a, b, cap) == IF a = None THEN b = None
                              ELSE /\ a \in 0 .. cap /\ b \in 0 .. cap /\ a <= b
                                   /\ b = (IF a < cap THEN a + 1 ELSE cap)
<1>1. /\ running => pc = "wait" /\ timer > 0
      /\ timer' = IF running THEN timer - 1 ELSE timer
      /\ UNCHANGED <<running, conn, worker, degraded, connFaults, restarts, pc, database,
                     verdict>>
  BY DEF Tick
<1>2. ASSUME NEW cap \in Nat, NEW a \in 0 .. cap \union {None}
      PROVE  Aged(a, Older(a, cap), cap)
  BY OlderAge
<1>3. /\ age' \in [Streams -> 0 .. AgeCap \union {None}]
      /\ \A d \in Streams : Aged(age[d], age'[d], AgeCap)
  <2>1. age' = [d \in Streams |-> Older(age[d], AgeCap)] /\ AgeCap \in Nat
        /\ \A d \in Streams : age[d] \in 0 .. AgeCap \union {None}
    BY DEF Tick, Inv, TypeOK
  <2>2. \A d \in Streams : Aged(age[d], age'[d], AgeCap)
    BY <1>2, <2>1
  <2> QED
    BY <2>1, <2>2
<1>4. /\ since' \in [Critical -> 0 .. Grace \union {None}]
      /\ \A d \in Critical : Aged(since[d], since'[d], Grace)
  <2>1. since' = [d \in Critical |-> Older(since[d], Grace)]
        /\ \A d \in Critical : since[d] \in 0 .. Grace \union {None}
    BY DEF Tick, Inv, TypeOK
  <2>2. \A d \in Critical : Aged(since[d], since'[d], Grace)
    BY <1>2, <2>1
  <2> QED
    BY <2>1, <2>2
<1>5. /\ notGood' \in [Critical -> 0 .. Grace]
      /\ \A d \in Critical : Aged(notGood[d], notGood'[d], Grace)
  <2>1. notGood' = [d \in Critical |-> Older(notGood[d], Grace)]
        /\ \A d \in Critical : notGood[d] \in 0 .. Grace
    BY DEF Tick, Inv, TypeOK
  <2>2. \A d \in Critical : Aged(notGood[d], notGood'[d], Grace)
    BY <1>2, <2>1
  <2> QED
    BY <2>1, <2>2
<1>6. /\ trouble' \in [Critical -> 0 .. Notice]
      /\ \A d \in Critical : IF running /\ conn /\ BadNow(d)
                             THEN Aged(trouble[d], trouble'[d], Notice) ELSE trouble'[d] = 0
  <2>1. /\ trouble' = [d \in Critical |->
                         IF running /\ conn /\ BadNow(d) THEN Older(trouble[d], Notice) ELSE 0]
        /\ \A d \in Critical : trouble[d] \in 0 .. Notice
        /\ Notice \in Nat
    BY DEF Tick, Inv, TypeOK
  <2>2. \A d \in Critical : IF running /\ conn /\ BadNow(d)
                            THEN Aged(trouble[d], trouble'[d], Notice) ELSE trouble'[d] = 0
    BY <1>2, <2>1
  <2> QED
    BY <2>1, <2>2
<1>7. /\ silent' \in 0 .. Stale + 1
      /\ IF running /\ conn THEN silent' = 0 ELSE Aged(silent, silent', Stale + 1)
  <2>1. silent' = (IF running /\ conn THEN 0 ELSE Older(silent, Stale + 1))
        /\ silent \in 0 .. Stale + 1 /\ Stale + 1 \in Nat
    BY DEF Tick, Inv, TypeOK
  <2>2. Aged(silent, Older(silent, Stale + 1), Stale + 1)
    BY <1>2, <2>1
  <2> QED
    BY <2>1, <2>2
<1>8. IF row = None THEN row' = None
      ELSE /\ row' \in [overall : Verdicts, age : 0 .. Stale + 1]
           /\ row'.overall = row.overall /\ Aged(row.age, row'.age, Stale + 1)
           /\ row' # None
  <2>1. row' = (IF row = None THEN None ELSE [row EXCEPT !.age = Older(@, Stale + 1)])
        /\ row \in [overall : Verdicts, age : 0 .. Stale + 1] \union {None}
        /\ Stale + 1 \in Nat
    BY DEF Tick, Inv, TypeOK
  <2>2. CASE row # None
    <3>1. row \in [overall : Verdicts, age : 0 .. Stale + 1] /\ row.age \in 0 .. Stale + 1
      BY <2>1, <2>2
    <3>2. Aged(row.age, Older(row.age, Stale + 1), Stale + 1) /\ row.age # None
      BY <1>2, <2>1, <3>1
    <3>3. Older(row.age, Stale + 1) \in 0 .. Stale + 1
      BY <3>2
    <3>4. /\ row' \in [overall : Verdicts, age : 0 .. Stale + 1]
          /\ row'.overall = row.overall /\ row'.age = Older(row.age, Stale + 1)
      BY <2>1, <2>2, <3>1, <3>3
    <3> QED
      BY <2>2, <3>2, <3>4, NoRow
  <2> QED
    BY <2>1, <2>2
<1>9. TypeOK'
  <2>1. timer' \in 0 .. Interval /\ (pc' # "wait" => timer' = 0)
    BY <1>1 DEF Inv, TypeOK
  <2>2. pc' = "persist" => (since'["database"] = None <=> database')
    BY <1>1, <1>4 DEF Inv, TypeOK
  <2> HIDE DEF Aged
  <2>3. row' \in [overall : Verdicts, age : 0 .. Stale + 1] \union {None}
    BY <1>8
  <2> QED
    BY <1>1, <1>3, <1>4, <1>5, <1>6, <1>7, <2>1, <2>2, <2>3 DEF Inv, TypeOK
<1>10. Windows'
  BY <1>4, <1>5 DEF Inv, Windows
<1>11. Reasons'
  BY <1>1, <1>4 DEF Inv, Reasons
<1>12. Troubles'
  <2>1. ASSUME NEW d \in Critical, ~ BadNow(d)' PROVE ~ BadNow(d)
    BY <1>1, <1>3, <2>1 DEF BadNow, Acceptable
  <2> QED
    BY <1>1, <1>6, <2>1 DEF Troubles
<1>13. Watched'
  <2> SUFFICES ASSUME running', NEW d \in Critical
               PROVE  /\ since'[d] = None => /\ trouble'[d] + timer' <= Interval
                                             /\ pc' = "persist" => trouble'[d] = 0
                      /\ since'[d] # None => \/ since'[d] >= Grace
                                             \/ trouble'[d] <= since'[d] + Interval
    BY DEF Watched
  <2>1. /\ running /\ pc' = "wait" /\ timer' = timer - 1 /\ timer \in 1 .. Interval
        /\ trouble[d] \in 0 .. Notice /\ trouble'[d] \in 0 .. Notice
        /\ trouble'[d] <= trouble[d] + 1
    BY <1>1, <1>6 DEF Inv, TypeOK
  <2>2. CASE since[d] = None
    <3>1. since'[d] = None /\ trouble[d] + timer <= Interval
      BY <1>4, <2>1, <2>2 DEF Inv, Watched
    <3> QED
      BY <2>1, <3>1
  <2>3. CASE since[d] # None
    <3>1. /\ since[d] \in 0 .. Grace
          /\ since'[d] = (IF since[d] < Grace THEN since[d] + 1 ELSE Grace)
          /\ since[d] >= Grace \/ trouble[d] <= since[d] + Interval
      BY <1>4, <2>1, <2>3 DEF Inv, Watched
    <3> QED
      BY <2>1, <3>1
  <2> QED
    BY <2>2, <2>3
<1>14. Reported'
  <2> SUFFICES ASSUME running', NEW d \in Critical
               PROVE  trouble'[d] + timer' >= Notice => row' # None /\ row'.overall = "unhealthy"
    BY <1>1 DEF Reported
  <2>1. /\ running /\ timer' = timer - 1 /\ timer \in 1 .. Interval
        /\ trouble[d] \in 0 .. Notice /\ trouble'[d] <= trouble[d] + 1
    BY <1>1, <1>6 DEF Inv, TypeOK
  <2>2. trouble'[d] + timer' >= Notice => trouble[d] + timer >= Notice
    BY <1>6, <2>1
  <2> HIDE DEF Aged
  <2> QED
    BY <1>8, <2>1, <2>2 DEF Inv, Reported
<1>15. Silence'
  <2>1. row' # None => row # None /\ row.age \in 0 .. Stale + 1
                       /\ row'.age = IF row.age < Stale + 1 THEN row.age + 1 ELSE Stale + 1
    BY <1>8 DEF Inv, TypeOK
  <2>2. silent \in 0 .. Stale + 1
        /\ silent' = IF running /\ conn THEN 0
                     ELSE IF silent < Stale + 1 THEN silent + 1 ELSE Stale + 1
    BY <1>7 DEF Inv, TypeOK
  <2> QED
    BY <1>1, <2>1, <2>2 DEF Inv, Silence
<1> QED
  BY <1>9, <1>10, <1>11, <1>12, <1>13, <1>14, <1>15 DEF Inv

LEMMA CollectStep ==
    ASSUME Inv, Collect
    PROVE  Inv'
<1> USE Numbers
<1>1. /\ running /\ pc = "collect" /\ pc' = "persist" /\ conn /\ timer = 0
      /\ verdict' = (IF Persisted(Bad) # {} THEN "unhealthy"
                    ELSE IF Bad # {} \/ degraded THEN "degraded" ELSE "healthy")
      /\ UNCHANGED <<world, timer, database, row, trouble, silent>>
  BY DEF Collect, Inv, TypeOK
<1>2. /\ since' = [d \in Critical |-> IF d \notin Bad THEN None
                                     ELSE IF since[d] = None THEN 0 ELSE since[d]]
      /\ notGood' = [d \in Critical |-> IF d \in Bad THEN notGood[d] ELSE 0]
  BY DEF Collect, Tracked
<1>3. Bad \subseteq Critical
      /\ \A d \in Critical : d \in Bad <=> IF d = "database" THEN ~ database ELSE BadNow(d)
  BY DEF Bad
<1>4. TypeOK'
  <2>1. 0 \in 0 .. Grace
    OBVIOUS
  <2>2. since' \in [Critical -> 0 .. Grace \union {None}] /\ notGood' \in [Critical -> 0 .. Grace]
    BY <1>2, <2>1 DEF Inv, TypeOK
  <2>3. since'["database"] = None <=> database
    BY <1>2, <1>3 DEF Inv, TypeOK
  <2>4. verdict' \in Verdicts
    BY <1>1 DEF Verdicts
  <2> QED
    BY <1>1, <2>2, <2>3, <2>4 DEF Inv, TypeOK, world
<1>5. Windows'
  BY <1>2 DEF Inv, Windows, TypeOK
<1>6. \A d \in Critical : d \in Bad => since'[d] = IF since[d] = None THEN 0 ELSE since[d]
  BY <1>2
<1>7. Reasons'
  <2> SUFFICES ASSUME verdict' = "unhealthy", database
               PROVE  \E d \in Critical : since'[d] # None /\ since'[d] >= Grace
    <3>1. verdict' # None
      BY <1>1, HealthAssumption DEF Verdicts
    <3> QED
      BY <1>1, <3>1 DEF Reasons
  <2>1. PICK d \in Bad : d = "database" \/ Tracked(Bad)[d] >= Grace
    BY <1>1 DEF Persisted
  <2>2. d \in Critical /\ d # "database" /\ since'[d] >= Grace
    BY <1>3, <2>1 DEF Collect
  <2>3. since'[d] # None
    BY <1>6, <2>1, <2>2 DEF Inv, TypeOK
  <2> QED
    BY <2>2, <2>3
<1>8. Troubles'
  BY <1>1 DEF Inv, Troubles, BadNow, Acceptable, world
<1>9. ASSUME NEW d \in Critical
      PROVE  /\ trouble'[d] = trouble[d] /\ trouble[d] \in 0 .. Notice
             /\ (d \notin Bad => trouble[d] = 0)
             /\ (since[d] = None => trouble[d] <= Interval)
             /\ (since[d] # None => /\ since[d] \in 0 .. Grace
                                    /\ since[d] >= Grace \/ trouble[d] <= since[d] + Interval)
  <2>1. trouble'[d] = trouble[d] /\ trouble[d] \in 0 .. Notice
        /\ (since[d] # None => since[d] \in 0 .. Grace)
    BY <1>1 DEF Inv, TypeOK
  <2>2. d \notin Bad => trouble[d] = 0
    <3>1. d # "database" => (d \in Bad <=> BadNow(d))
      BY <1>3
    <3>2. d = "database" => ~ BadNow(d)
      BY <1>1 DEF BadNow
    <3> QED
      BY <3>1, <3>2 DEF Inv, Troubles
  <2>3. since[d] = None => trouble[d] <= Interval
    BY <1>1, <2>1 DEF Inv, Watched
  <2>4. since[d] # None => since[d] >= Grace \/ trouble[d] <= since[d] + Interval
    BY <1>1 DEF Inv, Watched
  <2> QED
    BY <2>1, <2>2, <2>3, <2>4
<1>10. Watched'
  <2> SUFFICES ASSUME NEW d \in Critical
               PROVE  /\ since'[d] = None => trouble'[d] + timer' <= Interval /\ trouble'[d] = 0
                      /\ since'[d] # None => \/ since'[d] >= Grace
                                             \/ trouble'[d] <= since'[d] + Interval
    BY DEF Watched
  <2>1. CASE d \notin Bad
    BY <1>1, <1>2, <1>9, <2>1
  <2>2. CASE d \in Bad
    BY <1>1, <1>6, <1>9, <2>2
  <2> QED
    BY <2>1, <2>2
<1>11. Reported'
  <2> SUFFICES ASSUME NEW d \in Critical
               PROVE  /\ trouble'[d] >= Grace + Interval => verdict' = "unhealthy"
                      /\ trouble'[d] + timer' >= Notice =>
                              row' # None /\ row'.overall = "unhealthy"
    BY DEF Reported
  <2>1. ASSUME trouble[d] >= Grace + Interval
        PROVE  d \in Bad /\ Tracked(Bad)[d] >= Grace
    <3>1. d \in Bad /\ since[d] # None /\ since[d] >= Grace
      BY <1>9, <2>1
    <3> QED
      BY <3>1 DEF Tracked
  <2>2. trouble[d] >= Grace + Interval => verdict' = "unhealthy"
    BY <1>1, <2>1 DEF Persisted
  <2>3. trouble[d] + timer >= Notice => row # None /\ row.overall = "unhealthy"
    BY <1>1 DEF Inv, Reported
  <2> QED
    BY <1>1, <1>9, <2>2, <2>3
<1>12. Silence'
  BY <1>1 DEF Inv, Silence, world
<1> QED
  BY <1>4, <1>5, <1>7, <1>8, <1>10, <1>11, <1>12 DEF Inv

LEMMA PersistStep ==
    ASSUME Inv, Persist
    PROVE  Inv'
<1> USE Numbers
<1>1. /\ running /\ pc = "persist" /\ pc' = "wait" /\ conn /\ timer = 0 /\ timer' = Interval
      /\ row' = [overall |-> verdict, age |-> 0] /\ verdict \in Verdicts
      /\ UNCHANGED <<world, database, since, verdict, history>>
  BY DEF Persist, Inv, TypeOK, Reasons
<1>2. row' \in [overall : Verdicts, age : 0 .. Stale + 1] /\ row' # None
      /\ row'.overall = verdict /\ row'.age = 0
  <2>1. 0 \in 0 .. Stale + 1
    OBVIOUS
  <2> QED
    BY <1>1, <2>1, NoRow
<1>3. TypeOK'
  BY <1>1, <1>2 DEF Inv, TypeOK, world, history
<1>4. Windows' /\ Reasons' /\ Troubles' /\ Silence'
  BY <1>1, <1>2 DEF Inv, Windows, Reasons, Troubles, BadNow, Acceptable, Silence, world, history
<1>5. ASSUME NEW d \in Critical
      PROVE  /\ trouble'[d] = trouble[d] /\ trouble[d] \in 0 .. Notice /\ since' = since
             /\ (trouble[d] >= Grace + Interval => verdict = "unhealthy")
             /\ (since[d] = None => trouble[d] = 0)
             /\ (since[d] # None => since[d] >= Grace \/ trouble[d] <= since[d] + Interval)
  BY <1>1 DEF Inv, TypeOK, Watched, Reported, history
<1>6. Watched'
  <2> SUFFICES ASSUME NEW d \in Critical
               PROVE  /\ since'[d] = None => trouble'[d] + timer' <= Interval
                      /\ since'[d] # None => \/ since'[d] >= Grace
                                             \/ trouble'[d] <= since'[d] + Interval
    BY <1>1 DEF Watched
  <2> QED
    BY <1>1, <1>5
<1>7. Reported'
  <2> SUFFICES ASSUME NEW d \in Critical
               PROVE  trouble'[d] + timer' >= Notice => row' # None /\ row'.overall = "unhealthy"
    BY <1>1 DEF Reported
  <2>1. trouble'[d] + timer' >= Notice => trouble[d] >= Grace + Interval
    BY <1>1, <1>5
  <2> QED
    BY <1>2, <1>5, <2>1
<1> QED
  BY <1>3, <1>4, <1>6, <1>7 DEF Inv

\* A pass begins, or ends because the connection is down: no trouble counts then.
LEMMA OtherPassStep ==
    ASSUME Inv, Probe \/ PassFails \/ Wakes
    PROVE  Inv'
<1> USE Numbers
<1>1. /\ running /\ UNCHANGED <<world, since, verdict, row, history>>
      /\ pc' # "persist" /\ pc' \in {"probe", "collect", "wait"} /\ database' \in BOOLEAN
      /\ timer' \in 0 .. Interval /\ (pc' # "wait" => timer' = 0)
      /\ (timer' = 0 /\ timer = 0) \/ ~ conn
  BY DEF Probe, PassFails, Wakes, Inv, TypeOK
<1>2. TypeOK'
  BY <1>1 DEF Inv, TypeOK, world, history
<1>3. Windows' /\ Reasons' /\ Troubles' /\ Silence'
  BY <1>1 DEF Inv, Windows, Reasons, Troubles, BadNow, Acceptable, Silence, world, history
<1>4. ASSUME NEW d \in Critical
      PROVE  /\ trouble'[d] = trouble[d] /\ trouble[d] \in 0 .. Notice /\ timer \in 0 .. Interval
             /\ (~ conn => trouble[d] = 0)
  BY <1>1 DEF Inv, TypeOK, Troubles, history
<1>5. Watched'
  <2> SUFFICES ASSUME NEW d \in Critical
               PROVE  /\ since'[d] = None => trouble'[d] + timer' <= Interval
                      /\ since'[d] # None => \/ since'[d] >= Grace
                                             \/ trouble'[d] <= since'[d] + Interval
    BY <1>1 DEF Watched
  <2>1. /\ since[d] = None => trouble[d] + timer <= Interval
        /\ since[d] # None => since[d] >= Grace \/ trouble[d] <= since[d] + Interval
    BY <1>1 DEF Inv, Watched
  <2> QED
    BY <1>1, <1>4, <2>1
<1>6. Reported'
  <2> SUFFICES ASSUME NEW d \in Critical
               PROVE  trouble'[d] + timer' >= Notice => row' # None /\ row'.overall = "unhealthy"
    BY <1>1 DEF Reported
  <2>1. trouble[d] + timer >= Notice => row # None /\ row.overall = "unhealthy"
    BY <1>1 DEF Inv, Reported
  <2>2. trouble'[d] + timer' >= Notice => trouble[d] + timer >= Notice
    BY <1>1, <1>4
  <2> QED
    BY <1>1, <2>1, <2>2
<1> QED
  BY <1>2, <1>3, <1>5, <1>6 DEF Inv

LEMMA InvAlways == Spec => []Inv
<1>1. ASSUME Inv, Next PROVE Inv'
  BY <1>1, TickStep, StartsStep, CollectStep, PersistStep, OtherPassStep, EnvironmentStep
     DEF Next, Pass
<1>2. ASSUME Inv, UNCHANGED vars PROVE Inv'
  BY <1>2 DEF vars, world, monitor, history, Inv, TypeOK, Windows, Reasons, Troubles, BadNow,
              Acceptable, Watched, Reported, Silence
<1>3. Inv /\ [Next]_vars => Inv'
  BY <1>1, <1>2
<1> QED
  BY InvInit, <1>3, PTL DEF Spec

\* The types of the monitor's state and of the row it leaves for the container.
THEOREM HealthTypes == Spec => []TypeOK
<1>1. Inv => TypeOK
  BY DEF Inv
<1> QED
  BY InvAlways, <1>1, PTL

\* monitor.py:202-206: outages shorter than the grace window never add up to an
\* unhealthy verdict, however the dimensions take turns.
THEOREM GraceIsRespected == Spec => []GraceRespected
<1>1. ASSUME Inv PROVE GraceRespected
  <2> SUFFICES ASSUME pc = "persist", verdict = "unhealthy", database
               PROVE  \E d \in Critical : notGood[d] >= Grace
    BY DEF GraceRespected
  <2>1. PICK d \in Critical : since[d] # None /\ since[d] >= Grace
    BY <1>1 DEF Inv, Reasons
  <2>2. since[d] <= notGood[d] /\ since[d] \in 0 .. Grace /\ notGood[d] \in 0 .. Grace
    BY <1>1, <2>1 DEF Inv, Windows, TypeOK
  <2> QED
    BY <2>1, <2>2, Numbers
<1> QED
  BY InvAlways, <1>1, PTL

\* monitor.py and container_healthcheck.py:64-78: an outage of grace plus two passes
\* fails the container's check, and so does a monitor that has gone silent.
THEOREM OutagesAreNoticed == Spec => []FailuresAreNoticed
<1>1. ASSUME Inv PROVE FailuresAreNoticed
  <2>1. ASSUME NEW d \in Critical, running, trouble[d] >= Notice
        PROVE  ~ check_health
    <3>1. trouble[d] + timer >= Notice
      BY <1>1, <2>1, Numbers DEF Inv, TypeOK
    <3> QED
      BY <1>1, <2>1, <3>1 DEF Inv, Reported, check_health
  <2>2. silent > Stale => ~ check_health
    BY <1>1, Numbers DEF Inv, TypeOK, Silence, check_health
  <2> QED
    BY <2>1, <2>2 DEF FailuresAreNoticed
<1> QED
  BY InvAlways, <1>1, PTL
================================================================================
