------------------------ MODULE SubscriptionClientProofs ------------------------
(***************************************************************************)
(* For any symbols, batches and failures: no topic is asked for twice on a *)
(* connection, none that is desired falls between the two tasks, and none  *)
(* counts as confirmed that Bybit does not stream.                         *)
(***************************************************************************)
EXTENDS SubscriptionClient, SequenceTheorems, TLAPS

\* Who is between taking the lock and releasing it is its holder; only the holder
\* has something to send.  A frame that will not go out was meant for a connection
\* before this one, on which the run task still waits for the lock.
Locking ==
    /\ lock = "run" <=> pc["run"] = "sub"
    /\ lock = "sync" <=> pc["sync"] \in {"sub", "unsub"}
    /\ \A t \in Tasks : /\ sending[t] # "none" => lock = t
                        /\ sending[t] = "none" => batch[t] = {} /\ req[t] = None
                        /\ todo[t] # {} => lock = t
    /\ pc["sync"] = "unsub" => req["sync"] = None
    /\ sending["sync"] = "dead" => c2s = <<>> /\ (alive => pc["run"] = "waitSub")

Connected ==
    /\ ws <=> pc["run"] # "down"
    /\ alive => ws
    /\ c2s # <<>> => alive
    /\ pc["run"] \in {"waitSub", "sub", "poll"} => confirmed = {}

\* A symbol is confirmed, asked for once, or still to be asked for, no two of them.
Once ==
    /\ \A r \in ReqIds : pending[r] \intersect confirmed = {}
    /\ \A r1, r2 \in ReqIds : r1 # r2 => pending[r1] \intersect pending[r2] = {}
    /\ \A t \in Tasks : pc[t] = "sub" =>
           /\ todo[t] \intersect confirmed = {}
           /\ \A r \in ReqIds : todo[t] \intersect pending[r] = {}

\* What is being unsubscribed is neither desired nor asked for.
Leaving ==
    /\ pc["sync"] \in {"waitUnsub", "unsub"} => stale \intersect desired = {}
    /\ pc["sync"] = "unsub" =>
           /\ todo["sync"] \union batch["sync"] \subseteq stale
           /\ \A r \in ReqIds : (todo["sync"] \union batch["sync"]) \intersect pending[r] = {}

\* Past its resubscribe(), and unless the sync task is about to do its own, every
\* desired symbol is confirmed, asked for, or in the hands of the lock's holder.
Requested ==
    alive /\ pc["run"] \in {"sub", "poll", "listen"} /\ pc["sync"] # "waitSub" =>
        \A x \in desired : \/ x \in confirmed \/ \E r \in ReqIds : x \in pending[r]
                           \/ x \in todo["run"]
                           \/ (pc["sync"] = "sub" /\ x \in todo["sync"])

\* A subscribe frame on its way is the one of its pending request; an unsubscribe
\* frame behind it takes none of its symbols.
Asks(k) == c2s[k].op = "subscribe"
Wire ==
    /\ \A k \in 1 .. Len(c2s) : Asks(k) =>
           /\ c2s[k].req \in ReqIds /\ pending[c2s[k].req] = c2s[k].symbols
           /\ ~ Answered(c2s[k].req)
    /\ \A j, k \in 1 .. Len(c2s) :
           /\ j # k /\ Asks(j) /\ Asks(k) => c2s[j].req # c2s[k].req
           /\ j < k /\ Asks(j) /\ ~ Asks(k) => c2s[j].symbols \intersect c2s[k].symbols = {}

\* Bybit streams what is confirmed and what its ACKs on their way confirm, and no
\* unsubscribe frame on its way takes any of it.
Kept == confirmed \ (IF pc["sync"] = "unsub" THEN batch["sync"] ELSE {})
Safe(S) ==
    /\ S \subseteq subs
    /\ \A k \in 1 .. Len(c2s) : ~ Asks(k) => c2s[k].symbols \intersect S = {}
Streamed ==
    alive => /\ Safe(Kept)
             /\ \A i \in 1 .. Len(s2c) : s2c[i].success => Safe(pending[s2c[i].req])

Inv == TypeOK /\ Locking /\ Connected /\ Once /\ Leaving /\ Requested /\ Wire /\ Streamed

-------------------------------------------------------------------------------
(* Sequences, and the operators of the model *)

LEMMA TailOf ==
    ASSUME NEW S, NEW s \in Seq(S), s # <<>>
    PROVE  /\ Len(s) \in Nat \ {0} /\ Head(s) = s[1] /\ s[1] \in S
           /\ Tail(s) \in Seq(S) /\ Len(Tail(s)) = Len(s) - 1
           /\ \A k \in 1 .. Len(s) - 1 : Tail(s)[k] = s[k + 1]
<1>1. /\ Len(s) \in Nat \ {0} /\ s[1] \in S /\ Head(s) = s[1]
  BY EmptySeq, ElementOfSeq
<1>2. /\ Tail(s) \in Seq(S) /\ Len(Tail(s)) = Len(s) - 1
      /\ \A k \in 1 .. Len(s) - 1 : Tail(s)[k] = s[k + 1]
  BY HeadTailProperties
<1> QED
  BY <1>1, <1>2

LEMMA AppendTo ==
    ASSUME NEW S, NEW s \in Seq(S), NEW e \in S
    PROVE  /\ Len(s) \in Nat
           /\ Append(s, e) \in Seq(S) /\ Append(s, e) # <<>>
           /\ Len(Append(s, e)) = Len(s) + 1
           /\ \A k \in 1 .. Len(s) : Append(s, e)[k] = s[k]
           /\ Append(s, e)[Len(s) + 1] = e
  BY AppendProperties, LenProperties

LEMMA BatchesOf ==
    ASSUME NEW S, NEW b \in Batches(S)
    PROVE  b \subseteq S
  BY DEF Batches

\* A task's own batch and the next one.
LEMMA TheTasks == /\ Tasks = {"run", "sync"} /\ "run" # "sync"
                  /\ AfterSub["run"] = "poll" /\ AfterSub["sync"] = "subDone"
                  /\ None \notin Tasks
  BY SubscriptionAssumption DEF Tasks, AfterSub

LEMMA ThePlaces ==
    /\ Places.run = {"down", "waitSub", "sub", "poll", "listen"}
    /\ Places.sync = {"idle", "loaded", "waitSub", "sub", "subDone", "waitUnsub", "unsub"}
  BY DEF Places

-------------------------------------------------------------------------------
(* Types *)

LEMMA TypeInit == Init => TypeOK
<1> SUFFICES ASSUME Init PROVE TypeOK
  OBVIOUS
<1>1. pc \in [Tasks -> Places.run \union Places.sync] /\ pc["run"] \in Places.run
      /\ pc["sync"] \in Places.sync
  BY ThePlaces DEF Init, Tasks
<1>2. /\ c2s \in Seq(Frames) /\ s2c \in Seq(Acks) /\ previous = Alias
  BY EmptySeq DEF Init
<1>3. /\ todo \in [Tasks -> SUBSET Symbols] /\ batch \in [Tasks -> SUBSET Symbols]
      /\ sending \in [Tasks -> {"none", "live", "dead"}]
      /\ req \in [Tasks -> ReqIds \union {None}] /\ pending \in [ReqIds -> SUBSET Symbols]
  BY DEF Init
<1> QED
  BY <1>1, <1>2, <1>3 DEF Init, TypeOK

LEMMA TypeTeardown ==
    ASSUME TypeOK, NEW why \in {"disconnected", "subscribe_ack_failed",
                                "subscribe_ack_timeout", "stale"}, Teardown(why)
    PROVE  /\ ws' \in BOOLEAN /\ alive' \in BOOLEAN
           /\ reason' \in {"connected", "disconnected", "subscribe_ack_failed",
                           "subscribe_ack_timeout", "stale"}
           /\ pc' \in [Tasks -> Places.run \union Places.sync]
           /\ pc'["run"] = "down" /\ pc'["sync"] = pc["sync"]
           /\ lock' \in Tasks \union {None}
           /\ todo' \in [Tasks -> SUBSET Symbols]
           /\ sending' \in [Tasks -> {"none", "live", "dead"}]
           /\ batch' \in [Tasks -> SUBSET Symbols]
           /\ req' \in [Tasks -> ReqIds \union {None}]
           /\ c2s' \in Seq(Frames) /\ s2c' \in Seq(Acks)
  BY TheTasks, ThePlaces, EmptySeq DEF TypeOK, Teardown

LEMMA TypeNext == TypeOK /\ [Next]_vars => TypeOK'
<1> SUFFICES ASSUME TypeOK, [Next]_vars PROVE TypeOK'
  OBVIOUS
<1> USE SubscriptionAssumption, TheTasks, ThePlaces
<1>1. CASE RegistryChanges
  BY <1>1 DEF RegistryChanges, TypeOK, view, link, send, syncing
<1>2. CASE Connect
  BY <1>2, EmptySeq DEF Connect, TypeOK, send
<1>3. CASE Disconnect
  <2>1. sending' \in [Tasks -> {"none", "live", "dead"}] /\ c2s' \in Seq(Frames)
    BY <1>3, EmptySeq DEF Disconnect, TypeOK
  <2>2. alive' \in BOOLEAN
    BY <1>3, Zenon DEF Disconnect
  <2>4. faults' \in Nat
    <3>1. faults' = faults + 1 /\ faults \in Nat
      BY <1>3 DEF Disconnect, Fault, TypeOK
    <3> QED
      BY <3>1
  <2>3. UNCHANGED <<world, view, ws, reason, s2c, todo, batch, req, syncing, pc, lock>>
    BY <1>3 DEF Disconnect
  <2> QED
    BY <2>1, <2>2, <2>3, <2>4 DEF TypeOK, world, view, syncing
<1>4. CASE PollEnds
  BY <1>4 DEF PollEnds, TypeOK, world, view, link, send, syncing
<1>5. CASE PollFails
  BY <1>5, TypeTeardown DEF PollFails, Fault, TypeOK, world, view, syncing
<1>6. CASE Receive
  <2>0. Head(s2c) \in Acks /\ Tail(s2c) \in Seq(Acks)
    BY <1>6, TailOf DEF Receive, TypeOK
  <2>1. /\ Head(s2c).req \in ReqIds /\ Tail(s2c) \in Seq(Acks)
    BY <2>0 DEF Acks
  <2>2. /\ pending' \in [ReqIds -> SUBSET Symbols] /\ late' \in SUBSET ReqIds
        /\ confirmed' \in SUBSET Symbols
    BY <1>6, <2>1 DEF Receive, TypeOK
  <2>3. \/ \E why \in {"subscribe_ack_failed", "subscribe_ack_timeout"} : Teardown(why)
        \/ s2c' = Tail(s2c) /\ UNCHANGED <<ws, alive, reason, c2s, send, pc, lock>>
    BY <1>6 DEF Receive
  <2>4. UNCHANGED <<world, desired, syncing, faults>>
    BY <1>6 DEF Receive
  <2> QED
    BY <2>1, <2>2, <2>3, <2>4, TypeTeardown DEF TypeOK, world, send, syncing
<1>7. CASE ReceiveNothing
  BY <1>7, TypeTeardown DEF ReceiveNothing, TypeOK, world, view, syncing
<1>8. CASE StreamStale
  BY <1>8, TypeTeardown DEF StreamStale, Fault, TypeOK, world, view, syncing
<1>9. CASE \E t \in Tasks : Resubscribe(t)
  BY <1>9 DEF Resubscribe, TypeOK, world, view, link, syncing
<1>10. CASE \E t \in Tasks : SendSubscribe(t)
  <2>1. PICK t \in Tasks : SendSubscribe(t)
    BY <1>10
  <2>2. PICK b \in Batches(todo[t]), r \in ReqIds :
           /\ pending' = [pending EXCEPT ![r] = b]
           /\ todo' = [todo EXCEPT ![t] = @ \ b]
           /\ batch' = [batch EXCEPT ![t] = b]
           /\ req' = [req EXCEPT ![t] = r]
           /\ sending' = [sending EXCEPT ![t] = "live"]
           /\ c2s' = Append(c2s, [op |-> "subscribe", req |-> r, symbols |-> b])
    BY <2>1 DEF SendSubscribe
  <2>3. b \in SUBSET Symbols
    BY BatchesOf DEF TypeOK
  <2>4. c2s' \in Seq(Frames)
    BY <2>2, <2>3, AppendTo DEF TypeOK, Frames
  <2>5. UNCHANGED <<world, desired, confirmed, late, ws, alive, reason, s2c, syncing, pc,
                    lock, faults>>
    BY <2>1 DEF SendSubscribe
  <2> QED
    BY <2>2, <2>3, <2>4, <2>5 DEF TypeOK, world, syncing
<1>11. CASE \E t \in Tasks : SubscribeSent(t)
  BY <1>11 DEF SubscribeSent, TypeOK, world, view, link, syncing
<1>12. CASE \E t \in Tasks : SubscribeFails(t)
  <2>1. PICK t \in Tasks : SubscribeFails(t)
    BY <1>12
  <2>2. CASE t = "run"
    BY <2>1, <2>2, TypeTeardown DEF SubscribeFails, TypeOK, world
  <2>3. CASE t = "sync"
    BY <2>1, <2>3 DEF SubscribeFails, SyncRaises, TypeOK, world, link
  <2> QED
    BY <2>2, <2>3
<1>13. CASE SyncLoads
  BY <1>13 DEF SyncLoads, TypeOK, world, view, link, send
<1>14. CASE SyncSets
  BY <1>14 DEF SyncSets, TypeOK, world, link, send
<1>15. CASE SyncDrops
  BY <1>15 DEF SyncDrops, TypeOK, world, view, link, send
<1>16. CASE Unsubscribe
  BY <1>16 DEF Unsubscribe, TypeOK, world, view, link, syncing
<1>17. CASE SendUnsubscribe
  <2>1. PICK b \in Batches(todo["sync"]) :
           /\ todo' = [todo EXCEPT !["sync"] = @ \ b]
           /\ batch' = [batch EXCEPT !["sync"] = b]
           /\ sending' = [sending EXCEPT !["sync"] = "live"]
           /\ c2s' = Append(c2s, [op |-> "unsubscribe", req |-> None, symbols |-> b])
    BY <1>17 DEF SendUnsubscribe
  <2>2. b \in SUBSET Symbols
    BY BatchesOf DEF TypeOK
  <2>3. c2s' \in Seq(Frames)
    BY <2>1, <2>2, AppendTo DEF TypeOK, Frames
  <2>4. UNCHANGED <<world, view, ws, alive, reason, s2c, req, syncing, pc, lock, faults>>
    BY <1>17 DEF SendUnsubscribe
  <2> QED
    BY <2>1, <2>2, <2>3, <2>4 DEF TypeOK, world, view, syncing
<1>18. CASE UnsubscribeSent
  BY <1>18 DEF UnsubscribeSent, TypeOK, world, link, syncing
<1>19. CASE UnsubscribeFails
  BY <1>19 DEF UnsubscribeFails, SyncRaises, TypeOK, world, view, link
<1>20. CASE ServerTakes
  <2>1. /\ Tail(c2s) \in Seq(Frames) /\ Head(c2s) \in Frames
    BY <1>20, TailOf DEF ServerTakes, TypeOK
  <2>2. /\ c2s' = Tail(c2s) /\ subs' \in SUBSET Symbols /\ faults' \in Nat
    BY <1>20, <2>1 DEF ServerTakes, Fault, TypeOK, Frames
  <2>3. s2c' \in Seq(Acks)
    <3>1. Head(c2s).op = "subscribe" =>
             \A ok \in BOOLEAN : [req |-> Head(c2s).req, success |-> ok] \in Acks
      BY <2>1 DEF Frames, Acks
    <3>2. /\ s2c \in Seq(Acks)
          /\ \/ s2c' = s2c
             \/ /\ Head(c2s).op = "subscribe"
                /\ \E ok \in BOOLEAN : s2c' = Append(s2c, [req |-> Head(c2s).req, success |-> ok])
      BY <1>20 DEF ServerTakes, TypeOK
    <3>3. CASE s2c' = s2c
      BY <3>2, <3>3
    <3>4. CASE s2c' # s2c
      <4>1. PICK ok \in BOOLEAN : s2c' = Append(s2c, [req |-> Head(c2s).req, success |-> ok])
        BY <3>2, <3>4
      <4>2. [req |-> Head(c2s).req, success |-> ok] \in Acks
        BY <3>1, <3>2, <3>4
      <4> QED
        BY <3>2, <4>1, <4>2, AppendTo
    <3> QED
      BY <3>2, <3>3, <3>4
  <2>4. UNCHANGED <<wanted, changes, view, ws, alive, reason, send, syncing, pc, lock>>
    BY <1>20 DEF ServerTakes
  <2> QED
    BY <2>1, <2>2, <2>3, <2>4 DEF TypeOK, view, send, syncing
<1>21. CASE \E r \in ReqIds : AckWindowPasses(r)
  BY <1>21 DEF AckWindowPasses, Fault, TypeOK, world, link, send, syncing
<1>22. CASE UNCHANGED vars
  BY <1>22 DEF vars, world, view, link, send, syncing, TypeOK
<1> QED
  BY <1>1, <1>2, <1>3, <1>4, <1>5, <1>6, <1>7, <1>8, <1>9, <1>10, <1>11, <1>12, <1>13,
     <1>14, <1>15, <1>16, <1>17, <1>18, <1>19, <1>20, <1>21, <1>22
  DEF Next, Connection, Subscription, Sync

-------------------------------------------------------------------------------
(* The lock and the connection *)

\* What the run task leaves behind.
LEMMA TornDown ==
    ASSUME TypeOK, NEW why, Teardown(why)
    PROVE  /\ ~ ws' /\ ~ alive' /\ c2s' = <<>> /\ s2c' = <<>>
           /\ pc'["run"] = "down" /\ pc'["sync"] = pc["sync"]
           /\ lock' = (IF lock = "run" THEN None ELSE lock)
           /\ todo'["run"] = {} /\ todo'["sync"] = todo["sync"]
           /\ sending'["run"] = "none"
           /\ sending'["sync"] = (IF sending["sync"] = "none" THEN "none" ELSE "dead")
           /\ batch'["run"] = {} /\ batch'["sync"] = batch["sync"]
           /\ req'["run"] = None /\ req'["sync"] = req["sync"]
  BY TheTasks DEF TypeOK, Teardown

LEMMA LockingTornDown ==
    ASSUME TypeOK, Locking, NEW why, Teardown(why)
    PROVE  Locking' /\ (ws' <=> pc'["run"] # "down") /\ (alive' => ws') /\ c2s' = <<>>
           /\ pc'["run"] = "down"
  BY TornDown, TheTasks DEF Locking

LEMMA LockingNext == TypeOK /\ Locking /\ Connected /\ [Next]_vars => Locking' /\ Connected'
<1> SUFFICES ASSUME TypeOK, Locking, Connected, [Next]_vars PROVE Locking' /\ Connected'
  OBVIOUS
<1> USE TheTasks, ThePlaces
<1>1. CASE RegistryChanges
  BY <1>1 DEF RegistryChanges, view, link, send, Locking, Connected
<1>2. CASE Connect
  BY <1>2 DEF Connect, TypeOK, send, Locking, Connected
<1>3. CASE Disconnect
  BY <1>3 DEF Disconnect, TypeOK, view, Locking, Connected
<1>4. CASE PollEnds
  BY <1>4 DEF PollEnds, TypeOK, view, link, send, Locking, Connected
<1>5. CASE PollFails
  BY <1>5, LockingTornDown DEF PollFails, Connected
<1>6. CASE Receive
  <2>1. CASE \E why : Teardown(why)
    BY <2>1, LockingTornDown DEF Connected
  <2>2. CASE UNCHANGED <<ws, alive, reason, c2s, send, pc, lock>>
    BY <1>6, <2>2 DEF Receive, send, Locking, Connected
  <2> QED
    BY <1>6, <2>1, <2>2 DEF Receive
<1>7. CASE ReceiveNothing
  BY <1>7, LockingTornDown DEF ReceiveNothing, Connected
<1>8. CASE StreamStale
  BY <1>8, LockingTornDown DEF StreamStale, Connected
<1>9. CASE \E t \in Tasks : Resubscribe(t)
  BY <1>9 DEF Resubscribe, TypeOK, view, link, Locking, Connected
<1>10. CASE \E t \in Tasks : SendSubscribe(t)
  BY <1>10 DEF SendSubscribe, TypeOK, Locking, Connected
<1>11. CASE \E t \in Tasks : SubscribeSent(t)
  BY <1>11 DEF SubscribeSent, TypeOK, view, link, Locking, Connected
<1>12. CASE \E t \in Tasks : SubscribeFails(t)
  <2>1. CASE \E why : Teardown(why)
    BY <2>1, LockingTornDown DEF Connected
  <2>2. CASE SubscribeFails("sync")
    BY <2>2 DEF SubscribeFails, SyncRaises, link, TypeOK, Locking, Connected
  <2> QED
    BY <1>12, <2>1, <2>2 DEF SubscribeFails
<1>13. CASE SyncLoads
  BY <1>13 DEF SyncLoads, TypeOK, view, link, send, Locking, Connected
<1>14. CASE SyncSets
  BY <1>14 DEF SyncSets, TypeOK, link, send, Locking, Connected
<1>15. CASE SyncDrops
  BY <1>15 DEF SyncDrops, TypeOK, view, link, send, Locking, Connected
<1>16. CASE Unsubscribe
  BY <1>16 DEF Unsubscribe, TypeOK, view, link, Locking, Connected
<1>17. CASE SendUnsubscribe
  BY <1>17 DEF SendUnsubscribe, TypeOK, view, Locking, Connected
<1>18. CASE UnsubscribeSent
  BY <1>18 DEF UnsubscribeSent, TypeOK, link, Locking, Connected
<1>19. CASE UnsubscribeFails
  BY <1>19 DEF UnsubscribeFails, SyncRaises, TypeOK, view, link, Locking, Connected
<1>20. CASE ServerTakes
  BY <1>20 DEF ServerTakes, view, send, Locking, Connected
<1>21. CASE \E r \in ReqIds : AckWindowPasses(r)
  BY <1>21 DEF AckWindowPasses, link, send, Locking, Connected
<1>22. CASE UNCHANGED vars
  BY <1>22 DEF vars, view, link, send, Locking, Connected
<1> QED
  BY <1>1, <1>2, <1>3, <1>4, <1>5, <1>6, <1>7, <1>8, <1>9, <1>10, <1>11, <1>12, <1>13,
     <1>14, <1>15, <1>16, <1>17, <1>18, <1>19, <1>20, <1>21, <1>22
  DEF Next, Connection, Subscription, Sync

-------------------------------------------------------------------------------
(* Asked for once *)

LEMMA AskedFor == \A x : x \in pending_symbols <=> \E r \in ReqIds : x \in pending[r]
  BY DEF pending_symbols

LEMMA FirstAck ==
    ASSUME TypeOK, s2c # <<>>
    PROVE  /\ Head(s2c) = s2c[1] /\ Head(s2c).req \in ReqIds
           /\ Len(s2c) \in Nat \ {0} /\ Answered(Head(s2c).req)
<1>1. /\ Head(s2c) = s2c[1] /\ Head(s2c) \in Acks /\ Len(s2c) \in Nat \ {0}
  BY TailOf DEF TypeOK
<1>2. 1 \in 1 .. Len(s2c)
  BY <1>1
<1> QED
  BY <1>1, <1>2 DEF Acks, Answered

\* What a step does that neither sends nor sets the desired symbols.
LEMMA OnceTornDown ==
    ASSUME TypeOK, Locking, Once, Leaving, NEW why, Teardown(why),
           UNCHANGED <<desired, stale>>,
           \A r \in ReqIds : pending'[r] \subseteq pending[r],
           \A x \in confirmed' : \/ x \in confirmed
                                 \/ \E r \in ReqIds : x \in pending[r] \ pending'[r]
    PROVE  Once' /\ Leaving'
<1>1. /\ pc'["run"] = "down" /\ pc'["sync"] = pc["sync"]
      /\ todo'["sync"] = todo["sync"] /\ batch'["sync"] = batch["sync"]
  BY TornDown
<1>2. \A r \in ReqIds : pending'[r] \intersect confirmed' = {}
  BY DEF Once
<1>3. \A r1, r2 \in ReqIds : r1 # r2 => pending'[r1] \intersect pending'[r2] = {}
  BY DEF Once
<1>4. ASSUME pc["sync"] = "sub"
      PROVE  /\ todo["sync"] \intersect confirmed' = {}
             /\ \A r \in ReqIds : todo["sync"] \intersect pending'[r] = {}
  BY <1>4, TheTasks DEF Once
<1>5. Once'
  BY <1>1, <1>2, <1>3, <1>4, TheTasks DEF Once
<1>6. Leaving'
  BY <1>1 DEF Leaving
<1> QED
  BY <1>5, <1>6

LEMMA OnceNext ==
    TypeOK /\ Locking /\ Connected /\ Once /\ Leaving /\ [Next]_vars => Once' /\ Leaving'
<1> SUFFICES ASSUME TypeOK, Locking, Connected, Once, Leaving, [Next]_vars
             PROVE  Once' /\ Leaving'
  OBVIOUS
<1> USE TheTasks, ThePlaces
<1>1. CASE RegistryChanges
  BY <1>1 DEF RegistryChanges, view, send, syncing, Once, Leaving
<1>2. CASE Connect
  BY <1>2 DEF Connect, TypeOK, send, Once, Leaving
<1>3. CASE Disconnect
  BY <1>3 DEF Disconnect, view, syncing, Once, Leaving
<1>4. CASE PollEnds
  BY <1>4 DEF PollEnds, TypeOK, view, send, syncing, Once, Leaving
<1>5. CASE PollFails
  BY <1>5, OnceTornDown DEF PollFails, view, syncing
<1>6. CASE Receive
  <2>1. /\ Head(s2c).req \in ReqIds /\ UNCHANGED <<desired, stale>>
        /\ pending' = [pending EXCEPT ![Head(s2c).req] = {}]
        /\ confirmed' = confirmed \/ confirmed' = confirmed \union pending[Head(s2c).req]
    BY <1>6, FirstAck DEF Receive, syncing
  <2>2. /\ \A r \in ReqIds : pending'[r] \subseteq pending[r]
        /\ \A x \in confirmed' : \/ x \in confirmed
                                 \/ \E r \in ReqIds : x \in pending[r] \ pending'[r]
    BY <2>1 DEF TypeOK
  <2>3. CASE \E why : Teardown(why)
    BY <2>1, <2>2, <2>3, OnceTornDown
  <2>4. CASE UNCHANGED <<send, pc>>
    BY <2>1, <2>2, <2>4 DEF TypeOK, send, Once, Leaving
  <2> QED
    BY <1>6, <2>3, <2>4 DEF Receive
<1>7. CASE ReceiveNothing
  BY <1>7, OnceTornDown DEF ReceiveNothing, view, syncing
<1>8. CASE StreamStale
  BY <1>8, OnceTornDown DEF StreamStale, view, syncing
<1>9. CASE \E t \in Tasks : Resubscribe(t)
  BY <1>9, AskedFor DEF Resubscribe, TypeOK, view, syncing, Locking, Once, Leaving
<1>10. CASE \E t \in Tasks : SendSubscribe(t)
  <2>1. PICK t \in Tasks : SendSubscribe(t)
    BY <1>10
  <2>2. PICK b \in Batches(todo[t]), r \in ReqIds :
           /\ pending' = [pending EXCEPT ![r] = b]
           /\ todo' = [todo EXCEPT ![t] = @ \ b]
           /\ batch' = [batch EXCEPT ![t] = b]
           /\ pc[t] = "sub" /\ UNCHANGED <<desired, confirmed, stale, pc>>
    BY <2>1 DEF SendSubscribe, syncing
  <2>3. b \subseteq todo[t]
    BY <2>2, BatchesOf
  <2> QED
    BY <2>2, <2>3 DEF TypeOK, Locking, Once, Leaving
<1>11. CASE \E t \in Tasks : SubscribeSent(t)
  BY <1>11 DEF SubscribeSent, TypeOK, view, syncing, Locking, Once, Leaving
<1>12. CASE \E t \in Tasks : SubscribeFails(t)
  <2>1. /\ \A r \in ReqIds : pending'[r] \subseteq pending[r]
        /\ UNCHANGED <<desired, confirmed, stale>>
    BY <1>12 DEF SubscribeFails, TypeOK
  <2>2. CASE \E why : Teardown(why)
    BY <2>1, <2>2, OnceTornDown
  <2>3. CASE SyncRaises
    BY <2>1, <2>3 DEF SyncRaises, TypeOK, Locking, Once, Leaving
  <2> QED
    BY <1>12, <2>2, <2>3 DEF SubscribeFails
<1>13. CASE SyncLoads
  BY <1>13 DEF SyncLoads, TypeOK, view, send, Once, Leaving
<1>14. CASE SyncSets
  BY <1>14 DEF SyncSets, TypeOK, send, Once, Leaving
<1>15. CASE SyncDrops
  BY <1>15 DEF SyncDrops, TypeOK, view, send, Once, Leaving
<1>16. CASE Unsubscribe
  BY <1>16 DEF Unsubscribe, TypeOK, view, syncing, Locking, Once, Leaving
<1>17. CASE SendUnsubscribe
  <2>1. PICK b \in Batches(todo["sync"]) :
           /\ todo' = [todo EXCEPT !["sync"] = @ \ b]
           /\ batch' = [batch EXCEPT !["sync"] = b]
           /\ pc["sync"] = "unsub" /\ UNCHANGED <<view, stale, pc>>
    BY <1>17 DEF SendUnsubscribe, syncing
  <2>2. b \subseteq todo["sync"]
    BY BatchesOf
  <2> QED
    BY <2>1, <2>2 DEF TypeOK, view, Once, Leaving
<1>18. CASE UnsubscribeSent
  BY <1>18 DEF UnsubscribeSent, TypeOK, syncing, Once, Leaving
<1>19. CASE UnsubscribeFails
  BY <1>19 DEF UnsubscribeFails, SyncRaises, TypeOK, view, Once, Leaving
<1>20. CASE ServerTakes
  BY <1>20 DEF ServerTakes, view, send, syncing, Once, Leaving
<1>21. CASE \E r \in ReqIds : AckWindowPasses(r)
  BY <1>21 DEF AckWindowPasses, send, syncing, Once, Leaving
<1>22. CASE UNCHANGED vars
  BY <1>22 DEF vars, view, send, syncing, Once, Leaving
<1> QED
  BY <1>1, <1>2, <1>3, <1>4, <1>5, <1>6, <1>7, <1>8, <1>9, <1>10, <1>11, <1>12, <1>13,
     <1>14, <1>15, <1>16, <1>17, <1>18, <1>19, <1>20, <1>21, <1>22
  DEF Next, Connection, Subscription, Sync

-------------------------------------------------------------------------------
(* Desired, so asked for *)

LEMMA RequestedNext ==
    TypeOK /\ Locking /\ Connected /\ Leaving /\ Requested /\ [Next]_vars => Requested'
<1> SUFFICES ASSUME TypeOK, Locking, Connected, Leaving, Requested, [Next]_vars
             PROVE  Requested'
  OBVIOUS
<1> USE TheTasks, ThePlaces
<1>0. ASSUME NEW why, Teardown(why) PROVE Requested'
  BY <1>0, TornDown DEF Requested
<1>1. CASE RegistryChanges
  BY <1>1 DEF RegistryChanges, view, link, send, Requested
<1>2. CASE Connect
  BY <1>2 DEF Connect, TypeOK, Requested
<1>3. CASE Disconnect
  BY <1>3, Zenon DEF Disconnect, Requested
<1>4. CASE PollEnds
  BY <1>4 DEF PollEnds, TypeOK, view, link, send, Requested
<1>5. CASE PollFails
  BY <1>0, <1>5 DEF PollFails
<1>6. CASE Receive
  <2>1. CASE \E why : Teardown(why)
    BY <1>0, <2>1
  <2>2. CASE UNCHANGED <<alive, send, pc>> /\ ~ \E why : Teardown(why)
    <3>1. /\ Head(s2c).req \in ReqIds /\ desired' = desired
          /\ pending' = [pending EXCEPT ![Head(s2c).req] = {}]
          /\ confirmed' = IF pending[Head(s2c).req] # {}
                          THEN confirmed \union pending[Head(s2c).req] ELSE confirmed
      BY <1>6, <2>2, FirstAck DEF Receive
    <3> QED
      BY <2>2, <3>1 DEF TypeOK, send, Requested
  <2> QED
    BY <1>6, <2>1, <2>2 DEF Receive
<1>7. CASE ReceiveNothing
  BY <1>0, <1>7 DEF ReceiveNothing
<1>8. CASE StreamStale
  BY <1>0, <1>8 DEF StreamStale
<1>9. CASE \E t \in Tasks : Resubscribe(t)
  BY <1>9, AskedFor DEF Resubscribe, TypeOK, view, link, Locking, Requested
<1>10. CASE \E t \in Tasks : SendSubscribe(t)
  <2>1. PICK t \in Tasks : SendSubscribe(t)
    BY <1>10
  <2>2. PICK b \in Batches(todo[t]), r \in ReqIds :
           /\ pending[r] = {}
           /\ pending' = [pending EXCEPT ![r] = b]
           /\ todo' = [todo EXCEPT ![t] = @ \ b]
           /\ pc[t] = "sub" /\ UNCHANGED <<desired, confirmed, pc, alive>>
    BY <2>1 DEF SendSubscribe, Fresh
  <2> QED
    BY <2>2 DEF TypeOK, Requested
<1>11. CASE \E t \in Tasks : SubscribeSent(t)
  BY <1>11 DEF SubscribeSent, TypeOK, view, link, Requested
<1>12. CASE \E t \in Tasks : SubscribeFails(t)
  <2>1. CASE \E why : Teardown(why)
    BY <1>0, <2>1
  <2>2. CASE SubscribeFails("sync")
    BY <2>2 DEF SubscribeFails, SyncRaises, link, TypeOK, Locking, Requested
  <2> QED
    BY <1>12, <2>1, <2>2 DEF SubscribeFails
<1>13. CASE SyncLoads
  BY <1>13 DEF SyncLoads, TypeOK, view, link, send, Requested
<1>14. CASE SyncSets
  BY <1>14 DEF SyncSets, TypeOK, link, send, Connected, Requested
<1>15. CASE SyncDrops
  BY <1>15 DEF SyncDrops, TypeOK, view, link, send, Requested
<1>16. CASE Unsubscribe
  BY <1>16 DEF Unsubscribe, TypeOK, view, link, Requested
<1>17. CASE SendUnsubscribe
  BY <1>17 DEF SendUnsubscribe, TypeOK, view, Requested
<1>18. CASE UnsubscribeSent
  BY <1>18 DEF UnsubscribeSent, TypeOK, link, Leaving, Requested
<1>19. CASE UnsubscribeFails
  BY <1>19 DEF UnsubscribeFails, SyncRaises, TypeOK, view, link, Requested
<1>20. CASE ServerTakes
  BY <1>20 DEF ServerTakes, view, send, Requested
<1>21. CASE \E r \in ReqIds : AckWindowPasses(r)
  BY <1>21 DEF AckWindowPasses, link, send, Requested
<1>22. CASE UNCHANGED vars
  BY <1>22 DEF vars, view, link, send, Requested
<1> QED
  BY <1>1, <1>2, <1>3, <1>4, <1>5, <1>6, <1>7, <1>8, <1>9, <1>10, <1>11, <1>12, <1>13,
     <1>14, <1>15, <1>16, <1>17, <1>18, <1>19, <1>20, <1>21, <1>22
  DEF Next, Connection, Subscription, Sync

-------------------------------------------------------------------------------
(* Frames on their way *)

\* The frame Bybit takes, and those that move up.
LEMMA FirstFrame ==
    ASSUME TypeOK, c2s # <<>>
    PROVE  /\ Head(c2s) = c2s[1] /\ Head(c2s) \in Frames
           /\ Len(c2s) \in Nat \ {0} /\ 1 \in 1 .. Len(c2s)
           /\ Tail(c2s) \in Seq(Frames) /\ Len(Tail(c2s)) = Len(c2s) - 1
           /\ \A k \in 1 .. Len(Tail(c2s)) :
                 /\ Tail(c2s)[k] = c2s[k + 1]
                 /\ k + 1 \in 1 .. Len(c2s) /\ k + 1 # 1 /\ 1 < k + 1
  BY TailOf DEF TypeOK

\* The ACKs that are left when one is read.
LEMMA AcksLeft ==
    ASSUME TypeOK, s2c # <<>>
    PROVE  /\ \A i \in 1 .. Len(Tail(s2c)) :
                 /\ Tail(s2c)[i] = s2c[i + 1] /\ i + 1 \in 1 .. Len(s2c)
           /\ \A r : (\E k \in 1 .. Len(Tail(s2c)) : Tail(s2c)[k].req = r) => Answered(r)
<1>1. /\ Len(s2c) \in Nat /\ Len(Tail(s2c)) = Len(s2c) - 1
      /\ \A k \in 1 .. Len(s2c) - 1 : Tail(s2c)[k] = s2c[k + 1]
  BY TailOf DEF TypeOK
<1>2. \A k \in 1 .. Len(Tail(s2c)) : Tail(s2c)[k] = s2c[k + 1] /\ k + 1 \in 1 .. Len(s2c)
  BY <1>1
<1> QED
  BY <1>2 DEF Answered

LEMMA NothingOnItsWay == c2s' = <<>> => Wire' /\ \A k \in 1 .. Len(c2s') : FALSE
<1>1. c2s' = <<>> => 1 .. Len(c2s') = {}
  BY EmptySeq
<1> QED
  BY <1>1 DEF Wire

LEMMA WireKept == Wire /\ UNCHANGED <<c2s, s2c, pending>> => Wire'
  BY DEF Wire, Answered, Asks

LEMMA WireSubscribe ==
    ASSUME TypeOK, Wire, NEW r \in ReqIds, NEW b \in SUBSET Symbols, Fresh(r),
           pending' = [pending EXCEPT ![r] = b], s2c' = s2c,
           c2s' = Append(c2s, [op |-> "subscribe", req |-> r, symbols |-> b])
    PROVE  Wire'
<1> DEFINE m == [op |-> "subscribe", req |-> r, symbols |-> b]
<1>1. /\ m \in Frames /\ m.op = "subscribe" /\ m.req = r /\ m.symbols = b
  BY DEF Frames
<1> HIDE DEF m
<1>2. /\ Len(c2s) \in Nat /\ Len(c2s') = Len(c2s) + 1 /\ c2s'[Len(c2s) + 1] = m
      /\ \A k \in 1 .. Len(c2s) : c2s'[k] = c2s[k]
  BY <1>1, AppendTo DEF TypeOK, m
<1>3. /\ pending'[r] = b /\ \A q \in ReqIds : q # r => pending'[q] = pending[q]
  BY DEF TypeOK
<1>4. \A k \in 1 .. Len(c2s) : c2s[k].req # r
  BY DEF Fresh, Answerable
<1>5. /\ ~ Answered(r) /\ s2c' = s2c
  BY DEF Fresh, Answerable, Answered
<1>6. \A k \in 1 .. Len(c2s') : k \in 1 .. Len(c2s) \/ k = Len(c2s) + 1
  BY <1>2
<1>7. ASSUME NEW k \in 1 .. Len(c2s'), c2s'[k].op = "subscribe"
      PROVE  /\ c2s'[k].req \in ReqIds /\ pending'[c2s'[k].req] = c2s'[k].symbols
             /\ \A i \in 1 .. Len(s2c') : s2c'[i].req # c2s'[k].req
  <2>1. CASE k \in 1 .. Len(c2s)
    BY <1>2, <1>3, <1>4, <1>5, <1>7, <2>1 DEF Wire, Asks, Answered
  <2>2. CASE k = Len(c2s) + 1
    BY <1>1, <1>2, <1>3, <1>5, <2>2 DEF Answered
  <2> QED
    BY <1>6, <2>1, <2>2
<1>8. ASSUME NEW j \in 1 .. Len(c2s'), NEW k \in 1 .. Len(c2s')
      PROVE  /\ j # k /\ c2s'[j].op = "subscribe" /\ c2s'[k].op = "subscribe" =>
                    c2s'[j].req # c2s'[k].req
             /\ j < k /\ c2s'[j].op = "subscribe" /\ c2s'[k].op # "subscribe" =>
                    c2s'[j].symbols \intersect c2s'[k].symbols = {}
  <2>1. CASE j \in 1 .. Len(c2s) /\ k \in 1 .. Len(c2s)
    BY <1>2, <2>1 DEF Wire, Asks
  <2>2. CASE j \in 1 .. Len(c2s) /\ k = Len(c2s) + 1
    BY <1>1, <1>2, <1>4, <2>2 DEF Asks
  <2>3. CASE j = Len(c2s) + 1 /\ k \in 1 .. Len(c2s)
    <3>1. ~ (j < k)
      BY <1>2, <2>3
    <3> QED
      BY <1>1, <1>2, <1>4, <2>3, <3>1 DEF Asks
  <2>4. CASE j = Len(c2s) + 1 /\ k = Len(c2s) + 1
    <3>1. ~ (j < k)
      BY <1>2, <2>4
    <3> QED
      BY <2>4, <3>1
  <2> QED
    BY <1>6, <2>1, <2>2, <2>3, <2>4
<1> QED
  BY <1>7, <1>8 DEF Wire, Asks, Answered

LEMMA WireUnsubscribe ==
    ASSUME TypeOK, Wire, NEW b \in SUBSET Symbols,
           \A r \in ReqIds : b \intersect pending[r] = {},
           UNCHANGED <<pending, s2c>>,
           c2s' = Append(c2s, [op |-> "unsubscribe", req |-> None, symbols |-> b])
    PROVE  Wire'
<1> DEFINE m == [op |-> "unsubscribe", req |-> None, symbols |-> b]
<1>1. m \in Frames /\ m.op = "unsubscribe" /\ m.symbols = b
  BY DEF Frames
<1> HIDE DEF m
<1>2. /\ Len(c2s) \in Nat /\ Len(c2s') = Len(c2s) + 1 /\ c2s'[Len(c2s) + 1] = m
      /\ \A k \in 1 .. Len(c2s) : c2s'[k] = c2s[k]
  BY <1>1, AppendTo DEF TypeOK, m
<1>3. /\ c2s'[Len(c2s) + 1].op # "subscribe" /\ s2c' = s2c
  BY <1>1, <1>2
<1>4. \A k \in 1 .. Len(c2s') : k \in 1 .. Len(c2s) \/ k = Len(c2s) + 1
  BY <1>2
<1>5. ASSUME NEW k \in 1 .. Len(c2s'), c2s'[k].op = "subscribe"
      PROVE  /\ c2s'[k].req \in ReqIds /\ pending'[c2s'[k].req] = c2s'[k].symbols
             /\ \A i \in 1 .. Len(s2c') : s2c'[i].req # c2s'[k].req
  BY <1>1, <1>2, <1>3, <1>4, <1>5 DEF Wire, Asks, Answered
<1>6. ASSUME NEW j \in 1 .. Len(c2s'), NEW k \in 1 .. Len(c2s'), c2s'[j].op = "subscribe"
      PROVE  /\ j # k /\ c2s'[k].op = "subscribe" => c2s'[j].req # c2s'[k].req
             /\ j < k /\ c2s'[k].op # "subscribe" =>
                    c2s'[j].symbols \intersect c2s'[k].symbols = {}
  <2>1. j \in 1 .. Len(c2s) /\ c2s'[j] = c2s[j] /\ Asks(j)
    BY <1>1, <1>2, <1>3, <1>4, <1>6 DEF Asks
  <2>2. CASE k \in 1 .. Len(c2s)
    BY <1>2, <1>3, <2>1, <2>2 DEF Wire, Asks
  <2>3. CASE k = Len(c2s) + 1
    BY <1>1, <1>2, <1>3, <2>1, <2>3 DEF Wire, Asks
  <2> QED
    BY <1>4, <2>2, <2>3
<1> QED
  BY <1>5, <1>6 DEF Wire, Asks, Answered

LEMMA WireServed == TypeOK /\ Wire /\ ServerTakes => Wire'
<1> SUFFICES ASSUME TypeOK, Wire, ServerTakes PROVE Wire'
  OBVIOUS
<1>1. c2s # <<>> /\ c2s' = Tail(c2s) /\ pending' = pending
  BY DEF ServerTakes, view
<1>2. \A k \in 1 .. Len(c2s') :
         /\ c2s'[k] = c2s[k + 1] /\ k + 1 \in 1 .. Len(c2s) /\ k + 1 # 1
         /\ c2s'[k].op = "subscribe" <=> Asks(k + 1)
  BY <1>1, FirstFrame DEF Asks
<1>3. \A i \in 1 .. Len(s2c') :
         Answered(s2c'[i].req) \/ (Asks(1) /\ s2c'[i].req = c2s[1].req)
  <2>0. \A i \in 1 .. Len(s2c) : Answered(s2c[i].req)
    BY DEF Answered
  <2>1. CASE s2c' = s2c
    BY <2>0, <2>1
  <2>2. CASE s2c' # s2c
    <3>1. PICK ok \in BOOLEAN : s2c' = Append(s2c, [req |-> Head(c2s).req, success |-> ok])
      BY <2>2 DEF ServerTakes
    <3>2. Asks(1) /\ Head(c2s) = c2s[1] /\ Head(c2s).req \in ReqIds
      BY <1>1, <2>2, FirstFrame DEF ServerTakes, Asks, Frames
    <3> DEFINE a == [req |-> Head(c2s).req, success |-> ok]
    <3>3. a \in Acks /\ a.req = c2s[1].req
      BY <3>2 DEF Acks
    <3> HIDE DEF a
    <3>4. /\ Len(s2c) \in Nat /\ Len(s2c') = Len(s2c) + 1 /\ s2c'[Len(s2c) + 1] = a
          /\ \A k \in 1 .. Len(s2c) : s2c'[k] = s2c[k]
      BY <3>1, <3>3, AppendTo DEF TypeOK, a
    <3>5. \A k \in 1 .. Len(s2c') : k \in 1 .. Len(s2c) \/ k = Len(s2c) + 1
      BY <3>4
    <3> QED
      BY <2>0, <3>2, <3>3, <3>4, <3>5
  <2> QED
    BY <2>1, <2>2
<1>4. 1 \in 1 .. Len(c2s)
  BY <1>1, FirstFrame
<1>5. ASSUME NEW k \in 1 .. Len(c2s'), c2s'[k].op = "subscribe"
      PROVE  /\ c2s'[k].req \in ReqIds /\ pending'[c2s'[k].req] = c2s'[k].symbols
             /\ \A i \in 1 .. Len(s2c') : s2c'[i].req # c2s'[k].req
  <2>1. /\ Asks(k + 1) /\ k + 1 \in 1 .. Len(c2s) /\ k + 1 # 1 /\ c2s'[k] = c2s[k + 1]
    BY <1>2, <1>5 DEF Asks
  <2>2. /\ c2s[k + 1].req \in ReqIds /\ pending[c2s[k + 1].req] = c2s[k + 1].symbols
        /\ ~ Answered(c2s[k + 1].req)
        /\ Asks(1) => c2s[1].req # c2s[k + 1].req
    BY <1>4, <2>1 DEF Wire
  <2> QED
    BY <1>1, <1>3, <2>1, <2>2
<1>6. ASSUME NEW j \in 1 .. Len(c2s'), NEW k \in 1 .. Len(c2s'), c2s'[j].op = "subscribe"
      PROVE  /\ j # k /\ c2s'[k].op = "subscribe" => c2s'[j].req # c2s'[k].req
             /\ j < k /\ c2s'[k].op # "subscribe" =>
                    c2s'[j].symbols \intersect c2s'[k].symbols = {}
  <2>1. (j # k => j + 1 # k + 1) /\ (j < k => j + 1 < k + 1)
    OBVIOUS
  <2> QED
    BY <1>2, <1>6, <2>1 DEF Wire, Asks
<1> QED
  BY <1>5, <1>6 DEF Wire, Asks, Answered

LEMMA WireNext ==
    TypeOK /\ Locking /\ Connected /\ Leaving /\ Wire /\ [Next]_vars => Wire'
<1> SUFFICES ASSUME TypeOK, Locking, Connected, Leaving, Wire, [Next]_vars PROVE Wire'
  OBVIOUS
<1> USE TheTasks
<1>1. CASE UNCHANGED <<c2s, s2c, pending>>
  BY <1>1, WireKept
<1>2. CASE c2s' = <<>>
  BY <1>2, NothingOnItsWay
<1>3. CASE Receive
  <2>1. CASE s2c' = Tail(s2c) /\ UNCHANGED c2s
    <3>1. /\ s2c # <<>> /\ Head(s2c).req \in ReqIds /\ Answered(Head(s2c).req)
          /\ pending' = [pending EXCEPT ![Head(s2c).req] = {}]
      BY <1>3, FirstAck DEF Receive
    <3>2. \A q : Answered(q)' => Answered(q)
      BY <2>1, <3>1, AcksLeft DEF Answered
    <3> QED
      BY <2>1, <3>1, <3>2 DEF TypeOK, Wire, Asks
  <2> QED
    BY <1>2, <1>3, <2>1 DEF Receive, Teardown
<1>4. CASE \E t \in Tasks : SendSubscribe(t)
  <2>0. PICK t \in Tasks : SendSubscribe(t)
    BY <1>4
  <2>1. PICK b \in Batches(todo[t]), r \in ReqIds :
           /\ Fresh(r) /\ pending' = [pending EXCEPT ![r] = b] /\ s2c' = s2c
           /\ c2s' = Append(c2s, [op |-> "subscribe", req |-> r, symbols |-> b])
    BY <2>0 DEF SendSubscribe
  <2>2. b \in SUBSET Symbols
    BY BatchesOf DEF TypeOK
  <2> QED
    BY <2>1, <2>2, WireSubscribe
<1>5. CASE \E t \in Tasks : SubscribeFails(t)
  <2>1. CASE SubscribeFails("sync")
    BY <1>2, <2>1 DEF SubscribeFails, link, Locking, Connected
  <2>2. CASE SubscribeFails("run")
    BY <1>2, <2>2 DEF SubscribeFails, Teardown
  <2> QED
    BY <1>5, <2>1, <2>2
<1>6. CASE SendUnsubscribe
  <2>1. PICK b \in Batches(todo["sync"]) :
           /\ pc["sync"] = "unsub" /\ UNCHANGED <<pending, s2c>>
           /\ c2s' = Append(c2s, [op |-> "unsubscribe", req |-> None, symbols |-> b])
    BY <1>6 DEF SendUnsubscribe, view
  <2>2. b \in SUBSET Symbols /\ \A r \in ReqIds : b \intersect pending[r] = {}
    BY <2>1, BatchesOf DEF TypeOK, Leaving
  <2> QED
    BY <2>1, <2>2, WireUnsubscribe
<1>7. CASE ServerTakes
  BY <1>7, WireServed
<1>8. CASE RegistryChanges \/ PollEnds \/ SyncLoads \/ SyncSets \/ SyncDrops \/ Unsubscribe
           \/ UnsubscribeSent \/ UnsubscribeFails \/ (\E t \in Tasks : Resubscribe(t))
           \/ (\E t \in Tasks : SubscribeSent(t)) \/ UNCHANGED vars
           \/ (\E r \in ReqIds : AckWindowPasses(r))
  BY <1>1, <1>8 DEF RegistryChanges, PollEnds, SyncLoads, SyncSets, SyncDrops, Unsubscribe,
     UnsubscribeSent, UnsubscribeFails, Resubscribe, SubscribeSent, AckWindowPasses, vars,
     view, link
<1>9. CASE Connect \/ Disconnect \/ PollFails \/ ReceiveNothing \/ StreamStale
  BY <1>2, <1>9 DEF Connect, Disconnect, PollFails, ReceiveNothing, StreamStale, Teardown
<1> QED
  BY <1>3, <1>4, <1>5, <1>6, <1>7, <1>8, <1>9 DEF Next, Connection, Subscription, Sync

-------------------------------------------------------------------------------
(* Confirmed, so streamed *)

LEMMA AcksOnTheirWay ==
    ASSUME TypeOK
    PROVE  /\ Len(s2c) \in Nat
           /\ \A i \in 1 .. Len(s2c) : s2c[i] \in Acks /\ s2c[i].req \in ReqIds
<1>1. Len(s2c) \in Nat /\ \A i \in 1 .. Len(s2c) : s2c[i] \in Acks
  BY ElementOfSeq, LenProperties DEF TypeOK
<1> QED
  BY <1>1 DEF Acks

\* Safe after a step.
SafeNext(S) ==
    /\ S \subseteq subs'
    /\ \A k \in 1 .. Len(c2s') : c2s'[k].op # "subscribe" => c2s'[k].symbols \intersect S = {}

LEMMA StreamedIf ==
    ASSUME alive' => /\ SafeNext(Kept')
                     /\ \A i \in 1 .. Len(s2c') :
                           s2c'[i].success => SafeNext(pending'[s2c'[i].req])
    PROVE  Streamed'
  BY DEF Streamed, Safe, SafeNext, Asks

LEMMA SafeKept ==
    ASSUME NEW S, NEW T, Safe(S), T \subseteq S, UNCHANGED <<c2s, subs>>
    PROVE  SafeNext(T)
  BY DEF Safe, SafeNext, Asks

LEMMA SafeAppended ==
    ASSUME TypeOK, NEW m \in Frames, c2s' = Append(c2s, m), subs' = subs,
           NEW S, NEW T, Safe(S), T \subseteq S,
           m.op = "subscribe" \/ m.symbols \intersect T = {}
    PROVE  SafeNext(T)
<1>1. /\ Len(c2s) \in Nat /\ Len(c2s') = Len(c2s) + 1 /\ c2s'[Len(c2s) + 1] = m
      /\ \A k \in 1 .. Len(c2s) : c2s'[k] = c2s[k]
  BY AppendTo DEF TypeOK
<1>2. \A k \in 1 .. Len(c2s') : k \in 1 .. Len(c2s) \/ k = Len(c2s) + 1
  BY <1>1
<1> QED
  BY <1>1, <1>2 DEF Safe, SafeNext, Asks

LEMMA SafeTaken ==
    ASSUME TypeOK, ServerTakes, NEW S, Safe(S)
    PROVE  SafeNext(S)
<1>1. /\ c2s # <<>> /\ c2s' = Tail(c2s)
      /\ \/ subs \subseteq subs'
         \/ Head(c2s).op = "unsubscribe" /\ subs' = subs \ Head(c2s).symbols
  BY DEF ServerTakes
<1>2. /\ 1 \in 1 .. Len(c2s) /\ Head(c2s) = c2s[1]
      /\ \A k \in 1 .. Len(c2s') : c2s'[k] = c2s[k + 1] /\ k + 1 \in 1 .. Len(c2s)
  BY <1>1, FirstFrame
<1>3. S \subseteq subs'
  BY <1>1, <1>2 DEF Safe, Asks
<1> QED
  BY <1>2, <1>3 DEF Safe, SafeNext, Asks

\* Nothing new is confirmed, asked for or sent.
LEMMA StreamedKept ==
    ASSUME TypeOK, Streamed, alive' => alive, UNCHANGED <<c2s, s2c, subs>>,
           Kept' \subseteq Kept, \A r \in ReqIds : pending'[r] \subseteq pending[r]
    PROVE  Streamed'
<1>1. alive' => SafeNext(Kept')
  BY SafeKept DEF Streamed
<1>2. ASSUME alive', NEW i \in 1 .. Len(s2c'), s2c'[i].success
      PROVE  SafeNext(pending'[s2c'[i].req])
  <2>1. /\ s2c'[i].req = s2c[i].req /\ s2c[i].req \in ReqIds /\ Safe(pending[s2c[i].req])
    BY <1>2, AcksOnTheirWay DEF Streamed
  <2>2. pending'[s2c'[i].req] \subseteq pending[s2c[i].req]
    BY <2>1
  <2> QED
    BY <2>1, <2>2, SafeKept
<1> QED
  BY <1>1, <1>2, StreamedIf

\* A new connection, or none.
LEMMA StreamedNothing ==
    ASSUME ~ alive' \/ (c2s' = <<>> /\ s2c' = <<>> /\ confirmed' = {})
    PROVE  Streamed'
<1>1. CASE ~ alive'
  BY <1>1 DEF Streamed
<1>2. CASE c2s' = <<>> /\ s2c' = <<>> /\ confirmed' = {}
  <2>1. 1 .. Len(c2s') = {} /\ 1 .. Len(s2c') = {} /\ Kept' = {}
    BY <1>2, EmptySeq DEF Kept
  <2> QED
    BY <2>1 DEF Streamed, Safe
<1> QED
  BY <1>1, <1>2

LEMMA StreamedReceive ==
    ASSUME TypeOK, Streamed, Receive, ~ \E why : Teardown(why)
    PROVE  Streamed'
<1> DEFINE q == Head(s2c).req
<1>1. /\ s2c # <<>> /\ s2c' = Tail(s2c) /\ UNCHANGED <<alive, c2s, pc, batch, subs>>
      /\ pending' = [pending EXCEPT ![q] = {}]
      /\ confirmed' = confirmed \/ (Head(s2c).success /\ confirmed' = confirmed \union pending[q])
  BY DEF Receive, send, world
<1>2. q = s2c[1].req /\ Head(s2c).success = s2c[1].success /\ q \in ReqIds /\ 1 \in 1 .. Len(s2c)
  BY <1>1, FirstAck
<1> HIDE DEF q
<1>3. SUFFICES ASSUME alive PROVE Streamed'
  BY <1>1 DEF Streamed
<1>4. SafeNext(Kept')
  <2>1. CASE confirmed' = confirmed
    <3>1. Kept' = Kept
      BY <1>1, <2>1 DEF Kept
    <3> QED
      BY <1>1, <1>3, <3>1, SafeKept DEF Streamed
  <2>2. CASE Head(s2c).success /\ confirmed' = confirmed \union pending[q]
    <3>1. Kept' \subseteq Kept \union pending[q]
      BY <1>1, <2>2 DEF Kept
    <3>2. Safe(Kept) /\ Safe(pending[q])
      BY <1>2, <1>3, <2>2 DEF Streamed
    <3>3. Safe(Kept \union pending[q])
      BY <3>2 DEF Safe
    <3> QED
      BY <1>1, <3>1, <3>3, SafeKept
  <2> QED
    BY <1>1, <2>1, <2>2
<1>5. ASSUME NEW i \in 1 .. Len(s2c'), s2c'[i].success
      PROVE  SafeNext(pending'[s2c'[i].req])
  <2>1. i + 1 \in 1 .. Len(s2c) /\ s2c'[i] = s2c[i + 1] /\ s2c[i + 1].req \in ReqIds
    BY <1>1, AcksLeft, AcksOnTheirWay
  <2>2. Safe(pending[s2c[i + 1].req])
    BY <1>3, <1>5, <2>1 DEF Streamed
  <2>3. pending'[s2c'[i].req] \subseteq pending[s2c[i + 1].req]
    BY <1>1, <2>1 DEF TypeOK
  <2> QED
    BY <1>1, <2>2, <2>3, SafeKept
<1> QED
  BY <1>4, <1>5, StreamedIf

LEMMA StreamedSubscribe ==
    ASSUME TypeOK, Locking, Streamed, NEW t \in Tasks, SendSubscribe(t)
    PROVE  Streamed'
<1>1. PICK b \in Batches(todo[t]), r \in ReqIds :
         /\ Fresh(r) /\ pending' = [pending EXCEPT ![r] = b]
         /\ batch' = [batch EXCEPT ![t] = b]
         /\ c2s' = Append(c2s, [op |-> "subscribe", req |-> r, symbols |-> b])
         /\ pc[t] = "sub" /\ UNCHANGED <<confirmed, pc, alive, s2c, subs>>
  BY DEF SendSubscribe, world
<1> DEFINE m == [op |-> "subscribe", req |-> r, symbols |-> b]
<1>2. m \in Frames /\ m.op = "subscribe"
  BY BatchesOf DEF TypeOK, Frames
<1>3. c2s' = Append(c2s, m)
  BY <1>1
<1> HIDE DEF m
<1>4. SUFFICES ASSUME alive PROVE Streamed'
  BY <1>1 DEF Streamed
<1>5. Kept' = Kept
  BY <1>1, TheTasks DEF Kept, TypeOK, Locking
<1>6. SafeNext(Kept')
  BY <1>1, <1>2, <1>3, <1>4, <1>5, SafeAppended DEF Streamed
<1>7. ASSUME NEW i \in 1 .. Len(s2c'), s2c'[i].success
      PROVE  SafeNext(pending'[s2c'[i].req])
  <2>1. /\ s2c'[i] = s2c[i] /\ s2c[i].req \in ReqIds /\ s2c[i].req # r
    BY <1>1, AcksOnTheirWay DEF Fresh, Answerable, Answered
  <2>2. pending'[s2c'[i].req] = pending[s2c[i].req] /\ Safe(pending[s2c[i].req])
    BY <1>1, <1>4, <1>7, <2>1 DEF TypeOK, Streamed
  <2> QED
    BY <1>1, <1>2, <1>3, <2>2, SafeAppended
<1> QED
  BY <1>6, <1>7, StreamedIf

LEMMA StreamedUnsubscribe ==
    ASSUME TypeOK, Locking, Leaving, Streamed, SendUnsubscribe
    PROVE  Streamed'
<1>1. PICK b \in Batches(todo["sync"]) :
         /\ batch' = [batch EXCEPT !["sync"] = b]
         /\ c2s' = Append(c2s, [op |-> "unsubscribe", req |-> None, symbols |-> b])
         /\ pc["sync"] = "unsub" /\ sending["sync"] = "none"
         /\ UNCHANGED <<confirmed, pending, pc, alive, s2c, subs>>
  BY DEF SendUnsubscribe, world, view
<1> DEFINE m == [op |-> "unsubscribe", req |-> None, symbols |-> b]
<1>2. m \in Frames /\ m.symbols = b
  <2>1. b \in SUBSET Symbols
    BY BatchesOf, TheTasks DEF TypeOK
  <2> QED
    BY <2>1 DEF Frames
<1>3. c2s' = Append(c2s, m)
  BY <1>1
<1> HIDE DEF m
<1>4. SUFFICES ASSUME alive PROVE Streamed'
  BY <1>1 DEF Streamed
<1>5. Kept' \subseteq Kept /\ b \intersect Kept' = {}
  BY <1>1, TheTasks DEF Kept, TypeOK, Locking
<1>6. SafeNext(Kept')
  BY <1>1, <1>2, <1>3, <1>4, <1>5, SafeAppended DEF Streamed
<1>7. ASSUME NEW i \in 1 .. Len(s2c'), s2c'[i].success
      PROVE  SafeNext(pending'[s2c'[i].req])
  <2>1. /\ pending'[s2c'[i].req] = pending[s2c[i].req] /\ Safe(pending[s2c[i].req])
        /\ s2c[i].req \in ReqIds
    BY <1>1, <1>4, <1>7, AcksOnTheirWay DEF Streamed
  <2>2. b \intersect pending[s2c[i].req] = {}
    BY <1>1, <2>1, BatchesOf DEF Leaving
  <2> QED
    BY <1>1, <1>2, <1>3, <2>1, <2>2, SafeAppended
<1> QED
  BY <1>6, <1>7, StreamedIf

LEMMA StreamedServed ==
    ASSUME TypeOK, Wire, Streamed, ServerTakes
    PROVE  Streamed'
<1>1. alive /\ c2s # <<>> /\ UNCHANGED <<confirmed, pending, pc, batch>>
  BY DEF ServerTakes, view, send
<1>2. Kept' = Kept
  BY <1>1 DEF Kept
<1>3. SafeNext(Kept')
  BY <1>1, <1>2, SafeTaken DEF Streamed
<1>4. \A i \in 1 .. Len(s2c) : s2c[i].success => SafeNext(pending[s2c[i].req])
  BY <1>1, SafeTaken DEF Streamed
<1>5. CASE s2c' = s2c
  BY <1>1, <1>3, <1>4, <1>5, StreamedIf
<1>6. CASE s2c' # s2c
  <2>1. PICK ok \in BOOLEAN :
           /\ s2c' = Append(s2c, [req |-> Head(c2s).req, success |-> ok])
           /\ Head(c2s).op = "subscribe"
           /\ ok => subs' = subs \union Head(c2s).symbols
    BY <1>6 DEF ServerTakes
  <2>2. /\ 1 \in 1 .. Len(c2s) /\ Head(c2s) = c2s[1] /\ Head(c2s).req \in ReqIds
        /\ c2s' = Tail(c2s)
        /\ \A k \in 1 .. Len(c2s') :
              c2s'[k] = c2s[k + 1] /\ k + 1 \in 1 .. Len(c2s) /\ 1 < k + 1
    BY <1>1, <2>1, FirstFrame DEF ServerTakes, Frames
  <2>3. pending[Head(c2s).req] = Head(c2s).symbols
    BY <2>1, <2>2 DEF Wire, Asks
  <2>4. ok => SafeNext(pending[Head(c2s).req])
    <3>1. ok => pending[Head(c2s).req] \subseteq subs'
      BY <2>1, <2>3
    <3>2. \A k \in 1 .. Len(c2s') : c2s'[k].op # "subscribe" =>
             c2s'[k].symbols \intersect pending[Head(c2s).req] = {}
      BY <2>1, <2>2, <2>3 DEF Wire, Asks
    <3> QED
      BY <3>1, <3>2 DEF SafeNext
  <2> DEFINE a == [req |-> Head(c2s).req, success |-> ok]
  <2>5. a \in Acks /\ a.req = Head(c2s).req /\ a.success = ok /\ s2c' = Append(s2c, a)
    BY <2>1, <2>2 DEF Acks
  <2> HIDE DEF a
  <2>6. /\ Len(s2c) \in Nat /\ Len(s2c') = Len(s2c) + 1 /\ s2c'[Len(s2c) + 1] = a
        /\ \A k \in 1 .. Len(s2c) : s2c'[k] = s2c[k]
    BY <2>5, AppendTo DEF TypeOK
  <2>7. \A k \in 1 .. Len(s2c') : k \in 1 .. Len(s2c) \/ k = Len(s2c) + 1
    BY <2>6
  <2>8. \A i \in 1 .. Len(s2c') : s2c'[i].success => SafeNext(pending'[s2c'[i].req])
    BY <1>1, <1>4, <2>4, <2>5, <2>6, <2>7
  <2> QED
    BY <1>3, <2>8, StreamedIf
<1> QED
  BY <1>5, <1>6

LEMMA StreamedNext ==
    /\ TypeOK /\ Locking /\ Connected /\ Leaving /\ Wire /\ Streamed
    /\ [Next]_vars
    => Streamed'
<1> SUFFICES ASSUME TypeOK, Locking, Connected, Leaving, Wire, Streamed, [Next]_vars
             PROVE  Streamed'
  OBVIOUS
<1> USE TheTasks
<1>0. ASSUME NEW why, Teardown(why) PROVE Streamed'
  BY <1>0, StreamedNothing DEF Teardown
<1>1. CASE RegistryChanges \/ SyncLoads \/ SyncSets \/ SyncDrops \/ UNCHANGED vars
  <2>1. /\ UNCHANGED <<confirmed, pending, alive, c2s, s2c, subs, batch>>
        /\ pc'["sync"] = "unsub" <=> pc["sync"] = "unsub"
    BY <1>1 DEF RegistryChanges, SyncLoads, SyncSets, SyncDrops, vars, world, view, link, send,
       TypeOK
  <2>2. Kept' = Kept
    BY <2>1 DEF Kept
  <2> QED
    BY <2>1, <2>2, StreamedKept
<1>2. CASE Connect
  BY <1>2, StreamedNothing DEF Connect
<1>3. CASE Disconnect
  <2>1. ~ alive'
    BY <1>3, Zenon DEF Disconnect
  <2> QED
    BY <2>1, StreamedNothing
<1>4. CASE PollEnds \/ (\E r \in ReqIds : AckWindowPasses(r))
  <2>1. /\ UNCHANGED <<confirmed, pending, alive, c2s, s2c, subs, batch>>
        /\ pc'["sync"] = pc["sync"]
    BY <1>4 DEF PollEnds, AckWindowPasses, world, view, link, send, TypeOK
  <2>2. Kept' = Kept
    BY <2>1 DEF Kept
  <2> QED
    BY <2>1, <2>2, StreamedKept
<1>5. CASE PollFails \/ ReceiveNothing \/ StreamStale
  BY <1>0, <1>5 DEF PollFails, ReceiveNothing, StreamStale
<1>6. CASE Receive
  BY <1>0, <1>6, StreamedReceive
<1>7. CASE \E t \in Tasks : Resubscribe(t) \/ SubscribeSent(t)
  <2>1. PICK t \in Tasks : Resubscribe(t) \/ SubscribeSent(t)
    BY <1>7
  <2>2. /\ UNCHANGED <<confirmed, pending, alive, c2s, s2c, subs>>
        /\ pc'["sync"] = "unsub" <=> pc["sync"] = "unsub"
        /\ pc["sync"] = "unsub" => batch'["sync"] = batch["sync"]
    BY <2>1 DEF Resubscribe, SubscribeSent, world, view, link, TypeOK, Locking
  <2>3. Kept' = Kept
    BY <2>2 DEF Kept
  <2> QED
    BY <2>2, <2>3, StreamedKept
<1>8. CASE \E t \in Tasks : SendSubscribe(t)
  BY <1>8, StreamedSubscribe
<1>9. CASE \E t \in Tasks : SubscribeFails(t)
  <2>1. CASE SubscribeFails("sync")
    <3>1. /\ UNCHANGED <<confirmed, alive, c2s, s2c, subs>> /\ pc["sync"] = "sub"
          /\ pc'["sync"] = "idle" /\ \A r \in ReqIds : pending'[r] \subseteq pending[r]
      BY <2>1 DEF SubscribeFails, SyncRaises, link, world, TypeOK
    <3>2. Kept' = Kept
      BY <3>1 DEF Kept
    <3> QED
      BY <3>1, <3>2, StreamedKept
  <2>2. CASE SubscribeFails("run")
    BY <1>0, <2>2 DEF SubscribeFails
  <2> QED
    BY <1>9, <2>1, <2>2
<1>10. CASE Unsubscribe
  <2>1. /\ UNCHANGED <<confirmed, pending, alive, c2s, s2c, subs>>
        /\ pc["sync"] = "waitUnsub"
        /\ batch'["sync"] = {}
    BY <1>10 DEF Unsubscribe, world, view, link, Locking
  <2>2. Kept' = Kept
    BY <2>1 DEF Kept
  <2> QED
    BY <2>1, <2>2, StreamedKept
<1>11. CASE SendUnsubscribe
  BY <1>11, StreamedUnsubscribe
<1>12. CASE UnsubscribeSent
  <2>1. /\ UNCHANGED <<pending, alive, c2s, s2c, subs>> /\ pc["sync"] = "unsub"
        /\ confirmed' = confirmed \ batch["sync"]
    BY <1>12 DEF UnsubscribeSent, world, link
  <2>2. Kept' \subseteq Kept
    BY <2>1 DEF Kept
  <2> QED
    BY <2>1, <2>2, StreamedKept
<1>13. CASE UnsubscribeFails
  <2>1. /\ UNCHANGED <<confirmed, pending, alive, c2s, s2c, subs>>
        /\ alive => sending["sync"] = "dead"
    BY <1>13 DEF UnsubscribeFails, world, view, link
  <2>2. CASE ~ alive
    BY <2>1, <2>2, StreamedNothing
  <2>3. CASE alive
    <3>1. confirmed = {}
      BY <2>1, <2>3 DEF Locking, Connected
    <3>2. Kept' \subseteq Kept
      BY <2>1, <3>1 DEF Kept
    <3> QED
      BY <2>1, <3>2, StreamedKept
  <2> QED
    BY <2>2, <2>3
<1>14. CASE ServerTakes
  BY <1>14, StreamedServed
<1> QED
  BY <1>1, <1>2, <1>3, <1>4, <1>5, <1>6, <1>7, <1>8, <1>9, <1>10, <1>11, <1>12, <1>13, <1>14
  DEF Next, Connection, Subscription, Sync

-------------------------------------------------------------------------------
(* The theorems *)

LEMMA InvInit == Init => Inv
<1> SUFFICES ASSUME Init PROVE Inv
  OBVIOUS
<1>1. TypeOK
  BY TypeInit
<1>2. Locking /\ Connected
  BY TheTasks DEF Init, Locking, Connected
<1>3. Once /\ Leaving /\ Requested
  BY TheTasks DEF Init, Once, Leaving, Requested
<1>4. 1 .. Len(c2s) = {}
  BY EmptySeq DEF Init
<1>5. Wire /\ Streamed
  BY <1>4 DEF Init, Wire, Streamed
<1> QED
  BY <1>1, <1>2, <1>3, <1>5 DEF Inv

LEMMA InvNext == Inv /\ [Next]_vars => Inv'
  BY TypeNext, LockingNext, OnceNext, RequestedNext, WireNext, StreamedNext DEF Inv

LEMMA Invariance == Spec => []Inv
  BY InvInit, InvNext, PTL DEF Spec

\* The stream keeps its shape: what TypeOK says of the two tasks, their lock and
\* their view of the connection (BybitWebSocketClient).
THEOREM SubscriptionTypes == Spec => []TypeOK
<1>1. Inv => TypeOK
  BY DEF Inv
<1> QED
  BY <1>1, Invariance, PTL

\* No topic is asked for twice on one connection, whichever of resubscribe() on
\* the new connection and sync_subscriptions() gets the lock first: what is
\* worked out as missing under _subscription_lock is still missing when it is sent.
THEOREM AskedForOnce == Spec => []NoDoubleRequest
<1>1. Inv => NoDoubleRequest
  <2> SUFFICES ASSUME Inv PROVE NoDoubleRequest
    OBVIOUS
  <2>1. confirmed \intersect pending_symbols = {}
    BY AskedFor DEF Inv, Once
  <2> QED
    BY <2>1 DEF Inv, Once, NoDoubleRequest
<1> QED
  BY <1>1, Invariance, PTL

\* A working connection between syncs has every desired topic confirmed or
\* pending: neither task relies on the other to ask for it.
THEOREM DesiredIsNotLost == Spec => []DesiredIsRequested
<1>1. Inv => DesiredIsRequested
  <2> SUFFICES ASSUME Inv, ws, alive, lock = None, pc["run"] \in {"poll", "listen"},
                      pc["sync"] \in {"idle", "loaded", "subDone", "waitUnsub"},
                      NEW x \in desired
               PROVE  x \in confirmed \union pending_symbols
    BY DEF DesiredIsRequested
  <2>1. todo["run"] = {}
    BY TheTasks DEF Inv, Locking
  <2> QED
    BY <2>1, AskedFor DEF Inv, Requested
<1> QED
  BY <1>1, Invariance, PTL

\* _subscribed holds only what Bybit streams on this connection, whatever was
\* refused, lost, sent again or unsubscribed in between.
THEOREM ConfirmedMeansStreamed == Spec => []ConfirmedIsStreamed
<1>1. Inv => ConfirmedIsStreamed
  BY DEF Inv, Streamed, Safe, Kept, ConfirmedIsStreamed
<1> QED
  BY <1>1, Invariance, PTL
================================================================================
