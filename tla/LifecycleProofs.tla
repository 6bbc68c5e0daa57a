---------------------------- MODULE LifecycleProofs ----------------------------
(***************************************************************************)
(* For any migrations, tasks, timeouts, retries and page sizes, and any    *)
(* number of processes and faults: the database outlives what works on it, *)
(* the schema is that of its version, a message has no holes, its row says *)
(* what Telegram has, and a list read page by page is complete.            *)
(***************************************************************************)
EXTENDS Lifecycle, FiniteSetTheorems, WellFoundedInduction, TLAPS

Quiet == tasks = {} /\ writer = "nobody" /\ worker \in {"none", "ended"}

\* The order of start() and shutdown(): what each stage may rely on.
Order ==
    /\ db # "open" => Quiet
    /\ stage \in Starting \union {"running", "stop"} => db = "open"
    /\ stage \in Gone \union {"connect"} => Quiet
    /\ stage = "connect" => worker = "none"
    /\ stage = "cancel" /\ worker # "none" => db = "open"
    /\ stage \in Starting \ {"spawn"} => tasks = {}
    /\ stage \in {"stop", "commit"} => tasks = {} /\ writer = "nobody"
    /\ stage = "stop" => worker # "none"
    /\ stage = "commit" => Quiet
    /\ writer # "nobody" => writer \in tasks

-------------------------------------------------------------------------------
(* The database outlives what works on it *)

LEMMA OrderInit == Init => Order
  BY DEF Init, Order, Quiet, Starting, Gone

LEMMA OrderStart ==
    ASSUME Order, Start \/ StartFails \/ Crash
    PROVE  Order'
<1> USE DEF Order, Quiet, Starting, Gone, main, loops, dispatcher
<1>1. CASE Boot \/ Crash
  BY <1>1 DEF Boot, Crash, Volatile
<1>2. CASE Connect \/ MigrationStatement \/ MigrationCommit
  BY <1>2 DEF Connect, MigrationStatement, MigrationCommit, Migrating
<1>3. CASE Advance
  BY <1>3 DEF Advance, NextStage
<1>4. CASE StartServices \/ StartSockets \/ SpawnLoops
  BY <1>4, LifecycleAssumption DEF StartServices, StartSockets, SpawnLoops
<1>5. CASE Discover
  BY <1>5 DEF Discover, Asking
<1>6. CASE Discovered
  BY <1>6 DEF Discovered
<1>7. CASE StartFails
  BY <1>7 DEF StartFails
<1> QED
  BY <1>1, <1>2, <1>3, <1>4, <1>5, <1>6, <1>7 DEF Start

LEMMA OrderRun ==
    ASSUME Order,
           \/ Signal \/ \E l \in Loops : LoopBegins(l) \/ LoopCommits(l)
           \/ \E t \in Loops \union Sockets : TaskEnds(t)
    PROVE  Order'
<1> USE DEF Order, Quiet, Starting, Gone, main, loops, dispatcher
<1>1. CASE Signal
  BY <1>1 DEF Signal
<1>2. ASSUME NEW l \in Loops, LoopBegins(l) PROVE Order'
  BY <1>2 DEF LoopBegins
<1>3. ASSUME NEW l \in Loops, LoopCommits(l) PROVE Order'
  BY <1>3 DEF LoopCommits
<1>4. ASSUME NEW t \in Loops \union Sockets, TaskEnds(t) PROVE Order'
  BY <1>4 DEF TaskEnds
<1> QED
  BY <1>1, <1>2, <1>3, <1>4

LEMMA OrderWorker ==
    ASSUME Order, Worker \/ \E i \in Ids : RetryDue(i)
    PROVE  Order'
<1> USE DEF Order, Quiet, Starting, Gone, main, loops, dispatcher, WorkerOnly
<1>1. CASE Iterate \/ WaitEnds \/ SendStarts
  BY <1>1 DEF Iterate, WaitEnds, SendStarts
<1>2. CASE Send
  BY <1>2 DEF Send, Sending
<1>3. CASE Elapse
  BY <1>3 DEF Elapse
<1>4. CASE Settle
  BY <1>4 DEF Settle
<1>5. ASSUME NEW i \in Ids, RetryDue(i) PROVE Order'
  BY <1>5 DEF RetryDue
<1> QED
  BY <1>1, <1>2, <1>3, <1>4, <1>5 DEF Worker

LEMMA OrderShutdown ==
    ASSUME Order, Shutdown \/ CommitFails
    PROVE  Order'
<1> USE DEF Order, Quiet, Starting, Gone, main, loops, dispatcher
<1>1. CASE Leave \/ StopCalled
  BY <1>1 DEF Leave, StopCalled
<1>2. CASE StopReturns \/ StopTimesOut
  BY <1>2 DEF StopReturns, StopTimesOut
<1>3. CASE CommitAndClose \/ CommitFails
  BY <1>3 DEF CommitAndClose, CommitFails
<1> QED
  BY <1>1, <1>2, <1>3 DEF Shutdown

LEMMA OrderAlways == Spec => []Order
<1>1. Order /\ [Next]_vars => Order'
  <2> SUFFICES ASSUME Order, [Next]_vars PROVE Order'
    OBVIOUS
  <2>1. CASE UNCHANGED vars
    BY <2>1 DEF vars, main, loops, dispatcher, Order, Quiet
  <2> QED
    BY <2>1, OrderStart, OrderRun, OrderWorker, OrderShutdown DEF Next
<1> QED
  BY <1>1, OrderInit, PTL DEF Spec

\* Nothing that works on the database outlives its connection, whichever way
\* shutdown() was reached (main.py:83-106).
THEOREM DatabaseOutlivesTasks == Spec => []NothingOutlivesDatabase
<1>1. Order => NothingOutlivesDatabase
  BY DEF Order, Quiet, NothingOutlivesDatabase
<1> QED
  BY <1>1, OrderAlways, PTL
-------------------------------------------------------------------------------
(* The schema is that of its version *)

Schema == schema.version \in 0 .. Len(Statements) /\ SchemaFollowsVersion

\* One more migration adds its statements.
LEMMA MadeGrows ==
    ASSUME NEW v \in Nat
    PROVE  Made(v + 1) = Made(v) \union Part(v + 1, Statements[v + 1])
<1>1. 1 .. v + 1 = (1 .. v) \union {v + 1}
  OBVIOUS
<1> QED
  BY <1>1 DEF Made

LEMMA SchemaKept ==
    ASSUME [Next]_vars, ~MigrationCommit
    PROVE  UNCHANGED schema
<1>1. CASE Start
  BY <1>1 DEF Start, Boot, Connect, MigrationStatement, Advance, StartServices,
              Discover, Asking, Discovered, StartSockets, SpawnLoops
<1>2. CASE StartFails \/ Signal \/ Crash
  BY <1>2 DEF StartFails, Signal, Crash
<1>3. CASE \E l \in Loops : LoopBegins(l) \/ LoopCommits(l)
  BY <1>3 DEF LoopBegins, LoopCommits
<1>4. CASE \E t \in Loops \union Sockets : TaskEnds(t)
  BY <1>4 DEF TaskEnds
<1>5. CASE Worker \/ \E i \in Ids : RetryDue(i)
  BY <1>5 DEF Worker, Iterate, WaitEnds, SendStarts, Send, Sending, Elapse, Settle,
              RetryDue, WorkerOnly
<1>6. CASE Shutdown \/ CommitFails
  BY <1>6 DEF Shutdown, Leave, StopCalled, StopReturns, StopTimesOut, CommitAndClose,
              CommitFails
<1>7. CASE UNCHANGED vars
  BY <1>7 DEF vars
<1> QED
  BY <1>1, <1>2, <1>3, <1>4, <1>5, <1>6, <1>7 DEF Next

\* What is committed are whole migrations up to the recorded version, whenever
\* a process is killed or its start fails (migrations.py:140-149).
THEOREM SchemaIsWhole == Spec => []SchemaFollowsVersion
<1>1. Init => Schema
  <2>1. Len(Statements) \in Nat
    BY LifecycleAssumption
  <2> QED
    BY <2>1 DEF Init, Schema, SchemaFollowsVersion
<1>2. Schema /\ [Next]_vars => Schema'
  <2> SUFFICES ASSUME Schema, [Next]_vars PROVE Schema'
    OBVIOUS
  <2>1. CASE MigrationCommit
    <3>1. /\ schema.version \in Nat /\ schema.version < Len(Statements)
          /\ Len(Statements) \in Nat
      BY <2>1, LifecycleAssumption DEF MigrationCommit, Migrating, Schema
    <3>2. /\ schema'.version = schema.version + 1
          /\ schema'.made = schema.made \union Part(schema.version + 1,
                                                    Statements[schema.version + 1])
      BY <2>1 DEF MigrationCommit, Migration
    <3> QED
      BY <3>1, <3>2, MadeGrows DEF Schema, SchemaFollowsVersion
  <2>2. CASE ~MigrationCommit
    BY <2>2, SchemaKept DEF Schema, SchemaFollowsVersion
  <2> QED
    BY <2>1, <2>2
<1>3. Schema => SchemaFollowsVersion
  BY DEF Schema
<1> QED
  BY <1>1, <1>2, <1>3, PTL DEF Spec
-------------------------------------------------------------------------------
(* A message has no holes *)

CallStep ==
    \/ T!Start \/ T!Elapse \/ T!ChunkTaken \/ T!PostFails \/ T!PostUnclear
    \/ T!PostRefused \/ T!SleepEnds \/ T!Forget

CallType ==
    [at : {"none", "posting", "sleeping"} \union T!Outcomes,
     chunk : 1 .. Chunks, attempt : 0 .. MaxRetries, left : Nat]

\* Chunks before the current one are taken, later ones are not, and the current
\* one as often at most as its attempts have failed.
Message ==
    /\ call \in CallType
    /\ taken \in [1 .. Chunks -> Nat]
    /\ T!InProgress => taken[call.chunk] <= call.attempt
    /\ call.at = "accepted" => call.chunk = Chunks /\ taken[Chunks] > 0
    /\ \A c \in 1 .. Chunks : /\ c < call.chunk => taken[c] > 0
                              /\ c > call.chunk => taken[c] = 0
                              /\ taken[c] <= MaxRetries + 1

LEMMA MessageConstants ==
    /\ Chunks \in Nat /\ Chunks > 0 /\ MaxRetries \in Nat /\ PostMax \in Nat
    /\ \A n \in 1 .. MaxRetries : Backoffs[n] \in Nat
  BY LifecycleAssumption DEF T!TelegramConstants

LEMMA CallSteps ==
    ASSUME [Next]_vars
    PROVE  CallStep \/ UNCHANGED telegram
<1> USE DEF CallStep, telegram
<1>1. CASE Start
  BY <1>1 DEF Start, Boot, Volatile, Connect, MigrationStatement, MigrationCommit,
              Advance, StartServices, Discover, Asking, Discovered, StartSockets,
              SpawnLoops
<1>2. CASE StartFails \/ Signal \/ Crash
  BY <1>2 DEF StartFails, Signal, Crash, Volatile
<1>3. CASE \E l \in Loops : LoopBegins(l) \/ LoopCommits(l)
  BY <1>3 DEF LoopBegins, LoopCommits
<1>4. CASE \E t \in Loops \union Sockets : TaskEnds(t)
  BY <1>4 DEF TaskEnds
<1>5. CASE Worker \/ \E i \in Ids : RetryDue(i)
  BY <1>5 DEF Worker, Iterate, WaitEnds, SendStarts, Send, Sending, Elapse, Settle,
              RetryDue
<1>6. CASE Shutdown \/ CommitFails
  BY <1>6 DEF Shutdown, Leave, StopCalled, StopReturns, StopTimesOut, CommitAndClose,
              CommitFails
<1>7. CASE UNCHANGED vars
  BY <1>7 DEF vars
<1> QED
  BY <1>1, <1>2, <1>3, <1>4, <1>5, <1>6, <1>7 DEF Next

\* A step within a chunk's attempts, that may add a copy of the chunk.
LEMMA MessageKept ==
    ASSUME Message, call' \in CallType, call'.chunk = call.chunk,
           call'.at # "accepted", call.attempt <= call'.attempt,
           NEW n \in {0, 1}, taken' = [taken EXCEPT ![call.chunk] = @ + n],
           n = 1 => T!InProgress,
           call'.at \in {"posting", "sleeping"} =>
               T!InProgress /\ call.attempt + n <= call'.attempt
    PROVE  Message'
<1> USE MessageConstants DEF Message, CallType
<1>1. call.chunk \in 1 .. Chunks /\ call.attempt \in Nat /\ call'.attempt \in Nat
  OBVIOUS
<1>2. \A c \in 1 .. Chunks : taken'[c] = IF c = call.chunk THEN taken[c] + n ELSE taken[c]
  OBVIOUS
<1>3. taken' \in [1 .. Chunks -> Nat]
  OBVIOUS
<1>4. T!InProgress' => taken'[call'.chunk] <= call'.attempt
  BY <1>1, <1>2 DEF T!InProgress
<1>5. ASSUME NEW c \in 1 .. Chunks
      PROVE  /\ c < call'.chunk => taken'[c] > 0
             /\ c > call'.chunk => taken'[c] = 0
             /\ taken'[c] <= MaxRetries + 1
  BY <1>1, <1>2
<1> QED
  BY <1>3, <1>4, <1>5

LEMMA MessageStep ==
    ASSUME Message, CallStep
    PROVE  Message'
<1> USE MessageConstants DEF Message, CallType, T!Outcomes
<1>0. /\ call.chunk \in 1 .. Chunks /\ call.attempt \in 0 .. MaxRetries /\ call.left \in Nat
      /\ taken \in [1 .. Chunks -> Nat]
      /\ taken = [taken EXCEPT ![call.chunk] = @ + 0]
  OBVIOUS
<1>1. CASE T!Start
  <2>1. PICK d \in 0 .. PostMax : call' = T!Post(1, 0, d)
    BY <1>1 DEF T!Start
  <2>2. /\ call' \in CallType /\ call'.at = "posting"
        /\ call'.chunk = 1 /\ call'.attempt = 0
    BY <2>1 DEF T!Post
  <2>3. taken' = [c \in 1 .. Chunks |-> 0]
    BY <1>1 DEF T!Start, T!Untaken
  <2> QED
    BY <2>2, <2>3 DEF T!InProgress
<1>2. CASE T!Elapse
  <2>1. /\ call' \in CallType /\ call'.at = call.at
        /\ call'.chunk = call.chunk /\ call'.attempt = call.attempt
    BY <1>2 DEF T!Elapse
  <2>2. /\ taken' = [taken EXCEPT ![call.chunk] = @ + 0] /\ T!InProgress
        /\ call.attempt + 0 <= call'.attempt /\ call.attempt <= call'.attempt
        /\ call'.at # "accepted"
    BY <1>0, <1>2, <2>1 DEF T!Elapse, T!InProgress
  <2> HIDE DEF Message, CallType
  <2> QED
    BY <2>1, <2>2, MessageKept
<1>3. CASE T!ChunkTaken
  <2>1. /\ call.at = "posting"
        /\ taken' = [taken EXCEPT ![call.chunk] = @ + 1]
    BY <1>3 DEF T!ChunkTaken, T!Posted, T!Take
  <2>2. /\ taken' \in [1 .. Chunks -> Nat] /\ taken[call.chunk] <= MaxRetries
        /\ \A c \in 1 .. Chunks :
              taken'[c] = IF c = call.chunk THEN taken[c] + 1 ELSE taken[c]
    BY <1>0, <2>1 DEF T!InProgress
  <2>3. CASE call.chunk = Chunks
    <3>1. call' = [call EXCEPT !.at = "accepted", !.left = 0]
      BY <1>3, <2>3 DEF T!ChunkTaken, T!Ends
    <3>2. /\ call' \in CallType /\ call'.at = "accepted"
          /\ call'.chunk = Chunks /\ call'.attempt = call.attempt
      BY <2>3, <3>1
    <3> QED
      BY <1>0, <2>2, <2>3, <3>2 DEF T!InProgress
  <2>4. CASE call.chunk # Chunks
    <3>1. PICK d \in 0 .. PostMax : call' = T!Post(call.chunk + 1, 0, d)
      BY <1>3, <2>4 DEF T!ChunkTaken
    <3>2. /\ call' \in CallType /\ call'.at = "posting"
          /\ call'.chunk = call.chunk + 1 /\ call'.attempt = 0
      BY <1>0, <2>4, <3>1 DEF T!Post
    <3>3. /\ call.chunk \in Nat /\ call.chunk < call'.chunk
          /\ call'.chunk = call.chunk + 1
      BY <1>0, <3>2
    <3>4. ASSUME NEW c \in 1 .. Chunks
          PROVE  /\ c < call'.chunk => taken'[c] > 0
                 /\ c > call'.chunk => taken'[c] = 0
                 /\ c = call'.chunk => taken'[c] = 0
                 /\ taken'[c] <= MaxRetries + 1
      <4>1. /\ c \in Nat /\ taken[c] \in Nat
            /\ taken'[c] = IF c = call.chunk THEN taken[c] + 1 ELSE taken[c]
        BY <1>0, <2>2
      <4>2. CASE c = call.chunk
        BY <2>2, <3>3, <4>1, <4>2
      <4>3. CASE c < call.chunk
        BY <3>3, <4>1, <4>3
      <4>4. CASE c > call.chunk
        BY <3>3, <4>1, <4>4
      <4> QED
        BY <3>3, <4>1, <4>2, <4>3, <4>4
    <3> QED
      <4>1. call'.chunk \in 1 .. Chunks /\ taken'[call'.chunk] = 0
        BY <3>2, <3>4
      <4>2. taken' \in [1 .. Chunks -> Nat] /\ call' \in CallType
        BY <2>2, <3>2
      <4>3. T!InProgress' => taken'[call'.chunk] <= call'.attempt
        BY <3>2, <4>1
      <4> HIDE DEF CallType
      <4> QED
        BY <3>2, <3>4, <4>2, <4>3
  <2> QED
    BY <2>3, <2>4
<1>4. CASE T!PostFails
  <2>1. PICK n \in {0, 1} : taken' = [taken EXCEPT ![call.chunk] = @ + n]
    BY <1>4 DEF T!PostFails, T!Take
  <2>2. call.at = "posting"
    BY <1>4 DEF T!PostFails, T!Posted
  <2>3. CASE call.attempt + 1 > MaxRetries
    <3>1. call' = [call EXCEPT !.at = "transient", !.left = 0]
      BY <1>4, <2>3 DEF T!PostFails, T!Ends
    <3>2. /\ call' \in CallType /\ call'.at = "transient"
          /\ call'.chunk = call.chunk /\ call'.attempt = call.attempt
      BY <3>1
    <3>3. T!InProgress /\ call.attempt <= call'.attempt
      BY <1>0, <2>2, <3>2 DEF T!InProgress
    <3> HIDE DEF Message, CallType
    <3> QED
      BY <2>1, <3>2, <3>3, MessageKept
  <2>4. CASE call.attempt + 1 <= MaxRetries
    <3>1. call' = T!Sleep(call.attempt + 1, Backoffs[call.attempt + 1])
      BY <1>0, <1>4, <2>4 DEF T!PostFails
    <3>2. Backoffs[call.attempt + 1] \in Nat
      BY <1>0, <2>4
    <3>3. /\ call' \in CallType /\ call'.at = "sleeping"
          /\ call'.chunk = call.chunk /\ call'.attempt = call.attempt + 1
      BY <1>0, <2>4, <3>1, <3>2 DEF T!Sleep
    <3> QED
      <4>1. call.attempt + n <= call'.attempt /\ call.attempt <= call'.attempt
        BY <1>0, <3>3
      <4>2. T!InProgress
        BY <2>2 DEF T!InProgress
      <4> HIDE DEF Message, CallType
      <4> QED
        BY <2>1, <3>3, <4>1, <4>2, MessageKept
  <2>5. call.attempt \in Nat /\ MaxRetries \in Nat
    BY <1>0
  <2> HIDE DEF Message, CallType
  <2> QED
    BY <2>3, <2>4, <2>5
<1>5. CASE T!PostUnclear
  <2>1. PICK n \in {0, 1} : taken' = [taken EXCEPT ![call.chunk] = @ + n]
    BY <1>5 DEF T!PostUnclear, T!Take
  <2>2. /\ call' \in CallType /\ call'.at = "transient"
        /\ call'.chunk = call.chunk /\ call'.attempt = call.attempt
    BY <1>5 DEF T!PostUnclear, T!Ends
  <2> QED
    <3>1. call.attempt <= call'.attempt /\ T!InProgress
      BY <1>0, <1>5, <2>2 DEF T!PostUnclear, T!Posted, T!InProgress
    <3>2. n = 1 => T!InProgress
      BY <3>1
    <3> HIDE DEF Message, CallType
    <3> QED
      BY <2>1, <2>2, <3>1, <3>2, MessageKept
<1>6. CASE T!PostRefused
  <2>1. /\ call' \in CallType /\ call'.at = "permanent"
        /\ call'.chunk = call.chunk /\ call'.attempt = call.attempt
    BY <1>6 DEF T!PostRefused, T!Ends
  <2>2. /\ taken' = [taken EXCEPT ![call.chunk] = @ + 0]
        /\ call.attempt <= call'.attempt
    BY <1>0, <1>6, <2>1 DEF T!PostRefused
  <2> HIDE DEF Message, CallType
  <2> QED
    BY <2>1, <2>2, MessageKept
<1>7. CASE T!SleepEnds
  <2>1. PICK d \in 0 .. PostMax : call' = T!Post(call.chunk, call.attempt, d)
    BY <1>7 DEF T!SleepEnds
  <2>2. /\ call' \in CallType /\ call'.at = "posting"
        /\ call'.chunk = call.chunk /\ call'.attempt = call.attempt
    BY <1>0, <2>1 DEF T!Post
  <2>3. /\ taken' = [taken EXCEPT ![call.chunk] = @ + 0] /\ T!InProgress
        /\ call.attempt + 0 <= call'.attempt /\ call.attempt <= call'.attempt
    BY <1>0, <1>7, <2>2 DEF T!SleepEnds, T!InProgress
  <2> HIDE DEF Message, CallType
  <2> QED
    BY <2>2, <2>3, MessageKept
<1>8. CASE T!Forget
  <2>1. /\ call' = [at |-> "none", chunk |-> 1, attempt |-> 0, left |-> 0]
        /\ taken' = [c \in 1 .. Chunks |-> 0]
    BY <1>8 DEF T!Forget, T!NoCall, T!Untaken
  <2> QED
    BY <2>1 DEF T!InProgress
<1> QED
  BY <1>1, <1>2, <1>3, <1>4, <1>5, <1>6, <1>7, <1>8 DEF CallStep

LEMMA MessageAlways == Spec => []Message
<1>1. Init => Message
  BY MessageConstants DEF Init, T!Init, T!NoCall, T!Untaken, Message, CallType, T!InProgress
<1>2. Message /\ [Next]_vars => Message'
  <2> SUFFICES ASSUME Message, [Next]_vars PROVE Message'
    OBVIOUS
  <2>1. CASE UNCHANGED telegram
    BY <2>1 DEF telegram, Message, CallType, T!InProgress
  <2> QED
    BY <2>1, CallSteps, MessageStep
<1> QED
  BY <1>1, <1>2, PTL DEF Spec

\* A chunk is taken only after those before it, and what passes for sent is
\* there without a hole (client.py:85-88).
THEOREM MessagesHaveNoHoles == Spec => []ChunksInOrder
<1>1. Message => ChunksInOrder
  <2> SUFFICES ASSUME Message PROVE ChunksInOrder
    OBVIOUS
  <2>1. ASSUME NEW c \in 1 .. Chunks, taken[c] > 0, NEW b \in 1 .. c
        PROVE  taken[b] > 0
    <3>1. c <= call.chunk /\ b \in 1 .. Chunks /\ call.chunk \in 1 .. Chunks
      BY <2>1, MessageConstants DEF Message, CallType
    <3> QED
      BY <2>1, <3>1 DEF Message
  <2>2. call.at = "accepted" => taken[Chunks] > 0
    BY DEF Message
  <2> QED
    BY <2>1, <2>2 DEF ChunksInOrder, T!ChunksInOrder
<1> QED
  BY <1>1, MessageAlways, PTL

\* Telegram takes no chunk more often in one call than it is posted: at most
\* telegram_max_retries + 1 times (client.py:123-134).
THEOREM CallsAreBounded == Spec => []T!TypeOK
<1>1. Message => T!TypeOK
  BY MessageConstants DEF Message, CallType, T!TypeOK, T!Outcomes
<1> QED
  BY <1>1, MessageAlways, PTL
-------------------------------------------------------------------------------
(* Rows and deliveries *)

\* What the worker holds are due rows.  What Telegram has in full is settled, in
\* doubt, or its answer has come and is about to be written.
Deliveries ==
    /\ stage \in {"connect", "migrate", "handlers", "services"} => worker = "none"
    /\ row \in [Ids -> {"absent", "pending", "retry", "sent", "dead"}]
    /\ batch \subseteq {i \in Ids : row[i] = "pending"}
    /\ worker \in {"next", "send"} => batch # {}
    /\ worker = "send" /\ Complete => Current \subseteq whole
    /\ \A i \in Ids :
          /\ row[i] = "sent" => i \in whole
          /\ i \in whole => \/ row[i] = "sent" \/ i \in doubt
                            \/ i \in Current /\ call.at = "accepted"

LEMMA NatMin ==
    ASSUME NEW S \in SUBSET Nat, S # {}
    PROVE  \E x \in S : \A y \in S : x <= y
<1>1. PICK x \in S : \A y \in S : <<y, x>> \notin OpToRel(<, Nat)
  BY NatLessThanWellFounded, WFMin
<1>2. \A y \in S : ~ (y < x)
  BY <1>1 DEF OpToRel
<1> QED
  BY <1>2

\* The worker delivers one row of its batch, and only while it sends.
LEMMA CurrentRow ==
    ASSUME Deliveries
    PROVE  /\ worker # "send" => Current = {}
           /\ worker = "send" => Current = {Min(batch)} /\ Min(batch) \in batch
<1>1. CASE worker # "send"
  BY <1>1 DEF Current
<1>2. CASE worker = "send"
  <2>1. batch \in SUBSET Nat /\ batch # {}
    BY <1>2, LifecycleAssumption DEF Deliveries
  <2>2. \E x \in batch : \A y \in batch : x <= y
    BY <2>1, NatMin
  <2>3. Min(batch) \in batch
    BY <2>2, Zenon DEF Min
  <2> QED
    BY <1>2, <2>3 DEF Current
<1> QED
  BY <1>1, <1>2

\* Telegram has the whole message exactly when the call is at its last chunk and
\* that one is taken.
LEMMA CompleteCall ==
    ASSUME Message
    PROVE  /\ call.at = "accepted" => Complete
           /\ Complete => call.chunk = Chunks /\ taken[Chunks] > 0
<1>1. /\ call.chunk \in 1 .. Chunks /\ Chunks \in 1 .. Chunks /\ taken \in [1 .. Chunks -> Nat]
  BY MessageConstants DEF Message, CallType
<1>2. call.at = "accepted" => Complete
  <2>1. \A c \in 1 .. Chunks : c < Chunks \/ c = Chunks
    BY MessageConstants
  <2> QED
    BY <1>1, <2>1 DEF Message, Complete
<1>3. ASSUME Complete PROVE call.chunk = Chunks /\ taken[Chunks] > 0
  <2>1. taken[Chunks] > 0 /\ (Chunks > call.chunk => taken[Chunks] = 0)
    BY <1>1, <1>3 DEF Message, Complete
  <2>2. ~ (Chunks > call.chunk)
    BY <2>1
  <2> QED
    BY <1>1, <2>1, <2>2, MessageConstants
<1> QED
  BY <1>2, <1>3

LEMMA CompleteAtLast == Message => (Complete => call.chunk = Chunks /\ taken[Chunks] > 0)
  BY CompleteCall

\* Steps of others: they change at most the status of rows that the worker does not
\* hold, and settle none.
LEMMA DeliveriesElsewhere ==
    ASSUME Deliveries, UNCHANGED <<worker, batch, telegram>>,
           stage' \in {"connect", "migrate", "handlers", "services"} =>
               stage \in {"connect", "migrate", "handlers", "services"},
           \/ UNCHANGED row
           \/ \E i \in Ids : /\ row[i] \in {"absent", "retry"}
                             /\ row' = [row EXCEPT ![i] = "pending"]
    PROVE  Deliveries'
<1>1. UNCHANGED <<worker, batch, call, Complete, Current, whole, doubt>>
  BY DEF telegram, history, Complete, Current
<1>2. CASE UNCHANGED row
  BY <1>1, <1>2 DEF Deliveries
<1>3. ASSUME NEW i \in Ids, row[i] \in {"absent", "retry"},
             row' = [row EXCEPT ![i] = "pending"]
      PROVE  Deliveries'
  <2>1. /\ row' \in [Ids -> {"absent", "pending", "retry", "sent", "dead"}]
        /\ \A j \in Ids : row'[j] = IF j = i THEN "pending" ELSE row[j]
    BY <1>3 DEF Deliveries
  <2>2. batch \subseteq {j \in Ids : row'[j] = "pending"}
    BY <2>1 DEF Deliveries
  <2>3. \A j \in Ids : /\ row'[j] = "sent" <=> row[j] = "sent"
    BY <1>3, <2>1
  <2> QED
    BY <1>1, <2>1, <2>2, <2>3 DEF Deliveries
<1> QED
  BY <1>2, <1>3

\* The worker is lost, with the delivery in progress.
LEMMA DeliveriesCut ==
    ASSUME Deliveries, Message, Cut, UNCHANGED row, batch' = {},
           worker' \in {"none", "cancelled"},
           stage' \notin {"connect", "migrate", "handlers", "services"}
    PROVE  Deliveries'
<1>1. Current' = {}
  BY DEF Current
<1>2. /\ whole \subseteq whole' /\ doubt \subseteq doubt'
      /\ whole' \subseteq whole \union doubt'
      /\ call.at = "accepted" => Current \subseteq doubt'
  BY CompleteCall DEF Cut, history
<1> QED
  BY <1>1, <1>2 DEF Deliveries

\* The steps of the worker; only Settle changes a row.
LEMMA DeliveriesWorker ==
    ASSUME Deliveries, Message, Message', Worker
    PROVE  Deliveries'
<1>0. UNCHANGED stage
  BY DEF Worker, Iterate, WaitEnds, SendStarts, Send, Sending, Elapse, Settle, WorkerOnly, main
<1>1. CASE Iterate
  <2>1. /\ worker = "loop" /\ UNCHANGED <<row, call, taken, whole, doubt>>
        /\ worker' \in {"ended", "wait", "next"}
        /\ batch' = batch \/ batch' = {i \in Ids : row[i] = "pending"}
        /\ worker' = "next" => batch' # {}
    BY <1>1 DEF Iterate, telegram, history
  <2>2. Current = {} /\ Current' = {}
    BY <2>1 DEF Current
  <2> QED
    BY <1>0, <2>1, <2>2 DEF Deliveries
<1>2. CASE WaitEnds
  <2>1. worker = "wait" /\ worker' = "loop" /\ UNCHANGED <<row, batch, whole, doubt>>
    BY <1>2 DEF WaitEnds, telegram, history
  <2>2. Current = {} /\ Current' = {}
    BY <2>1 DEF Current
  <2> QED
    BY <1>0, <2>1, <2>2 DEF Deliveries
<1>3. CASE SendStarts
  <2>1. /\ worker = "next" /\ worker' = "send" /\ UNCHANGED <<row, batch, whole, doubt>>
        /\ taken' = [c \in 1 .. Chunks |-> 0]
    BY <1>3 DEF SendStarts, T!Start, T!Untaken, history
  <2>2. Current = {}
    BY <2>1 DEF Current
  <2>3. ~ Complete'
    <3>1. 1 \in 1 .. Chunks /\ ~ (0 > 0)
      BY MessageConstants
    <3> QED
      BY <2>1, <3>1 DEF Complete
  <2> QED
    BY <1>0, <2>1, <2>2, <2>3 DEF Deliveries
<1>4. CASE Elapse
  <2>1. /\ worker = "send" /\ UNCHANGED <<worker, row, batch, taken, whole, doubt>>
        /\ call.at \in {"posting", "sleeping"}
    BY <1>4 DEF Elapse, T!Elapse, T!InProgress, history
  <2>2. UNCHANGED <<Current, Complete>>
    BY <2>1 DEF Current, Complete
  <2> QED
    BY <1>0, <2>1, <2>2 DEF Deliveries
<1>5. CASE Send
  <2>1. /\ worker = "send" /\ UNCHANGED <<worker, row, batch, Current>>
        /\ whole' = whole \union (IF Complete' THEN Current ELSE {})
    BY <1>5 DEF Send, Sending, dispatcher, Current
  <2>2. call.at # "accepted"
    BY <1>5 DEF Send, Sending, T!ChunkTaken, T!SleepEnds, T!PostRefused, T!PostFails,
                T!PostUnclear, T!Posted
  <2>3. \/ Complete' => Current \subseteq doubt'
        \/ Complete' => call'.at = "accepted"
        \/ UNCHANGED Complete
    <3>1. CASE Sending(T!PostFails \/ T!PostUnclear, TRUE)
      BY <3>1 DEF Sending
    <3>2. CASE T!SleepEnds \/ T!PostRefused
      BY <3>2 DEF T!SleepEnds, T!PostRefused, Complete
    <3>3. CASE T!ChunkTaken
      <4>1. CASE call.chunk = Chunks
        BY <3>3, <4>1 DEF T!ChunkTaken, T!Ends, Message, CallType
      <4>2. CASE call.chunk # Chunks
        <5>1. call'.at = "posting" /\ call'.attempt = 0
          BY <3>3, <4>2 DEF T!ChunkTaken, T!Post
        <5>2. taken'[call'.chunk] <= 0
          BY <5>1 DEF Message, T!InProgress
        <5>3. Complete' => call'.chunk = Chunks /\ taken'[Chunks] > 0
          <6>1. Message' => (Complete => call.chunk = Chunks /\ taken[Chunks] > 0)'
            BY CompleteAtLast, PTL
          <6> QED
            BY <6>1
        <5>4. taken'[Chunks] \in Nat
          BY MessageConstants DEF Message
        <5> QED
          BY <5>2, <5>3, <5>4
      <4> QED
        BY <4>1, <4>2
    <3> QED
      BY <1>5, <3>1, <3>2, <3>3 DEF Send, Sending
  <2>4. doubt \subseteq doubt'
    BY <1>5 DEF Send, Sending
  <2>5. ASSUME NEW i \in Ids, i \in whole'
        PROVE  row[i] = "sent" \/ i \in doubt' \/ (i \in Current /\ call'.at = "accepted")
    <3>1. CASE i \in whole
      BY <2>2, <2>4, <3>1 DEF Deliveries
    <3>2. CASE i \notin whole
      <4>1. Complete' /\ i \in Current
        BY <2>1, <2>5, <3>2
      <4>2. ~ Complete
        BY <2>1, <3>2, <4>1 DEF Deliveries
      <4> QED
        BY <2>3, <4>1, <4>2
    <3> QED
      BY <3>1, <3>2
  <2> QED
    BY <1>0, <2>1, <2>5 DEF Deliveries
<1>6. CASE Settle
  <2> DEFINE i == Min(batch)
  <2>1. /\ worker = "send" /\ row' = [row EXCEPT ![i] = Outcome] /\ batch' = batch \ {i}
        /\ worker' = (IF batch' = {} THEN "loop" ELSE "next")
        /\ UNCHANGED <<whole, doubt>> /\ call.at \in T!Outcomes
    BY <1>6 DEF Settle, T!Answered, history
  <2>2. Current = {i} /\ i \in batch /\ i \in Ids /\ row[i] = "pending"
    BY <2>1, CurrentRow DEF Deliveries
  <2>3. /\ Outcome \in {"sent", "dead", "retry"}
        /\ Outcome = "sent" <=> call.at = "accepted"
    BY <2>1 DEF Outcome, T!Outcomes
  <2> HIDE DEF i
  <2>4. /\ row' \in [Ids -> {"absent", "pending", "retry", "sent", "dead"}]
        /\ \A j \in Ids : row'[j] = IF j = i THEN Outcome ELSE row[j]
    BY <2>1, <2>2, <2>3 DEF Deliveries
  <2>5. batch' \subseteq {j \in Ids : row'[j] = "pending"}
    BY <2>1, <2>4 DEF Deliveries
  <2>6. Current' = {}
    BY <2>1 DEF Current
  <2>7. row'[i] = "sent" => i \in whole
    BY <2>1, <2>2, <2>3, <2>4, CompleteCall DEF Deliveries
  <2>8. i \in whole => row'[i] = "sent" \/ i \in doubt
    BY <2>2, <2>3, <2>4 DEF Deliveries
  <2> QED
    BY <1>0, <2>1, <2>2, <2>4, <2>5, <2>6, <2>7, <2>8 DEF Deliveries
<1> QED
  BY <1>1, <1>2, <1>3, <1>4, <1>5, <1>6 DEF Worker

LEMMA DeliveriesStep ==
    ASSUME Order, Deliveries, Message, Message', [Next]_vars
    PROVE  Deliveries'
<1> DEFINE Apart == /\ UNCHANGED <<worker, batch, telegram>>
                    /\ stage' \in {"connect", "migrate", "handlers", "services"} =>
                           stage \in {"connect", "migrate", "handlers", "services"}
                    /\ \/ UNCHANGED row
                       \/ \E i \in Ids : /\ row[i] \in {"absent", "retry"}
                                         /\ row' = [row EXCEPT ![i] = "pending"]
<1>0. Apart => Deliveries'
  BY DeliveriesElsewhere
<1> HIDE DEF Deliveries
<1> USE DEF main, loops, dispatcher
<1>1. CASE Boot
  <2>1. /\ worker' = "none" /\ batch' = {} /\ UNCHANGED <<row, whole, doubt>>
        /\ worker # "send"
    BY <1>1 DEF Boot, Volatile, history, Order, Quiet
  <2>2. Current = {} /\ Current' = {}
    BY <2>1 DEF Current
  <2> QED
    BY <2>1, <2>2 DEF Deliveries
<1>2. CASE Crash
  BY <1>2, DeliveriesCut DEF Crash, Volatile
<1>3. CASE StopTimesOut
  BY <1>3, DeliveriesCut DEF StopTimesOut
<1>4. CASE StartServices
  <2>1. /\ stage = "services" /\ stage' = "reconcile" /\ worker' = "loop"
        /\ UNCHANGED <<row, batch, whole, doubt>>
    BY <1>4 DEF StartServices, telegram, history
  <2>2. worker = "none"
    BY <2>1 DEF Deliveries
  <2>3. Current = {} /\ Current' = {}
    BY <2>1, <2>2 DEF Current
  <2> QED
    BY <2>1, <2>3 DEF Deliveries
<1>5. CASE Worker
  BY <1>5, DeliveriesWorker
<1>6. CASE \/ Connect \/ MigrationStatement \/ MigrationCommit \/ Advance
           \/ Discover \/ Discovered \/ StartSockets \/ SpawnLoops
  <2>1. Apart
    BY <1>6 DEF Connect, MigrationStatement, MigrationCommit, Migrating, Advance, NextStage,
                Discover, Asking, Discovered, Inserts, StartSockets, SpawnLoops
  <2> QED
    BY <1>0, <2>1
<1>7. CASE StartFails \/ Signal \/ Leave \/ StopCalled \/ StopReturns \/ CommitAndClose \/ CommitFails
  <2>1. Apart
    BY <1>7 DEF StartFails, Signal, Leave, StopCalled, StopReturns, CommitAndClose, CommitFails
  <2> QED
    BY <1>0, <2>1
<1>8. CASE \/ \E l \in Loops : LoopBegins(l) \/ LoopCommits(l)
           \/ \E t \in Loops \union Sockets : TaskEnds(t)
  <2>1. Apart
    BY <1>8 DEF LoopBegins, LoopCommits, TaskEnds, Inserts
  <2> QED
    BY <1>0, <2>1
<1>9. CASE \E i \in Ids : RetryDue(i)
  <2>1. Apart
    BY <1>9 DEF RetryDue, WorkerOnly
  <2> QED
    BY <1>0, <2>1
<1>10. CASE UNCHANGED vars
  <2>1. Apart
    BY <1>10 DEF vars
  <2> QED
    BY <1>0, <2>1
<1> QED
  BY <1>1, <1>2, <1>3, <1>4, <1>5, <1>6, <1>7, <1>8, <1>9, <1>10 DEF Next, Start, Shutdown

\* However stop() and its timeout, kills, refusals and lost answers cut deliveries:
\* what passes for sent is at Telegram in full, and what is there in full is sent
\* again only after an answer or a process was lost (dispatcher.py:144-159, :206-212).
THEOREM RowsTellDeliveries == Spec => []RowsMatchDeliveries
<1>1. Init => Deliveries
  BY DEF Init, Deliveries, Current
<1>2. Order /\ Message /\ Message' /\ Deliveries /\ [Next]_vars => Deliveries'
  BY DeliveriesStep
<1>3. Deliveries => RowsMatchDeliveries
  BY DEF Deliveries, RowsMatchDeliveries
<1> QED
  BY <1>1, <1>2, <1>3, OrderAlways, MessageAlways, PTL DEF Spec
-------------------------------------------------------------------------------
(* A list read page by page is complete *)

\* What the pages read so far are worth: whatever was listed all the while is in
\* them or is still after the cursor.
Pages ==
    /\ listed \subseteq Symbols /\ steady \subseteq listed /\ listed \subseteq ever
    /\ results \subseteq ever
    /\ fetch \in [at : {"none", "asking", "sleeping", "done", "failed"},
                  attempts : Nat, cursor : Nat]
    /\ fetch.at \in {"asking", "sleeping"} =>
           \A s \in steady : s <= fetch.cursor => s \in results
    /\ fetch.at = "done" => steady \subseteq results

\* RestClient's instance has definitions of its own of what finite means.
LEMMA SameSets == \A S : /\ R!IsFiniteSet(S) <=> IsFiniteSet(S)
                         /\ R!Cardinality(S) = Cardinality(S)
<1>1. \A S : R!IsFiniteSet(S) <=> IsFiniteSet(S)
  BY DEF R!IsFiniteSet, IsFiniteSet
<1>2. \A S : R!Cardinality(S) = Cardinality(S)
  BY DEF R!Cardinality, Cardinality
<1> QED
  BY <1>1, <1>2

\* Some element of a finite set has the greatest value.
LEMMA GreatestValue ==
    ASSUME NEW S, IsFiniteSet(S), S # {}, NEW f \in [S -> Int]
    PROVE  \E x \in S : \A y \in S : f[y] <= f[x]
<1> DEFINE Above(x) == {y \in S : f[y] >= f[x]}
           A == {Above(x) : x \in S}
<1>1. IsWellFoundedOn(StrictSubsetOrdering(S), SUBSET S)
  BY FS_StrictSubsetOrderingWellFounded, FS_FiniteSubsetsOfFinite
<1>2. A \subseteq SUBSET S /\ A # {}
  <2>1. \A x \in S : Above(x) \in SUBSET S
    OBVIOUS
  <2>2. PICK x \in S : TRUE
    OBVIOUS
  <2>3. Above(x) \in A
    OBVIOUS
  <2> QED
    BY <2>1, <2>3
<1>3. PICK B \in A : \A C \in A : ~ (<<C, B>> \in StrictSubsetOrdering(S))
  BY <1>1, <1>2, WFMin
<1>4. PICK x \in S : B = Above(x)
  OBVIOUS
<1>5. ASSUME NEW y \in S, f[y] > f[x] PROVE FALSE
  <2>1. \A z \in S : f[z] \in Int
    OBVIOUS
  <2>2. x \in Above(x) /\ x \notin Above(y)
    BY <2>1, <1>5
  <2>3. \A z \in S : f[z] >= f[y] => f[z] >= f[x]
    BY <2>1, <1>5
  <2>4. Above(y) \subseteq Above(x)
    BY <2>3
  <2>5. <<Above(y), Above(x)>> \in StrictSubsetOrdering(S)
    BY <2>2, <2>4 DEF StrictSubsetOrdering
  <2> QED
    BY <2>5, <1>3, <1>4
<1> QED
  BY <1>5

LEMMA LeastElement ==
    ASSUME NEW S, S \subseteq Nat, IsFiniteSet(S), S # {}
    PROVE  \E x \in S : \A y \in S : x <= y
<1> DEFINE f == [x \in S |-> 0 - x]
<1>1. f \in [S -> Int]
  OBVIOUS
<1>2. PICK x \in S : \A y \in S : f[y] <= f[x]
  BY <1>1, GreatestValue
<1>3. \A y \in S : x <= y
  BY <1>2
<1> QED
  BY <1>3

LEMMA MaxIsGreatest ==
    ASSUME NEW S, S \subseteq Nat, IsFiniteSet(S), S # {}
    PROVE  R!Max(S) \in S /\ \A y \in S : y <= R!Max(S)
<1>1. PICK x \in S : \A y \in S : y <= x
  <2> DEFINE f == [x \in S |-> x]
  <2>1. f \in [S -> Int]
    OBVIOUS
  <2>2. PICK x \in S : \A y \in S : f[y] <= f[x]
    BY <2>1, GreatestValue
  <2> QED
    BY <2>2
<1>2. \A y \in S : x >= y
  BY <1>1
<1>3. \A y \in S : R!Max(S) >= y
  BY <1>2 DEF R!Max
<1> QED
  BY <1>2, <1>3 DEF R!Max

\* The page after a cursor: all that is left, or everything up to the next one.
LEMMA PageReachesCursor ==
    ASSUME Pages
    PROVE  /\ R!NextCursor \in Nat
           /\ \A s \in listed :
                 /\ s > fetch.cursor
                 /\ R!NextCursor = 0 \/ s <= R!NextCursor
                 => s \in R!Page
<1> DEFINE Left == R!After(fetch.cursor)
           Before(s) == {r \in Left : r < s}
<1>1. /\ listed \subseteq Nat \ {0} /\ IsFiniteSet(listed) /\ PageLimit \in Nat \ {0}
      /\ fetch.cursor \in Nat
  BY LifecycleAssumption, SameSets, FS_Subset DEF Pages, R!RestConstants
<1>2. Left \subseteq listed /\ IsFiniteSet(Left) /\ R!Page \subseteq Left
  BY <1>1, FS_Subset DEF R!After, R!Page
<1>3. CASE Left = R!Page
  BY <1>1, <1>3 DEF R!NextCursor, R!After
<1>4. CASE Left # R!Page
  <2>1. R!Page # {}
    <3>1. PICK x \in Left : \A y \in Left : x <= y
      BY <1>1, <1>2, <1>4, LeastElement
    <3>2. Before(x) = {}
      <4>1. \A r \in Left : ~ (r < x)
        <5>1. x \in Nat /\ \A r \in Left : r \in Nat /\ x <= r
          BY <1>1, <1>2, <3>1
        <5> QED
          BY <5>1
      <4> QED
        BY <4>1
    <3>3. Cardinality(Before(x)) < PageLimit
      BY <1>1, <3>2, FS_EmptySet
    <3> QED
      BY <3>3, SameSets DEF R!Page
  <2>2. /\ R!NextCursor = R!Max(R!Page) /\ R!NextCursor \in R!Page
        /\ R!NextCursor \in Nat \ {0}
    BY <1>1, <1>2, <1>4, <2>1, FS_Subset, MaxIsGreatest DEF R!NextCursor
  <2>3. ASSUME NEW s \in listed, s > fetch.cursor, s <= R!NextCursor
        PROVE  s \in R!Page
    <3>1. s \in Left
      BY <2>3 DEF R!After
    <3>2. Before(s) \subseteq Before(R!NextCursor)
      <4>1. \A r \in Left : r < s => r < R!NextCursor
        <5>1. s \in Nat /\ R!NextCursor \in Nat /\ \A r \in Left : r \in Nat
          BY <1>1, <1>2, <2>2
        <5> QED
          BY <2>3, <5>1
      <4> QED
        BY <4>1
    <3>3. IsFiniteSet(Before(R!NextCursor))
      BY <1>2, FS_Subset
    <3>4. /\ Cardinality(Before(s)) \in Nat
          /\ Cardinality(Before(s)) <= Cardinality(Before(R!NextCursor))
          /\ Cardinality(Before(R!NextCursor)) \in Nat
      BY <3>2, <3>3, FS_Subset, FS_CardinalityType
    <3>5. Cardinality(Before(R!NextCursor)) < PageLimit
      BY <2>2, SameSets DEF R!Page
    <3> QED
      BY <1>1, <3>1, <3>4, <3>5, SameSets DEF R!Page
  <2> QED
    BY <2>2, <2>3
<1> QED
  BY <1>3, <1>4

\* What a step does to the fetch, whatever else it does.
FetchStep ==
    \/ R!Start \/ R!PageArrives \/ R!RequestFails \/ R!RequestRefused \/ R!SleepEnds
    \/ R!Forget \/ \E s \in Symbols : R!Relist(s)

LEMMA FetchSteps ==
    ASSUME [Next]_vars
    PROVE  FetchStep \/ UNCHANGED rest
<1>1. CASE Start \/ StartFails \/ Crash
  <2>1. CASE Boot \/ Crash
    BY <2>1 DEF Boot, Crash, Volatile, FetchStep
  <2>2. CASE Connect \/ MigrationStatement \/ MigrationCommit \/ Advance \/ StartServices
    BY <2>2 DEF Connect, MigrationStatement, MigrationCommit, Advance, StartServices
  <2>3. CASE StartSockets \/ SpawnLoops
    BY <2>3 DEF StartSockets, SpawnLoops
  <2>4. CASE Discover
    BY <2>4 DEF Discover, Asking, FetchStep
  <2>5. CASE Discovered \/ StartFails
    BY <2>5 DEF Discovered, StartFails, FetchStep
  <2> QED
    BY <1>1, <2>1, <2>2, <2>3, <2>4, <2>5 DEF Start
<1>2. CASE \/ Signal \/ \E l \in Loops : LoopBegins(l) \/ LoopCommits(l)
           \/ \E t \in Loops \union Sockets : TaskEnds(t)
  BY <1>2 DEF Signal, LoopBegins, LoopCommits, TaskEnds
<1>3. CASE Worker \/ \E i \in Ids : RetryDue(i)
  <2>1. Worker \/ (\E i \in Ids : RetryDue(i)) => WorkerOnly
    BY DEF Worker, Iterate, WaitEnds, SendStarts, Send, Sending, Elapse, Settle, RetryDue
  <2> QED
    BY <1>3, <2>1 DEF WorkerOnly
<1>4. CASE Shutdown \/ CommitFails
  BY <1>4 DEF Shutdown, Leave, StopCalled, StopReturns, StopTimesOut, CommitAndClose,
              CommitFails
<1>5. CASE UNCHANGED vars
  BY <1>5 DEF vars
<1> QED
  BY <1>1, <1>2, <1>3, <1>4, <1>5 DEF Next

LEMMA PagesStep ==
    ASSUME Pages, FetchStep
    PROVE  Pages'
<1> USE LifecycleAssumption DEF Pages, R!RestConstants
<1>1. CASE R!Start
  BY <1>1 DEF R!Start, R!NoFetch
<1>2. CASE R!PageArrives
  <2>1. R!Page \subseteq listed
    BY DEF R!Page, R!After
  <2>2. /\ fetch' = [at |-> IF R!NextCursor = 0 THEN "done" ELSE "asking",
                     attempts |-> 0, cursor |-> R!NextCursor]
        /\ results' = results \union R!Page /\ fetch.at = "asking"
        /\ UNCHANGED <<listed, steady, ever>>
    BY <1>2 DEF R!PageArrives
  <2>3. ASSUME NEW s \in steady, R!NextCursor = 0 \/ s <= R!NextCursor
        PROVE  s \in results'
    <3>1. s \in Nat /\ fetch.cursor \in Nat
      OBVIOUS
    <3>2. CASE s <= fetch.cursor
      BY <2>2, <3>2
    <3>3. CASE s > fetch.cursor
      BY <2>2, <2>3, <3>3, PageReachesCursor
    <3> QED
      BY <3>1, <3>2, <3>3
  <2> QED
    BY <2>1, <2>2, <2>3, PageReachesCursor
<1>3. CASE R!RequestFails
  <2>1. PICK a \in {"failed", "sleeping"} :
            fetch' = [fetch EXCEPT !.attempts = @ + 1, !.at = a]
    <3>1. CASE fetch.attempts + 1 > RestRetries
      BY <1>3, <3>1 DEF R!RequestFails
    <3>2. CASE ~ (fetch.attempts + 1 > RestRetries)
      BY <1>3, <3>2 DEF R!RequestFails
    <3> QED
      BY <3>1, <3>2
  <2>2. fetch.attempts + 1 \in Nat
    OBVIOUS
  <2>3. /\ fetch' \in [at : {"none", "asking", "sleeping", "done", "failed"},
                       attempts : Nat, cursor : Nat]
        /\ fetch'.at = a /\ fetch'.cursor = fetch.cursor
    BY <2>1, <2>2
  <2> QED
    BY <1>3, <2>3 DEF R!RequestFails
<1>4. CASE R!RequestRefused \/ R!SleepEnds
  BY <1>4 DEF R!RequestRefused, R!SleepEnds
<1>5. CASE R!Forget
  BY <1>5 DEF R!Forget, R!NoFetch
<1>6. CASE \E s \in Symbols : R!Relist(s)
  BY <1>6 DEF R!Relist
<1> QED
  BY <1>1, <1>2, <1>3, <1>4, <1>5, <1>6 DEF FetchStep

\* A fetch that ends well has every symbol that was listed all the while and
\* none that never was, however the list moves between two pages and however
\* often a page is asked for (rest.py:170-190).
THEOREM ListsAreComplete == Spec => []PagesAreComplete
<1>1. Init => Pages
  BY DEF Init, R!Init, R!NoFetch, Pages
<1>2. Pages /\ [Next]_vars => Pages'
  <2> SUFFICES ASSUME Pages, [Next]_vars PROVE Pages'
    OBVIOUS
  <2>1. CASE UNCHANGED rest
    BY <2>1 DEF rest, Pages
  <2> QED
    BY <2>1, FetchSteps, PagesStep
<1>3. Pages => PagesAreComplete
  BY DEF Pages, PagesAreComplete, R!PagesAreComplete
<1> QED
  BY <1>1, <1>2, <1>3, PTL DEF Spec
===============================================================================
