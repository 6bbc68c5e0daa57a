----------------------- MODULE DatabaseConnectionProofs -----------------------
(***************************************************************************)
(* For any tasks, calls, refusals and cancellations: transactions are      *)
(* committed whole or not at all, and no task reads what is not committed. *)
(***************************************************************************)
EXTENDS DatabaseConnection, SequenceTheorems, TLAPS

Messages == [task : Tasks, call : 1 .. MaxCalls, op : Ops, awaited : BOOLEAN]
Writing == {"WRITE1", "WRITE2", "COMMIT"}

\* The line for the lock: who waits stands in it, once.
Line ==
    /\ \A k \in DOMAIN waiters : pc[waiters[k]] \in {"wait", "waitRead"}
    /\ \A j, k \in DOMAIN waiters : waiters[j] = waiters[k] => j = k

\* The holder of the lock is the one task with a statement under way.
Holder ==
    /\ \A t \in Tasks : pc[t] \in Ops <=> lock = t
    /\ \A t \in Tasks : pc[t] # "idle" => call[t] > 0
    /\ \A t \in Tasks : heard[t] # "none" => lock = t /\ queue = <<>>
    /\ \A t \in Tasks : heard[t] = "error" => pc[t] \notin {"READ", "ROLLBACK"}

\* The holder's statement is the last in the queue, until it is answered.  What
\* cancelled tasks have left is before it; of a transaction that is a write or
\* a COMMIT at the head, and its ROLLBACK next.
Queued ==
    /\ \A k \in DOMAIN queue : queue[k].awaited <=> k = Len(queue) /\ lock # None
    /\ lock # None /\ queue # <<>> =>
           queue[Len(queue)] = [task |-> lock, call |-> call[lock], op |-> pc[lock],
                                awaited |-> TRUE]
    /\ lock # None /\ queue = <<>> => heard[lock] # "none"
    /\ \A k \in DOMAIN queue :
          /\ queue[k].op \in Writing => k = 1
          /\ queue[k].op = "ROLLBACK" => k \in {1, 2}
          /\ k = 2 => (queue[2].op = "ROLLBACK" <=> queue[1].op \in Writing)
    /\ Len(queue) = 1 /\ queue[1].op \in Writing => queue[1].awaited

\* The first n writes of call c.
Of(c, n) == {<<c, k>> : k \in 1 .. n}

\* How many writes are open when a statement runs, and after it.
Before == [BEGIN |-> 0, READ |-> 0, WRITE1 |-> 0, WRITE2 |-> 1, COMMIT |-> 2]
Behind == [BEGIN |-> 0, READ |-> 0, WRITE1 |-> 1, WRITE2 |-> 2, COMMIT |-> 0,
           ROLLBACK |-> 0]

\* The open writes are those of the call whose statement is next; a ROLLBACK
\* does not care.
Store ==
    /\ queue # <<>> /\ queue[1].op # "ROLLBACK" =>
           open = Of(<<queue[1].task, queue[1].call>>, Before[queue[1].op])
    /\ queue = <<>> /\ lock = None => open = {}
    /\ queue = <<>> /\ lock # None =>
           /\ heard[lock] = "ok" => open = Of(<<lock, call[lock]>>, Behind[pc[lock]])
           /\ heard[lock] = "ok" /\ pc[lock] = "COMMIT" =>
                  <<<<lock, call[lock]>>, 1>> \in durable
           /\ heard[lock] = "error" /\ pc[lock] = "BEGIN" => open = {}

Inv == TypeOK /\ Line /\ Holder /\ Queued /\ Store /\ AllOrNothing

-------------------------------------------------------------------------------
(* Sequences *)

LEMMA TailOf ==
    ASSUME NEW S, NEW s \in Seq(S), s # <<>>
    PROVE  /\ Len(s) \in Nat \ {0} /\ Head(s) = s[1] /\ s[1] \in S
           /\ Tail(s) \in Seq(S) /\ Len(Tail(s)) = Len(s) - 1
           /\ DOMAIN Tail(s) = 1 .. Len(s) - 1
           /\ \A k \in 1 .. Len(s) - 1 : Tail(s)[k] = s[k + 1]
           /\ Tail(s) = <<>> <=> Len(s) = 1
<1>1. /\ Len(s) \in Nat \ {0} /\ s[1] \in S /\ Head(s) = s[1]
  BY EmptySeq, ElementOfSeq
<1>2. /\ Tail(s) \in Seq(S) /\ Len(Tail(s)) = Len(s) - 1
      /\ \A k \in 1 .. Len(s) - 1 : Tail(s)[k] = s[k + 1]
  BY HeadTailProperties
<1>3. DOMAIN Tail(s) = 1 .. Len(s) - 1
  BY <1>2, LenProperties
<1>4. Tail(s) = <<>> <=> Len(s) = 1
  <2>1. Len(<<>>) = 0 /\ (Tail(s) # <<>> => Len(Tail(s)) # 0)
    BY <1>2, EmptySeq
  <2>2. CASE Tail(s) = <<>>
    <3>1. Len(s) - 1 = 0
      BY <1>2, <2>1, <2>2
    <3> QED
      BY <1>1, <2>2, <3>1
  <2>3. CASE Tail(s) # <<>>
    BY <1>1, <1>2, <2>1, <2>3
  <2> QED
    BY <2>2, <2>3
<1> QED
  BY <1>1, <1>2, <1>3, <1>4

LEMMA AppendTo ==
    ASSUME NEW S, NEW s \in Seq(S), NEW e \in S
    PROVE  /\ Append(s, e) \in Seq(S) /\ Append(s, e) # <<>>
           /\ Len(Append(s, e)) = Len(s) + 1
           /\ DOMAIN Append(s, e) = 1 .. Len(s) + 1
           /\ \A k \in 1 .. Len(s) : Append(s, e)[k] = s[k]
           /\ Append(s, e)[Len(s) + 1] = e
  BY AppendProperties, LenProperties

\* What is left of a sequence without its k-th element.
LEMMA RemovedFrom ==
    ASSUME NEW S, NEW s \in Seq(S), NEW k \in 1 .. Len(s)
    PROVE  /\ RemoveAt(s, k) \in Seq(S)
           /\ Len(RemoveAt(s, k)) = Len(s) - 1
           /\ \A j \in 1 .. Len(s) - 1 :
                 RemoveAt(s, k)[j] = IF j < k THEN s[j] ELSE s[j + 1]
<1> DEFINE a == SubSeq(s, 1, k - 1)
           b == SubSeq(s, k + 1, Len(s))
<1>1. Len(s) \in Nat /\ k \in Int /\ \A i \in 1 .. Len(s) : s[i] \in S
  BY LenProperties, ElementOfSeq
<1>2. a \in Seq(S) /\ Len(a) = k - 1 /\ \A i \in 1 .. k - 1 : a[i] = s[i]
  BY <1>1, SubSeqProperties
<1>3. b \in Seq(S) /\ Len(b) = Len(s) - k /\ \A i \in 1 .. Len(s) - k : b[i] = s[k + i]
  BY <1>1, SubSeqProperties
<1>4. RemoveAt(s, k) = a \o b
  BY DEF RemoveAt
<1> HIDE DEF a, b
<1>5. /\ a \o b \in Seq(S) /\ Len(a \o b) = Len(s) - 1
      /\ \A j \in 1 .. Len(s) - 1 : (a \o b)[j] = IF j <= k - 1 THEN a[j] ELSE b[j - (k - 1)]
  BY <1>1, <1>2, <1>3, ConcatProperties
<1>6. ASSUME NEW j \in 1 .. Len(s) - 1
      PROVE  (a \o b)[j] = IF j < k THEN s[j] ELSE s[j + 1]
  <2>1. CASE j < k
    BY <1>1, <1>2, <1>5, <2>1
  <2>2. CASE ~ (j < k)
    <3>1. j - (k - 1) \in 1 .. Len(s) - k /\ ~ (j <= k - 1) /\ k + (j - (k - 1)) = j + 1
      BY <1>1, <2>2
    <3>2. b[j - (k - 1)] = s[j + 1]
      BY <1>3, <3>1
    <3> QED
      BY <1>5, <2>2, <3>1, <3>2
  <2> QED
    BY <2>1, <2>2
<1> QED
  BY <1>4, <1>5, <1>6

\* A sequence without the k-th of its elements has no other element more often.
LEMMA RemovedKeeps ==
    ASSUME NEW S, NEW s \in Seq(S), NEW k \in 1 .. Len(s), NEW r, r = RemoveAt(s, k),
           \A i, j \in 1 .. Len(s) : s[i] = s[j] => i = j
    PROVE  /\ r \in Seq(S) /\ DOMAIN r = 1 .. Len(s) - 1
           /\ \A i \in DOMAIN r :
                 r[i] # s[k] /\ \E j \in 1 .. Len(s) : r[i] = s[j]
           /\ \A i, j \in DOMAIN r : r[i] = r[j] => i = j
<1>1. /\ r \in Seq(S) /\ Len(r) = Len(s) - 1 /\ Len(s) \in Nat
      /\ DOMAIN r = 1 .. Len(s) - 1
      /\ \A j \in 1 .. Len(s) - 1 : r[j] = IF j < k THEN s[j] ELSE s[j + 1]
  <2>1. /\ r \in Seq(S) /\ Len(r) = Len(s) - 1
        /\ \A j \in 1 .. Len(s) - 1 : r[j] = IF j < k THEN s[j] ELSE s[j + 1]
    BY RemovedFrom
  <2> QED
    BY <2>1, LenProperties
<1>2. ASSUME NEW i \in 1 .. Len(s) - 1
      PROVE  r[i] # s[k] /\ \E j \in 1 .. Len(s) : r[i] = s[j]
  <2>1. CASE i < k
    BY <1>1, <2>1
  <2>2. CASE ~ (i < k)
    <3>1. i + 1 \in 1 .. Len(s) /\ i + 1 # k /\ r[i] = s[i + 1]
      BY <1>1, <2>2
    <3> QED
      BY <3>1
  <2> QED
    BY <2>1, <2>2
<1>3. ASSUME NEW i \in 1 .. Len(s) - 1, NEW j \in 1 .. Len(s) - 1, r[i] = r[j]
      PROVE  i = j
  <2> DEFINE up(n) == IF n < k THEN n ELSE n + 1
  <2>1. /\ up(i) \in 1 .. Len(s) /\ up(j) \in 1 .. Len(s)
        /\ r[i] = s[up(i)] /\ r[j] = s[up(j)]
    BY <1>1
  <2>2. up(i) = up(j)
    BY <1>3, <2>1
  <2> QED
    BY <1>1, <2>2
<1> QED
  BY <1>1, <1>2, <1>3
-------------------------------------------------------------------------------
(* The steps *)

LEMMA OfFew ==
    ASSUME NEW c
    PROVE  /\ Of(c, 0) = {} /\ Of(c, 1) = {<<c, 1>>} /\ Of(c, 2) = {<<c, 1>>, <<c, 2>>}
  BY DEF Of

LEMMA InvInit == Init => Inv
<1> SUFFICES ASSUME Init PROVE Inv
  OBVIOUS
<1>1. waiters = <<>> /\ queue = <<>> /\ Len(queue) = 0
  BY EmptySeq DEF Init
<1>2. DOMAIN waiters = {} /\ DOMAIN queue = {}
  BY <1>1
<1>3. TypeOK
  <2>1. waiters \in Seq(Tasks) /\ queue \in Seq(Messages)
    BY <1>1, EmptySeq
  <2>2. 0 \in 0 .. MaxCalls
    BY DatabaseAssumption
  <2> QED
    BY <2>1, <2>2 DEF Init, TypeOK, Messages
<1>4. Line /\ Queued /\ Store
  BY <1>1, <1>2 DEF Init, Line, Queued, Store
<1>5. Holder
  BY DatabaseAssumption DEF Init, Holder, Ops
<1>6. AllOrNothing
  BY DEF Init, AllOrNothing
<1> QED
  BY <1>3, <1>4, <1>5, <1>6 DEF Inv

LEMMA AskStep ==
    ASSUME Inv, NEW t \in Tasks, Ask(t)
    PROVE  Inv'
<1> USE DatabaseAssumption DEF Inv
<1>1. /\ waiters' \in Seq(Tasks) /\ Len(waiters) \in Nat
      /\ DOMAIN waiters' = 1 .. Len(waiters) + 1 /\ DOMAIN waiters = 1 .. Len(waiters)
      /\ \A k \in 1 .. Len(waiters) : waiters'[k] = waiters[k]
      /\ waiters'[Len(waiters) + 1] = t
  BY AppendTo, LenProperties DEF Ask, TypeOK
<1>2. /\ pc[t] = "idle" /\ lock # t /\ call' = [call EXCEPT ![t] = @ + 1]
      /\ UNCHANGED <<lock, tx_owner, heard, queue, sqlite, faults, cancels, told>>
  BY DEF Ask, Holder, Ops
<1>3. PICK w \in {"wait", "waitRead"} : pc' = [pc EXCEPT ![t] = w]
  BY DEF Ask
<1>4. TypeOK'
  BY <1>1, <1>2, <1>3 DEF Ask, TypeOK, sqlite
<1>5. Line'
  <2>1. \A k \in 1 .. Len(waiters) : waiters[k] \in Tasks /\ waiters[k] # t
    <3>1. \A k \in 1 .. Len(waiters) : waiters[k] \in Tasks
      BY ElementOfSeq DEF TypeOK
    <3> QED
      BY <1>1, <1>2, <3>1 DEF Line
  <2>2. \A k \in DOMAIN waiters' : pc'[waiters'[k]] \in {"wait", "waitRead"}
    <3>1. ASSUME NEW k \in 1 .. Len(waiters)
          PROVE  pc'[waiters'[k]] = pc[waiters[k]]
      BY <1>1, <1>3, <2>1 DEF TypeOK
    <3>2. pc'[waiters'[Len(waiters) + 1]] = w
      BY <1>1, <1>3 DEF TypeOK
    <3> QED
      BY <1>1, <1>3, <3>1, <3>2 DEF Line
  <2>3. ASSUME NEW j \in DOMAIN waiters', NEW k \in DOMAIN waiters',
               waiters'[j] = waiters'[k]
        PROVE  j = k
    BY <1>1, <2>1, <2>3 DEF Line
  <2> QED
    BY <2>2, <2>3 DEF Line
<1>6. Holder'
  BY <1>2, <1>3 DEF Holder, TypeOK, Ops
<1>7. Queued'
  BY <1>2, <1>3 DEF Queued, TypeOK
<1>8. Store'
  BY <1>2, <1>3 DEF Store, TypeOK, sqlite
<1>9. AllOrNothing'
  BY <1>2 DEF AllOrNothing, sqlite
<1> QED
  BY <1>4, <1>5, <1>6, <1>7, <1>8, <1>9

LEMMA AcquireStep ==
    ASSUME Inv, NEW t \in Tasks, Acquire(t)
    PROVE  Inv'
<1> USE DatabaseAssumption DEF Inv
<1> DEFINE op == IF pc[t] = "wait" THEN "BEGIN" ELSE "READ"
           m == [task |-> t, call |-> call[t], op |-> op, awaited |-> TRUE]
<1>1. /\ lock = None /\ lock' = t /\ pc' = [pc EXCEPT ![t] = op]
      /\ tx_owner' = (IF pc[t] = "wait" THEN t ELSE None)
      /\ queue' = Append(queue, m)
      /\ UNCHANGED <<call, heard, sqlite, faults, cancels, told>>
  BY DEF Acquire, HandOver
<1>2. /\ Len(waiters) \in Nat \ {0} /\ waiters[1] = t
      /\ waiters' \in Seq(Tasks) /\ DOMAIN waiters' = 1 .. Len(waiters) - 1
      /\ DOMAIN waiters = 1 .. Len(waiters)
      /\ \A k \in 1 .. Len(waiters) - 1 : waiters'[k] = waiters[k + 1]
  <2>1. waiters # <<>> /\ waiters \in Seq(Tasks) /\ Head(waiters) = t
        /\ waiters' = Tail(waiters)
    BY DEF Acquire, TypeOK
  <2> QED
    BY <2>1, TailOf, LenProperties
<1>3. pc[t] \in {"wait", "waitRead"} /\ call[t] \in 1 .. MaxCalls /\ op \in {"BEGIN", "READ"}
  <2>1. pc[t] \in {"wait", "waitRead"}
    BY <1>2 DEF Line
  <2> QED
    BY <2>1 DEF Holder, TypeOK
<1>4. m \in Messages
  BY <1>3 DEF Messages, Ops
<1>5. /\ queue' \in Seq(Messages) /\ Len(queue) \in Nat /\ Len(queue') = Len(queue) + 1
      /\ DOMAIN queue' = 1 .. Len(queue) + 1 /\ DOMAIN queue = 1 .. Len(queue)
      /\ \A k \in 1 .. Len(queue) : queue'[k] = queue[k]
      /\ queue'[Len(queue) + 1] = m /\ queue' # <<>>
      /\ queue = <<>> <=> Len(queue) = 0
  <2>1. queue \in Seq(Messages)
    BY DEF TypeOK, Messages
  <2> HIDE DEF m
  <2> QED
    BY <1>1, <1>4, <2>1, AppendTo, LenProperties, EmptySeq
<1> HIDE DEF op
<1>6. TypeOK'
  BY <1>1, <1>2, <1>3, <1>5 DEF TypeOK, sqlite, Messages, Ops
<1>7. Line'
  <2>1. \A k \in 1 .. Len(waiters) : waiters[k] \in Tasks
    BY <1>2, ElementOfSeq DEF TypeOK
  <2>2. ASSUME NEW k \in 1 .. Len(waiters) - 1
        PROVE  waiters'[k] = waiters[k + 1] /\ waiters'[k] # t /\ k + 1 \in 1 .. Len(waiters)
    <3>1. k + 1 \in 1 .. Len(waiters) /\ 1 \in 1 .. Len(waiters) /\ k + 1 # 1
      BY <1>2
    <3> QED
      BY <1>2, <3>1 DEF Line
  <2>3. \A k \in DOMAIN waiters' : pc'[waiters'[k]] \in {"wait", "waitRead"}
    <3>1. ASSUME NEW k \in 1 .. Len(waiters) - 1
          PROVE  pc'[waiters'[k]] = pc[waiters[k + 1]] /\ k + 1 \in DOMAIN waiters
      BY <1>1, <1>2, <2>1, <2>2 DEF TypeOK
    <3> QED
      BY <1>2, <3>1 DEF Line
  <2>4. ASSUME NEW j \in DOMAIN waiters', NEW k \in DOMAIN waiters',
               waiters'[j] = waiters'[k]
        PROVE  j = k
    <3>1. waiters[j + 1] = waiters[k + 1] /\ j \in Nat /\ k \in Nat
          /\ j + 1 \in DOMAIN waiters /\ k + 1 \in DOMAIN waiters
      BY <1>2, <2>2, <2>4
    <3> QED
      BY <3>1 DEF Line
  <2> QED
    BY <2>3, <2>4 DEF Line
<1>8. Holder'
  BY <1>1, <1>3 DEF Holder, TypeOK, Ops
<1>9. Queued'
  <2>1. \A k \in 1 .. Len(queue) : ~queue[k].awaited
    BY <1>1, <1>5 DEF Queued
  <2>2. m.awaited /\ m.op \in {"BEGIN", "READ"} /\ m.task = t
    BY <1>3
  <2>3. pc'[t] = op
    BY <1>1 DEF TypeOK
  <2>4. t # None
    OBVIOUS
  <2> HIDE DEF m
  <2>5. \A k \in DOMAIN queue' : queue'[k].awaited <=> k = Len(queue')
    BY <1>5, <2>1, <2>2
  <2>6. ASSUME NEW k \in DOMAIN queue'
        PROVE  /\ queue'[k].op \in Writing => k = 1
               /\ queue'[k].op = "ROLLBACK" => k \in {1, 2}
               /\ k = 2 => (queue'[2].op = "ROLLBACK" <=> queue'[1].op \in Writing)
    <3>1. CASE k \in 1 .. Len(queue)
      BY <1>5, <3>1 DEF Queued
    <3>2. CASE k = Len(queue) + 1
      <4>1. k = 2 => queue'[1].op \notin Writing
        BY <1>5, <2>1, <3>2 DEF Queued
      <4> QED
        BY <1>5, <2>2, <3>2, <4>1 DEF Writing
    <3> QED
      BY <1>5, <3>1, <3>2
  <2>7. Len(queue') = 1 => queue'[1].op \notin Writing
    BY <1>5, <2>2 DEF Writing
  <2>8. queue'[Len(queue')] = [task |-> t, call |-> call[t], op |-> pc'[t], awaited |-> TRUE]
    BY <1>5, <2>3 DEF m
  <2> QED
    BY <1>1, <1>5, <2>4, <2>5, <2>6, <2>7, <2>8 DEF Queued
<1>10. Store'
  <2>1. CASE queue = <<>>
    <3>1. queue'[1] = m /\ open = {}
      BY <1>1, <1>5, <2>1 DEF Store
    <3>2. m.op \in {"BEGIN", "READ"}
      BY <1>3
    <3> QED
      BY <1>1, <1>5, <3>1, <3>2, OfFew DEF Store, Before, sqlite
  <2>2. CASE queue # <<>>
    <3>1. queue'[1] = queue[1]
      BY <1>5, <2>2
    <3> QED
      BY <1>1, <1>5, <2>2, <3>1 DEF Store, sqlite
  <2> QED
    BY <2>1, <2>2
<1>11. AllOrNothing'
  BY <1>1 DEF AllOrNothing, sqlite
<1> QED
  BY <1>6, <1>7, <1>8, <1>9, <1>10, <1>11
\* What the holder of the lock does leaves the line alone.
LEMMA LineKept ==
    ASSUME Inv, NEW t \in Tasks, lock = t, NEW x, pc' = [pc EXCEPT ![t] = x],
           UNCHANGED waiters
    PROVE  Line'
<1>1. pc[t] \in Ops /\ \A k \in DOMAIN waiters : waiters[k] \in Tasks
  BY ElementOfSeq, LenProperties DEF Inv, Holder, TypeOK
<1>2. \A k \in DOMAIN waiters : waiters[k] # t
  BY <1>1 DEF Inv, Line, Ops
<1> QED
  BY <1>1, <1>2 DEF Inv, Line, TypeOK

\* Out of the block: nothing in the queue is awaited any more.
LEMMA LeaveStep ==
    ASSUME Inv, NEW t \in Tasks, lock = t,
           NEW how \in {"committed", "answered", "raised"}, Leave(t, how),
           heard' = [heard EXCEPT ![t] = "none"],
           queue' \in Seq(Messages), Len(queue') = Len(queue),
           \A k \in 1 .. Len(queue) : queue'[k] = [queue[k] EXCEPT !.awaited = FALSE],
           pc[t] \in {"BEGIN", "READ", "ROLLBACK"} \/ queue = <<>>,
           queue = <<>> => open = {},
           how = "committed" => <<<<t, call[t]>>, 1>> \in durable,
           cancels' \in Nat, UNCHANGED <<waiters, call, sqlite, faults>>
    PROVE  Inv'
<1> USE DatabaseAssumption DEF Inv
<1>1. /\ lock' = None /\ tx_owner' = None /\ pc' = [pc EXCEPT ![t] = "idle"]
      /\ told' = [told EXCEPT ![<<t, call[t]>>] = how] /\ t # None
  BY DEF Leave
<1>2. /\ Len(queue) \in Nat /\ DOMAIN queue = 1 .. Len(queue)
      /\ DOMAIN queue' = 1 .. Len(queue) /\ (queue = <<>> <=> Len(queue) = 0)
      /\ (queue' = <<>> <=> Len(queue) = 0)
      /\ \A k \in 1 .. Len(queue) : queue[k] \in Messages
  <2>1. queue \in Seq(Messages)
    BY DEF TypeOK, Messages
  <2>2. /\ Len(queue) \in Nat /\ DOMAIN queue = 1 .. Len(queue)
        /\ DOMAIN queue' = 1 .. Len(queue)
        /\ \A k \in 1 .. Len(queue) : queue[k] \in Messages
    BY <2>1, ElementOfSeq, LenProperties
  <2>3. (queue = <<>> <=> Len(queue) = 0) /\ (queue' = <<>> <=> Len(queue) = 0)
    BY <2>1, EmptySeq
  <2> QED
    BY <2>2, <2>3
<1>3. /\ \A k \in 1 .. Len(queue) :
            /\ queue'[k].op = queue[k].op /\ queue'[k].task = queue[k].task
            /\ queue'[k].call = queue[k].call /\ ~ queue'[k].awaited
  BY <1>2 DEF Messages
<1>4. pc[t] \in Ops /\ call[t] \in 1 .. MaxCalls
  <2>1. pc[t] \in Ops /\ call[t] \in 0 .. MaxCalls
    BY DEF Holder, TypeOK
  <2>2. call[t] > 0
    BY <2>1 DEF Holder, Ops
  <2> QED
    BY <2>1, <2>2
<1>5. TypeOK'
  BY <1>1, <1>4 DEF TypeOK, sqlite, Messages, Calls
<1>6. Line'
  BY <1>1, LineKept
<1>7. Holder'
  BY <1>1, <1>2 DEF Holder, TypeOK, Ops
<1>8. Queued'
  <2>1. Len(queue) = 1 => queue[1].op \notin Writing
    <3>1. Len(queue) = 1 => queue[1].op = pc[t]
      BY <1>1, <1>2 DEF Queued
    <3> QED
      BY <1>2, <3>1 DEF Writing
  <2>2. ASSUME NEW k \in 1 .. Len(queue)
        PROVE  /\ queue'[k].op \in Writing => k = 1
               /\ queue'[k].op = "ROLLBACK" => k \in {1, 2}
               /\ k = 2 => (queue'[2].op = "ROLLBACK" <=> queue'[1].op \in Writing)
    BY <1>2, <1>3 DEF Queued
  <2> QED
    BY <1>1, <1>2, <1>3, <2>1, <2>2 DEF Queued
<1>9. Store'
  <2>1. queue # <<>> => 1 \in 1 .. Len(queue)
    BY <1>2
  <2> QED
    BY <1>1, <1>2, <1>3, <2>1 DEF Store, sqlite
<1>10. AllOrNothing'
  BY <1>1, <1>4 DEF AllOrNothing, sqlite, TypeOK, Calls
<1> QED
  BY <1>5, <1>6, <1>7, <1>8, <1>9, <1>10

\* The holder hands over its next statement when the last one is answered.
LEMMA HandStep ==
    ASSUME Inv, NEW t \in Tasks, lock = t, NEW op \in Ops, HandOver(t, op, <<>>),
           heard' = [heard EXCEPT ![t] = "none"], queue = <<>>,
           op = "ROLLBACK" \/ open = Of(<<t, call[t]>>, Before[op]),
           cancels' \in Nat,
           UNCHANGED <<lock, tx_owner, waiters, call, sqlite, faults, told>>
    PROVE  Inv'
<1> USE DatabaseAssumption DEF Inv
<1> DEFINE m == [task |-> t, call |-> call[t], op |-> op, awaited |-> TRUE]
<1>1. pc[t] \in Ops /\ call[t] \in 1 .. MaxCalls /\ pc' = [pc EXCEPT ![t] = op]
  BY DEF Holder, TypeOK, Ops, HandOver
<1>2. m \in Messages
  BY <1>1 DEF Messages
<1>3. /\ queue' \in Seq(Messages) /\ Len(queue') = 1 /\ DOMAIN queue' = {1}
      /\ queue'[1] = m /\ queue' # <<>>
  <2>1. queue' = Append(<<>>, m) /\ <<>> \in Seq(Messages) /\ Len(<<>>) = 0
    BY EmptySeq DEF HandOver
  <2> HIDE DEF m
  <2> QED
    BY <1>2, <2>1, AppendTo
<1>4. TypeOK'
  BY <1>1, <1>3 DEF TypeOK, sqlite, Messages
<1>5. Line'
  BY <1>1, LineKept
<1>6. Holder'
  BY <1>1 DEF Holder, TypeOK, Ops
<1>7. Queued'
  BY <1>1, <1>3 DEF Queued, TypeOK
<1>8. Store'
  BY <1>3 DEF Store, sqlite
<1>9. AllOrNothing'
  BY DEF AllOrNothing, sqlite
<1> QED
  BY <1>4, <1>5, <1>6, <1>7, <1>8, <1>9

LEMMA ResumeStep ==
    ASSUME Inv, NEW t \in Tasks, Resume(t)
    PROVE  Inv'
<1>1. /\ heard[t] = "ok" /\ lock = t /\ t # None /\ queue = <<>> /\ pc[t] \in Ops
      /\ heard' = [heard EXCEPT ![t] = "none"]
      /\ UNCHANGED <<waiters, call, sqlite, faults, cancels>>
      /\ cancels' \in Nat
  BY DatabaseAssumption DEF Resume, Inv, Holder, TypeOK
<1>2. /\ open = Of(<<t, call[t]>>, Behind[pc[t]])
      /\ pc[t] = "COMMIT" => <<<<t, call[t]>>, 1>> \in durable
  BY <1>1 DEF Inv, Store
<1>3. CASE pc[t] \in {"BEGIN", "WRITE1", "WRITE2"}
  <2>1. HandOver(t, After[pc[t]], <<>>) /\ UNCHANGED <<lock, tx_owner, told>>
    BY <1>1, <1>3 DEF Resume
  <2>2. After[pc[t]] \in Ops /\ Behind[pc[t]] = Before[After[pc[t]]]
    BY <1>3 DEF After, Ops, Behind, Before
  <2> HIDE DEF After
  <2> QED
    BY <1>1, <1>2, <2>1, <2>2, HandStep
<1>4. CASE pc[t] \in {"COMMIT", "READ", "ROLLBACK"}
  <2>1. PICK how \in {"committed", "answered", "raised"} :
            /\ Leave(t, how) /\ UNCHANGED queue
            /\ how = "committed" => pc[t] = "COMMIT"
    BY <1>4 DEF Resume
  <2>2. open = {}
    BY <1>2, <1>4, OfFew DEF Behind
  <2>3. /\ queue' \in Seq(Messages) /\ Len(queue') = Len(queue)
        /\ \A k \in 1 .. Len(queue) : queue'[k] = [queue[k] EXCEPT !.awaited = FALSE]
    BY <1>1, <2>1, EmptySeq
  <2> QED
    BY <1>1, <1>2, <2>1, <2>2, <2>3, LeaveStep
<1> QED
  BY <1>1, <1>3, <1>4 DEF Ops

LEMMA RaiseStep ==
    ASSUME Inv, NEW t \in Tasks, Raise(t)
    PROVE  Inv'
<1>1. /\ heard[t] = "error" /\ lock = t /\ t # None /\ queue = <<>>
      /\ pc[t] \in Ops \ {"READ", "ROLLBACK"}
      /\ heard' = [heard EXCEPT ![t] = "none"]
      /\ UNCHANGED <<waiters, call, sqlite, faults, cancels>>
      /\ cancels' \in Nat
  BY DatabaseAssumption DEF Raise, Inv, Holder, TypeOK
<1>2. CASE pc[t] = "BEGIN"
  <2>1. Leave(t, "raised") /\ UNCHANGED queue
    BY <1>2 DEF Raise
  <2>2. open = {}
    BY <1>1, <1>2 DEF Inv, Store
  <2>3. /\ queue' \in Seq(Messages) /\ Len(queue') = Len(queue)
        /\ \A k \in 1 .. Len(queue) : queue'[k] = [queue[k] EXCEPT !.awaited = FALSE]
    BY <1>1, <2>1, EmptySeq
  <2> QED
    BY <1>1, <2>1, <2>2, <2>3, LeaveStep
<1>3. CASE pc[t] # "BEGIN"
  <2>1. HandOver(t, "ROLLBACK", <<>>) /\ UNCHANGED <<lock, tx_owner, told>>
    BY <1>1, <1>3 DEF Raise
  <2> QED
    BY <1>1, <2>1, HandStep DEF Ops
<1> QED
  BY <1>2, <1>3
LEMMA UnheardQueue ==
    ASSUME Inv, NEW t \in Tasks, lock = t
    PROVE  /\ Unheard(t) \in Seq(Messages) /\ Len(Unheard(t)) = Len(queue)
           /\ \A k \in 1 .. Len(queue) : Unheard(t)[k] = [queue[k] EXCEPT !.awaited = FALSE]
<1> USE DatabaseAssumption
<1>1. /\ queue \in Seq(Messages) /\ Len(queue) \in Nat /\ DOMAIN queue = 1 .. Len(queue)
      /\ \A k \in 1 .. Len(queue) : queue[k] \in Messages
  <2>1. queue \in Seq(Messages)
    BY DEF Inv, TypeOK, Messages
  <2> QED
    BY <2>1, ElementOfSeq, LenProperties
<1>2. t # None
  OBVIOUS
<1>3. ASSUME NEW k \in 1 .. Len(queue)
      PROVE  Unheard(t)[k] = [queue[k] EXCEPT !.awaited = FALSE]
  <2>1. CASE queue[k].task = t
    BY <1>1, <2>1 DEF Unheard
  <2>2. CASE queue[k].task # t
    <3>1. queue # <<>>
      BY <1>1, EmptySeq
    <3>2. queue[Len(queue)].task = t
      BY <1>2, <3>1 DEF Inv, Queued
    <3>3. ~ queue[k].awaited
      BY <1>1, <2>2, <3>2 DEF Inv, Queued
    <3>4. queue[k] = [queue[k] EXCEPT !.awaited = FALSE]
      BY <1>1, <3>3 DEF Messages
    <3> QED
      BY <1>1, <2>2, <3>4 DEF Unheard
  <2> QED
    BY <2>1, <2>2
<1>4. /\ DOMAIN Unheard(t) = 1 .. Len(queue)
      /\ \A k \in 1 .. Len(queue) : Unheard(t)[k] \in Messages
  BY <1>1, <1>3 DEF Unheard, Messages
<1>5. Unheard(t) \in [1 .. Len(queue) -> Messages]
  BY <1>1, <1>4 DEF Unheard
<1>6. Unheard(t) \in Seq(Messages)
  BY <1>1, <1>5, SeqDef
<1> QED
  BY <1>1, <1>3, <1>4, <1>6, LenProperties

LEMMA CancelStep ==
    ASSUME Inv, NEW t \in Tasks, Cancel(t)
    PROVE  Inv'
<1> USE DatabaseAssumption
<1>1. /\ pc[t] # "idle" /\ heard' = [heard EXCEPT ![t] = "none"] /\ cancels' \in Nat
      /\ UNCHANGED <<call, sqlite, faults>>
  BY DEF Cancel, Inv, TypeOK
<1>2. CASE pc[t] \in {"wait", "waitRead"}
  <2>1. PICK k \in DOMAIN waiters : waiters[k] = t /\ waiters' = RemoveAt(waiters, k)
    BY <1>2 DEF Cancel, Ops
  <2>2. /\ pc' = [pc EXCEPT ![t] = "idle"] /\ UNCHANGED <<lock, tx_owner, queue>>
        /\ told' = [told EXCEPT ![<<t, call[t]>>] = "raised"]
    BY <1>2 DEF Cancel
  <2>3. lock # t /\ call[t] \in 1 .. MaxCalls /\ pc[t] \notin Ops
    <3>1. lock # t /\ pc[t] \notin Ops
      BY <1>2 DEF Inv, Holder, Ops
    <3>2. call[t] > 0 /\ call[t] \in 0 .. MaxCalls
      BY <1>1 DEF Inv, Holder, TypeOK
    <3> QED
      BY <3>1, <3>2
  <2>4. heard' = heard
    BY <1>1, <2>3 DEF Inv, Holder, TypeOK
  <2>5. /\ waiters' \in Seq(Tasks)
        /\ \A i \in DOMAIN waiters' :
              waiters'[i] # t /\ \E j \in DOMAIN waiters : waiters'[i] = waiters[j]
        /\ \A i, j \in DOMAIN waiters' : waiters'[i] = waiters'[j] => i = j
    <3>1. waiters \in Seq(Tasks) /\ DOMAIN waiters = 1 .. Len(waiters)
      BY LenProperties DEF Inv, TypeOK
    <3>2. \A i, j \in 1 .. Len(waiters) : waiters[i] = waiters[j] => i = j
      BY <3>1 DEF Inv, Line
    <3>3. k \in 1 .. Len(waiters) /\ waiters[k] = t /\ waiters' = RemoveAt(waiters, k)
      BY <2>1, <3>1
    <3>4. /\ waiters' \in Seq(Tasks) /\ DOMAIN waiters' = 1 .. Len(waiters) - 1
          /\ \A i \in DOMAIN waiters' :
                /\ waiters'[i] # waiters[k]
                /\ \E j \in 1 .. Len(waiters) : waiters'[i] = waiters[j]
          /\ \A i, j \in DOMAIN waiters' : waiters'[i] = waiters'[j] => i = j
      BY <3>1, <3>2, <3>3, RemovedKeeps
    <3> QED
      BY <3>1, <3>3, <3>4
  <2>6. TypeOK'
    BY <1>1, <2>2, <2>3, <2>4, <2>5 DEF Inv, TypeOK, sqlite, Calls
  <2>7. Line'
    <3>1. \A j \in DOMAIN waiters : waiters[j] \in Tasks
      BY ElementOfSeq, LenProperties DEF Inv, TypeOK
    <3>2. ASSUME NEW i \in DOMAIN waiters'
          PROVE  pc'[waiters'[i]] \in {"wait", "waitRead"}
      BY <2>2, <2>5, <3>1 DEF Inv, Line, TypeOK
    <3> QED
      BY <2>5, <3>2 DEF Line
  <2>8. Holder'
    BY <1>1, <2>2, <2>3, <2>4 DEF Inv, Holder, TypeOK, Ops
  <2>9. Queued'
    BY <1>1, <2>2, <2>3, <2>4 DEF Inv, Queued, TypeOK
  <2>10. Store'
    BY <1>1, <2>2, <2>3, <2>4 DEF Inv, Store, TypeOK, sqlite
  <2>11. AllOrNothing'
    BY <1>1, <2>2, <2>3 DEF Inv, AllOrNothing, sqlite, TypeOK, Calls
  <2> QED
    BY <2>6, <2>7, <2>8, <2>9, <2>10, <2>11 DEF Inv
<1>3. CASE pc[t] \in {"BEGIN", "READ", "ROLLBACK"}
  <2>1. Leave(t, "raised") /\ queue' = Unheard(t) /\ UNCHANGED waiters
    BY <1>3 DEF Cancel
  <2>2. lock = t /\ t # None
    BY <1>3 DEF Inv, Holder, Ops
  <2>3. queue = <<>> => open = {}
    <3> SUFFICES ASSUME queue = <<>> PROVE open = {}
      OBVIOUS
    <3>1. heard[t] \in {"ok", "error"}
      BY <2>2 DEF Inv, Queued, TypeOK
    <3>2. CASE heard[t] = "ok"
      BY <1>3, <2>2, <3>2, OfFew DEF Inv, Store, Behind
    <3>3. CASE heard[t] = "error"
      BY <1>3, <2>2, <3>3 DEF Inv, Store, Holder
    <3> QED
      BY <3>1, <3>2, <3>3
  <2> QED
    BY <1>1, <1>3, <2>1, <2>2, <2>3, UnheardQueue, LeaveStep
<1>4. CASE pc[t] \in Writing
  <2>1. /\ HandOver(t, "ROLLBACK", Unheard(t)) /\ UNCHANGED <<lock, waiters, tx_owner, told>>
    BY <1>4 DEF Cancel, Writing
  <2>2. lock = t /\ t # None
    BY <1>4 DEF Inv, Holder, Writing, Ops
  <2>3. CASE queue = <<>>
    <3>1. Unheard(t) = <<>>
      BY <2>2, <2>3, UnheardQueue, EmptySeq
    <3> QED
      BY <1>1, <2>1, <2>2, <2>3, <3>1, HandStep DEF Ops
  <2>4. CASE queue # <<>>
    <3> DEFINE m == [task |-> t, call |-> call[t], op |-> "ROLLBACK", awaited |-> TRUE]
    <3>1. /\ pc[t] \in Ops /\ call[t] \in 1 .. MaxCalls /\ pc' = [pc EXCEPT ![t] = "ROLLBACK"]
      <4>1. call[t] > 0 /\ call[t] \in 0 .. MaxCalls
        BY <1>1 DEF Inv, Holder, TypeOK
      <4> QED
        BY <1>4, <2>1, <4>1 DEF HandOver, Writing, Ops
    <3>2. /\ Len(queue) = 1 /\ queue[1] \in Messages
          /\ queue[1].task = t /\ queue[1].call = call[t] /\ queue[1].op = pc[t]
      <4>1. queue \in Seq(Messages) /\ Len(queue) \in Nat \ {0}
        BY <2>4, EmptySeq DEF Inv, TypeOK, Messages
      <4>2. Len(queue) \in DOMAIN queue /\ \A k \in 1 .. Len(queue) : queue[k] \in Messages
        BY <4>1, LenProperties, ElementOfSeq
      <4>3. queue[Len(queue)].op \in Writing
        BY <1>4, <2>2, <2>4 DEF Inv, Queued
      <4>4. Len(queue) = 1
        BY <4>2, <4>3 DEF Inv, Queued
      <4> QED
        BY <2>2, <2>4, <4>2, <4>4 DEF Inv, Queued
    <3>3. m \in Messages
      BY <3>1 DEF Messages, Ops
    <3>4. /\ queue' \in Seq(Messages) /\ Len(queue') = 2 /\ DOMAIN queue' = {1, 2}
          /\ queue'[1] = [queue[1] EXCEPT !.awaited = FALSE]
          /\ queue'[2] = m /\ queue' # <<>>
      <4>1. queue' = Append(Unheard(t), m)
        BY <2>1 DEF HandOver
      <4>2. /\ Unheard(t) \in Seq(Messages) /\ Len(Unheard(t)) = 1
            /\ Unheard(t)[1] = [queue[1] EXCEPT !.awaited = FALSE]
        <5>1. 1 \in 1 .. Len(queue)
          BY <3>2
        <5> QED
          BY <2>2, <3>2, <5>1, UnheardQueue
      <4> DEFINE u == Unheard(t)
      <4> HIDE DEF m, u
      <4>3. u \in Seq(Messages) /\ Len(u) = 1 /\ queue' = Append(u, m) /\ m \in Messages
        BY <3>3, <4>1, <4>2 DEF u
      <4>4. /\ queue' \in Seq(Messages) /\ queue' # <<>>
            /\ Len(queue') = 1 + 1 /\ DOMAIN queue' = 1 .. 1 + 1
            /\ queue'[1] = u[1] /\ queue'[1 + 1] = m
        <5>1. 1 \in 1 .. Len(u)
          BY <4>3
        <5>2. /\ Append(u, m) \in Seq(Messages) /\ Append(u, m) # <<>>
              /\ Len(Append(u, m)) = Len(u) + 1
              /\ DOMAIN Append(u, m) = 1 .. Len(u) + 1
              /\ \A k \in 1 .. Len(u) : Append(u, m)[k] = u[k]
              /\ Append(u, m)[Len(u) + 1] = m
          BY <4>3, AppendTo
        <5> QED
          BY <4>3, <5>1, <5>2
      <4> QED
        BY <4>2, <4>4 DEF u
    <3>5. /\ queue'[1].task = t /\ queue'[1].call = call[t] /\ queue'[1].op = pc[t]
          /\ ~ queue'[1].awaited
      BY <3>2, <3>4 DEF Messages
    <3>6. TypeOK'
      BY <1>1, <2>1, <3>1, <3>4 DEF Inv, TypeOK, sqlite, Messages, Ops
    <3>7. Line'
      BY <2>1, <2>2, <3>1, LineKept
    <3>8. Holder'
      BY <1>1, <2>1, <2>2, <2>4, <3>1 DEF Inv, Holder, TypeOK, Ops
    <3>9. Queued'
      <4>1. /\ lock' = t /\ lock' # None /\ call'[t] = call[t] /\ pc'[t] = "ROLLBACK"
            /\ queue'[2].op = "ROLLBACK" /\ queue'[2].awaited
        BY <1>1, <2>1, <2>2, <3>1, <3>4 DEF Inv, TypeOK
      <4>2. \A k \in DOMAIN queue' : queue'[k].awaited <=> k = Len(queue')
        BY <3>4, <3>5, <4>1
      <4>3. \A k \in DOMAIN queue' :
               /\ queue'[k].op \in Writing => k = 1
               /\ queue'[k].op = "ROLLBACK" => k \in {1, 2}
               /\ k = 2 => (queue'[2].op = "ROLLBACK" <=> queue'[1].op \in Writing)
        BY <1>4, <3>4, <3>5, <4>1 DEF Writing
      <4> QED
        BY <3>4, <4>1, <4>2, <4>3 DEF Queued
    <3>10. Store'
      BY <1>1, <2>4, <3>2, <3>4, <3>5 DEF Store, Inv, sqlite
    <3>11. AllOrNothing'
      BY <1>1, <2>1 DEF Inv, AllOrNothing, sqlite
    <3> QED
      BY <3>6, <3>7, <3>8, <3>9, <3>10, <3>11 DEF Inv
  <2> QED
    BY <2>3, <2>4
<1> QED
  BY <1>1, <1>2, <1>3, <1>4 DEF Inv, TypeOK, Ops, Writing
\* What a statement does to the open and the committed writes.
LEMMA RunsStore ==
    ASSUME NEW m \in Messages, Runs(m),
           m.op # "ROLLBACK" => open = Of(<<m.task, m.call>>, Before[m.op])
    PROVE  /\ open' = Of(<<m.task, m.call>>, Behind[m.op])
           /\ m.op = "COMMIT" => <<<<m.task, m.call>>, 1>> \in durable'
           /\ UNCHANGED durable \/ durable' = durable \union Of(<<m.task, m.call>>, 2)
<1> DEFINE c == <<m.task, m.call>>
<1>1. /\ Of(c, 0) = {} /\ Of(c, 1) = {<<c, 1>>} /\ Of(c, 2) = {<<c, 1>>, <<c, 2>>}
  BY OfFew
<1>2. m.op \in Ops
  BY DEF Messages
<1>3. CASE m.op \in {"BEGIN", "READ"}
  BY <1>1, <1>3 DEF Runs, Before, Behind, sqlite
<1>4. CASE m.op = "WRITE1"
  BY <1>1, <1>4 DEF Runs, Before, Behind
<1>5. CASE m.op = "WRITE2"
  BY <1>1, <1>5 DEF Runs, Before, Behind
<1>6. CASE m.op = "COMMIT"
  <2>1. open = Of(c, 2)
    BY <1>6 DEF Before
  <2>2. open' = {} /\ durable' = durable \union open
    BY <1>6 DEF Runs
  <2>3. Behind[m.op] = 0
    BY <1>6 DEF Behind
  <2> HIDE DEF c
  <2> QED
    BY <1>1, <2>1, <2>2, <2>3 DEF c
<1>7. CASE m.op = "ROLLBACK"
  BY <1>1, <1>7 DEF Runs, Behind
<1> QED
  BY <1>2, <1>3, <1>4, <1>5, <1>6, <1>7 DEF Ops

LEMMA ThreadTypes ==
    ASSUME Inv, Thread
    PROVE  TypeOK' /\ AllOrNothing'
<1> USE DatabaseAssumption
<1> DEFINE m == queue[1]
           c == <<m.task, m.call>>
<1>1. /\ queue \in Seq(Messages) /\ Head(queue) = m /\ m \in Messages
      /\ Tail(queue) \in Seq(Messages) /\ queue' = Tail(queue)
      /\ UNCHANGED <<tasks, cancels, told>>
  <2>1. queue \in Seq(Messages) /\ queue # <<>> /\ queue' = Tail(queue)
        /\ UNCHANGED <<tasks, cancels, told>>
    BY DEF Thread, Inv, TypeOK, Messages
  <2> QED
    BY <2>1, TailOf
<1>2. /\ c \in Calls /\ Of(c, 0) = {} /\ Of(c, 1) = {<<c, 1>>}
      /\ Of(c, 2) = {<<c, 1>>, <<c, 2>>} /\ m.op \in Ops /\ m.task \in Tasks
  BY <1>1, OfFew DEF Messages, Calls
<1>3. heard' \in [Tasks -> {"none", "ok", "error"}] /\ faults' \in Nat
      /\ (Runs(m) \/ UNCHANGED sqlite)
  <2>1. CASE Runs(m) /\ UNCHANGED faults
              /\ heard' = IF m.awaited THEN [heard EXCEPT ![m.task] = "ok"] ELSE heard
    BY <1>2, <2>1 DEF Inv, TypeOK
  <2>2. CASE Refuses(m)
              /\ heard' = IF m.awaited THEN [heard EXCEPT ![m.task] = "error"] ELSE heard
    BY <1>2, <2>2 DEF Refuses, Inv, TypeOK
  <2> QED
    BY <1>1, <2>1, <2>2 DEF Thread
<1>4. m.op # "ROLLBACK" => open = Of(c, Before[m.op])
  BY DEF Thread, Inv, Store
<1> HIDE DEF m, c
<1>5. /\ UNCHANGED open \/ open' = Of(c, Behind[m.op])
      /\ UNCHANGED durable \/ durable' = durable \union Of(c, 2)
      /\ inTx' \in BOOLEAN
  <2>1. CASE Runs(m)
    <3>1. inTx' \in BOOLEAN
      BY <2>1 DEF Runs, Inv, TypeOK, sqlite
    <3> QED
      BY <1>1, <1>4, <2>1, <3>1, RunsStore DEF c
  <2>2. CASE UNCHANGED sqlite
    BY <2>2 DEF sqlite, Inv, TypeOK
  <2> QED
    BY <1>3, <2>1, <2>2
<1>6. open' \subseteq Writes /\ durable' \subseteq Writes
  <2>1. Of(c, 2) \subseteq Writes /\ Of(c, Behind[m.op]) \subseteq Of(c, 2)
    BY <1>2 DEF Writes, Behind, Ops
  <2> QED
    BY <1>5, <2>1 DEF Inv, TypeOK
<1>7. TypeOK'
  BY <1>1, <1>3, <1>5, <1>6 DEF TypeOK, Inv, tasks, Messages
<1>8. AllOrNothing'
  <2>1. \A d \in Calls : <<d, 1>> \in durable' <=> <<d, 2>> \in durable'
    <3>1. CASE UNCHANGED durable
      BY <3>1 DEF Inv, AllOrNothing
    <3>2. CASE durable' = durable \union {<<c, 1>>, <<c, 2>>}
      BY <3>2 DEF Inv, AllOrNothing
    <3> QED
      BY <1>2, <1>5, <3>1, <3>2
  <2> QED
    BY <1>1, <1>5, <2>1 DEF Inv, AllOrNothing
<1> QED
  BY <1>7, <1>8

LEMMA ThreadStep ==
    ASSUME Inv, Thread
    PROVE  Inv'
<1> USE DatabaseAssumption
<1> DEFINE m == queue[1]
           c == <<m.task, m.call>>
           n == Len(queue)
<1>1. /\ n \in Nat \ {0} /\ m \in Messages /\ Head(queue) = m /\ queue # <<>>
      /\ DOMAIN queue = 1 .. n /\ DOMAIN queue' = 1 .. n - 1 /\ Len(queue') = n - 1
      /\ \A k \in 1 .. n - 1 : queue'[k] = queue[k + 1]
      /\ queue' = <<>> <=> n = 1
      /\ UNCHANGED <<tasks, cancels, told>>
  <2>1. queue \in Seq(Messages) /\ queue # <<>> /\ queue' = Tail(queue)
        /\ UNCHANGED <<tasks, cancels, told>>
    BY DEF Thread, Inv, TypeOK, Messages
  <2> QED
    BY <2>1, TailOf, LenProperties
<1>2. PICK a \in {"ok", "error"} :
        /\ heard' = IF m.awaited THEN [heard EXCEPT ![m.task] = a] ELSE heard
        /\ a = "ok" => Runs(m)
        /\ a = "error" => Refuses(m)
  BY <1>1 DEF Thread
<1>3. m.op # "ROLLBACK" => open = Of(c, Before[m.op])
  BY <1>1 DEF Inv, Store
<1>4. a = "ok" => /\ open' = Of(c, Behind[m.op])
                  /\ m.op = "COMMIT" => <<c, 1>> \in durable'
  <2> HIDE DEF m
  <2> QED
    BY <1>1, <1>2, <1>3, RunsStore DEF c
<1>4e. a = "error" => sqlite' = sqlite /\ m.op \in Writing \union {"BEGIN"}
  BY <1>2 DEF Refuses, Writing
<1>5. Line'
  BY <1>1 DEF Inv, Line, tasks
<1>6. m.op \in Ops /\ 1 \in 1 .. n
  BY <1>1 DEF Messages
<1>7. CASE m.awaited
  <2>1. n = 1 /\ lock # None /\ lock \in Tasks
        /\ m = [task |-> lock, call |-> call[lock], op |-> pc[lock], awaited |-> TRUE]
    BY <1>1, <1>6, <1>7 DEF Inv, Queued, TypeOK
  <2>2. heard' = [heard EXCEPT ![lock] = a] /\ heard'[lock] = a /\ queue' = <<>>
        /\ c = <<lock, call[lock]>> /\ m.op = pc[lock] /\ DOMAIN queue' = {}
    BY <1>1, <1>2, <1>7, <2>1 DEF Inv, TypeOK
  <2> HIDE DEF m, c, n
  <2>3. Holder'
    BY <1>1, <1>4, <1>4e, <2>2 DEF Inv, Holder, TypeOK, tasks, Writing
  <2>4. Queued'
    BY <1>1, <2>1, <2>2 DEF Queued, tasks
  <2>5. Store'
    <3>1. CASE a = "ok"
      BY <1>1, <1>4, <1>4e, <2>1, <2>2, <3>1 DEF Store, tasks
    <3>2. CASE a = "error"
      <4>1. pc[lock] = "BEGIN" => open' = {}
        BY <1>3, <1>4, <1>4e, <2>2, <3>2, OfFew DEF Before, sqlite
      <4> QED
        BY <1>1, <2>1, <2>2, <3>2, <4>1 DEF Store, tasks
    <3> QED
      BY <3>1, <3>2
  <2> QED
    BY <1>5, <2>3, <2>4, <2>5, ThreadTypes DEF Inv
<1>8. CASE ~ m.awaited
  <2>1. heard' = heard /\ (n = 1 => lock = None /\ m.op \notin Writing)
    BY <1>1, <1>2, <1>6, <1>8 DEF Inv, Queued
  <2>2. lock # None => n > 1 /\ n \in 1 .. n
    BY <1>1, <2>1
  <2>3. Holder'
    BY <1>1, <2>1 DEF Inv, Holder, TypeOK, tasks
  <2>4. Queued'
    <3>1. lock' = lock /\ call' = call /\ pc' = pc
      BY <1>1 DEF tasks
    <3>2. ASSUME NEW k \in 1 .. n - 1
          PROVE  /\ queue'[k] = queue[k + 1] /\ k + 1 \in DOMAIN queue
                 /\ queue'[k].awaited <=> k = Len(queue') /\ lock' # None
                 /\ queue'[k].op \notin Writing
                 /\ queue'[k].op = "ROLLBACK" => k = 1
      <4>1. queue'[k] = queue[k + 1] /\ k + 1 \in 1 .. n /\ k \in Nat /\ k >= 1
        BY <1>1
      <4>2. /\ queue[k + 1].awaited <=> k + 1 = n /\ lock # None
            /\ queue[k + 1].op \in Writing => k + 1 = 1
            /\ queue[k + 1].op = "ROLLBACK" => k + 1 \in {1, 2}
        BY <1>1, <4>1 DEF Inv, Queued
      <4> HIDE DEF n
      <4> QED
        BY <1>1, <3>1, <4>1, <4>2
    <3>3. lock' # None /\ queue' # <<>> =>
            queue'[Len(queue')] = [task |-> lock', call |-> call'[lock'], op |-> pc'[lock'],
                                   awaited |-> TRUE]
      <4> SUFFICES ASSUME lock # None, n > 1
                   PROVE  queue'[n - 1] = [task |-> lock, call |-> call[lock],
                                           op |-> pc[lock], awaited |-> TRUE]
        BY <1>1, <2>2, <3>1
      <4>1. n - 1 \in 1 .. n - 1 /\ (n - 1) + 1 = n
        BY <1>1
      <4> QED
        BY <1>1, <4>1 DEF Inv, Queued
    <3>4. lock' # None => queue' # <<>>
      BY <1>1, <2>2, <3>1
    <3> HIDE DEF n
    <3>5. \A k \in DOMAIN queue' :
             /\ queue'[k].op \in Writing => k = 1
             /\ queue'[k].op = "ROLLBACK" => k \in {1, 2}
             /\ k = 2 => (queue'[2].op = "ROLLBACK" <=> queue'[1].op \in Writing)
      <4>1. 2 \in 1 .. n - 1 => 1 \in 1 .. n - 1
        BY <1>1
      <4> QED
        BY <1>1, <3>2, <4>1
    <3>6. Len(queue') = 1 => queue'[1].op \notin Writing
      BY <1>1, <3>2
    <3> QED
      BY <1>1, <3>2, <3>3, <3>4, <3>5, <3>6 DEF Queued
  <2>5. Store'
    <3>1. m.op \notin Writing => open' = {}
      <4>1. CASE a = "ok" /\ m.op \notin Writing
        BY <1>4, <1>4e, <1>6, <4>1, OfFew DEF Behind, Ops, Writing
      <4>2. CASE a = "error" /\ m.op \notin Writing
        BY <1>3, <1>4, <1>4e, <4>2, OfFew DEF Before, sqlite
      <4> QED
        BY <4>1, <4>2
    <3>2. CASE n = 1
      BY <1>1, <2>1, <3>1, <3>2 DEF Store, tasks
    <3>3. CASE n > 1
      <4>1. 2 \in DOMAIN queue /\ queue'[1] = queue[2] /\ queue' # <<>> /\ queue[2] \in Messages
        <5>1. 1 \in 1 .. n - 1 /\ 2 \in 1 .. n
          BY <1>1, <3>3
        <5>2. queue \in Seq(Messages)
          BY DEF Inv, TypeOK, Messages
        <5> QED
          BY <1>1, <3>3, <5>1, <5>2, ElementOfSeq
      <4>2. queue[2].op \notin Writing /\ (queue[2].op # "ROLLBACK" => m.op \notin Writing)
        BY <4>1 DEF Inv, Queued
      <4>3. queue[2].op # "ROLLBACK" => Before[queue[2].op] = 0 /\ open' = {}
        BY <3>1, <4>1, <4>2 DEF Messages, Ops, Writing, Before
      <4>4. Of(<<queue[2].task, queue[2].call>>, 0) = {}
        BY OfFew
      <4> QED
        BY <4>1, <4>3, <4>4 DEF Store
    <3> QED
      BY <1>1, <3>2, <3>3
  <2> QED
    BY <1>5, <2>3, <2>4, <2>5, ThreadTypes DEF Inv
<1> QED
  BY <1>7, <1>8

LEMMA InvAlways == Spec => []Inv
<1>1. Inv /\ [Next]_vars => Inv'
  <2> SUFFICES ASSUME Inv, [Next]_vars PROVE Inv'
    OBVIOUS
  <2>1. CASE Thread
    BY <2>1, ThreadStep
  <2>2. ASSUME NEW t \in Tasks, Ask(t) \/ Acquire(t) \/ Resume(t) \/ Raise(t) \/ Cancel(t)
        PROVE  Inv'
    BY <2>2, AskStep, AcquireStep, ResumeStep, RaiseStep, CancelStep
  <2>3. CASE UNCHANGED vars
    BY <2>3 DEF vars, tasks, sqlite, Inv, TypeOK, Line, Holder, Queued, Store, AllOrNothing
  <2> QED
    BY <2>1, <2>2, <2>3 DEF Next
<1> QED
  BY InvInit, <1>1, PTL DEF Spec

\* database.py: the types of the lock, the line, the statements under way and the
\* store; `_tx_owner' is nobody or the holder of `_lock'.
THEOREM DatabaseTypes == Spec => []TypeOK
<1>1. Inv => TypeOK
  BY DEF Inv
<1> QED
  BY InvAlways, <1>1, PTL

\* database.py transaction(): whatever is refused and whoever is cancelled, the
\* two writes of a block are committed together or not at all, and a block that
\* ended well has them committed.
THEOREM TransactionsAreWhole == Spec => []AllOrNothing
<1>1. Inv => AllOrNothing
  BY DEF Inv
<1> QED
  BY InvAlways, <1>1, PTL

\* database.py: when the connection's thread runs a read, no write is open: a
\* cancelled transaction's ROLLBACK is always ahead of the reads that follow it.
THEOREM ReadsSeeCommitted == Spec => []ReadsAreCommitted
<1>1. ASSUME Inv PROVE ReadsAreCommitted
  <2> SUFFICES ASSUME queue # <<>>, Head(queue).op = "READ" PROVE open = {}
    BY DEF ReadsAreCommitted
  <2>1. Head(queue) = queue[1]
    BY <1>1, TailOf DEF Inv, TypeOK
  <2>2. open = Of(<<queue[1].task, queue[1].call>>, 0)
    BY <1>1, <2>1 DEF Inv, Store, Before
  <2> QED
    BY <2>2, OfFew
<1> QED
  BY InvAlways, <1>1, PTL
===============================================================================
