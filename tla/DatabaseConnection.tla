--------------------------- MODULE DatabaseConnection ---------------------------
(***************************************************************************)
(* app/persistence/database.py: one SQLite connection shared by every task *)
(* of the event loop.  A lock makes each transaction() block exclusive; the *)
(* statements themselves run in the connection's own thread, in the order  *)
(* they were handed over, whether or not the task that sent them is still  *)
(* there to hear the answer.  Tasks are cancelled at shutdown.             *)
(*                                                                         *)
(* Every transaction stands for two writes that belong together, such as   *)
(* alert state and outbox row.                                             *)
(***************************************************************************)
EXTENDS Naturals, SequencesExt

CONSTANTS
    Tasks,
    MaxCalls,    \* bound: database calls of one task
    MaxFaults,   \* bound: statements that SQLite refuses
    MaxCancels,  \* bound: cancellations
    None

ASSUME DatabaseAssumption ==
    MaxCalls \in Nat /\ MaxFaults \in Nat /\ MaxCancels \in Nat /\ None \notin Tasks

VARIABLES
    lock,      \* holder of _lock
    waiters,   \* tasks waiting for it, first come first
    tx_owner,  \* _tx_owner
    pc,        \* what each task awaits
    call,      \* the number of each task's call
    heard,     \* the answer that has reached a task: "none", "ok", "error"
    queue,     \* statements handed to the connection's thread   (external)
    inTx,      \* SQLite has a transaction open                  (external)
    open,      \* writes of that transaction                     (external)
    durable,   \* committed writes                               (persistent)
    faults, cancels,
    told       \* history: how each call ended for its caller

sqlite == <<inTx, open, durable>>
tasks == <<lock, waiters, tx_owner, pc, call>>
vars == <<tasks, heard, queue, sqlite, faults, cancels, told>>

Ops == {"BEGIN", "WRITE1", "WRITE2", "COMMIT", "ROLLBACK", "READ"}
Calls == Tasks \X (1 .. MaxCalls)
Writes == Calls \X {1, 2}

TypeOK ==
    /\ lock \in Tasks \union {None} /\ tx_owner \in Tasks \union {None}
    /\ waiters \in Seq(Tasks)
    /\ pc \in [Tasks -> {"idle", "wait", "waitRead"} \union Ops]
    /\ call \in [Tasks -> 0 .. MaxCalls]
    /\ heard \in [Tasks -> {"none", "ok", "error"}]
    /\ queue \in Seq([task : Tasks, call : 1 .. MaxCalls, op : Ops, awaited : BOOLEAN])
    /\ inTx \in BOOLEAN /\ open \in SUBSET Writes /\ durable \in SUBSET Writes
    /\ faults \in Nat /\ cancels \in Nat
    /\ told \in [Calls -> {"none", "committed", "answered", "raised"}]
    /\ tx_owner # None => tx_owner = lock

Init ==
    /\ lock = None /\ waiters = <<>> /\ tx_owner = None
    /\ pc = [t \in Tasks |-> "idle"] /\ call = [t \in Tasks |-> 0]
    /\ heard = [t \in Tasks |-> "none"]
    /\ queue = <<>> /\ inTx = FALSE /\ open = {} /\ durable = {}
    /\ faults = 0 /\ cancels = 0
    /\ told = [c \in Calls |-> "none"]

-------------------------------------------------------------------------------
(* The tasks *)

\* transaction(), or a read: get in line for the lock.
Ask(t) ==
    /\ pc[t] = "idle" /\ call[t] < MaxCalls
    /\ call' = [call EXCEPT ![t] = @ + 1]
    /\ waiters' = Append(waiters, t)
    /\ pc' \in {[pc EXCEPT ![t] = "wait"], [pc EXCEPT ![t] = "waitRead"]}
    /\ UNCHANGED <<lock, tx_owner, heard, queue, sqlite, faults, cancels, told>>

\* A statement goes to the thread, and the task awaits its answer.
HandOver(t, op, q) ==
    /\ queue' = Append(q, [task |-> t, call |-> call[t], op |-> op, awaited |-> TRUE])
    /\ pc' = [pc EXCEPT ![t] = op]

\* Mutant of Acquire: the lock is not waited for.
MutAcquireBarges(t) ==
    /\ pc[t] \in {"wait", "waitRead"}
    /\ lock' = t
    /\ waiters' = SelectSeq(waiters, LAMBDA u : u # t)
    /\ tx_owner' = IF pc[t] = "wait" THEN t ELSE None
    /\ HandOver(t, IF pc[t] = "wait" THEN "BEGIN" ELSE "READ", queue)
    /\ UNCHANGED <<call, heard, sqlite, faults, cancels, told>>

\* Mutant of Acquire: a read does not take the lock.
MutAcquireReadsFree(t) ==
    /\ waiters # <<>> /\ Head(waiters) = t
    /\ pc[t] = "wait" => lock = None
    /\ lock' = IF pc[t] = "wait" THEN t ELSE lock
    /\ waiters' = Tail(waiters)
    /\ tx_owner' = IF pc[t] = "wait" THEN t ELSE tx_owner
    /\ HandOver(t, IF pc[t] = "wait" THEN "BEGIN" ELSE "READ", queue)
    /\ UNCHANGED <<call, heard, sqlite, faults, cancels, told>>

Acquire(t) ==
    /\ lock = None /\ waiters # <<>> /\ Head(waiters) = t
    /\ lock' = t /\ waiters' = Tail(waiters)
    /\ tx_owner' = IF pc[t] = "wait" THEN t ELSE None
    /\ HandOver(t, IF pc[t] = "wait" THEN "BEGIN" ELSE "READ", queue)
    /\ UNCHANGED <<call, heard, sqlite, faults, cancels, told>>

\* The `finally' clause: out of the block, with an answer for the caller.
Leave(t, how) ==
    /\ lock' = None /\ tx_owner' = None
    /\ pc' = [pc EXCEPT ![t] = "idle"]
    /\ told' = [told EXCEPT ![<<t, call[t]>>] = how]

After == [BEGIN |-> "WRITE1", WRITE1 |-> "WRITE2", WRITE2 |-> "COMMIT"]

\* The answer is here: the next statement of the block, or out of it.
Resume(t) ==
    /\ heard[t] = "ok"
    /\ heard' = [heard EXCEPT ![t] = "none"]
    /\ \/ /\ pc[t] \in {"BEGIN", "WRITE1", "WRITE2"}
          /\ HandOver(t, After[pc[t]], queue)
          /\ UNCHANGED <<lock, tx_owner, told>>
       \/ pc[t] = "COMMIT" /\ Leave(t, "committed") /\ UNCHANGED queue
       \/ pc[t] = "READ" /\ Leave(t, "answered") /\ UNCHANGED queue
       \/ pc[t] = "ROLLBACK" /\ Leave(t, "raised") /\ UNCHANGED queue
    /\ UNCHANGED <<waiters, call, sqlite, faults, cancels>>

\* An error: before the block it goes straight out, in the block it rolls back.
Raise(t) ==
    /\ heard[t] = "error"
    /\ heard' = [heard EXCEPT ![t] = "none"]
    /\ \/ /\ pc[t] \in {"BEGIN", "READ", "ROLLBACK"}
          /\ Leave(t, "raised") /\ UNCHANGED queue
       \/ /\ pc[t] \in {"WRITE1", "WRITE2", "COMMIT"}
          /\ HandOver(t, "ROLLBACK", queue)
          /\ UNCHANGED <<lock, tx_owner, told>>
    /\ UNCHANGED <<waiters, call, sqlite, faults, cancels>>

\* The statements a cancelled task has handed over stay with the thread.
Unheard(t) == [k \in DOMAIN queue |->
                  IF queue[k].task = t THEN [queue[k] EXCEPT !.awaited = FALSE]
                                       ELSE queue[k]]

\* Mutant of Cancel: the lock of a cancelled task is never released.
MutCancelKeepsLock(t) ==
    /\ pc[t] \in Ops /\ cancels < MaxCancels
    /\ cancels' = cancels + 1
    /\ heard' = [heard EXCEPT ![t] = "none"]
    /\ queue' = Unheard(t)
    /\ pc' = [pc EXCEPT ![t] = "idle"]
    /\ told' = [told EXCEPT ![<<t, call[t]>>] = "raised"]
    /\ UNCHANGED <<lock, waiters, tx_owner, call, sqlite, faults>>

\* CancelledError at whatever the task awaits.
Cancel(t) ==
    /\ pc[t] # "idle" /\ cancels < MaxCancels
    /\ cancels' = cancels + 1
    /\ heard' = [heard EXCEPT ![t] = "none"]
    /\ \/ /\ pc[t] \in {"wait", "waitRead"}
          /\ \E k \in DOMAIN waiters :
                waiters[k] = t /\ waiters' = RemoveAt(waiters, k)
          /\ pc' = [pc EXCEPT ![t] = "idle"]
          /\ told' = [told EXCEPT ![<<t, call[t]>>] = "raised"]
          /\ UNCHANGED <<lock, tx_owner, queue>>
       \/ /\ pc[t] \in {"BEGIN", "READ", "ROLLBACK"}
          /\ Leave(t, "raised")
          /\ queue' = Unheard(t)
          /\ UNCHANGED waiters
       \/ /\ pc[t] \in {"WRITE1", "WRITE2", "COMMIT"}
          /\ HandOver(t, "ROLLBACK", Unheard(t))
          /\ UNCHANGED <<lock, waiters, tx_owner, told>>
    /\ UNCHANGED <<call, sqlite, faults>>

-------------------------------------------------------------------------------
(* The connection's thread *)

Runs(m) ==
    \/ /\ m.op = "BEGIN" /\ ~inTx
       /\ inTx' = TRUE /\ UNCHANGED <<open, durable>>
    \/ /\ m.op \in {"WRITE1", "WRITE2"}
       /\ open' = open \union {<<<<m.task, m.call>>, IF m.op = "WRITE1" THEN 1 ELSE 2>>}
       /\ UNCHANGED <<inTx, durable>>
    \/ /\ m.op = "COMMIT"
       /\ durable' = durable \union open /\ open' = {} /\ inTx' = FALSE
    \/ /\ m.op = "ROLLBACK"
       /\ open' = {} /\ inTx' = FALSE /\ UNCHANGED durable
    \/ m.op = "READ" /\ UNCHANGED sqlite

\* A BEGIN in a transaction is refused; any write or commit may be.
Refuses(m) ==
    /\ \/ m.op = "BEGIN" /\ inTx /\ UNCHANGED faults
       \/ m.op \in {"WRITE1", "WRITE2", "COMMIT"} /\ faults < MaxFaults /\ faults' = faults + 1
    /\ UNCHANGED sqlite

Thread ==
    /\ queue # <<>>
    /\ queue' = Tail(queue)
    /\ LET m == Head(queue)
           Answer(a) == heard' = IF m.awaited THEN [heard EXCEPT ![m.task] = a] ELSE heard
       IN  \/ Runs(m) /\ UNCHANGED faults /\ Answer("ok")
           \/ Refuses(m) /\ Answer("error")
    /\ UNCHANGED <<tasks, cancels, told>>

Next == Thread \/ \E t \in Tasks : Ask(t) \/ Acquire(t) \/ Resume(t) \/ Raise(t) \/ Cancel(t)

\* The thread and the event loop go on.
Fairness == WF_vars(Thread) /\ \A t \in Tasks : WF_vars(Acquire(t) \/ Resume(t) \/ Raise(t))

Spec == Init /\ [][Next]_vars
FairSpec == Spec /\ Fairness

-------------------------------------------------------------------------------
(* Properties *)

\* Both writes of a transaction (an alert state and its outbox row) are committed
\* or neither is, and a block that ended well has committed them.
AllOrNothing ==
    \A c \in Calls : /\ <<c, 1>> \in durable <=> <<c, 2>> \in durable
                     /\ told[c] = "committed" => <<c, 1>> \in durable

\* No task reads what another task has written and not committed.
ReadsAreCommitted ==
    queue # <<>> /\ Head(queue).op = "READ" => open = {}

\* Uncommitted writes belong to the transaction of the task that holds the
\* lock, or its rollback is on the way ahead of everything else.
WritesAreOwned ==
    open # {} => \/ tx_owner # None /\ \A w \in open : w[1] = <<tx_owner, call[tx_owner]>>
                 \/ \E k \in 1 .. Len(queue) :
                       /\ queue[k].op = "ROLLBACK"
                       /\ \A j \in 1 .. k : queue[j].op \notin {"BEGIN", "READ"}

\* Whoever asks for the database gets an answer, cancelled tasks or not.
EveryCallEnds == \A t \in Tasks : (pc[t] # "idle") ~> (pc[t] = "idle")

\* transaction(): "no other task can BEGIN/COMMIT ... in between", so a block
\* never begins inside a transaction that is still open.
TransactionsStartClean ==
    queue # <<>> /\ Head(queue).op = "BEGIN" => ~inTx

\* transaction(): "rollback on error": a block that raised has left nothing.
RaisedIsRolledBack ==
    \A c \in Calls : told[c] = "raised" => <<c, 1>> \notin durable
===============================================================================
