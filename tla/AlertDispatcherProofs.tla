------------------------- MODULE AlertDispatcherProofs -------------------------
(***************************************************************************)
(* For any rows, ages, delays and batch limit, and any number of faults,   *)
(* crashes and stops: the outbox worker accounts for every copy, keeps the *)
(* listing flag and the outbox together, loses no wake-up, and implements  *)
(* NotificationDelivery.                                                   *)
(***************************************************************************)
EXTENDS AlertDispatcher, FiniteSetTheorems, TLAPS

\* A row that is still `pending' was never attempted.
PendingIsUntried ==
    \A i \in Ids : row[i].status \in {"absent", "pending"} =>
                      row[i].next_attempt_at = None

IInv == /\ TypeOK /\ BatchStillDue /\ CopiesAccountedFor
        /\ ListingFlagConsistent /\ PendingIsUntried /\ NoLostWakeup

-------------------------------------------------------------------------------
(* Lemmas about the operators *)

\* A non-empty finite set of numbers has a least element.
LEMMA LeastElement ==
    ASSUME NEW S, S \subseteq Nat, IsFiniteSet(S), S # {}
    PROVE  \E x \in S : \A y \in S : x <= y
<1> DEFINE Below(x) == {y \in S : y <= x}
           T == {Below(x) : x \in S}
<1>1. IsWellFoundedOn(StrictSubsetOrdering(S), SUBSET S)
  BY FS_StrictSubsetOrderingWellFounded, FS_FiniteSubsetsOfFinite
<1>2. T \subseteq SUBSET S /\ T # {}
  OBVIOUS
<1>3. PICK B \in T : \A C \in T : ~ (<<C, B>> \in StrictSubsetOrdering(S))
  BY <1>1, <1>2, WFMin
<1>4. PICK x \in S : B = Below(x)
  OBVIOUS
<1>5. ASSUME NEW y \in S, y < x PROVE FALSE
  <2>1. \A z \in S : z <= y => z <= x
    BY <1>5
  <2>2. x \in Nat /\ y \in Nat
    OBVIOUS
  <2>3. x \in Below(x) /\ x \notin Below(y)
    BY <2>2, <1>5
  <2>4. Below(y) \subseteq Below(x)
    BY <2>1
  <2>5. <<Below(y), Below(x)>> \in StrictSubsetOrdering(S)
    BY <2>3, <2>4 DEF StrictSubsetOrdering
  <2> QED
    BY <2>5, <1>3, <1>4
<1> QED
  BY <1>5

\* An empty batch means that no row is due: the limit lets the first one in.
LEMMA EmptyBatchNothingDue ==
    ASSUME DueBatch = {}
    PROVE  \A i \in Ids : ~Due(i)
<1> DEFINE D == {i \in Ids : Due(i)}
<1>1. SUFFICES ASSUME D # {} PROVE FALSE
  OBVIOUS
<1>2. D \subseteq Nat /\ IsFiniteSet(D)
  BY DispatcherAssumption, FS_Subset
<1>3. PICK x \in D : \A y \in D : x <= y
  BY <1>1, <1>2, LeastElement
<1>4. {j \in Ids : Due(j) /\ j < x} = {}
  BY <1>2, <1>3
<1>5. Cardinality({j \in Ids : Due(j) /\ j < x}) < BatchLimit
  <2>1. Cardinality({}) = 0 /\ 0 < BatchLimit
    BY FS_EmptySet, DispatcherAssumption
  <2> QED
    BY <1>4, <2>1
<1> QED
  BY <1>5 DEF DueBatch

\* At most one row is being delivered.
LEMMA CurrentIsUnique ==
    ASSUME TypeOK, NEW i, NEW j, IsCurrent(i), IsCurrent(j)
    PROVE  i = j /\ i \in Ids
  BY DispatcherAssumption DEF IsCurrent, TypeOK

\* A retry is always put off.
LEMMA DelayPositive ==
    ASSUME TypeOK, NEW i \in Ids
    PROVE  Delay(i) \in Nat \ {0}
<1>1. row[i].attempts + 1 \in Nat \ {0}
  BY DEF TypeOK
<1>2. /\ Len(RetryDelays) \in Nat \ {0}
      /\ \A n \in 1 .. Len(RetryDelays) : RetryDelays[n] \in Nat \ {0}
  BY DispatcherAssumption
<1>3. retry_delay_for(row[i].attempts + 1) \in Nat \ {0}
  BY <1>1, <1>2 DEF retry_delay_for
<1>4. retryAfter # None => retryAfter \in Nat
  BY DispatcherAssumption DEF TypeOK
<1> QED
  BY <1>3, <1>4 DEF Delay
-------------------------------------------------------------------------------
(* The invariant is inductive: one lemma per part, one step per action *)

LEMMA TypeStep ==
    ASSUME TypeOK, [Next]_vars PROVE TypeOK'
<1> USE DEF tables, process, history, Outside
<1>1. CASE Tick
  BY <1>1 DEF TypeOK, Tick
<1>2. ASSUME NEW i \in Ids, Insert(i) PROVE TypeOK'
  BY <1>2 DEF TypeOK, Insert, Finish, Places, Statuses
<1>3. ASSUME NEW i \in Ids, Wake(i) PROVE TypeOK'
  BY <1>3 DEF TypeOK, Wake
<1>4. CASE Iterate
  BY <1>4 DEF TypeOK, Iterate, Places, Statuses
<1>5. CASE Fetch
  BY <1>5 DEF TypeOK, Fetch, Places, DueBatch
<1>6. CASE Begin
  BY <1>6 DEF TypeOK, Begin, Places
<1>7. ASSUME NEW i \in Ids, Send(i) PROVE TypeOK'
  <2>1. \E extra \in {0, 1} :
         /\ faults' = faults + extra
         /\ lost' = [lost EXCEPT ![i] = @ + extra]
         /\ accepted' = [accepted EXCEPT
                            ![i] = @ + extra + IF worker' = "accepted" THEN 1 ELSE 0]
    BY <1>7 DEF Send
  <2>2. faults' \in Nat /\ lost' \in [Ids -> Nat] /\ accepted' \in [Ids -> Nat]
    BY <2>1 DEF TypeOK
  <2>3. worker' \in Places /\ retryAfter' \in RetryAfters \union {None}
    BY <1>7 DEF Send, Places
  <2> QED
    BY <1>7, <2>2, <2>3 DEF TypeOK, Send
<1>8. ASSUME NEW i \in Ids, MarkSent(i) PROVE TypeOK'
  BY <1>8 DEF TypeOK, MarkSent, Finish, Places, Statuses
<1>9. ASSUME NEW i \in Ids, MarkSentFails(i) PROVE TypeOK'
  BY <1>9 DEF TypeOK, MarkSentFails, Places
<1>10. ASSUME NEW i \in Ids, MarkDead(i) PROVE TypeOK'
  BY <1>10 DEF TypeOK, MarkDead, Finish, Places, Statuses
<1>11. ASSUME NEW i \in Ids, MarkRetry(i) PROVE TypeOK'
  <2>1. now + Delay(i) \in Nat
    BY DelayPositive DEF TypeOK
  <2>2. row' \in [Ids -> [status : Statuses, attempts : Nat,
                         next_attempt_at : Nat \union {None}, created_at : Nat]]
    BY <1>11, <2>1 DEF TypeOK, MarkRetry, Statuses
  <2> QED
    BY <1>11, <2>2 DEF TypeOK, MarkRetry, Finish, Places
<1>12. CASE IterationFails
  BY <1>12 DEF TypeOK, IterationFails, Places
<1>13. CASE BackoffEnds
  BY <1>13 DEF TypeOK, BackoffEnds, Places
<1>14. CASE WaitEnds
  BY <1>14 DEF TypeOK, WaitEnds, Places
<1>15. CASE StopCalled
  BY <1>15 DEF TypeOK, StopCalled
<1>16. CASE StopReturns
  BY <1>16 DEF TypeOK, StopReturns
<1>17. CASE StopTimesOut
  <2>1. lost' \in [Ids -> Nat]
    BY <1>17 DEF TypeOK, StopTimesOut, LostNow
  <2> QED
    BY <1>17, <2>1, DispatcherAssumption DEF TypeOK, StopTimesOut, Places
<1>18. CASE Restart
  <2>1. lost' \in [Ids -> Nat]
    BY <1>18 DEF TypeOK, Restart, LostNow
  <2>2. wake' \in BOOLEAN /\ stop' \in BOOLEAN
    BY <1>18 DEF Restart
  <2>3. /\ worker' = "loop" /\ batch' = {} /\ retryAfter' = None
        /\ consecutive' = 0 /\ ctl' = "running" /\ stopAt' = 0
        /\ waking' = {} /\ owed' = {} /\ crashes' = crashes + 1
        /\ UNCHANGED <<now, row, flagged, accepted, faults>>
    BY <1>18 DEF Restart
  <2> QED
    BY <2>1, <2>2, <2>3 DEF TypeOK, Places
<1>19. CASE UNCHANGED vars
  BY <1>19 DEF TypeOK, vars
<1> QED
  BY <1>1, <1>2, <1>3, <1>4, <1>5, <1>6, <1>7, <1>8, <1>9, <1>10, <1>11,
     <1>12, <1>13, <1>14, <1>15, <1>16, <1>17, <1>18, <1>19
  DEF Next, Produce, Deliver

\* What the worker holds is still due.
LEMMA BatchStep ==
    ASSUME TypeOK, BatchStillDue, [Next]_vars PROVE BatchStillDue'
<1> USE DEF tables, process, history, Outside
<1> DEFINE Busy == {"deliver", "accepted", "permanent", "transient"}
<1>0. now \in Nat /\ \A i \in Ids : row[i].next_attempt_at \in Nat \union {None}
  BY DEF TypeOK
<1>1. ASSUME row' = row, batch' = batch, now' \in {now, now + 1},
             worker' \in Busy => worker \in Busy \union {"fetched"} /\ batch # {},
             batch # {} => worker' \in Busy \union {"fetched"}
      PROVE  BatchStillDue'
  <2>1. ASSUME NEW i \in batch PROVE Due(i)'
    BY <1>0, <1>1, <2>1, DispatcherAssumption DEF BatchStillDue, Due, Unsent, TypeOK
  <2> QED
    BY <1>1, <2>1 DEF BatchStillDue
<1>2. ASSUME batch' = {}, worker' \notin Busy
      PROVE  BatchStillDue'
  BY <1>2 DEF BatchStillDue
<1>3. CASE Tick \/ StopCalled \/ StopReturns \/ UNCHANGED vars
  BY <1>1, <1>3 DEF BatchStillDue, Tick, StopCalled, StopReturns, vars
<1>4. CASE BackoffEnds \/ WaitEnds
  BY <1>1, <1>4 DEF BatchStillDue, BackoffEnds, WaitEnds
<1>5. CASE Begin
  BY <1>1, <1>5 DEF BatchStillDue, Begin
<1>6. CASE IterationFails \/ StopTimesOut \/ Restart
  BY <1>2, <1>6 DEF IterationFails, StopTimesOut, Restart
<1>7. CASE Iterate
  BY <1>2, <1>7 DEF BatchStillDue, Iterate
<1>8. CASE Fetch
  BY <1>8 DEF BatchStillDue, Fetch, DueBatch, Due, Unsent
<1>9. ASSUME NEW i \in Ids, Insert(i) PROVE BatchStillDue'
  <2>1. i \notin batch
    BY <1>9 DEF BatchStillDue, Insert, Due, Unsent
  <2>2. \A j \in batch : j \in Ids /\ row'[j] = row[j]
    BY <1>9, <2>1 DEF Insert, TypeOK
  <2> QED
    BY <1>9, <2>2 DEF BatchStillDue, Insert, Due, Unsent
<1>10. ASSUME NEW i \in Ids, Wake(i) PROVE BatchStillDue'
  BY <1>1, <1>10 DEF BatchStillDue, Wake
<1>11. ASSUME NEW i \in Ids, Send(i) \/ MarkSentFails(i) PROVE BatchStillDue'
  BY <1>1, <1>11 DEF BatchStillDue, Send, MarkSentFails
<1>12. ASSUME NEW i \in Ids, MarkSent(i) \/ MarkDead(i) \/ MarkRetry(i)
       PROVE  BatchStillDue'
  <2>1. /\ i \in batch /\ batch' = batch \ {i} /\ now' = now
        /\ worker' = IF batch = {i} THEN "loop" ELSE "deliver"
    BY <1>12 DEF MarkSent, MarkDead, MarkRetry, Finish, IsCurrent
  <2>2. \A j \in batch' : j \in batch /\ j \in Ids /\ row'[j] = row[j]
    BY <1>12, <2>1 DEF MarkSent, MarkDead, MarkRetry, TypeOK
  <2> QED
    BY <2>1, <2>2 DEF BatchStillDue, Due, Unsent
<1> QED
  BY <1>3, <1>4, <1>5, <1>6, <1>7, <1>8, <1>9, <1>10, <1>11, <1>12
  DEF Next, Produce, Deliver

\* Sleeping is safe: a row that arrives after the snapshot has a wake-up coming.
LEMMA WakeStep ==
    ASSUME TypeOK, BatchStillDue, PendingIsUntried, NoLostWakeup, [Next]_vars
    PROVE  NoLostWakeup'
<1> USE DEF tables, process, history, Outside
<1>1. ASSUME worker' \notin {"wait", "fetched"} \/ wake'
      PROVE  NoLostWakeup'
  BY <1>1 DEF NoLostWakeup
<1>2. CASE Iterate \/ IterationFails \/ BackoffEnds \/ WaitEnds \/ StopCalled
           \/ StopTimesOut \/ Restart
  BY <1>1, <1>2 DEF Iterate, IterationFails, BackoffEnds, WaitEnds, StopCalled,
     StopTimesOut, Restart
<1>3. CASE Tick \/ StopReturns \/ UNCHANGED vars
  BY <1>3 DEF NoLostWakeup, Tick, StopReturns, vars
<1>4. CASE Fetch
  <2>1. CASE DueBatch = {}
    <3>1. \A i \in Ids : row[i].status # "pending"
      BY <2>1, EmptyBatchNothingDue DEF PendingIsUntried, Due, Unsent
    <3> QED
      BY <1>4, <3>1 DEF NoLostWakeup, Fetch
  <2>2. CASE DueBatch # {}
    BY <1>4, <2>2 DEF NoLostWakeup, Fetch
  <2> QED
    BY <2>1, <2>2
<1>5. CASE Begin
  BY <1>5 DEF NoLostWakeup, Begin
<1>6. ASSUME NEW i \in Ids, Insert(i) PROVE NoLostWakeup'
  BY <1>6 DEF NoLostWakeup, Insert, TypeOK
<1>7. ASSUME NEW i \in Ids, Wake(i) PROVE NoLostWakeup'
  BY <1>1, <1>7 DEF Wake
<1>8. ASSUME NEW i \in Ids,
             \/ Send(i) \/ MarkSent(i) \/ MarkSentFails(i)
             \/ MarkDead(i) \/ MarkRetry(i)
      PROVE  NoLostWakeup'
  BY <1>1, <1>8 DEF Send, MarkSent, MarkSentFails, MarkDead, MarkRetry, Finish
<1> QED
  BY <1>2, <1>3, <1>4, <1>5, <1>6, <1>7, <1>8 DEF Next, Produce, Deliver

Tables == CopiesAccountedFor /\ ListingFlagConsistent /\ PendingIsUntried

\* Steps that touch neither table keep what the tables say, as long as no copy
\* is taken or forgotten.
LEMMA QuietTables ==
    ASSUME Tables, row' = row, flagged' = flagged,
           accepted' = accepted, lost' = lost,
           worker' = "accepted" <=> worker = "accepted",
           worker = "accepted" => batch' = batch
    PROVE  Tables'
<1>1. \A i : (worker' = "accepted" /\ IsCurrent(i)')
                 <=> (worker = "accepted" /\ IsCurrent(i))
  BY DEF IsCurrent
<1> QED
  BY <1>1 DEF Tables, CopiesAccountedFor, ListingFlagConsistent, PendingIsUntried

\* A dying worker turns its unconfirmed copy into a lost one.
LEMMA DyingTables ==
    ASSUME TypeOK, BatchStillDue, Tables, row' = row, flagged' = flagged,
           accepted' = accepted, lost' = LostNow, worker' # "accepted"
    PROVE  Tables'
<1>1. ASSUME NEW i \in Ids
      PROVE  accepted'[i] = lost'[i] + (IF row'[i].status = "sent" THEN 1 ELSE 0)
  <2>1. lost[i] \in Nat
    BY DEF TypeOK
  <2>2. CASE worker = "accepted" /\ IsCurrent(i)
    <3>1. row[i].status # "sent"
      BY <2>2 DEF BatchStillDue, IsCurrent, Due, Unsent
    <3> QED
      BY <2>1, <2>2, <3>1 DEF LostNow, Tables, CopiesAccountedFor
  <2>3. CASE ~(worker = "accepted" /\ IsCurrent(i))
    BY <2>1, <2>3 DEF LostNow, Tables, CopiesAccountedFor
  <2> QED
    BY <2>2, <2>3
<1> QED
  BY <1>1 DEF Tables, CopiesAccountedFor, ListingFlagConsistent, PendingIsUntried

\* A row that is settled or put off for another attempt: the others stay.
LEMMA SettleTables ==
    ASSUME TypeOK, BatchStillDue, Tables,
           NEW i \in Ids, IsCurrent(i),
           MarkSent(i) \/ MarkDead(i) \/ MarkRetry(i)
    PROVE  Tables'
<1>1. /\ accepted' = accepted /\ lost' = lost
      /\ worker' # "accepted"
      /\ \A j \in Ids \ {i} : row'[j] = row[j]
      /\ \A j : IsCurrent(j) => j = i
      /\ row[i].status \in {"pending", "retry"}
      /\ accepted \in [Ids -> Nat] /\ lost \in [Ids -> Nat]
  BY CurrentIsUnique DEF MarkSent, MarkDead, MarkRetry, Finish, TypeOK, history,
     BatchStillDue, IsCurrent, Due, Unsent
<1>2. CASE MarkSent(i)
  <2>1. /\ row'[i].status = "sent" /\ worker = "accepted"
        /\ flagged' = flagged \union ({i} \intersect Listing)
    BY <1>2 DEF MarkSent, TypeOK
  <2>2. accepted[i] = lost[i] + 1
    BY <2>1 DEF Tables, CopiesAccountedFor
  <2>3. CopiesAccountedFor'
    BY <1>1, <2>1, <2>2 DEF Tables, CopiesAccountedFor
  <2>4. ListingFlagConsistent' /\ PendingIsUntried'
    BY <1>1, <2>1, DispatcherAssumption
    DEF Tables, ListingFlagConsistent, PendingIsUntried
  <2> QED
    BY <2>3, <2>4 DEF Tables
<1>3. CASE MarkDead(i) \/ MarkRetry(i)
  <2>1. /\ row'[i].status \in {"dead", "retry"} /\ worker # "accepted"
        /\ flagged' = flagged
    BY <1>3 DEF MarkDead, MarkRetry, TypeOK
  <2>2. CopiesAccountedFor'
    BY <1>1, <2>1 DEF Tables, CopiesAccountedFor
  <2>3. ListingFlagConsistent' /\ PendingIsUntried'
    BY <1>1, <2>1, DispatcherAssumption
    DEF Tables, ListingFlagConsistent, PendingIsUntried
  <2> QED
    BY <2>2, <2>3 DEF Tables
<1> QED
  BY <1>2, <1>3

LEMMA TablesStep ==
    ASSUME TypeOK, BatchStillDue, Tables, [Next]_vars PROVE Tables'
<1> USE DEF tables, process, history, Outside
<1>1. CASE Tick \/ Fetch \/ Begin \/ IterationFails \/ BackoffEnds \/ WaitEnds
           \/ StopCalled \/ StopReturns \/ UNCHANGED vars
  BY <1>1, QuietTables DEF Tick, Fetch, Begin, IterationFails, BackoffEnds,
     WaitEnds, StopCalled, StopReturns, vars
<1>2. CASE StopTimesOut \/ Restart
  BY <1>2, DyingTables DEF StopTimesOut, Restart
<1>3. CASE Iterate
  <2>1. /\ worker # "accepted" /\ worker' # "accepted"
        /\ accepted' = accepted /\ lost' = lost /\ flagged' = flagged
    BY <1>3 DEF Iterate
  <2>2. \A i \in Ids : \/ row'[i] = row[i]
                       \/ Unsent(i) /\ row'[i].status = "dead"
    BY <1>3 DEF Iterate, Expired, TypeOK
  <2> QED
    BY <2>1, <2>2, DispatcherAssumption DEF Tables, CopiesAccountedFor,
       ListingFlagConsistent, PendingIsUntried, Unsent
<1>4. ASSUME NEW i \in Ids, Insert(i) PROVE Tables'
  <2>1. /\ row[i].status = "absent" /\ row'[i].status = "pending"
        /\ row'[i].next_attempt_at = row[i].next_attempt_at
        /\ \A j \in Ids \ {i} : row'[j] = row[j]
        /\ UNCHANGED <<flagged, accepted, lost, worker, batch>>
    BY <1>4 DEF Insert, TypeOK
  <2>2. \A j : IsCurrent(j)' <=> IsCurrent(j)
    BY <2>1 DEF IsCurrent
  <2> QED
    BY <2>1, <2>2, DispatcherAssumption DEF Tables, CopiesAccountedFor,
       ListingFlagConsistent, PendingIsUntried
<1>5. ASSUME NEW i \in Ids, Wake(i) PROVE Tables'
  BY <1>5, QuietTables DEF Wake
<1>6. ASSUME NEW i \in Ids, Send(i) PROVE Tables'
  <2>1. /\ worker = "deliver" /\ IsCurrent(i) /\ batch' = batch
        /\ row' = row /\ flagged' = flagged
        /\ \A j : IsCurrent(j) => j = i
    BY <1>6, CurrentIsUnique DEF Send
  <2>2. PICK extra \in {0, 1} :
          /\ lost' = [lost EXCEPT ![i] = @ + extra]
          /\ accepted' = [accepted EXCEPT
                            ![i] = @ + extra + IF worker' = "accepted" THEN 1 ELSE 0]
    BY <1>6 DEF Send
  <2>3. \A j : IsCurrent(j)' <=> IsCurrent(j)
    BY <2>1 DEF IsCurrent
  <2>4. row[i].status # "sent"
    BY <2>1 DEF BatchStillDue, IsCurrent, Due, Unsent
  <2>5. accepted[i] = lost[i] /\ lost[i] \in Nat
    BY <2>1, <2>4 DEF Tables, CopiesAccountedFor, TypeOK
  <2>6. ASSUME NEW j \in Ids
        PROVE  accepted'[j] = lost'[j] + (IF row'[j].status = "sent"
                  \/ (worker' = "accepted" /\ IsCurrent(j)') THEN 1 ELSE 0)
    <3>1. CASE j = i
      BY <2>1, <2>2, <2>3, <2>4, <2>5, <3>1 DEF TypeOK
    <3>2. CASE j # i
      BY <2>1, <2>2, <2>3, <3>2 DEF TypeOK, Tables, CopiesAccountedFor
    <3> QED
      BY <3>1, <3>2
  <2> QED
    BY <2>1, <2>6 DEF Tables, CopiesAccountedFor, ListingFlagConsistent,
       PendingIsUntried
<1>7. ASSUME NEW i \in Ids, MarkSentFails(i) PROVE Tables'
  <2>1. /\ worker = "accepted" /\ IsCurrent(i) /\ worker' # "accepted"
        /\ row' = row /\ flagged' = flagged /\ accepted' = accepted
        /\ lost' = [lost EXCEPT ![i] = @ + 1]
        /\ \A j : IsCurrent(j) => j = i
    BY <1>7, CurrentIsUnique DEF MarkSentFails
  <2>2. lost' = LostNow
    BY <2>1 DEF LostNow, TypeOK
  <2> QED
    BY <2>1, <2>2, DyingTables
<1>8. ASSUME NEW i \in Ids, MarkSent(i) \/ MarkDead(i) \/ MarkRetry(i) PROVE Tables'
  BY <1>8, SettleTables DEF MarkSent, MarkDead, MarkRetry
<1> QED
  BY <1>1, <1>2, <1>3, <1>4, <1>5, <1>6, <1>7, <1>8 DEF Next, Produce, Deliver

LEMMA InitIInv == Init => IInv
<1> SUFFICES ASSUME Init PROVE IInv
  OBVIOUS
<1>1. TypeOK
  BY DispatcherAssumption DEF Init, TypeOK, Statuses, Places
<1>2. BatchStillDue /\ NoLostWakeup
  BY DEF Init, BatchStillDue, NoLostWakeup
<1>3. CopiesAccountedFor /\ ListingFlagConsistent /\ PendingIsUntried
  BY DispatcherAssumption
  DEF Init, CopiesAccountedFor, ListingFlagConsistent, PendingIsUntried
<1> QED
  BY <1>1, <1>2, <1>3 DEF IInv

LEMMA NextIInv == IInv /\ [Next]_vars => IInv'
  BY TypeStep, BatchStep, TablesStep, WakeStep DEF IInv, Tables

\* The inductive invariant holds in every reachable state.
THEOREM Invariance == Spec => []IInv
  BY InitIInv, NextIInv, PTL DEF Spec

\* Rows, flags, counters and the worker's place keep their types.
THEOREM TypeCorrectness == Spec => []TypeOK
  BY Invariance, PTL DEF IInv

\* A row is `sent' exactly when a copy was confirmed; every further copy that
\* Telegram took is one whose confirmation was lost.
THEOREM NoUnexplainedCopies == Spec => []CopiesAccountedFor
  BY Invariance, PTL DEF IInv

\* Listing event and outbox row are marked together, whatever dies when.
THEOREM FlagsFollowRows == Spec => []ListingFlagConsistent
  BY Invariance, PTL DEF IInv

\* The snapshot never goes stale: only the worker settles rows.
THEOREM SnapshotStaysDue == Spec => []BatchStillDue
  BY Invariance, PTL DEF IInv

\* The worker never sleeps through a wake-up.
THEOREM WakeupsAreNotLost == Spec => []NoLostWakeup
  BY Invariance, PTL DEF IInv

-------------------------------------------------------------------------------
(* Settled rows and the abstract specification *)

\* The actions that write the outbox.
LEMMA ChangesRow ==
    ASSUME [Next]_vars
    PROVE  \/ row' = row \/ Iterate
           \/ \E i \in Ids : Insert(i) \/ MarkDead(i) \/ MarkRetry(i) \/ MarkSent(i)
  BY DEF Next, Produce, Deliver, Tick, Wake, Fetch, Begin, Send, MarkSentFails,
     IterationFails, BackoffEnds, WaitEnds, StopCalled, StopReturns, StopTimesOut,
     Restart, vars, tables, process, history, Outside

\* How one step changes one row.
LEMMA RowStep ==
    ASSUME IInv, [Next]_vars, NEW i \in Ids
    PROVE  \/ row'[i] = row[i]
           \/ row[i].status = "absent" /\ row'[i].status = "pending"
           \/ Unsent(i) /\ row'[i].status \in {"retry", "dead"}
           \/ Unsent(i) /\ row'[i].status = "sent" /\ accepted[i] > 0
<1> USE DEF tables, process, history, Outside, IInv
<1>1. ASSUME NEW j \in Ids, Insert(j)
      PROVE  \/ row'[i] = row[i]
             \/ row[i].status = "absent" /\ row'[i].status = "pending"
  BY <1>1 DEF Insert, TypeOK
<1>2. CASE Iterate
  BY <1>2 DEF Iterate, Expired, TypeOK
<1>3. ASSUME NEW j \in Ids, MarkDead(j) \/ MarkRetry(j)
      PROVE  \/ row'[i] = row[i]
             \/ Unsent(i) /\ row'[i].status \in {"retry", "dead"}
  <2>1. Unsent(j)
    BY <1>3 DEF MarkDead, MarkRetry, BatchStillDue, IsCurrent, Due
  <2>2. CASE MarkDead(j)
    BY <2>1, <2>2 DEF MarkDead, TypeOK
  <2>3. CASE MarkRetry(j)
    BY <2>1, <2>3 DEF MarkRetry, TypeOK
  <2> QED
    BY <1>3, <2>2, <2>3
<1>4. ASSUME NEW j \in Ids, MarkSent(j)
      PROVE  \/ row'[i] = row[i]
             \/ Unsent(i) /\ row'[i].status = "sent" /\ accepted[i] > 0
  <2>1. accepted[j] = lost[j] + 1 /\ lost[j] \in Nat
    BY <1>4 DEF MarkSent, CopiesAccountedFor, TypeOK
  <2> QED
    BY <1>4, <2>1 DEF MarkSent, TypeOK, BatchStillDue, IsCurrent, Due
<1>5. CASE row' = row
  BY <1>5
<1>6. \/ row' = row \/ Iterate
      \/ \E j \in Ids : Insert(j) \/ MarkDead(j) \/ MarkRetry(j) \/ MarkSent(j)
  BY ChangesRow
<1> QED
  BY <1>1, <1>2, <1>3, <1>4, <1>5, <1>6

\* How one step changes the copies: one unsent row gets more, or none does.
LEMMA CopiesStep ==
    ASSUME IInv, [Next]_vars
    PROVE  \/ accepted' = accepted
           \/ \E i \in Ids : /\ Unsent(i) /\ row' = row
                             /\ accepted'[i] > accepted[i]
                             /\ accepted' = [accepted EXCEPT ![i] = accepted'[i]]
<1> USE DEF tables, process, history, Outside, IInv
<1>1. ASSUME NEW i \in Ids, Send(i)
      PROVE  \/ accepted' = accepted
             \/ /\ Unsent(i) /\ row' = row
                /\ accepted'[i] > accepted[i]
                /\ accepted' = [accepted EXCEPT ![i] = accepted'[i]]
  <2>1. Unsent(i) /\ row' = row
    BY <1>1 DEF Send, BatchStillDue, IsCurrent, Due
  <2>2. PICK extra \in {0, 1} : accepted' = [accepted EXCEPT
            ![i] = @ + extra + IF worker' = "accepted" THEN 1 ELSE 0]
    BY <1>1 DEF Send
  <2> DEFINE v == accepted[i] + extra + IF worker' = "accepted" THEN 1 ELSE 0
  <2>3. accepted \in [Ids -> Nat]
    BY DEF TypeOK
  <2>4. v \in Nat /\ v >= accepted[i]
    BY <2>3
  <2>5. accepted' = [accepted EXCEPT ![i] = v]
    BY <2>2
  <2> HIDE DEF v
  <2>6. accepted'[i] = v
    BY <2>3, <2>5
  <2>7. CASE v = accepted[i]
    BY <2>3, <2>5, <2>7
  <2>8. CASE v # accepted[i]
    BY <2>1, <2>3, <2>4, <2>5, <2>6, <2>8
  <2> QED
    BY <2>7, <2>8
<1>2. accepted' = accepted \/ \E i \in Ids : Send(i)
  BY DEF Next, Produce, Deliver, Tick, Insert, Wake, Iterate, Fetch, Begin, MarkSent,
     MarkSentFails, MarkDead, MarkRetry, IterationFails, BackoffEnds, WaitEnds,
     StopCalled, StopReturns, StopTimesOut, Restart, vars
<1> QED
  BY <1>1, <1>2

\* Sent and dead rows never change again, and are never sent again.
THEOREM SettledRowsAreFinal == Spec => SettledIsFinal
<1> DEFINE Good ==
      \A i \in Ids : row[i].status \in {"sent", "dead"} =>
          row'[i] = row[i] /\ accepted'[i] = accepted[i]
<1>1. ASSUME IInv, [Next]_vars PROVE Good
  <2> SUFFICES ASSUME NEW i \in Ids, row[i].status \in {"sent", "dead"}
               PROVE  row'[i] = row[i] /\ accepted'[i] = accepted[i]
    OBVIOUS
  <2>1. row'[i] = row[i]
    BY <1>1, RowStep DEF Unsent
  <2>2. accepted'[i] = accepted[i]
    <3>1. CASE accepted' = accepted
      BY <3>1
    <3>2. ASSUME NEW j \in Ids, Unsent(j),
                 accepted' = [accepted EXCEPT ![j] = accepted'[j]]
          PROVE  accepted'[i] = accepted[i]
      <4>1. j # i
        BY <3>2 DEF Unsent
      <4> QED
        BY <1>1, <3>2, <4>1 DEF IInv, TypeOK
    <3> QED
      BY <1>1, <3>1, <3>2, CopiesStep
  <2> QED
    BY <2>1, <2>2
<1>2. Spec => [][Good]_vars
  BY <1>1, Invariance, PTL DEF Spec
<1> QED
  BY <1>2 DEF SettledIsFinal

\* The outbox implements the abstract delivery promise.
THEOREM Refinement == Spec => ImplementsDelivery
<1> DEFINE stage == [i \in Ids |-> Stage(i)]
<1>1. Init => ND!Init
  BY DEF Init, ND!Init, Stage
<1>2. ASSUME IInv, [Next]_vars PROVE [ND!Next]_(ND!vars)
  <2>1. CASE accepted' # accepted
    <3>1. PICK i \in Ids : /\ Unsent(i) /\ row' = row
                          /\ accepted'[i] > accepted[i]
                          /\ accepted' = [accepted EXCEPT ![i] = accepted'[i]]
      BY <1>2, <2>1, CopiesStep
    <3>2. stage[i] = "queued" /\ stage' = stage
      BY <3>1 DEF Stage, Unsent
    <3> QED
      BY <3>1, <3>2 DEF ND!Next, ND!Transmit
  <2>2. CASE accepted' = accepted
    <3> USE <1>2, <2>2 DEF IInv
    <3>1. CASE row' = row
      BY <3>1 DEF Stage, Unsent, ND!vars
    <3>2. ASSUME NEW i \in Ids, Insert(i) PROVE ND!Submit(i)
      BY <3>2 DEF Insert, TypeOK, Stage, Unsent, ND!Submit
    <3>3. CASE Iterate
      <4> DEFINE S == {i \in Ids : Stage(i) = "queued" /\ Stage(i)' = "dropped"}
      <4>1. \A i \in Ids : \/ row'[i] = row[i]
                           \/ Unsent(i) /\ row'[i].status = "dead"
        BY <3>3 DEF Iterate, Expired, TypeOK
      <4>2. \A i \in Ids \ S : Stage(i)' = Stage(i)
        BY <4>1 DEF Stage, Unsent
      <4>3. ND!Drop(S)
        BY <4>2 DEF ND!Drop
      <4> QED
        BY <4>3 DEF ND!Next
    <3>4. ASSUME NEW i \in Ids, MarkSent(i) PROVE ND!Confirm(i)
      <4>1. Unsent(i) /\ accepted[i] > 0
        BY <3>4 DEF MarkSent, CopiesAccountedFor, TypeOK, BatchStillDue, IsCurrent, Due
      <4> QED
        BY <3>4, <4>1 DEF MarkSent, TypeOK, Stage, Unsent, ND!Confirm
    <3>5. ASSUME NEW i \in Ids, MarkDead(i) PROVE ND!Drop({i})
      <4>1. Unsent(i)
        BY <3>5 DEF MarkDead, BatchStillDue, IsCurrent, Due
      <4> QED
        BY <3>5, <4>1 DEF MarkDead, TypeOK, Stage, Unsent, ND!Drop
    <3>6. ASSUME NEW i \in Ids, MarkRetry(i) PROVE stage' = stage
      <4>1. Unsent(i)
        BY <3>6 DEF MarkRetry, BatchStillDue, IsCurrent, Due
      <4> QED
        BY <3>6, <4>1 DEF MarkRetry, TypeOK, Stage, Unsent
    <3>7. \/ row' = row \/ Iterate
          \/ \E i \in Ids : Insert(i) \/ MarkDead(i) \/ MarkRetry(i) \/ MarkSent(i)
      BY ChangesRow
    <3> QED
      BY <3>1, <3>2, <3>3, <3>4, <3>5, <3>6, <3>7 DEF ND!Next, ND!vars
  <2> QED
    BY <2>1, <2>2
<1> QED
  BY <1>1, <1>2, Invariance, PTL DEF Spec, ImplementsDelivery, ND!Spec
===============================================================================
