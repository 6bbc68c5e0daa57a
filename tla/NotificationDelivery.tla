------------------------- MODULE NotificationDelivery -------------------------
(***************************************************************************)
(* What the outbox promises its producers, without worker, retries or      *)
(* clock: a submitted notification stays queued until it is either         *)
(* confirmed, after Telegram took at least one copy, or dropped; nothing   *)
(* is sent before it is submitted or after it is settled.                  *)
(***************************************************************************)
EXTENDS Naturals

CONSTANT Ids

VARIABLES stage,   \* Ids -> "new", "queued", "delivered", "dropped"
          copies   \* Ids -> copies that Telegram took

vars == <<stage, copies>>

Init == /\ stage = [i \in Ids |-> "new"]
        /\ copies = [i \in Ids |-> 0]

Submit(i) ==
    /\ stage[i] = "new"
    /\ stage' = [stage EXCEPT ![i] = "queued"]
    /\ UNCHANGED copies

\* At least once: a queued notification may be sent again.
Transmit(i) ==
    /\ stage[i] = "queued"
    /\ copies'[i] > copies[i]
    /\ copies' = [copies EXCEPT ![i] = copies'[i]]
    /\ UNCHANGED stage

Confirm(i) ==
    /\ stage[i] = "queued" /\ copies[i] > 0
    /\ stage' = [stage EXCEPT ![i] = "delivered"]
    /\ UNCHANGED copies

\* Refused for good, or too old: one statement may expire several.
Drop(S) ==
    /\ \A i \in S : stage[i] = "queued"
    /\ stage' = [i \in Ids |-> IF i \in S THEN "dropped" ELSE stage[i]]
    /\ UNCHANGED copies

Next == \/ \E i \in Ids : Submit(i) \/ Transmit(i) \/ Confirm(i)
        \/ \E S \in SUBSET Ids : Drop(S)

Spec == Init /\ [][Next]_vars
===============================================================================
