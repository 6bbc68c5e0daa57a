------------------------ MODULE MomentumEvaluatorProofs ------------------------
(***************************************************************************)
(* For any intervals that fit each other: an hour of unbroken evaluation   *)
(* gives a spot market its reference price, and pruning does not change    *)
(* which one.  For any spot and linear markets and prices: each coin is    *)
(* shown by its preferred market, with its others behind.                  *)
(***************************************************************************)
EXTENDS MomentumEvaluator, FiniteSetTheorems, WellFoundedInduction, TLAPS

\* A sample within the tolerance of x.
Covered(x) == \E s \in recorded : s - Tolerance <= x /\ x <= s + Tolerance

\* The clock of the cycle: no sample is newer, a cycle takes at most Lag, and
\* the next one is not late.
Clock ==
    /\ \A s \in recorded : s <= at
    /\ pc # "wait" => now <= at + Lag
    /\ pc = "wait" => now <= due
    /\ pc = "wait" /\ steady # None => due <= at + Lag + Poll
    /\ steady # None => steady <= at

\* What is pruned is too old to count in this cycle and in any later one.
Pruned ==
    \A s \in recorded \ samples :
        s < now - Retention /\ (pc \in {"record", "anchor", "policy"} => s < at - Retention)

\* Up to its newest sample m an unbroken run has one near every moment, and m is
\* less than a sampling interval older than the last cycle that took samples.
Unbroken ==
    steady # None =>
        \E m \in recorded :
            /\ \A x \in steady .. m : Covered(x)
            /\ at - m < SampleEvery + (IF pc = "record" THEN Lag + Poll ELSE 0)

Inv == TypeOK /\ Clock /\ Pruned /\ Unbroken /\ PruningIsInvisible /\ WarmAfterAnHour

-------------------------------------------------------------------------------
(* The sample closest to the target *)

LEMMA NatMin ==
    ASSUME NEW T \in SUBSET Nat, T # {}
    PROVE  \E x \in T : \A y \in T : x <= y
<1>1. PICK x \in T : \A y \in T : <<y, x>> \notin OpToRel(<, Nat)
  BY NatLessThanWellFounded, WFMin
<1>2. \A y \in T : ~ (y < x)
  BY <1>1 DEF OpToRel
<1> QED
  BY <1>2

\* There is a closest sample: of those at the smallest distance the later one.
LEMMA ClosestExists ==
    ASSUME NEW near \in SUBSET Int, near # {}, NEW target \in Int
    PROVE  Closest(near, target) \in near
<1> DEFINE T == {Dist(s, target) : s \in near}
<1>1. ASSUME NEW s \in near PROVE Dist(s, target) \in Nat /\ s \in Int
  BY DEF Dist
<1>2. PICK d \in T : \A e \in T : d <= e
  <2>1. T \in SUBSET Nat /\ T # {}
    BY <1>1
  <2> HIDE DEF T
  <2> QED
    BY <2>1, NatMin
<1>3. \A r \in near : d <= Dist(r, target)
  BY <1>2
<1>4. d \in Nat /\ (target - d \in near \/ target + d \in near)
  <2>1. PICK s \in near : d = Dist(s, target)
    BY <1>2
  <2>2. s = target - d \/ s = target + d
    BY <1>1, <2>1 DEF Dist
  <2> QED
    BY <1>1, <2>1, <2>2
<1>5. \E s \in near : \A r \in near :
         \/ Dist(s, target) < Dist(r, target)
         \/ Dist(s, target) = Dist(r, target) /\ s >= r
  <2>1. CASE target + d \in near
    <3>1. ASSUME NEW r \in near
          PROVE  \/ Dist(target + d, target) < Dist(r, target)
                 \/ Dist(target + d, target) = Dist(r, target) /\ target + d >= r
      <4>1. r \in Int /\ d <= Dist(r, target)
        BY <1>3
      <4> QED
        BY <1>4, <4>1 DEF Dist
    <3> QED
      BY <2>1, <3>1, Zenon
  <2>2. CASE target + d \notin near
    <3>1. ASSUME NEW r \in near
          PROVE  \/ Dist(target - d, target) < Dist(r, target)
                 \/ Dist(target - d, target) = Dist(r, target) /\ target - d >= r
      <4>1. r \in Int /\ d <= Dist(r, target) /\ r # target + d
        BY <1>3, <2>2
      <4> QED
        BY <1>4, <4>1 DEF Dist
    <3>2. target - d \in near
      BY <1>4, <2>2
    <3> QED
      BY <3>1, <3>2, Zenon
  <2> QED
    BY <2>1, <2>2
<1> QED
  BY <1>5, Zenon DEF Closest

LEMMA ReferenceIsNear ==
    ASSUME NEW kept \in SUBSET Int, NEW target \in Int
    PROVE  \/ Reference(kept, target) \in Near(kept, target)
           \/ Reference(kept, target) = None /\ Near(kept, target) = {}
<1>1. Near(kept, target) \in SUBSET Int
  BY DEF Near
<1> QED
  BY <1>1, ClosestExists DEF Reference

\* Samples that are not near the target do not matter.
LEMMA SameReference ==
    ASSUME NEW A, NEW B, NEW target,
           \A s \in target - Tolerance .. target + Tolerance : s \in A <=> s \in B
    PROVE  Reference(A, target) = Reference(B, target)
<1>1. Near(A, target) = Near(B, target)
  BY DEF Near
<1> QED
  BY <1>1 DEF Reference
-------------------------------------------------------------------------------
(* The steps *)

LEMMA Numbers ==
    /\ Hour \in Nat \ {0} /\ SampleEvery \in Nat \ {0} /\ Tolerance \in Nat \ {0}
    /\ Retention \in Nat \ {0} /\ Poll \in Nat \ {0} /\ Lag \in Nat /\ MaxTime \in Nat
    /\ MaxFaults \in Nat /\ MaxRestarts \in Nat /\ None \notin Int
    /\ SampleEvery + Poll + Lag <= 2 * Tolerance + 2 /\ Tolerance <= Hour
    /\ Hour + Tolerance <= Retention
  BY HistoryAssumption

LEMMA InvInit == Init => Inv
  BY Numbers DEF Init, Inv, TypeOK, Clock, Pruned, Unbroken, PruningIsInvisible,
                 WarmAfterAnHour

LEMMA TypeStep ==
    ASSUME Inv, Next
    PROVE  TypeOK'
<1> USE Numbers DEF Inv, TypeOK
<1>1. CASE Tick
  BY <1>1 DEF Tick, store, loop, result, bounds
<1>2. CASE CycleStarts
  BY <1>2 DEF CycleStarts, store, result, bounds
<1>3. CASE NoPrice
  BY <1>3 DEF NoPrice, store, bounds
<1>4. CASE Record
  BY <1>4 DEF Record, store, result, bounds
<1>5. CASE FindAnchor
  <2>1. samples \in SUBSET Int /\ at - Hour \in Int
    OBVIOUS
  <2>2. Reference(samples, at - Hour) \in samples \union {None}
    BY <2>1, ReferenceIsNear DEF Near
  <2> QED
    BY <1>5, <2>2 DEF FindAnchor, store, bounds
<1>6. CASE PolicyDone
  BY <1>6 DEF PolicyDone, store, result, bounds
<1>7. CASE Prune
  <2>1. /\ samples' = {s \in samples : s >= Cutoff} /\ anchor' = None /\ pc' = "wait"
        /\ due' = now + Poll /\ UNCHANGED <<now, last, recorded, at, status, bounds, steady>>
    BY <1>7 DEF Prune, Ended
  <2>2. samples' \subseteq samples /\ now + Poll \in 0 .. MaxTime + Poll + SampleEvery
    BY <2>1
  <2> QED
    BY <2>1, <2>2 DEF bounds
<1>8. CASE CycleFails
  BY <1>8 DEF CycleFails, Ended, store
<1>9. CASE Restart
  BY <1>9 DEF Restart
<1> QED
  BY <1>1, <1>2, <1>3, <1>4, <1>5, <1>6, <1>7, <1>8, <1>9 DEF Next

LEMMA ClockStep ==
    ASSUME Inv, Next
    PROVE  Clock' /\ Pruned'
<1> USE Numbers DEF Inv, TypeOK, Clock, Pruned
<1>1. CASE Tick
  BY <1>1 DEF Tick, store, loop, result, bounds
<1>2. CASE CycleStarts
  BY <1>2 DEF CycleStarts, store, result, bounds
<1>3. CASE NoPrice
  BY <1>3 DEF NoPrice, store, bounds
<1>4. CASE Record
  <2>1. /\ pc = "record" /\ pc' = "anchor" /\ steady' = (IF steady = None THEN at ELSE steady)
        /\ UNCHANGED <<now, at, due>>
    BY <1>4 DEF Record
  <2>2. \/ UNCHANGED <<samples, recorded>>
        \/ samples' = samples \union {at} /\ recorded' = recorded \union {at}
    BY <1>4 DEF Record, store
  <2>3. Clock'
    <3>1. \A s \in recorded' : s <= at'
      <4>1. at' = at /\ at <= at /\ \A s \in recorded : s <= at
        BY <2>1
      <4>2. \A s \in recorded' : s \in recorded \/ s = at
        BY <2>2
      <4> QED
        BY <4>1, <4>2
    <3>2. now' <= at' + Lag /\ steady' <= at'
      BY <2>1
    <3> QED
      BY <2>1, <3>1, <3>2
  <2>4. recorded' \ samples' \subseteq recorded \ samples
    BY <2>2
  <2>5. Pruned'
    BY <2>1, <2>4
  <2> QED
    BY <2>3, <2>5
<1>5. CASE FindAnchor
  BY <1>5 DEF FindAnchor, store, bounds
<1>6. CASE PolicyDone
  BY <1>6 DEF PolicyDone, store, result, bounds
<1>7. CASE Prune
  BY <1>7 DEF Prune, Ended, bounds, Cutoff
<1>8. CASE CycleFails
  BY <1>8 DEF CycleFails, Ended, store
<1>9. CASE Restart
  BY <1>9 DEF Restart
<1> QED
  BY <1>1, <1>2, <1>3, <1>4, <1>5, <1>6, <1>7, <1>8, <1>9 DEF Next

\* What a cycle does with its time: it has a sample to its name that is less than
\* an interval old, and the run is covered up to there.
LEMMA RecordCovers ==
    ASSUME Inv, Record
    PROVE  Unbroken'
<1> USE Numbers
<1>1. /\ pc = "record" /\ pc' = "anchor" /\ steady' = (IF steady = None THEN at ELSE steady)
      /\ UNCHANGED <<now, at, due>> /\ at \in Nat
  BY DEF Record, Inv, TypeOK
<1>2. /\ recorded \subseteq recorded' /\ recorded' \subseteq Int
      /\ \A s \in recorded' : s <= at
  <2>1. recorded' = recorded \/ recorded' = recorded \union {at}
    BY DEF Record, store
  <2>2. recorded \subseteq Int /\ \A s \in recorded : s <= at
    BY DEF Inv, TypeOK, Clock
  <2>3. recorded \subseteq recorded' /\ \A s \in recorded' : s \in recorded \/ s = at
    BY <2>1
  <2>4. at \in Int /\ at <= at
    BY <1>1
  <2> QED
    BY <2>2, <2>3, <2>4
<1>3. PICK r \in recorded' : at - r < SampleEvery
  <2>1. CASE TooSoon
    <3>1. last \in recorded /\ at - last < SampleEvery
      BY <2>1 DEF TooSoon, Inv, TypeOK
    <3> QED
      BY <1>2, <3>1
  <2>2. CASE ~ TooSoon
    <3>1. at \in recorded' /\ at - at < SampleEvery
      BY <1>1, <2>2 DEF Record, store, Inv, TypeOK
    <3> QED
      BY <3>1
  <2> QED
    BY <2>1, <2>2
<1>4. r \in Int /\ r <= at
  BY <1>2
<1>5. CASE steady = None
  <2>1. steady' = at
    BY <1>1, <1>5
  <2>2. \A x \in at .. r : Covered(x)'
    BY <1>1, <1>2, <1>4 DEF Covered
  <2> QED
    BY <1>1, <1>3, <2>1, <2>2 DEF Unbroken
<1>6. CASE steady # None
  <2>1. PICK m \in recorded : /\ \A x \in steady .. m : Covered(x)
                             /\ at - m < SampleEvery + (Lag + Poll)
    BY <1>1, <1>6 DEF Inv, Unbroken
  <2>2. m \in Int /\ m \in recorded' /\ steady' = steady /\ steady \in Int
    BY <1>1, <1>2, <1>6, <2>1 DEF Inv, TypeOK
  <2>3. \A x \in steady .. m : Covered(x)'
    BY <1>2, <2>1 DEF Covered
  <2>4. CASE r <= m
    <3>1. at - m < SampleEvery
      BY <1>1, <1>3, <1>4, <2>2, <2>4
    <3> QED
      BY <1>1, <2>2, <2>3, <3>1 DEF Unbroken
  <2>5. CASE m < r
    <3>1. ASSUME NEW x \in steady .. r, x > m
          PROVE  Covered(x)'
      <4>1. CASE x <= m + Tolerance
        BY <2>2, <3>1, <4>1 DEF Covered
      <4>2. CASE x > m + Tolerance
        <5>1. r - Tolerance <= x /\ x <= r + Tolerance
          BY <1>1, <1>4, <2>1, <2>2, <3>1, <4>2
        <5> QED
          BY <1>3, <5>1 DEF Covered
      <4> QED
        BY <1>4, <2>2, <4>1, <4>2
    <3>2. \A x \in steady .. r : Covered(x)'
      BY <1>4, <2>2, <2>3, <3>1
    <3> QED
      BY <1>1, <1>3, <2>2, <3>2 DEF Unbroken
  <2> QED
    BY <1>4, <2>2, <2>4, <2>5
<1> QED
  BY <1>5, <1>6

LEMMA UnbrokenStep ==
    ASSUME Inv, Next
    PROVE  Unbroken'
<1> USE Numbers DEF Inv, TypeOK, Unbroken, Covered
<1>1. CASE Tick
  BY <1>1 DEF Tick, store, loop, result, bounds
<1>2. CASE CycleStarts
  <2> SUFFICES ASSUME steady # None
               PROVE  Unbroken'
    BY <1>2 DEF CycleStarts
  <2>1. /\ pc = "wait" /\ pc' = "record" /\ at' = now
        /\ UNCHANGED <<steady, recorded>> /\ now <= due /\ due <= at + Lag + Poll
    BY <1>2 DEF CycleStarts, store, Clock
  <2>2. PICK m \in recorded : (\A x \in steady .. m : Covered(x)) /\ at - m < SampleEvery
    BY <2>1
  <2>3. now - m < SampleEvery + (Lag + Poll)
    BY <2>1, <2>2
  <2> QED
    BY <2>1, <2>2, <2>3
<1>3. CASE NoPrice
  BY <1>3 DEF NoPrice, store, bounds
<1>4. CASE Record
  BY <1>4, RecordCovers
<1>5. CASE FindAnchor
  BY <1>5 DEF FindAnchor, store, bounds
<1>6. CASE PolicyDone
  BY <1>6 DEF PolicyDone, store, result, bounds
<1>7. CASE Prune
  BY <1>7 DEF Prune, Ended, bounds
<1>8. CASE CycleFails
  BY <1>8 DEF CycleFails, Ended, store
<1>9. CASE Restart
  BY <1>9 DEF Restart
<1> QED
  BY <1>1, <1>2, <1>3, <1>4, <1>5, <1>6, <1>7, <1>8, <1>9 DEF Next

\* When the anchor is looked for, what was pruned is out of reach, and after an
\* hour something is within it.
LEMMA AnchorFound ==
    ASSUME Inv, FindAnchor
    PROVE  PruningIsInvisible' /\ WarmAfterAnHour'
<1> USE Numbers
<1> DEFINE target == at - Hour
<1>1. /\ pc = "anchor" /\ anchor' = Reference(samples, target)
      /\ status' = (IF anchor' = None THEN "WARMING_UP" ELSE "OK")
      /\ UNCHANGED <<at, steady, recorded, samples>> /\ at \in Nat /\ target \in Int
      /\ samples \in SUBSET Int
  BY DEF FindAnchor, store, Inv, TypeOK
<1>2. \A s \in target - Tolerance .. target + Tolerance : s \in samples <=> s \in recorded
  BY <1>1 DEF Inv, TypeOK, Pruned
<1>3. PruningIsInvisible'
  <2>1. Reference(samples, target) = Reference(recorded, target)
    BY <1>2, SameReference
  <2> QED
    BY <1>1, <2>1 DEF PruningIsInvisible
<1>4. ASSUME steady # None, at - steady >= Hour
      PROVE  Near(samples, target) # {}
  <2>1. PICK m \in recorded : (\A x \in steady .. m : Covered(x)) /\ at - m < SampleEvery
    BY <1>1, <1>4 DEF Inv, Unbroken
  <2>2. m \in Int /\ steady \in Int /\ recorded \subseteq Int
    BY <1>4, <2>1 DEF Inv, TypeOK
  <2>3. Covered(target)
    <3>1. CASE target <= m
      BY <1>1, <1>4, <2>1, <2>2, <3>1
    <3>2. CASE target > m
      <4>1. m - Tolerance <= target /\ target <= m + Tolerance
        BY <1>1, <2>1, <2>2, <3>2
      <4> QED
        BY <4>1 DEF Covered
    <3> QED
      BY <1>1, <2>2, <3>1, <3>2
  <2>4. PICK s \in recorded : s - Tolerance <= target /\ target <= s + Tolerance
    BY <2>3 DEF Covered
  <2>5. s \in target - Tolerance .. target + Tolerance
    BY <1>1, <2>2, <2>4
  <2> QED
    BY <1>2, <2>5 DEF Near
<1>5. WarmAfterAnHour'
  <2>1. Near(samples, target) # {} => Reference(samples, target) # None
    <3>1. Near(samples, target) \subseteq Int
      BY DEF Near
    <3> HIDE DEF target
    <3>2. \/ Reference(samples, target) \in Near(samples, target)
          \/ Near(samples, target) = {}
      BY <1>1, ReferenceIsNear
    <3> QED
      BY <3>1, <3>2
  <2> QED
    BY <1>1, <1>4, <2>1 DEF WarmAfterAnHour
<1> QED
  BY <1>3, <1>5

LEMMA ResultStep ==
    ASSUME Inv, Next
    PROVE  PruningIsInvisible' /\ WarmAfterAnHour'
<1> USE DEF PruningIsInvisible, WarmAfterAnHour
<1>1. CASE Tick
  BY <1>1 DEF Inv, Tick, store, loop, result
<1>2. CASE NoPrice
  BY <1>2 DEF NoPrice
<1>3. CASE FindAnchor
  BY <1>3, AnchorFound
<1>4. CASE pc' # "policy"
  BY <1>4
<1>5. CASE CycleStarts \/ Record \/ PolicyDone \/ Prune \/ CycleFails \/ Restart
  BY <1>4, <1>5 DEF CycleStarts, Record, PolicyDone, Prune, CycleFails, Ended, Restart
<1> QED
  BY <1>1, <1>2, <1>3, <1>5 DEF Next

LEMMA InvAlways == Spec => []Inv
<1>1. Inv /\ [Next]_vars => Inv'
  <2>1. ASSUME Inv, Next PROVE Inv'
    BY <2>1, TypeStep, ClockStep, UnbrokenStep, ResultStep DEF Inv
  <2>2. ASSUME Inv, UNCHANGED vars PROVE Inv'
    BY <2>2 DEF vars, store, loop, result, bounds, Inv, TypeOK, Clock, Pruned, Unbroken,
                Covered, PruningIsInvisible, WarmAfterAnHour
  <2> QED
    BY <2>1, <2>2
<1> QED
  BY InvInit, <1>1, PTL DEF Spec

\* momentum.py evaluate_all: the market loop with all its markets does to the
\* history of one of them what the loop of that market alone does.
THEOREM EvaluatorIsHistory == EvaluatorSpec => Spec
<1>1. EvaluatorInit => Init
  BY DEF EvaluatorInit
<1>2. [EvaluatorNext]_evaluatorVars => [Next]_vars
  BY DEF EvaluatorNext, evaluate_all, Decided, Elsewhere, Next, evaluatorVars
<1> QED
  BY <1>1, <1>2, PTL DEF EvaluatorSpec, Spec

\* The types of the samples, of the cycle and of its result.
THEOREM HistoryTypes == EvaluatorSpec => []TypeOK
<1>1. Inv => TypeOK
  BY DEF Inv
<1> QED
  BY EvaluatorIsHistory, InvAlways, <1>1, PTL

\* momentum.py evaluate, SPEC.md:66: intervals that fit each other leave no hole,
\* neither by sampling and polling nor by a failing cycle or a quick restart.
THEOREM AnHourIsEnough == EvaluatorSpec => []WarmAfterAnHour
<1>1. Inv => WarmAfterAnHour
  BY DEF Inv
<1> QED
  BY EvaluatorIsHistory, InvAlways, <1>1, PTL

\* momentum.py prune_history: a retention of an hour and the tolerance deletes no
\* sample that find_reference could still choose, however long a cycle takes.
THEOREM PruningCostsNothing == EvaluatorSpec => []PruningIsInvisible
<1>1. Inv => PruningIsInvisible
  BY DEF Inv
<1> QED
  BY EvaluatorIsHistory, InvAlways, <1>1, PTL
-------------------------------------------------------------------------------
(* The order of the markets *)

Fractions == [last : Nat \ {0}, reference : Nat \ {0}]

LEMMA Products ==
    /\ \A x, y \in Nat : x * y \in Nat /\ x * y = y * x
    /\ \A x, y, z \in Nat : (x * y) * z = (x * z) * y
    /\ \A x, y, z \in Nat : x <= y => x * z <= y * z
    /\ \A x, y, z \in Nat : x < y /\ z # 0 => x * z < y * z
<1>1. \A x, y \in Nat : x * y \in Nat /\ x * y = y * x
  OBVIOUS
<1>2. \A x, y, z \in Nat : (x * y) * z = (x * z) * y
  OBVIOUS
<1>3. \A x, y, z \in Nat : x <= y => x * z <= y * z
  OBVIOUS
<1>4. \A x, y, z \in Nat : x < y /\ z # 0 => x * z < y * z
  OBVIOUS
<1> QED
  BY <1>1, <1>2, <1>3, <1>4

\* Changes are compared as the fractions they are: a total preorder.
LEMMA AboveOrders ==
    ASSUME NEW c \in Fractions, NEW d \in Fractions, NEW e \in Fractions
    PROVE  /\ Above(c, d) => ~ Above(d, c)
           /\ ~ Above(d, c) /\ ~ Above(e, d) => ~ Above(e, c)
<1>1. /\ {c.last, d.last, e.last, c.reference, d.reference, e.reference} \subseteq Nat \ {0}
  BY DEF Fractions
<1>2. c.last * d.reference \in Nat /\ d.last * c.reference \in Nat
  BY <1>1, Products
<1>3. Above(c, d) => ~ Above(d, c)
  BY <1>2 DEF Above
<1>4. ASSUME ~ Above(d, c), ~ Above(e, d), Above(e, c) PROVE FALSE
  <2> DEFINE a == c.last  b == c.reference  f == d.last  g == d.reference
             h == e.last  k == e.reference
  <2>1. {a, b, f, g, h, k} \subseteq Nat /\ g # 0
    BY <1>1
  <2>2. f * b <= a * g /\ h * g <= f * k /\ a * k < h * b
    <3>1. ~ (f * b > a * g) /\ ~ (h * g > f * k) /\ h * b > a * k
      BY <1>4 DEF Above
    <3> HIDE DEF a, b, f, g, h, k
    <3>2. {f * b, a * g, h * g, f * k, h * b, a * k} \subseteq Nat
      BY <2>1, Products
    <3> QED
      BY <3>1, <3>2
  <2> HIDE DEF a, b, f, g, h, k
  <2>3. (a * k) * g < (h * b) * g
    BY <2>1, <2>2, Products
  <2>4. (h * g) * b <= (f * k) * b
    BY <2>1, <2>2, Products
  <2>5. (f * b) * k <= (a * g) * k
    BY <2>1, <2>2, Products
  <2>6. (h * b) * g = (h * g) * b /\ (f * k) * b = (f * b) * k /\ (a * g) * k = (a * k) * g
    BY <2>1, Products
  <2>7. {(a * k) * g, (h * b) * g, (f * b) * k} \subseteq Nat
    BY <2>1, Products
  <2> DEFINE x == (a * k) * g  y == (h * b) * g  z == (f * b) * k
  <2>8. x < y /\ y <= z /\ z <= x /\ x \in Nat /\ y \in Nat /\ z \in Nat
    BY <2>3, <2>4, <2>5, <2>6, <2>7
  <2> HIDE DEF x, y, z
  <2> QED
    BY <2>8
<1> QED
  BY <1>3, <1>4

\* What aggregate_qualifying sorts: markets with a change, told apart by category
\* and symbol.
Comparable(S) ==
    /\ IsFiniteSet(S)
    /\ \A v \in S : /\ v.category \in {"spot", "linear"} /\ v.symbol \in Nat
                    /\ v.category = "linear" => v.settle_coin \in {"USDT", "USDC"}
                    /\ v.change_1h \in Fractions
    /\ \A v, w \in S : v.category = w.category /\ v.symbol = w.symbol => v = w

LEMMA RankOf ==
    ASSUME NEW v, v.category \in {"spot", "linear"},
           v.category = "linear" => v.settle_coin \in {"USDT", "USDC"}
    PROVE  /\ _tie_break_rank(v) =
                  IF v.category = "spot" THEN IF v.quote_coin \in Stablecoins THEN 3 ELSE 4
                  ELSE IF v.settle_coin = "USDT" THEN 0 ELSE 1
           /\ _tie_break_rank(v) \in 0 .. 4
  BY DEF _tie_break_rank

\* The sort key tells any two of them apart, and orders them.
LEMMA KeyOrders ==
    ASSUME NEW S, Comparable(S)
    PROVE  /\ \A v, w \in S : v # w => SortsBefore(v, w) \/ SortsBefore(w, v)
           /\ \A v \in S : ~ SortsBefore(v, v)
           /\ \A u, v, w \in S : SortsBefore(u, v) /\ SortsBefore(v, w) => SortsBefore(u, w)
<1>1. \A v \in S : /\ v.symbol \in Nat /\ v.change_1h \in Fractions
                   /\ _tie_break_rank(v) \in Int
                   /\ v.category = "linear" <=> _tie_break_rank(v) \in {0, 1}
                   /\ v.category \in {"spot", "linear"}
  BY RankOf DEF Comparable
<1>2. ASSUME NEW v \in S, NEW w \in S, v # w PROVE SortsBefore(v, w) \/ SortsBefore(w, v)
  <2>1. _tie_break_rank(v) = _tie_break_rank(w) => v.symbol # w.symbol
    BY <1>1, <1>2 DEF Comparable
  <2>2. \/ _tie_break_rank(v) < _tie_break_rank(w) \/ _tie_break_rank(w) < _tie_break_rank(v)
        \/ v.symbol < w.symbol \/ w.symbol < v.symbol
    BY <1>1, <2>1
  <2> QED
    BY <1>1, <2>1, <2>2 DEF SortsBefore
<1>3. ASSUME NEW v \in S, SortsBefore(v, v) PROVE FALSE
  BY <1>1, <1>3, AboveOrders DEF SortsBefore
<1>4. ASSUME NEW u \in S, NEW v \in S, NEW w \in S, SortsBefore(u, v), SortsBefore(v, w)
      PROVE  SortsBefore(u, w)
  <2> DEFINE p == u.change_1h  q == v.change_1h  r == w.change_1h
  <2>0. p \in Fractions /\ q \in Fractions /\ r \in Fractions
    BY <1>1
  <2> DEFINE Behind(x, y) == \/ _tie_break_rank(x) < _tie_break_rank(y)
                             \/ _tie_break_rank(x) = _tie_break_rank(y) /\ x.symbol < y.symbol
  <2>1. ~ Above(q, p) /\ ~ Above(r, q)
    BY <1>4, <2>0, AboveOrders DEF SortsBefore
  <2>2. ~ Above(r, p)
    BY <2>0, <2>1, AboveOrders
  <2>3. CASE Above(p, r)
    BY <2>3 DEF SortsBefore
  <2>4. CASE ~ Above(p, r)
    <3>1. ~ Above(p, q)
      BY <2>0, <2>1, <2>4, AboveOrders
    <3>2. ~ Above(q, r)
      BY <2>0, <2>1, <2>4, AboveOrders
    <3>3. Behind(u, v) /\ Behind(v, w)
      BY <1>4, <3>1, <3>2 DEF SortsBefore
    <3>4. Behind(u, w)
      BY <1>1, <3>3
    <3> QED
      BY <2>2, <3>4 DEF SortsBefore
  <2> QED
    BY <2>3, <2>4
<1> QED
  BY <1>2, <1>3, <1>4

-------------------------------------------------------------------------------
(* Sorting *)

InOrder(s) == \A i, j \in DOMAIN s : i < j => SortsBefore(s[i], s[j])

LEMMA FirstExists ==
    ASSUME NEW S, Comparable(S), NEW T \in SUBSET S, T # {}
    PROVE  \E x \in T : \A y \in T \ {x} : SortsBefore(x, y)
<1> DEFINE Ahead(x) == {y \in T : SortsBefore(y, x)}
           A == {Ahead(x) : x \in T}
<1>1. IsWellFoundedOn(StrictSubsetOrdering(S), SUBSET S)
  BY FS_StrictSubsetOrderingWellFounded, FS_FiniteSubsetsOfFinite DEF Comparable
<1>2. A \subseteq SUBSET S /\ A # {}
  <2>1. \A x \in T : Ahead(x) \in SUBSET S
    OBVIOUS
  <2>2. PICK x \in T : TRUE
    OBVIOUS
  <2>3. Ahead(x) \in A
    OBVIOUS
  <2> QED
    BY <2>1, <2>3
<1>3. PICK B \in A : \A C \in A : ~ (<<C, B>> \in StrictSubsetOrdering(S))
  BY <1>1, <1>2, WFMin
<1>4. PICK x \in T : B = Ahead(x)
  OBVIOUS
<1>5. ASSUME NEW y \in T \ {x}, ~ SortsBefore(x, y) PROVE FALSE
  <2>1. SortsBefore(y, x) /\ ~ SortsBefore(y, y)
    BY <1>5, KeyOrders
  <2>2. y \in Ahead(x) /\ y \notin Ahead(y)
    BY <2>1
  <2>3. \A z \in T : SortsBefore(z, y) => SortsBefore(z, x)
    BY <2>1, KeyOrders
  <2>4. Ahead(y) \subseteq Ahead(x)
    BY <2>3
  <2>5. <<Ahead(y), Ahead(x)>> \in StrictSubsetOrdering(S)
    BY <2>2, <2>4 DEF StrictSubsetOrdering
  <2> QED
    BY <2>5, <1>3, <1>4
<1> QED
  BY <1>5

\* A finite set of markets has a sequence in the order of the key: of the subsets
\* without one a smallest would have a first element, which goes in front.
LEMMA SortedExists ==
    ASSUME NEW S, Comparable(S)
    PROVE  \E s \in SetToSeqs(S) : InOrder(s)
<1> DEFINE Bad == {T \in SUBSET S : \A s \in SetToSeqs(T) : ~ InOrder(s)}
<1>1. IsWellFoundedOn(StrictSubsetOrdering(S), SUBSET S)
  BY FS_StrictSubsetOrderingWellFounded, FS_FiniteSubsetsOfFinite DEF Comparable
<1>2. SUFFICES ASSUME Bad # {} PROVE FALSE
  <2>1. S \notin Bad
    BY <1>2
  <2> QED
    BY <2>1
<1>3. PICK T \in Bad : \A U \in Bad : ~ (<<U, T>> \in StrictSubsetOrdering(S))
  <2>1. Bad \subseteq SUBSET S
    OBVIOUS
  <2> HIDE DEF Bad
  <2> QED
    BY <1>1, <1>2, <2>1, WFMin
<1>4. T \in SUBSET S /\ \A s \in SetToSeqs(T) : ~ InOrder(s)
  OBVIOUS
<1>5. T # {}
  <2>1. ASSUME T = {} PROVE FALSE
    <3> DEFINE s == [i \in 1 .. 0 |-> 0]
    <3>1. Cardinality(T) = 0
      BY <2>1, FS_EmptySet
    <3>2. s \in SetToSeqs(T) /\ InOrder(s)
      BY <3>1 DEF SetToSeqs, InOrder
    <3> QED
      BY <1>4, <3>2
  <2> QED
    BY <2>1
<1>6. PICK x \in T : \A y \in T \ {x} : SortsBefore(x, y)
  BY <1>4, <1>5, FirstExists
<1> DEFINE U == T \ {x}  n == Cardinality(T)
<1>7. n \in Nat \ {0} /\ Cardinality(U) = n - 1
  <2>1. IsFiniteSet(T)
    BY <1>4, FS_Subset DEF Comparable
  <2> QED
    BY <2>1, <1>5, FS_RemoveElement, FS_CardinalityType, FS_EmptySet
<1>8. PICK s \in SetToSeqs(U) : InOrder(s)
  <2>1. U \in SUBSET S /\ <<U, T>> \in StrictSubsetOrdering(S)
    BY <1>4, <1>6 DEF StrictSubsetOrdering
  <2>2. U \notin Bad
    BY <2>1, <1>3
  <2> QED
    BY <2>1, <2>2
<1>9. /\ s \in [1 .. n - 1 -> U] /\ \A i, j \in 1 .. n - 1 : i # j => s[i] # s[j]
      /\ \A i, j \in 1 .. n - 1 : i < j => SortsBefore(s[i], s[j])
  BY <1>7, <1>8 DEF SetToSeqs, InOrder
<1> DEFINE r == [i \in 1 .. n |-> IF i = 1 THEN x ELSE s[i - 1]]
<1>10. \A i \in 1 .. n : i # 1 => i - 1 \in 1 .. n - 1 /\ r[i] = s[i - 1] /\ r[i] \in U
  BY <1>7, <1>9
<1>11. r[1] = x /\ r \in [1 .. n -> T]
  BY <1>7, <1>9, <1>10
<1>12. r \in SetToSeqs(T)
  <2>1. ASSUME NEW i \in 1 .. n, NEW j \in 1 .. n, i # j PROVE r[i] # r[j]
    <3>1. CASE i = 1
      BY <2>1, <3>1, <1>10, <1>11
    <3>2. CASE j = 1
      BY <2>1, <3>2, <1>10, <1>11
    <3>3. CASE i # 1 /\ j # 1
      <4>1. i - 1 # j - 1
        BY <2>1, <1>7
      <4> QED
        BY <3>3, <4>1, <1>9, <1>10
    <3> QED
      BY <3>1, <3>2, <3>3
  <2> HIDE DEF r
  <2> QED
    BY <2>1, <1>11 DEF SetToSeqs
<1>13. InOrder(r)
  <2>1. DOMAIN r = 1 .. n
    OBVIOUS
  <2>2. ASSUME NEW i \in 1 .. n, NEW j \in 1 .. n, i < j PROVE SortsBefore(r[i], r[j])
    <3>1. j # 1 /\ r[j] \in U
      BY <2>2, <1>7, <1>10
    <3>2. CASE i = 1
      BY <3>1, <3>2, <1>6, <1>11
    <3>3. CASE i # 1
      <4>1. i - 1 < j - 1
        BY <2>2, <1>7
      <4> QED
        BY <3>1, <3>3, <4>1, <1>9, <1>10
    <3> QED
      BY <3>2, <3>3
  <2> HIDE DEF r
  <2> QED
    BY <2>1, <2>2 DEF InOrder
<1> HIDE DEF r
<1> QED
  BY <1>4, <1>12, <1>13

\* The first of a sorted set is in it and comes before all the others, which follow.
LEMMA HeadOfSorted ==
    ASSUME NEW S, Comparable(S), S # {}
    PROVE  /\ Head(Sorted(S)) \in S
           /\ \A v \in S : v = Head(Sorted(S)) \/ SortsBefore(Head(Sorted(S)), v)
           /\ {Tail(Sorted(S))[i] : i \in DOMAIN Tail(Sorted(S))} = S \ {Head(Sorted(S))}
<1> DEFINE s == Sorted(S)  n == Cardinality(S)
<1>1. s \in SetToSeqs(S) /\ InOrder(s)
  BY SortedExists, Zenon DEF Sorted, InOrder
<1>2. s \in [1 .. n -> S] /\ \A i, j \in 1 .. n : i # j => s[i] # s[j]
  BY <1>1 DEF SetToSeqs
<1>3. IsFiniteSet(S) /\ n \in Nat \ {0}
  BY FS_CardinalityType, FS_EmptySet DEF Comparable
<1> HIDE DEF s
<1>4. Head(s) = s[1] /\ 1 \in 1 .. n
  <2>1. s \in Seq(S) /\ Len(s) = n
    BY <1>2, <1>3
  <2> QED
    BY <2>1, <1>2, <1>3
<1>5. \A v \in S : \E i \in 1 .. n : s[i] = v
  <2>1. s \in Injection(1 .. n, S)
    BY <1>2 DEF Injection, IsInjective
  <2>2. Cardinality(1 .. n) = n
    BY <1>3, FS_Interval
  <2>3. s \in Surjection(1 .. n, S)
    BY <2>1, <2>2, <1>3, FS_Injection
  <2> QED
    BY <2>3 DEF Surjection
<1>6. \A i \in 1 .. n : i # 1 => SortsBefore(s[1], s[i])
  BY <1>1, <1>2, <1>4 DEF InOrder
<1>7. {Tail(s)[i] : i \in DOMAIN Tail(s)} = S \ {Head(s)}
  <2>1. s \in Seq(S) /\ Len(s) = n
    BY <1>2, <1>3
  <2>2. DOMAIN Tail(s) = 1 .. n - 1 /\ \A i \in 1 .. n - 1 : Tail(s)[i] = s[i + 1]
    BY <2>1, <1>3
  <2>3. ASSUME NEW i \in 1 .. n - 1 PROVE s[i + 1] \in S \ {s[1]}
    <3>1. i + 1 \in 1 .. n /\ i + 1 # 1
      BY <1>3
    <3> QED
      BY <3>1, <1>2, <1>4
  <2>4. ASSUME NEW v \in S \ {s[1]} PROVE \E i \in 1 .. n - 1 : s[i + 1] = v
    <3>1. PICK j \in 1 .. n : s[j] = v
      BY <1>5
    <3>2. j - 1 \in 1 .. n - 1 /\ (j - 1) + 1 = j
      BY <3>1, <1>3
    <3> QED
      BY <3>1, <3>2
  <2> DEFINE t == Tail(s)
             E == {t[i] : i \in DOMAIN t}
  <2>5. DOMAIN t = 1 .. n - 1 /\ \A i \in 1 .. n - 1 : t[i] = s[i + 1]
    BY <2>2
  <2> HIDE DEF t
  <2>6. \A v \in E : v \in S \ {s[1]}
    BY <2>3, <2>5
  <2>7. \A v \in S \ {s[1]} : v \in E
    BY <2>4, <2>5
  <2>8. E = S \ {s[1]}
    BY <2>6, <2>7
  <2> QED
    BY <1>4, <2>8 DEF t
<1> QED
  BY <1>2, <1>4, <1>5, <1>6, <1>7 DEF s

-------------------------------------------------------------------------------
(* The market shown for a coin *)

\* The sort key agrees with the documented order of the kinds.
LEMMA KeyIsPreference ==
    ASSUME NEW S, Comparable(S), NEW v \in S, NEW w \in S, v = w \/ SortsBefore(v, w)
    PROVE  PreferredTo(v, w)
<1> DEFINE kind(x) == IF x.category = "linear" THEN x.settle_coin
                      ELSE IF x.quote_coin \in Stablecoins THEN "stable" ELSE "other"
           order == <<"USDT", "USDC", "stable", "other">>
           place(x) == IF _tie_break_rank(x) < 2 THEN _tie_break_rank(x) + 1
                       ELSE _tie_break_rank(x)
<1>1. v.change_1h \in Fractions /\ w.change_1h \in Fractions
  BY DEF Comparable
<1>2. ~ Above(w.change_1h, v.change_1h)
  BY <1>1, AboveOrders DEF SortsBefore
<1>3. ASSUME NEW x \in S PROVE /\ _tie_break_rank(x) \in {0, 1, 3, 4}
                               /\ place(x) \in DOMAIN order /\ order[place(x)] = kind(x)
  BY RankOf DEF Comparable
<1>4. CASE Above(v.change_1h, w.change_1h)
  BY <1>2, <1>4 DEF PreferredTo
<1>5. CASE ~ Above(v.change_1h, w.change_1h)
  <2>1. _tie_break_rank(v) <= _tie_break_rank(w)
    BY <1>3, <1>5 DEF SortsBefore
  <2>2. place(v) <= place(w)
    BY <1>3, <2>1
  <2>3. \E i, j \in DOMAIN order : order[i] = kind(v) /\ order[j] = kind(w) /\ i <= j
    <3> HIDE DEF place, kind, order
    <3> QED
      BY <1>3, <2>2
  <2> QED
    BY <1>2, <2>3 DEF PreferredTo
<1> QED
  BY <1>4, <1>5

\* The market with the history, as the result of its cycle has it.
Shown(price) ==
    [SpotMarket EXCEPT !.last = IF status = "NO_DATA" THEN Missing ELSE price,
                       !.prev = IF status = "OK" THEN AnchorPrice ELSE Missing]

\* What the policy is given comes from one cycle, the one whose status is stored.
Handed ==
    pc = "policy" =>
        \E markets \in Others, price \in SpotPrices :
            values = MomentumValues(markets \union {Shown(price)})

LEMMA HandedAlways == EvaluatorSpec => []Handed
<1>1. EvaluatorInit => Handed
  BY DEF EvaluatorInit, Init, Handed
<1>2. Handed /\ [EvaluatorNext]_evaluatorVars => Handed'
  <2> SUFFICES ASSUME Handed, [EvaluatorNext]_evaluatorVars PROVE Handed'
    OBVIOUS
  <2>1. CASE evaluate_all
    BY <2>1 DEF evaluate_all, SpotMarketAt, Handed, Shown
  <2>2. CASE Decided \/ CycleStarts \/ Record \/ Prune
    <3>1. pc' # "policy"
      BY <2>2 DEF Decided, PolicyDone, CycleFails, Restart, CycleStarts, Record, Prune, Ended
    <3> QED
      BY <3>1 DEF Handed
  <2>3. CASE (Tick /\ UNCHANGED values) \/ UNCHANGED evaluatorVars
    <3>1. UNCHANGED <<pc, status, values>>
      BY <2>3 DEF Tick, loop, result, evaluatorVars, vars
    <3> QED
      BY <3>1 DEF Handed, Shown
  <2> QED
    BY <2>1, <2>2, <2>3 DEF EvaluatorNext, Elsewhere
<1> QED
  BY <1>1, <1>2, PTL DEF EvaluatorSpec

\* Changes are fractions; the market with the history has one only with an anchor.
LEMMA ValuesOf ==
    ASSUME NEW markets \in Others, NEW price \in SpotPrices,
           values = MomentumValues(markets \union {Shown(price)})
    PROVE  /\ IsFiniteSet(values)
           /\ \A v \in values :
                 /\ v.category \in {"spot", "linear"} /\ v.symbol \in Nat
                 /\ v.category = "linear" => v.settle_coin \in {"USDT", "USDC"}
                 /\ v.change_1h # Missing => v.change_1h \in Fractions
                 /\ v.change_1h # Missing /\ SameKey(v, SpotMarket) => status = "OK"
           /\ \A v, w \in values : SameKey(v, w) => v = w
<1> DEFINE Spot == Shown(price)
           M == {m \in markets \union {Spot} : _is_supported(m)}
           Value(m) == [category |-> m.category, symbol |-> m.symbol,
                        base_coin |-> m.base_coin, settle_coin |-> m.settle_coin,
                        quote_coin |-> m.quote_coin, change_1h |-> Change(m.last, m.prev)]
<1>1. values = {Value(m) : m \in M}
  BY DEF MomentumValues
<1>2. /\ Spot.category = "spot" /\ Spot.symbol = SpotMarket.symbol /\ Spot.symbol \in Nat
      /\ Spot.last \in Nat \union {Missing} /\ Spot.prev \in Nat \union {Missing}
      /\ Spot.prev # Missing => status = "OK"
  BY EvaluatorAssumption DEF Shown, IsMarket
<1>3. /\ IsFiniteSet(markets)
      /\ \A m \in markets : /\ m.category \in {"spot", "linear"} /\ m.symbol \in Nat
                            /\ m.last \in Nat \union {Missing} /\ m.prev \in Nat \union {Missing}
                            /\ ~ SameKey(m, SpotMarket)
      /\ \A m, n \in markets : SameKey(m, n) => m = n
      /\ SpotMarket.category = "spot"
  BY EvaluatorAssumption DEF IsMarket
<1>4. IsFiniteSet(M)
  BY <1>3, FS_AddElement, FS_Subset
<1> HIDE DEF Spot
<1>5. ASSUME NEW m \in M
      PROVE  /\ Value(m).category \in {"spot", "linear"} /\ Value(m).symbol \in Nat
             /\ Value(m).category = "linear" => Value(m).settle_coin \in {"USDT", "USDC"}
             /\ Value(m).change_1h # Missing => Value(m).change_1h \in Fractions
             /\ Value(m).change_1h # Missing /\ SameKey(Value(m), SpotMarket) => status = "OK"
  <2>1. /\ m.category \in {"spot", "linear"} /\ m.symbol \in Nat
        /\ m.last \in Nat \union {Missing} /\ m.prev \in Nat \union {Missing}
        /\ SameKey(m, SpotMarket) /\ m.prev # Missing => status = "OK"
    BY <1>2, <1>3
  <2>2. m.category = "linear" => m.settle_coin \in {"USDT", "USDC"}
    BY QualifyingAssumption DEF _is_supported
  <2>3. /\ Change(m.last, m.prev) # Missing => Change(m.last, m.prev) \in Fractions
        /\ Change(m.last, m.prev) # Missing => m.prev # Missing
    BY <2>1 DEF Change, Positive, Fractions
  <2> QED
    BY <2>1, <2>2, <2>3 DEF SameKey
<1>6. ASSUME NEW m \in M, NEW n \in M, SameKey(Value(m), Value(n))
      PROVE  m = n
  <2>1. SameKey(m, n)
    BY <1>6 DEF SameKey
  <2> QED
    BY <1>2, <1>3, <2>1 DEF SameKey
<1>7. IsFiniteSet(values)
  <2> DEFINE f == [m \in M |-> Value(m)]
  <2>1. f \in Surjection(M, values)
    BY <1>1 DEF Surjection
  <2> QED
    BY <1>4, <2>1, FS_Surjection
<1> HIDE DEF Value, M
<1> QED
  BY <1>1, <1>5, <1>6, <1>7

\* The markets over the threshold, their coins, a coin's own, and its entry.
Over == {v \in values : qualifies(v.change_1h)}
OverCoins == {v.base_coin : v \in Over}
MarketsOf(coin) == {v \in values : v.base_coin = coin /\ qualifies(v.change_1h)}
Entry(coin) == [base_coin |-> coin, representative |-> Head(Sorted(MarketsOf(coin))),
                others |-> Tail(Sorted(MarketsOf(coin)))]

LEMMA GivenEntries ==
    /\ aggregate_qualifying(values) = {Entry(coin) : coin \in OverCoins}
    /\ \A coin \in OverCoins :
          /\ Entry(coin).base_coin = coin
          /\ Entry(coin).representative = Head(Sorted(MarketsOf(coin)))
          /\ Entry(coin).others = Tail(Sorted(MarketsOf(coin)))
  BY DEF aggregate_qualifying, Entry, MarketsOf, OverCoins, Over

LEMMA EntryIsBest ==
    ASSUME Handed, pc = "policy", NEW coin \in OverCoins
    PROVE  /\ Entry(coin).representative \in MarketsOf(coin)
           /\ \A v \in MarketsOf(coin) : PreferredTo(Entry(coin).representative, v)
           /\ {Entry(coin).others[i] : i \in DOMAIN Entry(coin).others} =
                  MarketsOf(coin) \ {Entry(coin).representative}
<1>1. PICK markets \in Others, price \in SpotPrices :
          values = MomentumValues(markets \union {Shown(price)})
  BY DEF Handed
<1>2. MarketsOf(coin) \in SUBSET values /\ MarketsOf(coin) # {}
  BY DEF MarketsOf, OverCoins, Over
<1>3. \A v \in MarketsOf(coin) : v.change_1h # Missing
  BY DEF MarketsOf, qualifies
<1>4. Comparable(MarketsOf(coin))
  BY <1>1, <1>2, <1>3, ValuesOf, FS_Subset DEF Comparable, SameKey
<1> DEFINE r == Entry(coin).representative
           t == Entry(coin).others
<1>5. r = Head(Sorted(MarketsOf(coin))) /\ t = Tail(Sorted(MarketsOf(coin)))
  BY GivenEntries
<1>6. {Tail(Sorted(MarketsOf(coin)))[i] : i \in DOMAIN Tail(Sorted(MarketsOf(coin)))} =
          MarketsOf(coin) \ {Head(Sorted(MarketsOf(coin)))}
  BY <1>2, <1>4, HeadOfSorted
<1>7. r \in MarketsOf(coin) /\ \A v \in MarketsOf(coin) : v = r \/ SortsBefore(r, v)
  BY <1>2, <1>4, <1>5, HeadOfSorted
<1>8. \A v \in MarketsOf(coin) : PreferredTo(r, v)
  BY <1>4, <1>7, KeyIsPreference
<1>9. {t[i] : i \in DOMAIN t} = MarketsOf(coin) \ {r}
  BY <1>5, <1>6
<1> QED
  BY <1>7, <1>8, <1>9

\* deduplication.py aggregate_qualifying: whatever spot and linear markets there are,
\* each coin with one over the threshold is shown by the market with the highest
\* change, and among equals by the first in "USDT Linear -> USDC Linear -> stablecoin
\* Spot -> other Spot", with just its other ones behind; a market without an anchor
\* has no say.
THEOREM BestMarketIsShown == EvaluatorSpec => []RepresentativeIsBest
<1>1. Handed => RepresentativeIsBest
  <2> SUFFICES ASSUME Handed, pc = "policy" PROVE RepresentativeIsBest
    BY DEF RepresentativeIsBest
  <2> DEFINE given == aggregate_qualifying(values)
  <2>1. {g.base_coin : g \in given} = OverCoins
    BY GivenEntries
  <2>2. ASSUME NEW g \in given
        PROVE  /\ \A v \in MarketsOf(g.base_coin) : PreferredTo(g.representative, v)
               /\ {g.others[i] : i \in DOMAIN g.others} =
                      MarketsOf(g.base_coin) \ {g.representative}
    <3>1. PICK coin \in OverCoins : g = Entry(coin) /\ g.base_coin = coin
      BY GivenEntries
    <3> QED
      BY <3>1, EntryIsBest
  <2>3. \A g \in given : MarketsOf(g.base_coin) = {v \in Over : v.base_coin = g.base_coin}
    BY DEF Over, MarketsOf
  <2>4. \A v \in Over : SameKey(v, SpotMarket) => status = "OK"
    <3>1. \A v \in Over : v \in values /\ v.change_1h # Missing
      BY DEF Over, qualifies
    <3> QED
      BY <3>1, ValuesOf DEF Handed
  <2> HIDE DEF given
  <2> QED
    BY <2>1, <2>2, <2>3, <2>4 DEF RepresentativeIsBest, Over, OverCoins, given
<1> QED
  BY <1>1, HandedAlways, PTL
================================================================================
