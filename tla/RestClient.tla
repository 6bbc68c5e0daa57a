------------------------------ MODULE RestClient ------------------------------
(***************************************************************************)
(* A paginated read with app/bybit/rest.py: _fetch_instruments asks for    *)
(* page after page until the answer carries no cursor, and every page is a *)
(* _request of its own, tried again after a transient failure.  The list   *)
(* at the exchange changes while its pages are read.                       *)
(*                                                                         *)
(* Named assumption (Bybit's side): a cursor names the last symbol of its  *)
(* page, so a page holds what is listed after it.                          *)
(***************************************************************************)
EXTENDS Naturals, FiniteSetsExt

CONSTANTS
    Symbols,      \* what the exchange may list, numbered in its order
    PageLimit,    \* limit
    RestRetries,  \* rest_max_retries
    MaxChurn      \* bound: changes of the list

RestConstants ==
    /\ Symbols \subseteq Nat \ {0} /\ IsFiniteSet(Symbols) /\ PageLimit \in Nat \ {0}
    /\ RestRetries \in Nat /\ MaxChurn \in Nat

VARIABLES
    fetch,          \* where it is, failed attempts of this page, cursor
    results,        \* the instruments of the pages read so far
    listed, churn,  \* the exchange's list and its changes, during a fetch (external)
    steady, ever    \* history: listed throughout the fetch, or at some time in it

NoFetch == [at |-> "none", attempts |-> 0, cursor |-> 0]

TypeOK ==
    /\ fetch \in [at : {"none", "asking", "sleeping", "done", "failed"},
                  attempts : 0 .. RestRetries + 1, cursor : Symbols \union {0}]
    /\ {results, listed, steady, ever} \subseteq SUBSET Symbols
    /\ churn \in 0 .. MaxChurn

Init ==
    /\ fetch = NoFetch /\ results = {}
    /\ listed = {} /\ churn = 0 /\ steady = {} /\ ever = {}

\* A symbol is listed or delisted.
Relist(s) ==
    /\ fetch.at \in {"asking", "sleeping"} /\ churn < MaxChurn
    /\ churn' = churn + 1
    /\ listed' = IF s \in listed THEN listed \ {s} ELSE listed \union {s}
    /\ steady' = steady \ {s} /\ ever' = ever \union (listed' \ listed)
    /\ UNCHANGED <<fetch, results>>

Start ==
    /\ fetch.at = "none"
    /\ fetch' = [NoFetch EXCEPT !.at = "asking"] /\ results' = {}
    /\ listed' \in SUBSET Symbols /\ steady' = listed' /\ ever' = listed'
    /\ churn' = 0

\* The first PageLimit symbols after the cursor.
After(c) == {s \in listed : s > c}
Page == {s \in After(fetch.cursor) :
            Cardinality({r \in After(fetch.cursor) : r < s}) < PageLimit}
NextCursor == IF After(fetch.cursor) = Page THEN 0 ELSE Max(Page)

\* Mutant of PageArrives: a page replaces those before it.
MutPageArrives ==
    /\ fetch.at = "asking" /\ results' = Page
    /\ fetch' = [at |-> IF NextCursor = 0 THEN "done" ELSE "asking",
                 attempts |-> 0, cursor |-> NextCursor]
    /\ UNCHANGED <<listed, churn, steady, ever>>

\* A good answer: its symbols are added; the last page has no cursor.
PageArrives ==
    /\ fetch.at = "asking" /\ results' = results \union Page
    /\ fetch' = [at |-> IF NextCursor = 0 THEN "done" ELSE "asking",
                 attempts |-> 0, cursor |-> NextCursor]
    /\ UNCHANGED <<listed, churn, steady, ever>>

\* A timeout, a connection error, a retryable status or retCode: sleep and ask
\* for the same page again, or give the whole fetch up.
RequestFails ==
    /\ fetch.at = "asking"
    /\ fetch' = [fetch EXCEPT !.attempts = @ + 1,
                    !.at = IF fetch.attempts + 1 > RestRetries THEN "failed" ELSE "sleeping"]
    /\ UNCHANGED <<results, listed, churn, steady, ever>>

\* Any other status or retCode, or a body that is no JSON object.
RequestRefused ==
    /\ fetch.at = "asking" /\ fetch' = [fetch EXCEPT !.at = "failed"]
    /\ UNCHANGED <<results, listed, churn, steady, ever>>

SleepEnds ==
    /\ fetch.at = "sleeping" /\ fetch' = [fetch EXCEPT !.at = "asking"]
    /\ UNCHANGED <<results, listed, churn, steady, ever>>

\* The caller has the result, or is gone.
Forget ==
    /\ fetch' = NoFetch /\ results' = {}
    /\ listed' = {} /\ churn' = 0 /\ steady' = {} /\ ever' = {}
-------------------------------------------------------------------------------
\* A fetch that ends well has every symbol that was listed all the while and
\* none that never was, though the list moved between two of its pages and
\* pages were asked for twice (_fetch_instruments, rest.py:170-190).
PagesAreComplete ==
    /\ results \subseteq ever
    /\ fetch.at = "done" => steady \subseteq results
===============================================================================
