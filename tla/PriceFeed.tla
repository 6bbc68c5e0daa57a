------------------------------- MODULE PriceFeed -------------------------------
(***************************************************************************)
(* app/market/price_engine.py for one market: the store of latest tickers   *)
(* is written by a WebSocket, whose first message is a full snapshot and    *)
(* whose others are deltas of the fields that changed, and by REST polls    *)
(* that replace the whole ticker: those of the polling loop, and the one    *)
(* every new connection makes before it reads its first message.            *)
(*                                                                         *)
(* A field's value is the number of times it has changed at the exchange.   *)
(***************************************************************************)
EXTENDS Naturals, Sequences

CONSTANTS
    Fields,         \* of a ticker, such as last_price and prev_price_1h
    MaxMoves,       \* bound: changes of each field
    MaxConnects,    \* bound: connections
    MaxRestFaults,  \* bound: polls that fail
    None

ASSUME FeedAssumption ==
    /\ Fields # {} /\ MaxMoves \in Nat /\ MaxConnects \in Nat /\ MaxRestFaults \in Nat
    /\ None \notin [Fields -> Nat]

Pollers == {"loop", "reconnect"}

VARIABLES
    truth,       \* the exchange's ticker                             (external)
    connected,   \* the socket is open and subscribed
    channel,     \* messages on their way                             (external)
    live,        \* this connection's snapshot has been applied
    engine,      \* _latest of the market, or None
    asked,       \* polls whose requests are on their way
    answer,      \* the answer that a poll has not applied yet, or None
    connects, restFaults,
    from         \* history: which feed wrote a field last

socket == <<connected, channel, live, connects>>
rest == <<asked, answer, restFaults>>
vars == <<truth, socket, engine, rest, from>>

Idle(p) == p \notin asked /\ answer[p] = None

Tickers == [Fields -> 0 .. MaxMoves]
Deltas == UNION {[F -> 0 .. MaxMoves] : F \in SUBSET Fields}

TypeOK ==
    /\ truth \in Tickers /\ connected \in BOOLEAN /\ live \in BOOLEAN
    /\ channel \in Seq([type : {"snapshot", "delta"}, data : Deltas])
    /\ engine \in Tickers \union {None}
    /\ asked \subseteq Pollers /\ answer \in [Pollers -> Tickers \union {None}]
    /\ connects \in 0 .. MaxConnects /\ restFaults \in 0 .. MaxRestFaults
    /\ from \in [Fields -> {"nobody", "rest", "ws"}]
    /\ engine # None => \A f \in Fields : engine[f] <= truth[f] /\ from[f] # "nobody"
    /\ live => connected /\ engine # None

Init ==
    /\ truth = [f \in Fields |-> 0]
    /\ connected = FALSE /\ channel = <<>> /\ live = FALSE /\ connects = 0
    /\ engine = None /\ asked = {} /\ answer = [p \in Pollers |-> None] /\ restFaults = 0
    /\ from = [f \in Fields |-> "nobody"]

(* A field changes; a subscriber is sent the change.                          *)
Move(f) ==
    /\ truth[f] < MaxMoves
    /\ truth' = [truth EXCEPT ![f] = @ + 1]
    /\ channel' = IF connected
                  THEN Append(channel, [type |-> "delta", data |-> [g \in {f} |-> truth[f] + 1]])
                  ELSE channel
    /\ UNCHANGED <<connected, live, connects, engine, rest, from>>

--------------------------------------------------------------------------------
(* WebSocket *)

(* Subscribed: the server sends a snapshot, on_connected asks for a poll.     *)
Connect ==
    /\ ~connected /\ connects < MaxConnects /\ Idle("reconnect")
    /\ connected' = TRUE /\ live' = FALSE /\ connects' = connects + 1
    /\ channel' = <<[type |-> "snapshot", data |-> truth]>>
    /\ asked' = asked \union {"reconnect"}
    /\ UNCHANGED <<truth, engine, answer, restFaults, from>>

Closed == connected' = FALSE /\ channel' = <<>> /\ live' = FALSE

Disconnect ==
    /\ connected /\ Closed
    /\ UNCHANGED <<truth, connects, engine, rest, from>>

(* update_from_delta: the fields of the delta replace the known ones; a delta *)
(* for a market without a ticker is dropped.                                  *)
Merged(delta) ==
    IF engine = None THEN None
    ELSE [f \in Fields |-> IF f \in DOMAIN delta THEN delta[f] ELSE engine[f]]

Written(F, feed) == [f \in Fields |-> IF f \in F THEN feed ELSE from[f]]

(* message_handler, in the order of arrival, and not before the poll of       *)
(* on_connected is over.                                                      *)
Receive ==
    /\ connected /\ channel # <<>> /\ Idle("reconnect")
    /\ channel' = Tail(channel)
    /\ LET m == Head(channel)
       IN  /\ engine' = IF m.type = "snapshot" THEN m.data ELSE Merged(m.data)
           /\ live' = (live \/ m.type = "snapshot")
           /\ from' = IF engine' = None THEN from ELSE Written(DOMAIN m.data, "ws")
    /\ UNCHANGED <<truth, connected, connects, rest>>

--------------------------------------------------------------------------------
(* REST *)

PollStarts ==
    /\ Idle("loop")
    /\ asked' = asked \union {"loop"}
    /\ UNCHANGED <<truth, socket, engine, answer, restFaults, from>>

(* The exchange answers; poll_once may still wait for the other category.     *)
Answer(p) ==
    /\ p \in asked
    /\ asked' = asked \ {p} /\ answer' = [answer EXCEPT ![p] = truth]
    /\ UNCHANGED <<truth, socket, engine, restFaults, from>>

\* Mutant of Apply: an answer only fills in markets that are not known yet.
MutApplyUnknown(p) ==
    /\ answer[p] # None
    /\ IF engine = None THEN engine' = answer[p] /\ from' = Written(Fields, "rest")
                        ELSE UNCHANGED <<engine, from>>
    /\ answer' = [answer EXCEPT ![p] = None]
    /\ UNCHANGED <<truth, socket, asked, restFaults>>

(* update_tickers, without a look at what is there already.                   *)
Apply(p) ==
    /\ answer[p] # None
    /\ engine' = answer[p] /\ from' = Written(Fields, "rest")
    /\ answer' = [answer EXCEPT ![p] = None]
    /\ UNCHANGED <<truth, socket, asked, restFaults>>

(* Either request fails: nothing is applied.  run_forever goes on after its   *)
(* wait; raised out of on_connected the error closes the new connection.      *)
PollFails(p) ==
    /\ ~Idle(p) /\ restFaults < MaxRestFaults /\ restFaults' = restFaults + 1
    /\ asked' = asked \ {p} /\ answer' = [answer EXCEPT ![p] = None]
    /\ IF p = "reconnect" /\ connected THEN Closed ELSE UNCHANGED <<connected, channel, live>>
    /\ UNCHANGED <<truth, connects, engine, from>>

Next ==
    \/ \E f \in Fields : Move(f)
    \/ Connect \/ Disconnect \/ Receive \/ PollStarts
    \/ \E p \in Pollers : Answer(p) \/ Apply(p) \/ PollFails(p)

Spec == Init /\ [][Next]_vars

(* The event loop runs the poll and read tasks, and Bybit answers requests    *)
(* that do not fail.  Nothing is assumed of the socket.                       *)
FairSpec ==
    /\ Spec
    /\ WF_vars(PollStarts) /\ WF_vars(Receive)
    /\ \A p \in Pollers : WF_vars(Answer(p)) /\ WF_vars(Apply(p))

--------------------------------------------------------------------------------
(* When the socket has delivered everything, each field that it wrote last    *)
(* is the exchange's: snapshots and deltas, with those dropped while the      *)
(* market was unknown, add up (price_engine.py:97-163).                       *)
Delivered == connected /\ live /\ channel = <<>>
LiveFieldsAreExact == Delivered => \A f \in Fields : from[f] = "ws" => engine[f] = truth[f]

(* Whatever mixture of snapshots, deltas and late answers was applied, once   *)
(* the exchange is quiet the engine shows its ticker for good, with or        *)
(* without a socket.                                                          *)
EngineCatchesUp == <>[](engine = truth)

(* "WebSocket is the final primary source of live prices" (README.md:137): a  *)
(* socket that has delivered everything leaves the exchange's ticker in the   *)
(* engine.                                                                    *)
WebSocketIsPrimary == Delivered => engine = truth
================================================================================
