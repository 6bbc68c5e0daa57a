---------------------------- MODULE TelegramClient ----------------------------
(***************************************************************************)
(* One TelegramClient.send_message call (app/telegram/client.py): the text *)
(* is split into chunks, each chunk is posted until Telegram takes it,     *)
(* refuses it, or the attempts are used up.  Only httpx errors and 5xx     *)
(* answers are tried again here; everything else ends the call.            *)
(*                                                                         *)
(* Time enters as the ticks a post or a sleep still lasts: a post at most  *)
(* PostMax, which is the sum of httpx's timeouts.                          *)
(***************************************************************************)
EXTENDS Naturals, Sequences

CONSTANTS
    Chunks,      \* chunks of a message
    MaxRetries,  \* telegram_max_retries
    PostMax,     \* the longest a post may last
    Backoffs     \* Backoffs[n]: the longest sleep after the n-th failure

TelegramConstants ==
    /\ Chunks \in Nat \ {0} /\ MaxRetries \in Nat /\ PostMax \in Nat
    /\ Backoffs \in Seq(Nat) /\ Len(Backoffs) >= MaxRetries

VARIABLES
    call,   \* the call: where it is, chunk, failed attempts, ticks left
    taken   \* copies of each chunk that Telegram took during this call (external)

Outcomes == {"accepted", "permanent", "transient"}
NoCall == [at |-> "none", chunk |-> 1, attempt |-> 0, left |-> 0]
Untaken == [c \in 1 .. Chunks |-> 0]

TypeOK ==
    /\ call \in [at : {"none", "posting", "sleeping"} \union Outcomes,
                 chunk : 1 .. Chunks, attempt : 0 .. MaxRetries + 1,
                 left : Nat]
    /\ taken \in [1 .. Chunks -> 0 .. MaxRetries + 1]

Init == call = NoCall /\ taken = Untaken

InProgress == call.at \in {"posting", "sleeping"}
Answered == call.at \in Outcomes

\* A post goes out for chunk c after n failures, and lasts d ticks; a sleep.
Post(c, n, d) == [at |-> "posting", chunk |-> c, attempt |-> n, left |-> d]
Sleep(n, d) == [at |-> "sleeping", chunk |-> call.chunk, attempt |-> n, left |-> d]
Ends(outcome) == [call EXCEPT !.at = outcome, !.left = 0]

Start ==
    /\ call.at = "none"
    /\ \E d \in 0 .. PostMax : call' = Post(1, 0, d)
    /\ taken' = Untaken

Elapse ==
    /\ InProgress /\ call.left > 0
    /\ call' = [call EXCEPT !.left = @ - 1]
    /\ UNCHANGED taken

Posted == call.at = "posting" /\ call.left = 0
Take(n) == taken' = [taken EXCEPT ![call.chunk] = @ + n]

\* 200 and ok: the next chunk, or the message is through.
ChunkTaken ==
    /\ Posted /\ Take(1)
    /\ IF call.chunk = Chunks THEN call' = Ends("accepted")
       ELSE \E d \in 0 .. PostMax : call' = Post(call.chunk + 1, 0, d)

\* Mutant of PostFails: the attempts are counted for the message.
MutPostFailsNext ==
    /\ Posted
    /\ \E lostAnswer \in {0, 1} : Take(lostAnswer)
    /\ IF call.attempt + 1 > MaxRetries /\ call.chunk = Chunks THEN call' = Ends("accepted")
       ELSE IF call.attempt + 1 > MaxRetries
       THEN \E d \in 0 .. PostMax : call' = Post(call.chunk + 1, 0, d)
       ELSE call' = Sleep(call.attempt + 1, Backoffs[call.attempt + 1])

\* A 5xx answer or an httpx error: Telegram may have taken the chunk and only
\* its answer is lost.  Sleep and try again, or give up.
PostFails ==
    /\ Posted
    /\ \E lostAnswer \in {0, 1} : Take(lostAnswer)
    /\ IF call.attempt + 1 > MaxRetries THEN call' = Ends("transient")
       ELSE call' = Sleep(call.attempt + 1, Backoffs[call.attempt + 1])

\* A 429 is left to the dispatcher, and so is a 200 whose body is not JSON,
\* although Telegram took the chunk then.
PostUnclear ==
    /\ Posted
    /\ call' = Ends("transient")
    /\ \E jsonLost \in {0, 1} : Take(jsonLost)

\* 400-class, or ok = false.
PostRefused ==
    /\ Posted
    /\ call' = Ends("permanent")
    /\ UNCHANGED taken

SleepEnds ==
    /\ call.at = "sleeping" /\ call.left = 0
    /\ \E d \in 0 .. PostMax : call' = Post(call.chunk, call.attempt, d)
    /\ UNCHANGED taken

\* The caller has the outcome; or it is cancelled, and the call with it.
Forget == call' = NoCall /\ taken' = Untaken
-------------------------------------------------------------------------------
\* A chunk is taken only after all those before it, and a call that reports
\* success has every chunk taken: no message arrives with a hole.
ChunksInOrder ==
    /\ \A c \in 1 .. Chunks : taken[c] > 0 => \A b \in 1 .. c : taken[b] > 0
    /\ call.at = "accepted" => taken[Chunks] > 0
===============================================================================
