------------------------------ MODULE SerialQueue -------------------------------
(***************************************************************************)
(* What the transaction queue of an account promises its callers, without  *)
(* nonces, nodes or retries: requests stand in one line, the head of the   *)
(* line is the only one that is answered, an answer is final, and only the *)
(* loss of the worker empties the line out of order.                       *)
(***************************************************************************)
EXTENDS Integers, Sequences

CONSTANTS
    Requests,
    Answers,    \* how a call can end; "closed" is the loss of the worker
    Capacity    \* requests that fit in the line, the one being served included

VARIABLES
    caller,     \* "idle", "calling", "waiting", "gone" or the answer
    line,       \* requests accepted and not yet answered, oldest first
    open        \* the worker is alive

vars == <<caller, line, open>>

Init ==
    /\ caller = [r \in Requests |-> "idle"]
    /\ line = <<>>
    /\ open = TRUE

Call(r) ==
    /\ caller[r] = "idle"
    /\ caller' = [caller EXCEPT ![r] = "calling"]
    /\ UNCHANGED <<line, open>>

Accept(r) ==
    /\ open
    /\ caller[r] = "calling"
    /\ Len(line) < Capacity
    /\ line' = Append(line, r)
    /\ caller' = [caller EXCEPT ![r] = "waiting"]
    /\ UNCHANGED open

Refuse(r) ==
    /\ ~open
    /\ caller[r] = "calling"
    /\ caller' = [caller EXCEPT ![r] = "closed"]
    /\ UNCHANGED <<line, open>>

Abandon(r) ==
    /\ caller[r] \in {"calling", "waiting"}
    /\ caller' = [caller EXCEPT ![r] = "gone"]
    /\ UNCHANGED <<line, open>>

(* The head of the line is answered, unless its caller went away. *)
Answer(answer) ==
    /\ line # <<>>
    /\ line' = Tail(line)
    /\ caller' = [caller EXCEPT ![Head(line)] = IF @ = "waiting" THEN answer ELSE @]
    /\ UNCHANGED open

Close ==
    /\ open
    /\ open' = FALSE
    /\ line' = <<>>
    /\ caller' = [r \in Requests |->
                    IF caller[r] = "waiting" THEN "closed" ELSE caller[r]]

Next ==
    \/ \E r \in Requests : Call(r) \/ Accept(r) \/ Refuse(r) \/ Abandon(r)
    \/ \E answer \in Answers : Answer(answer)
    \/ Close

Spec == Init /\ [][Next]_vars
================================================================================
