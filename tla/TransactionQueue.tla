---------------------------- MODULE TransactionQueue ----------------------------
(***************************************************************************)
(* The transaction queue of one SDK account (src/account.rs) together with *)
(* the part of a node it talks to.                                         *)
(*                                                                         *)
(* Callers of Account::send_transaction put requests on a bounded channel. *)
(* One worker takes them off, one at a time: it waits until the node shows *)
(* no pending transaction of the account, reads the nonces, signs and      *)
(* sends, waits for the receipt and answers the caller.  Every await of    *)
(* the worker is a step of its own, so that the node, other users of the   *)
(* key and the timeout can act in between.                                 *)
(*                                                                         *)
(* The node follows arkiv-mock, with a block of one transaction sealed     *)
(* atomically: its pool keeps whatever it accepted, it counts everything   *)
(* in the pool as pending, and it refuses only nonces that are too low.    *)
(* It reads the pool before the account nonce when it is asked for the     *)
(* pending nonce, so the two need not fit together.  A request whose       *)
(* sender was dropped may still be on its way to the node.                 *)
(***************************************************************************)
EXTENDS Integers, Sequences, FiniteSets

CONSTANTS
    Requests,       \* requests of the callers, each submitted at most once
    External,       \* the sender of transactions made outside of this queue
    NoRequest,      \* the worker is processing nothing
    Unset,          \* last_used_nonce is None
    QueueCapacity,  \* size of the mpsc channel
    Budget          \* bound on each kind of disturbance in a behaviour

(* A transaction sent from the account by another tool; a lost response or a *)
(* failing call; a redeployed chain; a read answered by a backend that is     *)
(* behind; a pending nonce counted across a block; a send given up while its  *)
(* request is in flight; a signer that panics.                                *)
Disturbances == {"external", "fault", "redeploy", "lag", "torn", "late", "panic"}

ASSUME RequestsAssumption == /\ External \notin Requests
                             /\ NoRequest \notin Requests
ASSUME UnsetAssumption == Unset \notin Nat
ASSUME CapacityAssumption == QueueCapacity \in Nat \ {0}
ASSUME BudgetAssumption == Budget \in [Disturbances -> Nat]

VARIABLES
    caller,     \* where each call of send_transaction is, or how it ended
    queue,      \* requests in the channel, oldest first
    pc,         \* the await the worker is suspended at
    cur,        \* the request being processed
    acct,       \* account nonce of the current get_nonces
    counted,    \* the node's pool as counted for the current get_nonces
    nonce,      \* the local `nonce` of process_transaction
    sent,       \* nonce carried by the signed request
    lastUsed,   \* last_used_nonce
    pool,       \* the node's transaction pool
    chain,      \* senders of the account's mined transactions, by nonce
    wire,       \* transactions still on their way to the node, given up on
    late,       \* history: those of `wire` that the node took
    budget      \* disturbances still allowed

callVars == <<caller, queue>>
localVars == <<acct, counted, nonce, sent>>
workerVars == <<pc, cur, localVars, lastUsed>>
nodeVars == <<pool, chain>>
netVars == <<wire, late>>
vars == <<callVars, workerVars, nodeVars, netVars, budget>>

(* How a call ends: a receipt; the processing timeout; "transaction(s) are *)
(* still pending"; any other error; the channel of a dead worker.          *)
Answers == {"ok", "timeout", "pending", "failed", "closed"}

(* "gone": the caller dropped its future before it was answered. *)
CallStates == {"idle", "calling", "waiting", "gone"} \union Answers

Reading == {"waitAccount", "pickAccount", "againAccount"}
Counting == {"waitCount", "pickCount", "againCount"}
Processing == Reading \union Counting \union
    {"waitPending", "pickPending", "againPending", "send", "receipt"}
WorkerStates == Processing \union {"recv", "dead"}

Transactions == [nonce : Nat, by : Requests \union {External}]

TypeOK ==
    /\ caller \in [Requests -> CallStates]
    /\ queue \in Seq(Requests)
    /\ pc \in WorkerStates
    /\ cur \in Requests \union {NoRequest}
    /\ pc \in Processing <=> cur \in Requests
    /\ acct \in Nat
    /\ counted \in Nat
    /\ nonce \in Nat
    /\ sent \in Nat
    /\ lastUsed \in Nat \union {Unset}
    /\ pool \in SUBSET Transactions
    /\ IsFiniteSet(pool)
    /\ chain \in Seq(Requests \union {External})
    /\ wire \in SUBSET [nonce : Nat, by : Requests]
    /\ late \in SUBSET [nonce : Nat, by : Requests]
    /\ budget \in [Disturbances -> Nat]

Init ==
    /\ caller = [r \in Requests |-> "idle"]
    /\ queue = <<>>
    /\ pc = "recv"
    /\ cur = NoRequest
    /\ acct = 0
    /\ counted = 0
    /\ nonce = 0
    /\ sent = 0
    /\ lastUsed = Unset
    /\ pool = {}
    /\ chain = <<>>
    /\ wire = {}
    /\ late = {}
    /\ budget = Budget

--------------------------------------------------------------------------------
(* Nonces *)

(* Mutant: the tracked nonce is ignored. *)
PickedNonceUntracked(last, pending) == pending

(* pick_nonce: the next pending nonce, or the one after the last used if that *)
(* is larger; 0 when the pending nonce fell back to 0 (chain re-deployed).    *)
PickedNonce(last, pending) ==
    IF last = Unset \/ pending = 0 \/ pending > last
    THEN pending
    ELSE last + 1

(* pending_transactions_count: the signed difference, cut off at 0. *)
PendingCount(account, pending) ==
    IF pending > account THEN pending - account ELSE 0

AccountNonce == Len(chain)

NextPendingNonce == AccountNonce + Cardinality(pool)

NodeAccepts(tx) == tx.nonce >= AccountNonce

SignedTx == [nonce |-> sent, by |-> cur]

Spend(kind) ==
    /\ budget[kind] > 0
    /\ budget' = [budget EXCEPT ![kind] = @ - 1]

Untouched(kinds) == \A kind \in kinds : budget[kind] = Budget[kind]

(* A read of n: requests need not reach the same backend, and the one that   *)
(* answers may be behind.                                                     *)
Views(n) == 0 .. n

Read(n, view) ==
    IF view = n THEN UNCHANGED budget ELSE Spend("lag")

(* The node's answer for the pending nonce: the account nonce as it is now on *)
(* top of the pool as it was when it was counted.                             *)
PendingAnswer == counted + AccountNonce

(* A nonce is picked from an answer that may be too high: what was mined      *)
(* between the two looks is in it twice.                                      *)
ReadForNonce(view) ==
    IF view = PendingAnswer /\ PendingAnswer > NextPendingNonce
    THEN Spend("torn")
    ELSE Read(PendingAnswer, view)

--------------------------------------------------------------------------------
(* Callers *)

Call(r) ==
    /\ caller[r] = "idle"
    /\ caller' = [caller EXCEPT ![r] = "calling"]
    /\ UNCHANGED <<queue, workerVars, nodeVars, netVars, budget>>

(* A full channel suspends the caller; the channel stays open for as long as *)
(* the worker lives.                                                         *)
Enqueue(r) ==
    /\ caller[r] = "calling"
    /\ pc # "dead"
    /\ Len(queue) < QueueCapacity
    /\ queue' = Append(queue, r)
    /\ caller' = [caller EXCEPT ![r] = "waiting"]
    /\ UNCHANGED <<workerVars, nodeVars, netVars, budget>>

EnqueueOnClosed(r) ==
    /\ caller[r] = "calling"
    /\ pc = "dead"
    /\ caller' = [caller EXCEPT ![r] = "closed"]
    /\ UNCHANGED <<queue, workerVars, nodeVars, netVars, budget>>

(* The caller drops its future.  A request already in the channel is still *)
(* processed, and its answer is discarded.                                 *)
Abandon(r) ==
    /\ caller[r] \in {"calling", "waiting"}
    /\ caller' = [caller EXCEPT ![r] = "gone"]
    /\ UNCHANGED <<queue, workerVars, nodeVars, netVars, budget>>

--------------------------------------------------------------------------------
(* The worker *)

(* Mutant: the channel is emptied from its newest end. *)
RecvNewest ==
    /\ pc = "recv"
    /\ queue # <<>>
    /\ cur' = queue[Len(queue)]
    /\ queue' = SubSeq(queue, 1, Len(queue) - 1)
    /\ pc' = "waitAccount"
    /\ UNCHANGED <<caller, localVars, lastUsed, nodeVars, netVars, budget>>

Recv ==
    /\ pc = "recv"
    /\ queue # <<>>
    /\ cur' = Head(queue)
    /\ queue' = Tail(queue)
    /\ pc' = "waitAccount"
    /\ UNCHANGED <<caller, localVars, lastUsed, nodeVars, netVars, budget>>

(* Mutant: the finished request stays the current one. *)
FinishKeepsRequest(answer) ==
    /\ caller' = [caller EXCEPT ![cur] = IF @ = "waiting" THEN answer ELSE @]
    /\ pc' = "recv"
    /\ acct' = 0
    /\ counted' = 0
    /\ nonce' = 0
    /\ sent' = 0
    /\ UNCHANGED <<queue, cur, nodeVars>>

(* process_transaction returned (or was dropped): answer and go for the next. *)
Finish(answer) ==
    /\ caller' = [caller EXCEPT ![cur] = IF @ = "waiting" THEN answer ELSE @]
    /\ pc' = "recv"
    /\ cur' = NoRequest
    /\ acct' = 0
    /\ counted' = 0
    /\ nonce' = 0
    /\ sent' = 0
    /\ UNCHANGED <<queue, nodeVars>>

(* First half of get_nonces. *)
ReadAccountNonce ==
    /\ pc \in Reading
    /\ \E view \in Views(AccountNonce) :
        /\ Read(AccountNonce, view)
        /\ acct' = view
    /\ pc' = CASE pc = "waitAccount"  -> "waitCount"
               [] pc = "pickAccount"  -> "pickCount"
               [] pc = "againAccount" -> "againCount"
    /\ UNCHANGED <<callVars, cur, counted, nonce, sent, lastUsed, nodeVars, netVars>>

(* Second half of get_nonces: the node counts its pool, and only then looks *)
(* up the account nonce for its answer.                                     *)
CountPool ==
    /\ pc \in Counting
    /\ counted' = Cardinality(pool)
    /\ pc' = CASE pc = "waitCount"  -> "waitPending"
               [] pc = "pickCount"  -> "pickPending"
               [] pc = "againCount" -> "againPending"
    /\ UNCHANGED <<callVars, cur, acct, nonce, sent, lastUsed, nodeVars, netVars, budget>>

(* wait_for_pending_transactions, once the nonces are there: go on, sleep   *)
(* and look again, or give up after pending_transaction_timeout.            *)
(* Mutant: the worker does not wait for pending transactions. *)
NothingPendingUnchecked ==
    /\ pc = "waitPending"
    /\ \E view \in Views(PendingAnswer) : Read(PendingAnswer, view)
    /\ pc' = "pickAccount"
    /\ acct' = 0
    /\ counted' = 0
    /\ UNCHANGED <<callVars, cur, nonce, sent, lastUsed, nodeVars, netVars>>

NothingPending ==
    /\ pc = "waitPending"
    /\ \E view \in Views(PendingAnswer) :
        /\ PendingCount(acct, view) = 0
        /\ Read(PendingAnswer, view)
    /\ pc' = "pickAccount"
    /\ acct' = 0
    /\ counted' = 0
    /\ UNCHANGED <<callVars, cur, nonce, sent, lastUsed, nodeVars, netVars>>

SeesPending ==
    \E view \in Views(PendingAnswer) :
        /\ PendingCount(acct, view) > 0
        /\ Read(PendingAnswer, view)

StillPending ==
    /\ pc = "waitPending"
    /\ SeesPending
    /\ pc' = "waitAccount"
    /\ acct' = 0
    /\ counted' = 0
    /\ UNCHANGED <<callVars, cur, nonce, sent, lastUsed, nodeVars, netVars>>

GiveUpWaiting ==
    /\ pc = "waitPending"
    /\ SeesPending
    /\ Finish("pending")
    /\ UNCHANGED <<lastUsed, netVars>>

PickNonce ==
    /\ pc = "pickPending"
    /\ \E view \in Views(PendingAnswer) :
        /\ ReadForNonce(view)
        /\ nonce' = PickedNonce(lastUsed, view)
    /\ sent' = nonce'
    /\ pc' = "send"
    /\ acct' = 0
    /\ counted' = 0
    /\ UNCHANGED <<callVars, cur, lastUsed, nodeVars, netVars>>

(* After "nonce too low": the new nonce goes into the request only, the    *)
(* `nonce` of the enclosing scope keeps the refused value.                 *)
RepickNonce ==
    /\ pc = "againPending"
    /\ \E view \in Views(PendingAnswer) :
        /\ ReadForNonce(view)
        /\ sent' = PickedNonce(lastUsed, view)
    /\ pc' = "send"
    /\ acct' = 0
    /\ counted' = 0
    /\ UNCHANGED <<callVars, cur, nonce, lastUsed, nodeVars, netVars>>

SendAccepted ==
    /\ pc = "send"
    /\ NodeAccepts(SignedTx)
    /\ pool' = pool \union {SignedTx}
    /\ pc' = "receipt"
    /\ UNCHANGED <<callVars, cur, localVars, lastUsed, chain, netVars, budget>>

SendTooLow ==
    /\ pc = "send"
    /\ ~NodeAccepts(SignedTx)
    /\ pc' = "againAccount"
    /\ UNCHANGED <<callVars, cur, localVars, lastUsed, nodeVars, netVars, budget>>

(* The node took the transaction but its response was lost: the provider   *)
(* sees "error sending request" and sends the same bytes again.            *)
SendResponseLost ==
    /\ pc = "send"
    /\ NodeAccepts(SignedTx)
    /\ pool' = pool \union {SignedTx}
    /\ Spend("fault")
    /\ UNCHANGED <<callVars, workerVars, chain, netVars>>

(* The send ends, by the processing timeout or by a connection error, while *)
(* its request is on its way: dropping the future does not call it back.    *)
SendAbandoned ==
    /\ pc = "send"
    /\ wire' = wire \union {SignedTx}
    /\ \E answer \in {"timeout", "failed"} : Finish(answer)
    /\ Spend("late")
    /\ UNCHANGED <<lastUsed, late>>

(* Mutant: the next nonce is saved instead of the last. *)
GotReceiptSavesNext ==
    /\ pc = "receipt"
    /\ sent < Len(chain)
    /\ chain[sent + 1] = cur
    /\ lastUsed' = nonce + 1
    /\ Finish("ok")
    /\ UNCHANGED <<netVars, budget>>

GotReceipt ==
    /\ pc = "receipt"
    /\ sent < Len(chain)
    /\ chain[sent + 1] = cur
    /\ lastUsed' = nonce
    /\ Finish("ok")
    /\ UNCHANGED <<netVars, budget>>

(* Any error that ends process_transaction: signing, or an RPC call that    *)
(* still fails after the provider's own retries.                            *)
Failed ==
    /\ pc \in Processing
    /\ Finish("failed")
    /\ Spend("fault")
    /\ UNCHANGED <<lastUsed, netVars>>

(* Mutants: a request that timed out is processed again; the timeout covers  *)
(* only the wait for the receipt.                                            *)
TimedOutStartsOver ==
    /\ pc \in Processing
    /\ pc' = "waitAccount"
    /\ UNCHANGED <<callVars, cur, localVars, lastUsed, nodeVars, netVars, budget>>

TimedOutReceiptOnly ==
    /\ pc = "receipt"
    /\ Finish("timeout")
    /\ UNCHANGED <<lastUsed, netVars, budget>>

(* The processing timeout drops process_transaction at whichever await it   *)
(* is.  The wait for the receipt is given the same duration and starts      *)
(* later, so it never gives up before this happens.                         *)
TimedOut ==
    /\ pc \in Processing
    /\ Finish("timeout")
    /\ UNCHANGED <<lastUsed, netVars, budget>>

(* A signer that panics takes the worker down: the channel is closed and    *)
(* every request in it is dropped with its response channel.                *)
SignerPanics ==
    /\ pc = "send"
    /\ Spend("panic")
    /\ caller' = [r \in Requests |->
                    IF caller[r] = "waiting" THEN "closed" ELSE caller[r]]
    /\ queue' = <<>>
    /\ pc' = "dead"
    /\ cur' = NoRequest
    /\ UNCHANGED <<localVars, lastUsed, nodeVars, netVars>>

--------------------------------------------------------------------------------
(* The node and the other users of the key *)

(* The miner takes the transaction whose nonce is the account's, and only   *)
(* removes that one from the pool.                                          *)
MineBlock ==
    \E tx \in pool :
        /\ tx.nonce = AccountNonce
        /\ pool' = pool \ {tx}
        /\ chain' = Append(chain, tx.by)
        /\ UNCHANGED <<callVars, workerVars, netVars, budget>>

(* A request that nobody waits for any more reaches the node. *)
Arrive(tx) ==
    /\ wire' = wire \ {tx}
    /\ IF NodeAccepts(tx) /\ tx \notin pool
       THEN pool' = pool \union {tx} /\ late' = late \union {tx}
       ELSE UNCHANGED <<pool, late>>
    /\ UNCHANGED <<callVars, workerVars, chain, budget>>

(* Another tool sends from the same account, with a nonce that was right when *)
(* it read it.                                                                *)
ExternalSend ==
    \E n \in AccountNonce .. NextPendingNonce :
        LET tx == [nonce |-> n, by |-> External]
        IN  /\ tx \notin pool
            /\ pool' = pool \union {tx}
            /\ Spend("external")
            /\ UNCHANGED <<callVars, workerVars, chain, netVars>>

(* The chain is deployed anew: no blocks, no transactions, nonces from 0. *)
Redeploy ==
    /\ Spend("redeploy")
    /\ pool' = {}
    /\ chain' = <<>>
    /\ UNCHANGED <<callVars, workerVars, netVars>>

--------------------------------------------------------------------------------
CallerStep ==
    \E r \in Requests : Call(r) \/ Enqueue(r) \/ EnqueueOnClosed(r) \/ Abandon(r)

WorkerStep ==
    \/ Recv
    \/ ReadAccountNonce
    \/ CountPool
    \/ NothingPending
    \/ StillPending
    \/ GiveUpWaiting
    \/ PickNonce
    \/ RepickNonce
    \/ SendAccepted
    \/ SendTooLow
    \/ SendResponseLost
    \/ SendAbandoned
    \/ GotReceipt
    \/ Failed
    \/ TimedOut
    \/ SignerPanics

NodeStep ==
    \/ MineBlock
    \/ \E tx \in wire : Arrive(tx)
    \/ ExternalSend
    \/ Redeploy

Next == CallerStep \/ WorkerStep \/ NodeStep

Spec == Init /\ [][Next]_vars

(* The worker thread runs and its timers fire; a caller that is being polled *)
(* takes a free slot of the channel or learns that the channel is closed.    *)
(* Nothing is assumed of the node.                                           *)
Fairness ==
    /\ WF_vars(Recv)
    /\ WF_vars(TimedOut)
    /\ \A r \in Requests : WF_vars(Enqueue(r)) /\ WF_vars(EnqueueOnClosed(r))

FairSpec == Spec /\ Fairness

--------------------------------------------------------------------------------
(* Properties *)

Live(tx) == tx.by \in Requests /\ tx.nonce >= AccountNonce

(* However requests time out, fail, are retried or overtaken by a redeployed  *)
(* chain, and whatever other tools send, at most one transaction made by the  *)
(* queue is in the pool with a nonce that can still be mined, next to those   *)
(* that reached the node after the queue had given them up, provided reads    *)
(* are answered by an up-to-date backend.                                     *)
OneLivePending ==
    Untouched({"lag"}) =>
        \A t, u \in pool \ late : Live(t) /\ Live(u) => t = u

(* "We allow only a single transaction to be pending at a time": the late     *)
(* ones included.                                                             *)
OneLiveAtATime == \A t, u \in pool : Live(t) /\ Live(u) => t = u

NoGapBelow(t) == \A n \in AccountNonce .. t.nonce - 1 : \E u \in pool : u.nonce = n

NoGap == \A t \in pool : t.by \in Requests => NoGapBelow(t)

(* No transaction of the queue waits behind a nonce nobody has sent, where it *)
(* would never be mined and would block every later request, as long as no    *)
(* nonce was picked from an answer that is too low or too high, no request is *)
(* late or lost and the chain stays.                                          *)
NonceGapFree == Untouched({"redeploy", "lag", "torn", "fault", "late"}) => NoGap

MinedOnce ==
    \A i, j \in DOMAIN chain : chain[i] = chain[j] /\ chain[i] \in Requests => i = j

(* However often a request was signed anew, it is mined at most once, as long *)
(* as no response of the node is lost.                                        *)
MinedAtMostOnce == Untouched({"fault"}) => MinedOnce

Lags == Budget["lag"] - budget["lag"]

(* A backend that is behind once does no harm while nothing else goes wrong:  *)
(* as long as every call so far got its receipt, the transaction about to be  *)
(* sent carries the next nonce of the account, or the 0 that pick_nonce       *)
(* chooses when it takes an answer of 0 for a redeployed chain.  A second     *)
(* stale read may go through: what is tracked after that 0 is the refused     *)
(* nonce, and the next old answer is believed.                                *)
TrackedNonceOutrunsLag ==
    /\ pc = "send"
    /\ Lags <= 1
    /\ Untouched({"external", "fault", "redeploy"})
    /\ \A r \in Requests : caller[r] \in {"idle", "calling", "waiting", "ok"}
    => sent = AccountNonce \/ sent = 0

(* "Last nonce used by SDK code (saved during previous call to               *)
(* process_transaction)": between two requests the tracked nonce is one that  *)
(* a transaction of the queue was mined with.                                 *)
LastUsedIsOwn ==
    pc = "recv" /\ lastUsed # Unset /\ lastUsed < Len(chain)
        => chain[lastUsed + 1] \in Requests

(* "Next pending nonce is less than last used nonce, but not 0. This should   *)
(* not happen!": a nonce is never picked in such a state of the node.         *)
NeverBehindLastUsed ==
    pc \in {"pickPending", "againPending"} /\ lastUsed # Unset
        => NextPendingNonce > lastUsed \/ NextPendingNonce = 0

(* A call that reached the queue is answered, or its caller went away.       *)
EveryCallAnswered ==
    \A r \in Requests :
        caller[r] = "calling" ~> caller[r] \in Answers \union {"gone"}

(* The queue implements the serial line of SerialQueue: answers come in the  *)
(* order in which the channel accepted the requests, each accepted request   *)
(* gets one answer, and nothing is answered out of turn unless the worker    *)
(* dies.                                                                     *)
line == IF cur = NoRequest THEN queue ELSE <<cur>> \o queue

Serial == INSTANCE SerialQueue WITH
    line <- line, open <- (pc # "dead"), Capacity <- QueueCapacity + 1

SerialSpec == Serial!Spec
================================================================================
