------------------------------- MODULE EthClient -------------------------------
(***************************************************************************)
(* ArkivClient::create_raw_transaction (src/eth.rs) and its NonceManager   *)
(* (src/client.rs): concurrent calls take their nonces from a base and a   *)
(* count of transactions in flight, kept under one lock, then sign and     *)
(* send on their own and wait for the receipt.                             *)
(*                                                                         *)
(* The lock is held while the base is read from the node and not after, so *)
(* calls interleave between the choice of a nonce, the send, the receipt   *)
(* and the completion.  Of the node there is the pool and the chain: other *)
(* tools send for the account too, and the base that is read may be off.   *)
(***************************************************************************)
EXTENDS Integers, Sequences, FiniteSets

CONSTANTS
    Calls,      \* calls of create_raw_transaction
    MaxFaults,  \* bound on failed or dropped calls, reads that are off, other senders
    Other       \* a tool that sends for the account

ASSUME CallsAssumption == IsFiniteSet(Calls)
ASSUME FaultsAssumption == MaxFaults \in Nat
ASSUME OtherAssumption == Other \notin Calls

VARIABLES
    pc,         \* the await each call is suspended at
    nonce,      \* the nonce it was given
    base,       \* base_nonce
    inFlight,   \* in_flight
    pool,       \* the node's transaction pool
    chain,      \* the senders whose transactions were mined, by nonce
    faults      \* faults so far

managerVars == <<base, inFlight>>
nodeVars == <<pool, chain>>
vars == <<pc, nonce, managerVars, nodeVars, faults>>

CallStates == {"idle", "send", "receipt", "complete", "ok", "failed"}

Held(c) == pc[c] \in {"send", "receipt", "complete"}

UnderWay == {c \in Calls : Held(c)}

TypeOK ==
    /\ pc \in [Calls -> CallStates]
    /\ nonce \in [Calls -> Nat]
    /\ base \in Nat
    /\ inFlight \in Nat
    /\ inFlight >= Cardinality(UnderWay)
    /\ pool \in SUBSET [nonce : Nat, by : Calls \union {Other}]
    /\ chain \in Seq(Calls \union {Other})
    /\ faults \in 0 .. MaxFaults

Init ==
    /\ pc = [c \in Calls |-> "idle"]
    /\ nonce = [c \in Calls |-> 0]
    /\ base = 0
    /\ inFlight = 0
    /\ pool = {}
    /\ chain = <<>>
    /\ faults = 0

PendingNonce == Len(chain) + Cardinality(pool)

Tx(c) == [nonce |-> nonce[c], by |-> c]

--------------------------------------------------------------------------------
(* Mutants: the counter is incremented before it is used; the base is read    *)
(* once and for all.                                                          *)
TakeNonceAfterIncrement(c) ==
    /\ pc[c] = "idle"
    /\ base' = IF inFlight = 0 THEN PendingNonce ELSE base
    /\ inFlight' = inFlight + 1
    /\ nonce' = [nonce EXCEPT ![c] = base' + inFlight']
    /\ pc' = [pc EXCEPT ![c] = "send"]
    /\ UNCHANGED <<nodeVars, faults>>

TakeNonceFromFirstBase(c) ==
    /\ pc[c] = "idle"
    /\ base' = base
    /\ inFlight' = inFlight + 1
    /\ nonce' = [nonce EXCEPT ![c] = base' + inFlight]
    /\ pc' = [pc EXCEPT ![c] = "send"]
    /\ UNCHANGED <<nodeVars, faults>>

(* The base is read anew when nothing is in flight, under the lock of the     *)
(* manager; next_nonce counts from it.                                        *)
TakeNonce(c) ==
    /\ pc[c] = "idle"
    /\ base' = IF inFlight = 0 THEN PendingNonce ELSE base
    /\ inFlight' = inFlight + 1
    /\ nonce' = [nonce EXCEPT ![c] = base' + inFlight]
    /\ pc' = [pc EXCEPT ![c] = "send"]
    /\ UNCHANGED <<nodeVars, faults>>

(* The answer of a node that lags, or of one that counts a transaction of the *)
(* other tool in the pool and, mined by then, in the account (lib.rs).        *)
TakeNonceMisread(c) ==
    /\ pc[c] = "idle"
    /\ inFlight = 0
    /\ base' \in 0 .. PendingNonce + Cardinality({i \in DOMAIN chain : chain[i] = Other})
    /\ inFlight' = 1
    /\ nonce' = [nonce EXCEPT ![c] = base']
    /\ pc' = [pc EXCEPT ![c] = "send"]
    /\ faults < MaxFaults
    /\ faults' = faults + 1
    /\ UNCHANGED nodeVars

Send(c) ==
    /\ pc[c] = "send"
    /\ nonce[c] >= Len(chain)
    /\ pool' = pool \union {Tx(c)}
    /\ pc' = [pc EXCEPT ![c] = "receipt"]
    /\ UNCHANGED <<nonce, managerVars, chain, faults>>

(* "nonce too low" is an error like any other: the call returns it. *)
SendTooLow(c) ==
    /\ pc[c] = "send"
    /\ nonce[c] < Len(chain)
    /\ pc' = [pc EXCEPT ![c] = "failed"]
    /\ UNCHANGED <<nonce, managerVars, nodeVars, faults>>

GotReceipt(c) ==
    /\ pc[c] = "receipt"
    /\ \E i \in DOMAIN chain : chain[i] = c
    /\ pc' = [pc EXCEPT ![c] = "complete"]
    /\ UNCHANGED <<nonce, managerVars, nodeVars, faults>>

(* Mutant: the count falls twice. *)
CompleteTwice(c) ==
    /\ pc[c] = "complete"
    /\ inFlight' = IF inFlight > 1 THEN inFlight - 2 ELSE 0
    /\ pc' = [pc EXCEPT ![c] = "ok"]
    /\ UNCHANGED <<nonce, base, nodeVars, faults>>

(* NonceManager::complete: the count falls and the base stays. *)
Complete(c) ==
    /\ pc[c] = "complete"
    /\ inFlight' = IF inFlight > 0 THEN inFlight - 1 ELSE inFlight
    /\ pc' = [pc EXCEPT ![c] = "ok"]
    /\ UNCHANGED <<nonce, base, nodeVars, faults>>

(* A call that fails, or whose future is dropped, before its end leaves the   *)
(* count as it is.  If it fails while reading the base nothing was counted.   *)
Fail(c) ==
    /\ pc[c] \in {"idle", "send", "receipt"}
    /\ faults < MaxFaults
    /\ faults' = faults + 1
    /\ pc' = [pc EXCEPT ![c] = "failed"]
    /\ UNCHANGED <<nonce, managerVars, nodeVars>>

(* Another tool sends a transaction of the account. *)
SendOther ==
    /\ faults < MaxFaults
    /\ faults' = faults + 1
    /\ pool' = pool \union {[nonce |-> PendingNonce, by |-> Other]}
    /\ UNCHANGED <<pc, nonce, managerVars, chain>>

MineBlock ==
    \E tx \in pool :
        /\ tx.nonce = Len(chain)
        /\ pool' = pool \ {tx}
        /\ chain' = Append(chain, tx.by)
        /\ UNCHANGED <<pc, nonce, managerVars, faults>>

Next ==
    \/ \E c \in Calls :
        \/ TakeNonce(c)
        \/ TakeNonceMisread(c)
        \/ Send(c)
        \/ SendTooLow(c)
        \/ GotReceipt(c)
        \/ Complete(c)
        \/ Fail(c)
    \/ SendOther
    \/ MineBlock

Spec == Init /\ [][Next]_vars

--------------------------------------------------------------------------------
(* Properties *)

Used(n) ==
    \/ n < Len(chain)
    \/ \E tx \in pool : tx.nonce = n
    \/ \E c \in Calls : pc[c] = "send" /\ nonce[c] = n

(* As long as no call fails on its way, no other tool sends and no read of    *)
(* the base is off, the nonces that are given out have no gap: every nonce    *)
(* below one in use is mined, in the pool or about to be sent, however calls  *)
(* start and complete in between.                                             *)
NoGapWithoutFaults ==
    faults = 0 => \A c \in Calls : Held(c) => \A n \in 0 .. nonce[c] : Used(n)

(* As long as every call so far succeeded or is still under way, one that     *)
(* starts while no other is under way, and reads the base as it is, is given  *)
(* the account's next nonce, whatever overlapped before it, was sent by other *)
(* tools or read wrong by an earlier call.                                    *)
FreshWhenAlone ==
    [][\A c \in Calls :
        /\ pc[c] = "idle" /\ pc'[c] = "send" /\ UNCHANGED faults
        /\ \A d \in Calls : pc[d] \in {"idle", "ok"}
        => nonce'[c] = PendingNonce]_vars

(* "Tracks and assigns sequential Ethereum nonces for concurrent              *)
(* transactions": two calls under way do not hold the same nonce.             *)
NoncesDistinct ==
    faults = 0 =>
        \A c, d \in Calls : Held(c) /\ Held(d) /\ nonce[c] = nonce[d] => c = d
================================================================================
