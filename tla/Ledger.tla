--------------------------------- MODULE Ledger ---------------------------------
(***************************************************************************)
(* What a node promises to those that send it transactions, without a pool *)
(* of its own, a mining loop or locks: a transaction it accepted waits     *)
(* until a block executes it, a block is one step, and it executes         *)
(* transactions of each account that continue the account's nonces.        *)
(* Nothing is promised once a reset began.                                 *)
(***************************************************************************)
EXTENDS Integers, Sequences

CONSTANTS
    Senders,
    Transactions    \* records that have the fields from and nonce

VARIABLES
    waiting,        \* transactions accepted
    executed,       \* those of each sender in the chain, oldest first
    kept            \* no reset has begun

vars == <<waiting, executed, kept>>

Init ==
    /\ waiting = {}
    /\ executed = [s \in Senders |-> <<>>]
    /\ kept = TRUE

(* Whatever its nonce is: that of a past transaction is not refused. *)
Accept(tx) ==
    /\ waiting' = waiting \union {tx}
    /\ UNCHANGED <<executed, kept>>

(* The places that a block adds to the transactions of a sender. *)
NewPlaces(s) == Len(executed[s]) + 1 .. Len(executed'[s])

(* What is executed waits no longer, unless it was sent again meanwhile. *)
Block ==
    /\ executed' = [s \in Senders |-> executed'[s]]
    /\ \A s \in Senders :
        /\ Len(executed[s]) <= Len(executed'[s])
        /\ \A i \in 1 .. Len(executed[s]) : executed'[s][i] = executed[s][i]
        /\ \A i \in NewPlaces(s) :
            /\ executed'[s][i] \in waiting
            /\ executed'[s][i].from = s
            /\ executed'[s][i].nonce = i - 1
    /\ waiting' \subseteq waiting
    /\ \A tx \in waiting \ waiting' : \E i \in NewPlaces(tx.from) : executed'[tx.from][i] = tx
    /\ UNCHANGED kept

Reset == kept' = FALSE

Next ==
    \/ \E tx \in Transactions : Accept(tx)
    \/ Block
    \/ Reset

Spec == Init /\ [][Next]_vars
================================================================================
