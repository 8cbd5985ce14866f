-------------------------------- MODULE MockNode --------------------------------
(***************************************************************************)
(* Transaction pool, mining loop and account nonces of arkiv-mock          *)
(* (lib.rs, transaction_pool.rs, execution.rs, blockchain.rs, server.rs).  *)
(*                                                                         *)
(* The pool, the chain and the entity store have a lock each and none is   *)
(* held across an await, so three activities interleave: RPC handlers that *)
(* validate a transaction and then add it, the mining loop that takes a    *)
(* batch, filters it, removes it from the pool and adds the block, and     *)
(* reset_blockchain_to_genesis that clears pool and chain one by one.      *)
(*                                                                         *)
(* Blocks are not kept apart: `mined` has the transactions of each sender  *)
(* in the order in which add_block processed them.                         *)
(***************************************************************************)
EXTENDS Integers, Sequences, FiniteSets

CONSTANTS
    Senders,
    Payloads,       \* what tells transactions of equal sender and nonce apart
    MaxNonce,       \* bound on the nonces that clients use
    BatchSize,      \* transactions taken from the pool for one block
    Budget          \* bound on each kind of outside call in a behaviour

(* A transaction is submitted, the pool is held, the chain is reset. *)
OutsideCalls == {"submit", "hold", "reset"}

ASSUME BoundsAssumption == /\ MaxNonce \in Nat
                           /\ BatchSize \in Nat \ {0}
                           /\ Budget \in [OutsideCalls -> Nat]

VARIABLES
    validated,  \* transactions whose handler is between validation and adding
    pool,       \* the pool: transactions by hash
    held,       \* the hold period of the pool has not passed
    miner,      \* where the mining loop is
    batch,      \* the batch it took
    block,      \* the transactions it selected for the block
    toRemove,   \* those of them it has still to remove from the pool
    nonces,     \* account nonces
    mined,      \* transactions of each sender in the chain
    resetting,  \* reset cleared the pool and not yet the chain
    budget      \* outside calls still allowed

minerVars == <<miner, batch, block, toRemove>>
chainVars == <<nonces, mined>>
vars == <<validated, pool, held, minerVars, chainVars, resetting, budget>>

Transactions == [from : Senders, nonce : 0 .. MaxNonce, payload : Payloads]

TypeOK ==
    /\ validated \subseteq Transactions
    /\ pool \subseteq Transactions
    /\ held \in BOOLEAN
    /\ miner \in {"idle", "filter", "remove", "add"}
    /\ batch \subseteq Transactions
    /\ block \subseteq Transactions
    /\ toRemove \subseteq block
    /\ nonces \in [Senders -> Nat]
    /\ mined \in [Senders -> Seq(Transactions)]
    /\ resetting \in BOOLEAN
    /\ budget \in [OutsideCalls -> Nat]

Init ==
    /\ validated = {}
    /\ pool = {}
    /\ held = FALSE
    /\ miner = "idle"
    /\ batch = {}
    /\ block = {}
    /\ toRemove = {}
    /\ nonces = [s \in Senders |-> 0]
    /\ mined = [s \in Senders |-> <<>>]
    /\ resetting = FALSE
    /\ budget = Budget

Spend(kind) ==
    /\ budget[kind] > 0
    /\ budget' = [budget EXCEPT ![kind] = @ - 1]

--------------------------------------------------------------------------------
(* RPC handlers: send_raw_transaction and send_transaction *)

(* validate_transaction_nonce refuses only nonces below the account's. *)
Validate(tx) ==
    /\ Spend("submit")
    /\ tx.nonce >= nonces[tx.from]
    /\ validated' = validated \union {tx}
    /\ UNCHANGED <<pool, held, minerVars, chainVars, resetting>>

AddTransaction(tx) ==
    /\ tx \in validated
    /\ validated' = validated \ {tx}
    /\ pool' = pool \union {tx}
    /\ UNCHANGED <<held, minerVars, chainVars, resetting, budget>>

(* hold_transactions_for, and the end of the period. *)
Hold ==
    /\ Spend("hold")
    /\ held' = TRUE
    /\ UNCHANGED <<validated, pool, minerVars, chainVars, resetting>>

Release ==
    /\ held
    /\ held' = FALSE
    /\ UNCHANGED <<validated, pool, minerVars, chainVars, resetting, budget>>

--------------------------------------------------------------------------------
(* The mining loop: mine_block *)

(* Mutant: one transaction less than fits. *)
BatchesShort ==
    IF held THEN {{}}
    ELSE {b \in SUBSET pool :
            \/ b = pool /\ Cardinality(pool) < BatchSize
            \/ Cardinality(b) = BatchSize - 1}

(* get_transaction_batch: the first BatchSize transactions in the order of a *)
(* hash map; none while the pool is held.                                    *)
Batches ==
    IF held THEN {{}}
    ELSE {b \in SUBSET pool :
            \/ b = pool /\ Cardinality(pool) <= BatchSize
            \/ Cardinality(b) = BatchSize}

TakeBatch ==
    /\ miner = "idle"
    /\ batch' \in Batches
    /\ miner' = "filter"
    /\ UNCHANGED <<validated, pool, held, block, toRemove, chainVars, resetting, budget>>

(* filter_invalid_transactions: of each sender the transactions whose nonces *)
(* continue the account's without a gap, one for each nonce.                 *)
Continues(b, s) ==
    {n \in 0 .. MaxNonce : \A m \in nonces[s] .. n : \E t \in b : t.from = s /\ t.nonce = m}

Selections(b) ==
    {c \in SUBSET b :
        /\ \A t \in c : t.nonce >= nonces[t.from] /\ t.nonce \in Continues(b, t.from)
        /\ \A s \in Senders : \A n \in Continues(b, s) :
                n >= nonces[s] => \E t \in c : t.from = s /\ t.nonce = n
        /\ \A t, u \in c : t.from = u.from /\ t.nonce = u.nonce => t = u}

(* Mutants: a later nonce is taken as well as the expected one; the whole    *)
(* batch is removed from the pool.                                           *)
FilterBatchWithGaps ==
    /\ miner = "filter"
    /\ block' = {t \in batch : t.nonce >= nonces[t.from]}
    /\ toRemove' = block'
    /\ batch' = {}
    /\ miner' = "remove"
    /\ UNCHANGED <<validated, pool, held, chainVars, resetting, budget>>

FilterBatchDropsRest ==
    /\ miner = "filter"
    /\ block' \in Selections(batch)
    /\ toRemove' = batch
    /\ batch' = {}
    /\ miner' = "remove"
    /\ UNCHANGED <<validated, pool, held, chainVars, resetting, budget>>

FilterBatch ==
    /\ miner = "filter"
    /\ block' \in Selections(batch)
    /\ toRemove' = block'
    /\ batch' = {}
    /\ miner' = "remove"
    /\ UNCHANGED <<validated, pool, held, chainVars, resetting, budget>>

(* remove_transaction, one lock acquisition for each. *)
RemoveFromPool(tx) ==
    /\ miner = "remove"
    /\ tx \in toRemove
    /\ pool' = pool \ {tx}
    /\ toRemove' = toRemove \ {tx}
    /\ UNCHANGED <<validated, held, miner, batch, block, chainVars, resetting, budget>>

(* The housekeeping transaction is created by the node's own key, of which    *)
(* signing does not fail: the block that starts without one is left out.      *)
Removed ==
    /\ miner = "remove"
    /\ toRemove = {}
    /\ miner' = "add"
    /\ UNCHANGED <<validated, pool, held, batch, block, toRemove, chainVars, resetting, budget>>

(* The transactions of a sender in a block, by nonce. *)
FromSender(b, s) ==
    LET own == {t \in b : t.from = s}
        First(t) == Cardinality({u \in own : u.nonce < t.nonce}) + 1
    IN  [i \in 1 .. Cardinality(own) |-> CHOOSE t \in own : First(t) = i]

(* add_block, under the lock of the chain: every transaction bumps the nonce *)
(* of its sender by one, whatever nonce it carries itself.                   *)
AddBlock ==
    /\ miner = "add"
    /\ mined' = [s \in Senders |-> mined[s] \o FromSender(block, s)]
    /\ nonces' = [s \in Senders |-> nonces[s] + Len(FromSender(block, s))]
    /\ block' = {}
    /\ miner' = "idle"
    /\ UNCHANGED <<validated, pool, held, batch, toRemove, resetting, budget>>

--------------------------------------------------------------------------------
(* reset_blockchain_to_genesis *)

ResetPool ==
    /\ ~resetting
    /\ Spend("reset")
    /\ pool' = {}
    /\ resetting' = TRUE
    /\ UNCHANGED <<validated, held, minerVars, chainVars>>

ResetChain ==
    /\ resetting
    /\ nonces' = [s \in Senders |-> 0]
    /\ mined' = [s \in Senders |-> <<>>]
    /\ resetting' = FALSE
    /\ UNCHANGED <<validated, pool, held, minerVars, budget>>

--------------------------------------------------------------------------------
RpcStep ==
    \/ \E tx \in Transactions : Validate(tx) \/ AddTransaction(tx)
    \/ Hold
    \/ Release

MinerStep ==
    \/ TakeBatch
    \/ FilterBatch
    \/ \E tx \in toRemove : RemoveFromPool(tx)
    \/ Removed
    \/ AddBlock

Next == RpcStep \/ MinerStep \/ ResetPool \/ ResetChain

Spec == Init /\ [][Next]_vars

(* The mining task runs, an RPC handler that started finishes, and a hold    *)
(* period ends.                                                              *)
Fairness ==
    /\ WF_vars(MinerStep)
    /\ \A tx \in Transactions : WF_vars(AddTransaction(tx))
    /\ WF_vars(Release)

FairSpec == Spec /\ Fairness

--------------------------------------------------------------------------------
(* Properties *)

NeverReset == budget["reset"] = Budget["reset"]

(* The transactions of an account are mined in the order of their nonces,    *)
(* without gaps or repetitions, and the account's nonce is their number,     *)
(* although batch, filter, removal and add_block each see the pool and the   *)
(* chain at another moment.                                                  *)
NoncesInOrder ==
    NeverReset =>
        \A s \in Senders :
            /\ nonces[s] = Len(mined[s])
            /\ \A i \in 1 .. Len(mined[s]) : mined[s][i].nonce = i - 1

InChain(tx) == \E i \in DOMAIN mined[tx.from] : mined[tx.from][i] = tx

Known(tx) == tx \in pool \union block \/ InChain(tx)

(* A transaction the node has accepted stays in the pool, in the block being *)
(* made or in the chain until the chain is reset: the filter drops nothing,  *)
(* and nothing falls between the removal from the pool and add_block.        *)
NothingLost ==
    [][NeverReset' => \A tx \in Transactions : Known(tx) => Known(tx)']_vars

(* To those who send it transactions the mock is the one-step node of Ledger: *)
(* what the mining loop has taken from the pool still waits, and add_block    *)
(* executes a run of nonces of each account and drops nothing else, although  *)
(* batch, filter, removals and add_block are steps apart.                     *)
Accounts == INSTANCE Ledger WITH
    waiting <- pool \union block,
    executed <- mined,
    kept <- NeverReset

LedgerSpec == Accounts!Spec

Executable(tx) ==
    /\ tx \in pool
    /\ tx.nonce = nonces[tx.from]

(* An account with a transaction in the pool that carries its next nonce     *)
(* makes progress: the miner gets to that nonce, as long as the whole pool   *)
(* fits into one batch, for transactions that can never be mined stay there. *)
Executed ==
    \A s \in Senders : \A n \in 0 .. MaxNonce :
        (\E tx \in pool : Executable(tx) /\ tx.from = s /\ tx.nonce = n)
            ~> (nonces[s] > n \/ ~NeverReset \/ Cardinality(pool) > BatchSize)
================================================================================
