------------------------------ MODULE ArkivClient ------------------------------
(***************************************************************************)
(* The registry of accounts and the entity calls of ArkivClient            *)
(* (client.rs), shared by concurrent tasks.                                *)
(*                                                                         *)
(* Registering, loading and syncing validate the chain, talk to the node   *)
(* and then change the map of accounts under its lock.  Every new account  *)
(* has a worker with a queue of its own (account.rs); a replaced account   *)
(* keeps its worker, for tasks that hold it and for ever after: the worker *)
(* owns a sender of the channel it reads.  An entity call takes an account *)
(* from the map, queues a transaction and reads the logs of the receipt.   *)
(*                                                                         *)
(* Of the node there is what the calls see: it runs some of the pool, one  *)
(* transaction after the other, and only then adds the block and answers   *)
(* for nonces and receipts again; a receipt has the logs of the whole      *)
(* block (lib.rs).  Nonces are the subject of TransactionQueue.            *)
(***************************************************************************)
EXTENDS Integers, Sequences, SequencesExt

CONSTANTS
    Tasks,
    Addresses,
    Chains,         \* chain ids
    Configured,     \* the chain id of the configuration, or None
    Batches,        \* numbers of entries of a call
    MaxOperations,  \* bound on registrations, loads and syncs
    MaxCalls,       \* bound on entity calls
    None

ASSUME ConfigurationAssumption ==
    /\ None \notin Chains \union Addresses
    /\ Configured \in Chains \union {None}
    /\ Batches \subseteq Nat \ {0}
    /\ MaxOperations \in Nat
    /\ MaxCalls \in Nat

VARIABLES
    accounts,   \* the worker of each registered address, or 0
    workers,    \* every account ever made: its signer, its chain, its queue
    local,      \* addresses with a keystore file
    chain,      \* the chain id of the node
    managed,    \* addresses the node has keys of
    task,       \* where each task is
    started,    \* registry operations so far
    requests,   \* entity calls so far, with the keys they create or remove
    passed,     \* requests to send: the worker saw nothing of its address pending
    pool,       \* requests that wait to be mined
    batch,      \* of the pool, what the block being added has still to run
    block,      \* what it has run
    made,       \* the keys created by these
    logs,       \* of each mined request, the keys created in its block
    store,      \* entities of the node
    answers     \* what each call returned

registryVars == <<accounts, workers, local>>
blockVars == <<batch, block, made>>
nodeVars == <<chain, managed, passed, pool, blockVars, logs, store>>
vars == <<registryVars, nodeVars, task, started, requests, answers>>

Calls == 1 .. MaxCalls
Keys == Calls \X UNION {1 .. n : n \in Batches}
Signers == {"user", "node"}
Workers == [address : Addresses, signer : Signers, chain : Chains, alive : BOOLEAN,
            queue : Seq(Tasks)]
Idle == [pc |-> "idle", op |-> None, address |-> None, chain |-> None,
         listed |-> {}, worker |-> 0, call |-> 0]

TypeOK ==
    /\ accounts \in [Addresses -> 0 .. Len(workers)]
    /\ workers \in Seq(Workers)
    /\ local \in SUBSET Addresses
    /\ chain \in Chains
    /\ managed \in SUBSET Addresses
    /\ task \in [Tasks ->
        [pc : {"idle", "validating", "listing", "syncing", "checking", "inserting", "sending",
               "waiting"},
         op : {"register", "load", "sync", "create", "remove", None},
         address : Addresses \union {None}, chain : Chains \union {None},
         listed : SUBSET Addresses, worker : 0 .. Len(workers), call : 0 .. Len(requests)]]
    /\ started \in 0 .. MaxOperations
    /\ requests \in Seq([op : {"create", "remove"}, from : Addresses, keys : Seq(Keys)])
    /\ passed \in SUBSET DOMAIN requests
    /\ pool \in SUBSET DOMAIN requests
    /\ batch \union block \in SUBSET pool
    /\ made \in Seq(Keys)
    /\ DOMAIN logs \in SUBSET DOMAIN requests
    /\ \A c \in DOMAIN logs : logs[c] \in Seq(Keys)
    /\ store \in SUBSET Keys
    /\ DOMAIN answers \in SUBSET DOMAIN requests
    /\ \A a \in Addresses : accounts[a] # 0 => workers[accounts[a]].address = a
    /\ \A t \in Tasks : task[t].pc = "waiting" <=>
        \E w \in DOMAIN workers : \E j \in DOMAIN workers[w].queue : workers[w].queue[j] = t

Init ==
    /\ accounts = [a \in Addresses |-> 0]
    /\ workers = <<>>
    /\ local \in SUBSET Addresses
    /\ chain \in Chains
    /\ managed = {}
    /\ task = [t \in Tasks |-> Idle]
    /\ started = 0
    /\ requests = <<>>
    /\ passed = {}
    /\ pool = {}
    /\ batch = {}
    /\ block = {}
    /\ made = <<>>
    /\ logs = <<>>
    /\ store = {}
    /\ answers = <<>>

--------------------------------------------------------------------------------
(* The registry *)

Become(t, pc) == task' = [task EXCEPT ![t].pc = pc]
Return(t) == task' = [task EXCEPT ![t] = Idle]

StartOperation(t, op, a) ==
    /\ task[t].pc = "idle"
    /\ started < MaxOperations
    /\ started' = started + 1
    /\ task' = [task EXCEPT ![t] = [Idle EXCEPT !.pc = "validating", !.op = op, !.address = a]]

Register(t, a) ==
    /\ StartOperation(t, "register", a)
    /\ UNCHANGED <<registryVars, nodeVars, requests, answers>>

(* A new address, whose key is saved before it is registered. *)
Generate(t, a) ==
    /\ StartOperation(t, "register", a)
    /\ a \notin local \union managed
    /\ accounts[a] = 0
    /\ local' = local \union {a}
    /\ UNCHANGED <<accounts, workers, nodeVars, requests, answers>>

Load(t, a) ==
    /\ StartOperation(t, "load", a)
    /\ UNCHANGED <<registryVars, nodeVars, requests, answers>>

SyncAccounts(t) ==
    /\ StartOperation(t, "sync", None)
    /\ UNCHANGED <<registryVars, nodeVars, requests, answers>>

(* validate_chain_id asks the node; any call of the node can also fail. *)
ValidateChain(t) ==
    /\ task[t].pc = "validating"
    /\ Configured \in {chain, None}
    /\ task' = [task EXCEPT ![t].chain = chain,
                           ![t].pc = IF task[t].op = "register" THEN "inserting" ELSE "listing"]
    /\ UNCHANGED <<registryVars, nodeVars, started, requests, answers>>

FailOperation(t) ==
    /\ task[t].pc \in {"validating", "listing"}
    /\ Return(t)
    /\ UNCHANGED <<registryVars, nodeVars, started, requests, answers>>

ListAccounts(t) ==
    /\ task[t].pc = "listing"
    /\ task' = [task EXCEPT ![t].pc = "syncing", ![t].listed = managed]
    /\ UNCHANGED <<registryVars, nodeVars, started, requests, answers>>

NewAccount(a, signer, c) ==
    [address |-> a, signer |-> signer, chain |-> c, alive |-> TRUE, queue |-> <<>>]

(* accounts.insert, for addresses in some order. *)
Insert(as, signer, c) ==
    \E order \in SetToSeqs(as) :
    /\ workers' = workers \o [j \in DOMAIN order |-> NewAccount(order[j], signer, c)]
    /\ accounts' = [a \in Addresses |->
                        IF a \in as THEN Len(workers) + CHOOSE j \in DOMAIN order : order[j] = a
                                    ELSE accounts[a]]

InsertAccount(t) ==
    /\ task[t].pc = "inserting"
    /\ Insert({task[t].address}, "user", task[t].chain)
    /\ Return(t)
    /\ UNCHANGED <<local, nodeVars, started, requests, answers>>

(* Mutant: every account the node lists is inserted. *)
SyncInsertAll(t) ==
    /\ task[t].pc = "syncing"
    /\ Insert(task[t].listed, "node", task[t].chain)
    /\ task' = [task EXCEPT ![t] = IF @.op = "load" THEN [@ EXCEPT !.pc = "checking"] ELSE Idle]
    /\ UNCHANGED <<local, nodeVars, started, requests, answers>>

(* sync_arkiv_accounts and try_insert_account, under the lock of the map. *)
SyncInsert(t) ==
    /\ task[t].pc = "syncing"
    /\ Insert({a \in task[t].listed : accounts[a] = 0}, "node", task[t].chain)
    /\ task' = [task EXCEPT ![t] = IF @.op = "load" THEN [@ EXCEPT !.pc = "checking"] ELSE Idle]
    /\ UNCHANGED <<local, nodeVars, started, requests, answers>>

(* account_load after the sync: registered by now, or in the keystore, which *)
(* makes it a registration, or unknown.                                      *)
CheckLoaded(t) ==
    /\ task[t].pc = "checking"
    /\ IF accounts[task[t].address] = 0 /\ task[t].address \in local
       THEN task' = [task EXCEPT ![t] = [Idle EXCEPT !.pc = "validating", !.op = "register",
                                                     !.address = task[t].address]]
       ELSE Return(t)
    /\ UNCHANGED <<registryVars, nodeVars, started, requests, answers>>

--------------------------------------------------------------------------------
(* Entity calls *)

(* account_get, and the transaction that the call makes. *)
StartCall(t, a, op, keys) ==
    /\ task[t].pc = "idle"
    /\ accounts[a] # 0
    /\ Len(requests) < MaxCalls
    /\ requests' = Append(requests, [op |-> op, from |-> a, keys |-> keys])
    /\ task' = [task EXCEPT ![t] = [Idle EXCEPT !.pc = "sending", !.op = op,
                                    !.worker = accounts[a], !.call = Len(requests) + 1]]
    /\ UNCHANGED <<registryVars, nodeVars, started, answers>>

(* create_entry and create_entries; keys are hashes that are new. *)
CreateEntries(t, a) ==
    \E n \in Batches :
        StartCall(t, a, "create", [j \in 1 .. n |-> <<Len(requests) + 1, j>>])

(* remove_entries, of keys that some call returned. *)
RemoveEntries(t, a) ==
    \E c \in DOMAIN answers : \E k \in ToSet(answers[c].keys) : StartCall(t, a, "remove", <<k>>)

Answered(t, answer) ==
    /\ Return(t)
    /\ answers' = [c \in DOMAIN answers \union {task[t].call} |->
                    IF c = task[t].call THEN answer ELSE answers[c]]

Failed == [ok |-> FALSE, keys |-> <<>>]

(* queue_transaction: the channel of a worker that is gone is closed. *)
Queue(t) ==
    LET w == task[t].worker IN
    /\ task[t].pc = "sending"
    /\ IF workers[w].alive
       THEN /\ workers' = [workers EXCEPT ![w].queue = Append(@, t)]
            /\ Become(t, "waiting")
            /\ UNCHANGED answers
       ELSE Answered(t, Failed) /\ UNCHANGED workers
    /\ UNCHANGED <<accounts, local, nodeVars, started, requests>>

First(w) == workers[w].queue[1]
Working(w) == workers[w].alive /\ workers[w].queue # <<>>
Sent(w) == task[First(w)].call \in pool \union DOMAIN logs

(* The worker waits until nothing of its address is pending, and then signs    *)
(* and sends; another worker of the address may send in between.              *)
CheckFirst(w) ==
    /\ Working(w)
    /\ ~Sent(w)
    /\ \A c \in pool : requests[c].from # workers[w].address
    /\ passed' = passed \union {task[First(w)].call}
    /\ UNCHANGED <<registryVars, chain, managed, pool, blockVars, logs, store, task, started,
                   requests, answers>>

(* The node takes transactions of its own chain. *)
SendFirst(w) ==
    /\ Working(w)
    /\ ~Sent(w)
    /\ task[First(w)].call \in passed
    /\ workers[w].signer = "user"
    /\ chain = workers[w].chain
    /\ pool' = pool \union {task[First(w)].call}
    /\ passed' = passed \ {task[First(w)].call}
    /\ UNCHANGED <<registryVars, chain, managed, blockVars, logs, store, task, started, requests,
                   answers>>

(* Mutant: a call is answered and stays in the queue. *)
FinishKeepsCall(w, answer) ==
    /\ Answered(First(w), answer)
    /\ UNCHANGED <<registryVars, nodeVars, started, requests>>

Finish(w, answer) ==
    /\ Answered(First(w), answer)
    /\ workers' = [workers EXCEPT ![w].queue = Tail(@)]
    /\ UNCHANGED <<accounts, local, nodeVars, started, requests>>

(* Refused, or out of time, with the transaction where it is. *)
FailFirst(w) == Working(w) /\ Finish(w, Failed)

(* ArkivSigner::sign is unimplemented: the panic ends the worker, and with it *)
(* every call in its queue.                                                   *)
SignerPanics(w) ==
    /\ Working(w)
    /\ workers[w].signer = "node"
    /\ task[First(w)].call \in passed
    /\ workers' = [workers EXCEPT ![w].alive = FALSE, ![w].queue = <<>>]
    /\ LET lost == ToSet(workers[w].queue)
           calls == {task[t].call : t \in lost}
       IN  /\ task' = [t \in Tasks |-> IF t \in lost THEN Idle ELSE task[t]]
           /\ answers' = [c \in DOMAIN answers \union calls |->
                            IF c \in calls THEN Failed ELSE answers[c]]
    /\ UNCHANGED <<accounts, local, nodeVars, started, requests>>

(* extract_entity_ids of the receipt; create_entry takes the first of them. *)
ReturnIds(c) == IF requests[c].op = "create" THEN logs[c] ELSE <<>>

GotReceipt(w) ==
    /\ Working(w)
    /\ task[First(w)].call \in DOMAIN logs
    /\ Finish(w, [ok |-> TRUE, keys |-> ReturnIds(task[First(w)].call)])

--------------------------------------------------------------------------------
(* The node *)

(* mine_block takes some of the pool.  Nonces count it until the block is     *)
(* there, as add_block holds the lock of the chain; of the moment before it   *)
(* takes the lock, see MockNode.  A receipt has the logs of the whole block.  *)
BeginBlock(b) ==
    /\ batch = {}
    /\ block = {}
    /\ b # {}
    /\ batch' = b
    /\ UNCHANGED <<registryVars, chain, managed, passed, pool, block, made, logs, store, task, started,
                   requests, answers>>

(* One transaction; deleting a missing entity is a warning. *)
Execute(c) ==
    /\ c \in batch
    /\ batch' = batch \ {c}
    /\ block' = block \union {c}
    /\ IF requests[c].op = "create"
       THEN /\ made' = made \o requests[c].keys
            /\ store' = store \union ToSet(requests[c].keys)
       ELSE /\ store' = store \ ToSet(requests[c].keys)
            /\ UNCHANGED made
    /\ UNCHANGED <<registryVars, chain, managed, passed, pool, logs, task, started, requests,
                   answers>>

(* Mutant: the logs of a block are left for the next one. *)
AddBlockKeepsLogs ==
    /\ batch = {}
    /\ block # {}
    /\ pool' = pool \ block
    /\ block' = {}
    /\ logs' = [c \in DOMAIN logs \union block |-> IF c \in block THEN made ELSE logs[c]]
    /\ UNCHANGED <<registryVars, chain, managed, passed, batch, made, store, task, started, requests,
                   answers>>

(* The block is in the chain, and its receipts with the logs of all of it. *)
AddBlock ==
    /\ batch = {}
    /\ block # {}
    /\ pool' = pool \ block
    /\ block' = {}
    /\ made' = <<>>
    /\ logs' = [c \in DOMAIN logs \union block |-> IF c \in block THEN made ELSE logs[c]]
    /\ UNCHANGED <<registryVars, chain, managed, passed, batch, store, task, started, requests,
                   answers>>

(* Another chain is deployed behind the same address, at any moment. *)
SwitchChain ==
    /\ chain' \in Chains \ {chain}
    /\ UNCHANGED <<registryVars, managed, passed, pool, blockVars, logs, store, task, started, requests,
                   answers>>

ManageAccount(a) ==
    /\ managed' = managed \union {a}
    /\ a \notin managed
    /\ UNCHANGED <<registryVars, chain, passed, pool, blockVars, logs, store, task, started,
                   requests, answers>>

--------------------------------------------------------------------------------
RegistryStep(t) ==
    \/ ValidateChain(t)
    \/ FailOperation(t)
    \/ ListAccounts(t)
    \/ InsertAccount(t)
    \/ SyncInsert(t)
    \/ CheckLoaded(t)

WorkerStep(w) == CheckFirst(w) \/ SendFirst(w) \/ FailFirst(w) \/ SignerPanics(w) \/ GotReceipt(w)

Next ==
    \/ \E t \in Tasks :
        \/ RegistryStep(t) \/ SyncAccounts(t) \/ Queue(t)
        \/ \E a \in Addresses :
            Register(t, a) \/ Generate(t, a) \/ Load(t, a)
            \/ CreateEntries(t, a) \/ RemoveEntries(t, a)
    \/ \E w \in DOMAIN workers : WorkerStep(w)
    \/ \E b \in SUBSET pool : BeginBlock(b)
    \/ \E c \in DOMAIN requests : Execute(c)
    \/ AddBlock
    \/ SwitchChain
    \/ \E a \in Addresses : ManageAccount(a)

Spec == Init /\ [][Next]_vars

--------------------------------------------------------------------------------
(* Properties *)

(* An account that the user registered is never replaced by one that the    *)
(* node should sign for, though the list of the node's accounts is asked    *)
(* for before the map is locked; and every account is of the configured     *)
(* chain, though the node may change it between the check and the insert.   *)
UserAccountsKept ==
    [][/\ \A a \in Addresses :
            accounts[a] # 0 /\ workers[accounts[a]].signer = "user" =>
                accounts'[a] # 0 /\ workers'[accounts'[a]].signer = "user"
       /\ \A w \in DOMAIN workers' : Configured \in {workers'[w].chain, None}]_vars

Own(c) == requests[c].keys

(* The keys of a call stand together in a list, in their order, and nowhere *)
(* else.                                                                    *)
InOneRun(c, list) ==
    \E i \in 0 .. Len(list) - Len(Own(c)) : \A j \in DOMAIN list :
        IF j \in i + 1 .. i + Len(Own(c)) THEN list[j] = Own(c)[j - i] ELSE list[j][1] # c

(* The other requests that created entities in the block of a request: the  *)
(* receipts of a block have the same logs.                                  *)
OtherCreates(c) ==
    {d \in DOMAIN logs \ {c} : logs[d] = logs[c] /\ requests[d].op = "create"}

(* create_entries returns the keys of the entities it created, in their     *)
(* order, and no others unless other requests created some in its block;    *)
(* after remove_entries the entities are gone, whoever else removed them or *)
(* used the account at the same time.                                       *)
AnswersTrue ==
    \A c \in DOMAIN answers : answers[c].ok =>
        IF requests[c].op = "create"
        THEN /\ InOneRun(c, answers[c].keys)
             /\ OtherCreates(c) = {} => answers[c].keys = Own(c)
        ELSE ToSet(Own(c)) \intersect store = {}

(* "Returns a vector of entity IDs (keys) of the created entries"           *)
(* (create_entries), and "Returns the entity ID of the created entry"       *)
(* (create_entry, which takes the first of them).  Refuted: the logs of a   *)
(* receipt are those of all transactions of the block.                      *)
ReturnsOwnIds ==
    \A c \in DOMAIN answers : answers[c].ok /\ requests[c].op = "create" =>
        answers[c].keys = Own(c)
================================================================================
