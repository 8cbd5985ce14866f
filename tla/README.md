# Verification of the Arkiv Rust SDK

TLA+ models of the SDK (`src/src`) and of the mock node it is tested against
(`src/test-utils/arkiv-mock`), TLC runs that check them on small instances, and
theorems that TLAPS proves for every instance. `PROJECT.json` lists the runs,
the mutants that show each property can fail, the source lines each definition
stands for, the hazards of the code, and the findings.

## The system

| Component | State | Operations | What is hard |
|---|---|---|---|
| Transaction queue of an account (`account.rs`) | bounded channel, worker thread, `last_used_nonce` | `send_transaction`, the worker's `process_transaction`, processing timeout | timeouts at any await, other users of the key, resent calls, backends that lag, redeployed chains, a worker that dies |
| Nonce manager and raw transactions (`client.rs`, `eth.rs`) | `base_nonce`, `in_flight` | `create_raw_transaction` | overlapping calls, failed and dropped calls |
| Resilient provider (`resilient_provider.rs`) | attempts and start time of one call | `retry` around every RPC | resending what was done already |
| Client: accounts and entity calls (`client.rs`) | map of accounts, configuration | register, generate, load, sync; entity operations through an account | tasks that register at once, a list of the node's accounts that is old when used, receipts that carry the logs of a whole block |
| Client: queries (`client.rs`, `rpc.rs`) | cursor, pinned block, collected errors | `query_streamed`, `query_with_options`, `rpc_call` | errors in the middle of a stream, changes between pages |
| Client: event streams (`events.rs`) | - | first block of a subscription, filter, conversion of logs | what the node sends twice or too early |
| Mock: pool, mining loop, nonces (`transaction_pool.rs`, `execution.rs`, `blockchain.rs`, `lib.rs`, `server.rs`) | pool, accounts, blocks, the loop's own progress | RPC handlers, `mine_block`, reset | a lock for each part and none across an await |
| Mock: entity store (`entity_db.rs`, `blockchain.rs`, `block_builder.rs`) | entities, three indices, logs | five operations, housekeeping, `clear_all`, queries | indices and logs that must follow every change, exact-match expiration |
| Mock: query language (`query_parser.rs`, `entity_db.rs`) | - | tokenize, parse, evaluate by index | precedence, overflow, candidates that an index has and the entity does not confirm |
| Mock: subscriptions (`events.rs`) | subscriptions, logs per block | subscribe, `finish_block` | replay and live events at the same time |
| Mock: overrides (`controller.rs`) | queues of overrides, call counts | `override_rpc`, `take_next_override`, clean-up | counting under concurrent calls, callbacks on drop |
| Encoding, signers, utilities, API, CLI, demo | - | conversions, files, wrappers | - |

Callers, the worker of each account, the node and other tools with the same key
run concurrently. Callers and worker share the channel and one response channel
per request; the worker and the node share nothing and talk in RPC calls that can
fail, be answered late or be repeated. In the mock the RPC handlers, the mining
task and the resets of a test share pool, chain and store, each behind its own
lock. Nothing of the SDK's state is kept on disk, except keys.

What would make each part correct: the queue keeps at most one transaction
pending, leaves no nonce gap, executes a request at most once, and answers every
caller in order; the nonce manager gives out different nonces; the mock executes
each account's transactions in nonce order and loses none; the store's indices,
logs and events say what the entities say; a subscriber gets each event once and
after its block; a query returns one block's data once and ends; the index gives
the entities a query holds for; an override applies as often as it says and its
test hears of each use; no registration takes a user's account away.

## Modules

**TransactionQueue** models one account's queue and the node next to it. Each
await of `process_transaction` is a value of `pc`, so anything can happen between
two of them: `waitAccount`, `waitCount` and `waitPending` are `get_nonces` in
`wait_for_pending_transactions`, `pickAccount` and its kin that before `pick_nonce`,
`againAccount` and its kin that of the nonce-too-low retry, `send` is the call of
`send_raw_transaction`, and `receipt` is all of `get_receipt`. The pending nonce takes
two steps because the mock takes two: `CountPool` counts the pool (`counted`), and the
answer adds the account nonce as it is by then (`PendingAnswer`). A transaction mined in
between is counted twice. A nonce picked from such an answer costs a `torn`; while
waiting for the pool to drain it is free, as it only makes the worker wait. The local `nonce` of the function and the nonce in the signed
request (`sent`) are kept apart, because the retry changes only the second.
`TimedOut` is the timeout around the whole function; the wait for the receipt has
the same duration and starts later, so the code after an empty receipt (the
`max_retries` loop) is never reached and has no action. A read takes any value up
to the current one, at the price of one `lag`, as the comment at `account.rs:248`
says of backends. A lost response is `SendResponseLost`: the node has the
transaction, the worker sends again. A send that is given up under way, by the timeout
or by a connection error, is `SendAbandoned`: its transaction is on the `wire` until it
reaches the node (`Arrive`), whatever the worker does by then; `late` has those that the
node took. The node's part is that of arkiv-mock: a
pool that keeps whatever it accepted, a pending nonce that counts the whole pool,
refusal of low nonces only, and a block sealed in one step (MockNode has the
steps). `Redeploy` empties pool and chain.

**SerialQueue** is what the queue promises without nonces and nodes: a line whose
head alone is answered, once; only the loss of the worker empties it. The queue
implements it with `line` as the request in work followed by the channel.

**EthClient** models `create_raw_transaction`: choice of the nonce under the lock,
then send, receipt and `complete` without it. `Fail` is any error or a dropped
future; both leave `in_flight` as it is. `SendOther` is another tool that sends for the
account; `TakeNonceMisread` takes the base from an answer that is too low (a backend
that lags) or too high (the mock's answer in two parts, above).

**MockNode** models the mock's pool and mining loop. `Validate` and
`AddTransaction` are the two parts of an RPC handler, `TakeBatch`, `FilterBatch`,
`RemoveFromPool`, `Removed` and `AddBlock` the parts of `mine_block` between
locks, `ResetPool` and `ResetChain` those of a reset. `FilterBatch` reads the
nonces of all senders at once, although the code reads them one by one: only the
mining task changes them, except for a reset, up to which the properties speak.
The first transactions of a hash map are any set of the right size.

**Ledger** is what a node promises those that send it transactions, without a pool, a
loop or locks: what it accepts waits, and a block is one step that executes waiting
transactions which continue the nonces of their accounts. The mock implements it with
what waits as the pool and the block in the making (a transaction is in both while it is
being removed from the pool), up to a reset.

**EntityStore** models the entity database and how a block changes it. A
transaction's operations come by kind (`phase`), chosen as it goes; the operations
of one lock are one step, so a query or a `ClearAll` can come in between. An
update, extension or change of owner of a missing entity ends the transaction and
leaves what it did. String and numeric annotations have two maps with the same
code; `Names` has the keys of both. `logged` and `emitted` are what a client knows
that replays the logs or the events. Anybody may extend an entity, and the log of an
extension names the sender as its owner (`Extended`); the owner that a client can rely on
is that of the last log of another kind, and both are kept. Extensions and changes of
owner have a log and no event. An index is how often each key is listed in it, as no code
asks for the order. Payloads, values of annotations and old expirations in logs are left
out. `creator` makes keys unique, as the hash does in the code, and says who created
each entity.

**EventStream** models the mock's event emitter and a client's subscriptions.
`BeginBlock`, `AddPendingLog`, `PublishBlock`, `FinishBlock` and `EmitLogEvent` are
the parts of `add_block` between locks of the emitter; `Resolve` and `Register`
are the two acquisitions of `subscribe_to_events`, `Forward` and `FallBehind` the
task that `subscribe` spawns. A broadcast channel is everything it was sent and
how far its receiver came: more than `Capacity` unread is what tokio reports as
lagging. `Replays` arranges what is in the pending logs (`Past`) in every order in
which a hash map can list the blocks. A reset is left out: it does not touch the emitter
and block numbers go on.

**QueryLanguage** has the tokenizer and the recursive-descent parser as operators
over sequences of symbols; a symbol is a character or a word that stands for a run
of letters. Its reference, `OrTrees` and its kin, derives every tree that the
grammar allows for a stretch of tokens, with no reading order. `ReadsBack` writes
tokens down (`Joined`) and tokenizes them again.

**EntityQueries** evaluates parsed queries over the indices of EntityStore as
`evaluate_expression` does: a condition takes candidates from an index, with their
repetitions, and looks at each; combinations become sets. An answer is how often
each key is found. The expressions are a sequence in which parts come before the whole
and are named by their places, so that `Found` and its reference `Meant` are recursive
functions of the place, which can be proved about. `Meant` looks at entities and knows
no index. The code does not do what it means for owners: a change of owner leaves the
owner index, so that `QueriesExact` says nothing of entities that were given away
(`GivenAway`) in expressions that ask for an owner (`AsksOwner`); that these are missed
is the run `entities_owned`. MCEntityQueries has a text for every expression
and assumes, which TLC evaluates, that QueryLanguage parses it to that expression.

**ResilientProvider** is the decision of the retry loop, `Repeats`, with one counter
for failed sends and one time limit; RpcOverrides and QueryClient use it.

**RpcOverrides** models the controller of the mock's overrides. Wrappers are numbered
as they are added and leave a queue without moving the others, so a queue is the set
of its wrappers and its head the one with the lowest number (`IsFirst`). `AddOverride`
adds one; a handler first takes the head of the queues (`take_next_override`: count,
limit, clean-up of others, under one lock) and holds a copy until it returns, when
the callback is sent. `Elapse` is the end of any period. Handlers of several calls
overlap, and the call itself repeats as ResilientProvider says. A method in
`Decoding` has a handler that decodes a custom response; the others pass it over.

**QueryClient** models `query_streamed` and its collector in `query_with_options`:
the block of the first answer is pinned, an error is counted and the same page
asked again, `MaxQueryErrors` ends it. The store is a growing list of `versions`,
blocks end at a version. The real node (external) answers pages of a block's data;
the mock reads all entities in one step and the block number in another, which
waits while `add_block` holds the chain.

**ArkivClient** models the map of accounts: each task's registration, load or sync is
cut at its awaits (chain validation, listing the node's accounts, the map's lock).
An account is a worker with its own queue; a replaced account keeps its worker. The
node takes any part of the pool into a block (`BeginBlock`), runs its transactions one
after the other in any order (`Execute`) and then adds the block; a receipt has all the
logs of its block, so what `create_entries` makes of them is computed as the code does.
A worker first sees nothing pending of its address (`CheckFirst`) and then sends
(`SendFirst`); with two workers of one address another can send in between. The chain of
the node changes at any moment, also under accounts that have sent.

The **MC** modules give the constants for TLC; MCQueryLanguage also writes the texts.
The **_proofs** modules have the proofs.

## Runs

| Run | Bounds | Shows |
|---|---|---|
| `queue` | 3 requests, channel of 2, any two disturbances: lags, an external send, a fault, a redeployment, a torn answer, a late arrival, a panic; fairness | at most one live transaction but for late arrivals, no nonce gap, nothing mined twice, tracked nonce outruns lag, refinement of SerialQueue, every call answered |
| `queue_resent` | 2 requests, one fault | violated: a request is mined twice |
| `mock_node` | 2 senders, 2 payloads, nonces 0..1, 3 submissions, batch of 2, one hold, one reset; fairness | nonce order, refinement of Ledger (nothing accepted is lost), execution |
| `entities` | 2 keys, 2 owners, 0 or 1 blocks to live, 3 blocks, one clear; 2 annotation lists, one of them with a name twice; 20 expressions with their texts: each condition, combinations, their parts; symmetric keys and owners | exact annotation indices, nothing overdue, logs and events tell the store, block of the last change; an answer is what the query means, in every state |
| `entities_owned` | the same with 2 blocks | violated: an entity that was given away is found by no query for an owner |
| `event_stream` | 2 subscribers, 2 blocks of up to 2 events, channel of 2; fairness | nothing missed, nothing twice or early but for the block being added, order, a slow reader loses only the end, all forwarded |
| `eth_client` | 4 calls, two faults: failures, another sender, a base read wrong | no gaps without faults, a lone call gets the next nonce |
| `query_language` | up to 5 tokens or conditions in two spacings, and any 4 symbols | texts read back as the tokens written; one tree, the grammar's |
| `rpc_overrides` | 2 overrides of 5 kinds, for a method or all, 2 concurrent calls, 1 retry, uses counted to 3; fairness | a callback for each use, use in order up to the limit, every call ends |
| `query_client` | pages of 2, results of 1 to 3 rows, 2 blocks, 3 versions, 1 error forgiven, 1 retry; fairness | one block's data, data of the block named, an end |
| `arkiv_client` | 2 tasks, 2 addresses, 2 chain ids, 2 registry operations, 3 entity calls of 2 entries, 1 account of the node, 1 call on a foreign chain | user accounts kept, answers true |
| `arkiv_client_ids` | the same with 2 entity calls | violated: calls return the keys of others in their block |

Why the bounds are enough. In the queue one request can be left behind by a
timeout, one be in work and one wait, which is every role a request has; a channel of
two is full when the third caller comes before the worker takes the first, and when the
worker dies it has requests that must be dropped. `MaxDisturbances` lets any two disturbances of any
two kinds happen, in every order, and two stale reads, because one property holds for
the first only. The requests differ in nothing, so their calls are made in one order
(`CallsInOrder`). Properties that a disturbance breaks for good reason name it
(`Untouched`). The run contains the cases the conditions speak of: transactions that
time out and are mined later, external transactions with the same nonce, late arrivals
that meet the next transaction, and so on. In the mock three
submissions fill a batch of two with one left over, two payloads make two
transactions claim one nonce, and one stale transaction can stay behind. In the
store, with two keys one entity changes while another stays; three blocks let an
entity be written, expire and be missed. The last block has its housekeeping and no
transactions (`LastBlockEmpty`): what these would write is not looked at again.
Two faults of the nonce manager are a failure or a wrong read and another sender, in
either order.
Of two subscribers one can be registered and slow while another subscribes; two
blocks can be replayed in either order, and four events overrun a channel of two.
`Executed` excuses a pool that outgrew a batch, because transactions that can
never be mined stay in it: then an executable one may starve. Three rows in pages of two
are a full page with a cursor and a last page, two are a page that just fits, with an
error or a block between any requests. Two overrides can be of one queue or of the two that a
call looks at; a limit of two and a count to three tell too few, enough and too
many apart, and a count beyond three is folded back by the period of
`FailEachNth`. Two tasks are a registration and whoever overtakes it; with one address of
the node and one of the user, either can be the account that is listed too late, and one
call on a foreign chain is one that the node refuses (`Bounds` of MCArkivClient). A text
of five pieces has two connectives between three conditions in either order, one
connective in parentheses, or negations in front of either part of one; a parenthesised
disjunction inside a conjunction needs seven and is not tried. Four arbitrary symbols
meet every transition of the tokenizer.
`CHECK_DEADLOCK FALSE` is in every configuration, as bounded requests, submissions,
calls and blocks run out.

Fairness. The queue: the worker takes what is in the channel, its timer fires
(`tokio::time::timeout` in a thread of its own), and a caller that is polled
finishes its `send`. Nothing is assumed of the node, so the answers do not depend
on it. The event emitter: `add_block` finishes a block it began, and the
forwarding tasks are scheduled. The mock: the mining task runs (it ticks for ever
and is never stopped in the repository), a handler that has validated adds, and a
hold period ends. Overrides: a call and its handler are polled and time passes;
nothing is assumed of the tests that add overrides. Queries: the stream is polled,
the node answers or the request fails, a block that was begun ends and time
passes. The other specifications have safety only.

## Proofs

`TransactionQueue_proofs` proves for all constants that meet the assumptions
(`External` and `NoRequest` are no requests, `Unset` is no number, the capacity is
positive, the budget is a function to `Nat`):

- `TypeCorrect`: `Spec => []TypeOK`. One step per action.
- `OnePendingAtATime`: `Spec => []OneLivePending`, of the transactions that were not
  late. The property is not inductive: when the worker is about to send, nothing in it
  says that the pool holds no live transaction of the queue. `IInv` is the type
  invariant, the fact that a budget only shrinks, and, as long as no read lagged,
  `PendingInv`: there is at most one such live transaction; while the worker waits for
  the pool to drain and one is live, it has counted the pool as not empty and compares
  against an account nonce that is not above the node's, so it does see that
  transaction; while it picks a nonce, none is live; when it sends, any live one is the
  very transaction it sends again.
- `NeverMinedTwice`: `Spec => []MinedAtMostOnce`. That the chain has no request twice
  does not say that the pool cannot add a second one. `OnceInv` adds that a request has
  one transaction in the pool or one place in the chain and not both, and that a
  request which is with its caller, in the channel, or with a worker that has yet to
  send it, has neither; for the last, `CallInv` says that a request is in one of these
  places only. A request under way that was given up is in neither pool nor chain until
  it arrives. The worker signs anew only what the node refused, and that is unknown
  to the node as long as no response is lost.
- `NeverBehindAGap`: `Spec => []NonceGapFree`. `GapInv` ties the numbers the worker holds
  to the node's: what it tracks is below the account nonce, its transaction has no
  nonce above the next pending one, and while it picks a nonce the pool is an unbroken run of
  nonces from the account's (`Exact`), which mining shortens at one end and other
  senders extend at the other; it is so from the moment the pool was counted as empty,
  although the account nonce of that answer is read later.
- `OneLagHarmless`: `Spec => []TrackedNonceOutrunsLag`. `LagInv` says what is known while
  everything goes smoothly but for one stale read: the pool is empty unless the worker
  waits for its receipt, the tracked nonce is that of the last block until a read has
  lagged, what was counted of the pool is 0, and what is sent is the account's nonce or
  the 0 of a redeployed chain. The
  first attempt at it failed for a reason: with two stale reads the property is false,
  which TLC then showed, and it now speaks of one (see the findings).
- `ImplementsSerialQueue`: `Spec => SerialSpec`, by showing that each action maps to
  a step or a stutter of SerialQueue under `line`; it uses the part of `TypeOK`
  that ties `pc` to `cur`.

`EthClient_proofs`, for any finite set of calls and any number of faults:
`TypeCorrect`, `Gapless` and `LoneCallIsFresh`. `NoGapWithoutFaults` speaks of nonces
given out; the next one is base plus count, so `IInv` adds that every nonce below
that sum is used as long as there was no fault, that each call has at most one
transaction until it is mined, and that the count is at most the number of calls that
were counted. The last makes an
empty count mean an empty pool, without which the base read by a lone call would be
too low.

`MockNode_proofs`, for any batch size, senders, payloads and budgets: `TypeCorrect`,
`MinedInOrder`, `NothingIsLost`, `ImplementsLedger`. `NoncesInOrder` says nothing of the
block in the making, and `add_block` only counts transactions; `IInv` adds that a block carries,
for each sender, each nonce of a run once, that the run begins at the account's nonce
until a reset, and that what is still to be removed from the pool is in the block.
`PlaceInRun` and `PlacesTaken` show by counting that such a run has one transaction
at each place, so that the order of `add_block` is that of the nonces; the nonces of
the chain then continue by `FromSenderInOrder`. That the mock implements Ledger rests on
all of this: the step that adds a block maps to Ledger's block and every other step of
the loop to none, if no step takes a transaction away that is not executed. `BatchInv`
says that up to a reset the batch being filtered is still part of the pool, whose lock
was released in between, so that a block executes only what waited. `ResetsOnly` makes
"up to a reset" a state that is left once and for good.

`EntityStore_proofs`, for any keys, owners, names, finite lists and blocks: `TypeCorrect`,
`LogsSuffice`, `NoneOverdue`, `LastModifiedExact`, `IndicesExact`, and for any sequence
of expressions `QueriesAreExact`. Expirations are matched with one block number, so
`IInv` says that every entity that can end expires in a later block or is being
collected in this one, that expiration minus blocks to live is the block of the last
write, and that logs tell the store; these hold together only. `IndexInv` adds the
counts of the indices: an update first takes all entries of the key out, so what it
leaves is what the new list has, whatever the old one repeated. For queries, `OwnedOnce`
says that the owner index lists a key at most once, which holds because a key is created
once (keys not used yet are therefore part of it), and `ListedByCreator` that it lists
it for the owner who created it: so a query for an owner is exact for entities that were
not given away. `ConditionExact` compares a condition
with its index, `CombinationExact` the connectives with their meaning, given that the
parts are exact. The induction over an expression is made without the library's
induction theorems: an expression for which the claim fails has a place, so there is a
least one (`LeastNatural`, from the well-foundedness of the numbers), and its parts have
lower places. That the recursive functions `Found` and `Meant` are what their equations
say (`FoundUnfolds`, `MeantUnfolds`) is proved as well: `Recursion` glues the unique
solutions on the places below each place (`Causal`, `IsSolution`).

`QueryClient_proofs`, for any answers, page size and bounds: `TypeCorrect`,
`PagesOfOneBlock`, `NamedBlockHasData`. The first rests on the blocks being a growing
list: what a pinned block says never changes, and the rows so far are its beginning up
to the cursor. The second on the versions a block ends with being ordered, and on the
number being read while no block is added.

`EventStream_proofs`, for any number of subscribers, blocks and events and any capacity:
`TypeCorrect`, `NoEventMissed`, `EventsSentOnce`, `BlocksComeFirst`, `EventsInOrder`. What
was sent to one client says nothing of what will be; `SInv` therefore counts, for each
block, the events that have been emitted (`done`), and says of each subscription that
it has every such event from its first block on (`Covered`), that its replay has
besides these only events of the block being added and of closed blocks, from which
nothing is emitted any more (`ReplayedOnce`), and that its live events were emitted in
the order of the chain (`EmittedOnce`). `Shape` ties what is still to be emitted to the end
of the last block's logs.

`RpcOverrides_proofs`, for any overrides, methods and calls: `TypeCorrect`,
`EveryUseSignalled`, `UsesInOrder`. `SignalPerUse` is inductive once the copies can be
counted, which is why `Signalled` says that only finitely many calls hold one.
`UsedInOrder` is not: that a wrapper is at the head says nothing of those that were
removed. `QueueInv` says that an override without a wrapper is exhausted (`Gone`), that
a wrapper's count is the number of uses where a limit is on uses (`Counting`), and that
each override has at most one wrapper, in the queue of its key.

`ArkivClient_proofs`, for any tasks, addresses and chains: `TypeCorrect`,
`RegisteredAccountsKept`, an action property, and `AnswersAreTrue`. For the registry
nothing is carried from the list of the node's accounts to the map but through the check
under the lock; `RInv` says that a task that is about to insert has checked the chain,
which is then the configured one, and that no other chain ever becomes that of a worker.
`WaitInv` says where a call is: a task that waits has its call in the queue of one
worker, once, in work, or answered. For the answers, `NodeInv` follows what calls do on
the node. `BlockInv`: a transaction is in the pool, of a block in the making or of the
chain, whose logs its receipt has. `KeyInv`: the keys a call creates are its own, since
a key is a hash with the transaction in it, and the keys it removes were created by
calls in the chain. `StoreInv`: what a call that has run removed is not in the store;
it stays so because nobody creates those keys again. `LogInv`: the logs of a block, of
which the receipt of every call in it is made, tell the created keys of each call as one
unbroken run, in order, and nothing else (`Tells`); calls with the same logs are of one
block (`OfItsBlock`). `AnswerInv`: an answer is what the call reads from that receipt.

Only model-checked: liveness (`EveryCallAnswered`, `Executed`, `AllForwarded`,
`CallsEnd`, `QueryEnds`), which the prover cannot do, and `ReadsBack` and `ParsesGrammar`,
which speak of operators that are recursive as the tokenizer and the parser are. Every
other property of a run is a theorem.

## Findings

`queue_resent` ends in a violation. If the node takes a transaction and the response is
lost, the retry loop sends it again; when the first copy is mined in between, the
answer is "nonce too low" and the worker signs the same request with a fresh nonce, so
it is executed twice. `PROJECT.json` quotes the comment that says otherwise.

`entities_owned` ends in a violation: after a change of owner the entity is found by no
query for an owner, although `get_entities_of_owner` promises "all entities owned by the
given address". `change_owner` does not touch the owner index, and what the index has for
the old owner does not match any more.

`arkiv_client_ids` ends in a violation: two accounts create entities in one block, the
receipt of each has the logs of the whole block, and `create_entries` returns the keys of
both; `create_entry` then returns the first of them, whoever created it.

The modules state more properties that the code does not have; they are in no run, and
TLC refutes each of them on the instance named.

| Property | Instance | What happens |
|---|---|---|
| `TransactionQueue!OneLiveAtATime` | 2 requests, one late arrival | a send is given up under way, the next request sees nothing pending and is sent, and then the first one arrives: two transactions are pending |
| `TransactionQueue!NoGap` | 1 request, one external send, one torn answer | the other tool's transaction is counted in the pool and, mined by then, in the account: the queue sends the nonce after the next and waits behind the gap |
| `TransactionQueue!LastUsedIsOwn` | 2 requests, one external send | the retry signs with a fresh nonce but the refused one is saved as last used |
| `TransactionQueue!NeverBehindLastUsed` | 4 requests, one redeployment | the case that "should not happen" does, and the tracked nonce then leaves a gap |
| `EntityStore!LogsNameOwner` | that of `entities` | the log of an extension has the sender of the transaction where others have the owner |
| `EthClient!NoncesDistinct` | 4 calls, no failure | `complete` lowers the count while a later call keeps its nonce, and the nonce is given again |

Seen while modelling, with no property of their own:

- When a lagging backend answers 0, the retry signs with a fresh nonce and the refused
  0 is saved as last used. A second old answer is then believed, and the next request
  is sent with a nonce that was used already (it is refused and signed anew).
- A lagging backend that answers 0 makes `pick_nonce` return 0 although its comment
  promises the maximum. `max_retries` has no effect under the processing timeout.
- The mock's pool never drops a transaction whose nonce has passed. It counts as
  pending and blocks the account that sent it.
- The mock's receipts always report success, so updating an entity that is not there
  returns `Ok`.
- The worker of a replaced account never ends: it owns a sender of its own channel.
- Loading an address that the node manages succeeds, with a signer that panics.
- The handlers of four methods pass a custom override over: `eth_getTransactionReceipt`,
  `eth_getTransactionByHash`, `eth_sendTransaction` and `eth_sendRawTransaction`.
- The parser accepts an unterminated string and ignores what follows an expression; a
  number too large for 64 bits is read again as a name; `$owner != x` is read as a
  condition on a string annotation of the name `$owner`, and its candidates are the
  entities that have one, so it finds nothing in general.
- `fund_account` sends with a nonce that it read itself, past the queue of the account it
  sends for.

## Plan

Done: all modules above, with proofs for the queue, the nonce manager, the mining
loop, the entity store and its queries, the event stream, the overrides, the queries of
the client and the registry: every safety property of a run but the two of the query
language. What would come next, in this order:

1. QueueOnMock: the queue against the mining window of MockNode, where a transaction is
   neither in the pool nor in the chain and is not counted at all (in TransactionQueue
   that is a read that lags), so that the mock accepts its nonce again.
2. `ParsesGrammar` with the parser as recursive functions of positions, as EntityQueries
   has its expressions, so that `Recursion` applies to it.
3. The subscriber in the middle of a block (`BlockFirst` without its exception).

## Not modelled

Encodings (RLP, Brotli, hex), display, key files and cryptography, and command lines are
data conversion and I/O. Fees and balances decide nothing in this code: the mock
subtracts with saturation and refuses nothing. The HTTP API, the demo and the examples
call the client in sequence. Block headers and hashes are not told apart. The
websocket buffers of the provider behind an event stream are a library's. Expiration is
`block + btl` without a check for overflow when an entity is created and saturating when
it is updated; block numbers near 2^64 do not occur, so numbers are unbounded here.
