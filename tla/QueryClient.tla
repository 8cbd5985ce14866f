------------------------------ MODULE QueryClient ------------------------------
(***************************************************************************)
(* Queries of the SDK (rpc.rs) against a node whose store changes while    *)
(* the pages are fetched.                                                  *)
(*                                                                         *)
(* query_streamed asks for one page after the other, with the block of the *)
(* first answer from then on and the cursor of the last one; an error is   *)
(* an item of the stream, after which the same page is asked for again.    *)
(* query_with_options collects the stream and gives up after too many      *)
(* errors.  Every request goes through the loop of ResilientProvider.      *)
(*                                                                         *)
(* Two nodes are modelled.  The real one is external: it answers one page  *)
(* of a block's data.  The mock (lib.rs) reads all entities and then the   *)
(* number of the latest block, under two locks, while add_block            *)
(* (blockchain.rs) changes entities one operation at a time and holds the  *)
(* second lock all along.                                                  *)
(***************************************************************************)
EXTENDS ResilientProvider, Sequences

CONSTANTS
    Answers,        \* what the query can match: sequences of entities
    PageSize,       \* results_per_page
    MaxQueryErrors, \* max_query_errors of the client's configuration
    MaxBlock,       \* bound on the blocks
    MaxVersions,    \* bound on the changes of the store
    None

Entities == UNION {{a[j] : j \in DOMAIN a} : a \in Answers}

ASSUME PagesAssumption ==
    /\ PageSize \in Nat \ {0}
    /\ MaxQueryErrors \in Nat
    /\ MaxBlock \in Nat
ASSUME AnswersAssumption == \A a \in Answers : a \in Seq(Entities)
ASSUME NoneAssumption ==
    /\ None \notin Nat
    /\ None \notin Errors
    /\ None \notin [rows : Seq(Entities), block : Nat, cursor : Nat \union {None}]

VARIABLES
    node,       \* "mock" or "paged"
    versions,   \* what the query matches after each change of the store
    blocks,     \* the version each block ended with; block b is element b + 1
    adding,     \* a block is being added
    pc,         \* where the query is
    options,    \* at_block and cursor of the next request
    loop,       \* the retry loop of the request
    error,      \* the last error of the request
    read,       \* the version the mock has read
    response,   \* the answer of the node: rows, block and cursor
    results,    \* collected rows
    errors,     \* collected errors
    asked       \* the version of the latest block when the query began

chainVars == <<node, versions, blocks, adding>>
queryVars == <<pc, options, loop, error, read, response, results, errors, asked>>
vars == <<chainVars, queryVars>>

Blocks == 0 .. Len(blocks) - 1
Latest == Len(blocks) - 1
DataOf(b) == versions[blocks[b + 1]]

Running == {"asking", "read", "answered", "refused"}

TypeOK ==
    /\ node \in {"mock", "paged"}
    /\ versions \in Seq(Answers) /\ versions # <<>>
    /\ blocks \in Seq(1 .. Len(versions)) /\ blocks # <<>>
    /\ adding \in BOOLEAN
    /\ pc \in Running \union {"idle", "done", "gaveUp"}
    /\ options \in [at : Blocks \union {None}, cursor : Nat \union {None}]
    /\ loop \in Loops
    /\ error \in Errors \union {None}
    /\ read \in DOMAIN versions \union {None}
    /\ response = None \/ response \in [rows : Seq(Entities), block : Blocks, cursor : Nat \union {None}]
    /\ results \in Seq(Entities)
    /\ errors \in 0 .. MaxQueryErrors + 1
    /\ asked \in DOMAIN versions \union {None}
    /\ pc = "answered" <=> response # None
    /\ pc = "refused" => error # None
    /\ pc \in {"done", "gaveUp"} <=> options.cursor = None
    /\ pc = "gaveUp" <=> errors = MaxQueryErrors + 1

Init ==
    /\ node \in {"mock", "paged"}
    /\ \E a \in Answers : versions = <<a>>
    /\ blocks = <<1>>
    /\ adding = FALSE
    /\ pc = "idle"
    /\ options = [at |-> None, cursor |-> 0]
    /\ loop = Started
    /\ error = None
    /\ read = None
    /\ response = None
    /\ results = <<>>
    /\ errors = 0
    /\ asked = None

--------------------------------------------------------------------------------
(* The chain *)

BeginBlock ==
    /\ ~adding
    /\ Len(blocks) <= MaxBlock
    /\ adding' = TRUE
    /\ UNCHANGED <<node, versions, blocks, queryVars>>

(* One operation of a transaction of the block that is being added. *)
Operate ==
    /\ adding
    /\ Len(versions) < MaxVersions
    /\ \E a \in Answers : versions' = Append(versions, a)
    /\ UNCHANGED <<node, blocks, adding, queryVars>>

EndBlock ==
    /\ adding
    /\ adding' = FALSE
    /\ blocks' = Append(blocks, Len(versions))
    /\ UNCHANGED <<node, versions, queryVars>>

--------------------------------------------------------------------------------
(* A request and its answer *)

(* The user may name a block. *)
Begin ==
    /\ pc = "idle"
    /\ pc' = "asking"
    /\ \E at \in Blocks \union {None} : options' = [options EXCEPT !.at = at]
    /\ asked' = blocks[Len(blocks)]
    /\ UNCHANGED <<chainVars, loop, error, read, response, results, errors>>

Answer(rows, block, cursor) ==
    /\ pc' = "answered"
    /\ response' = [rows |-> rows, block |-> block, cursor |-> cursor]
    /\ UNCHANGED <<chainVars, options, loop, error, read, results, errors, asked>>

PagedAnswers ==
    /\ pc = "asking"
    /\ node = "paged"
    /\ LET block == IF options.at = None THEN Latest ELSE options.at
           data == DataOf(block)
           end == options.cursor + PageSize
       IN  IF end < Len(data)
           THEN Answer(SubSeq(data, options.cursor + 1, end), block, end)
           ELSE Answer(SubSeq(data, options.cursor + 1, Len(data)), block, None)

(* The mock looks neither at the block nor at the page that is asked for. *)
MockReads ==
    /\ pc = "asking"
    /\ node = "mock"
    /\ pc' = "read"
    /\ read' = Len(versions)
    /\ UNCHANGED <<chainVars, options, loop, error, response, results, errors, asked>>

(* Mutant: the number of the latest block is read without its lock. *)
MockAnswersUnlocked ==
    /\ pc = "read"
    /\ Answer(versions[read], Latest, None)

(* get_latest_block_number waits for the block that is being added. *)
MockAnswers ==
    /\ pc = "read"
    /\ ~adding
    /\ Answer(versions[read], Latest, None)

Fail ==
    /\ pc \in {"asking", "read"}
    /\ pc' = "refused"
    /\ error' \in Errors
    /\ UNCHANGED <<chainVars, options, loop, read, response, results, errors, asked>>

Repeat ==
    /\ pc = "refused"
    /\ Repeats(loop, error)
    /\ pc' = "asking"
    /\ loop' = AfterError(loop, error)
    /\ UNCHANGED <<chainVars, options, error, read, response, results, errors, asked>>

Elapse ==
    /\ pc \in Running
    /\ ~loop.elapsed
    /\ loop' = [loop EXCEPT !.elapsed = TRUE]
    /\ UNCHANGED <<chainVars, pc, options, error, read, response, results, errors, asked>>

--------------------------------------------------------------------------------
(* The stream and its collector *)

(* Mutant: the block of the first answer is not kept for the next page. *)
TakePageUnpinned ==
    /\ pc = "answered"
    /\ results' = results \o response.rows
    /\ options' = [options EXCEPT !.cursor = response.cursor]
    /\ pc' = IF response.cursor = None THEN "done" ELSE "asking"
    /\ loop' = Started
    /\ response' = None
    /\ UNCHANGED <<chainVars, error, read, errors, asked>>

(* A page is appended; without a cursor it was the last one. *)
TakePage ==
    /\ pc = "answered"
    /\ results' = results \o response.rows
    /\ options' = [at |-> response.block, cursor |-> response.cursor]
    /\ pc' = IF response.cursor = None THEN "done" ELSE "asking"
    /\ loop' = Started
    /\ response' = None
    /\ UNCHANGED <<chainVars, error, read, errors, asked>>

(* Mutants: an error too many is forgiven; errors are not counted. *)
TakeErrorOnceMore ==
    /\ pc = "refused"
    /\ ~Repeats(loop, error)
    /\ errors <= MaxQueryErrors
    /\ errors' = errors + 1
    /\ pc' = "asking"
    /\ loop' = Started
    /\ UNCHANGED <<chainVars, options, error, read, response, results, asked>>

TakeErrorUncounted ==
    /\ pc = "refused"
    /\ ~Repeats(loop, error)
    /\ pc' = "asking"
    /\ loop' = Started
    /\ UNCHANGED <<chainVars, options, error, read, response, results, errors, asked>>

(* An error of the stream: the collector counts it and polls again, and the *)
(* stream asks for the same page.                                           *)
TakeError ==
    /\ pc = "refused"
    /\ ~Repeats(loop, error)
    /\ errors < MaxQueryErrors
    /\ errors' = errors + 1
    /\ pc' = "asking"
    /\ loop' = Started
    /\ UNCHANGED <<chainVars, options, error, read, response, results, asked>>

GiveUp ==
    /\ pc = "refused"
    /\ ~Repeats(loop, error)
    /\ errors = MaxQueryErrors
    /\ errors' = errors + 1
    /\ pc' = "gaveUp"
    /\ options' = [options EXCEPT !.cursor = None]
    /\ UNCHANGED <<chainVars, loop, error, read, response, results, asked>>

--------------------------------------------------------------------------------
QueryStep ==
    \/ PagedAnswers
    \/ MockReads
    \/ MockAnswers
    \/ Fail
    \/ Repeat
    \/ TakePage
    \/ TakeError
    \/ GiveUp

Next == BeginBlock \/ Operate \/ EndBlock \/ Begin \/ Elapse \/ QueryStep

Spec == Init /\ [][Next]_vars

(* The query is polled, the node answers or fails, blocks that are begun are *)
(* finished and time passes.                                                 *)
Fairness == WF_vars(QueryStep) /\ WF_vars(EndBlock) /\ WF_vars(Elapse)

FairSpec == Spec /\ Fairness

--------------------------------------------------------------------------------
(* Properties *)

Taken == IF options.cursor = None THEN Len(DataOf(options.at)) ELSE options.cursor

(* All pages of one query are of one block, whatever is committed between   *)
(* them, and no row is missing or repeated, whatever errors came in between *)
(* (query_streamed: "Ensure that we query state from the same block").      *)
OneSnapshot ==
    node = "paged" /\ results # <<>> /\ pc # "gaveUp" =>
        /\ options.at # None
        /\ results = SubSeq(DataOf(options.at), 1, Taken)

(* What the mock answers is at least as new as the block that was the       *)
(* latest when the query began, and never newer than the block that it      *)
(* names, although the two are read at different moments: a caller that saw *)
(* a receipt finds what it wrote.                                           *)
DataOfNamedBlock ==
    node = "mock" /\ pc = "done" =>
        /\ read \in asked .. blocks[options.at + 1]
        /\ results = versions[read]

(* A query ends, with its rows or with an error, also if every answer is an *)
(* error; the stream alone would ask for the page for ever.                 *)
QueryEnds == pc = "asking" ~> pc \in {"done", "gaveUp"}
================================================================================
