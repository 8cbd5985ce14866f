------------------------------ MODULE EntityStore -------------------------------
(***************************************************************************)
(* The entity database of arkiv-mock and how a block changes it            *)
(* (entity_db.rs, blockchain.rs, block_builder.rs).                        *)
(*                                                                         *)
(* A block first removes the entities that expire at its number and then   *)
(* runs its transactions, each of them creates, updates, extensions,       *)
(* deletes and changes of owner in this order.  The database has a lock    *)
(* that every operation takes for itself, so queries and a reset act       *)
(* between any two operations.  Each operation leaves a log in the block   *)
(* and most of them an event; `logged` and `emitted` are what a client     *)
(* knows that follows the logs, or the events.                             *)
(***************************************************************************)
EXTENDS Integers, FiniteSets

CONSTANTS
    Keys,               \* entity keys, hashes that are never used twice
    Owners,
    Names,              \* keys of string and of numeric annotations
    AnnotationLists,    \* the annotations that an entity can have
    Btls,               \* blocks to live, and blocks of an extension
    MaxBlock,           \* bound on the block number
    NoEntity,
    NoSender

(* An annotation is a record with a name and a value. *)
ASSUME ListsAssumption ==
    \A list \in AnnotationLists :
        IsFiniteSet(DOMAIN list) /\ \A i \in DOMAIN list : list[i].name \in Names
ASSUME BlocksAssumption == Btls \subseteq Nat /\ MaxBlock \in Nat
ASSUME SenderAssumption == NoSender \notin Owners

VARIABLES
    block,      \* number of the block being made
    expiring,   \* keys its housekeeping transaction has still to remove
    sender,     \* of the transaction being processed
    phase,      \* the kind of operations it has come to
    entities,   \* the entities map
    annotated,  \* the annotation indices: how often each key is listed for a name
    byOwner,    \* the owner index: how often each key is listed for an owner
    logged,     \* owner and expiration of each entity as told by the logs
    emitted,    \* the entities that there are as told by the events
    creator,    \* the owner who created the entity of a key, NoSender if none did
    endless,    \* keys created or updated with 0 blocks to live
    written,    \* the block that last created or updated each entity
    cleared     \* the database has been reset

blockVars == <<block, expiring, sender, phase>>
storeVars == <<entities, annotated, byOwner>>
clientVars == <<logged, emitted>>
ghostVars == <<creator, endless, written, cleared>>
vars == <<blockVars, storeVars, clientVars, ghostVars>>

Entities == [owner : Owners, btl : Nat, expires : Nat, annotations : AnnotationLists]
KeyCounts == [Keys -> Nat]
NoKeys == [k \in Keys |-> 0]

(* What a client keeps of the logs of an entity: the owner by those that are  *)
(* not of an extension, the owner that the last one names, the expiration.    *)
Facts == [owner : Owners, named : Owners, expires : Nat]

ASSUME EntityAssumption == NoEntity \notin Entities /\ NoEntity \notin Facts

TypeOK ==
    /\ block \in 0 .. MaxBlock
    /\ expiring \in SUBSET Keys
    /\ sender \in Owners \union {NoSender}
    /\ phase \in 1 .. 5
    /\ sender # NoSender => expiring = {}
    /\ entities \in [Keys -> Entities \union {NoEntity}]
    /\ annotated \in [Names -> KeyCounts]
    /\ byOwner \in [Owners -> KeyCounts]
    /\ logged \in [Keys -> Facts \union {NoEntity}]
    /\ emitted \in SUBSET Keys
    /\ creator \in [Keys -> Owners \union {NoSender}]
    /\ endless \in SUBSET Keys
    /\ written \in [Keys -> 0 .. MaxBlock]
    /\ cleared \in BOOLEAN

Init ==
    /\ block = 0
    /\ expiring = {}
    /\ sender = NoSender
    /\ phase = 1
    /\ entities = [k \in Keys |-> NoEntity]
    /\ annotated = [n \in Names |-> NoKeys]
    /\ byOwner = [o \in Owners |-> NoKeys]
    /\ logged = [k \in Keys |-> NoEntity]
    /\ emitted = {}
    /\ creator = [k \in Keys |-> NoSender]
    /\ endless = {}
    /\ written = [k \in Keys |-> 0]
    /\ cleared = FALSE

Live(k) == entities[k] # NoEntity

Known(e) == [owner |-> e.owner, named |-> e.owner, expires |-> e.expires]

--------------------------------------------------------------------------------
(* Indices.  Nothing depends on the order of the keys an index lists.         *)

(* How many annotations of a name a list has. *)
Carried(list, n) == Cardinality({i \in DOMAIN list : list[i].name = n})

Without(keys, k) == [keys EXCEPT ![k] = 0]
With(keys, k, n) == [keys EXCEPT ![k] = @ + n]

(* remove_entity_annotations *)
Unannotated(index, k) == [n \in Names |-> Without(index[n], k)]

(* Mutant: the annotations an entity had before are left in the indices. *)
AnnotatedOnTop(index, k, list) ==
    [n \in Names |-> With(index[n], k, Carried(list, n))]

(* update_annotations: one entry for each annotation in the list. *)
Annotated(index, k, list) ==
    [n \in Names |-> With(Unannotated(index, k)[n], k, Carried(list, n))]

(* remove_entity *)
Remove(k) ==
    /\ entities' = [entities EXCEPT ![k] = NoEntity]
    /\ annotated' = Unannotated(annotated, k)
    /\ byOwner' = [byOwner EXCEPT ![entities[k].owner] = Without(@, k)]

LogOnly(k, fact) ==
    /\ logged' = [logged EXCEPT ![k] = fact]
    /\ UNCHANGED emitted

LogWritten(k, fact) ==
    /\ logged' = [logged EXCEPT ![k] = fact]
    /\ emitted' = emitted \union {k}

LogRemoved(k) ==
    /\ logged' = [logged EXCEPT ![k] = NoEntity]
    /\ emitted' = emitted \ {k}

(* The log of an extension names whoever sent the transaction as the owner. *)
Extended(k, e) == [logged[k] EXCEPT !.named = sender, !.expires = e.expires]

--------------------------------------------------------------------------------
(* Blocks *)

(* Mutants: the number is taken before it is incremented; expired entities    *)
(* are removed without a log; housekeeping is not the first transaction.      *)
NextBlockUsesOldNumber ==
    /\ sender = NoSender
    /\ expiring = {}
    /\ block < MaxBlock
    /\ block' = block + 1
    /\ expiring' = {k \in Keys : Live(k) /\ entities[k].expires = block}
    /\ UNCHANGED <<sender, phase, storeVars, clientVars, ghostVars>>

HousekeepQuietly(k) ==
    /\ k \in expiring
    /\ expiring' = expiring \ {k}
    /\ IF Live(k) THEN Remove(k) ELSE UNCHANGED storeVars
    /\ UNCHANGED <<block, sender, phase, clientVars, ghostVars>>

BeginTransactionAnyTime(s) ==
    /\ block > 0
    /\ sender = NoSender
    /\ sender' = s
    /\ phase' = 1
    /\ UNCHANGED <<block, expiring, storeVars, clientVars, ghostVars>>

(* The housekeeping transaction lists what expires at the new block's number. *)
NextBlock ==
    /\ sender = NoSender
    /\ expiring = {}
    /\ block < MaxBlock
    /\ block' = block + 1
    /\ expiring' = {k \in Keys : Live(k) /\ entities[k].expires = block + 1}
    /\ UNCHANGED <<sender, phase, storeVars, clientVars, ghostVars>>

Housekeep(k) ==
    /\ k \in expiring
    /\ expiring' = expiring \ {k}
    /\ IF Live(k)
       THEN Remove(k) /\ LogRemoved(k)
       ELSE UNCHANGED <<storeVars, clientVars>>
    /\ UNCHANGED <<block, sender, phase, ghostVars>>

BeginTransaction(s) ==
    /\ block > 0
    /\ expiring = {}
    /\ sender = NoSender
    /\ sender' = s
    /\ phase' = 1
    /\ UNCHANGED <<block, expiring, storeVars, clientVars, ghostVars>>

(* After the last operation, or at an update, an extension or a change of    *)
(* owner of an entity that does not exist; what was done before stays.       *)
EndTransaction ==
    /\ sender # NoSender
    /\ sender' = NoSender
    /\ phase' = 1
    /\ UNCHANGED <<block, expiring, storeVars, clientVars, ghostVars>>

(* The operations of a transaction come by kind. *)
InPhase(kind) ==
    /\ sender # NoSender
    /\ phase <= kind
    /\ phase' = kind
    /\ UNCHANGED <<block, expiring, sender>>

Written(k, btl) ==
    /\ endless' = IF btl = 0 THEN endless \union {k} ELSE endless
    /\ written' = [written EXCEPT ![k] = block]

--------------------------------------------------------------------------------
(* Operations *)

Create(k, btl, list) ==
    LET e == [owner |-> sender, btl |-> btl, expires |-> block + btl, annotations |-> list]
    IN  /\ InPhase(1)
        /\ creator[k] = NoSender
        /\ creator' = [creator EXCEPT ![k] = sender]
        /\ entities' = [entities EXCEPT ![k] = e]
        /\ byOwner' = [byOwner EXCEPT ![sender] = With(@, k, 1)]
        /\ annotated' = Annotated(annotated, k, list)
        /\ LogWritten(k, Known(e))
        /\ Written(k, btl)
        /\ UNCHANGED cleared

Update(k, btl, list) ==
    LET e == [entities[k] EXCEPT !.btl = btl, !.expires = block + btl, !.annotations = list]
    IN  /\ InPhase(2)
        /\ Live(k)
        /\ entities' = [entities EXCEPT ![k] = e]
        /\ annotated' = Annotated(annotated, k, list)
        /\ LogWritten(k, Known(e))
        /\ Written(k, btl)
        /\ UNCHANGED <<byOwner, creator, cleared>>

(* Mutant: an extension moves the expiration and not the blocks to live. *)
ExtendExpirationOnly(k, blocks) ==
    LET e == [entities[k] EXCEPT !.expires = @ + blocks]
    IN  /\ InPhase(3)
        /\ Live(k)
        /\ e.expires <= MaxBlock + 1
        /\ entities' = [entities EXCEPT ![k] = e]
        /\ LogOnly(k, Extended(k, e))
        /\ UNCHANGED <<annotated, byOwner, ghostVars>>

(* Anybody may extend.  An extension has a log and no event.  An expiration   *)
(* is bounded: what is beyond the last block is all the same.                 *)
Extend(k, blocks) ==
    LET e == [entities[k] EXCEPT !.btl = @ + blocks, !.expires = @ + blocks]
    IN  /\ InPhase(3)
        /\ Live(k)
        /\ e.expires <= MaxBlock + 1
        /\ entities' = [entities EXCEPT ![k] = e]
        /\ LogOnly(k, Extended(k, e))
        /\ UNCHANGED <<annotated, byOwner, ghostVars>>

Delete(k) ==
    /\ InPhase(4)
    /\ Live(k)
    /\ Remove(k)
    /\ LogRemoved(k)
    /\ UNCHANGED ghostVars

(* change_owner changes the entity and not the owner index, and has a log *)
(* and no event.                                                          *)
ChangeOwner(k, owner) ==
    LET e == [entities[k] EXCEPT !.owner = owner]
    IN  /\ InPhase(5)
        /\ Live(k)
        /\ entities' = [entities EXCEPT ![k] = e]
        /\ LogOnly(k, Known(e))
        /\ UNCHANGED <<annotated, byOwner, ghostVars>>

(* A delete of a missing entity is skipped. *)
DeleteMissing(k) ==
    /\ InPhase(4)
    /\ ~Live(k)
    /\ UNCHANGED <<storeVars, clientVars, ghostVars>>

(* clear_all, the last part of a reset, at any moment. *)
ClearAll ==
    /\ ~cleared
    /\ cleared' = TRUE
    /\ entities' = [k \in Keys |-> NoEntity]
    /\ annotated' = [n \in Names |-> NoKeys]
    /\ byOwner' = [o \in Owners |-> NoKeys]
    /\ UNCHANGED <<blockVars, clientVars, creator, endless, written>>

--------------------------------------------------------------------------------
Next ==
    \/ NextBlock
    \/ \E s \in Owners : BeginTransaction(s)
    \/ EndTransaction
    \/ ClearAll
    \/ \E k \in Keys :
        \/ Housekeep(k)
        \/ Delete(k)
        \/ DeleteMissing(k)
        \/ \E btl \in Btls : Extend(k, btl)
        \/ \E owner \in Owners : ChangeOwner(k, owner)
        \/ \E btl \in Btls, list \in AnnotationLists :
            Create(k, btl, list) \/ Update(k, btl, list)

Spec == Init /\ [][Next]_vars

--------------------------------------------------------------------------------
(* Properties *)

(* A query finds an entity by each of its annotations, as often as it has the *)
(* annotation, and by no other, whenever it looks between two operations of   *)
(* the block being processed.                                                 *)
AnnotationsIndexed ==
    \A k \in Keys, n \in Names :
        annotated[n][k] = IF Live(k) THEN Carried(entities[k].annotations, n) ELSE 0

(* No entity outlives its expiration: expirations are collected for one block *)
(* number exactly, so one that is missed once is never removed.  Those        *)
(* written with 0 blocks to live are missed.                                  *)
NothingOverdue ==
    \A k \in Keys : Live(k) /\ entities[k].expires < block => k \in endless

(* A client that replays the logs of the blocks knows of every entity that    *)
(* there is its owner, by the last log that is not of an extension, and its   *)
(* expiration, by the last log of all; and, up to a reset, it knows of no     *)
(* others.  A subscriber to the events knows which there are, although        *)
(* extensions and changes of owner have no event.                             *)
LogsTellStore ==
    \A k \in Keys :
        /\ Live(k) =>
            /\ logged[k] # NoEntity /\ k \in emitted
            /\ logged[k].owner = entities[k].owner
            /\ logged[k].expires = entities[k].expires
        /\ ~Live(k) /\ ~cleared => logged[k] = NoEntity /\ k \notin emitted

(* The owner topic of a log is the owner of the entity.  Refuted: in the log  *)
(* of an extension it is the sender of the transaction.                       *)
LogsNameOwner == \A k \in Keys : Live(k) => logged[k].named = entities[k].owner

--------------------------------------------------------------------------------
(* Reads *)

(* to_search_result: expires_at.saturating_sub(btl). *)
LastModified(k) ==
    IF entities[k].expires >= entities[k].btl
    THEN entities[k].expires - entities[k].btl ELSE 0

(* last_modified_at_block, which is computed from the two fields that every   *)
(* operation changes in its own way, is the block that wrote the entity last. *)
LastModifiedTold == \A k \in Keys : Live(k) => LastModified(k) = written[k]
================================================================================
