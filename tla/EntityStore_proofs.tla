--------------------------- MODULE EntityStore_proofs ---------------------------
(* Theorems about EntityStore and EntityQueries, for any keys, owners and      *)
(* annotations, any number of blocks and any queries.                         *)
EXTENDS EntityQueries, FiniteSetTheorems, WellFoundedInduction, TLAPS

(* The types of everything but the indices. *)
StoreType ==
    /\ block \in Nat
    /\ sender \in Owners \union {NoSender}
    /\ entities \in [Keys -> Entities \union {NoEntity}]
    /\ logged \in [Keys -> Facts \union {NoEntity}]
    /\ emitted \in SUBSET Keys
    /\ written \in [Keys -> Nat]
    /\ cleared \in BOOLEAN

(* Expirations are ahead of the block being made, or at it and on the list   *)
(* of the housekeeping transaction.                                          *)
ExpirationsAhead ==
    \A k \in Keys : Live(k) /\ k \notin endless =>
        \/ entities[k].expires > block
        \/ entities[k].expires = block /\ k \in expiring

(* The two fields that last_modified_at_block is computed from. *)
SpanKept == \A k \in Keys : Live(k) => entities[k].expires = entities[k].btl + written[k]

IInv == StoreType /\ ExpirationsAhead /\ SpanKept /\ LogsTellStore

(* An empty store satisfies everything. *)
LEMMA InitIInv == Init => IInv
<1> SUFFICES ASSUME Init
             PROVE  IInv
  OBVIOUS
<1>1. StoreType
  BY DEF Init, StoreType
<1>2. \A k \in Keys : ~Live(k) /\ logged[k] = NoEntity /\ k \notin emitted
  BY DEF Init, Live
<1> QED
  BY <1>1, <1>2 DEF IInv, ExpirationsAhead, SpanKept, LogsTellStore

(* An entity with other numbers, or with other annotations too, is an entity. *)
LEMMA Renumbered ==
    ASSUME NEW r \in Entities, NEW b \in Nat, NEW x \in Nat
    PROVE  [r EXCEPT !.btl = b, !.expires = x] \in Entities
  BY DEF Entities

LEMMA Rewritten ==
    ASSUME NEW r \in Entities, NEW b \in Nat, NEW x \in Nat, NEW list \in AnnotationLists
    PROVE  [r EXCEPT !.btl = b, !.expires = x, !.annotations = list] \in Entities
  BY DEF Entities

LEMMA KnownFacts ==
    ASSUME NEW e \in Entities
    PROVE  Known(e) \in Facts /\ Known(e).owner = e.owner /\ Known(e).expires = e.expires
  BY DEF Known, Entities, Facts

(* What creates, updates, extensions and changes of owner do to the entity,   *)
(* to the logs and to the events.                                             *)
LEMMA WriteKeeps ==
    ASSUME IInv, NEW k \in Keys, NEW e \in Entities, NEW fact \in Facts,
           entities' = [entities EXCEPT ![k] = e],
           written' = [written EXCEPT ![k] = written'[k]], written'[k] \in Nat,
           e.expires = e.btl + written'[k],
           logged' = [logged EXCEPT ![k] = fact],
           fact.owner = e.owner, fact.expires = e.expires,
           \/ emitted' = emitted \union {k}
           \/ UNCHANGED emitted /\ Live(k),
           e.expires > block \/ k \in endless'
                \/ (k \in expiring /\ e.expires = block),
           endless \subseteq endless', endless' \subseteq endless \union {k},
           UNCHANGED <<block, sender, expiring, cleared>>
    PROVE  IInv'
<1> USE EntityAssumption DEF IInv, Live
<1>1. fact # NoEntity /\ e # NoEntity
  OBVIOUS
<1>2. StoreType'
  BY <1>1 DEF StoreType
<1>3. \A d \in Keys : entities'[d] = IF d = k THEN e ELSE entities[d]
  BY DEF StoreType
<1>4. ExpirationsAhead'
  BY <1>3 DEF ExpirationsAhead
<1>5. SpanKept'
  BY <1>3 DEF SpanKept, StoreType
<1>6. LogsTellStore'
  BY <1>1, <1>3 DEF LogsTellStore, StoreType
<1> QED
  BY <1>2, <1>4, <1>5, <1>6

(* What deletes and the housekeeping do. *)
LEMMA RemovalKeeps ==
    ASSUME IInv, NEW k \in Keys, Remove(k), LogRemoved(k), expiring \subseteq expiring' \union {k},
           UNCHANGED <<block, sender, ghostVars>>
    PROVE  IInv'
<1> USE DEF IInv, Live
<1>1. /\ entities' = [entities EXCEPT ![k] = NoEntity]
      /\ logged' = [logged EXCEPT ![k] = NoEntity]
      /\ emitted' = emitted \ {k}
      /\ UNCHANGED <<endless, written, cleared>>
  BY DEF Remove, LogRemoved, ghostVars
<1>2. \A d \in Keys : entities'[d] = IF d = k THEN NoEntity ELSE entities[d]
  BY <1>1 DEF StoreType
<1>3. StoreType'
  BY <1>1 DEF StoreType
<1>4. ExpirationsAhead'
  BY <1>1, <1>2 DEF ExpirationsAhead
<1>5. SpanKept'
  BY <1>1, <1>2 DEF SpanKept
<1>6. LogsTellStore'
  BY <1>1, <1>2 DEF LogsTellStore, StoreType
<1> QED
  BY <1>3, <1>4, <1>5, <1>6

(* Every step of a block, of a transaction and of a reset keeps the invariant. *)
LEMMA NextIInv == IInv /\ [Next]_vars => IInv'
<1> SUFFICES ASSUME IInv, [Next]_vars
             PROVE  IInv'
  OBVIOUS
<1> USE BlocksAssumption DEF IInv
<1>0. sender # NoSender => sender \in Owners
  BY DEF StoreType
<1>1. CASE NextBlock
  <2>1. /\ block' = block + 1
        /\ expiring' = {k \in Keys : Live(k) /\ entities[k].expires = block + 1}
        /\ UNCHANGED <<sender, entities, logged, emitted, endless, written, cleared>>
    BY <1>1 DEF NextBlock, storeVars, clientVars, ghostVars
  <2>2. StoreType'
    BY <2>1 DEF StoreType
  <2>3. ExpirationsAhead'
    <3> SUFFICES ASSUME NEW k \in Keys, Live(k), k \notin endless
                 PROVE  \/ entities[k].expires > block + 1
                        \/ entities[k].expires = block + 1 /\ k \in expiring'
      BY <2>1 DEF ExpirationsAhead, Live
    <3>1. entities[k].expires \in Nat /\ block \in Nat
      BY DEF StoreType, Live, Entities
    <3>2. entities[k].expires > block
      BY <1>1 DEF ExpirationsAhead, NextBlock
    <3>3. entities[k].expires = block + 1 => k \in expiring'
      BY <2>1
    <3> QED
      BY <3>1, <3>2, <3>3
  <2> QED
    BY <2>1, <2>2, <2>3 DEF SpanKept, LogsTellStore, Live
<1>2. ASSUME NEW k \in Keys, Housekeep(k)
      PROVE  IInv'
  <2>1. CASE Live(k)
    BY <1>2, <2>1, RemovalKeeps DEF Housekeep
  <2>2. CASE ~Live(k)
    BY <1>2, <2>2 DEF Housekeep, storeVars, clientVars, ghostVars, StoreType, ExpirationsAhead,
       SpanKept, LogsTellStore, Live
  <2> QED
    BY <2>1, <2>2
<1>3. ASSUME NEW s \in Owners, BeginTransaction(s)
      PROVE  IInv'
  BY <1>3 DEF BeginTransaction, storeVars, clientVars, ghostVars, StoreType, ExpirationsAhead,
     SpanKept, LogsTellStore, Live
<1>4. CASE EndTransaction
  BY <1>4 DEF EndTransaction, storeVars, clientVars, ghostVars, StoreType, ExpirationsAhead,
     SpanKept, LogsTellStore, Live
<1>5. CASE ClearAll
  BY <1>5 DEF ClearAll, blockVars, clientVars, StoreType, ExpirationsAhead, SpanKept, LogsTellStore, Live
<1>6. ASSUME NEW k \in Keys, NEW btl \in Btls, NEW list \in AnnotationLists, Create(k, btl, list)
      PROVE  IInv'
  <2> DEFINE e == [owner |-> sender, btl |-> btl, expires |-> block + btl, annotations |-> list]
  <2>1. btl \in Nat /\ block \in Nat /\ sender \in Owners
    BY <1>0, <1>6 DEF Create, InPhase, StoreType
  <2>2. e \in Entities /\ e.expires = e.btl + block /\ (e.expires > block \/ btl = 0)
    BY <2>1 DEF Entities
  <2>3. /\ entities' = [entities EXCEPT ![k] = e]
        /\ logged' = [logged EXCEPT ![k] = Known(e)]
        /\ emitted' = emitted \union {k}
        /\ written' = [written EXCEPT ![k] = block]
        /\ endless' = IF btl = 0 THEN endless \union {k} ELSE endless
        /\ UNCHANGED <<block, sender, expiring, cleared>>
    BY <1>6 DEF Create, InPhase, LogWritten, Written
  <2>4. /\ written'[k] = block /\ written'[k] \in Nat
        /\ written' = [written EXCEPT ![k] = written'[k]]
    BY <2>1, <2>3 DEF StoreType
  <2>5. e.expires > block \/ k \in endless' \/ (k \in expiring /\ e.expires = block)
    BY <2>2, <2>3
  <2>6. endless \subseteq endless' /\ endless' \subseteq endless \union {k}
    BY <2>3
  <2>7. e.expires = e.btl + written'[k]
    BY <2>2, <2>4
  <2> HIDE DEF e
  <2>8. Known(e) \in Facts /\ Known(e).owner = e.owner /\ Known(e).expires = e.expires
    BY <2>2, KnownFacts
  <2> QED
    BY ONLY IInv, <2>2, <2>3, <2>4, <2>5, <2>6, <2>7, <2>8, WriteKeeps
<1>7. ASSUME NEW k \in Keys, NEW btl \in Btls, NEW list \in AnnotationLists, Update(k, btl, list)
      PROVE  IInv'
  <2> DEFINE e == [entities[k] EXCEPT !.btl = btl, !.expires = block + btl, !.annotations = list]
  <2>1. btl \in Nat /\ block \in Nat /\ entities[k] \in Entities
    BY <1>7 DEF Update, StoreType, Live
  <2>2. e \in Entities /\ e.expires = e.btl + block /\ (e.expires > block \/ btl = 0)
    <3>1. e \in Entities
      <4>1. block + btl \in Nat
        BY <2>1
      <4> QED
        BY <2>1, <4>1, Rewritten
    <3>2. e.btl = btl
      BY <2>1 DEF Entities
    <3>3. e.expires = block + btl
      BY <2>1 DEF Entities
    <3> HIDE DEF e
    <3> QED
      BY <2>1, <3>1, <3>2, <3>3
  <2>3. /\ entities' = [entities EXCEPT ![k] = e]
        /\ logged' = [logged EXCEPT ![k] = Known(e)]
        /\ emitted' = emitted \union {k}
        /\ written' = [written EXCEPT ![k] = block]
        /\ endless' = IF btl = 0 THEN endless \union {k} ELSE endless
        /\ UNCHANGED <<block, sender, expiring, cleared>>
    BY <1>7 DEF Update, InPhase, LogWritten, Written
  <2>4. /\ written'[k] = block /\ written'[k] \in Nat
        /\ written' = [written EXCEPT ![k] = written'[k]]
    BY <2>1, <2>3 DEF StoreType
  <2>5. e.expires > block \/ k \in endless' \/ (k \in expiring /\ e.expires = block)
    BY <2>2, <2>3
  <2>6. endless \subseteq endless' /\ endless' \subseteq endless \union {k}
    BY <2>3
  <2>7. e.expires = e.btl + written'[k]
    BY <2>2, <2>4
  <2> HIDE DEF e
  <2>8. Known(e) \in Facts /\ Known(e).owner = e.owner /\ Known(e).expires = e.expires
    BY <2>2, KnownFacts
  <2> QED
    BY ONLY IInv, <2>2, <2>3, <2>4, <2>5, <2>6, <2>7, <2>8, WriteKeeps
<1>8. ASSUME NEW k \in Keys, NEW blocks \in Btls, Extend(k, blocks)
      PROVE  IInv'
  <2> DEFINE e == [entities[k] EXCEPT !.btl = @ + blocks, !.expires = @ + blocks]
  <2>1. blocks \in Nat /\ block \in Nat /\ entities[k] \in Entities /\ written[k] \in Nat
    BY <1>8 DEF Extend, StoreType, Live
  <2>2. entities[k].expires = entities[k].btl + written[k]
    BY <1>8 DEF Extend, SpanKept
  <2>3. e \in Entities /\ e.expires = entities[k].expires + blocks /\ e.expires = e.btl + written[k]
    <3>1. e \in Entities
      <4>1. entities[k].btl + blocks \in Nat /\ entities[k].expires + blocks \in Nat
        BY <2>1 DEF Entities
      <4> QED
        BY <2>1, <4>1, Renumbered
    <3>2. e.btl = entities[k].btl + blocks
      BY <2>1 DEF Entities
    <3>3. e.expires = entities[k].expires + blocks
      BY <2>1 DEF Entities
    <3>4. entities[k].btl \in Nat /\ entities[k].expires \in Nat
      BY <2>1 DEF Entities
    <3> HIDE DEF e
    <3> QED
      BY <2>1, <2>2, <3>1, <3>2, <3>3, <3>4
  <2>4. /\ entities' = [entities EXCEPT ![k] = e]
        /\ logged' = [logged EXCEPT ![k] = Extended(k, e)]
        /\ sender # NoSender
        /\ UNCHANGED <<emitted, written, endless, block, sender, expiring, cleared>> /\ Live(k)
    BY <1>8 DEF Extend, InPhase, LogOnly, ghostVars
  <2>5. written' = [written EXCEPT ![k] = written'[k]]
    BY <2>4 DEF StoreType
  <2>6. e.expires > block \/ k \in endless \/ (k \in expiring /\ e.expires = block)
    BY <2>1, <2>3, <2>4 DEF ExpirationsAhead, Entities
  <2>7. e.owner = entities[k].owner /\ e.expires \in Nat
    BY <2>1, <2>3 DEF Entities
  <2> HIDE DEF e
  <2>8. logged[k] \in Facts /\ logged[k].owner = e.owner
    BY <2>4, <2>7 DEF StoreType, LogsTellStore
  <2> DEFINE fact == Extended(k, e)
  <2>9. fact \in Facts /\ fact.owner = e.owner /\ fact.expires = e.expires
    BY <1>0, <2>4, <2>7, <2>8 DEF Extended, Facts
  <2> HIDE DEF fact
  <2>10. logged' = [logged EXCEPT ![k] = fact]
    BY <2>4 DEF fact
  <2> QED
    BY <2>1, <2>3, <2>4, <2>5, <2>6, <2>9, <2>10, WriteKeeps
<1>9. ASSUME NEW k \in Keys, NEW owner \in Owners, ChangeOwner(k, owner)
      PROVE  IInv'
  <2> DEFINE e == [entities[k] EXCEPT !.owner = owner]
  <2>1. entities[k] \in Entities /\ written[k] \in Nat
    BY <1>9 DEF ChangeOwner, StoreType, Live
  <2>2. entities[k].expires = entities[k].btl + written[k]
    BY <1>9 DEF ChangeOwner, SpanKept
  <2>3. e \in Entities /\ e.expires = entities[k].expires /\ e.expires = e.btl + written[k]
    BY <2>1, <2>2 DEF Entities
  <2>4. /\ entities' = [entities EXCEPT ![k] = e]
        /\ logged' = [logged EXCEPT ![k] = Known(e)]
        /\ UNCHANGED <<emitted, written, endless, block, sender, expiring, cleared>> /\ Live(k)
    BY <1>9 DEF ChangeOwner, InPhase, LogOnly, ghostVars
  <2>5. written' = [written EXCEPT ![k] = written'[k]]
    BY <2>4 DEF StoreType
  <2>6. e.expires > block \/ k \in endless \/ (k \in expiring /\ e.expires = block)
    BY <2>3, <2>4 DEF ExpirationsAhead
  <2> HIDE DEF e
  <2>7. Known(e) \in Facts /\ Known(e).owner = e.owner /\ Known(e).expires = e.expires
    BY <2>3, KnownFacts
  <2> QED
    BY <2>1, <2>3, <2>4, <2>5, <2>6, <2>7, WriteKeeps
<1>10. ASSUME NEW k \in Keys, Delete(k)
       PROVE  IInv'
  BY <1>10, RemovalKeeps DEF Delete, InPhase
<1>11. ASSUME NEW k \in Keys, DeleteMissing(k)
       PROVE  IInv'
  BY <1>11 DEF DeleteMissing, InPhase, storeVars, clientVars, ghostVars, StoreType, ExpirationsAhead,
     SpanKept, LogsTellStore, Live
<1>12. CASE UNCHANGED vars
  BY <1>12 DEF vars, blockVars, storeVars, clientVars, ghostVars, StoreType, ExpirationsAhead,
     SpanKept, LogsTellStore, Live
<1> QED
  BY <1>1, <1>2, <1>3, <1>4, <1>5, <1>6, <1>7, <1>8, <1>9, <1>10, <1>11, <1>12 DEF Next

LEMMA Invariant == Spec => []IInv
  BY InitIInv, NextIInv, PTL DEF Spec

(* What a client keeps of the logs of the blocks is the owner and expiration  *)
(* of every entity that the store holds, whoever extends or is given it, and  *)
(* the events say which entities there are, whatever the order of operations. *)
THEOREM LogsSuffice == Spec => []LogsTellStore
<1>1. IInv => LogsTellStore
  BY DEF IInv
<1> QED
  BY <1>1, Invariant, PTL

(* Collecting expirations for one block number exactly misses none that was *)
(* not written with 0 blocks to live.                                       *)
THEOREM NoneOverdue == Spec => []NothingOverdue
<1>1. IInv => NothingOverdue
  <2> SUFFICES ASSUME IInv, NEW k \in Keys, Live(k), entities[k].expires < block
               PROVE  k \in endless
    BY DEF NothingOverdue
  <2>1. entities[k].expires \in Nat /\ block \in Nat
    BY DEF IInv, StoreType, Live, Entities
  <2> QED
    BY <2>1 DEF IInv, ExpirationsAhead
<1> QED
  BY <1>1, Invariant, PTL

(* The block computed from expiration and blocks to live is that of the last *)
(* create or update.                                                         *)
THEOREM LastModifiedExact == Spec => []LastModifiedTold
<1>1. IInv => LastModifiedTold
  <2> SUFFICES ASSUME IInv, NEW k \in Keys, Live(k)
               PROVE  LastModified(k) = written[k]
    BY DEF LastModifiedTold
  <2>1. entities[k].expires \in Nat /\ entities[k].btl \in Nat /\ written[k] \in Nat
    BY DEF IInv, StoreType, Live, Entities
  <2> QED
    BY <2>1 DEF IInv, SpanKept, LastModified
<1> QED
  BY <1>1, Invariant, PTL

--------------------------------------------------------------------------------
(* The indices *)

LEMMA CarriedType ==
    ASSUME NEW list \in AnnotationLists, NEW n
    PROVE  Carried(list, n) \in Nat
<1> DEFINE at == {i \in DOMAIN list : list[i].name = n}
<1>1. IsFiniteSet(DOMAIN list) /\ at \subseteq DOMAIN list
  BY ListsAssumption
<1>2. IsFiniteSet(at)
  BY <1>1, FS_Subset
<1> QED
  BY <1>2, FS_CardinalityType DEF Carried

(* Annotating a key replaces its entries and touches no other key's. *)
LEMMA AnnotatedSets ==
    ASSUME NEW index \in [Names -> KeyCounts], NEW k \in Keys, NEW list \in AnnotationLists
    PROVE  /\ Annotated(index, k, list) \in [Names -> KeyCounts]
           /\ \A n \in Names, d \in Keys :
                Annotated(index, k, list)[n][d] = IF d = k THEN Carried(list, n) ELSE index[n][d]
<1> SUFFICES ASSUME NEW n \in Names
             PROVE  /\ Annotated(index, k, list)[n] \in KeyCounts
                    /\ \A d \in Keys : Annotated(index, k, list)[n][d] =
                                            IF d = k THEN Carried(list, n) ELSE index[n][d]
  BY DEF Annotated
<1>1. Carried(list, n) \in Nat
  BY CarriedType
<1>2. Annotated(index, k, list)[n] = With(Without(index[n], k), k, Carried(list, n))
  BY DEF Annotated, Unannotated
<1>3. Without(index[n], k) \in KeyCounts /\ Without(index[n], k)[k] = 0
      /\ \A d \in Keys : d # k => Without(index[n], k)[d] = index[n][d]
  BY DEF Without, KeyCounts
<1> QED
  BY <1>1, <1>2, <1>3 DEF With, KeyCounts

LEMMA UnannotatedSets ==
    ASSUME NEW index \in [Names -> KeyCounts], NEW k \in Keys
    PROVE  /\ Unannotated(index, k) \in [Names -> KeyCounts]
           /\ \A n \in Names, d \in Keys :
                Unannotated(index, k)[n][d] = IF d = k THEN 0 ELSE index[n][d]
  BY DEF Unannotated, Without, KeyCounts

(* What TypeOK says that StoreType does not, but for the indices. *)
BlockType ==
    /\ block \in 0 .. MaxBlock
    /\ expiring \in SUBSET Keys
    /\ phase \in 1 .. 5
    /\ sender # NoSender => expiring = {}
    /\ creator \in [Keys -> Owners \union {NoSender}]
    /\ endless \in SUBSET Keys
    /\ written \in [Keys -> 0 .. MaxBlock]

IndexInv ==
    /\ annotated \in [Names -> KeyCounts]
    /\ byOwner \in [Owners -> KeyCounts]
    /\ AnnotationsIndexed

Complete == IInv /\ BlockType /\ IndexInv

LEMMA InitComplete == Init => Complete
<1> SUFFICES ASSUME Init PROVE Complete
  OBVIOUS
<1>1. BlockType
  BY BlocksAssumption DEF Init, BlockType
<1>2. NoKeys \in KeyCounts
  BY DEF NoKeys, KeyCounts
<1>3. \A k \in Keys, n \in Names : ~Live(k) /\ annotated[n][k] = 0
  BY DEF Init, Live, NoKeys
<1>4. annotated \in [Names -> KeyCounts] /\ byOwner \in [Owners -> KeyCounts]
  BY <1>2 DEF Init
<1> QED
  BY <1>1, <1>3, <1>4, InitIInv DEF Complete, IndexInv, AnnotationsIndexed

LEMMA NextBlockType == IInv /\ BlockType /\ [Next]_vars => BlockType'
<1> SUFFICES ASSUME IInv, BlockType, [Next]_vars PROVE BlockType'
  OBVIOUS
<1> USE BlocksAssumption DEF BlockType
<1>1. CASE NextBlock
  BY <1>1 DEF NextBlock, ghostVars
<1>2. ASSUME NEW k \in Keys, Housekeep(k)
      PROVE  BlockType'
  BY <1>2 DEF Housekeep, ghostVars
<1>3. ASSUME NEW s \in Owners, BeginTransaction(s)
      PROVE  BlockType'
  BY <1>3 DEF BeginTransaction, ghostVars
<1>4. CASE EndTransaction
  BY <1>4 DEF EndTransaction, ghostVars
<1>5. CASE ClearAll
  BY <1>5 DEF ClearAll, blockVars
<1>6. ASSUME NEW kind \in 1 .. 5, InPhase(kind), UNCHANGED ghostVars
      PROVE  BlockType'
  BY <1>6 DEF InPhase, ghostVars
<1>7. ASSUME NEW kind \in 1 .. 5, NEW k \in Keys, NEW btl, InPhase(kind), Written(k, btl),
             creator' \in [Keys -> Owners \union {NoSender}]
      PROVE  BlockType'
  BY <1>7 DEF InPhase, Written
<1>8. ASSUME NEW k \in Keys, NEW btl \in Btls, NEW list \in AnnotationLists,
             Create(k, btl, list) \/ Update(k, btl, list)
      PROVE  BlockType'
  <2>1. CASE Create(k, btl, list)
    <3>1. creator' = [creator EXCEPT ![k] = sender] /\ sender \in Owners
      BY <2>1 DEF Create, InPhase, IInv, StoreType
    <3> QED
      BY <1>7, <2>1, <3>1 DEF Create
  <2>2. CASE Update(k, btl, list)
    BY <1>7, <2>2 DEF Update
  <2> QED
    BY <1>8, <2>1, <2>2
<1>9. ASSUME NEW k \in Keys,
             \/ Delete(k) \/ DeleteMissing(k)
             \/ \E btl \in Btls : Extend(k, btl)
             \/ \E owner \in Owners : ChangeOwner(k, owner)
      PROVE  BlockType'
  <2>1. ASSUME NEW btl \in Btls, Extend(k, btl)
        PROVE  InPhase(3) /\ UNCHANGED ghostVars
    BY <2>1 DEF Extend
  <2>2. ASSUME NEW owner \in Owners, ChangeOwner(k, owner)
        PROVE  InPhase(5) /\ UNCHANGED ghostVars
    BY <2>2 DEF ChangeOwner
  <2>3. Delete(k) \/ DeleteMissing(k) => InPhase(4) /\ UNCHANGED ghostVars
    BY DEF Delete, DeleteMissing
  <2>4. ASSUME NEW kind \in {3, 4, 5}, InPhase(kind), UNCHANGED ghostVars
        PROVE  BlockType'
    BY <1>6, <2>4
  <2> QED
    BY <1>9, <2>1, <2>2, <2>3, <2>4
<1>10. CASE UNCHANGED vars
  BY <1>10 DEF vars, blockVars, ghostVars
<1> QED
  BY <1>1, <1>2, <1>3, <1>4, <1>5, <1>8, <1>9, <1>10 DEF Next

LEMMA RemoveIndexed ==
    ASSUME IInv, IndexInv, NEW k \in Keys, Live(k), Remove(k)
    PROVE  IndexInv'
<1>1. /\ annotated \in [Names -> KeyCounts] /\ byOwner \in [Owners -> KeyCounts]
      /\ entities \in [Keys -> Entities \union {NoEntity}]
  BY DEF IInv, StoreType, IndexInv
<1>2. /\ entities' = [entities EXCEPT ![k] = NoEntity]
      /\ annotated' = Unannotated(annotated, k)
      /\ byOwner' = [byOwner EXCEPT ![entities[k].owner] = Without(@, k)]
  BY DEF Remove
<1>3. entities[k].owner \in Owners
  BY <1>1 DEF Live, Entities
<1>4. byOwner' \in [Owners -> KeyCounts]
  BY <1>1, <1>2, <1>3 DEF Without, KeyCounts
<1>5. /\ annotated' \in [Names -> KeyCounts]
      /\ \A n \in Names, d \in Keys : annotated'[n][d] = IF d = k THEN 0 ELSE annotated[n][d]
  BY <1>1, <1>2, UnannotatedSets
<1>6. \A d \in Keys : entities'[d] = IF d = k THEN NoEntity ELSE entities[d]
  BY <1>1, <1>2
<1> QED
  BY <1>4, <1>5, <1>6 DEF IndexInv, AnnotationsIndexed, Live

(* A key that is written has its entries replaced. *)
LEMMA WriteIndexed ==
    ASSUME IInv, IndexInv, NEW k \in Keys, NEW list \in AnnotationLists,
           NEW e, e # NoEntity, e.annotations = list,
           entities' = [entities EXCEPT ![k] = e],
           annotated' = Annotated(annotated, k, list),
           byOwner' \in [Owners -> KeyCounts]
    PROVE  IndexInv'
<1>1. annotated \in [Names -> KeyCounts] /\ entities \in [Keys -> Entities \union {NoEntity}]
  BY DEF IInv, StoreType, IndexInv
<1>2. /\ annotated' \in [Names -> KeyCounts]
      /\ \A n \in Names, d \in Keys :
            annotated'[n][d] = IF d = k THEN Carried(list, n) ELSE annotated[n][d]
  BY <1>1, AnnotatedSets
<1>3. \A d \in Keys : entities'[d] = IF d = k THEN e ELSE entities[d]
  BY <1>1
<1> QED
  BY <1>2, <1>3 DEF IndexInv, AnnotationsIndexed, Live

(* One whose annotations stay keeps its entries. *)
LEMMA RewriteIndexed ==
    ASSUME IInv, IndexInv, NEW k \in Keys, Live(k),
           NEW e, e # NoEntity, e.annotations = entities[k].annotations,
           entities' = [entities EXCEPT ![k] = e],
           UNCHANGED <<annotated, byOwner>>
    PROVE  IndexInv'
<1>1. entities \in [Keys -> Entities \union {NoEntity}]
  BY DEF IInv, StoreType
<1>2. \A d \in Keys : entities'[d] = IF d = k THEN e ELSE entities[d]
  BY <1>1
<1> QED
  BY <1>2 DEF IndexInv, AnnotationsIndexed, Live

LEMMA NextIndexed == IInv /\ IndexInv /\ [Next]_vars => IndexInv'
<1> SUFFICES ASSUME IInv, IndexInv, [Next]_vars PROVE IndexInv'
  OBVIOUS
<1>0. /\ entities \in [Keys -> Entities \union {NoEntity}] /\ byOwner \in [Owners -> KeyCounts]
      /\ block \in Nat /\ (sender # NoSender => sender \in Owners)
  BY DEF IInv, StoreType, IndexInv
<1>1. CASE UNCHANGED storeVars
  BY <1>1 DEF storeVars, IndexInv, AnnotationsIndexed, Live
<1>2. ASSUME NEW k \in Keys, Housekeep(k) \/ Delete(k)
      PROVE  IndexInv'
  <2>1. (Live(k) /\ Remove(k)) \/ UNCHANGED storeVars
    BY <1>2 DEF Housekeep, Delete
  <2> QED
    BY <1>1, <2>1, RemoveIndexed
<1>3. CASE ClearAll
  <2>1. NoKeys \in KeyCounts /\ \A k \in Keys : NoKeys[k] = 0
    BY DEF NoKeys, KeyCounts
  <2>2. /\ entities' = [k \in Keys |-> NoEntity]
        /\ annotated' = [n \in Names |-> NoKeys]
        /\ byOwner' = [o \in Owners |-> NoKeys]
    BY <1>3 DEF ClearAll
  <2> QED
    BY <2>1, <2>2 DEF IndexInv, AnnotationsIndexed, Live
<1>4. ASSUME NEW k \in Keys, NEW btl \in Btls, NEW list \in AnnotationLists, Create(k, btl, list)
      PROVE  IndexInv'
  <2> DEFINE e == [owner |-> sender, btl |-> btl, expires |-> block + btl, annotations |-> list]
  <2>1. sender \in Owners /\ btl \in Nat
    BY <1>0, <1>4, BlocksAssumption DEF Create, InPhase
  <2>2. e \in Entities /\ e.annotations = list
    BY <1>0, <2>1 DEF Entities
  <2>3. e # NoEntity
    BY <2>2, EntityAssumption
  <2>4. /\ entities' = [entities EXCEPT ![k] = e]
        /\ annotated' = Annotated(annotated, k, list)
        /\ byOwner' = [byOwner EXCEPT ![sender] = With(@, k, 1)]
    BY <1>4 DEF Create
  <2>5. byOwner' \in [Owners -> KeyCounts]
    <3>1. With(byOwner[sender], k, 1) \in KeyCounts
      BY <1>0, <2>1 DEF With, KeyCounts
    <3> QED
      BY <1>0, <2>1, <2>4, <3>1
  <2> HIDE DEF e
  <2> QED
    BY <2>2, <2>3, <2>4, <2>5, WriteIndexed
<1>5. ASSUME NEW k \in Keys, NEW btl \in Btls, NEW list \in AnnotationLists, Update(k, btl, list)
      PROVE  IndexInv'
  <2> DEFINE e == [entities[k] EXCEPT !.btl = btl, !.expires = block + btl, !.annotations = list]
  <2>1. entities[k] \in Entities
    BY <1>0, <1>5 DEF Update, Live
  <2>2. block + btl \in Nat /\ btl \in Nat
    BY <1>0, BlocksAssumption
  <2>3. e \in Entities
    BY <2>1, <2>2, Rewritten
  <2>4. e.annotations = list
    BY <2>1 DEF Entities
  <2>5. e # NoEntity
    BY <2>3, EntityAssumption
  <2>6. /\ entities' = [entities EXCEPT ![k] = e]
        /\ annotated' = Annotated(annotated, k, list) /\ byOwner' = byOwner
    BY <1>5 DEF Update
  <2> HIDE DEF e
  <2> QED
    BY <1>0, <2>4, <2>5, <2>6, WriteIndexed
<1>6. ASSUME NEW k \in Keys, NEW blocks \in Btls, Extend(k, blocks)
      PROVE  IndexInv'
  <2> DEFINE e == [entities[k] EXCEPT !.btl = @ + blocks, !.expires = @ + blocks]
  <2>1. entities[k] \in Entities /\ Live(k)
    BY <1>0, <1>6 DEF Extend, Live
  <2>2. entities[k].btl + blocks \in Nat /\ entities[k].expires + blocks \in Nat
    BY <2>1, BlocksAssumption DEF Entities
  <2>3. e \in Entities
    BY <2>1, <2>2, Renumbered
  <2>4. e.annotations = entities[k].annotations
    BY <2>1 DEF Entities
  <2>5. e # NoEntity
    BY <2>3, EntityAssumption
  <2>6. entities' = [entities EXCEPT ![k] = e] /\ UNCHANGED <<annotated, byOwner>>
    BY <1>6 DEF Extend
  <2> HIDE DEF e
  <2> QED
    BY <2>1, <2>4, <2>5, <2>6, RewriteIndexed
<1>7. ASSUME NEW k \in Keys, NEW owner \in Owners, ChangeOwner(k, owner)
      PROVE  IndexInv'
  <2> DEFINE e == [entities[k] EXCEPT !.owner = owner]
  <2>1. entities[k] \in Entities /\ Live(k)
    BY <1>0, <1>7 DEF ChangeOwner, Live
  <2>2. e \in Entities /\ e.annotations = entities[k].annotations
    BY <2>1 DEF Entities
  <2>3. e # NoEntity
    BY <2>2, EntityAssumption
  <2>4. entities' = [entities EXCEPT ![k] = e] /\ UNCHANGED <<annotated, byOwner>>
    BY <1>7 DEF ChangeOwner
  <2> HIDE DEF e
  <2> QED
    BY <2>1, <2>2, <2>3, <2>4, RewriteIndexed
<1>8. ASSUME \/ NextBlock \/ EndTransaction \/ \E s \in Owners : BeginTransaction(s)
             \/ \E k \in Keys : DeleteMissing(k)
             \/ UNCHANGED vars
      PROVE  UNCHANGED storeVars
  BY <1>8 DEF NextBlock, EndTransaction, BeginTransaction, DeleteMissing, vars
<1> QED
  BY <1>1, <1>2, <1>3, <1>4, <1>5, <1>6, <1>7, <1>8 DEF Next

(* The owner index lists an entity once, under its creator.  That an entity   *)
(* was given away leaves its key there for good, also when it is gone: only   *)
(* keys that were not used yet are listed nowhere for sure.                   *)
ListedByCreator ==
    /\ creator \in [Keys -> Owners \union {NoSender}]
    /\ \A o \in Owners, k \in Keys :
        /\ creator[k] = NoSender => ~Live(k) /\ byOwner[o][k] = 0
        /\ Live(k) => byOwner[o][k] = IF o = creator[k] THEN 1 ELSE 0

LEMMA NextListed == IInv /\ IndexInv /\ ListedByCreator /\ [Next]_vars => ListedByCreator'
<1> SUFFICES ASSUME IInv, IndexInv, ListedByCreator, [Next]_vars PROVE ListedByCreator'
  OBVIOUS
<1> USE DEF Live
<1>0. /\ entities \in [Keys -> Entities \union {NoEntity}]
      /\ byOwner \in [Owners -> KeyCounts]
      /\ creator \in [Keys -> Owners \union {NoSender}]
  BY DEF IInv, StoreType, IndexInv, ListedByCreator
<1>1. ASSUME UNCHANGED <<byOwner, creator>>,
             \A k \in Keys : (entities'[k] # NoEntity <=> entities[k] # NoEntity)
      PROVE  ListedByCreator'
  BY <1>1 DEF ListedByCreator
<1>2. ASSUME NEW k \in Keys, Housekeep(k) \/ Delete(k)
      PROVE  ListedByCreator'
  <2>1. UNCHANGED creator /\ ((Live(k) /\ Remove(k)) \/ UNCHANGED storeVars)
    BY <1>2 DEF Housekeep, Delete, ghostVars
  <2>2. CASE UNCHANGED storeVars
    BY <1>1, <2>1, <2>2 DEF storeVars
  <2>3. CASE Live(k) /\ Remove(k)
    <3>1. entities[k].owner \in Owners
      BY <1>0, <2>3 DEF Entities
    <3>2. \A o \in Owners, d \in Keys :
            byOwner'[o][d] = IF o = entities[k].owner /\ d = k THEN 0 ELSE byOwner[o][d]
      BY <1>0, <2>3, <3>1 DEF Remove, Without, KeyCounts
    <3>3. \A d \in Keys : entities'[d] = IF d = k THEN NoEntity ELSE entities[d]
      BY <1>0, <2>3 DEF Remove
    <3> QED
      BY <2>1, <3>2, <3>3 DEF ListedByCreator
  <2> QED
    BY <2>1, <2>2, <2>3
<1>3. CASE ClearAll
  BY <1>3 DEF ClearAll, ListedByCreator, NoKeys
<1>4. ASSUME NEW k \in Keys, NEW btl \in Btls, NEW list \in AnnotationLists, Create(k, btl, list)
      PROVE  ListedByCreator'
  <2> DEFINE e == [owner |-> sender, btl |-> btl, expires |-> block + btl, annotations |-> list]
  <2>1. sender \in Owners /\ sender # NoSender
    BY <1>4 DEF IInv, StoreType, Create, InPhase
  <2>2. /\ creator[k] = NoSender /\ creator' = [creator EXCEPT ![k] = sender]
        /\ byOwner' = [byOwner EXCEPT ![sender] = With(@, k, 1)]
        /\ entities' = [entities EXCEPT ![k] = e]
    BY <1>4 DEF Create
  <2> HIDE DEF e
  <2>3. \A o \in Owners : byOwner[o][k] = 0
    BY <2>2 DEF ListedByCreator
  <2>4. \A o \in Owners, d \in Keys :
            byOwner'[o][d] = IF o = sender /\ d = k THEN 1 ELSE byOwner[o][d]
    BY <1>0, <2>1, <2>2, <2>3 DEF With, KeyCounts
  <2>5. \A d \in Keys : d # k => entities'[d] = entities[d] /\ creator'[d] = creator[d]
    BY <1>0, <2>2
  <2>6. creator'[k] = sender /\ creator' \in [Keys -> Owners \union {NoSender}]
    BY <1>0, <2>1, <2>2
  <2> QED
    BY <2>1, <2>3, <2>4, <2>5, <2>6 DEF ListedByCreator
<1>5. ASSUME NEW k \in Keys, entities[k] # NoEntity, NEW e, e # NoEntity,
             entities' = [entities EXCEPT ![k] = e], UNCHANGED <<byOwner, creator>>
      PROVE  ListedByCreator'
  <2>1. \A d \in Keys : entities'[d] = IF d = k THEN e ELSE entities[d]
    BY <1>0, <1>5
  <2> QED
    BY <1>1, <1>5, <2>1
<1>6. ASSUME NEW k \in Keys,
             \/ \E btl \in Btls : Extend(k, btl)
             \/ \E owner \in Owners : ChangeOwner(k, owner)
             \/ \E btl \in Btls, list \in AnnotationLists : Update(k, btl, list)
      PROVE  ListedByCreator'
  <2>1. entities[k] # NoEntity /\ UNCHANGED <<byOwner, creator>>
    BY <1>6 DEF Extend, ChangeOwner, Update, ghostVars
  <2>2. entities[k] \in Entities
    BY <1>0, <2>1
  <2>3. \E e \in Entities : entities' = [entities EXCEPT ![k] = e]
    <3>1. CASE \E btl \in Btls : Extend(k, btl)
      <4>1. PICK btl \in Btls : Extend(k, btl)
        BY <3>1
      <4>2. entities[k].btl + btl \in Nat /\ entities[k].expires + btl \in Nat
        BY <2>2, BlocksAssumption DEF Entities
      <4> QED
        BY <2>2, <4>1, <4>2, Renumbered DEF Extend
    <3>2. CASE \E owner \in Owners : ChangeOwner(k, owner)
      <4>1. PICK owner \in Owners : ChangeOwner(k, owner)
        BY <3>2
      <4>2. [entities[k] EXCEPT !.owner = owner] \in Entities
        BY <2>2 DEF Entities
      <4> QED
        BY <4>1, <4>2 DEF ChangeOwner
    <3>3. CASE \E btl \in Btls, list \in AnnotationLists : Update(k, btl, list)
      <4>1. PICK btl \in Btls, list \in AnnotationLists : Update(k, btl, list)
        BY <3>3
      <4>2. block + btl \in Nat /\ btl \in Nat
        BY BlocksAssumption DEF IInv, StoreType
      <4> QED
        BY <2>2, <4>1, <4>2, Rewritten DEF Update
    <3> QED
      BY <1>6, <3>1, <3>2, <3>3
  <2> QED
    BY <1>5, <2>1, <2>3, EntityAssumption
<1>7. ASSUME \/ NextBlock \/ EndTransaction \/ \E s \in Owners : BeginTransaction(s)
             \/ \E k \in Keys : DeleteMissing(k)
             \/ UNCHANGED vars
      PROVE  UNCHANGED <<entities, byOwner, creator>>
  BY <1>7 DEF NextBlock, EndTransaction, BeginTransaction, DeleteMissing, vars, storeVars, ghostVars
<1> QED
  BY <1>1, <1>2, <1>3, <1>4, <1>6, <1>7 DEF Next

LEMMA CompleteInvariant == Spec => []Complete
<1>1. Complete /\ [Next]_vars => Complete'
  BY NextIInv, NextBlockType, NextIndexed DEF Complete
<1> QED
  BY <1>1, InitComplete, PTL DEF Spec

LEMMA ListedInvariant == Spec => []ListedByCreator
<1>1. Init => ListedByCreator
  BY DEF Init, ListedByCreator, NoKeys, Live
<1>2. Complete /\ ListedByCreator /\ [Next]_vars => ListedByCreator'
  BY NextListed DEF Complete
<1> QED
  BY <1>1, <1>2, CompleteInvariant, PTL DEF Spec

(* The maps hold what they are declared to hold, and a transaction only runs *)
(* after the housekeeping of its block.                                      *)
THEOREM TypeCorrect == Spec => []TypeOK
<1>1. Complete => TypeOK
  BY DEF Complete, IInv, StoreType, BlockType, IndexInv, TypeOK
<1> QED
  BY <1>1, CompleteInvariant, PTL

(* An index lists an entity once for each of its annotations of that name, *)
(* after any updates, removals and resets.                                 *)
THEOREM IndicesExact == Spec => []AnnotationsIndexed
<1>1. Complete => AnnotationsIndexed
  BY DEF Complete, IndexInv
<1> QED
  BY <1>1, CompleteInvariant, PTL

--------------------------------------------------------------------------------
(* Queries.  An expression is exact when its parts are: an induction over the *)
(* places of the expressions, of which each is after its parts.              *)

(* What the queries read. *)
MapTypes ==
    /\ entities \in [Keys -> Entities \union {NoEntity}]
    /\ annotated \in [Names -> KeyCounts]
    /\ byOwner \in [Owners -> KeyCounts]

Below == OpToRel(<, Nat)

(* Naturals are well-founded, for a set instead of a predicate. *)
LEMMA LeastNatural ==
    ASSUME NEW T \in SUBSET Nat, T # {}
    PROVE  \E n \in T : \A m \in T : n <= m
<1>1. IsWellFoundedOn(Below, Nat)
  BY NatLessThanWellFounded DEF Below
<1>2. PICK n \in T : \A m \in T : ~ (<<m, n>> \in Below)
  BY <1>1, WFMin
<1>3. \A x, y \in Nat : y < x => <<y, x>> \in Below
  BY DEF Below, OpToRel
<1>4. ASSUME NEW m \in T PROVE n <= m
  <2>1. ~(m < n)
    BY <1>2, <1>3
  <2> QED
    BY <2>1
<1> QED
  BY <1>4

(* A definition that is recursive over places, and says what the value at one *)
(* is in terms of the values before it.                                       *)
Causal(n, V, body) ==
    \A i \in 1 .. n : \A f, g \in [1 .. n -> V] :
        (\A j \in 1 .. i - 1 : f[j] = g[j]) => body[<<i, f>>] = body[<<i, g>>]

Definitions(n, V) == {body \in [(1 .. n) \X [1 .. n -> V] -> V] : Causal(n, V, body)}

IsSolution(f, n, V, body) ==
    f \in [1 .. n -> V] /\ \A i \in 1 .. n : f[i] = body[<<i, f>>]

(* Such a definition has a solution: one for the first m - 1 places is changed *)
(* at place m to be one for m.                                                *)
LEMMA Recursion ==
    ASSUME NEW n \in Nat, NEW V, V # {}, NEW body \in Definitions(n, V)
    PROVE  \E f : IsSolution(f, n, V, body)
<1>0. PICK v : v \in V
  OBVIOUS
<1> USE DEF Definitions, Causal
<1> DEFINE Solved(f, m) == \A i \in 1 .. n : i <= m => f[i] = body[<<i, f>>]
           Solvable(m) == \E f \in [1 .. n -> V] : Solved(f, m)
           bad == {m \in Nat : m <= n /\ ~Solvable(m)}
<1>1. Solvable(0)
  <2>1. [i \in 1 .. n |-> v] \in [1 .. n -> V]
    BY <1>0
  <2>2. Solved([i \in 1 .. n |-> v], 0)
    OBVIOUS
  <2> QED
    BY <2>1, <2>2
<1>2. ASSUME NEW m \in 1 .. n, Solvable(m - 1)
      PROVE  Solvable(m)
  <2>1. PICK f \in [1 .. n -> V] : Solved(f, m - 1)
    BY <1>2
  <2> DEFINE g == [f EXCEPT ![m] = body[<<m, f>>]]
  <2>2. g \in [1 .. n -> V] /\ g[m] = body[<<m, f>>] /\ \A i \in 1 .. n : i # m => g[i] = f[i]
    OBVIOUS
  <2> HIDE DEF g
  <2>3. ASSUME NEW i \in 1 .. n, i <= m
        PROVE  g[i] = body[<<i, g>>]
    <3>1. \A j \in 1 .. i - 1 : f[j] = g[j]
      BY <2>2, <2>3
    <3>2. body[<<i, f>>] = body[<<i, g>>]
      BY <2>2, <3>1
    <3>3. CASE i = m
      BY <2>2, <3>2, <3>3
    <3>4. CASE i # m
      <4>1. i <= m - 1
        BY <2>3, <3>4
      <4> QED
        BY <2>1, <2>2, <3>2, <3>4, <4>1
    <3> QED
      BY <3>3, <3>4
  <2>4. Solved(g, m)
    BY <2>3
  <2> QED
    BY <2>2, <2>4
<1> HIDE DEF Solvable
<1>3. bad = {}
  <2> SUFFICES ASSUME bad # {} PROVE FALSE
    OBVIOUS
  <2>1. PICK m \in bad : \A l \in bad : m <= l
    <3>1. bad \in SUBSET Nat
      OBVIOUS
    <3> HIDE DEF bad
    <3> QED
      BY <3>1, LeastNatural
  <2>2. m # 0 /\ m \in 1 .. n
    BY <1>1, <2>1
  <2>3. m - 1 \in Nat /\ m - 1 \notin bad
    BY <2>1, <2>2
  <2> QED
    BY <1>2, <2>1, <2>2, <2>3
<1>4. Solvable(n)
  BY <1>3
<1> QED
  BY <1>4 DEF Solvable, IsSolution

Places == DOMAIN Expressions

(* What the definitions of Found and of Meant say of one expression. *)
FoundIn(found, i) ==
    LET e == Expressions[i]
    IN CASE e.kind = "Condition" -> FoundByCondition(e)
         [] e.kind = "And" -> FoundByBoth(found[e.left], found[e.right])
         [] e.kind = "Or" -> FoundByEither(found[e.left], found[e.right])
         [] e.kind = "Not" -> FoundByNot(found[e.of])

MeantIn(meant, i) ==
    LET e == Expressions[i]
    IN {k \in Keys : Live(k) /\
            CASE e.kind = "Condition" -> HasWhat(k, e)
              [] e.kind = "And" -> k \in meant[e.left] /\ k \in meant[e.right]
              [] e.kind = "Or" -> k \in meant[e.left] \/ k \in meant[e.right]
              [] e.kind = "Not" -> k \notin meant[e.of]}

(* The parts of an expression are at places before its own. *)
LEMMA Trees ==
    ASSUME NEW i \in Places
    PROVE  /\ Places = 1 .. Len(Expressions) /\ Len(Expressions) \in Nat
           /\ \/ Expressions[i].kind = "Condition" /\ Expressions[i].on \in ConditionKinds
              \/ /\ Expressions[i].kind \in {"And", "Or"}
                 /\ Expressions[i].left \in 1 .. i - 1 /\ Expressions[i].right \in 1 .. i - 1
              \/ Expressions[i].kind = "Not" /\ Expressions[i].of \in 1 .. i - 1
  BY ExpressionsAssumption DEF Places, PartsOf

(* The recursive functions are what their definitions say they are. *)
LEMMA FoundUnfolds ==
    ASSUME MapTypes
    PROVE  \A i \in Places : Found[i] = FoundIn(Found, i)
<1> DEFINE n == Len(Expressions)
           body == [p \in (1 .. n) \X [1 .. n -> KeyCounts] |-> FoundIn(p[2], p[1])]
<1>0. Places = 1 .. n /\ n \in Nat
  BY ExpressionsAssumption DEF Places
<1>1. NoKeys \in KeyCounts
  BY DEF NoKeys, KeyCounts
<1>2. ASSUME NEW i \in Places, NEW f
      PROVE  FoundIn(f, i) \in KeyCounts
  <2> DEFINE e == Expressions[i]
  <2>1. CASE e.kind = "Condition"
    <3>1. Candidates(e) \in KeyCounts
      <4>1. e.on \in ConditionKinds
        BY <2>1, Trees
      <4> HIDE DEF e
      <4> QED
        BY <4>1 DEF Candidates, ConditionKinds, MapTypes, KeyCounts
    <3>2. FoundIn(f, i) = FoundByCondition(e)
      BY <2>1 DEF FoundIn
    <3> HIDE DEF e
    <3> QED
      BY <3>1, <3>2 DEF FoundByCondition, KeyCounts
  <2>2. ASSUME NEW S PROVE Once(S) \in KeyCounts
    BY DEF Once, KeyCounts
  <2>3. CASE e.kind # "Condition"
    <3>1. e.kind \in {"And", "Or", "Not"}
      BY <2>3, Trees
    <3>2. \E S : FoundIn(f, i) = Once(S)
      BY <3>1 DEF FoundIn, FoundByBoth, FoundByEither, FoundByNot
    <3> QED
      BY <2>2, <3>2
  <2> QED
    BY <2>1, <2>3
<1>3. body \in [(1 .. n) \X [1 .. n -> KeyCounts] -> KeyCounts]
  BY <1>0, <1>2
<1>4. Causal(n, KeyCounts, body)
  <2> SUFFICES ASSUME NEW i \in 1 .. n, NEW f \in [1 .. n -> KeyCounts], NEW g \in [1 .. n -> KeyCounts],
                      \A j \in 1 .. i - 1 : f[j] = g[j]
               PROVE  body[<<i, f>>] = body[<<i, g>>]
    BY Zenon DEF Causal
  <2>1. FoundIn(f, i) = FoundIn(g, i)
    BY <1>0, Trees DEF FoundIn
  <2> QED
    BY <2>1
<1>5. PICK f : IsSolution(f, n, KeyCounts, body)
  <2> HIDE DEF body, n
  <2>1. body \in Definitions(n, KeyCounts) /\ KeyCounts # {}
    BY <1>1, <1>3, <1>4 DEF Definitions
  <2> QED
    BY <1>0, <2>1, Recursion
<1>6. f = [i \in Places |-> FoundIn(f, i)]
  BY <1>0, <1>5 DEF IsSolution
<1>7. Found = [i \in Places |-> FoundIn(Found, i)]
  BY <1>6 DEF Found, FoundIn, Places
<1> QED
  BY <1>7

LEMMA MeantUnfolds ==
    \A i \in Places : Meant[i] = MeantIn(Meant, i)
<1> DEFINE n == Len(Expressions)
           body == [p \in (1 .. n) \X [1 .. n -> SUBSET Keys] |-> MeantIn(p[2], p[1])]
<1>0. Places = 1 .. n /\ n \in Nat
  BY ExpressionsAssumption DEF Places
<1>1. {} \in SUBSET Keys
  OBVIOUS
<1>2. ASSUME NEW i \in Places, NEW f
      PROVE  MeantIn(f, i) \in SUBSET Keys
  BY DEF MeantIn
<1>3. body \in [(1 .. n) \X [1 .. n -> SUBSET Keys] -> SUBSET Keys]
  BY <1>0, <1>2
<1>4. Causal(n, SUBSET Keys, body)
  <2> SUFFICES ASSUME NEW i \in 1 .. n, NEW f \in [1 .. n -> SUBSET Keys], NEW g \in [1 .. n -> SUBSET Keys],
                      \A j \in 1 .. i - 1 : f[j] = g[j]
               PROVE  body[<<i, f>>] = body[<<i, g>>]
    BY Zenon DEF Causal
  <2>1. MeantIn(f, i) = MeantIn(g, i)
    BY <1>0, Trees DEF MeantIn
  <2> QED
    BY <2>1
<1>5. PICK f : IsSolution(f, n, SUBSET Keys, body)
  <2> HIDE DEF body, n
  <2>1. body \in Definitions(n, SUBSET Keys) /\ SUBSET Keys # {}
    BY <1>1, <1>3, <1>4 DEF Definitions
  <2> QED
    BY <1>0, <2>1, Recursion
<1>6. f = [i \in Places |-> MeantIn(f, i)]
  BY <1>0, <1>5 DEF IsSolution
<1>7. Meant = [i \in Places |-> MeantIn(Meant, i)]
  BY <1>6 DEF Meant, MeantIn, Places
<1> QED
  BY <1>7

AsksIn(asks, i) ==
    LET e == Expressions[i]
    IN CASE e.kind = "Condition" -> e.on = "Owner"
         [] e.kind \in {"And", "Or"} -> asks[e.left] \/ asks[e.right]
         [] e.kind = "Not" -> asks[e.of]

LEMMA AsksUnfolds ==
    \A i \in Places : AsksOwner[i] = AsksIn(AsksOwner, i)
<1> DEFINE n == Len(Expressions)
           body == [p \in (1 .. n) \X [1 .. n -> BOOLEAN] |-> AsksIn(p[2], p[1])]
<1>0. Places = 1 .. n /\ n \in Nat
  BY ExpressionsAssumption DEF Places
<1>2. ASSUME NEW i \in 1 .. n, NEW f \in [1 .. n -> BOOLEAN]
      PROVE  AsksIn(f, i) \in BOOLEAN
  <2> DEFINE e == Expressions[i]
  <2>1. CASE e.kind = "Condition"
    BY <2>1 DEF AsksIn
  <2>2. CASE e.kind \in {"And", "Or"}
    BY <2>2 DEF AsksIn
  <2>3. CASE e.kind = "Not"
    <3>1. e.of \in 1 .. n
      BY <1>0, <2>3, Trees
    <3> QED
      BY <2>3, <3>1 DEF AsksIn
  <2> QED
    BY <1>0, <2>1, <2>2, <2>3, Trees
<1>3. body \in [(1 .. n) \X [1 .. n -> BOOLEAN] -> BOOLEAN]
  BY <1>2
<1>4. Causal(n, BOOLEAN, body)
  <2> SUFFICES ASSUME NEW i \in 1 .. n, NEW f \in [1 .. n -> BOOLEAN], NEW g \in [1 .. n -> BOOLEAN],
                      \A j \in 1 .. i - 1 : f[j] = g[j]
               PROVE  body[<<i, f>>] = body[<<i, g>>]
    BY Zenon DEF Causal
  <2>1. AsksIn(f, i) = AsksIn(g, i)
    BY <1>0, Trees DEF AsksIn
  <2> QED
    BY <2>1
<1>5. PICK f : IsSolution(f, n, BOOLEAN, body)
  <2> HIDE DEF body, n
  <2>1. body \in Definitions(n, BOOLEAN) /\ BOOLEAN # {}
    BY <1>3, <1>4 DEF Definitions
  <2> QED
    BY <1>0, <2>1, Recursion
<1>6. f = [i \in Places |-> AsksIn(f, i)]
  BY <1>0, <1>5 DEF IsSolution
<1>7. AsksOwner = [i \in Places |-> AsksIn(AsksOwner, i)]
  BY <1>6 DEF AsksOwner, AsksIn, Places
<1> QED
  BY <1>7

(* What an expression finds, and that an entity it is meant to find is there. *)
Exact(i) ==
    \A k \in Keys : ~(AsksOwner[i] /\ GivenAway(k)) =>
        /\ Found[i][k] = IF k \in Meant[i] THEN Times(k, Expressions[i]) ELSE 0
        /\ k \in Meant[i] => Live(k) /\ Times(k, Expressions[i]) \in Nat \ {0}

(* A condition takes its candidates from an index and loses none: an entity   *)
(* with the annotation is listed under its name, one that its creator still   *)
(* has is listed once under this owner and under no other.                    *)
LEMMA ConditionExact ==
    ASSUME MapTypes, AnnotationsIndexed, ListedByCreator,
           NEW i \in Places, Expressions[i].kind = "Condition"
    PROVE  Exact(i)
<1> DEFINE c == Expressions[i]
<1>0. c.on \in ConditionKinds /\ c.kind = "Condition"
  BY Trees
<1>1. Found[i] = FoundByCondition(c)
  BY FoundUnfolds DEF FoundIn
<1>2. Meant[i] = {k \in Keys : Live(k) /\ HasWhat(k, c)}
  BY MeantUnfolds DEF MeantIn
<1> HIDE DEF c
<1>a. c.on = "Owner" => AsksOwner[i]
  BY <1>0, AsksUnfolds DEF AsksIn, c
<1> SUFFICES ASSUME NEW k \in Keys, Live(k), c.on = "Owner" => ~GivenAway(k)
             PROVE  LET n == IF Matches(k, c) THEN Candidates(c)[k] ELSE 0
                    IN /\ n = IF HasWhat(k, c) THEN Times(k, c) ELSE 0
                       /\ HasWhat(k, c) => Times(k, c) \in Nat \ {0}
  BY <1>a, <1>1, <1>2 DEF Exact, FoundByCondition, c
<1>3. entities[k] \in Entities
  BY DEF MapTypes, Live
<1>4. CASE c.on \in {"String", "Number"}
  <2> DEFINE list == entities[k].annotations
             m == Carried(list, IndexOf(c))
  <2>1. list \in AnnotationLists
    BY <1>3 DEF Entities
  <2>2. m \in Nat
    BY <2>1, CarriedType
  <2>3. IndexOf(c) \in Names => annotated[IndexOf(c)][k] = m
    BY DEF AnnotationsIndexed
  <2>4. IndexOf(c) \notin Names => m = 0
    <3>1. {j \in DOMAIN list : list[j].name = IndexOf(c)} = {} \/ IndexOf(c) \in Names
      BY <2>1, ListsAssumption
    <3> QED
      BY <3>1, FS_EmptySet DEF Carried
  <2>5. Candidates(c)[k] = m
    BY <1>4, <2>3, <2>4 DEF Candidates
  <2>6. Times(k, c) = m
    BY <1>0, <1>4 DEF Times
  <2>7. HasWhat(k, c) <=> m > 0 /\ Compare(c.op, First(list, IndexOf(c)), c.value)
    BY <1>4 DEF HasWhat, HasAnnotation
  <2>8. m > 0 => (Matches(k, c) <=> Compare(c.op, First(list, IndexOf(c)), c.value))
    <3>1. Matches(k, c) <=> IF m = 0 THEN c.op = "Ne"
                            ELSE Compare(c.op, First(list, IndexOf(c)), c.value)
      BY <1>4 DEF Matches, MatchesAnnotation
    <3> HIDE DEF m
    <3> QED
      BY <2>2, <3>1
  <2> HIDE DEF m
  <2> QED
    BY <2>2, <2>5, <2>6, <2>7, <2>8
<1>5. CASE c.on = "Owner"
  <2>1. Times(k, c) = 1
    BY <1>5 DEF Times
  <2>2. Matches(k, c) <=> entities[k].owner = c.value
    BY <1>5 DEF Matches
  <2>3. Candidates(c)[k] = IF c.value \in Owners THEN byOwner[c.value][k] ELSE 0
    BY <1>5 DEF Candidates
  <2>4. HasWhat(k, c) <=> entities[k].owner = c.value
    BY <1>5 DEF HasWhat
  <2>5. entities[k].owner \in Owners /\ entities[k].owner = creator[k]
    BY <1>3, <1>5 DEF Entities, GivenAway
  <2> QED
    BY <2>1, <2>2, <2>3, <2>4, <2>5 DEF ListedByCreator
<1>6. CASE c.on \in {"Key", "Expiration"}
  <2>1. Times(k, c) = 1
    BY <1>6 DEF Times
  <2>2. HasWhat(k, c) <=> Matches(k, c)
    BY <1>6 DEF HasWhat, Matches
  <2>3. Matches(k, c) => Candidates(c)[k] = 1
    BY <1>6 DEF Matches, Candidates
  <2> QED
    BY <2>1, <2>2, <2>3
<1> QED
  BY <1>0, <1>4, <1>5, <1>6 DEF ConditionKinds

(* A combination finds what it should if its parts do. *)
LEMMA CombinationExact ==
    ASSUME MapTypes, NEW i \in Places, Expressions[i].kind # "Condition",
           \A j \in 1 .. i - 1 : Exact(j)
    PROVE  Exact(i)
<1> DEFINE e == Expressions[i]
<1> SUFFICES ASSUME NEW k \in Keys, ~(AsksOwner[i] /\ GivenAway(k))
             PROVE  /\ Found[i][k] = IF k \in Meant[i] THEN 1 ELSE 0
                    /\ k \in Meant[i] => Live(k)
  BY DEF Exact, Times
<1>1. ASSUME NEW S PROVE Once(S)[k] = IF k \in S THEN 1 ELSE 0
  BY DEF Once
<1>2. Found[i] = FoundIn(Found, i) /\ Meant[i] = MeantIn(Meant, i)
  BY FoundUnfolds, MeantUnfolds
<1>a. \A j \in PartsOf(e) : j \in 1 .. i - 1 /\ (AsksOwner[j] => AsksOwner[i])
  BY AsksUnfolds, Trees DEF AsksIn, PartsOf
<1>3. \A j \in PartsOf(e) : (Found[j][k] > 0 <=> k \in Meant[j])
                           /\ (Found[j][k] = 0 <=> k \notin Meant[j])
                           /\ (k \in Meant[j] => Live(k))
  BY <1>a DEF Exact
<1>4. CASE e.kind = "And"
  <2>1. e.left \in PartsOf(e) /\ e.right \in PartsOf(e)
    BY <1>4 DEF PartsOf
  <2>2. Found[i][k] = IF Found[e.left][k] > 0 /\ Found[e.right][k] > 0 THEN 1 ELSE 0
    BY <1>1, <1>2, <1>4 DEF FoundIn, FoundByBoth
  <2>3. k \in Meant[i] <=> Live(k) /\ k \in Meant[e.left] /\ k \in Meant[e.right]
    BY <1>2, <1>4 DEF MeantIn
  <2> QED
    BY <1>3, <2>1, <2>2, <2>3
<1>5. CASE e.kind = "Or"
  <2>1. e.left \in PartsOf(e) /\ e.right \in PartsOf(e)
    BY <1>5 DEF PartsOf
  <2>2. Found[i][k] = IF Found[e.left][k] > 0 \/ Found[e.right][k] > 0 THEN 1 ELSE 0
    BY <1>1, <1>2, <1>5 DEF FoundIn, FoundByEither
  <2>3. k \in Meant[i] <=> Live(k) /\ (k \in Meant[e.left] \/ k \in Meant[e.right])
    BY <1>2, <1>5 DEF MeantIn
  <2> QED
    BY <1>3, <2>1, <2>2, <2>3
<1>6. CASE e.kind = "Not"
  <2>1. e.of \in PartsOf(e)
    BY <1>6 DEF PartsOf
  <2>2. Found[i][k] = IF Live(k) /\ Found[e.of][k] = 0 THEN 1 ELSE 0
    BY <1>1, <1>2, <1>6 DEF FoundIn, FoundByNot
  <2>3. k \in Meant[i] <=> Live(k) /\ k \notin Meant[e.of]
    BY <1>2, <1>6 DEF MeantIn
  <2> QED
    BY <1>3, <2>1, <2>2, <2>3
<1> QED
  BY <1>4, <1>5, <1>6, Trees

LEMMA AllExact ==
    ASSUME MapTypes, AnnotationsIndexed, ListedByCreator
    PROVE  QueriesExact
<1> DEFINE bad == {i \in Places : ~Exact(i)}
<1>1. bad = {}
  <2> SUFFICES ASSUME bad # {} PROVE FALSE
    OBVIOUS
  <2>1. Places = 1 .. Len(Expressions) /\ Len(Expressions) \in Nat
    BY ExpressionsAssumption DEF Places
  <2>2. bad \in SUBSET Nat /\ bad \subseteq Places
    BY <2>1
  <2>3. PICK i \in bad : \A j \in bad : i <= j
    <3> HIDE DEF bad
    <3> QED
      BY <2>2, LeastNatural
  <2>4. \A j \in 1 .. i - 1 : Exact(j)
    BY <2>1, <2>3
  <2> QED
    BY <2>3, <2>4, ConditionExact, CombinationExact
<1> QED
  BY <1>1 DEF QueriesExact, Exact, Places

(* A query finds the entities it holds for and no others, whatever was       *)
(* updated, given away or removed before, and however conditions are         *)
(* combined; one with a condition on the owner does so among the entities    *)
(* that their creators have.                                                 *)
THEOREM QueriesAreExact == Spec => []QueriesExact
<1>1. Complete => MapTypes /\ AnnotationsIndexed
  BY DEF Complete, IInv, StoreType, IndexInv, MapTypes
<1>2. Complete /\ ListedByCreator => QueriesExact
  BY <1>1, AllExact
<1> QED
  BY <1>2, CompleteInvariant, ListedInvariant, PTL
================================================================================
