----------------------------- MODULE MockNode_proofs -----------------------------
(* Theorems about MockNode, for any number of senders, payloads, nonces and *)
(* outside calls and every size of a batch.                                 *)
EXTENDS MockNode, FiniteSetTheorems, SequenceTheorems, TLAPS

Own(b, s) == {t \in b : t.from = s}

(* A block has at most one transaction for each nonce of a sender. *)
Distinct(b) == \A t, u \in b : t.from = u.from /\ t.nonce = u.nonce => t = u

(* The nonces of a sender in a block are a run that begins with n. *)
Run(b, s, n) ==
    \A t \in Own(b, s) :
        /\ t.nonce >= n
        /\ \A m \in n .. t.nonce : \E u \in Own(b, s) : u.nonce = m

Below(b, s, t) == {u \in Own(b, s) : u.nonce < t.nonce}

--------------------------------------------------------------------------------
(* The place that FromSender gives to a transaction of such a run is the one *)
(* its nonce says.                                                           *)
LEMMA PlaceInRun ==
    ASSUME NEW b \in SUBSET Transactions, NEW s \in Senders, NEW n \in Nat,
           Distinct(b), Run(b, s, n)
    PROVE  /\ IsFiniteSet(Own(b, s))
           /\ Cardinality(Own(b, s)) \in Nat
           /\ \A t \in Own(b, s) :
                /\ Cardinality(Below(b, s, t)) = t.nonce - n
                /\ t.nonce - n + 1 \in 1 .. Cardinality(Own(b, s))
<1>1. \A t \in Own(b, s) : t.nonce \in 0 .. MaxNonce /\ t.nonce \in Nat /\ t.from = s /\ t \in b
  BY DEF Own, Transactions
<1>2. IsFiniteSet(Own(b, s)) /\ Cardinality(Own(b, s)) \in Nat
  <2> DEFINE f == [t \in Own(b, s) |-> t.nonce]
  <2>1. f \in Injection(Own(b, s), 0 .. MaxNonce)
    BY <1>1 DEF Injection, IsInjective, Distinct
  <2>2. IsFiniteSet(0 .. MaxNonce)
    BY BoundsAssumption, FS_Interval
  <2>3. IsFiniteSet(Own(b, s))
    BY <2>1, <2>2, FS_Injection
  <2> QED
    BY <2>3, FS_CardinalityType
<1>3. ASSUME NEW t \in Own(b, s)
      PROVE  /\ Cardinality(Below(b, s, t)) = t.nonce - n
             /\ t.nonce - n + 1 \in 1 .. Cardinality(Own(b, s))
  <2> DEFINE g == [u \in Below(b, s, t) |-> u.nonce]
  <2>1. Below(b, s, t) \in SUBSET Own(b, s)
    BY DEF Below
  <2>2. IsFiniteSet(Below(b, s, t)) /\ Cardinality(Below(b, s, t)) \in Nat
    BY <1>2, <2>1, FS_Subset, FS_CardinalityType
  <2>3. t.nonce \in Nat /\ t.nonce >= n
    BY <1>1 DEF Run
  <2>4. \A u \in Below(b, s, t) : u.nonce \in n .. t.nonce - 1
    BY <1>1, <2>1, <2>3 DEF Below, Run
  <2>5. g \in [Below(b, s, t) -> n .. t.nonce - 1]
    BY <2>4
  <2>6. \A u, v \in Below(b, s, t) : g[u] = g[v] => u = v
    BY <1>1, <2>1 DEF Distinct
  <2>7. \A m \in n .. t.nonce - 1 : \E u \in Below(b, s, t) : g[u] = m
    <3> SUFFICES ASSUME NEW m \in n .. t.nonce - 1
                 PROVE  \E u \in Below(b, s, t) : u.nonce = m
      OBVIOUS
    <3>1. m \in n .. t.nonce /\ m < t.nonce
      BY <2>3
    <3> QED
      BY <3>1 DEF Run, Below
  <2>8. g \in Bijection(Below(b, s, t), n .. t.nonce - 1)
    BY <2>5, <2>6, <2>7 DEF Bijection, Injection, Surjection, IsInjective
  <2>9. Cardinality(n .. t.nonce - 1) = Cardinality(Below(b, s, t))
    BY <2>2, <2>8, FS_Bijection DEF ExistsBijection
  <2>10. Cardinality(n .. t.nonce - 1) = t.nonce - n
    <3>1. n \in Int /\ t.nonce - 1 \in Int
      BY <2>3
    <3>2. Cardinality(n .. t.nonce - 1) =
            IF n > t.nonce - 1 THEN 0 ELSE (t.nonce - 1) - n + 1
      BY <3>1, FS_Interval
    <3> QED
      BY <2>3, <3>2
  <2>11. t \notin Below(b, s, t) /\ Below(b, s, t) \union {t} \in SUBSET Own(b, s)
    BY <2>1, <2>3 DEF Below
  <2>12. Cardinality(Below(b, s, t) \union {t}) = Cardinality(Below(b, s, t)) + 1
    BY <2>2, <2>11, FS_AddElement
  <2>13. Cardinality(Below(b, s, t) \union {t}) <= Cardinality(Own(b, s))
    BY <1>2, <2>11, FS_Subset
  <2> QED
    BY <1>2, <2>3, <2>9, <2>10, <2>12, <2>13
<1> QED
  BY <1>2, <1>3

(* No place stays empty. *)
LEMMA PlacesTaken ==
    ASSUME NEW b \in SUBSET Transactions, NEW s \in Senders, NEW n \in Nat,
           Distinct(b), Run(b, s, n),
           NEW i \in 1 .. Cardinality(Own(b, s))
    PROVE  \E t \in Own(b, s) : t.nonce = n + i - 1
<1> SUFFICES ASSUME \A t \in Own(b, s) : t.nonce # n + i - 1 PROVE FALSE
  OBVIOUS
<1> DEFINE g == [u \in Own(b, s) |-> u.nonce]
<1>1. \A t \in Own(b, s) : t.nonce \in Nat /\ t.from = s /\ t \in b
  BY DEF Own, Transactions
<1>2. i \in Nat /\ i >= 1 /\ Cardinality(Own(b, s)) \in Nat /\ i <= Cardinality(Own(b, s))
  BY PlaceInRun
<1>3. \A t \in Own(b, s) : t.nonce \in n .. n + i - 2
  <2> SUFFICES ASSUME NEW t \in Own(b, s) PROVE t.nonce \in n .. n + i - 2
    OBVIOUS
  <2>1. t.nonce >= n /\ t.nonce \in Nat
    BY <1>1 DEF Run
  <2>2. t.nonce < n + i - 1
    <3> SUFFICES ASSUME t.nonce >= n + i - 1 PROVE FALSE
      BY <1>2, <2>1
    <3>1. n + i - 1 \in n .. t.nonce
      BY <1>2, <2>1
    <3> QED
      BY <3>1 DEF Run
  <2> QED
    BY <1>2, <2>1, <2>2
<1>4. g \in Injection(Own(b, s), n .. n + i - 2)
  BY <1>1, <1>3 DEF Injection, IsInjective, Distinct
<1>5. n \in Int /\ n + i - 2 \in Int
  BY <1>2
<1>6. /\ IsFiniteSet(n .. n + i - 2)
      /\ Cardinality(n .. n + i - 2) = IF n > n + i - 2 THEN 0 ELSE (n + i - 2) - n + 1
  BY <1>5, FS_Interval
<1>7. Cardinality(Own(b, s)) <= Cardinality(n .. n + i - 2)
  BY <1>4, <1>6, FS_Injection
<1> QED
  BY <1>2, <1>6, <1>7

(* FromSender lists the transactions of a run by their nonces. *)
LEMMA FromSenderInOrder ==
    ASSUME NEW b \in SUBSET Transactions, NEW s \in Senders, NEW n \in Nat,
           Distinct(b), Run(b, s, n)
    PROVE  /\ FromSender(b, s) \in Seq(Transactions)
           /\ \A i \in 1 .. Len(FromSender(b, s)) :
                /\ FromSender(b, s)[i] \in Own(b, s)
                /\ FromSender(b, s)[i].nonce = n + i - 1
           /\ \A t \in Own(b, s) : \E i \in 1 .. Len(FromSender(b, s)) : FromSender(b, s)[i] = t
<1> DEFINE k == Cardinality(Own(b, s))
           At(i) == CHOOSE t \in Own(b, s) : Cardinality(Below(b, s, t)) + 1 = i
<1>1. FromSender(b, s) = [i \in 1 .. k |-> At(i)]
  BY DEF FromSender, Own, Below
<1>2. k \in Nat
  BY PlaceInRun
<1>3. \A t \in Own(b, s) : t \in Transactions /\ t.nonce \in Nat /\ t.from = s /\ t \in b
  BY DEF Own, Transactions
<1>4. ASSUME NEW i \in 1 .. k
      PROVE  At(i) \in Own(b, s) /\ At(i).nonce = n + i - 1
  <2>1. PICK t \in Own(b, s) : t.nonce = n + i - 1
    BY PlacesTaken
  <2>2. Cardinality(Below(b, s, t)) + 1 = i
    BY <1>2, <2>1, PlaceInRun
  <2>3. At(i) \in Own(b, s) /\ Cardinality(Below(b, s, At(i))) + 1 = i
    BY <2>2
  <2> HIDE DEF At
  <2>4. Cardinality(Below(b, s, At(i))) = At(i).nonce - n
    BY <2>3, PlaceInRun
  <2>5. At(i).nonce \in Nat
    BY <1>3, <2>3
  <2> QED
    BY <1>2, <2>3, <2>4, <2>5
<1>5. ASSUME NEW t \in Own(b, s)
      PROVE  \E i \in 1 .. k : At(i) = t
  <2>1. t.nonce - n + 1 \in 1 .. k
    BY PlaceInRun
  <2>2. At(t.nonce - n + 1) \in Own(b, s) /\ At(t.nonce - n + 1).nonce = n + (t.nonce - n + 1) - 1
    BY <1>4, <2>1
  <2> HIDE DEF At, k
  <2>3. At(t.nonce - n + 1).nonce = t.nonce
    BY <1>3, <2>2
  <2>4. At(t.nonce - n + 1) = t
    BY <1>3, <2>2, <2>3 DEF Distinct
  <2> QED
    BY <2>1, <2>4
<1> HIDE DEF At, k
<1>6. FromSender(b, s) \in [1 .. k -> Transactions]
  BY <1>1, <1>3, <1>4
<1>7. FromSender(b, s) \in Seq(Transactions) /\ Len(FromSender(b, s)) = k
  BY <1>1, <1>2, <1>6
<1>8. \A i \in 1 .. k : FromSender(b, s)[i] = At(i)
  BY <1>1
<1>9. \A i \in 1 .. k : FromSender(b, s)[i] \in Own(b, s) /\ FromSender(b, s)[i].nonce = n + i - 1
  BY <1>4, <1>8
<1>10. \A t \in Own(b, s) : \E i \in 1 .. k : FromSender(b, s)[i] = t
  BY <1>5, <1>8
<1> QED
  BY <1>7, <1>9, <1>10

--------------------------------------------------------------------------------
(* The inductive invariant: the block being made carries a run of nonces of  *)
(* each sender, from the sender's account nonce on unless the chain was      *)
(* reset under it, and what is still to be removed from the pool is in it.   *)
BlockInv ==
    /\ miner \in {"idle", "filter"} => block = {}
    /\ miner # "remove" => toRemove = {}
    /\ Distinct(block)
    /\ \A s \in Senders : \E n \in Nat : Run(block, s, n)
    /\ NeverReset => \A s \in Senders : Run(block, s, nonces[s])

ResetInv ==
    /\ budget["reset"] <= Budget["reset"]
    /\ resetting => ~NeverReset

IInv == TypeOK /\ BlockInv /\ ResetInv /\ NoncesInOrder

LEMMA InitIInv == Init => IInv
<1> SUFFICES ASSUME Init PROVE IInv
  OBVIOUS
<1>1. <<>> \in Seq(Transactions) /\ Len(<<>>) = 0
  BY EmptySeq
<1>2. TypeOK
  BY <1>1, BoundsAssumption DEF Init, TypeOK
<1>3. BlockInv
  BY DEF Init, BlockInv, Distinct, Run, Own
<1>4. ResetInv
  BY BoundsAssumption DEF Init, ResetInv, OutsideCalls
<1>5. NoncesInOrder
  BY <1>1 DEF Init, NoncesInOrder
<1> QED
  BY <1>2, <1>3, <1>4, <1>5 DEF IInv

(* What the filter selects is a run from the account's nonce on. *)
LEMMA SelectionsAreRuns ==
    ASSUME TypeOK, NEW b \in SUBSET Transactions, NEW c \in Selections(b)
    PROVE  /\ c \in SUBSET Transactions
           /\ Distinct(c)
           /\ \A s \in Senders : nonces[s] \in Nat /\ Run(c, s, nonces[s])
<1>1. c \in SUBSET Transactions /\ Distinct(c)
  BY DEF Selections, Distinct
<1>2. ASSUME NEW s \in Senders
      PROVE  nonces[s] \in Nat /\ Run(c, s, nonces[s])
  <2>1. nonces[s] \in Nat
    BY DEF TypeOK
  <2>2. ASSUME NEW t \in Own(c, s), NEW m \in nonces[s] .. t.nonce
        PROVE  \E u \in Own(c, s) : u.nonce = m
    <3>1. t.from = s /\ t.nonce \in 0 .. MaxNonce /\ t \in c
      BY <1>1 DEF Own, Transactions
    <3>2. t.nonce \in Continues(b, s)
      BY <3>1 DEF Selections
    <3>3. m \in 0 .. MaxNonce /\ m >= nonces[s] /\ m <= t.nonce
      BY <2>1, <3>1, BoundsAssumption
    <3>4. m \in Continues(b, s)
      BY <2>1, <3>1, <3>2, <3>3 DEF Continues
    <3> QED
      BY <3>3, <3>4 DEF Selections, Own
  <2>3. \A t \in Own(c, s) : t.nonce >= nonces[s]
    BY DEF Own, Selections
  <2> QED
    BY <2>1, <2>2, <2>3 DEF Run
<1> QED
  BY <1>1, <1>2

(* What add_block makes of account nonces and chain. *)
LEMMA AddedInOrder ==
    ASSUME IInv, AddBlock, NEW s \in Senders
    PROVE  /\ FromSender(block, s) \in Seq(Transactions)
           /\ mined[s] \in Seq(Transactions)
           /\ mined'[s] = mined[s] \o FromSender(block, s)
           /\ nonces'[s] = nonces[s] + Len(FromSender(block, s))
           /\ nonces'[s] \in Nat
           /\ NeverReset => /\ nonces'[s] = Len(mined'[s])
                            /\ \A i \in 1 .. Len(mined'[s]) : mined'[s][i].nonce = i - 1
<1> DEFINE added == FromSender(block, s)
<1>1. block \in SUBSET Transactions /\ Distinct(block)
  BY DEF IInv, TypeOK, BlockInv
<1>2. added \in Seq(Transactions)
  <2>1. PICK n \in Nat : Run(block, s, n)
    BY DEF IInv, BlockInv
  <2> QED
    BY <1>1, <2>1, FromSenderInOrder
<1>3. mined[s] \in Seq(Transactions) /\ nonces[s] \in Nat
  BY DEF IInv, TypeOK
<1>4. mined'[s] = mined[s] \o added /\ nonces'[s] = nonces[s] + Len(added)
  BY DEF AddBlock
<1>5. Len(added) \in Nat
  BY <1>2, LenProperties
<1>6. ASSUME NeverReset
      PROVE  /\ nonces'[s] = Len(mined'[s])
             /\ \A i \in 1 .. Len(mined'[s]) : mined'[s][i].nonce = i - 1
  <2>1. Run(block, s, nonces[s])
    BY <1>6 DEF IInv, BlockInv
  <2>2. \A i \in 1 .. Len(added) : added[i].nonce = nonces[s] + i - 1
    BY <1>1, <1>3, <2>1, FromSenderInOrder
  <2>3. nonces[s] = Len(mined[s]) /\ \A i \in 1 .. Len(mined[s]) : mined[s][i].nonce = i - 1
    BY <1>6 DEF IInv, NoncesInOrder
  <2> HIDE DEF added
  <2>4. /\ Len(mined[s] \o added) = Len(mined[s]) + Len(added)
        /\ \A i \in 1 .. Len(mined[s]) + Len(added) : (mined[s] \o added)[i] =
                IF i <= Len(mined[s]) THEN mined[s][i] ELSE added[i - Len(mined[s])]
    BY <1>2, <1>3, ConcatProperties
  <2>5. ASSUME NEW i \in 1 .. Len(mined[s]) + Len(added)
        PROVE  (mined[s] \o added)[i].nonce = i - 1
    <3>1. CASE i <= Len(mined[s])
      BY <1>3, <1>5, <2>3, <2>4, <3>1
    <3>2. CASE i > Len(mined[s])
      <4>1. i - Len(mined[s]) \in 1 .. Len(added)
        BY <1>3, <1>5, <2>3, <3>2
      <4>2. added[i - Len(mined[s])].nonce = nonces[s] + (i - Len(mined[s])) - 1
        BY <2>2, <4>1
      <4>3. (mined[s] \o added)[i] = added[i - Len(mined[s])]
        BY <1>3, <1>5, <2>3, <2>4, <3>2
      <4> QED
        BY <1>3, <2>3, <4>2, <4>3
    <3> QED
      BY <1>3, <1>5, <2>3, <3>1, <3>2
  <2> QED
    BY <1>4, <2>3, <2>4, <2>5
<1>7. nonces'[s] \in Nat
  BY <1>3, <1>4, <1>5
<1> QED
  BY <1>2, <1>3, <1>4, <1>6, <1>7

(* An action that leaves the block, the chain and the resets alone keeps all *)
(* of the invariant but the types.                                           *)
LEMMA Untouched ==
    ASSUME IInv, TypeOK', UNCHANGED <<block, toRemove, nonces, mined, resetting>>,
           budget'["reset"] = budget["reset"],
           miner' \in {"idle", "filter"} => block = {},
           miner' # "remove" => toRemove = {}
    PROVE  IInv'
<1>1. NeverReset' = NeverReset
  BY DEF NeverReset
<1>2. BlockInv'
  BY <1>1 DEF IInv, BlockInv, Distinct, Run, Own
<1>3. ResetInv'
  BY <1>1 DEF IInv, ResetInv
<1>4. NoncesInOrder'
  BY <1>1 DEF IInv, NoncesInOrder
<1> QED
  BY <1>2, <1>3, <1>4 DEF IInv

LEMMA Spending ==
    ASSUME TypeOK, NEW kind \in OutsideCalls, Spend(kind)
    PROVE  /\ budget' \in [OutsideCalls -> Nat]
           /\ budget'[kind] = budget[kind] - 1
           /\ \A k \in OutsideCalls \ {kind} : budget'[k] = budget[k]
BY DEF TypeOK, Spend

LEMMA RpcStepIInv == IInv /\ RpcStep => IInv'
<1> SUFFICES ASSUME IInv, RpcStep PROVE IInv'
  OBVIOUS
<1>1. TypeOK /\ (miner \in {"idle", "filter"} => block = {}) /\ (miner # "remove" => toRemove = {})
  BY DEF IInv, BlockInv
<1>2. ASSUME NEW tx \in Transactions, Validate(tx) PROVE IInv'
  <2>1. budget' \in [OutsideCalls -> Nat] /\ budget'["reset"] = budget["reset"]
    BY <1>1, <1>2, Spending DEF Validate, OutsideCalls
  <2>2. TypeOK'
    BY <1>1, <1>2, <2>1 DEF Validate, TypeOK, minerVars, chainVars
  <2> QED
    BY <1>1, <1>2, <2>1, <2>2, Untouched DEF Validate, minerVars, chainVars
<1>3. ASSUME NEW tx \in Transactions, AddTransaction(tx) PROVE IInv'
  <2>1. TypeOK'
    BY <1>1, <1>3 DEF AddTransaction, TypeOK, minerVars, chainVars
  <2> QED
    BY <1>1, <1>3, <2>1, Untouched DEF AddTransaction, minerVars, chainVars
<1>4. CASE Hold
  <2>1. budget' \in [OutsideCalls -> Nat] /\ budget'["reset"] = budget["reset"]
    BY <1>1, <1>4, Spending DEF Hold, OutsideCalls
  <2>2. TypeOK'
    BY <1>1, <1>4, <2>1 DEF Hold, TypeOK, minerVars, chainVars
  <2> QED
    BY <1>1, <1>4, <2>1, <2>2, Untouched DEF Hold, minerVars, chainVars
<1>5. CASE Release
  <2>1. TypeOK'
    BY <1>1, <1>5 DEF Release, TypeOK, minerVars, chainVars
  <2> QED
    BY <1>1, <1>5, <2>1, Untouched DEF Release, minerVars, chainVars
<1> QED
  BY <1>2, <1>3, <1>4, <1>5 DEF RpcStep

LEMMA FilterBatchIInv == IInv /\ FilterBatch => IInv'
<1> SUFFICES ASSUME IInv, FilterBatch PROVE IInv'
  OBVIOUS
<1>1. TypeOK /\ batch \in SUBSET Transactions /\ block' \in Selections(batch)
  BY DEF IInv, TypeOK, FilterBatch
<1>2. /\ block' \in SUBSET Transactions
      /\ Distinct(block')
      /\ \A s \in Senders : nonces[s] \in Nat /\ Run(block', s, nonces[s])
  BY <1>1, SelectionsAreRuns
<1>3. TypeOK'
  BY <1>1, <1>2 DEF FilterBatch, TypeOK, chainVars
<1>4. NeverReset' = NeverReset /\ nonces' = nonces /\ mined' = mined
  BY DEF FilterBatch, NeverReset, chainVars
<1>5. BlockInv'
  <2>1. Distinct(block)' /\ \A s \in Senders : Run(block, s, nonces[s])'
    BY <1>2, <1>4 DEF Distinct, Run, Own
  <2>2. \A s \in Senders : \E n \in Nat : Run(block, s, n)'
    BY <1>2 DEF Run, Own
  <2>3. miner' = "remove"
    BY DEF FilterBatch
  <2> QED
    BY <2>1, <2>2, <2>3 DEF BlockInv
<1>6. ResetInv'
  BY <1>4 DEF FilterBatch, IInv, ResetInv
<1>7. NoncesInOrder'
  BY <1>4 DEF IInv, NoncesInOrder
<1> QED
  BY <1>3, <1>5, <1>6, <1>7 DEF IInv

LEMMA AddBlockIInv == IInv /\ AddBlock => IInv'
<1> SUFFICES ASSUME IInv, AddBlock PROVE IInv'
  OBVIOUS
<1>1. NeverReset' = NeverReset /\ block' = {} /\ toRemove' = {} /\ miner' = "idle"
  BY DEF AddBlock, NeverReset, IInv, BlockInv
<1>2. TypeOK'
  <2>1. mined' \in [Senders -> Seq(Transactions)]
    <3>1. ASSUME NEW s \in Senders
          PROVE  mined[s] \o FromSender(block, s) \in Seq(Transactions)
      BY AddedInOrder, ConcatProperties
    <3> QED
      BY <3>1 DEF AddBlock
  <2>2. nonces' \in [Senders -> Nat]
    <3>1. ASSUME NEW s \in Senders
          PROVE  nonces[s] + Len(FromSender(block, s)) \in Nat
      BY AddedInOrder
    <3> QED
      BY <3>1 DEF AddBlock
  <2> QED
    BY <1>1, <2>1, <2>2 DEF AddBlock, IInv, TypeOK
<1>3. BlockInv'
  BY <1>1 DEF BlockInv, Distinct, Run, Own
<1>4. ResetInv'
  BY <1>1 DEF AddBlock, IInv, ResetInv
<1>5. NoncesInOrder'
  <2>1. ASSUME NeverReset, NEW s \in Senders
        PROVE  /\ nonces'[s] = Len(mined'[s])
               /\ \A i \in 1 .. Len(mined'[s]) : mined'[s][i].nonce = i - 1
    BY <2>1, AddedInOrder
  <2> QED
    BY <1>1, <2>1 DEF NoncesInOrder
<1> QED
  BY <1>2, <1>3, <1>4, <1>5 DEF IInv

LEMMA MinerStepIInv == IInv /\ MinerStep => IInv'
<1> SUFFICES ASSUME IInv, MinerStep PROVE IInv'
  OBVIOUS
<1>1. TypeOK /\ (miner \in {"idle", "filter"} => block = {}) /\ (miner # "remove" => toRemove = {})
  BY DEF IInv, BlockInv
<1>2. CASE TakeBatch
  <2>1. batch' \subseteq Transactions
    BY <1>1, <1>2 DEF TakeBatch, Batches, TypeOK
  <2>2. TypeOK'
    BY <1>1, <1>2, <2>1 DEF TakeBatch, TypeOK, chainVars
  <2> QED
    BY <1>1, <1>2, <2>2, Untouched DEF TakeBatch, chainVars
<1>3. ASSUME NEW tx \in toRemove, RemoveFromPool(tx) PROVE IInv'
  <2>1. TypeOK'
    BY <1>1, <1>3 DEF RemoveFromPool, TypeOK, chainVars
  <2>2. miner' = "remove" /\ NeverReset' = NeverReset
    BY <1>3 DEF RemoveFromPool, NeverReset
  <2>3. BlockInv'
    BY <1>3, <2>2 DEF RemoveFromPool, IInv, BlockInv, Distinct, Run, Own, chainVars
  <2>4. ResetInv' /\ NoncesInOrder'
    BY <1>3, <2>2 DEF RemoveFromPool, IInv, ResetInv, NoncesInOrder, chainVars
  <2> QED
    BY <2>1, <2>3, <2>4 DEF IInv
<1>4. CASE Removed
  <2>1. TypeOK'
    BY <1>1, <1>4 DEF Removed, TypeOK, chainVars
  <2> QED
    BY <1>1, <1>4, <2>1, Untouched DEF Removed, chainVars
<1> QED
  BY <1>2, <1>3, <1>4, FilterBatchIInv, AddBlockIInv DEF MinerStep

LEMMA ResetIInv == IInv /\ (ResetPool \/ ResetChain) => IInv'
<1> SUFFICES ASSUME IInv, ResetPool \/ ResetChain PROVE IInv'
  OBVIOUS
<1>1. CASE ResetPool
  <2>1. budget' \in [OutsideCalls -> Nat] /\ budget'["reset"] = budget["reset"] - 1
    BY <1>1, Spending DEF IInv, ResetPool, OutsideCalls
  <2>2. budget["reset"] \in Nat /\ budget["reset"] <= Budget["reset"] /\ Budget["reset"] \in Nat
    BY BoundsAssumption DEF IInv, TypeOK, ResetInv, OutsideCalls
  <2>3. ~NeverReset'
    BY <2>1, <2>2 DEF NeverReset
  <2>4. TypeOK'
    BY <1>1, <2>1 DEF ResetPool, IInv, TypeOK, minerVars, chainVars
  <2>5. BlockInv'
    BY <1>1, <2>3 DEF ResetPool, IInv, BlockInv, Distinct, Run, Own, minerVars
  <2>6. ResetInv' /\ NoncesInOrder'
    BY <2>1, <2>2, <2>3 DEF ResetInv, NoncesInOrder
  <2> QED
    BY <2>4, <2>5, <2>6 DEF IInv
<1>2. CASE ResetChain
  <2>1. ~NeverReset' /\ budget' = budget
    BY <1>2 DEF ResetChain, IInv, ResetInv, NeverReset
  <2>2. <<>> \in Seq(Transactions)
    BY EmptySeq
  <2>3. TypeOK'
    BY <1>2, <2>2 DEF ResetChain, IInv, TypeOK, minerVars
  <2>4. BlockInv'
    BY <1>2, <2>1 DEF ResetChain, IInv, BlockInv, Distinct, Run, Own, minerVars
  <2>5. ResetInv' /\ NoncesInOrder'
    BY <1>2, <2>1 DEF ResetChain, IInv, ResetInv, NoncesInOrder
  <2> QED
    BY <2>3, <2>4, <2>5 DEF IInv
<1> QED
  BY <1>1, <1>2

LEMMA NextIInv == IInv /\ [Next]_vars => IInv'
<1> SUFFICES ASSUME IInv, [Next]_vars PROVE IInv'
  OBVIOUS
<1>1. CASE UNCHANGED vars
  <2>1. TypeOK'
    BY <1>1 DEF IInv, TypeOK, vars, minerVars, chainVars
  <2>2. (miner \in {"idle", "filter"} => block = {}) /\ (miner # "remove" => toRemove = {})
    BY DEF IInv, BlockInv
  <2> QED
    BY <1>1, <2>1, <2>2, Untouched DEF vars, minerVars, chainVars
<1> QED
  BY <1>1, RpcStepIInv, MinerStepIInv, ResetIInv DEF Next

LEMMA Invariance == Spec => []IInv
  BY InitIInv, NextIInv, PTL DEF Spec

--------------------------------------------------------------------------------
(* The node's state always has its types: among them that whatever is still  *)
(* to be removed from the pool is in the block, and that the chain holds     *)
(* transactions of the pool and nothing else.                                *)
THEOREM TypeCorrect == Spec => []TypeOK
<1>1. IInv => TypeOK
  BY DEF IInv
<1> QED
  BY <1>1, Invariance, PTL

(* Until the chain is reset the transactions of every account are mined in   *)
(* the order of their nonces, without gaps or repetitions, and its nonce is  *)
(* their number, although add_block only counts them.                        *)
THEOREM MinedInOrder == Spec => []NoncesInOrder
<1>1. IInv => NoncesInOrder
  BY DEF IInv
<1> QED
  BY <1>1, Invariance, PTL

(* What is in the chain stays there when a block is added, and what was in   *)
(* the block gets there.                                                     *)
LEMMA AddedIsKnown ==
    ASSUME IInv, AddBlock, NEW tx \in Transactions, Known(tx)
    PROVE  Known(tx)'
<1> DEFINE s == tx.from
           added == FromSender(block, tx.from)
<1>1. s \in Senders
  BY DEF Transactions
<1>2. added \in Seq(Transactions) /\ mined[s] \in Seq(Transactions) /\ mined'[s] = mined[s] \o added
  BY <1>1, AddedInOrder
<1>3. block \in SUBSET Transactions /\ Distinct(block)
  BY DEF IInv, TypeOK, BlockInv
<1>4. tx \in block => \E i \in 1 .. Len(added) : added[i] = tx
  <2>1. PICK n \in Nat : Run(block, s, n)
    BY <1>1 DEF IInv, BlockInv
  <2>2. tx \in block => tx \in Own(block, s)
    BY DEF Own
  <2> QED
    BY <1>1, <1>3, <2>1, <2>2, FromSenderInOrder
<1> HIDE DEF added
<1>5. Len(added) \in Nat /\ Len(mined[s]) \in Nat /\ DOMAIN mined[s] = 1 .. Len(mined[s])
  BY <1>2, LenProperties
<1>6. /\ mined'[s] \in Seq(Transactions)
      /\ Len(mined'[s]) = Len(mined[s]) + Len(added)
      /\ \A i \in 1 .. Len(mined[s]) + Len(added) : mined'[s][i] =
            IF i <= Len(mined[s]) THEN mined[s][i] ELSE added[i - Len(mined[s])]
  BY <1>2, ConcatProperties
<1>7. DOMAIN mined'[s] = 1 .. Len(mined[s]) + Len(added)
  BY <1>6, LenProperties
<1>8. CASE tx \in pool
  BY <1>8 DEF AddBlock, Known
<1>9. CASE tx \in block
  <2>1. PICK i \in 1 .. Len(added) : added[i] = tx
    BY <1>4, <1>9
  <2>2. Len(mined[s]) + i \in 1 .. Len(mined[s]) + Len(added)
    BY <1>5
  <2>3. ~(Len(mined[s]) + i <= Len(mined[s])) /\ (Len(mined[s]) + i) - Len(mined[s]) = i
    BY <1>5
  <2>4. mined'[s][Len(mined[s]) + i] = added[(Len(mined[s]) + i) - Len(mined[s])]
    BY <1>6, <2>2, <2>3
  <2>5. mined'[s][Len(mined[s]) + i] = tx
    BY <2>1, <2>3, <2>4
  <2> QED
    BY <1>7, <2>2, <2>5 DEF Known, InChain
<1>10. CASE InChain(tx)
  <2>1. PICK i \in 1 .. Len(mined[s]) : mined[s][i] = tx
    BY <1>5, <1>10 DEF InChain
  <2>2. i \in 1 .. Len(mined[s]) + Len(added) /\ mined'[s][i] = tx
    BY <1>5, <1>6, <2>1
  <2> QED
    BY <1>7, <2>2 DEF Known, InChain
<1> QED
  BY <1>8, <1>9, <1>10 DEF Known

LEMMA StepLosesNothing ==
    ASSUME IInv, [Next]_vars, NeverReset', NEW tx \in Transactions, Known(tx)
    PROVE  Known(tx)'
<1>1. ASSUME NEW t \in Transactions, Validate(t) \/ AddTransaction(t) PROVE Known(tx)'
  BY <1>1 DEF Validate, AddTransaction, Known, InChain, minerVars, chainVars
<1>2. CASE Hold \/ Release
  BY <1>2 DEF Hold, Release, Known, InChain, minerVars, chainVars
<1>3. CASE TakeBatch \/ Removed
  BY <1>3 DEF TakeBatch, Removed, Known, InChain, chainVars
<1>4. CASE FilterBatch
  BY <1>4 DEF FilterBatch, Known, InChain, chainVars, IInv, BlockInv
<1>5. ASSUME NEW t \in toRemove, RemoveFromPool(t) PROVE Known(tx)'
  BY <1>5 DEF RemoveFromPool, Known, InChain, chainVars, IInv, TypeOK
<1>6. CASE AddBlock
  BY <1>6, AddedIsKnown
<1>7. ~ResetPool
  <2> SUFFICES ASSUME ResetPool PROVE FALSE
    OBVIOUS
  <2>1. budget'["reset"] = budget["reset"] - 1
    BY Spending DEF IInv, ResetPool, OutsideCalls
  <2> QED
    BY <2>1, BoundsAssumption DEF IInv, TypeOK, ResetInv, NeverReset, OutsideCalls
<1>8. ~ResetChain
  BY DEF ResetChain, IInv, ResetInv, NeverReset
<1>9. CASE UNCHANGED vars
  BY <1>9 DEF vars, Known, InChain, minerVars, chainVars
<1> QED
  BY <1>1, <1>2, <1>3, <1>4, <1>5, <1>6, <1>7, <1>8, <1>9 DEF Next, RpcStep, MinerStep

(* A transaction in the pool, in the block being made or in the chain is     *)
(* never dropped: what the miner takes from the pool before it adds the      *)
(* block is what the block is made of.                                       *)
THEOREM NothingIsLost == Spec => NothingLost
<1>1. IInv /\ [Next]_vars => [NeverReset' => \A tx \in Transactions : Known(tx) => Known(tx)']_vars
  BY StepLosesNothing
<1> QED
  BY <1>1, Invariance, PTL DEF Spec, NothingLost

--------------------------------------------------------------------------------
(* To its clients the mock is a node that makes a block in one step (Ledger). *)
(* For that the batch has to be of the pool when it is filtered, although the *)
(* lock of the pool was released in between: until a reset the pool only      *)
(* grows while there is a batch.                                              *)
BatchInv ==
    /\ miner # "filter" => batch = {}
    /\ NeverReset => batch \subseteq pool

LEMMA NoResetYet == IInv /\ ResetPool => ~NeverReset'
<1> SUFFICES ASSUME IInv, ResetPool, NeverReset' PROVE FALSE
  OBVIOUS
<1>1. budget'["reset"] = budget["reset"] - 1
  BY Spending DEF IInv, ResetPool, OutsideCalls
<1> QED
  BY <1>1, BoundsAssumption DEF IInv, TypeOK, ResetInv, NeverReset, OutsideCalls

(* What a step that is not a reset does to the time before the first reset. *)
LEMMA ResetsOnly ==
    ASSUME IInv, [Next]_vars
    PROVE  UNCHANGED NeverReset \/ ~NeverReset'
<1>1. ASSUME NEW tx \in Transactions, Validate(tx) PROVE UNCHANGED NeverReset
  BY <1>1, Spending DEF IInv, Validate, NeverReset, OutsideCalls
<1>2. ASSUME NEW tx \in Transactions, AddTransaction(tx) PROVE UNCHANGED NeverReset
  BY <1>2 DEF AddTransaction, NeverReset
<1>3. CASE Hold
  BY <1>3, Spending DEF IInv, Hold, NeverReset, OutsideCalls
<1>4. CASE Release
  BY <1>4 DEF Release, NeverReset
<1>5. ASSUME MinerStep PROVE UNCHANGED NeverReset
  BY <1>5 DEF MinerStep, TakeBatch, FilterBatch, RemoveFromPool, Removed, AddBlock, NeverReset
<1>6. CASE ResetChain
  BY <1>6 DEF ResetChain, NeverReset
<1>7. CASE UNCHANGED vars
  BY <1>7 DEF vars, NeverReset
<1> QED
  BY <1>1, <1>2, <1>3, <1>4, <1>5, <1>6, <1>7, NoResetYet DEF Next, RpcStep

LEMMA BatchKept == IInv /\ BatchInv /\ [Next]_vars => BatchInv'
<1> SUFFICES ASSUME IInv, BatchInv, [Next]_vars PROVE BatchInv'
  OBVIOUS
<1>0. UNCHANGED NeverReset \/ ~NeverReset'
  BY ResetsOnly
<1>1. CASE TakeBatch
  BY <1>1 DEF TakeBatch, Batches, BatchInv
<1>2. CASE FilterBatch
  BY <1>2 DEF FilterBatch, BatchInv
<1>3. ASSUME NEW tx \in toRemove, RemoveFromPool(tx) PROVE BatchInv'
  BY <1>3 DEF RemoveFromPool, BatchInv
<1>4. CASE Removed
  BY <1>4 DEF Removed, BatchInv
<1>5. CASE AddBlock
  BY <1>5 DEF AddBlock, BatchInv
<1>6. CASE ResetPool
  BY <1>6, NoResetYet DEF ResetPool, minerVars, BatchInv
<1>7. ASSUME UNCHANGED minerVars, pool \subseteq pool' PROVE BatchInv'
  BY <1>0, <1>7 DEF minerVars, BatchInv
<1>8. ASSUME RpcStep \/ ResetChain \/ UNCHANGED vars
      PROVE  UNCHANGED minerVars /\ pool \subseteq pool'
  BY <1>8 DEF RpcStep, Validate, AddTransaction, Hold, Release, ResetChain, vars
<1> QED
  BY <1>1, <1>2, <1>3, <1>4, <1>5, <1>6, <1>7, <1>8 DEF Next, MinerStep

LEMMA InitLedger == Init => Accounts!Init
  BY DEF Init, Accounts!Init, NeverReset

(* add_block is the block of the ledger. *)
LEMMA AddBlockExecutes ==
    ASSUME IInv, AddBlock, NeverReset
    PROVE  Accounts!Block
<1>1. /\ mined' = [s \in Senders |-> mined'[s]]
      /\ pool' \union block' \subseteq pool \union block
      /\ UNCHANGED NeverReset
  BY DEF AddBlock, NeverReset
<1>2. ASSUME NEW s \in Senders
      PROVE  /\ Len(mined[s]) <= Len(mined'[s])
             /\ \A i \in 1 .. Len(mined[s]) : mined'[s][i] = mined[s][i]
             /\ \A i \in Len(mined[s]) + 1 .. Len(mined'[s]) :
                    /\ mined'[s][i] \in block
                    /\ mined'[s][i].from = s
                    /\ mined'[s][i].nonce = i - 1
             /\ \A tx \in block : tx.from = s =>
                    \E i \in Len(mined[s]) + 1 .. Len(mined'[s]) : mined'[s][i] = tx
  <2> DEFINE added == FromSender(block, s)
  <2>1. /\ added \in Seq(Transactions) /\ mined[s] \in Seq(Transactions)
        /\ mined'[s] = mined[s] \o added
        /\ \A i \in 1 .. Len(mined'[s]) : mined'[s][i].nonce = i - 1
    BY AddedInOrder
  <2>2. /\ \A i \in 1 .. Len(added) : added[i] \in Own(block, s)
        /\ \A t \in Own(block, s) : \E i \in 1 .. Len(added) : added[i] = t
    <3>1. block \in SUBSET Transactions /\ Distinct(block)
      BY DEF IInv, TypeOK, BlockInv
    <3>2. PICK n \in Nat : Run(block, s, n)
      BY DEF IInv, BlockInv
    <3> QED
      BY <3>1, <3>2, FromSenderInOrder
  <2> HIDE DEF added
  <2>3. /\ Len(added) \in Nat /\ Len(mined[s]) \in Nat
        /\ Len(mined'[s]) = Len(mined[s]) + Len(added)
        /\ \A i \in 1 .. Len(mined[s]) + Len(added) : mined'[s][i] =
                IF i <= Len(mined[s]) THEN mined[s][i] ELSE added[i - Len(mined[s])]
    BY <2>1, ConcatProperties, LenProperties
  <2>4. ASSUME NEW i \in Len(mined[s]) + 1 .. Len(mined'[s])
        PROVE  mined'[s][i] \in block /\ mined'[s][i].from = s /\ mined'[s][i].nonce = i - 1
    <3>1. i \in 1 .. Len(mined'[s]) /\ i - Len(mined[s]) \in 1 .. Len(added)
          /\ ~(i <= Len(mined[s]))
      BY <2>3
    <3>2. mined'[s][i] = added[i - Len(mined[s])]
      BY <2>3, <3>1
    <3> QED
      BY <2>1, <2>2, <3>1, <3>2 DEF Own
  <2>5. ASSUME NEW tx \in block, tx.from = s
        PROVE  \E i \in Len(mined[s]) + 1 .. Len(mined'[s]) : mined'[s][i] = tx
    <3>1. PICK j \in 1 .. Len(added) : added[j] = tx
      BY <2>2, <2>5 DEF Own
    <3>2. /\ Len(mined[s]) + j \in Len(mined[s]) + 1 .. Len(mined'[s])
          /\ ~(Len(mined[s]) + j <= Len(mined[s]))
          /\ (Len(mined[s]) + j) - Len(mined[s]) = j
          /\ Len(mined[s]) + j \in 1 .. Len(mined[s]) + Len(added)
      BY <2>3
    <3>3. mined'[s][Len(mined[s]) + j] = added[(Len(mined[s]) + j) - Len(mined[s])]
      BY <2>3, <3>2
    <3>4. mined'[s][Len(mined[s]) + j] = tx
      BY <3>1, <3>2, <3>3
    <3> QED
      BY <3>2, <3>4
  <2>6. /\ Len(mined[s]) <= Len(mined'[s])
        /\ \A i \in 1 .. Len(mined[s]) : mined'[s][i] = mined[s][i]
    BY <2>3
  <2> QED
    BY <2>4, <2>5, <2>6
<1>3. ASSUME NEW tx \in (pool \union block) \ (pool' \union block')
      PROVE  \E i \in Len(mined[tx.from]) + 1 .. Len(mined'[tx.from]) : mined'[tx.from][i] = tx
  <2>1. tx \in block /\ tx.from \in Senders
    BY DEF AddBlock, IInv, TypeOK, Transactions
  <2> QED
    BY <1>2, <2>1
<1> QED
  BY <1>1, <1>2, <1>3 DEF Accounts!Block, Accounts!NewPlaces

LEMMA NextLedger == IInv /\ BatchInv /\ [Next]_vars => [Accounts!Next]_(Accounts!vars)
<1> SUFFICES ASSUME IInv, BatchInv, [Next]_vars
             PROVE  Accounts!Next \/ UNCHANGED <<pool \union block, mined, NeverReset>>
  BY DEF Accounts!vars
<1>0. UNCHANGED NeverReset \/ ~NeverReset'
  BY ResetsOnly
<1>1. CASE ~NeverReset'
  BY <1>1 DEF Accounts!Next, Accounts!Reset, NeverReset
<1> SUFFICES ASSUME UNCHANGED NeverReset, NeverReset
             PROVE  Accounts!Next \/ UNCHANGED <<pool \union block, mined>>
  BY <1>0, <1>1
<1>2. ASSUME NEW tx \in Transactions, AddTransaction(tx) PROVE Accounts!Next
  <2>1. /\ pool' \union block' = (pool \union block) \union {tx}
        /\ UNCHANGED mined
    BY <1>2 DEF AddTransaction, minerVars, chainVars
  <2> QED
    BY <2>1 DEF Accounts!Next, Accounts!Accept
<1>3. ASSUME NEW tx \in Transactions, Validate(tx) PROVE UNCHANGED <<pool, block, mined>>
  BY <1>3 DEF Validate, minerVars, chainVars
<1>4. ASSUME Hold \/ Release \/ TakeBatch \/ Removed PROVE UNCHANGED <<pool, block, mined>>
  BY <1>4 DEF Hold, Release, TakeBatch, Removed, minerVars, chainVars
<1>5. CASE FilterBatch
  <2>1. block = {} /\ block' \subseteq batch /\ batch \subseteq pool
    BY <1>5 DEF FilterBatch, Selections, IInv, BlockInv, BatchInv
  <2> QED
    BY <1>5, <2>1 DEF FilterBatch, chainVars
<1>6. ASSUME NEW tx \in toRemove, RemoveFromPool(tx)
      PROVE  UNCHANGED <<pool \union block, mined>>
  <2>1. tx \in block
    BY DEF IInv, TypeOK
  <2> QED
    BY <1>6, <2>1 DEF RemoveFromPool, chainVars
<1>7. CASE AddBlock
  BY <1>7, AddBlockExecutes DEF Accounts!Next
<1>8. ~ResetPool /\ ~ResetChain
  BY NoResetYet DEF ResetChain, IInv, ResetInv
<1>9. CASE UNCHANGED vars
  BY <1>9 DEF vars, minerVars, chainVars
<1> QED
  BY <1>2, <1>3, <1>4, <1>5, <1>6, <1>7, <1>8, <1>9 DEF Next, RpcStep, MinerStep

(* The mock implements the one-step node: what the mining loop does between  *)
(* its locks is invisible to those who only look at what waits and at what   *)
(* was executed.                                                             *)
THEOREM ImplementsLedger == Spec => LedgerSpec
<1>1. Init => BatchInv
  BY DEF Init, BatchInv
<1> QED
  BY <1>1, InitLedger, NextLedger, BatchKept, Invariance, PTL DEF Spec, LedgerSpec, Accounts!Spec
================================================================================
