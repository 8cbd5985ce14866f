---------------------------- MODULE EthClient_proofs ----------------------------
(* Theorems about EthClient, for any number of calls and of faults. *)
EXTENDS EthClient, FiniteSetTheorems, SequenceTheorems, TLAPS

(* Calls that were counted and have not been counted down. *)
Counted == {c \in Calls : pc[c] \in {"send", "receipt", "complete", "failed"}}

(* Sets of calls are finite, so they can be counted one by one. *)
LEMMA Counting ==
    ASSUME NEW S \in SUBSET Calls, NEW c \in Calls
    PROVE  /\ IsFiniteSet(S)
           /\ Cardinality(S) \in Nat
           /\ Cardinality(S) = 0 <=> S = {}
           /\ c \notin S => Cardinality(S \union {c}) = Cardinality(S) + 1
           /\ c \in S => /\ Cardinality(S) > 0
                         /\ Cardinality(S \ {c}) = Cardinality(S) - 1
<1>1. IsFiniteSet(S)
  BY CallsAssumption, FS_Subset
<1>2. Cardinality(S) \in Nat /\ (Cardinality(S) = 0 <=> S = {})
  BY <1>1, FS_CardinalityType, FS_EmptySet
<1>3. c \notin S => Cardinality(S \union {c}) = Cardinality(S) + 1
  BY <1>1, FS_AddElement
<1>4. c \in S => Cardinality(S \ {c}) = Cardinality(S) - 1
  BY <1>1, FS_RemoveElement
<1> QED
  BY <1>1, <1>2, <1>3, <1>4

--------------------------------------------------------------------------------
(* The inductive invariant: the count lies between the calls under way and   *)
(* those that were counted, a call has at most one transaction and keeps it  *)
(* until it is mined.                                                        *)
TransactionsInv ==
    /\ IsFiniteSet(pool)
    /\ \A tx \in pool : faults = 0 => tx.by \in Calls
    /\ \A tx \in pool : tx.by \in Calls =>
        /\ tx = Tx(tx.by)
        /\ pc[tx.by] \in {"receipt", "failed"}
        /\ faults = 0 => pc[tx.by] = "receipt"
        /\ \A i \in DOMAIN chain : chain[i] # tx.by
    /\ \A i \in DOMAIN chain : chain[i] \in Calls => pc[chain[i]] \notin {"idle", "send"}

(* Without faults every nonce that base and count reach is used. *)
GaplessInv ==
    faults = 0 =>
        /\ inFlight > 0 => \A n \in 0 .. base + inFlight - 1 : Used(n)
        /\ \A c \in Calls : Held(c) => \A n \in 0 .. nonce[c] : Used(n)

IInv ==
    /\ TypeOK
    /\ inFlight <= Cardinality(Counted)
    /\ TransactionsInv
    /\ GaplessInv

LEMMA InitIInv == Init => IInv
<1> SUFFICES ASSUME Init PROVE IInv
  OBVIOUS
<1>1. Cardinality({}) = 0 /\ IsFiniteSet({})
  BY FS_EmptySet
<1>2. UnderWay = {} /\ Counted = {}
  BY DEF Init, UnderWay, Held, Counted
<1>3. TypeOK
  BY <1>1, <1>2, FaultsAssumption DEF Init, TypeOK, CallStates
<1>4. chain \in Seq(Calls) /\ DOMAIN chain = {} /\ inFlight = 0 /\ pool = {}
  BY DEF Init
<1>5. \A c \in Calls : ~Held(c)
  BY DEF Init, Held
<1> QED
  BY <1>1, <1>2, <1>3, <1>4, <1>5 DEF IInv, TransactionsInv, GaplessInv

(* When nothing is in flight and nothing has failed, the pool is empty. *)
LEMMA EmptyPool ==
    ASSUME IInv, faults = 0, inFlight = 0
    PROVE  pool = {}
<1> SUFFICES ASSUME NEW tx \in pool PROVE FALSE
  OBVIOUS
<1>1. tx.by \in UnderWay
  BY DEF IInv, TransactionsInv, TypeOK, UnderWay, Held
<1>2. UnderWay \in SUBSET Calls
  BY DEF UnderWay
<1>3. Cardinality(UnderWay) > 0 /\ Cardinality(UnderWay) \in Nat
  BY <1>1, <1>2, Counting
<1> QED
  BY <1>3 DEF IInv, TypeOK

(* TakeNonce, of some base. *)
Take(c, b) ==
    /\ pc[c] = "idle"
    /\ base' = b
    /\ inFlight' = inFlight + 1
    /\ nonce' = [nonce EXCEPT ![c] = b + inFlight]
    /\ pc' = [pc EXCEPT ![c] = "send"]
    /\ UNCHANGED nodeVars

Lied == Cardinality({i \in DOMAIN chain : chain[i] = Other})

LEMMA Counts == IInv => PendingNonce \in Nat /\ Len(chain) \in Nat /\ Lied \in Nat
<1> SUFFICES ASSUME IInv PROVE PendingNonce \in Nat /\ Len(chain) \in Nat /\ Lied \in Nat
  OBVIOUS
<1>1. Len(chain) \in Nat /\ DOMAIN chain = 1 .. Len(chain)
  BY LenProperties DEF IInv, TypeOK
<1>2. PendingNonce \in Nat
  BY <1>1, FS_CardinalityType DEF IInv, TransactionsInv, PendingNonce
<1>3. IsFiniteSet({i \in DOMAIN chain : chain[i] = Other})
  <2>1. IsFiniteSet(DOMAIN chain)
    BY <1>1, FS_Interval
  <2>2. {i \in DOMAIN chain : chain[i] = Other} \subseteq DOMAIN chain
    OBVIOUS
  <2> QED
    BY <2>1, <2>2, FS_Subset
<1> QED
  BY <1>1, <1>2, <1>3, FS_CardinalityType DEF Lied

(* A nonce counts from a base, whatever the node said. *)
LEMMA Taken ==
    ASSUME IInv, NEW c \in Calls, TakeNonce(c) \/ TakeNonceMisread(c)
    PROVE  /\ \E b \in Nat : Take(c, b)
           /\ faults' \in 0 .. MaxFaults
           /\ faults' = faults \/ faults' = faults + 1
           /\ TakeNonceMisread(c) => faults' # 0
<1>1. PendingNonce \in Nat /\ Lied \in Nat /\ base \in Nat /\ inFlight \in Nat
      /\ faults \in 0 .. MaxFaults
  BY Counts DEF IInv, TypeOK
<1>3. CASE TakeNonce(c)
  <2>1. PICK b : b = IF inFlight = 0 THEN PendingNonce ELSE base
    OBVIOUS
  <2>2. b \in Nat
    BY <1>1, <2>1
  <2>3. Take(c, b)
    BY <1>3, <2>1 DEF TakeNonce, Take
  <2>4. faults' = faults
    BY <1>3 DEF TakeNonce
  <2>5. ~TakeNonceMisread(c)
    BY <1>1, <2>4 DEF TakeNonceMisread
  <2> QED
    BY <1>1, <2>2, <2>3, <2>4, <2>5
<1>4. CASE TakeNonceMisread(c)
  <2>1. PICK b : b = base'
    OBVIOUS
  <2>n. PICK n : n = PendingNonce + Lied
    OBVIOUS
  <2>2. b \in Nat /\ b + 0 = b
    <3>1. b \in 0 .. n
      BY <1>4, <2>1, <2>n DEF TakeNonceMisread, Lied
    <3>2. n \in Nat
      BY <1>1, <2>n
    <3> QED
      BY <3>1, <3>2
  <2>3. inFlight = 0 /\ inFlight' = 1 /\ nonce' = [nonce EXCEPT ![c] = b]
    BY <1>4, <2>1 DEF TakeNonceMisread
  <2>4. inFlight' = inFlight + 1 /\ b + inFlight = b
    BY <2>2, <2>3
  <2>a. pc[c] = "idle" /\ pc' = [pc EXCEPT ![c] = "send"] /\ UNCHANGED nodeVars
    BY <1>4 DEF TakeNonceMisread
  <2>5. Take(c, b)
    BY <2>a, <2>1, <2>3, <2>4 DEF Take
  <2>6. faults < MaxFaults /\ faults' = faults + 1
    BY <1>4 DEF TakeNonceMisread
  <2>7. faults' \in 0 .. MaxFaults /\ faults' # 0
    BY <1>1, <2>6, FaultsAssumption
  <2> QED
    BY <2>2, <2>5, <2>6, <2>7
<1> QED
  BY <1>3, <1>4

(* A call that moves on without ending is counted as before; one that        *)
(* completes is counted down; one that fails stays counted.                  *)
LEMMA CountKept ==
    ASSUME IInv, NEW c \in Calls, NEW state \in {"receipt", "complete", "failed"},
           pc[c] \in {"idle", "send", "receipt"},
           pc[c] = "idle" => state = "failed",
           pc' = [pc EXCEPT ![c] = state], inFlight' = inFlight
    PROVE  inFlight' >= Cardinality(UnderWay') /\ inFlight' <= Cardinality(Counted')
<1>1. UnderWay \subseteq Calls /\ Counted \subseteq Calls
  BY DEF UnderWay, Counted
<1>2. \A d \in Calls : pc'[d] = IF d = c THEN state ELSE pc[d]
  BY DEF IInv, TypeOK
<1>3. \/ UnderWay' = UnderWay
      \/ UnderWay' = UnderWay \ {c} /\ c \in UnderWay
  <2>1. CASE Held(c) /\ state = "failed"
    BY <1>2, <2>1 DEF UnderWay, Held
  <2>2. CASE ~(Held(c) /\ state = "failed")
    BY <1>2, <2>2 DEF UnderWay, Held
  <2> QED
    BY <2>1, <2>2
<1>4. \/ Counted' = Counted
      \/ Counted' = Counted \union {c} /\ c \notin Counted
  <2>1. CASE pc[c] = "idle"
    BY <1>2, <2>1 DEF Counted
  <2>2. CASE pc[c] # "idle"
    BY <1>2, <2>2 DEF Counted
  <2> QED
    BY <2>1, <2>2
<1>5. inFlight \in Nat /\ inFlight >= Cardinality(UnderWay) /\ inFlight <= Cardinality(Counted)
  BY DEF IInv, TypeOK
<1> QED
  BY <1>1, <1>3, <1>4, <1>5, Counting

(* Every step keeps the types and the bounds of the count. *)
LEMMA NextTypeOK == IInv /\ [Next]_vars => TypeOK' /\ inFlight' <= Cardinality(Counted')
<1> SUFFICES ASSUME IInv, [Next]_vars
             PROVE  TypeOK' /\ inFlight' <= Cardinality(Counted')
  OBVIOUS
<1>0. /\ PendingNonce \in Nat /\ Len(chain) \in Nat
      /\ UnderWay \subseteq Calls /\ Counted \subseteq Calls
  BY Counts DEF UnderWay, Counted
<1>1. ASSUME NEW c \in Calls, TakeNonce(c) \/ TakeNonceMisread(c)
      PROVE  TypeOK' /\ inFlight' <= Cardinality(Counted')
  <2> PICK b \in Nat : Take(c, b)
    BY <1>1, Taken
  <2>1. base' \in Nat /\ inFlight' = inFlight + 1 /\ inFlight \in Nat /\ nonce'[c] \in Nat
    BY <1>0 DEF Take, IInv, TypeOK
  <2>2. \A d \in Calls : pc'[d] = IF d = c THEN "send" ELSE pc[d]
    BY DEF Take, IInv, TypeOK
  <2>3. UnderWay' = UnderWay \union {c} /\ c \notin UnderWay
    BY <2>2 DEF Take, UnderWay, Held
  <2>4. Counted' = Counted \union {c} /\ c \notin Counted
    BY <2>2 DEF Take, Counted
  <2>5. inFlight' >= Cardinality(UnderWay') /\ inFlight' <= Cardinality(Counted')
    <3>1. Cardinality(UnderWay') = Cardinality(UnderWay) + 1 /\ Cardinality(UnderWay) \in Nat
      BY <1>0, <2>3, Counting
    <3>2. Cardinality(Counted') = Cardinality(Counted) + 1 /\ Cardinality(Counted) \in Nat
      BY <1>0, <2>4, Counting
    <3>3. inFlight >= Cardinality(UnderWay) /\ inFlight <= Cardinality(Counted)
      BY DEF IInv, TypeOK
    <3> QED
      BY <2>1, <3>1, <3>2, <3>3
  <2>6. nonce' \in [Calls -> Nat] /\ pc' \in [Calls -> CallStates]
    BY <2>1 DEF Take, IInv, TypeOK, CallStates
  <2>7. UNCHANGED <<pool, chain>> /\ faults' \in 0 .. MaxFaults
    BY <1>1, Taken DEF Take, nodeVars
  <2> QED
    BY <2>1, <2>5, <2>6, <2>7 DEF IInv, TypeOK
<1>2. ASSUME NEW c \in Calls, Send(c)
      PROVE  TypeOK' /\ inFlight' <= Cardinality(Counted')
  <2>1. Tx(c) \in [nonce : Nat, by : Calls \union {Other}]
    BY DEF Tx, IInv, TypeOK
  <2>2. inFlight' >= Cardinality(UnderWay') /\ inFlight' <= Cardinality(Counted')
    BY <1>2, CountKept DEF Send, managerVars
  <2> QED
    BY <1>2, <2>1, <2>2 DEF Send, managerVars, IInv, TypeOK, CallStates
<1>3. ASSUME NEW c \in Calls, SendTooLow(c) \/ GotReceipt(c) \/ Fail(c)
      PROVE  TypeOK' /\ inFlight' <= Cardinality(Counted')
  <2>1. inFlight' >= Cardinality(UnderWay') /\ inFlight' <= Cardinality(Counted')
    BY <1>3, CountKept DEF SendTooLow, GotReceipt, Fail, managerVars
  <2>2. faults' \in 0 .. MaxFaults
    BY <1>3, FaultsAssumption DEF SendTooLow, GotReceipt, Fail, IInv, TypeOK
  <2>3. pc' \in [Calls -> CallStates]
    BY <1>3 DEF SendTooLow, GotReceipt, Fail, IInv, TypeOK, CallStates
  <2> QED
    BY <1>3, <2>1, <2>2, <2>3 DEF SendTooLow, GotReceipt, Fail, managerVars, nodeVars, IInv, TypeOK
<1>4. ASSUME NEW c \in Calls, Complete(c)
      PROVE  TypeOK' /\ inFlight' <= Cardinality(Counted')
  <2>1. \A d \in Calls : pc'[d] = IF d = c THEN "ok" ELSE pc[d]
    BY <1>4 DEF Complete, IInv, TypeOK
  <2>2. UnderWay' = UnderWay \ {c} /\ c \in UnderWay
    BY <1>4, <2>1 DEF Complete, UnderWay, Held
  <2>3. Counted' = Counted \ {c} /\ c \in Counted
    BY <1>4, <2>1 DEF Complete, Counted
  <2>4. /\ inFlight \in Nat /\ inFlight >= Cardinality(UnderWay)
        /\ inFlight <= Cardinality(Counted)
    BY DEF IInv, TypeOK
  <2>5. /\ Cardinality(UnderWay) \in Nat /\ Cardinality(UnderWay) > 0
        /\ Cardinality(UnderWay') = Cardinality(UnderWay) - 1
    BY <1>0, <2>2, Counting
  <2>6. Cardinality(Counted) \in Nat /\ Cardinality(Counted') = Cardinality(Counted) - 1
    BY <1>0, <2>3, Counting
  <2>7. inFlight' = inFlight - 1
    BY <1>4, <2>4, <2>5 DEF Complete
  <2>8. pc' \in [Calls -> CallStates]
    BY <1>4 DEF Complete, IInv, TypeOK, CallStates
  <2> QED
    BY <1>4, <2>4, <2>5, <2>6, <2>7, <2>8 DEF Complete, nodeVars, IInv, TypeOK
<1>5. CASE MineBlock
  <2>1. PICK tx \in pool :
          pool' = pool \ {tx} /\ chain' = Append(chain, tx.by)
          /\ UNCHANGED <<pc, nonce, managerVars, faults>>
    BY <1>5 DEF MineBlock
  <2>2. chain' \in Seq(Calls \union {Other})
    BY <2>1, AppendProperties DEF IInv, TypeOK
  <2>3. UnderWay' = UnderWay /\ Counted' = Counted
    BY <2>1 DEF UnderWay, Held, Counted
  <2> QED
    BY <2>1, <2>2, <2>3 DEF managerVars, IInv, TypeOK
<1>7. CASE SendOther
  <2>1. [nonce |-> PendingNonce, by |-> Other] \in [nonce : Nat, by : Calls \union {Other}]
    BY <1>0
  <2>2. UnderWay' = UnderWay /\ Counted' = Counted
    BY <1>7 DEF SendOther, UnderWay, Held, Counted
  <2>3. faults' \in 0 .. MaxFaults
    BY <1>7, FaultsAssumption DEF SendOther, IInv, TypeOK
  <2> QED
    BY <1>7, <2>1, <2>2, <2>3 DEF SendOther, managerVars, IInv, TypeOK
<1>6. CASE UNCHANGED vars
  BY <1>6 DEF vars, managerVars, nodeVars, IInv, TypeOK, UnderWay, Held, Counted
<1> QED
  BY <1>1, <1>2, <1>3, <1>4, <1>5, <1>6, <1>7 DEF Next

(* Every step keeps what is known of the transactions of the calls. *)
LEMMA NextTransactionsInv == IInv /\ [Next]_vars => TransactionsInv'
<1> SUFFICES ASSUME IInv, [Next]_vars
             PROVE  TransactionsInv'
  OBVIOUS
<1> USE DEF IInv
<1>0. /\ chain \in Seq(Calls \union {Other})
      /\ \A i \in DOMAIN chain : chain[i] \in Calls \union {Other}
  BY LenProperties DEF TypeOK
<1>1. ASSUME NEW c \in Calls, TakeNonce(c) \/ TakeNonceMisread(c)
      PROVE  TransactionsInv'
  <2> PICK b \in Nat : Take(c, b)
    BY <1>1, Taken
  <2>1. UNCHANGED <<pool, chain>> /\ pc[c] = "idle"
    BY DEF Take, nodeVars
  <2>2. \A d \in Calls : d # c => pc'[d] = pc[d] /\ nonce'[d] = nonce[d]
    BY DEF Take, TypeOK
  <2>3. faults' = 0 => faults = 0
    BY <1>1, Taken DEF TypeOK
  <2>4. \A tx \in pool : tx.by # c
    BY <2>1 DEF TransactionsInv
  <2>5. \A i \in DOMAIN chain : chain[i] # c
    BY <2>1 DEF TransactionsInv
  <2> QED
    BY <2>1, <2>2, <2>3, <2>4, <2>5 DEF TransactionsInv, Tx
<1>2. ASSUME NEW c \in Calls, Send(c)
      PROVE  TransactionsInv'
  <2>1. IsFiniteSet(pool')
    BY <1>2, FS_AddElement DEF Send, TransactionsInv
  <2>2. \A i \in DOMAIN chain : chain[i] # c
    BY <1>2 DEF Send, TransactionsInv
  <2>3. Tx(c).by = c /\ Tx(c)' = Tx(c) /\ \A d \in Calls : Tx(d)' = Tx(d)
    BY <1>2 DEF Send, Tx
  <2>4. \A d \in Calls : pc'[d] = IF d = c THEN "receipt" ELSE pc[d]
    BY <1>2 DEF Send, TypeOK
  <2> QED
    BY <1>0, <1>2, <2>1, <2>2, <2>3, <2>4 DEF Send, TransactionsInv
<1>3. ASSUME NEW c \in Calls, SendTooLow(c) \/ GotReceipt(c) \/ Fail(c) \/ Complete(c)
      PROVE  TransactionsInv'
  <2>1. UNCHANGED <<pool, chain, nonce>>
    BY <1>3 DEF SendTooLow, GotReceipt, Fail, Complete, nodeVars
  <2>2. PICK state \in {"failed", "complete", "ok"} :
          pc' = [pc EXCEPT ![c] = state]
    BY <1>3 DEF SendTooLow, GotReceipt, Fail, Complete
  <2>3. \A d \in Calls : d # c => pc'[d] = pc[d]
    BY <2>2 DEF TypeOK
  <2>5. ASSUME NEW tx \in pool, tx.by = c
        PROVE  Fail(c)
    BY <1>3, <2>5 DEF SendTooLow, GotReceipt, Complete, TransactionsInv
  <2>6. Fail(c) => pc'[c] = "failed" /\ faults' = faults + 1 /\ faults \in Nat
    BY DEF Fail, TypeOK
  <2>7. ~Fail(c) => faults' = faults
    BY <1>3 DEF SendTooLow, GotReceipt, Complete
  <2>8. pc'[c] \notin {"idle", "send"}
    BY <2>2 DEF TypeOK
  <2> QED
    BY <1>0, <2>1, <2>3, <2>5, <2>6, <2>7, <2>8 DEF TransactionsInv, Tx
<1>4. CASE MineBlock
  <2>1. PICK tx \in pool :
          /\ pool' = pool \ {tx} /\ chain' = Append(chain, tx.by)
          /\ UNCHANGED <<pc, nonce, managerVars, faults>>
    BY <1>4 DEF MineBlock
  <2>2. tx.by \in Calls \union {Other}
    BY DEF TypeOK
  <2>3. \A i \in DOMAIN chain' :
          \/ i \in DOMAIN chain /\ chain'[i] = chain[i]
          \/ chain'[i] = tx.by
    BY <1>0, <2>1, <2>2, AppendProperties, LenProperties
  <2>4. IsFiniteSet(pool')
    BY <2>1, FS_RemoveElement DEF TransactionsInv
  <2>5. \A u \in pool' : u \in pool /\ (u.by \in Calls => u.by # tx.by)
    BY <2>1 DEF TransactionsInv
  <2> QED
    BY <2>1, <2>3, <2>4, <2>5 DEF TransactionsInv, Tx
<1>5. CASE UNCHANGED vars
  BY <1>5 DEF vars, nodeVars, TransactionsInv, Tx
<1>6. CASE SendOther
  <2>1. IsFiniteSet(pool')
    BY <1>6, FS_AddElement DEF SendOther, TransactionsInv
  <2>2. UNCHANGED <<pc, nonce, chain>> /\ faults' # 0
    BY <1>6 DEF SendOther, TypeOK
  <2>3. \A tx \in pool' : tx \in pool \/ tx.by = Other
    BY <1>6 DEF SendOther
  <2> QED
    BY <2>1, <2>2, <2>3, OtherAssumption DEF TransactionsInv, Tx
<1> QED
  BY <1>1, <1>2, <1>3, <1>4, <1>5, <1>6 DEF Next

(* A nonce that is used stays so, unless the call that is about to send it    *)
(* fails.                                                                     *)
LEMMA UsedKept ==
    ASSUME IInv, [Next]_vars, faults' = 0, NEW n \in Nat, Used(n)
    PROVE  Used(n)'
<1> USE DEF IInv
<1>1. ASSUME NEW c \in Calls, TakeNonce(c) \/ TakeNonceMisread(c)
      PROVE  Used(n)'
  <2> PICK b \in Nat : Take(c, b)
    BY <1>1, Taken
  <2> QED
    BY DEF Take, TypeOK, Used, nodeVars
<1>2. ASSUME NEW c \in Calls, Send(c)
      PROVE  Used(n)'
  <2>1. Tx(c) \in pool' /\ Tx(c).nonce = nonce[c]
    BY <1>2 DEF Send, Tx
  <2>2. \A d \in Calls : d # c => pc'[d] = pc[d] /\ nonce'[d] = nonce[d]
    BY <1>2 DEF Send, TypeOK
  <2> QED
    BY <1>2, <2>1, <2>2 DEF Send, Used
<1>3. ASSUME NEW c \in Calls, SendTooLow(c)
      PROVE  Used(n)'
  <2>1. \A d \in Calls : d # c => pc'[d] = pc[d]
    BY <1>3 DEF SendTooLow, TypeOK
  <2> QED
    BY <1>3, <2>1 DEF SendTooLow, Used, nodeVars
<1>4. ASSUME NEW c \in Calls, GotReceipt(c) \/ Complete(c)
      PROVE  Used(n)'
  <2>1. \A d \in Calls : pc[d] = "send" => pc'[d] = "send"
    BY <1>4 DEF GotReceipt, Complete, TypeOK
  <2> QED
    BY <1>4, <2>1 DEF GotReceipt, Complete, Used, nodeVars
<1>5. ASSUME NEW c \in Calls, Fail(c)
      PROVE  Used(n)'
  BY <1>5 DEF Fail, TypeOK
<1>6. CASE MineBlock
  <2>1. PICK tx \in pool :
          /\ tx.nonce = Len(chain) /\ pool' = pool \ {tx} /\ chain' = Append(chain, tx.by)
          /\ UNCHANGED <<pc, nonce, managerVars, faults>>
    BY <1>6 DEF MineBlock
  <2>2. Len(chain') = Len(chain) + 1 /\ Len(chain) \in Nat
    BY <2>1, AppendProperties, LenProperties DEF TypeOK
  <2> QED
    BY <2>1, <2>2 DEF Used
<1>7. CASE UNCHANGED vars
  BY <1>7 DEF vars, nodeVars, Used
<1>8. CASE SendOther
  BY <1>8 DEF SendOther, TypeOK
<1> QED
  BY <1>1, <1>2, <1>3, <1>4, <1>5, <1>6, <1>7, <1>8 DEF Next

(* A smaller count reaches fewer nonces. *)
LEMMA Smaller ==
    ASSUME NEW b \in Nat, NEW f \in Nat, NEW g \in Nat, g <= f
    PROVE  \A n \in 0 .. b + g - 1 : n \in 0 .. b + f - 1
  OBVIOUS

(* A call is given the nonce next to those that are used. *)
LEMMA NextGaplessInv == IInv /\ [Next]_vars => GaplessInv'
<1> SUFFICES ASSUME IInv, [Next]_vars, faults' = 0
             PROVE  GaplessInv'
  BY DEF GaplessInv
<1> USE DEF IInv
<1>0. faults = 0
  <2>1. faults' = faults \/ faults' = faults + 1
    BY Taken DEF Next, TakeNonce, Send, SendTooLow, GotReceipt, Complete, Fail, SendOther,
       MineBlock, vars
  <2> QED
    BY <2>1 DEF TypeOK
<1>1. /\ inFlight > 0 => \A n \in 0 .. base + inFlight - 1 : Used(n)
      /\ \A c \in Calls : Held(c) => \A n \in 0 .. nonce[c] : Used(n)
      /\ inFlight \in Nat /\ base \in Nat /\ nonce \in [Calls -> Nat]
  BY <1>0 DEF GaplessInv, TypeOK
<1>2. ASSUME NEW c \in Calls, TakeNonce(c)
      PROVE  GaplessInv'
  <2>0. /\ base' = IF inFlight = 0 THEN PendingNonce ELSE base
        /\ PendingNonce \in Nat
    BY <1>2, Counts DEF TakeNonce
  <2> PICK next \in Nat : next = base' + inFlight
    BY <1>1, <2>0
  <2>1. /\ pc'[c] = "send" /\ inFlight' = inFlight + 1
        /\ nonce' = [nonce EXCEPT ![c] = next]
        /\ \A d \in Calls : d # c => pc'[d] = pc[d]
        /\ UNCHANGED <<pool, chain>>
    BY <1>2 DEF TakeNonce, TypeOK, nodeVars
  <2>2. ASSUME inFlight = 0
        PROVE  next = Len(chain) /\ Len(chain) \in Nat
    <3>1. Cardinality(pool) = 0
      BY <1>0, <2>2, EmptyPool, FS_EmptySet
    <3>2. Len(chain) \in Nat
      BY LenProperties DEF TypeOK
    <3> QED
      BY <2>0, <2>2, <3>1, <3>2 DEF PendingNonce
  <2>3. nonce'[c] = next
    BY <1>1, <2>1
  <2>4. \A n \in 0 .. next - 1 : Used(n)'
    <3>1. CASE inFlight = 0
      BY <2>1, <2>2, <3>1 DEF Used
    <3>2. CASE inFlight > 0
      <4>1. \A n \in 0 .. next - 1 : Used(n)
        BY <1>1, <2>0, <3>2
      <4> QED
        BY <4>1, UsedKept
    <3> QED
      BY <1>1, <3>1, <3>2
  <2>5. Used(next)'
    BY <2>1, <2>3 DEF Used
  <2>6. \A n \in 0 .. next : Used(n)'
    <3> SUFFICES ASSUME NEW n \in 0 .. next
                 PROVE  Used(n)'
      OBVIOUS
    <3>1. n = next \/ n \in 0 .. next - 1
      OBVIOUS
    <3> QED
      BY <2>4, <2>5, <3>1
  <2>7. ASSUME NEW d \in Calls, d # c, Held(d)'
        PROVE  \A n \in 0 .. nonce'[d] : Used(n)'
    <3>1. Held(d) /\ nonce'[d] = nonce[d] /\ nonce[d] \in Nat
      BY <1>1, <2>1, <2>7 DEF Held
    <3> QED
      BY <1>1, <3>1, UsedKept
  <2>8. base' + inFlight' - 1 = next
    BY <1>1, <2>0, <2>1
  <2> QED
    BY <2>3, <2>6, <2>7, <2>8 DEF GaplessInv
<1>3. ASSUME UNCHANGED nonce, base' = base, inFlight' \in Nat, inFlight' <= inFlight,
             \A c \in Calls : Held(c)' => Held(c)
      PROVE  GaplessInv'
  <2>1. ASSUME inFlight' > 0
        PROVE  \A n \in 0 .. base' + inFlight' - 1 : Used(n)'
    <3>0. inFlight \in Nat /\ base \in Nat /\ base' = base /\ inFlight' \in Nat /\ inFlight' <= inFlight
      BY <1>3 DEF TypeOK
    <3>1. inFlight > 0
      BY <2>1, <3>0
    <3>2. \A n \in 0 .. base + inFlight' - 1 : n \in 0 .. base + inFlight - 1
      BY <3>0, Smaller
    <3>3. \A n \in 0 .. base + inFlight' - 1 : n \in Nat /\ Used(n)
      BY <1>1, <3>1, <3>2
    <3>4. \A n \in 0 .. base + inFlight' - 1 : Used(n)'
      BY <3>3, UsedKept
    <3> QED
      BY <3>0, <3>4
  <2>2. ASSUME NEW c \in Calls, Held(c)'
        PROVE  \A n \in 0 .. nonce'[c] : Used(n)'
    <3>1. \A n \in 0 .. nonce'[c] : n \in Nat /\ Used(n)
      BY <1>1, <1>3, <2>2
    <3> QED
      BY <3>1, UsedKept
  <2> QED
    BY <2>1, <2>2 DEF GaplessInv
<1>4. ASSUME NEW c \in Calls, Send(c) \/ SendTooLow(c) \/ GotReceipt(c) \/ Complete(c) \/ Fail(c)
      PROVE  GaplessInv'
  <2>1. UNCHANGED nonce /\ base' = base
    BY <1>4 DEF Send, SendTooLow, GotReceipt, Complete, Fail, managerVars
  <2>2. inFlight' \in Nat /\ inFlight' <= inFlight
    BY <1>1, <1>4 DEF Send, SendTooLow, GotReceipt, Complete, Fail, managerVars
  <2>3. \A d \in Calls : Held(d)' => Held(d)
    BY <1>0, <1>4 DEF Send, SendTooLow, GotReceipt, Complete, Fail, Held, TypeOK
  <2> QED
    BY <1>3, <2>1, <2>2, <2>3
<1>5. CASE MineBlock \/ UNCHANGED vars
  <2>1. UNCHANGED <<pc, nonce, base, inFlight>>
    BY <1>5 DEF MineBlock, managerVars, vars
  <2> QED
    BY <1>1, <1>3, <2>1 DEF Held
<1>6. \A c \in Calls : ~TakeNonceMisread(c)
  BY Taken
<1>7. ~SendOther
  BY DEF SendOther, TypeOK
<1> QED
  BY <1>2, <1>4, <1>5, <1>6, <1>7 DEF Next

LEMMA NextIInv == IInv /\ [Next]_vars => IInv'
  BY NextTypeOK, NextTransactionsInv, NextGaplessInv DEF IInv

(* Every state of the client is well-typed, and no call under way is missing *)
(* in the count.                                                             *)
THEOREM TypeCorrect == Spec => []TypeOK
<1>1. IInv => TypeOK
  BY DEF IInv
<1> QED
  BY <1>1, InitIInv, NextIInv, PTL DEF Spec

(* When no call fails, no other tool sends and no read of the base is off,    *)
(* overlapping calls leave no gap in the nonces.                              *)
THEOREM Gapless == Spec => []NoGapWithoutFaults
<1>1. IInv => NoGapWithoutFaults
  BY DEF IInv, GaplessInv, NoGapWithoutFaults
<1> QED
  BY <1>1, InitIInv, NextIInv, PTL DEF Spec

(* A call that starts alone after calls that succeeded reads the base anew,   *)
(* and is given it, whatever other tools sent and earlier calls misread.      *)
THEOREM LoneCallIsFresh == Spec => FreshWhenAlone
<1> DEFINE Fresh == \A c \in Calls :
                      /\ pc[c] = "idle" /\ pc'[c] = "send" /\ UNCHANGED faults
                      /\ \A d \in Calls : pc[d] \in {"idle", "ok"}
                      => nonce'[c] = PendingNonce
<1>1. ASSUME IInv, [Next]_vars, NEW c \in Calls,
             pc[c] = "idle", pc'[c] = "send", faults' = faults,
             \A d \in Calls : pc[d] \in {"idle", "ok"}
      PROVE  nonce'[c] = PendingNonce
  <2>0. faults \in Nat /\ pc \in [Calls -> CallStates]
    BY <1>1 DEF IInv, TypeOK
  <2>a. ASSUME NEW d \in Calls, Send(d) \/ SendTooLow(d) \/ GotReceipt(d) \/ Complete(d) \/ Fail(d)
        PROVE  FALSE
    BY <1>1, <2>0, <2>a DEF Send, SendTooLow, GotReceipt, Complete, Fail
  <2>b. ~UNCHANGED vars /\ ~MineBlock /\ ~SendOther
    BY <1>1, <2>0 DEF vars, MineBlock, SendOther
  <2>c. \A d \in Calls : ~TakeNonceMisread(d)
    BY <1>1, <2>0 DEF TakeNonceMisread
  <2>d. PICK d \in Calls : TakeNonce(d)
    BY <1>1, <2>a, <2>b, <2>c DEF Next
  <2>1. TakeNonce(c)
    BY <1>1, <2>0, <2>d DEF TakeNonce
  <2>2. Counted = {}
    BY <1>1 DEF Counted
  <2>3. inFlight = 0
    BY <1>1, <2>2, FS_EmptySet DEF IInv, TypeOK
  <2>4. PendingNonce \in Nat
    BY <1>1, Counts
  <2> QED
    BY <1>1, <2>1, <2>3, <2>4 DEF TakeNonce, IInv, TypeOK
<1>2. IInv /\ [Next]_vars => [Fresh]_vars
  BY <1>1
<1> QED
  BY <1>2, InitIInv, NextIInv, PTL DEF Spec, FreshWhenAlone
================================================================================
