------------------------ MODULE TransactionQueue_proofs -------------------------
(* Theorems about TransactionQueue, for any set of requests, any capacity and *)
(* any number of disturbances.                                                *)
EXTENDS TransactionQueue, FiniteSetTheorems, TLAPS

(* pick_nonce yields a nonce whatever is tracked and whatever the node says. *)
LEMMA PickedNonceType ==
    ASSUME NEW last \in Nat \union {Unset}, NEW pending \in Nat
    PROVE  PickedNonce(last, pending) \in Nat
  BY UnsetAssumption DEF PickedNonce

(* Reading from the node spends at most one unit of the lag budget. *)
LEMMA SpendType ==
    ASSUME budget \in [Disturbances -> Nat], NEW kind \in Disturbances, Spend(kind)
    PROVE  /\ budget' \in [Disturbances -> Nat]
           /\ \A k \in Disturbances : budget'[k] <= budget[k]
           /\ budget'[kind] < budget[kind]
  BY DEF Spend

(* The pool counts: NextPendingNonce is a nonce, AccountNonce too. *)
LEMMA NodeNonces ==
    ASSUME IsFiniteSet(pool), chain \in Seq(Requests \union {External})
    PROVE  AccountNonce \in Nat /\ NextPendingNonce \in Nat
  BY FS_CardinalityType DEF AccountNonce, NextPendingNonce

(* The node's answer is a nonce, whatever was counted. *)
LEMMA AnswerType ==
    ASSUME TypeOK
    PROVE  PendingAnswer \in Nat
  BY NodeNonces DEF TypeOK, PendingAnswer

(* Type correctness of the initial state: nothing is queued, sent or mined. *)
LEMMA InitTypeOK == Init => TypeOK
  BY RequestsAssumption, BudgetAssumption, FS_EmptySet
     DEF Init, TypeOK, CallStates, WorkerStates, Processing, Reading, Counting

(* Every step of the callers, the worker and the node keeps the types. *)
LEMMA NextTypeOK == TypeOK /\ [Next]_vars => TypeOK'
<1> SUFFICES ASSUME TypeOK, [Next]_vars
             PROVE  TypeOK'
  OBVIOUS
<1> USE RequestsAssumption DEF TypeOK, netVars
<1>0. AccountNonce \in Nat /\ NextPendingNonce \in Nat /\ PendingAnswer \in Nat
  BY NodeNonces, AnswerType
<1>1. CASE CallerStep
  <2> USE DEF workerVars, localVars, nodeVars
  <2>1. PICK r \in Requests : Call(r) \/ Enqueue(r) \/ EnqueueOnClosed(r) \/ Abandon(r)
    BY <1>1 DEF CallerStep
  <2>2. caller' \in [Requests -> CallStates]
    <3>1. {"calling", "waiting", "closed", "gone"} \subseteq CallStates
      BY DEF CallStates, Answers
    <3>2. PICK state \in {"calling", "waiting", "closed", "gone"} :
            caller' = [caller EXCEPT ![r] = state]
      BY <2>1 DEF Call, Enqueue, EnqueueOnClosed, Abandon
    <3> QED
      BY <3>1, <3>2
  <2>3. queue' \in Seq(Requests)
    <3>1. queue' = queue \/ queue' = Append(queue, r)
      BY <2>1 DEF Call, Enqueue, EnqueueOnClosed, Abandon
    <3>2. Append(queue, r) \in Seq(Requests)
      OBVIOUS
    <3> QED
      BY <3>1, <3>2
  <2>4. UNCHANGED <<workerVars, nodeVars, netVars, budget>>
    BY <2>1 DEF Call, Enqueue, EnqueueOnClosed, Abandon
  <2> QED
    BY <2>2, <2>3, <2>4
<1>f. ASSUME NEW answer \in Answers, Finish(answer), pc \in Processing,
             budget' \in [Disturbances -> Nat],
             lastUsed' \in Nat \union {Unset},
             wire' \in SUBSET [nonce : Nat, by : Requests],
             UNCHANGED late
      PROVE  TypeOK'
  BY <1>f DEF Finish, CallStates, WorkerStates, nodeVars, Processing, Reading, Counting
<1>r. ASSUME NEW n \in Nat, NEW v \in Views(n), Read(n, v)
      PROVE  v \in Nat /\ budget' \in [Disturbances -> Nat]
  BY <1>r, SpendType DEF Views, Read, Disturbances
<1>o. ASSUME NEW v \in Views(PendingAnswer), ReadForNonce(v)
      PROVE  v \in Nat /\ budget' \in [Disturbances -> Nat]
  BY <1>o, <1>0, SpendType DEF Views, Read, ReadForNonce, Disturbances
<1>2. CASE Recv
  BY <1>2 DEF Recv, localVars, nodeVars, WorkerStates, Processing, Reading, Counting
<1>3. CASE ReadAccountNonce
  <2>1. acct' \in Nat /\ budget' \in [Disturbances -> Nat]
    BY <1>3, <1>0, <1>r DEF ReadAccountNonce
  <2>2. pc' \in Counting
    BY <1>3 DEF ReadAccountNonce, Reading, Counting
  <2> QED
    BY <1>3, <2>1, <2>2 DEF ReadAccountNonce, callVars, nodeVars, WorkerStates, Processing, Reading, Counting
<1>c. CASE CountPool
  <2>1. counted' \in Nat
    BY <1>c, FS_CardinalityType DEF CountPool
  <2>2. pc' \in {"waitPending", "pickPending", "againPending"}
    BY <1>c DEF CountPool, Counting
  <2> QED
    BY <1>c, <2>1, <2>2 DEF CountPool, callVars, nodeVars, WorkerStates, Processing, Reading, Counting
<1>4. CASE NothingPending
  <2>1. budget' \in [Disturbances -> Nat]
    BY <1>4, <1>0, <1>r DEF NothingPending
  <2> QED
    BY <1>4, <2>1 DEF NothingPending, callVars, localVars, nodeVars, WorkerStates, Processing, Reading, Counting
<1>5. CASE StillPending
  <2>1. budget' \in [Disturbances -> Nat]
    BY <1>5, <1>0, <1>r DEF StillPending, SeesPending
  <2> QED
    BY <1>5, <2>1 DEF StillPending, callVars, localVars, nodeVars, WorkerStates, Processing, Reading, Counting
<1>6. CASE GiveUpWaiting
  <2>1. budget' \in [Disturbances -> Nat]
    BY <1>6, <1>0, <1>r DEF GiveUpWaiting, SeesPending
  <2> QED
    BY <1>6, <2>1, <1>f DEF GiveUpWaiting, Answers, Processing
<1>7. CASE PickNonce
  <2>1. nonce' \in Nat /\ budget' \in [Disturbances -> Nat]
    BY <1>7, <1>o, PickedNonceType DEF PickNonce
  <2> QED
    BY <1>7, <2>1 DEF PickNonce, callVars, nodeVars, WorkerStates, Processing, Reading, Counting
<1>8. CASE RepickNonce
  <2>1. sent' \in Nat /\ budget' \in [Disturbances -> Nat]
    BY <1>8, <1>o, PickedNonceType DEF RepickNonce
  <2> QED
    BY <1>8, <2>1 DEF RepickNonce, callVars, nodeVars, WorkerStates, Processing, Reading, Counting
<1>p. ASSUME pc = "send"
      PROVE  /\ (pool \union {SignedTx}) \in SUBSET Transactions
             /\ IsFiniteSet(pool \union {SignedTx})
  <2>1. SignedTx \in Transactions
    BY <1>p DEF SignedTx, Transactions, Processing
  <2> QED
    BY <2>1, FS_AddElement
<1>9. CASE SendAccepted
  BY <1>9, <1>p DEF SendAccepted, callVars, localVars, WorkerStates, Processing, Reading, Counting
<1>10. CASE SendTooLow
  BY <1>10 DEF SendTooLow, callVars, localVars, nodeVars, WorkerStates, Processing, Reading, Counting
<1>11. CASE SendResponseLost
  BY <1>11, <1>p, SpendType DEF SendResponseLost, callVars, workerVars, localVars, Disturbances
<1>v. CASE SendAbandoned
  <2>1. PICK answer \in {"timeout", "failed"} : Finish(answer)
    BY <1>v DEF SendAbandoned
  <2>2. SignedTx \in [nonce : Nat, by : Requests]
    BY <1>v DEF SendAbandoned, SignedTx, Processing
  <2>3. wire' \in SUBSET [nonce : Nat, by : Requests]
    BY <1>v, <2>2 DEF SendAbandoned
  <2>4. budget' \in [Disturbances -> Nat]
    BY <1>v, SpendType DEF SendAbandoned, Disturbances
  <2>5. answer \in Answers /\ pc \in Processing /\ UNCHANGED <<lastUsed, late>>
    BY <1>v DEF SendAbandoned, Answers, Processing
  <2> QED
    BY <2>1, <2>3, <2>4, <2>5, <1>f
<1>12. CASE GotReceipt
  BY <1>12, <1>f DEF GotReceipt, Answers, Processing
<1>13. CASE Failed
  BY <1>13, <1>f, SpendType DEF Failed, Answers, Disturbances
<1>14. CASE TimedOut
  BY <1>14, <1>f DEF TimedOut, Answers
<1>15. CASE SignerPanics
  <2>1. budget' \in [Disturbances -> Nat]
    BY <1>15, SpendType DEF SignerPanics, Disturbances
  <2> QED
    BY <1>15, <2>1 DEF SignerPanics, localVars, nodeVars, CallStates, Answers, WorkerStates,
       Processing, Reading, Counting
<1>e. ASSUME NEW tx \in wire, Arrive(tx)
      PROVE  TypeOK'
  <2>1. tx \in Transactions
    BY DEF Transactions
  <2>2. pool' \in SUBSET Transactions /\ IsFiniteSet(pool')
    BY <1>e, <2>1, FS_AddElement DEF Arrive
  <2>3. wire' \in SUBSET [nonce : Nat, by : Requests]
        /\ late' \in SUBSET [nonce : Nat, by : Requests]
    BY <1>e DEF Arrive
  <2> QED
    BY <1>e, <2>2, <2>3 DEF Arrive, callVars, workerVars, localVars
<1>16. CASE MineBlock
  BY <1>16, FS_RemoveElement DEF MineBlock, callVars, workerVars, localVars, Transactions
<1>17. CASE ExternalSend
  <2>1. PICK n \in AccountNonce .. NextPendingNonce :
           /\ pool' = pool \union {[nonce |-> n, by |-> External]}
           /\ Spend("external")
           /\ UNCHANGED <<callVars, workerVars, chain, netVars>>
    BY <1>17 DEF ExternalSend
  <2>2. [nonce |-> n, by |-> External] \in Transactions
    BY <1>0 DEF Transactions
  <2>3. budget' \in [Disturbances -> Nat]
    BY <2>1, SpendType DEF Disturbances
  <2> QED
    BY <2>1, <2>2, <2>3, FS_AddElement DEF callVars, workerVars, localVars
<1>18. CASE Redeploy
  BY <1>18, SpendType, FS_EmptySet DEF Redeploy, callVars, workerVars, localVars, Disturbances
<1>19. CASE UNCHANGED vars
  BY <1>19 DEF vars, callVars, workerVars, localVars, nodeVars
<1> QED
  BY <1>1, <1>2, <1>3, <1>c, <1>4, <1>5, <1>6, <1>7, <1>8, <1>9, <1>10, <1>11, <1>v, <1>12,
     <1>13, <1>14, <1>15, <1>e, <1>16, <1>17, <1>18, <1>19 DEF Next, WorkerStep, NodeStep

(* The variables of the queue, the worker and the node keep their types, and *)
(* the worker holds a request exactly while it is processing one.            *)
THEOREM TypeCorrect == Spec => []TypeOK
  BY InitTypeOK, NextTypeOK, PTL DEF Spec

--------------------------------------------------------------------------------
(* One pending transaction at a time.  Why it holds: the worker picks a nonce *)
(* only after the node counted an empty pool, and from then until it counts   *)
(* again the only transaction it can have added is the one it is sending.     *)
(* Those that come late are counted like any other as soon as they are there. *)

BudgetBounded == \A kind \in Disturbances : budget[kind] <= Budget[kind]

OnTime == pool \ late

LiveOnTime == \E t \in OnTime : Live(t)

Picking == {"pickAccount", "pickCount", "pickPending",
            "againAccount", "againCount", "againPending"}

PendingInv ==
    /\ \A t, u \in OnTime : Live(t) /\ Live(u) => t = u
    /\ pc \in {"waitCount", "waitPending"} /\ LiveOnTime => acct <= AccountNonce
    /\ pc = "waitPending" /\ LiveOnTime => counted > 0
    /\ pc \in Picking => ~LiveOnTime
    /\ pc = "send" => \A t \in OnTime : Live(t) => t = SignedTx

IInv == TypeOK /\ BudgetBounded /\ (Untouched({"lag"}) => PendingInv)

(* No step gives a budget back. *)
LEMMA BudgetShrinks ==
    ASSUME TypeOK, [Next]_vars, NEW kind \in Disturbances
    PROVE  budget'[kind] <= budget[kind]
<1> USE DEF TypeOK, Disturbances
<1>1. CASE UNCHANGED budget
  BY <1>1
<1>2. ASSUME NEW spent \in Disturbances, Spend(spent)
      PROVE  budget'[kind] <= budget[kind]
  BY <1>2, SpendType
<1>3. ASSUME NEW n, NEW v, Read(n, v) \/ ReadForNonce(v)
      PROVE  budget'[kind] <= budget[kind]
  BY <1>1, <1>2, <1>3 DEF Read, ReadForNonce
<1>4. CASE CallerStep
  BY <1>1, <1>4 DEF CallerStep, Call, Enqueue, EnqueueOnClosed, Abandon
<1>5. CASE WorkerStep
  BY <1>1, <1>2, <1>3, <1>5 DEF WorkerStep, Recv, ReadAccountNonce, CountPool,
     NothingPending, StillPending, SeesPending, GiveUpWaiting, PickNonce, RepickNonce,
     SendAccepted, SendTooLow, SendResponseLost, SendAbandoned, GotReceipt, Failed, TimedOut, SignerPanics
<1>6. CASE NodeStep
  BY <1>1, <1>2, <1>6 DEF NodeStep, MineBlock, Arrive, ExternalSend, Redeploy
<1>7. CASE UNCHANGED vars
  BY <1>1, <1>7 DEF vars
<1> QED
  BY <1>4, <1>5, <1>6, <1>7 DEF Next

(* What is untouched after a step was so before it, and the step did not      *)
(* spend on it.                                                               *)
LEMMA UntouchedBefore ==
    ASSUME TypeOK, BudgetBounded, [Next]_vars
    PROVE  /\ BudgetBounded'
           /\ \A kinds \in SUBSET Disturbances :
                 Untouched(kinds)' =>
                    /\ Untouched(kinds)
                    /\ \A kind \in kinds : budget'[kind] = budget[kind]
<1>1. ASSUME NEW kind \in Disturbances
      PROVE  /\ budget'[kind] <= Budget[kind]
             /\ budget'[kind] = Budget[kind]
                    => budget[kind] = Budget[kind] /\ budget'[kind] = budget[kind]
  <2>1. budget[kind] \in Nat /\ budget'[kind] \in Nat /\ Budget[kind] \in Nat
    BY NextTypeOK, BudgetAssumption DEF TypeOK
  <2>2. budget'[kind] <= budget[kind] /\ budget[kind] <= Budget[kind]
    BY BudgetShrinks DEF BudgetBounded
  <2> QED
    BY <2>1, <2>2
<1> QED
  BY <1>1 DEF BudgetBounded, Untouched

(* A read that spends nothing returned the node's value. *)
LEMMA FreshRead ==
    ASSUME budget \in [Disturbances -> Nat], NEW n \in Nat, NEW v \in Views(n),
           Read(n, v), budget["lag"] = budget'["lag"]
    PROVE  v = n
  BY SpendType DEF Read, Disturbances

LEMMA InitIInv == Init => IInv
<1> SUFFICES ASSUME Init
             PROVE  IInv
  OBVIOUS
<1>1. TypeOK
  BY InitTypeOK
<1>2. BudgetBounded
  BY BudgetAssumption DEF Init, BudgetBounded
<1>3. PendingInv
  BY DEF Init, PendingInv, LiveOnTime, OnTime, Picking
<1> QED
  BY <1>1, <1>2, <1>3 DEF IInv

(* Mining, late requests and other tools leave no transaction of the queue    *)
(* live that was not live before, but for the late ones themselves.           *)
LEMMA NextIInv == IInv /\ [Next]_vars => IInv'
<1> SUFFICES ASSUME IInv, [Next]_vars
             PROVE  IInv'
  OBVIOUS
<1>t. TypeOK /\ TypeOK'
  BY NextTypeOK DEF IInv
<1>b. BudgetBounded'
  BY UntouchedBefore DEF IInv
<1> SUFFICES ASSUME Untouched({"lag"})'
             PROVE  PendingInv'
  BY <1>t, <1>b DEF IInv
<1>p. PendingInv /\ budget["lag"] = budget'["lag"]
  BY UntouchedBefore DEF IInv, Disturbances
<1>n. AccountNonce \in Nat /\ NextPendingNonce \in Nat /\ PendingAnswer \in Nat
  BY <1>t, NodeNonces, AnswerType DEF TypeOK
<1>o. UNCHANGED <<nodeVars, late>> => UNCHANGED <<OnTime, LiveOnTime, AccountNonce>>
  BY DEF nodeVars, OnTime, LiveOnTime, Live, AccountNonce
<1>l. UNCHANGED <<nodeVars, late>> => \A t : Live(t)' = Live(t)
  BY DEF nodeVars, Live, AccountNonce
<1>k. ASSUME UNCHANGED <<nodeVars, late>>, pc' \in {"recv", "dead", "waitAccount", "receipt"}
      PROVE  PendingInv'
  BY <1>k, <1>p, <1>o, <1>l DEF PendingInv, Picking
<1>s. ASSUME UNCHANGED <<nodeVars, late, pc, cur, localVars>>
      PROVE  PendingInv'
  <2>1. UNCHANGED <<acct, counted, SignedTx>>
    BY <1>s DEF localVars, SignedTx
  <2> QED
    BY <1>s, <2>1, <1>p, <1>o, <1>l DEF PendingInv
<1>f. ASSUME NEW answer, Finish(answer), UNCHANGED late
      PROVE  PendingInv'
  BY <1>f, <1>k DEF Finish
<1>1. CASE CallerStep
  BY <1>1, <1>s DEF CallerStep, Call, Enqueue, EnqueueOnClosed, Abandon, workerVars, netVars
<1>2. CASE Recv
  BY <1>2, <1>k DEF Recv, netVars
<1>3. CASE ReadAccountNonce
  <2>1. acct' = AccountNonce
    BY <1>3, <1>n, <1>p, <1>t, FreshRead DEF ReadAccountNonce, TypeOK
  <2>2. UNCHANGED <<nodeVars, late>>
    BY <1>3 DEF ReadAccountNonce, netVars
  <2>3. \/ pc' = "waitCount"
        \/ pc = "pickAccount" /\ pc' = "pickCount"
        \/ pc = "againAccount" /\ pc' = "againCount"
    BY <1>3 DEF ReadAccountNonce, Reading
  <2> QED
    BY <2>1, <2>2, <2>3, <1>p, <1>n, <1>o, <1>l DEF PendingInv, Picking
<1>c. CASE CountPool
  <2>1. UNCHANGED <<nodeVars, late, acct>>
    BY <1>c DEF CountPool, netVars
  <2>2. \/ pc = "waitCount" /\ pc' = "waitPending"
        \/ pc = "pickCount" /\ pc' = "pickPending"
        \/ pc = "againCount" /\ pc' = "againPending"
    BY <1>c DEF CountPool, Counting
  <2>3. LiveOnTime => counted' > 0
    <3> SUFFICES ASSUME LiveOnTime
                 PROVE  counted' > 0
      OBVIOUS
    <3>1. pool # {} /\ IsFiniteSet(pool)
      BY <1>t DEF LiveOnTime, OnTime, TypeOK
    <3>2. Cardinality(pool) \in Nat /\ Cardinality(pool) # 0
      BY <3>1, FS_CardinalityType, FS_EmptySet
    <3> QED
      BY <1>c, <3>2 DEF CountPool
  <2> QED
    BY <2>1, <2>2, <2>3, <1>p, <1>o, <1>l DEF PendingInv, Picking
<1>4. CASE NothingPending
  <2>1. PendingCount(acct, PendingAnswer) = 0 /\ pc = "waitPending"
    BY <1>4, <1>n, <1>p, <1>t, FreshRead DEF NothingPending, TypeOK
  <2>2. ~LiveOnTime
    <3> SUFFICES ASSUME LiveOnTime
                 PROVE  FALSE
      OBVIOUS
    <3>1. acct <= AccountNonce /\ counted > 0
      BY <2>1, <1>p DEF PendingInv
    <3> QED
      BY <2>1, <3>1, <1>t, <1>n DEF PendingCount, PendingAnswer, TypeOK
  <2>3. UNCHANGED <<nodeVars, late>> /\ pc' = "pickAccount"
    BY <1>4 DEF NothingPending, netVars
  <2> QED
    BY <2>2, <2>3, <1>p, <1>o, <1>l DEF PendingInv
<1>5. CASE StillPending
  BY <1>5, <1>k DEF StillPending, netVars
<1>6. CASE GiveUpWaiting
  BY <1>6, <1>f DEF GiveUpWaiting, netVars
<1>7. CASE PickNonce \/ RepickNonce
  <2>1. UNCHANGED <<nodeVars, late>> /\ ~LiveOnTime /\ pc' = "send"
    BY <1>7, <1>p DEF PickNonce, RepickNonce, PendingInv, Picking, netVars
  <2> QED
    BY <2>1, <1>o DEF PendingInv, LiveOnTime, Picking
<1>8. CASE SendAccepted \/ SendResponseLost
  <2>1. /\ pc = "send"
        /\ pc' \in {"send", "receipt"}
        /\ pool' = pool \union {SignedTx}
        /\ UNCHANGED <<chain, cur, localVars, late>>
    BY <1>8 DEF SendAccepted, SendResponseLost, workerVars, netVars
  <2>2. \A t \in OnTime' : Live(t)' => t = SignedTx
    BY <2>1, <1>p DEF PendingInv, Live, AccountNonce, OnTime
  <2>3. SignedTx' = SignedTx
    BY <2>1 DEF SignedTx, localVars
  <2> QED
    BY <2>1, <2>2, <2>3 DEF PendingInv, Picking
<1>9. CASE SendTooLow
  <2>1. ~LiveOnTime
    BY <1>9, <1>p DEF SendTooLow, PendingInv, LiveOnTime, Live, NodeAccepts
  <2>2. UNCHANGED <<nodeVars, late>> /\ pc' = "againAccount"
    BY <1>9 DEF SendTooLow, netVars
  <2> QED
    BY <2>1, <2>2, <1>p, <1>o, <1>l DEF PendingInv
<1>10. CASE GotReceipt \/ Failed \/ TimedOut \/ SendAbandoned
  BY <1>10, <1>f DEF GotReceipt, Failed, TimedOut, SendAbandoned, netVars
<1>11. CASE SignerPanics
  BY <1>11, <1>k DEF SignerPanics, netVars
<1>w. ASSUME UNCHANGED workerVars,
             AccountNonce' >= AccountNonce \/ pool' = {},
             \A t \in OnTime' : t \in OnTime \/ t.by \notin Requests,
             AccountNonce' \in Nat
      PROVE  PendingInv'
  <2>1. CASE pool' = {}
    BY <2>1 DEF PendingInv, LiveOnTime, OnTime
  <2>2. CASE pool' # {}
    <3>1. \A t \in OnTime' : Live(t)' => t \in OnTime /\ Live(t)
      BY <1>w, <1>t, <1>n, <2>2 DEF Live, TypeOK, Transactions, OnTime
    <3>2. UNCHANGED <<pc, acct, counted, SignedTx>>
      BY <1>w DEF workerVars, localVars, SignedTx
    <3> HIDE DEF Live, SignedTx, OnTime
    <3>3. LiveOnTime' => LiveOnTime
      BY <3>1 DEF LiveOnTime
    <3>4. AccountNonce' >= AccountNonce
      BY <1>w, <2>2
    <3>5. acct \in Nat
      BY <1>t DEF TypeOK
    <3> QED
      BY <3>1, <3>2, <3>3, <3>4, <3>5, <1>p, <1>n, <1>w DEF PendingInv
  <2> QED
    BY <2>1, <2>2
<1>12. CASE MineBlock
  <2>1. AccountNonce' = AccountNonce + 1
    BY <1>12, <1>t DEF MineBlock, AccountNonce, TypeOK, Transactions
  <2>2. OnTime' \subseteq OnTime
    BY <1>12 DEF MineBlock, OnTime, netVars
  <2> QED
    BY <1>12, <2>1, <2>2, <1>n, <1>w DEF MineBlock
<1>e. ASSUME NEW tx \in wire, Arrive(tx)
      PROVE  PendingInv'
  <2>1. AccountNonce' = AccountNonce /\ UNCHANGED workerVars
    BY <1>e DEF Arrive, AccountNonce
  <2>2. OnTime' = OnTime
    BY <1>e DEF Arrive, OnTime
  <2> QED
    BY <2>1, <2>2, <1>n, <1>w
<1>13. CASE ExternalSend
  <2>1. AccountNonce' = AccountNonce
    BY <1>13 DEF ExternalSend, AccountNonce
  <2>2. \A t \in OnTime' : t \in OnTime \/ t.by = External
    BY <1>13 DEF ExternalSend, OnTime, netVars
  <2> QED
    BY <1>13, <2>1, <2>2, <1>n, <1>w, RequestsAssumption DEF ExternalSend
<1>14. CASE Redeploy
  BY <1>14, <1>w DEF Redeploy, AccountNonce, OnTime
<1>15. CASE UNCHANGED vars
  BY <1>15, <1>s DEF vars, workerVars, netVars
<1> QED
  BY <1>1, <1>2, <1>3, <1>c, <1>4, <1>5, <1>6, <1>7, <1>8, <1>9, <1>10, <1>11, <1>12, <1>e,
     <1>13, <1>14, <1>15 DEF Next, WorkerStep, NodeStep

(* However requests time out, fail, are sent again or reach the node when     *)
(* nobody waits for them any more, with any number of other tools and         *)
(* redeployments: at most one live transaction of the queue is in the pool    *)
(* besides those that came late, as long as no read was stale.                *)
THEOREM OnePendingAtATime == Spec => []OneLivePending
<1>1. IInv => OneLivePending
  BY DEF IInv, PendingInv, OneLivePending, OnTime
<1> QED
  BY <1>1, InitIInv, NextIInv, PTL DEF Spec

--------------------------------------------------------------------------------
(* The queue implements SerialQueue: accepting appends to the line, finishing *)
(* a request takes it off the front, everything else is invisible.            *)

LEMMA LineType ==
    ASSUME TypeOK
    PROVE  /\ line \in Seq(Requests)
           /\ cur \in Requests => line # <<>> /\ Head(line) = cur /\ Tail(line) = queue
           /\ Len(line) <= Len(queue) + 1
<1> USE DEF TypeOK
<1>1. CASE cur = NoRequest
  BY <1>1, RequestsAssumption DEF line
<1>2. CASE cur \in Requests
  BY <1>2, RequestsAssumption DEF line
<1> QED
  BY <1>1, <1>2

LEMMA FinishAnswers ==
    ASSUME TypeOK, NEW answer \in Answers, pc \in Processing, Finish(answer)
    PROVE  Serial!Next
<1>1. cur \in Requests
  BY DEF TypeOK
<1>2. line' = queue
  BY DEF Finish, line
<1>3. pc # "dead" /\ pc' # "dead"
  BY DEF Finish, Processing, Reading, Counting
<1>4. Serial!Answer(answer)
  BY <1>1, <1>2, <1>3, LineType DEF Finish, Serial!Answer
<1> QED
  BY <1>4 DEF Serial!Next

LEMMA InitRefines == Init => Serial!Init
  BY DEF Init, Serial!Init, line

LEMMA NextRefines == TypeOK /\ TypeOK' /\ [Next]_vars => [Serial!Next]_(Serial!vars)
<1> SUFFICES ASSUME TypeOK, TypeOK', [Next]_vars
             PROVE  Serial!Next \/ UNCHANGED <<caller, line, pc # "dead">>
  BY DEF Serial!vars
<1>k. ASSUME UNCHANGED <<caller, queue, cur>>, pc # "dead", pc' # "dead"
      PROVE  UNCHANGED <<caller, line, pc # "dead">>
  BY <1>k DEF line
<1>1. ASSUME NEW r \in Requests, Call(r)
      PROVE  Serial!Next
  <2>1. UNCHANGED <<line, pc # "dead">>
    BY <1>1 DEF Call, line, workerVars
  <2> QED
    BY <1>1, <2>1 DEF Call, Serial!Call, Serial!Next
<1>2. ASSUME NEW r \in Requests, Enqueue(r)
      PROVE  Serial!Next
  <2>1. UNCHANGED <<cur, pc>> /\ queue' = Append(queue, r)
    BY <1>2 DEF Enqueue, workerVars
  <2>2. line' = Append(line, r)
    BY <2>1 DEF line, TypeOK
  <2>3. Len(line) < QueueCapacity + 1
    BY <1>2, LineType, CapacityAssumption DEF Enqueue, TypeOK
  <2> QED
    BY <1>2, <2>1, <2>2, <2>3 DEF Enqueue, Serial!Accept, Serial!Next
<1>3. ASSUME NEW r \in Requests, EnqueueOnClosed(r)
      PROVE  Serial!Next
  <2>1. UNCHANGED <<line, pc # "dead">>
    BY <1>3 DEF EnqueueOnClosed, line, workerVars
  <2> QED
    BY <1>3, <2>1 DEF EnqueueOnClosed, Serial!Refuse, Serial!Next
<1>4. ASSUME NEW r \in Requests, Abandon(r)
      PROVE  Serial!Next
  <2>1. UNCHANGED <<line, pc # "dead">>
    BY <1>4 DEF Abandon, line, workerVars
  <2> QED
    BY <1>4, <2>1 DEF Abandon, Serial!Abandon, Serial!Next
<1>5. CASE Recv
  <2>1. line = queue
    BY <1>5, RequestsAssumption DEF Recv, line, TypeOK, Processing, Reading, Counting
  <2>2. Head(queue) \in Requests /\ line' = <<Head(queue)>> \o Tail(queue)
    BY <1>5, RequestsAssumption DEF Recv, line, TypeOK
  <2>3. line' = line
    BY <1>5, <2>1, <2>2 DEF Recv, TypeOK
  <2> QED
    BY <1>5, <2>3 DEF Recv
<1>6. CASE ReadAccountNonce \/ CountPool
  BY <1>6, <1>k DEF ReadAccountNonce, CountPool, callVars, Reading, Counting
<1>7. CASE NothingPending \/ StillPending
  BY <1>7, <1>k DEF NothingPending, StillPending, callVars
<1>8. CASE PickNonce \/ RepickNonce
  BY <1>8, <1>k DEF PickNonce, RepickNonce, callVars
<1>9. CASE SendAccepted \/ SendTooLow \/ SendResponseLost
  BY <1>9, <1>k DEF SendAccepted, SendTooLow, SendResponseLost, callVars, workerVars
<1>10. CASE GiveUpWaiting \/ GotReceipt \/ Failed \/ TimedOut \/ SendAbandoned
  BY <1>10, FinishAnswers DEF GiveUpWaiting, GotReceipt, Failed, TimedOut, SendAbandoned,
     Answers, Processing
<1>11. CASE SignerPanics
  <2>1. line' = <<>>
    BY <1>11 DEF SignerPanics, line
  <2> QED
    BY <1>11, <2>1 DEF SignerPanics, Serial!Close, Serial!Next
<1>12. CASE NodeStep \/ UNCHANGED vars
  BY <1>12 DEF NodeStep, MineBlock, Arrive, ExternalSend, Redeploy, vars, callVars,
     workerVars, line
<1> QED
  BY <1>1, <1>2, <1>3, <1>4, <1>5, <1>6, <1>7, <1>8, <1>9, <1>10, <1>11, <1>12
     DEF Next, CallerStep, WorkerStep

(* Every behaviour of the queue is one of the serial line: one answer for     *)
(* each accepted request, in the order of acceptance, whatever the node, the  *)
(* other tools and the signer do.                                             *)
THEOREM ImplementsSerialQueue == Spec => SerialSpec
  BY InitRefines, NextRefines, TypeCorrect, PTL DEF Spec, SerialSpec, Serial!Spec
--------------------------------------------------------------------------------
(* A request is processed once.  Every request is in one place only: with its *)
(* caller, in the channel or with the worker.                                 *)

CallInv ==
    /\ \A i, j \in DOMAIN queue : queue[i] = queue[j] => i = j
    /\ \A i \in DOMAIN queue : queue[i] # cur /\ caller[queue[i]] \in {"waiting", "gone"}
    /\ cur \in Requests => caller[cur] \in {"waiting", "gone"}

LEMMA NextCallInv == TypeOK /\ CallInv /\ [Next]_vars => CallInv'
<1> SUFFICES ASSUME TypeOK, CallInv, [Next]_vars
             PROVE  CallInv'
  OBVIOUS
<1> USE RequestsAssumption DEF TypeOK, CallInv
<1>q. \A i \in DOMAIN queue : queue[i] \in Requests
  OBVIOUS
<1>s. ASSUME UNCHANGED <<callVars, cur>>
      PROVE  CallInv'
  BY <1>s DEF callVars
<1>f. ASSUME NEW answer, Finish(answer)
      PROVE  CallInv'
  BY <1>f, <1>q DEF Finish
<1>1. ASSUME NEW r \in Requests, Call(r) \/ EnqueueOnClosed(r) \/ Abandon(r)
      PROVE  CallInv'
  <2>1. /\ UNCHANGED <<queue, cur>>
        /\ caller[r] \in {"waiting", "gone"} => caller'[r] = "gone"
    BY <1>1 DEF Call, EnqueueOnClosed, Abandon, workerVars
  <2>2. \A s \in Requests \ {r} : caller'[s] = caller[s]
    BY <1>1 DEF Call, EnqueueOnClosed, Abandon
  <2>3. \A s \in Requests : caller[s] \in {"waiting", "gone"} => caller'[s] \in {"waiting", "gone"}
    BY <2>1, <2>2
  <2>4. \A i \in DOMAIN queue : caller'[queue[i]] \in {"waiting", "gone"}
    BY <2>3, <1>q
  <2>5. cur \in Requests => caller'[cur] \in {"waiting", "gone"}
    BY <2>3
  <2> QED
    BY <2>1, <2>4, <2>5
<1>2. ASSUME NEW r \in Requests, Enqueue(r)
      PROVE  CallInv'
  <2>1. /\ queue' = Append(queue, r)
        /\ caller' = [caller EXCEPT ![r] = "waiting"]
        /\ cur' = cur
        /\ caller[r] = "calling"
    BY <1>2 DEF Enqueue, workerVars
  <2>2. /\ DOMAIN queue' = DOMAIN queue \union {Len(queue) + 1}
        /\ queue'[Len(queue) + 1] = r
        /\ \A i \in DOMAIN queue : queue'[i] = queue[i]
    BY <2>1
  <2>3. r # cur /\ \A i \in DOMAIN queue : queue[i] # r
    BY <2>1
  <2> QED
    BY <2>1, <2>2, <2>3, <1>q
<1>3. CASE Recv
  <2>1. /\ cur' = queue[1]
        /\ 1 \in DOMAIN queue
        /\ \A i \in DOMAIN queue' : queue'[i] = queue[i + 1] /\ i + 1 \in DOMAIN queue /\ i + 1 # 1
        /\ caller' = caller
    BY <1>3 DEF Recv
  <2>2. \A i, j \in DOMAIN queue' : queue'[i] = queue'[j] => i = j
    <3>1. DOMAIN queue' \subseteq Nat
      BY <1>3 DEF Recv
    <3> QED
      BY <2>1, <3>1
  <2> QED
    BY <2>1, <2>2
<1>4. CASE GiveUpWaiting \/ GotReceipt \/ Failed \/ TimedOut \/ SendAbandoned
  BY <1>4, <1>f DEF GiveUpWaiting, GotReceipt, Failed, TimedOut, SendAbandoned
<1>5. CASE \/ ReadAccountNonce \/ CountPool \/ NothingPending \/ StillPending
           \/ PickNonce \/ RepickNonce
  BY <1>5, <1>s DEF ReadAccountNonce, CountPool, NothingPending, StillPending, PickNonce,
     RepickNonce
<1>6. CASE SendAccepted \/ SendTooLow \/ SendResponseLost
  BY <1>6, <1>s DEF SendAccepted, SendTooLow, SendResponseLost, workerVars
<1>7. CASE SignerPanics
  BY <1>7 DEF SignerPanics
<1>8. CASE NodeStep \/ UNCHANGED vars
  BY <1>8, <1>s DEF NodeStep, MineBlock, Arrive, ExternalSend, Redeploy, vars, workerVars
<1> QED
  BY <1>1, <1>2, <1>3, <1>4, <1>5, <1>6, <1>7, <1>8 DEF Next, CallerStep, WorkerStep

Sent == pool \union wire

(* The node has not heard of the request, nor is it on its way to it. *)
Unused(r) == (\A t \in Sent : t.by # r) /\ \A i \in DOMAIN chain : chain[i] # r

(* Only the worker's own send lets a request out, and the worker sends one    *)
(* that is nowhere yet: neither in the pool, nor in a block, nor in flight.   *)
OnceInv ==
    /\ MinedOnce
    /\ \A t, u \in Sent : t.by = u.by /\ t.by \in Requests => t = u
    /\ \A t \in Sent : t.by \in Requests => \A i \in DOMAIN chain : chain[i] # t.by
    /\ pool \intersect wire = {}
    /\ \A r \in Requests : caller[r] \in {"idle", "calling"} => Unused(r)
    /\ \A i \in DOMAIN queue : Unused(queue[i])
    /\ pc \in Processing \ {"receipt"} => Unused(cur)

BaseInv == TypeOK /\ BudgetBounded /\ CallInv

LEMMA InitBaseInv == Init => BaseInv
  BY InitTypeOK, BudgetAssumption, RequestsAssumption
     DEF Init, BaseInv, BudgetBounded, CallInv

LEMMA NextBaseInv == BaseInv /\ [Next]_vars => BaseInv'
  BY NextTypeOK, NextCallInv, UntouchedBefore DEF BaseInv

LEMMA NextOnceInv ==
    ASSUME BaseInv, OnceInv, [Next]_vars, UNCHANGED (budget["fault"])
    PROVE  OnceInv'
<1> USE RequestsAssumption DEF BaseInv, TypeOK
<1>q. \A i \in DOMAIN queue : queue[i] \in Requests
  OBVIOUS
<1>c. pc \in Processing => cur \in Requests
  OBVIOUS
<1>u. ASSUME UNCHANGED <<nodeVars, wire>>, NEW r
      PROVE  Unused(r)' = Unused(r)
  BY <1>u DEF Unused, Sent, nodeVars
<1>n. ASSUME UNCHANGED <<nodeVars, wire>>,
             \A r \in Requests : caller'[r] \in {"idle", "calling"}
                 => caller[r] \in {"idle", "calling"},
             \A i \in DOMAIN queue' : Unused(queue'[i]),
             pc' \in Processing \ {"receipt"} => Unused(cur')
      PROVE  OnceInv'
  BY <1>n, <1>u DEF OnceInv, Sent, nodeVars, MinedOnce
<1>s. ASSUME UNCHANGED <<nodeVars, wire, callVars, cur>>,
             pc \in Processing \ {"receipt"} \/ pc' \notin Processing \ {"receipt"}
      PROVE  OnceInv'
  BY <1>s, <1>n DEF OnceInv, callVars
<1>f. ASSUME NEW answer \in Answers, Finish(answer), UNCHANGED wire
      PROVE  OnceInv'
  <2>1. \A r \in Requests : caller'[r] \in {"idle", "calling"}
            => caller[r] \in {"idle", "calling"}
    BY <1>f DEF Finish, Answers
  <2>2. UNCHANGED <<nodeVars, wire, queue>> /\ pc' = "recv"
    BY <1>f DEF Finish
  <2> QED
    BY <2>1, <2>2, <1>n DEF OnceInv, Processing, Reading, Counting
<1>1. ASSUME NEW r \in Requests, Call(r) \/ EnqueueOnClosed(r) \/ Abandon(r)
      PROVE  OnceInv'
  BY <1>1, <1>n DEF OnceInv, Call, EnqueueOnClosed, Abandon, workerVars, netVars
<1>2. ASSUME NEW r \in Requests, Enqueue(r)
      PROVE  OnceInv'
  <2>1. /\ queue' = Append(queue, r)
        /\ caller' = [caller EXCEPT ![r] = "waiting"]
        /\ UNCHANGED <<cur, pc, nodeVars, wire>>
        /\ caller[r] = "calling"
    BY <1>2 DEF Enqueue, workerVars, netVars
  <2>2. \A i \in DOMAIN queue' : Unused(queue'[i])
    BY <2>1 DEF OnceInv
  <2> QED
    BY <2>1, <2>2, <1>n DEF OnceInv
<1>3. CASE Recv
  <2>1. /\ Unused(cur')
        /\ \A i \in DOMAIN queue' : Unused(queue'[i])
        /\ UNCHANGED <<caller, nodeVars, wire>>
    BY <1>3 DEF Recv, OnceInv, netVars
  <2> QED
    BY <2>1, <1>n
<1>4. CASE GiveUpWaiting \/ GotReceipt \/ Failed \/ TimedOut
  BY <1>4, <1>f DEF GiveUpWaiting, GotReceipt, Failed, TimedOut, Answers, netVars
<1>5. CASE \/ ReadAccountNonce \/ CountPool \/ NothingPending \/ StillPending
           \/ PickNonce \/ RepickNonce
  BY <1>5, <1>s DEF ReadAccountNonce, CountPool, NothingPending, StillPending, PickNonce,
     RepickNonce, netVars, Processing, Reading, Counting
<1>o. ASSUME Unused(cur), cur \in Requests, pc = "send",
             \/ pool' = pool \union {SignedTx} /\ wire' = wire
             \/ pool' = pool /\ wire' = wire \union {SignedTx},
             UNCHANGED <<queue, chain>>, pc' \in {"receipt", "recv"},
             \A r \in Requests : caller'[r] \in {"idle", "calling"}
                 => caller[r] \in {"idle", "calling"}
      PROVE  OnceInv'
  <2>1. SignedTx.by = cur /\ Sent' = Sent \union {SignedTx} /\ SignedTx \notin Sent
    BY <1>o DEF SignedTx, Sent, Unused
  <2>2. ASSUME NEW r, r # cur, Unused(r)
        PROVE  Unused(r)'
    BY <2>1, <2>2, <1>o DEF Unused
  <2> HIDE DEF SignedTx
  <2>3. \A r \in Requests : caller'[r] \in {"idle", "calling"} => Unused(r)'
    <3>1. caller[cur] \in {"waiting", "gone"}
      BY <1>o DEF CallInv
    <3> QED
      BY <2>2, <3>1, <1>o DEF OnceInv
  <2>4. \A i \in DOMAIN queue' : Unused(queue[i])'
    BY <2>2, <1>o DEF OnceInv, CallInv
  <2>5. MinedOnce'
    BY <1>o DEF OnceInv, MinedOnce
  <2>6. \A t, u \in Sent' : t.by = u.by /\ t.by \in Requests => t = u
    BY <2>1, <1>o DEF OnceInv, Unused
  <2>7. \A t \in Sent' : t.by \in Requests => \A i \in DOMAIN chain' : chain'[i] # t.by
    BY <2>1, <1>o DEF OnceInv, Unused
  <2>8. pool' \intersect wire' = {}
    BY <2>1, <1>o DEF OnceInv, Sent
  <2>9. pc' \notin Processing \ {"receipt"}
    BY <1>o DEF Processing, Reading, Counting
  <2> QED
    BY <2>3, <2>4, <2>5, <2>6, <2>7, <2>8, <2>9, <1>o DEF OnceInv
<1>6. CASE SendAccepted
  <2>1. pc = "send" /\ pc \in Processing \ {"receipt"}
    BY <1>6 DEF SendAccepted, Processing
  <2> QED
    BY <1>6, <2>1, <1>c, <1>o DEF SendAccepted, OnceInv, callVars, netVars
<1>v. CASE SendAbandoned
  <2>1. pc = "send" /\ pc \in Processing \ {"receipt"}
    BY <1>v DEF SendAbandoned, Processing
  <2>2. /\ wire' = wire \union {SignedTx}
        /\ UNCHANGED <<queue, pool, chain>>
        /\ pc' = "recv"
        /\ \A r \in Requests : caller'[r] \in {"idle", "calling"}
                => caller[r] \in {"idle", "calling"}
    BY <1>v DEF SendAbandoned, Finish, nodeVars
  <2> QED
    BY <2>1, <2>2, <1>c, <1>o DEF OnceInv
<1>7. CASE SendTooLow
  BY <1>7, <1>s DEF SendTooLow, Processing, Reading, Counting, netVars
<1>8. CASE SendResponseLost
  BY <1>8, SpendType DEF SendResponseLost, Disturbances
<1>9. CASE SignerPanics
  <2>1. \A r \in Requests : caller'[r] \in {"idle", "calling"}
            => caller[r] \in {"idle", "calling"}
    BY <1>9 DEF SignerPanics
  <2>2. UNCHANGED <<nodeVars, wire>> /\ queue' = <<>> /\ pc' = "dead"
    BY <1>9 DEF SignerPanics, netVars
  <2> QED
    BY <2>1, <2>2, <1>n DEF Processing, Reading, Counting
<1>10. CASE MineBlock
  <2>1. PICK tx \in pool : pool' = pool \ {tx} /\ chain' = Append(chain, tx.by)
    BY <1>10 DEF MineBlock
  <2>2. UNCHANGED <<caller, queue, pc, cur, wire>>
    BY <1>10 DEF MineBlock, callVars, workerVars, netVars
  <2>3. /\ DOMAIN chain' = DOMAIN chain \union {Len(chain) + 1}
        /\ chain'[Len(chain) + 1] = tx.by
        /\ \A i \in DOMAIN chain : chain'[i] = chain[i]
    BY <2>1 DEF Transactions
  <2>s. tx \in Sent /\ tx \notin Sent' /\ Sent' \subseteq Sent
    BY <2>1, <2>2 DEF OnceInv, Sent
  <2>4. ASSUME NEW r, Unused(r)
        PROVE  Unused(r)'
    BY <2>s, <2>3, <2>4 DEF Unused
  <2>5. MinedOnce'
    BY <2>s, <2>3 DEF OnceInv, MinedOnce
  <2>6. \A t \in Sent' : t.by \in Requests => \A i \in DOMAIN chain' : chain'[i] # t.by
    BY <2>s, <2>3 DEF OnceInv
  <2>7. pool' \intersect wire' = {}
    BY <2>1, <2>2 DEF OnceInv
  <2> QED
    BY <2>s, <2>2, <2>4, <2>5, <2>6, <2>7 DEF OnceInv
<1>e. ASSUME NEW tx \in wire, Arrive(tx)
      PROVE  OnceInv'
  <2>1. Sent' \subseteq Sent /\ pool' \intersect wire' = {}
    BY <1>e DEF Arrive, Sent, OnceInv
  <2>2. UNCHANGED <<caller, queue, pc, cur, chain>>
    BY <1>e DEF Arrive, callVars, workerVars
  <2>3. \A r : Unused(r) => Unused(r)'
    BY <2>1, <2>2 DEF Unused
  <2> QED
    BY <2>1, <2>2, <2>3 DEF OnceInv, MinedOnce
<1>11. CASE ExternalSend
  <2>1. PICK n : /\ pool' = pool \union {[nonce |-> n, by |-> External]}
    BY <1>11 DEF ExternalSend
  <2>2. UNCHANGED <<caller, queue, pc, cur, chain, wire>>
    BY <1>11 DEF ExternalSend, callVars, workerVars, netVars
  <2>s. Sent' = Sent \union {[nonce |-> n, by |-> External]}
    BY <2>1, <2>2 DEF Sent
  <2>3. ASSUME NEW r \in Requests, Unused(r)
        PROVE  Unused(r)'
    BY <2>s, <2>2, <2>3 DEF Unused
  <2>4. pool' \intersect wire' = {}
    BY <2>1, <2>2 DEF OnceInv
  <2> QED
    BY <2>s, <2>2, <2>3, <2>4, <1>q, <1>c DEF OnceInv, MinedOnce
<1>12. CASE Redeploy
  <2>1. Sent' \subseteq Sent /\ chain' = <<>> /\ pool' = {}
    BY <1>12 DEF Redeploy, Sent, netVars
  <2>2. UNCHANGED <<caller, queue, pc, cur>>
    BY <1>12 DEF Redeploy, callVars, workerVars
  <2>3. \A r : Unused(r) => Unused(r)'
    BY <2>1 DEF Unused
  <2> QED
    BY <2>1, <2>2, <2>3 DEF OnceInv, MinedOnce
<1>13. CASE UNCHANGED vars
  BY <1>13, <1>s DEF vars, workerVars, netVars
<1> QED
  BY <1>1, <1>2, <1>3, <1>4, <1>5, <1>6, <1>7, <1>8, <1>9, <1>10, <1>11, <1>12, <1>13, <1>v, <1>e
     DEF Next, CallerStep, WorkerStep, NodeStep

(* A request is mined at most once, however often the worker signs it anew    *)
(* after "nonce too low" and whoever else sends, as long as no response of    *)
(* the node is lost.                                                          *)
THEOREM NeverMinedTwice == Spec => []MinedAtMostOnce
<1> DEFINE Inv == BaseInv /\ (Untouched({"fault"}) => OnceInv)
<1>1. Init => Inv
  BY InitBaseInv
     DEF Init, OnceInv, MinedOnce, Unused, Sent, Processing, Reading, Counting
<1>2. Inv /\ [Next]_vars => Inv'
  <2> SUFFICES ASSUME Inv, [Next]_vars, Untouched({"fault"})'
               PROVE  OnceInv'
    BY NextBaseInv
  <2>1. Untouched({"fault"}) /\ UNCHANGED (budget["fault"])
    BY UntouchedBefore DEF BaseInv, Disturbances
  <2> QED
    BY <2>1, NextOnceInv
<1>3. Inv => MinedAtMostOnce
  BY DEF MinedAtMostOnce, OnceInv
<1> QED
  BY <1>1, <1>2, <1>3, PTL DEF Spec

--------------------------------------------------------------------------------
(* No gap of nonces.  Why it holds: from the moment the node counted an empty *)
(* pool until the worker sends, the pool holds an unbroken run of other       *)
(* tools' transactions from the account nonce on, one for each nonce, and the *)
(* worker picks a nonce of that run or the one at its end.                    *)

Exact ==
    /\ \A t \in pool : t.by = External /\ t.nonce \in AccountNonce .. NextPendingNonce - 1
    /\ \A n \in AccountNonce .. NextPendingNonce - 1 : \E t \in pool : t.nonce = n

GapInv ==
    /\ NoGap
    /\ lastUsed # Unset => lastUsed < AccountNonce
    /\ wire = {}
    /\ pc \in {"waitCount", "waitPending"} => acct <= AccountNonce
    /\ pc = "waitPending" /\ counted = 0 => Exact
    /\ pc \in Picking \union {"send"} => Exact
    /\ pc = "send" => sent <= NextPendingNonce
    /\ pc \in {"send", "receipt"} => nonce <= sent
    /\ pc \in {"againAccount", "againCount", "againPending"} => nonce < AccountNonce

(* Mining keeps the run unbroken and its end where it was. *)
LEMMA MineBlockCounts ==
    ASSUME TypeOK, MineBlock
    PROVE  /\ AccountNonce' = AccountNonce + 1
           /\ NextPendingNonce' = NextPendingNonce
           /\ NoGap => NoGap'
           /\ Exact => Exact'
<1> USE DEF TypeOK
<1>1. PICK tx \in pool : /\ tx.nonce = AccountNonce
                         /\ pool' = pool \ {tx}
                         /\ chain' = Append(chain, tx.by)
  BY DEF MineBlock
<1>2. tx \in Transactions /\ AccountNonce \in Nat /\ NextPendingNonce \in Nat
  BY NodeNonces
<1>3. AccountNonce' = AccountNonce + 1
  BY <1>1, <1>2 DEF AccountNonce, Transactions
<1>4. NextPendingNonce' = NextPendingNonce
  <2>1. Cardinality(pool) \in Nat /\ Cardinality(pool') = Cardinality(pool) - 1
    BY <1>1, FS_RemoveElement, FS_CardinalityType
  <2> QED
    BY <2>1, <1>2, <1>3 DEF NextPendingNonce, AccountNonce
<1>5. ASSUME NoGap
      PROVE  NoGap'
  <2> SUFFICES ASSUME NEW t \in pool', t.by \in Requests,
                      NEW n \in AccountNonce + 1 .. t.nonce - 1
               PROVE  \E u \in pool' : u.nonce = n
    BY <1>3 DEF NoGap, NoGapBelow
  <2>1. t \in pool /\ t.nonce \in Nat /\ n # AccountNonce /\ n \in AccountNonce .. t.nonce - 1
    BY <1>1, <1>2 DEF Transactions
  <2>2. PICK u \in pool : u.nonce = n
    BY <2>1, <1>5 DEF NoGap, NoGapBelow
  <2> QED
    BY <2>1, <2>2, <1>1
<1>6. ASSUME Exact
      PROVE  Exact'
  <2>1. \A t \in pool' : t.nonce # AccountNonce
    BY <1>1, <1>6 DEF Exact, Transactions
  <2>2. \A n \in AccountNonce + 1 .. NextPendingNonce - 1 : \E t \in pool' : t.nonce = n
    <3> SUFFICES ASSUME NEW n \in AccountNonce + 1 .. NextPendingNonce - 1
                 PROVE  \E t \in pool' : t.nonce = n
      OBVIOUS
    <3>1. n \in AccountNonce .. NextPendingNonce - 1 /\ n # AccountNonce
      BY <1>2
    <3>2. PICK t \in pool : t.nonce = n
      BY <3>1, <1>6 DEF Exact
    <3> QED
      BY <3>1, <3>2, <1>1
  <2>3. \A t \in pool' : t.by = External /\ t.nonce \in AccountNonce + 1 .. NextPendingNonce - 1
    BY <1>1, <1>2, <1>6, <2>1 DEF Exact
  <2> QED
    BY <2>2, <2>3, <1>3, <1>4 DEF Exact
<1> QED
  BY <1>3, <1>4, <1>5, <1>6

(* Another tool extends an unbroken run at its end. *)
LEMMA ExternalSendCounts ==
    ASSUME TypeOK, ExternalSend
    PROVE  /\ AccountNonce' = AccountNonce
           /\ NextPendingNonce' = NextPendingNonce + 1
           /\ NoGap => NoGap'
           /\ Exact => Exact'
<1> USE DEF TypeOK
<1> DEFINE Tx(n) == [nonce |-> n, by |-> External]
<1>1. PICK n \in AccountNonce .. NextPendingNonce :
        Tx(n) \notin pool /\ pool' = pool \union {Tx(n)} /\ chain' = chain
  BY DEF ExternalSend
<1>2. AccountNonce \in Nat /\ NextPendingNonce \in Nat
  BY NodeNonces
<1>3. AccountNonce' = AccountNonce
  BY <1>1 DEF AccountNonce
<1>4. NextPendingNonce' = NextPendingNonce + 1
  <2>1. Cardinality(pool) \in Nat /\ Cardinality(pool') = Cardinality(pool) + 1
    BY <1>1, FS_AddElement, FS_CardinalityType
  <2> QED
    BY <2>1, <1>2, <1>3 DEF NextPendingNonce, AccountNonce
<1>5. ASSUME NoGap
      PROVE  NoGap'
  BY <1>1, <1>3, <1>5, RequestsAssumption DEF NoGap, NoGapBelow
<1>6. ASSUME Exact
      PROVE  Exact'
  <2>1. ASSUME n \in AccountNonce .. NextPendingNonce - 1
        PROVE  FALSE
    <3>1. PICK t \in pool : t.nonce = n /\ t.by = External
      BY <2>1, <1>6 DEF Exact
    <3>2. t = Tx(n)
      BY <3>1 DEF Transactions
    <3> QED
      BY <3>2, <1>1
  <2>2. n = NextPendingNonce
    BY <2>1, <1>2
  <2>3. \A m \in AccountNonce .. NextPendingNonce :
          m = NextPendingNonce \/ m \in AccountNonce .. NextPendingNonce - 1
    BY <1>2
  <2>4. \A m \in AccountNonce .. NextPendingNonce : \E t \in pool' : t.nonce = m
    <3>1. Tx(n) \in pool' /\ Tx(n).nonce = NextPendingNonce
      BY <1>1, <2>2
    <3> QED
      BY <1>1, <1>6, <2>3, <3>1 DEF Exact
  <2>5. \A t \in pool' : t.by = External /\ t.nonce \in AccountNonce .. NextPendingNonce
    BY <1>1, <1>2, <1>6 DEF Exact
  <2>6. NextPendingNonce' - 1 = NextPendingNonce
    BY <1>2, <1>4
  <2> QED
    BY <2>4, <2>5, <2>6, <1>3 DEF Exact
<1> QED
  BY <1>3, <1>4, <1>5, <1>6

(* A nonce is picked from an answer that no stale read made too low and no    *)
(* block in between too high.                                                 *)
LEMMA SoundAnswer ==
    ASSUME TypeOK, NEW v \in Views(PendingAnswer), ReadForNonce(v),
           UNCHANGED <<budget["lag"], budget["torn"]>>
    PROVE  v = PendingAnswer /\ v <= NextPendingNonce
<1>1. PendingAnswer \in Nat /\ NextPendingNonce \in Nat
  BY AnswerType, NodeNonces DEF TypeOK
<1>2. ~Spend("torn") /\ ~Spend("lag")
  BY SpendType DEF TypeOK, Disturbances
<1> QED
  BY <1>1, <1>2 DEF ReadForNonce, Read

LEMMA NextGapInv ==
    ASSUME BaseInv, GapInv, [Next]_vars,
           UNCHANGED <<budget["redeploy"], budget["lag"], budget["torn"], budget["fault"],
                       budget["late"]>>
    PROVE  GapInv'
<1> USE DEF BaseInv, TypeOK
<1>a. /\ AccountNonce \in Nat /\ NextPendingNonce \in Nat /\ AccountNonce <= NextPendingNonce
      /\ PendingAnswer \in Nat /\ AccountNonce <= PendingAnswer
  BY FS_CardinalityType DEF AccountNonce, NextPendingNonce, PendingAnswer
<1>l. lastUsed # Unset => lastUsed \in Nat
  OBVIOUS
<1>n. ASSUME UNCHANGED nodeVars
      PROVE  UNCHANGED <<AccountNonce, NextPendingNonce, NoGap, Exact>>
  BY <1>n DEF nodeVars, AccountNonce, NextPendingNonce, NoGap, NoGapBelow, Exact
<1>k. ASSUME UNCHANGED <<nodeVars, wire, lastUsed>>, pc' \in {"recv", "dead", "waitAccount"}
      PROVE  GapInv'
  BY <1>k, <1>n DEF GapInv, Picking
<1>s. ASSUME UNCHANGED <<nodeVars, wire, workerVars>>
      PROVE  GapInv'
  BY <1>s, <1>n DEF GapInv, workerVars, localVars
<1>p. pc \in {"pickPending", "againPending"} => PickedNonce(lastUsed, PendingAnswer) = PendingAnswer
  BY <1>a, <1>l DEF GapInv, PickedNonce
<1>1. CASE CallerStep
  BY <1>1, <1>s DEF CallerStep, Call, Enqueue, EnqueueOnClosed, Abandon, netVars
<1>2. CASE Recv \/ StillPending
  BY <1>2, <1>k DEF Recv, StillPending, netVars
<1>3. CASE GiveUpWaiting \/ TimedOut
  BY <1>3, <1>k DEF GiveUpWaiting, TimedOut, Finish, netVars
<1>4. CASE ReadAccountNonce
  <2>1. acct' = AccountNonce
    BY <1>4, <1>a, FreshRead DEF ReadAccountNonce
  <2>2. UNCHANGED <<nodeVars, wire, nonce, sent, lastUsed>>
    BY <1>4 DEF ReadAccountNonce, netVars
  <2>3. \/ pc' = "waitCount"
        \/ pc = "pickAccount" /\ pc' = "pickCount"
        \/ pc = "againAccount" /\ pc' = "againCount"
    BY <1>4 DEF ReadAccountNonce, Reading
  <2> QED
    BY <2>1, <2>2, <2>3, <1>a, <1>n DEF GapInv, Picking
<1>c. CASE CountPool
  <2>1. UNCHANGED <<nodeVars, wire, acct, nonce, sent, lastUsed>>
    BY <1>c DEF CountPool, netVars
  <2>2. \/ pc = "waitCount" /\ pc' = "waitPending"
        \/ pc = "pickCount" /\ pc' = "pickPending"
        \/ pc = "againCount" /\ pc' = "againPending"
    BY <1>c DEF CountPool, Counting
  <2>3. ASSUME counted' = 0
        PROVE  Exact
    <3>1. pool = {}
      BY <1>c, <2>3, FS_EmptySet DEF CountPool
    <3>2. NextPendingNonce = AccountNonce
      BY <3>1, FS_EmptySet, <1>a DEF NextPendingNonce
    <3> QED
      BY <3>1, <3>2, <1>a DEF Exact
  <2> QED
    BY <2>1, <2>2, <2>3, <1>a, <1>n DEF GapInv, Picking
<1>5. CASE NothingPending
  <2>1. PendingCount(acct, PendingAnswer) = 0
    BY <1>5, <1>a, FreshRead DEF NothingPending
  <2>2. acct <= AccountNonce /\ pc = "waitPending"
    BY <1>5 DEF NothingPending, GapInv
  <2>3. counted = 0
    BY <2>1, <2>2, <1>a DEF PendingCount, PendingAnswer
  <2>4. UNCHANGED <<nodeVars, wire, lastUsed>> /\ pc' = "pickAccount"
    BY <1>5 DEF NothingPending, netVars
  <2> QED
    BY <2>2, <2>3, <2>4, <1>n DEF GapInv, Picking
<1>6. CASE PickNonce
  <2>1. pc = "pickPending" /\ pc' = "send" /\ UNCHANGED <<nodeVars, wire, lastUsed>>
    BY <1>6 DEF PickNonce, netVars
  <2>2. nonce' = PendingAnswer /\ sent' = PendingAnswer /\ PendingAnswer <= NextPendingNonce
    BY <1>6, <2>1, <1>p, SoundAnswer DEF PickNonce
  <2> QED
    BY <2>1, <2>2, <1>a, <1>n DEF GapInv, Picking
<1>7. CASE RepickNonce
  <2>1. pc = "againPending" /\ pc' = "send" /\ UNCHANGED <<nodeVars, wire, nonce, lastUsed>>
    BY <1>7 DEF RepickNonce, netVars
  <2>2. sent' = PendingAnswer /\ PendingAnswer <= NextPendingNonce
    BY <1>7, <2>1, <1>p, SoundAnswer DEF RepickNonce
  <2>3. nonce <= PendingAnswer
    BY <2>1, <1>a DEF GapInv
  <2> QED
    BY <2>1, <2>2, <2>3, <1>a, <1>n DEF GapInv, Picking
<1>8. CASE SendAccepted
  <2>1. /\ pool' = pool \union {SignedTx}
        /\ SignedTx.nonce = sent
        /\ UNCHANGED <<chain, wire, nonce, sent, lastUsed>>
        /\ pc = "send" /\ pc' = "receipt"
    BY <1>8 DEF SendAccepted, SignedTx, localVars, netVars
  <2> HIDE DEF SignedTx
  <2>2. AccountNonce' = AccountNonce
    BY <2>1 DEF AccountNonce
  <2>3. Exact /\ sent <= NextPendingNonce
    BY <2>1 DEF GapInv
  <2>4. \A n \in AccountNonce .. sent - 1 : n \in AccountNonce .. NextPendingNonce - 1
    BY <2>3, <1>a
  <2>5. \A n \in AccountNonce .. sent - 1 : \E u \in pool' : u.nonce = n
    BY <2>1, <2>3, <2>4 DEF Exact
  <2>6. \A t \in pool' : t.by \in Requests => t.nonce = sent
    BY <2>1, <2>3, RequestsAssumption DEF Exact
  <2>7. NoGap'
    BY <2>2, <2>5, <2>6 DEF NoGap, NoGapBelow
  <2> QED
    BY <2>1, <2>2, <2>7 DEF GapInv, Picking
<1>9. CASE SendTooLow
  <2>1. UNCHANGED <<nodeVars, wire, lastUsed, nonce, sent>> /\ pc = "send" /\ pc' = "againAccount"
    BY <1>9 DEF SendTooLow, localVars, netVars
  <2>2. sent < AccountNonce
    BY <1>9, <1>a DEF SendTooLow, NodeAccepts, SignedTx
  <2>3. nonce < AccountNonce
    BY <2>1, <2>2, <1>a DEF GapInv
  <2> QED
    BY <2>1, <2>3, <1>n DEF GapInv, Picking
<1>10. CASE SendResponseLost \/ SendAbandoned \/ Failed
  BY <1>10, SpendType DEF SendResponseLost, SendAbandoned, Failed, Disturbances
<1>11. CASE GotReceipt
  <2>1. UNCHANGED <<nodeVars, wire>> /\ lastUsed' = nonce /\ pc' = "recv"
    BY <1>11 DEF GotReceipt, Finish, netVars
  <2>2. nonce < AccountNonce
    BY <1>11 DEF GotReceipt, GapInv, AccountNonce
  <2> QED
    BY <2>1, <2>2, <1>n DEF GapInv, Picking
<1>12. CASE SignerPanics
  BY <1>12, <1>k DEF SignerPanics, netVars
<1>e. ASSUME NEW tx \in wire, Arrive(tx)
      PROVE  GapInv'
  BY <1>e DEF GapInv
<1>13. CASE MineBlock
  <2>1. UNCHANGED <<pc, acct, counted, nonce, sent, lastUsed, wire>>
    BY <1>13 DEF MineBlock, workerVars, localVars, netVars
  <2>2. NoGap' /\ (Exact => Exact')
    BY <1>13, MineBlockCounts DEF GapInv
  <2>3. \A n \in Nat : /\ n < AccountNonce => n < AccountNonce'
                       /\ n <= AccountNonce => n <= AccountNonce'
    BY <1>13, <1>a, MineBlockCounts
  <2>4. NextPendingNonce' = NextPendingNonce
    BY <1>13, MineBlockCounts
  <2> QED
    BY <2>1, <2>2, <2>3, <2>4 DEF GapInv
<1>14. CASE ExternalSend
  <2>1. UNCHANGED <<pc, acct, counted, nonce, sent, lastUsed, wire>>
    BY <1>14 DEF ExternalSend, workerVars, localVars, netVars
  <2>2. NoGap' /\ (Exact => Exact') /\ AccountNonce' = AccountNonce
    BY <1>14, ExternalSendCounts DEF GapInv
  <2>3. sent <= NextPendingNonce => sent <= NextPendingNonce'
    BY <1>14, <1>a, ExternalSendCounts
  <2> QED
    BY <2>1, <2>2, <2>3 DEF GapInv
<1>15. CASE Redeploy
  BY <1>15, SpendType DEF Redeploy, Disturbances
<1>16. CASE UNCHANGED vars
  BY <1>16, <1>s DEF vars, netVars
<1> QED
  BY <1>1, <1>2, <1>3, <1>4, <1>c, <1>5, <1>6, <1>7, <1>8, <1>9, <1>10, <1>11, <1>12, <1>e,
     <1>13, <1>14, <1>15, <1>16 DEF Next, WorkerStep, NodeStep

(* No transaction of the queue waits behind a nonce nobody sent, whatever     *)
(* other tools send and whenever requests time out, as long as the chain      *)
(* stays, no call fails or is late, and each nonce is picked from an answer   *)
(* that is neither stale nor counted across a block.                          *)
THEOREM NeverBehindAGap == Spec => []NonceGapFree
<1> DEFINE kinds == {"redeploy", "lag", "torn", "fault", "late"}
           Inv == BaseInv /\ (Untouched(kinds) => GapInv)
<1>1. Init => Inv
  BY InitBaseInv DEF Init, GapInv, NoGap, Picking
<1>2. Inv /\ [Next]_vars => Inv'
  <2> SUFFICES ASSUME Inv, [Next]_vars, Untouched(kinds)'
               PROVE  GapInv'
    BY NextBaseInv
  <2>1. Untouched(kinds) /\ \A kind \in kinds : budget'[kind] = budget[kind]
    BY UntouchedBefore DEF BaseInv, Disturbances
  <2> QED
    BY <2>1, NextGapInv
<1>3. Inv => NonceGapFree
  BY DEF NonceGapFree, GapInv
<1> QED
  BY <1>1, <1>2, <1>3, PTL DEF Spec

--------------------------------------------------------------------------------
(* One stale read.  Why it does no harm: without it the tracked nonce is the  *)
(* last one mined, so an old answer makes the worker pick the next nonce all  *)
(* the same, or the 0 that it believes; that 0 is refused, and the nonces are *)
(* read anew.                                                                 *)

Smooth ==
    /\ Untouched({"external", "fault", "redeploy"})
    /\ \A r \in Requests : caller[r] \in {"idle", "calling", "waiting", "ok"}

LagInv ==
    /\ wire = {}
    /\ pc \in {"waitPending", "pickPending", "againPending"} => counted = 0
    /\ lastUsed = Unset => AccountNonce = (IF pc = "receipt" /\ pool = {} THEN 1 ELSE 0)
    /\ pc # "receipt" => pool = {}
    /\ pc # "receipt" /\ lastUsed # Unset =>
          /\ lastUsed < AccountNonce
          /\ Lags = 0 => lastUsed = AccountNonce - 1
    /\ pc \in {"send", "receipt"} => nonce <= sent /\ (Lags = 0 => nonce = sent)
    /\ pc \in {"againAccount", "againCount", "againPending"} => Lags = 1 /\ nonce < AccountNonce
    /\ pc = "send" => sent = AccountNonce \/ (sent = 0 /\ Lags = 1)
    /\ pc = "receipt" => \/ pool = {SignedTx} /\ sent = AccountNonce
                         \/ pool = {} /\ sent = AccountNonce - 1

LEMMA LagsType ==
    ASSUME BaseInv
    PROVE  Lags \in Nat
<1>1. budget["lag"] \in Nat /\ Budget["lag"] \in Nat /\ budget["lag"] <= Budget["lag"]
  BY BudgetAssumption DEF BaseInv, TypeOK, BudgetBounded, Disturbances
<1> QED
  BY <1>1 DEF Lags

(* A read returns the node's value or uses up one stale read. *)
LEMMA ReadLags ==
    ASSUME BaseInv, NEW n \in Nat, NEW v \in Views(n), Read(n, v)
    PROVE  /\ v \in Nat
           /\ \/ v = n /\ Lags' = Lags
              \/ v < n /\ Lags' = Lags + 1
<1>1. budget["lag"] \in Nat /\ Budget["lag"] \in Nat
  BY BudgetAssumption DEF BaseInv, TypeOK, Disturbances
<1>2. CASE v = n
  <2>1. UNCHANGED budget
    BY <1>2 DEF Read
  <2> QED
    BY <1>2, <2>1 DEF Lags
<1>3. CASE v # n
  <2>1. budget'["lag"] = budget["lag"] - 1
    BY <1>3 DEF Read, Spend, BaseInv, TypeOK, Disturbances
  <2> QED
    BY <1>1, <1>3, <2>1 DEF Views, Lags
<1> QED
  BY <1>2, <1>3 DEF Views

(* A call that did not get its receipt stays a call that did not. *)
LEMMA SmoothBefore ==
    ASSUME BaseInv, [Next]_vars, Smooth'
    PROVE  Smooth
<1>1. Untouched({"external", "fault", "redeploy"})
  BY UntouchedBefore DEF BaseInv, Disturbances, Smooth
<1>2. ASSUME NEW r \in Requests, caller[r] \in {"timeout", "pending", "failed", "closed", "gone"}
      PROVE  caller'[r] = caller[r]
  <2> USE DEF BaseInv, TypeOK
  <2>1. CASE CallerStep
    BY <2>1, <1>2 DEF CallerStep, Call, Enqueue, EnqueueOnClosed, Abandon
  <2>2. CASE WorkerStep
    BY <2>2, <1>2 DEF WorkerStep, Recv, ReadAccountNonce, CountPool, NothingPending,
       StillPending, GiveUpWaiting, PickNonce, RepickNonce, SendAccepted, SendTooLow,
       SendResponseLost, SendAbandoned, GotReceipt, Failed, TimedOut, SignerPanics, Finish, callVars
  <2>3. CASE NodeStep \/ UNCHANGED vars
    BY <2>3 DEF NodeStep, MineBlock, Arrive, ExternalSend, Redeploy, vars, callVars
  <2> QED
    BY <2>1, <2>2, <2>3 DEF Next
<1>3. \A r \in Requests : caller[r] \in CallStates
  BY DEF BaseInv, TypeOK
<1> QED
  BY <1>1, <1>2, <1>3 DEF Smooth, CallStates, Answers

LEMMA NextLagInv ==
    ASSUME BaseInv, LagInv, Smooth, [Next]_vars, Smooth', Lags' <= 1, Lags \in Nat
    PROVE  LagInv'
<1> USE DEF BaseInv, TypeOK
<1>a. AccountNonce \in Nat /\ NextPendingNonce \in Nat /\ PendingAnswer \in Nat
  BY NodeNonces, AnswerType
<1>p. /\ pool = {} => NextPendingNonce = AccountNonce /\ Cardinality(pool) = 0
      /\ counted = 0 => PendingAnswer = AccountNonce
  BY <1>a, FS_EmptySet DEF NextPendingNonce, PendingAnswer
<1>l. lastUsed # Unset => lastUsed \in Nat
  OBVIOUS
<1>w. cur \in Requests => caller[cur] = "waiting"
  BY DEF CallInv, Smooth
<1>b. ASSUME NEW kind \in {"external", "fault", "redeploy"}
      PROVE  ~Spend(kind)
  <2>1. budget'[kind] = budget[kind]
    BY DEF Smooth, Untouched
  <2> QED
    BY <2>1, SpendType DEF Disturbances
<1>s. ASSUME UNCHANGED <<pool, chain, wire, pc, cur, counted, nonce, sent, lastUsed, Lags>>
      PROVE  LagInv'
  BY <1>s DEF LagInv, AccountNonce, SignedTx
<1>r. ASSUME UNCHANGED <<pool, chain, wire, cur, nonce, sent, lastUsed>>,
             pc # "receipt", pc' \notin {"receipt", "send"},
             pc' \in {"againAccount", "againCount", "againPending"}
                 => pc \in {"againAccount", "againCount", "againPending"},
             pc' \in {"waitPending", "pickPending", "againPending"} => counted' = 0,
             Lags' = Lags \/ Lags' = Lags + 1
      PROVE  LagInv'
  <2>1. Lags' = 0 => Lags = 0
    BY <1>r
  <2>2. Lags = 1 => Lags' = 1
    BY <1>r
  <2>3. AccountNonce' = AccountNonce
    BY <1>r DEF AccountNonce
  <2> QED
    BY <1>r, <2>1, <2>2, <2>3 DEF LagInv
<1>f. ASSUME NEW answer, answer \notin {"ok", "waiting", "idle", "calling"}, Finish(answer)
      PROVE  pc \notin Processing
  <2> SUFFICES ASSUME cur \in Requests
               PROVE  FALSE
    OBVIOUS
  <2>1. caller'[cur] = answer
    BY <1>f, <1>w DEF Finish
  <2> QED
    BY <1>f, <2>1 DEF Smooth
<1>1. CASE CallerStep
  BY <1>1, <1>s DEF CallerStep, Call, Enqueue, EnqueueOnClosed, Abandon, workerVars, localVars,
     nodeVars, netVars, Lags
<1>2. CASE Recv
  <2>1. UNCHANGED <<pool, chain, wire, nonce, sent, lastUsed, Lags>>
    BY <1>2 DEF Recv, localVars, nodeVars, netVars, Lags
  <2>2. pc = "recv" /\ pc' = "waitAccount"
    BY <1>2 DEF Recv
  <2> QED
    BY <2>1, <2>2 DEF LagInv, AccountNonce
<1>3. CASE ReadAccountNonce
  <2>1. pc' \in Counting /\ (pc' = "againCount" => pc = "againAccount")
    BY <1>3 DEF ReadAccountNonce, Reading, Counting
  <2> QED
    BY <1>3, <2>1, <1>a, <1>r, ReadLags DEF ReadAccountNonce, Reading, Counting, nodeVars, netVars
<1>c. CASE CountPool
  <2>1. counted' = 0
    BY <1>c, <1>p DEF CountPool, Counting, LagInv
  <2>2. Lags' = Lags
    BY <1>c DEF CountPool, Lags
  <2>3. /\ pc # "receipt" /\ pc' \in {"waitPending", "pickPending", "againPending"}
        /\ pc' = "againPending" => pc = "againCount"
    BY <1>c DEF CountPool, Counting
  <2> QED
    BY <1>c, <2>1, <2>2, <2>3, <1>r DEF CountPool, nodeVars, netVars
<1>4. CASE NothingPending \/ StillPending
  <2>1. PICK v \in Views(PendingAnswer) : Read(PendingAnswer, v)
    BY <1>4 DEF NothingPending, StillPending, SeesPending
  <2>2. Lags' = Lags \/ Lags' = Lags + 1
    BY <2>1, <1>a, ReadLags
  <2>3. pc = "waitPending" /\ pc' \in {"pickAccount", "waitAccount"}
    BY <1>4 DEF NothingPending, StillPending
  <2>4. UNCHANGED <<pool, chain, wire, cur, nonce, sent, lastUsed>>
    BY <1>4 DEF NothingPending, StillPending, nodeVars, netVars
  <2> QED
    BY <2>2, <2>3, <2>4, <1>r
<1>6. CASE GiveUpWaiting \/ TimedOut
  BY <1>6, <1>f DEF GiveUpWaiting, TimedOut, Processing
<1>v. CASE SendAbandoned
  BY <1>v, <1>f DEF SendAbandoned, Processing
<1>7. CASE Failed
  BY <1>7, <1>b DEF Failed
<1>o. ASSUME NEW v \in Views(PendingAnswer), ReadForNonce(v), counted = 0, pool = {}
      PROVE  v \in Views(AccountNonce) /\ Read(AccountNonce, v)
  BY <1>o, <1>a, <1>p DEF ReadForNonce
<1>8. CASE PickNonce
  <2>1. /\ UNCHANGED <<pool, chain, wire, lastUsed>>
        /\ pc = "pickPending" /\ pc' = "send"
    BY <1>8 DEF PickNonce, nodeVars, netVars
  <2>2. PICK v \in Views(AccountNonce) :
          /\ Read(AccountNonce, v)
          /\ nonce' = PickedNonce(lastUsed, v)
          /\ sent' = PickedNonce(lastUsed, v)
    BY <1>8, <1>o, <2>1 DEF PickNonce, LagInv
  <2>3. /\ v \in Nat
        /\ \/ v = AccountNonce /\ Lags' = Lags
           \/ v < AccountNonce /\ Lags' = Lags + 1
    BY <2>2, <1>a, ReadLags
  <2>4. AccountNonce' = AccountNonce
    BY <2>1 DEF AccountNonce
  <2>5. sent' \in Nat /\ nonce' = sent'
    BY <2>2, <2>3, PickedNonceType
  <2>6. CASE v = AccountNonce
    <3>1. sent' = AccountNonce
      BY <2>1, <2>2, <2>6, <1>a, <1>l DEF PickedNonce, LagInv
    <3> QED
      BY <2>1, <2>3, <2>4, <2>5, <2>6, <3>1 DEF LagInv
  <2>7. CASE v < AccountNonce
    <3>1. Lags = 0 /\ Lags' = 1
      BY <2>3, <2>7, <1>a
    <3>2. lastUsed \in Nat /\ lastUsed = AccountNonce - 1
      BY <2>1, <2>3, <2>7, <3>1, <1>a, <1>l DEF LagInv
    <3>3. sent' = AccountNonce \/ sent' = 0
      BY <2>2, <2>3, <2>7, <3>2, <1>a, UnsetAssumption DEF PickedNonce
    <3> QED
      BY <2>1, <2>4, <2>5, <3>1, <3>2, <3>3, <1>a, UnsetAssumption DEF LagInv
  <2> QED
    BY <2>3, <2>6, <2>7
<1>9. CASE RepickNonce
  <2>1. /\ UNCHANGED <<pool, chain, wire, nonce, lastUsed>>
        /\ pc = "againPending" /\ pc' = "send"
    BY <1>9 DEF RepickNonce, nodeVars, netVars
  <2>2. PICK v \in Views(AccountNonce) :
          Read(AccountNonce, v) /\ sent' = PickedNonce(lastUsed, v)
    BY <1>9, <1>o, <2>1 DEF RepickNonce, LagInv
  <2>3. v = AccountNonce /\ Lags = 1 /\ Lags' = 1
    BY <2>1, <2>2, <1>a, ReadLags DEF LagInv
  <2>4. sent' = AccountNonce
    BY <2>1, <2>2, <2>3, <1>a, <1>l DEF PickedNonce, LagInv
  <2>5. AccountNonce' = AccountNonce
    BY <2>1 DEF AccountNonce
  <2>6. nonce <= AccountNonce
    BY <2>1, <1>a DEF LagInv
  <2> QED
    BY <2>1, <2>3, <2>4, <2>5, <2>6 DEF LagInv
<1>10. CASE SendAccepted
  <2>1. /\ pool' = pool \union {SignedTx}
        /\ UNCHANGED <<chain, wire, cur, nonce, sent, lastUsed, Lags>>
        /\ pc = "send" /\ pc' = "receipt"
    BY <1>10 DEF SendAccepted, localVars, netVars, Lags
  <2>2. AccountNonce' = AccountNonce /\ SignedTx' = SignedTx
    BY <2>1 DEF AccountNonce, SignedTx
  <2>3. sent >= AccountNonce
    BY <1>10 DEF SendAccepted, NodeAccepts, SignedTx
  <2>4. sent = AccountNonce
    BY <2>1, <2>3, <1>a DEF LagInv
  <2>5. pool' = {SignedTx}
    BY <2>1 DEF LagInv
  <2> HIDE DEF SignedTx
  <2> QED
    BY <2>1, <2>2, <2>4, <2>5 DEF LagInv
<1>11. CASE SendTooLow
  <2>1. /\ UNCHANGED <<pool, chain, wire, cur, nonce, sent, lastUsed, Lags>>
        /\ pc = "send" /\ pc' = "againAccount"
    BY <1>11 DEF SendTooLow, localVars, nodeVars, netVars, Lags
  <2>2. sent < AccountNonce /\ AccountNonce' = AccountNonce
    BY <1>11, <1>a DEF SendTooLow, NodeAccepts, SignedTx, nodeVars, AccountNonce
  <2>3. Lags = 1 /\ nonce < AccountNonce
    BY <2>1, <2>2, <1>a DEF LagInv
  <2> QED
    BY <2>1, <2>2, <2>3 DEF LagInv
<1>12. CASE SendResponseLost
  BY <1>12, <1>b DEF SendResponseLost
<1>13. CASE GotReceipt
  <2>1. /\ UNCHANGED <<pool, chain, wire, Lags>>
        /\ lastUsed' = nonce
        /\ pc = "receipt" /\ pc' = "recv"
        /\ sent < AccountNonce
    BY <1>13 DEF GotReceipt, Finish, nodeVars, netVars, Lags, AccountNonce
  <2>2. pool = {} /\ sent = AccountNonce - 1
    BY <2>1, <1>a DEF LagInv
  <2>3. nonce < AccountNonce /\ (Lags = 0 => nonce = AccountNonce - 1)
    BY <2>1, <2>2, <1>a DEF LagInv
  <2>4. AccountNonce' = AccountNonce /\ lastUsed' # Unset
    BY <2>1, UnsetAssumption DEF AccountNonce
  <2> QED
    BY <2>1, <2>2, <2>3, <2>4 DEF LagInv
<1>14. CASE SignerPanics
  <2>1. caller'[cur] = "closed" /\ cur \in Requests
    BY <1>14, <1>w DEF SignerPanics, Processing
  <2> QED
    BY <2>1 DEF Smooth
<1>15. CASE MineBlock
  <2>1. PICK tx \in pool : pool' = pool \ {tx} /\ chain' = Append(chain, tx.by)
    BY <1>15 DEF MineBlock
  <2>2. UNCHANGED <<pc, cur, wire, counted, nonce, sent, lastUsed, Lags>>
    BY <1>15 DEF MineBlock, workerVars, localVars, netVars, Lags
  <2>3. pc = "receipt" /\ pool = {SignedTx} /\ sent = AccountNonce
    BY DEF LagInv
  <2>4. pool' = {}
    BY <2>1, <2>3
  <2>5. AccountNonce' = AccountNonce + 1
    BY <2>1 DEF AccountNonce, Transactions
  <2>6. lastUsed = Unset => AccountNonce' = 1
    BY <2>3, <2>5 DEF LagInv
  <2> QED
    BY <2>2, <2>3, <2>4, <2>5, <2>6, <1>a DEF LagInv
<1>e. ASSUME NEW tx \in wire, Arrive(tx)
      PROVE  LagInv'
  BY <1>e DEF LagInv
<1>16. CASE ExternalSend \/ Redeploy
  BY <1>16, <1>b DEF ExternalSend, Redeploy
<1>17. CASE UNCHANGED vars
  BY <1>17, <1>s DEF vars, workerVars, localVars, nodeVars, netVars, Lags
<1> QED
  BY <1>1, <1>2, <1>3, <1>c, <1>4, <1>6, <1>v, <1>e, <1>7, <1>8, <1>9, <1>10, <1>11, <1>12, <1>13, <1>14,
     <1>15, <1>16, <1>17 DEF Next, WorkerStep, NodeStep

(* One answer from a backend that is behind, whenever it comes and however    *)
(* old it is, never makes the worker send another nonce than the account's    *)
(* next one, but for the 0 of a redeployed chain.                             *)
THEOREM OneLagHarmless == Spec => []TrackedNonceOutrunsLag
<1> DEFINE Inv == BaseInv /\ (Smooth /\ Lags <= 1 => LagInv)
<1>1. Init => Inv
  BY InitBaseInv DEF Init, LagInv, AccountNonce
<1>2. Inv /\ [Next]_vars => Inv'
  <2> SUFFICES ASSUME Inv, [Next]_vars, Smooth', Lags' <= 1
               PROVE  LagInv'
    BY NextBaseInv
  <2>1. Smooth
    BY SmoothBefore
  <2>2. Lags \in Nat /\ Lags <= 1
    <3>1. Lags \in Nat
      BY LagsType
    <3>2. budget'["lag"] <= budget["lag"] /\ budget["lag"] \in Nat /\ budget'["lag"] \in Nat
      BY BudgetShrinks, NextTypeOK DEF BaseInv, TypeOK, Disturbances
    <3> QED
      BY <3>1, <3>2, BudgetAssumption DEF Lags, Disturbances
  <2> QED
    BY <2>1, <2>2, NextLagInv
<1>3. Inv => TrackedNonceOutrunsLag
  BY DEF TrackedNonceOutrunsLag, Smooth, LagInv
<1> QED
  BY <1>1, <1>2, <1>3, PTL DEF Spec

================================================================================
