--------------------------- MODULE MCTransactionQueue ---------------------------
(* Instances of TransactionQueue for TLC: how much of each disturbance. *)
EXTENDS TransactionQueue, FiniteSetsExt, TLC

None == [kind \in Disturbances |-> 0]
Storm == [[kind \in Disturbances |-> 1] EXCEPT !["lag"] = 2]
OneLoss == [None EXCEPT !["fault"] = 1]
OneLate == [None EXCEPT !["late"] = 1]
Redeployed == [None EXCEPT !["redeploy"] = 1]
Shared == [None EXCEPT !["external"] = 1, !["torn"] = 1]

(* Any two disturbances in one behaviour, of one kind or of two. *)
MaxDisturbances == 2
Spent == MapThenSumSet(LAMBDA kind : Budget[kind] - budget[kind], Disturbances)

(* Requests are numbers, and their calls leave the caller's hands in this     *)
(* order: they differ in nothing else, so that any behaviour is one of these  *)
(* after renaming.                                                            *)
CallsInOrder ==
    \A r, s \in Requests :
        r < s /\ caller[r] \in {"idle", "calling"} => caller[s] \in {"idle", "calling"}

Bounds == Spent <= MaxDisturbances /\ CallsInOrder
================================================================================
