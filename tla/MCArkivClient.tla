---------------------------- MODULE MCArkivClient -----------------------------
(* Two tasks that share a client, two addresses, an optional chain id. *)
EXTENDS ArkivClient, FiniteSetsExt

CONSTANTS t1, t2, alice, bob

Symmetry == Permutations({t1, t2}) \union Permutations({alice, bob})

(* The node has keys of one address at most; and with the node on a foreign *)
(* chain there is one entity call at most.                                  *)
Bounds ==
    /\ Cardinality(managed) <= 1
    /\ chain # Configured => Len(requests) <= 1
================================================================================
