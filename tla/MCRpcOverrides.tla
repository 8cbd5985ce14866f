---------------------------- MODULE MCRpcOverrides ----------------------------
(* Two overrides out of five kinds, for one method or for all of them, two *)
(* concurrent calls.                                                       *)
EXTENDS RpcOverrides

CONSTANT query

MCMethods == {query}
MCDecoding == {query}

MCOverrides ==
    {[limit |-> l, n |-> 2, response |-> r, error |-> e, frequency |-> 2] :
        <<l, r, e>> \in {<<"Once", "Success", "other">>,
                         <<"Once", "Error", "sending">>,
                         <<"NTimes", "FailEachNth", "sending">>,
                         <<"Until", "Error", "unhealthy">>,
                         <<"Always", "Custom", "other">>}}
================================================================================
