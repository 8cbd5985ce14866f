---------------------------- MODULE ResilientProvider ---------------------------
(***************************************************************************)
(* ResilientProvider::retry (resilient_provider.rs), the loop around every *)
(* RPC call of the SDK.  A request that could not be sent is repeated at   *)
(* once, a number of times; while no backend is healthy, requests are      *)
(* repeated until a time limit for the whole call; any other error is the  *)
(* caller's.  Neither counter is reset by the other kind of error.         *)
(***************************************************************************)
EXTENDS Integers

CONSTANT MaxRetries

ASSUME RetriesAssumption == MaxRetries \in Nat

Errors == {"sending", "unhealthy", "other"}

(* What the loop keeps of a call: failed attempts to send, and whether the *)
(* time limit has passed since it started.                                 *)
Loops == [attempts : 0 .. MaxRetries, elapsed : BOOLEAN]
Started == [attempts |-> 0, elapsed |-> FALSE]

(* Mutant: the time of the last request counts, not that of the call. *)
RepeatsForever(loop, error) ==
    \/ error = "sending" /\ loop.attempts < MaxRetries
    \/ error = "unhealthy"

(* Mutant: one repetition too many. *)
RepeatsOnceMore(loop, error) ==
    \/ error = "sending" /\ loop.attempts <= MaxRetries
    \/ error = "unhealthy" /\ ~loop.elapsed

Repeats(loop, error) ==
    \/ error = "sending" /\ loop.attempts < MaxRetries
    \/ error = "unhealthy" /\ ~loop.elapsed

AfterError(loop, error) ==
    IF error = "sending" THEN [loop EXCEPT !.attempts = @ + 1] ELSE loop
================================================================================
