------------------------------ MODULE RpcOverrides ------------------------------
(***************************************************************************)
(* The response overrides of arkiv-mock (controller.rs, lib.rs) under the  *)
(* retry loop of the SDK (resilient_provider.rs).                          *)
(*                                                                         *)
(* A test adds overrides for a method or for all of them and waits on a    *)
(* callback for their use.  Every RPC handler first takes an override, if  *)
(* there is one, and holds a copy of it until it returns; the callback is  *)
(* sent when the copy is dropped.  Handlers run concurrently, the          *)
(* controller has one lock, the time limit of an override passes at any    *)
(* moment.                                                                 *)
(***************************************************************************)
EXTENDS ResilientProvider, Sequences, FiniteSets

CONSTANTS
    MaxOverrides,   \* bound on the overrides that are added
    Overrides,      \* what an override can be: a set of records
    Methods,
    Decoding,   \* methods whose handler returns a custom response
    Global,     \* the key of overrides for all methods
    Calls,      \* calls of the SDK
    MaxCalls,   \* bound on the calls that are made
    MaxUses,    \* counts of uses are told apart up to this one
    None

Ids == 1 .. MaxOverrides    \* overrides, named in the order they are added
Keys == Methods \union {Global}
Limits == {"Once", "Until", "NTimes", "Always"}
Responses == {"Error", "Success", "FailEachNth", "Custom"}

ASSUME OverridesAssumption ==
    /\ Overrides \subseteq [limit : Limits, n : Nat, response : Responses,
                         error : Errors, frequency : 1 .. MaxUses]
    /\ \A spec \in Overrides : spec.n <= MaxUses
ASSUME NamesAssumption ==
    /\ Global \notin Methods
    /\ Decoding \subseteq Methods
    /\ None \notin Nat \union Methods
    /\ MaxCalls \in Nat
    /\ MaxOverrides \in Nat
    /\ MaxUses \in Nat

VARIABLES
    queues,     \* the overrides map: the wrappers of each key
    passed,     \* overrides whose time limit has passed
    call,       \* what each call has come to
    started,    \* calls made so far
    untold,     \* of each override, uses less the callbacks sent for it
    added,      \* every override ever added, with its key, in order
    used        \* how often each override was applied, up to MaxUses

nodeVars == <<queues, passed>>
ghostVars == <<added, used>>
vars == <<nodeVars, call, started, untold, ghostVars>>

Wrappers == [id : Ids, spec : Overrides, calls : 0 .. MaxUses]
Idle == [pc |-> "idle", method |-> None, loop |-> Started, held |-> None, answer |-> "ok"]

TypeOK ==
    /\ queues \in [Keys -> SUBSET Wrappers]
    /\ passed \in SUBSET Ids
    /\ call \in [Calls -> [pc : {"idle", "asking", "working", "answered", "failed"},
                           method : Methods \union {None}, loop : Loops,
                           held : Ids \union {None}, answer : Errors \union {"ok"}]]
    /\ \A c \in Calls : call[c].held # None => call[c].pc = "working"
    /\ started \in 0 .. MaxCalls
    /\ untold \in [Ids -> Int]
    /\ added \in Seq([key : Keys, spec : Overrides])
    /\ used \in [Ids -> 0 .. MaxUses]

Init ==
    /\ queues = [k \in Keys |-> {}]
    /\ passed = {}
    /\ call = [c \in Calls |-> Idle]
    /\ started = 0
    /\ untold = [i \in Ids |-> 0]
    /\ added = <<>>
    /\ used = [i \in Ids |-> 0]

--------------------------------------------------------------------------------
(* The controller.  Wrappers are added at the end of a queue and retained in  *)
(* their order, so a queue is the set of its wrappers, oldest id first.       *)

(* should_remove_override *)
Outdated(w) ==
    CASE w.spec.limit = "Once" -> w.calls >= 1
      [] w.spec.limit = "NTimes" -> w.calls >= w.spec.n
      [] w.spec.limit = "Until" -> w.id \in passed
      [] w.spec.limit = "Always" -> FALSE

(* should_use_override: not the opposite, "once" relies on the clean-up. *)
Usable(w) ==
    CASE w.spec.limit \in {"Once", "Always"} -> TRUE
      [] w.spec.limit = "NTimes" -> w.calls < w.spec.n
      [] w.spec.limit = "Until" -> w.id \notin passed

(* cleanup_outdated_overrides.  A removed wrapper has its callback taken away *)
(* first, so that dropping it tells nobody.  Mutant: it is merely dropped.    *)
Cleaned(qs) == [k \in Keys |-> {w \in qs[k] : ~Outdated(w)}]

ToldByRemoval(qs) ==
    {i \in Ids : \E k \in Keys : \E w \in qs[k] : w.id = i /\ Outdated(w)}
ToldByCleanup(qs) == {}

(* Mutant: the newest wrapper is looked at. *)
IsLast(w, ws) == \A v \in ws : v.id <= w.id

IsFirst(w, ws) == \A v \in ws : w.id <= v.id

(* get_first_valid_override: only the first of a queue is looked at. *)
Offered(qs, key) == {w \in qs[key] : IsFirst(w, qs[key]) /\ Usable(w)}

(* The override that a call of a method gets, if there is one. *)
Chosen(qs, method) ==
    IF Offered(qs, Global) # {} THEN Offered(qs, Global) ELSE Offered(qs, method)

(* A count beyond the bound stands for the one a period lower. *)
CountUp(w) ==
    [w EXCEPT !.calls = IF @ < MaxUses THEN @ + 1 ELSE @ + 1 - w.spec.frequency]

Counted(qs, w) ==
    [k \in Keys |-> IF w \in qs[k] THEN (qs[k] \ {w}) \union {CountUp(w)} ELSE qs[k]]

(* global_override, override_rpc *)
AddOverride(i, key, spec) ==
    /\ i = Len(added) + 1
    /\ queues' = [queues EXCEPT ![key] = @ \union {[id |-> i, spec |-> spec, calls |-> 0]}]
    /\ added' = Append(added, [key |-> key, spec |-> spec])
    /\ UNCHANGED <<passed, call, started, untold, used>>

TimePasses(i) ==
    /\ i \in DOMAIN added \ passed
    /\ added[i].spec.limit = "Until"
    /\ passed' = passed \union {i}
    /\ UNCHANGED <<queues, call, started, untold, ghostVars>>

--------------------------------------------------------------------------------
(* Calls *)

StartCall(c, m) ==
    /\ call[c].pc = "idle"
    /\ started < MaxCalls
    /\ started' = started + 1
    /\ call' = [call EXCEPT ![c] = [Idle EXCEPT !.pc = "asking", !.method = m]]
    /\ UNCHANGED <<nodeVars, untold, ghostVars>>

(* should_fail, with the count of this very use. *)
Fails(w) ==
    \/ w.spec.response = "Error"
    \/ w.spec.response = "FailEachNth" /\ w.calls % w.spec.frequency = 0

(* next_override and return_override.  An error or a custom response is       *)
(* returned at once, and dropping the copy sends the callback; otherwise the  *)
(* handler goes on and holds the copy.                                        *)
Answer(c, answer) ==
    call' = [call EXCEPT ![c].pc = "answered", ![c].answer = answer, ![c].held = None]

Work(c, i) == call' = [call EXCEPT ![c].pc = "working", ![c].held = i]

(* The callbacks that are sent, with the uses they are sent for. *)
Signal(uses, sent) ==
    untold' = [i \in Ids |-> untold[i] + (IF i \in uses THEN 1 ELSE 0)
                                       - (IF i \in sent THEN 1 ELSE 0)]

Apply(c, w, cleaned) ==
    LET custom == w.spec.response = "Custom" /\ call[c].method \in Decoding
    IN  \/ Fails(w) /\ Answer(c, w.spec.error) /\ Signal({w.id}, {w.id} \union cleaned)
        \/ ~Fails(w) /\ custom /\ Answer(c, "ok") /\ Signal({w.id}, {w.id} \union cleaned)
        \/ ~Fails(w) /\ ~custom /\ Work(c, w.id) /\ Signal({w.id}, cleaned)

(* take_next_override under the lock, and what the handler does with it.  The *)
(* clock does not move while the lock is held.                                *)
TakeNone(c, cleaned) ==
    /\ Chosen(cleaned, call[c].method) = {}
    /\ queues' = cleaned
    /\ Work(c, None)
    /\ Signal({}, ToldByCleanup(queues))
    /\ UNCHANGED used

TakeFirst(c, w, cleaned) ==
    LET counted == Counted(cleaned, w)
    IN  /\ queues' = Cleaned(counted)
        /\ used' = [used EXCEPT ![w.id] = IF @ < MaxUses THEN @ + 1 ELSE @]
        /\ Apply(c, CountUp(w), ToldByCleanup(queues) \union ToldByCleanup(counted))

TakeOverride(c) ==
    LET cleaned == Cleaned(queues)
    IN  /\ call[c].pc = "asking"
        /\ \/ TakeNone(c, cleaned)
           \/ \E w \in Chosen(cleaned, call[c].method) : TakeFirst(c, w, cleaned)
        /\ UNCHANGED <<passed, started, added>>

(* The handler returns, whatever it did; its copy is dropped. *)
FinishHandler(c) ==
    /\ call[c].pc = "working"
    /\ Answer(c, "ok")
    /\ Signal({}, {call[c].held} \ {None})
    /\ UNCHANGED <<nodeVars, started, ghostVars>>

ReturnResult(c) ==
    /\ call[c].pc = "answered"
    /\ call[c].answer = "ok"
    /\ call' = [call EXCEPT ![c] = Idle]
    /\ UNCHANGED <<nodeVars, started, untold, ghostVars>>

Repeat(c) ==
    /\ call[c].pc = "answered"
    /\ Repeats(call[c].loop, call[c].answer)
    /\ call' = [call EXCEPT ![c].pc = "asking", ![c].answer = "ok",
                           ![c].loop = AfterError(@, call[c].answer)]
    /\ UNCHANGED <<nodeVars, started, untold, ghostVars>>

GiveUp(c) ==
    /\ call[c].pc = "answered"
    /\ call[c].answer # "ok"
    /\ ~Repeats(call[c].loop, call[c].answer)
    /\ call' = [call EXCEPT ![c] = [Idle EXCEPT !.pc = "failed"]]
    /\ UNCHANGED <<nodeVars, started, untold, ghostVars>>

(* backend_health_timeout_secs have passed since the call started. *)
Elapse(c) ==
    /\ call[c].pc \in {"asking", "working", "answered"}
    /\ ~call[c].loop.elapsed
    /\ call' = [call EXCEPT ![c].loop.elapsed = TRUE]
    /\ UNCHANGED <<nodeVars, started, untold, ghostVars>>

--------------------------------------------------------------------------------
CallStep(c) ==
    \/ TakeOverride(c)
    \/ FinishHandler(c)
    \/ ReturnResult(c)
    \/ Repeat(c)
    \/ GiveUp(c)

Next ==
    \/ \E i \in Ids, key \in Keys, spec \in Overrides : AddOverride(i, key, spec)
    \/ \E i \in Ids : TimePasses(i)
    \/ \E c \in Calls : CallStep(c) \/ Elapse(c) \/ \E m \in Methods : StartCall(c, m)

Spec == Init /\ [][Next]_vars

(* A handler is polled until it returns, the loop goes on, and time passes. *)
Fairness == \A c \in Calls : WF_vars(CallStep(c)) /\ WF_vars(Elapse(c))

FairSpec == Spec /\ Fairness

--------------------------------------------------------------------------------
(* Properties *)

Copies(i) == Cardinality({c \in Calls : call[c].held = i})

(* A test learns of every use of an override, exactly once, and of nothing  *)
(* else: each use has sent a callback or its handler is still at work with  *)
(* its copy, though the copies are dropped by concurrent handlers and the   *)
(* wrappers by the clean-up of any other call.                              *)
SignalPerUse == \A i \in Ids : untold[i] = Copies(i)

Exhausted(i, spec) ==
    \/ spec.limit = "Once" /\ used[i] = 1
    \/ spec.limit = "NTimes" /\ used[i] = spec.n
    \/ spec.limit = "Until" /\ i \in passed

(* The overrides of one method apply one after the other, in the order in   *)
(* which they were added, and never more often than their limit, whichever  *)
(* concurrent calls use them up.                                            *)
UsedInOrder ==
    \A i \in DOMAIN added :
        used[i] > 0 =>
            /\ added[i].spec.limit = "Once" => used[i] = 1
            /\ added[i].spec.limit = "NTimes" => used[i] <= added[i].spec.n
            /\ \A j \in 1 .. i - 1 :
                added[j].key = added[i].key => Exhausted(j, added[j].spec)

(* Every call of the SDK ends with a result or an error, whatever the       *)
(* overrides answer, those that fail for ever included: each kind of error  *)
(* that is repeated has a limit that the other kind does not move.          *)
CallsEnd == \A c \in Calls : call[c].pc = "asking" ~> call[c].pc \in {"idle", "failed"}
================================================================================
