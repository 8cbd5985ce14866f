-------------------------- MODULE RpcOverrides_proofs --------------------------
(* Theorems about RpcOverrides, for any overrides, methods and calls and any   *)
(* of its bounds.                                                             *)
EXTENDS RpcOverrides, FiniteSetTheorems, TLAPS

CallRecords ==
    [pc : {"idle", "asking", "working", "answered", "failed"},
     method : Methods \union {None}, loop : Loops,
     held : Ids \union {None}, answer : Errors \union {"ok"}]

(* A call that is on its way has a method. *)
UnderWay ==
    \A c \in Calls :
        call[c].pc \in {"asking", "working", "answered"} => call[c].method \in Methods

TInv == TypeOK /\ UnderWay

(* The calls but one stay as they are. *)
Others(c) == \A d \in Calls \ {c} : call'[d] = call[d]

LEMMA IdleType == Idle \in CallRecords /\ [Idle EXCEPT !.pc = "failed"] \in CallRecords
<1>1. Started \in Loops
  BY RetriesAssumption DEF Started, Loops
<1> QED
  BY <1>1 DEF Idle, CallRecords

(* The loop around a request stays within its number of repetitions. *)
LEMMA LoopType ==
    ASSUME NEW l \in Loops, NEW e
    PROVE  /\ Repeats(l, e) => AfterError(l, e) \in Loops /\ e \in Errors
           /\ [l EXCEPT !.elapsed = TRUE] \in Loops
<1>1. ASSUME Repeats(l, e), e = "sending"
      PROVE  [l EXCEPT !.attempts = @ + 1] \in Loops
  <2>1. l.attempts + 1 \in 0 .. MaxRetries
    BY <1>1, RetriesAssumption DEF Loops, Repeats
  <2> QED
    BY <2>1 DEF Loops
<1>2. [l EXCEPT !.elapsed = TRUE] \in Loops
  BY DEF Loops
<1>3. Repeats(l, e) => e \in Errors
  BY DEF Repeats, Errors
<1> QED
  BY <1>1, <1>2, <1>3 DEF AfterError

LEMMA NoneIsNoId == None \notin Ids /\ None \notin Methods
  BY NamesAssumption DEF Ids

(* What each step does to its call. *)
LEMMA AnswerCall ==
    ASSUME TInv, NEW c \in Calls, NEW answer \in Errors \union {"ok"}, Answer(c, answer),
           call[c].pc \in {"asking", "working"}
    PROVE  /\ call' \in [Calls -> CallRecords] /\ Others(c)
           /\ call'[c].pc = "answered" /\ call'[c].held = None
           /\ call'[c].method = call[c].method
<1> DEFINE r == [call[c] EXCEPT !.pc = "answered", !.answer = answer, !.held = None]
<1>1. call[c] \in CallRecords /\ call \in [Calls -> CallRecords]
  BY DEF TInv, TypeOK, CallRecords
<1>2. r \in CallRecords
  BY <1>1 DEF CallRecords
<1>3. r.pc = "answered" /\ r.held = None /\ r.method = call[c].method
  BY <1>1 DEF CallRecords
<1>4. call' = [call EXCEPT ![c] = r]
  BY DEF Answer
<1> HIDE DEF r
<1> QED
  BY <1>1, <1>2, <1>3, <1>4 DEF Others

LEMMA WorkCall ==
    ASSUME TInv, NEW c \in Calls, NEW i \in Ids \union {None}, Work(c, i), call[c].pc = "asking"
    PROVE  /\ call' \in [Calls -> CallRecords] /\ Others(c)
           /\ call'[c].pc = "working" /\ call'[c].held = i
           /\ call'[c].method = call[c].method
<1> DEFINE r == [call[c] EXCEPT !.pc = "working", !.held = i]
<1>1. call[c] \in CallRecords /\ call \in [Calls -> CallRecords]
  BY DEF TInv, TypeOK, CallRecords
<1>2. r \in CallRecords
  BY <1>1 DEF CallRecords
<1>3. r.pc = "working" /\ r.held = i /\ r.method = call[c].method
  BY <1>1 DEF CallRecords
<1>4. call' = [call EXCEPT ![c] = r]
  BY DEF Work
<1> HIDE DEF r
<1> QED
  BY <1>1, <1>2, <1>3, <1>4 DEF Others

(* The steps of the retry loop take nothing and return nothing. *)
KeepsCopy(c) ==
    /\ call' \in [Calls -> CallRecords] /\ Others(c)
    /\ call'[c].held = call[c].held
    /\ call'[c].held # None => call'[c].pc = "working"
    /\ call'[c].pc \in {"asking", "working", "answered"} => call'[c].method \in Methods
    /\ UNCHANGED <<nodeVars, untold, ghostVars>>
    /\ started' \in 0 .. MaxCalls

LEMMA LoopCall ==
    ASSUME TInv, NEW c \in Calls,
           \/ \E m \in Methods : StartCall(c, m)
           \/ ReturnResult(c) \/ Repeat(c) \/ GiveUp(c) \/ Elapse(c)
    PROVE  KeepsCopy(c)
<1>1. /\ call[c] \in CallRecords /\ call \in [Calls -> CallRecords]
      /\ call[c].held # None => call[c].pc = "working"
      /\ call[c].pc \in {"asking", "working", "answered"} => call[c].method \in Methods
      /\ started \in 0 .. MaxCalls
  BY DEF TInv, TypeOK, UnderWay, CallRecords
<1>r. ASSUME NEW r \in CallRecords, call' = [call EXCEPT ![c] = r], r.held = call[c].held,
             r.held # None => r.pc = "working",
             r.pc \in {"asking", "working", "answered"} => r.method \in Methods,
             UNCHANGED <<nodeVars, untold, ghostVars>>, started' \in 0 .. MaxCalls
      PROVE  KeepsCopy(c)
  BY <1>1, <1>r DEF Others, KeepsCopy
<1>2. ASSUME NEW m \in Methods, StartCall(c, m)
      PROVE  KeepsCopy(c)
  <2> DEFINE r == [Idle EXCEPT !.pc = "asking", !.method = m]
  <2>1. r \in CallRecords
    BY IdleType DEF Idle, CallRecords
  <2>2. r.held = None /\ r.pc = "asking" /\ r.method = m
    BY DEF Idle
  <2>3. call' = [call EXCEPT ![c] = r] /\ call[c].held = None
        /\ UNCHANGED <<nodeVars, untold, ghostVars>>
    BY <1>1, <1>2 DEF StartCall
  <2>4. started' \in 0 .. MaxCalls
    <3>1. started < MaxCalls /\ started' = started + 1
      BY <1>2 DEF StartCall
    <3> QED
      BY <1>1, <3>1, NamesAssumption
  <2> HIDE DEF r
  <2> QED
    BY <1>r, <2>1, <2>2, <2>3, <2>4
<1>3. ASSUME ReturnResult(c)
      PROVE  KeepsCopy(c)
  <2>1. Idle \in CallRecords /\ Idle.held = None /\ Idle.pc = "idle"
    BY IdleType DEF Idle
  <2>2. call' = [call EXCEPT ![c] = Idle] /\ call[c].held = None
        /\ UNCHANGED <<nodeVars, untold, ghostVars, started>>
    BY <1>1, <1>3 DEF ReturnResult
  <2> QED
    BY <1>r, <1>1, <2>1, <2>2
<1>4. ASSUME Repeat(c)
      PROVE  KeepsCopy(c)
  <2> DEFINE r == [call[c] EXCEPT !.pc = "asking", !.answer = "ok",
                                  !.loop = AfterError(@, call[c].answer)]
  <2>1. call[c].loop \in Loops
    BY <1>1 DEF CallRecords
  <2>2. AfterError(call[c].loop, call[c].answer) \in Loops
    BY <1>4, <2>1, LoopType DEF Repeat
  <2>3. r \in CallRecords
    BY <1>1, <2>2 DEF CallRecords
  <2>4. r.held = call[c].held /\ r.pc = "asking" /\ r.method = call[c].method
    BY <1>1 DEF CallRecords
  <2>5. call' = [call EXCEPT ![c] = r] /\ call[c].held = None /\ call[c].method \in Methods
        /\ UNCHANGED <<nodeVars, untold, ghostVars, started>>
    BY <1>1, <1>4 DEF Repeat
  <2> HIDE DEF r
  <2> QED
    BY <1>r, <1>1, <2>3, <2>4, <2>5
<1>5. ASSUME GiveUp(c)
      PROVE  KeepsCopy(c)
  <2> DEFINE r == [Idle EXCEPT !.pc = "failed"]
  <2>1. r \in CallRecords /\ r.held = None /\ r.pc = "failed"
    BY IdleType DEF Idle
  <2>2. call' = [call EXCEPT ![c] = r] /\ call[c].held = None
        /\ UNCHANGED <<nodeVars, untold, ghostVars, started>>
    BY <1>1, <1>5 DEF GiveUp
  <2> HIDE DEF r
  <2> QED
    BY <1>r, <1>1, <2>1, <2>2
<1>6. ASSUME Elapse(c)
      PROVE  KeepsCopy(c)
  <2> DEFINE r == [call[c] EXCEPT !.loop = [@ EXCEPT !.elapsed = TRUE]]
  <2>1. call[c].loop \in Loops
    BY <1>1 DEF CallRecords
  <2>2. [call[c].loop EXCEPT !.elapsed = TRUE] \in Loops
    BY <2>1, LoopType
  <2>3. r \in CallRecords
    BY <1>1, <2>2 DEF CallRecords
  <2>4. r.held = call[c].held /\ r.pc = call[c].pc /\ r.method = call[c].method
    BY <1>1 DEF CallRecords
  <2>5. call' = [call EXCEPT ![c] = r]
        /\ UNCHANGED <<nodeVars, untold, ghostVars, started>>
    BY <1>6 DEF Elapse
  <2> HIDE DEF r
  <2> QED
    BY <1>r, <1>1, <2>3, <2>4, <2>5
<1> QED
  BY <1>2, <1>3, <1>4, <1>5, <1>6

--------------------------------------------------------------------------------
(* The wrappers *)

QueueMaps == [Keys -> SUBSET Wrappers]

LEMMA CleanedType ==
    ASSUME NEW qs \in QueueMaps
    PROVE  Cleaned(qs) \in QueueMaps
  BY DEF QueueMaps, Cleaned

(* Counting a use changes nothing of a wrapper but its count. *)
LEMMA CountUpType ==
    ASSUME NEW w \in Wrappers
    PROVE  /\ CountUp(w) \in Wrappers
           /\ CountUp(w).id = w.id /\ CountUp(w).spec = w.spec
           /\ w.calls < MaxUses => CountUp(w).calls = w.calls + 1
<1> DEFINE calls == IF w.calls < MaxUses THEN w.calls + 1 ELSE w.calls + 1 - w.spec.frequency
<1>1. w.spec.frequency \in 1 .. MaxUses /\ w.calls \in 0 .. MaxUses
  BY OverridesAssumption DEF Wrappers
<1>2. calls \in 0 .. MaxUses
  BY <1>1, NamesAssumption
<1>3. w.calls < MaxUses => calls = w.calls + 1
  OBVIOUS
<1>4. CountUp(w) = [w EXCEPT !.calls = calls]
  BY DEF CountUp
<1> HIDE DEF calls
<1> QED
  BY <1>2, <1>3, <1>4 DEF Wrappers

LEMMA CountedType ==
    ASSUME NEW qs \in QueueMaps, NEW w \in Wrappers
    PROVE  Counted(qs, w) \in QueueMaps
  BY CountUpType DEF QueueMaps, Counted

(* A call gets the first usable wrapper of the queue for all methods or of its own. *)
LEMMA ChosenType ==
    ASSUME NEW qs \in QueueMaps, NEW m \in Methods, NEW w \in Chosen(qs, m)
    PROVE  /\ w \in Wrappers
           /\ \E k \in Keys : w \in qs[k] /\ IsFirst(w, qs[k]) /\ Usable(w)
<1>1. Global \in Keys /\ m \in Keys
  BY DEF Keys
<1>2. \E k \in Keys : w \in Offered(qs, k)
  BY <1>1 DEF Chosen
<1> QED
  BY <1>2 DEF Offered, QueueMaps

(* The uses that no callback was sent for move with the copy of the call. *)
Balanced(c) ==
    untold' = [i \in Ids |-> untold[i] + (IF call'[c].held = i THEN 1 ELSE 0)
                                       - (IF call[c].held = i THEN 1 ELSE 0)]

(* What a call that may take an override does to its own record. *)
Takes(c) ==
    /\ call' \in [Calls -> CallRecords] /\ Others(c)
    /\ call'[c].held # None => call'[c].pc = "working"
    /\ call'[c].method \in Methods
    /\ Balanced(c)

LEMMA ApplyCall ==
    ASSUME TInv, NEW c \in Calls, call[c].pc = "asking", NEW w \in Wrappers,
           Apply(c, w, {})
    PROVE  Takes(c)
<1>1. /\ call[c].held = None /\ call[c].method \in Methods /\ untold \in [Ids -> Int]
      /\ w.id \in Ids /\ w.spec.error \in Errors
  BY OverridesAssumption DEF TInv, TypeOK, UnderWay, Wrappers
<1>2. ASSUME NEW answer \in Errors \union {"ok"}, Answer(c, answer),
             Signal({w.id}, {w.id} \union {})
      PROVE  Takes(c)
  <2>1. /\ call' \in [Calls -> CallRecords] /\ Others(c)
        /\ call'[c].held = None
        /\ call'[c].method = call[c].method
    BY <1>2, AnswerCall
  <2>2. Balanced(c)
    BY <1>1, <1>2, <2>1, NoneIsNoId DEF Balanced, Signal
  <2> QED
    BY <1>1, <2>1, <2>2 DEF Takes
<1>3. ASSUME Work(c, w.id), Signal({w.id}, {})
      PROVE  Takes(c)
  <2>1. /\ call' \in [Calls -> CallRecords] /\ Others(c)
        /\ call'[c].pc = "working" /\ call'[c].held = w.id
        /\ call'[c].method = call[c].method
    BY <1>1, <1>3, WorkCall
  <2>2. Balanced(c)
    BY <1>1, <1>3, <2>1, NoneIsNoId DEF Balanced, Signal
  <2> QED
    BY <1>1, <2>1, <2>2 DEF Takes
<1> QED
  BY <1>1, <1>2, <1>3 DEF Apply

LEMMA TakeCall ==
    ASSUME TInv, NEW c \in Calls, TakeOverride(c)
    PROVE  Takes(c) /\ queues' \in QueueMaps /\ used' \in [Ids -> 0 .. MaxUses]
<1> DEFINE cleaned == Cleaned(queues)
<1>1. /\ queues \in QueueMaps /\ used \in [Ids -> 0 .. MaxUses]
      /\ call[c].held = None /\ call[c].method \in Methods /\ untold \in [Ids -> Int]
      /\ call[c].pc = "asking"
  BY DEF TInv, TypeOK, UnderWay, QueueMaps, TakeOverride
<1>2. cleaned \in QueueMaps
  BY <1>1, CleanedType
<1>3. CASE TakeNone(c, cleaned)
  <2>1. Work(c, None) /\ Signal({}, {}) /\ queues' = cleaned /\ used' = used
    BY <1>3 DEF TakeNone, ToldByCleanup
  <2>2. /\ call' \in [Calls -> CallRecords] /\ Others(c)
        /\ call'[c].pc = "working" /\ call'[c].held = None
        /\ call'[c].method = call[c].method
    BY <1>1, <2>1, WorkCall
  <2>3. Balanced(c)
    BY <1>1, <2>1, <2>2, NoneIsNoId DEF Balanced, Signal
  <2> QED
    BY <1>1, <1>2, <2>1, <2>2, <2>3 DEF Takes
<1>4. ASSUME NEW w \in Chosen(cleaned, call[c].method), TakeFirst(c, w, cleaned)
      PROVE  Takes(c) /\ queues' \in QueueMaps /\ used' \in [Ids -> 0 .. MaxUses]
  <2>1. w \in Wrappers
    BY <1>1, <1>2, ChosenType
  <2>2. Takes(c)
    BY <1>1, <1>4, <2>1, CountUpType, ApplyCall DEF TakeFirst, ToldByCleanup
  <2>3. Cleaned(Counted(cleaned, w)) \in QueueMaps
    BY <1>2, <2>1, CountedType, CleanedType
  <2>4. used' \in [Ids -> 0 .. MaxUses]
    BY <1>1, <1>4, <2>1, NamesAssumption DEF TakeFirst, Wrappers
  <2> QED
    BY <1>4, <2>2, <2>3, <2>4 DEF TakeFirst
<1> HIDE DEF cleaned
<1> QED
  BY <1>3, <1>4 DEF TakeOverride, cleaned

LEMMA FinishCall ==
    ASSUME TInv, NEW c \in Calls, FinishHandler(c)
    PROVE  Takes(c)
<1>1. /\ call[c].held \in Ids \union {None} /\ call[c].method \in Methods
      /\ untold \in [Ids -> Int] /\ call[c].pc = "working" /\ call[c] \in CallRecords
  BY DEF TInv, TypeOK, UnderWay, FinishHandler, CallRecords
<1>2. Answer(c, "ok") /\ Signal({}, {call[c].held} \ {None})
  BY DEF FinishHandler
<1>3. /\ call' \in [Calls -> CallRecords] /\ Others(c)
      /\ call'[c].held = None
      /\ call'[c].method = call[c].method
  BY <1>1, <1>2, AnswerCall
<1>4. Balanced(c)
  BY <1>1, <1>2, <1>3, NoneIsNoId DEF Balanced, Signal
<1> QED
  BY <1>1, <1>3, <1>4 DEF Takes

--------------------------------------------------------------------------------
(* Types, and the callbacks *)

LEMMA InitType == Init => TInv
<1> SUFFICES ASSUME Init PROVE TInv
  OBVIOUS
<1>1. \A c \in Calls : call[c] = Idle
  BY DEF Init
<1>2. call \in [Calls -> CallRecords]
  BY IdleType DEF Init
<1>3. 0 \in 0 .. MaxCalls /\ 0 \in 0 .. MaxUses
  BY NamesAssumption
<1>4. queues \in [Keys -> SUBSET Wrappers] /\ passed \in SUBSET Ids /\ started \in 0 .. MaxCalls
      /\ untold \in [Ids -> Int] /\ used \in [Ids -> 0 .. MaxUses]
      /\ added \in Seq([key : Keys, spec : Overrides])
  BY <1>3 DEF Init
<1>5. \A c \in Calls : call[c].held = None /\ call[c].pc = "idle"
  BY <1>1 DEF Idle
<1> QED
  BY <1>2, <1>4, <1>5 DEF TInv, TypeOK, UnderWay, CallRecords

(* A step of one call leaves the records of the others as they were. *)
LEMMA CallsType ==
    ASSUME TInv, NEW c \in Calls, call' \in [Calls -> CallRecords], Others(c),
           call'[c].held # None => call'[c].pc = "working",
           call'[c].pc \in {"asking", "working", "answered"} => call'[c].method \in Methods
    PROVE  /\ \A d \in Calls : call'[d].held # None => call'[d].pc = "working"
           /\ UnderWay'
  BY DEF TInv, TypeOK, UnderWay, Others

LEMMA AddType ==
    ASSUME TInv, NEW i \in Ids, NEW key \in Keys, NEW spec \in Overrides,
           AddOverride(i, key, spec)
    PROVE  /\ queues' \in QueueMaps
           /\ added' \in Seq([key : Keys, spec : Overrides])
<1> DEFINE new == [id |-> i, spec |-> spec, calls |-> 0]
<1>1. 0 \in 0 .. MaxUses
  BY NamesAssumption
<1>2. new \in Wrappers
  BY <1>1 DEF Wrappers
<1>3. queues' = [queues EXCEPT ![key] = @ \union {new}]
  BY DEF AddOverride
<1>4. queues \in [Keys -> SUBSET Wrappers] /\ added \in Seq([key : Keys, spec : Overrides])
  BY DEF TInv, TypeOK
<1>5. added' = Append(added, [key |-> key, spec |-> spec])
  BY DEF AddOverride
<1> HIDE DEF new
<1>6. queues' \in QueueMaps
  BY <1>2, <1>3, <1>4 DEF QueueMaps
<1>7. [key |-> key, spec |-> spec] \in [key : Keys, spec : Overrides]
  OBVIOUS
<1> QED
  BY <1>4, <1>5, <1>6, <1>7

LEMMA TakesType ==
    ASSUME TInv, NEW c \in Calls, Takes(c)
    PROVE  /\ call' \in [Calls -> CallRecords]
           /\ \A d \in Calls : call'[d].held # None => call'[d].pc = "working"
           /\ UnderWay' /\ untold' \in [Ids -> Int]
<1>1. untold \in [Ids -> Int]
  BY DEF TInv, TypeOK
<1>2. untold' \in [Ids -> Int]
  BY <1>1 DEF Takes, Balanced
<1> QED
  BY <1>2, CallsType DEF Takes

LEMMA StepType == TInv /\ [Next]_vars => TInv'
<1> SUFFICES ASSUME TInv, [Next]_vars PROVE TInv'
  OBVIOUS
<1> USE DEF CallRecords, QueueMaps
<1>1. CASE UNCHANGED vars
  BY <1>1 DEF TInv, TypeOK, UnderWay, vars, nodeVars, ghostVars
<1>2. ASSUME NEW i \in Ids, NEW key \in Keys, NEW spec \in Overrides, AddOverride(i, key, spec)
      PROVE  TInv'
  <2>1. /\ queues' \in QueueMaps
        /\ added' \in Seq([key : Keys, spec : Overrides])
    BY <1>2, AddType
  <2>2. UNCHANGED <<passed, call, started, untold, used>>
    BY <1>2 DEF AddOverride
  <2> QED
    BY <2>1, <2>2 DEF TInv, TypeOK, UnderWay
<1>3. ASSUME NEW i \in Ids, TimePasses(i)
      PROVE  TInv'
  BY <1>3 DEF TInv, TypeOK, UnderWay, TimePasses, ghostVars
<1>4. ASSUME NEW c \in Calls, TakeOverride(c)
      PROVE  TInv'
  <2>1. Takes(c) /\ queues' \in QueueMaps /\ used' \in [Ids -> 0 .. MaxUses]
    BY <1>4, TakeCall
  <2>2. /\ call' \in [Calls -> CallRecords]
        /\ \A d \in Calls : call'[d].held # None => call'[d].pc = "working"
        /\ UnderWay' /\ untold' \in [Ids -> Int]
    BY <2>1, TakesType
  <2>3. UNCHANGED <<passed, started, added>>
    BY <1>4 DEF TakeOverride
  <2> QED
    BY <2>1, <2>2, <2>3 DEF TInv, TypeOK
<1>5. ASSUME NEW c \in Calls, FinishHandler(c)
      PROVE  TInv'
  <2>1. Takes(c)
    BY <1>5, FinishCall
  <2>2. /\ call' \in [Calls -> CallRecords]
        /\ \A d \in Calls : call'[d].held # None => call'[d].pc = "working"
        /\ UnderWay' /\ untold' \in [Ids -> Int]
    BY <2>1, TakesType
  <2>3. UNCHANGED <<nodeVars, started, ghostVars>>
    BY <1>5 DEF FinishHandler
  <2> QED
    BY <2>2, <2>3 DEF TInv, TypeOK, nodeVars, ghostVars
<1>6. ASSUME NEW c \in Calls, KeepsCopy(c)
      PROVE  TInv'
  <2>1. /\ \A d \in Calls : call'[d].held # None => call'[d].pc = "working"
        /\ UnderWay'
    BY <1>6, CallsType DEF KeepsCopy
  <2> QED
    BY <1>6, <2>1 DEF KeepsCopy, TInv, TypeOK, nodeVars, ghostVars
<1> QED
  BY <1>1, <1>2, <1>3, <1>4, <1>5, <1>6, LoopCall DEF Next, CallStep

(* The queues hold wrappers, the calls are where their handlers can be. *)
THEOREM TypeCorrect == Spec => []TypeOK
<1>1. TInv => TypeOK
  BY DEF TInv
<1> QED
  BY <1>1, InitType, StepType, PTL DEF Spec

(* The copies of an override that are held can be counted. *)
Holders(i) == {c \in Calls : call[c].held = i}

Signalled == SignalPerUse /\ \A i \in Ids : IsFiniteSet(Holders(i))

LEMMA InitSignals == Init => Signalled
<1> SUFFICES ASSUME Init, NEW i \in Ids
             PROVE  untold[i] = Copies(i) /\ IsFiniteSet(Holders(i))
  BY DEF Signalled, SignalPerUse
<1>1. \A c \in Calls : call[c].held = None
  BY DEF Init, Idle
<1>2. Holders(i) = {}
  BY <1>1, NoneIsNoId DEF Holders
<1>3. untold[i] = 0
  BY DEF Init
<1> QED
  BY <1>2, <1>3, FS_EmptySet DEF Copies, Holders

(* One call takes a copy or gives one back, and the count follows. *)
LEMMA SignalsFollow ==
    ASSUME TInv, Signalled, NEW c \in Calls, call' \in [Calls -> CallRecords], Others(c),
           Balanced(c)
    PROVE  Signalled'
<1> SUFFICES ASSUME NEW i \in Ids
             PROVE  untold'[i] = Cardinality(Holders(i)') /\ IsFiniteSet(Holders(i)')
  BY DEF Signalled, SignalPerUse, Copies, Holders
<1> DEFINE before == Holders(i)
           after == {d \in Calls : call'[d].held = i}
<1>1. Holders(i)' = after
  BY DEF Holders
<1>2. IsFiniteSet(before) /\ untold[i] = Cardinality(before) /\ untold[i] \in Int
  BY DEF Signalled, SignalPerUse, Copies, Holders, TInv, TypeOK
<1>3. untold'[i] = untold[i] + (IF call'[c].held = i THEN 1 ELSE 0)
                             - (IF call[c].held = i THEN 1 ELSE 0)
  BY DEF Balanced
<1>4. after \ {c} = before \ {c}
  BY DEF Others, Holders
<1>5. (c \in after <=> call'[c].held = i) /\ (c \in before <=> call[c].held = i)
  BY DEF Holders
<1> HIDE DEF before, after
<1>6. CASE call'[c].held = i /\ call[c].held # i
  <2>1. after = before \union {c} /\ c \notin before
    BY <1>4, <1>5, <1>6
  <2>2. IsFiniteSet(before \union {c})
        /\ Cardinality(before \union {c}) = Cardinality(before) + 1
    BY <1>2, <2>1, FS_AddElement
  <2> QED
    BY <1>1, <1>2, <1>3, <1>6, <2>1, <2>2
<1>7. CASE call'[c].held # i /\ call[c].held = i
  <2>1. after = before \ {c} /\ c \in before
    BY <1>4, <1>5, <1>7
  <2>2. IsFiniteSet(before \ {c}) /\ Cardinality(before \ {c}) = Cardinality(before) - 1
    BY <1>2, <2>1, FS_RemoveElement
  <2> QED
    BY <1>1, <1>2, <1>3, <1>7, <2>1, <2>2
<1>8. CASE call'[c].held = i <=> call[c].held = i
  <2>1. after = before
    BY <1>4, <1>5, <1>8
  <2> QED
    BY <1>1, <1>2, <1>3, <1>8, <2>1
<1> QED
  BY <1>6, <1>7, <1>8

LEMMA StepSignals == TInv /\ Signalled /\ [Next]_vars => Signalled'
<1> SUFFICES ASSUME TInv, Signalled, [Next]_vars PROVE Signalled'
  OBVIOUS
<1>1. CASE UNCHANGED <<call, untold>>
  BY <1>1 DEF Signalled, SignalPerUse, Copies, Holders
<1>2. ASSUME NEW c \in Calls, Takes(c)
      PROVE  Signalled'
  BY <1>2, SignalsFollow DEF Takes
<1>3. ASSUME NEW c \in Calls, KeepsCopy(c)
      PROVE  Signalled'
  <2>1. untold \in [Ids -> Int] /\ untold' = untold
    BY <1>3 DEF TInv, TypeOK, KeepsCopy
  <2>2. Balanced(c)
    BY <1>3, <2>1 DEF KeepsCopy, Balanced
  <2> QED
    BY <1>3, <2>2, SignalsFollow DEF KeepsCopy
<1> QED
  BY <1>1, <1>2, <1>3, TakeCall, FinishCall, LoopCall
     DEF Next, CallStep, AddOverride, TimePasses, vars

(* A test is told of every use of an override, once, and of nothing else. *)
THEOREM EveryUseSignalled == Spec => []SignalPerUse
<1>1. Init => TInv /\ Signalled
  BY InitType, InitSignals
<1>2. TInv /\ Signalled /\ [Next]_vars => TInv' /\ Signalled'
  BY StepType, StepSignals
<1>3. Signalled => SignalPerUse
  BY DEF Signalled
<1> QED
  BY <1>1, <1>2, <1>3, PTL DEF Spec

--------------------------------------------------------------------------------
(* The order of the uses *)

Spent(i, us) ==
    \/ added[i].spec.limit = "Once" /\ us[i] = 1
    \/ added[i].spec.limit = "NTimes" /\ us[i] = added[i].spec.n
    \/ added[i].spec.limit = "Until" /\ i \in passed

(* A queue holds wrappers of its key, one for each override. *)
Wrapped(qs) ==
    \A k \in Keys : \A w \in qs[k] :
        w.id \in DOMAIN added /\ added[w.id] = [key |-> k, spec |-> w.spec]

Distinct(qs) == \A k \in Keys : \A v, w \in qs[k] : v.id = w.id => v = w

(* Only an override that is exhausted has no wrapper any more. *)
Gone(qs, us) ==
    \A i \in DOMAIN added : Spent(i, us) \/ \E w \in qs[added[i].key] : w.id = i

(* Where a limit is on the uses, the wrapper's count is the number of uses. *)
Counting(qs, us) ==
    \A k \in Keys : \A w \in qs[k] :
        /\ w.spec.limit = "Once" => w.calls = us[w.id] /\ w.calls <= 1
        /\ w.spec.limit = "NTimes" => w.calls = us[w.id] /\ w.calls <= w.spec.n

Fresh(us) == \A i \in Ids : i \notin DOMAIN added => us[i] = 0

Ordered(us) ==
    \A i \in DOMAIN added :
        us[i] > 0 =>
            /\ added[i].spec.limit = "Once" => us[i] = 1
            /\ added[i].spec.limit = "NTimes" => us[i] <= added[i].spec.n
            /\ \A j \in 1 .. i - 1 : added[j].key = added[i].key => Spent(j, us)

QueueInv(qs, us) ==
    /\ qs \in QueueMaps /\ us \in [Ids -> 0 .. MaxUses]
    /\ added \in Seq([key : Keys, spec : Overrides]) /\ Len(added) <= MaxOverrides
    /\ Wrapped(qs)
    /\ Distinct(qs)
    /\ Gone(qs, us)
    /\ Counting(qs, us)
    /\ Fresh(us)
    /\ Ordered(us)

LEMMA ElementOf ==
    ASSUME NEW S, NEW s \in Seq(S), NEW i \in DOMAIN s
    PROVE  s[i] \in S
  OBVIOUS

(* What is known of one wrapper of a queue. *)
LEMMA OneWrapper ==
    ASSUME NEW qs, NEW us, QueueInv(qs, us), NEW k \in Keys, NEW w \in qs[k]
    PROVE  /\ w \in Wrappers /\ w.id \in Ids /\ w.id \in DOMAIN added
           /\ added[w.id].key = k /\ added[w.id].spec = w.spec
           /\ w.spec \in Overrides /\ w.spec.limit \in Limits
           /\ w.spec.n \in 0 .. MaxUses /\ MaxUses \in Nat \ {0}
           /\ w.calls \in 0 .. MaxUses /\ us[w.id] \in 0 .. MaxUses
<1>1. w \in Wrappers
  BY DEF QueueInv, QueueMaps
<1>2. w.id \in Ids /\ w.spec \in Overrides /\ w.calls \in 0 .. MaxUses
  BY <1>1 DEF Wrappers
<1>3. w.spec.limit \in Limits /\ w.spec.n \in Nat /\ w.spec.n <= MaxUses
      /\ w.spec.frequency \in 1 .. MaxUses
  BY <1>2, OverridesAssumption
<1>4. w.id \in DOMAIN added /\ added[w.id] = [key |-> k, spec |-> w.spec]
  BY DEF QueueInv, Wrapped
<1>5. w.spec.n \in 0 .. MaxUses /\ MaxUses \in Nat \ {0}
  BY <1>3, NamesAssumption
<1>6. us[w.id] \in 0 .. MaxUses
  BY <1>2 DEF QueueInv
<1> QED
  BY <1>1, <1>2, <1>3, <1>4, <1>5, <1>6

(* A wrapper that the clean-up removes is of an exhausted override. *)
LEMMA OutdatedSpent ==
    ASSUME NEW qs, NEW us, QueueInv(qs, us), NEW k \in Keys, NEW w \in qs[k], Outdated(w)
    PROVE  Spent(w.id, us)
<1>1. /\ added[w.id].spec = w.spec /\ w.spec.limit \in Limits
      /\ w.calls \in 0 .. MaxUses /\ w.spec.n \in 0 .. MaxUses
  BY OneWrapper
<1>2. /\ w.spec.limit = "Once" => w.calls = us[w.id] /\ w.calls <= 1
      /\ w.spec.limit = "NTimes" => w.calls = us[w.id] /\ w.calls <= w.spec.n
  BY DEF QueueInv, Counting
<1>3. CASE w.spec.limit = "Once"
  BY <1>1, <1>2, <1>3 DEF Outdated, Spent
<1>4. CASE w.spec.limit = "NTimes"
  BY <1>1, <1>2, <1>4 DEF Outdated, Spent
<1>5. CASE w.spec.limit = "Until"
  BY <1>1, <1>5 DEF Outdated, Spent
<1>6. CASE w.spec.limit = "Always"
  BY <1>6 DEF Outdated
<1> QED
  BY <1>1, <1>3, <1>4, <1>5, <1>6 DEF Limits

(* One that is offered is not. *)
LEMMA UsableLeft ==
    ASSUME NEW qs, NEW us, QueueInv(qs, us), NEW k \in Keys, NEW w \in qs[k], ~Outdated(w)
    PROVE  /\ ~Spent(w.id, us)
           /\ w.spec.limit = "Once" => us[w.id] = 0
           /\ w.spec.limit = "NTimes" => us[w.id] < w.spec.n
<1>1. /\ added[w.id].spec = w.spec /\ w.spec.limit \in Limits
      /\ w.calls \in 0 .. MaxUses /\ w.spec.n \in 0 .. MaxUses
  BY OneWrapper
<1>2. /\ w.spec.limit = "Once" => w.calls = us[w.id] /\ w.calls <= 1
      /\ w.spec.limit = "NTimes" => w.calls = us[w.id] /\ w.calls <= w.spec.n
  BY DEF QueueInv, Counting
<1>3. CASE w.spec.limit = "Once"
  BY <1>1, <1>2, <1>3 DEF Outdated, Spent
<1>4. CASE w.spec.limit = "NTimes"
  BY <1>1, <1>2, <1>4 DEF Outdated, Spent
<1>5. CASE w.spec.limit = "Until"
  BY <1>1, <1>5 DEF Outdated, Spent
<1>6. CASE w.spec.limit = "Always"
  BY <1>1, <1>6 DEF Spent
<1> QED
  BY <1>1, <1>3, <1>4, <1>5, <1>6 DEF Limits

LEMMA CleanedKeeps ==
    ASSUME NEW qs, NEW us, QueueInv(qs, us)
    PROVE  QueueInv(Cleaned(qs), us)
<1>1. Cleaned(qs) \in QueueMaps
  BY CleanedType DEF QueueInv
<1>2. \A k \in Keys : \A w \in Cleaned(qs)[k] : w \in qs[k]
  BY DEF Cleaned
<1>3. Gone(Cleaned(qs), us)
  <2> SUFFICES ASSUME NEW i \in DOMAIN added, ~Spent(i, us)
               PROVE  \E w \in Cleaned(qs)[added[i].key] : w.id = i
    BY DEF Gone
  <2>1. PICK w \in qs[added[i].key] : w.id = i
    BY DEF QueueInv, Gone
  <2>2. added[i].key \in Keys
    <3>1. added \in Seq([key : Keys, spec : Overrides])
      BY DEF QueueInv
    <3>2. added[i] \in [key : Keys, spec : Overrides]
      BY <3>1, ElementOf
    <3> QED
      BY <3>2
  <2>3. ~Outdated(w)
    BY <2>1, <2>2, OutdatedSpent
  <2> QED
    BY <2>1, <2>2, <2>3 DEF Cleaned
<1>4. Wrapped(Cleaned(qs)) /\ Distinct(Cleaned(qs)) /\ Counting(Cleaned(qs), us)
  BY <1>2 DEF QueueInv, Wrapped, Distinct, Counting
<1> QED
  BY <1>1, <1>3, <1>4 DEF QueueInv

(* A use of the first wrapper of a queue.  Its predecessors are exhausted, for *)
(* they have no wrapper there.                                                *)
LEMMA CountedKeeps ==
    ASSUME NEW qs, NEW us, QueueInv(qs, us),
           NEW k \in Keys, NEW w \in qs[k], IsFirst(w, qs[k]), ~Outdated(w)
    PROVE  QueueInv(Counted(qs, w),
                    [us EXCEPT ![w.id] = IF @ < MaxUses THEN @ + 1 ELSE @])
<1> DEFINE qc == Counted(qs, w)
           uc == [us EXCEPT ![w.id] = IF @ < MaxUses THEN @ + 1 ELSE @]
<1>1. /\ qs \in QueueMaps /\ us \in [Ids -> 0 .. MaxUses]
      /\ added \in Seq([key : Keys, spec : Overrides]) /\ Len(added) <= MaxOverrides
      /\ Wrapped(qs) /\ Distinct(qs) /\ Gone(qs, us) /\ Counting(qs, us)
      /\ Fresh(us) /\ Ordered(us)
  BY DEF QueueInv
<1>2. /\ w \in Wrappers /\ w.id \in Ids /\ w.id \in DOMAIN added
      /\ added[w.id].key = k /\ added[w.id].spec = w.spec
      /\ w.spec \in Overrides /\ w.spec.limit \in Limits
      /\ w.spec.n \in 0 .. MaxUses /\ MaxUses \in Nat \ {0}
      /\ w.calls \in 0 .. MaxUses /\ us[w.id] \in 0 .. MaxUses
  BY OneWrapper
<1>3. /\ ~Spent(w.id, us)
      /\ w.spec.limit = "Once" => us[w.id] = 0
      /\ w.spec.limit = "NTimes" => us[w.id] < w.spec.n
  BY UsableLeft
<1>4. /\ CountUp(w) \in Wrappers
      /\ CountUp(w).id = w.id /\ CountUp(w).spec = w.spec
      /\ w.calls < MaxUses => CountUp(w).calls = w.calls + 1
  BY <1>2, CountUpType
<1>5. qc \in QueueMaps
  BY <1>1, <1>2, CountedType
<1>6. /\ uc \in [Ids -> 0 .. MaxUses]
      /\ uc[w.id] = IF us[w.id] < MaxUses THEN us[w.id] + 1 ELSE us[w.id]
      /\ \A i \in Ids : i # w.id => uc[i] = us[i]
  BY <1>1, <1>2
<1>d. \A j \in Keys : \A u, v \in qs[j] : u.id = v.id => u = v
  BY <1>1 DEF Distinct
(* The wrappers of the new queues. *)
<1>7. ASSUME NEW j \in Keys, NEW v \in qc[j]
      PROVE  (j = k /\ v = CountUp(w)) \/ (v \in qs[j] /\ v.id # w.id)
  <2>1. CASE w \in qs[j]
    <3>1. j = k
      BY <1>2, <2>1, OneWrapper
    <3>2. v = CountUp(w) \/ (v \in qs[j] /\ v # w)
      BY <1>7, <2>1 DEF Counted
    <3>3. v \in qs[j] /\ v.id = w.id => v = w
      BY <1>d, <2>1
    <3> QED
      BY <3>1, <3>2, <3>3
  <2>2. CASE w \notin qs[j]
    <3>1. v \in qs[j]
      BY <1>7, <2>2 DEF Counted
    <3>2. v.id = w.id => j = k
      BY <1>2, <3>1, OneWrapper
    <3>3. v.id = w.id => v = w
      BY <1>d, <3>1, <3>2
    <3> QED
      BY <2>2, <3>1, <3>2, <3>3
  <2> QED
    BY <2>1, <2>2
<1>8. \A j \in Keys : \A v \in qs[j] : v.id # w.id => v \in qc[j]
  BY DEF Counted
<1>9. CountUp(w) \in qc[k]
  BY DEF Counted
<1> HIDE DEF qc, uc
<1>10. Wrapped(qc)
  <2> SUFFICES ASSUME NEW j \in Keys, NEW v \in qc[j]
               PROVE  v.id \in DOMAIN added /\ added[v.id] = [key |-> j, spec |-> v.spec]
    BY DEF Wrapped
  <2>1. \A u \in qs[j] : u.id \in DOMAIN added /\ added[u.id] = [key |-> j, spec |-> u.spec]
    BY <1>1 DEF Wrapped
  <2> QED
    BY <1>4, <1>7, <2>1
<1>11. Distinct(qc)
  <2> SUFFICES ASSUME NEW j \in Keys, NEW u \in qc[j], NEW v \in qc[j], u.id = v.id
               PROVE  u = v
    BY DEF Distinct
  <2> QED
    BY <1>4, <1>7, <1>d
(* An override keeps its wrapper, or is exhausted as it was. *)
<1>12. \A i \in DOMAIN added : i \in Ids
  BY <1>1, NamesAssumption DEF Ids
<1>13. \A i \in DOMAIN added : Spent(i, us) => Spent(i, uc)
  BY <1>3, <1>6, <1>12 DEF Spent
<1>14. Gone(qc, uc)
  <2> SUFFICES ASSUME NEW i \in DOMAIN added, ~Spent(i, us)
               PROVE  \E v \in qc[added[i].key] : v.id = i
    BY <1>13 DEF Gone
  <2>1. PICK v \in qs[added[i].key] : v.id = i
    BY <1>1 DEF Gone
  <2>2. added[i].key \in Keys
    <3>1. added[i] \in [key : Keys, spec : Overrides]
      BY <1>1, ElementOf
    <3> QED
      BY <3>1
  <2>3. CASE i = w.id
    BY <1>2, <1>4, <1>9, <2>3
  <2>4. CASE i # w.id
    BY <1>8, <2>1, <2>2, <2>4
  <2> QED
    BY <2>3, <2>4
<1>15. Counting(qc, uc)
  <2> SUFFICES ASSUME NEW j \in Keys, NEW v \in qc[j]
               PROVE  /\ v.spec.limit = "Once" => v.calls = uc[v.id] /\ v.calls <= 1
                      /\ v.spec.limit = "NTimes" => v.calls = uc[v.id] /\ v.calls <= v.spec.n
    BY DEF Counting
  <2>1. CASE v \in qs[j] /\ v.id # w.id
    <3>1. v.id \in Ids
      BY <2>1, OneWrapper
    <3>2. uc[v.id] = us[v.id]
      BY <1>6, <2>1, <3>1
    <3> QED
      BY <1>1, <2>1, <3>2 DEF Counting
  <2>2. CASE v = CountUp(w)
    <3>1. /\ w.spec.limit = "Once" => w.calls = us[w.id]
          /\ w.spec.limit = "NTimes" => w.calls = us[w.id]
      BY <1>1 DEF Counting
    <3>2. v.id = w.id /\ v.spec = w.spec /\ (w.calls < MaxUses => v.calls = w.calls + 1)
      BY <1>4, <2>2
    <3>3. CASE w.spec.limit = "Once"
      BY <1>2, <1>3, <1>6, <3>1, <3>2, <3>3
    <3>4. CASE w.spec.limit = "NTimes"
      BY <1>2, <1>3, <1>6, <3>1, <3>2, <3>4
    <3> QED
      BY <3>2, <3>3, <3>4
  <2> QED
    BY <1>7, <2>1, <2>2
<1>16. Fresh(uc)
  BY <1>1, <1>2, <1>6 DEF Fresh
<1>17. Ordered(uc)
  <2> SUFFICES ASSUME NEW i \in DOMAIN added, uc[i] > 0
               PROVE  /\ added[i].spec.limit = "Once" => uc[i] = 1
                      /\ added[i].spec.limit = "NTimes" => uc[i] <= added[i].spec.n
                      /\ \A j \in 1 .. i - 1 :
                           added[j].key = added[i].key => Spent(j, uc)
    BY DEF Ordered
  <2>1. \A j \in 1 .. i - 1 : j \in DOMAIN added
    BY <1>1
  <2>2. CASE i = w.id
    <3>1. \A j \in 1 .. i - 1 : added[j].key = k => Spent(j, us)
      <4> SUFFICES ASSUME NEW j \in 1 .. i - 1, added[j].key = k, ~Spent(j, us)
                   PROVE  FALSE
        OBVIOUS
      <4>1. PICK v \in qs[k] : v.id = j
        BY <1>1, <2>1 DEF Gone
      <4>2. w.id <= v.id
        BY <4>1 DEF IsFirst
      <4> QED
        BY <1>2, <2>2, <4>1, <4>2 DEF Ids
    <3>2. \A j \in 1 .. i - 1 : added[j].key = added[i].key => Spent(j, uc)
      BY <1>2, <1>13, <2>1, <2>2, <3>1
    <3>3. added[i].spec.limit = "Once" => uc[i] = 1
      BY <1>2, <1>3, <1>6, <2>2
    <3>4. added[i].spec.limit = "NTimes" => uc[i] <= added[i].spec.n
      BY <1>2, <1>3, <1>6, <2>2
    <3> QED
      BY <3>2, <3>3, <3>4
  <2>3. CASE i # w.id
    <3>1. uc[i] = us[i]
      BY <1>6, <1>12, <2>3
    <3>2. /\ added[i].spec.limit = "Once" => us[i] = 1
          /\ added[i].spec.limit = "NTimes" => us[i] <= added[i].spec.n
          /\ \A j \in 1 .. i - 1 : added[j].key = added[i].key => Spent(j, us)
      BY <1>1, <3>1 DEF Ordered
    <3> QED
      BY <1>13, <2>1, <3>1, <3>2
  <2> QED
    BY <2>2, <2>3
<1> QED
  BY <1>1, <1>5, <1>6, <1>10, <1>11, <1>14, <1>15, <1>16, <1>17 DEF QueueInv, qc, uc

LEMMA InitQueues == Init => QueueInv(queues, used)
<1> SUFFICES ASSUME Init PROVE QueueInv(queues, used)
  OBVIOUS
<1>1. TInv
  BY InitType
<1>2. added = <<>> /\ (\A k \in Keys : queues[k] = {}) /\ (\A i \in Ids : used[i] = 0)
  BY DEF Init
<1>3. Wrapped(queues) /\ Distinct(queues) /\ Counting(queues, used)
  BY <1>2 DEF Wrapped, Distinct, Counting
<1>4. Gone(queues, used) /\ Ordered(used) /\ Fresh(used)
  BY <1>2 DEF Gone, Ordered, Fresh
<1>5. Len(added) <= MaxOverrides
  BY <1>2, NamesAssumption
<1> QED
  BY <1>1, <1>3, <1>4, <1>5 DEF QueueInv, TInv, TypeOK, QueueMaps

(* A new wrapper comes last. *)
LEMMA AddKeeps ==
    ASSUME TInv, QueueInv(queues, used), NEW i \in Ids, NEW key \in Keys,
           NEW spec \in Overrides, AddOverride(i, key, spec)
    PROVE  QueueInv(queues, used)'
<1> DEFINE new == [id |-> i, spec |-> spec, calls |-> 0]
           record == [key |-> key, spec |-> spec]
<1>1. /\ queues \in QueueMaps /\ used \in [Ids -> 0 .. MaxUses]
      /\ added \in Seq([key : Keys, spec : Overrides]) /\ Len(added) <= MaxOverrides
      /\ Wrapped(queues) /\ Distinct(queues) /\ Gone(queues, used) /\ Counting(queues, used)
      /\ Fresh(used) /\ Ordered(used)
  BY DEF QueueInv
<1>2. queues' \in QueueMaps /\ added' \in Seq([key : Keys, spec : Overrides])
  BY AddType
<1>3. /\ i = Len(added) + 1 /\ queues' = [queues EXCEPT ![key] = @ \union {new}]
      /\ added' = Append(added, record) /\ used' = used /\ passed' = passed
  BY DEF AddOverride
<1>4. new.id = i /\ new.spec = spec /\ new.calls = 0 /\ record.key = key /\ record.spec = spec
  OBVIOUS
<1>5. record \in [key : Keys, spec : Overrides]
  OBVIOUS
<1> HIDE DEF new
<1>6. /\ DOMAIN added' = DOMAIN added \union {i} /\ i \notin DOMAIN added
      /\ Len(added') = i /\ added'[i] = record
      /\ \A j \in DOMAIN added : added'[j] = added[j]
  <2> HIDE DEF record
  <2> QED
    BY <1>1, <1>3, <1>5
<1>7. i <= MaxOverrides
  BY NamesAssumption DEF Ids
<1>8. \A k \in Keys : queues'[k] = IF k = key THEN queues[k] \union {new} ELSE queues[k]
  BY <1>1, <1>3 DEF QueueMaps
<1>9. used[i] = 0
  BY <1>1, <1>6 DEF Fresh
<1>10. Wrapped(queues)'
  <2> SUFFICES ASSUME NEW k \in Keys, NEW w \in queues'[k]
               PROVE  w.id \in DOMAIN added' /\ added'[w.id] = [key |-> k, spec |-> w.spec]
    BY DEF Wrapped
  <2>1. CASE w \in queues[k]
    <3>1. w.id \in DOMAIN added /\ added[w.id] = [key |-> k, spec |-> w.spec]
      BY <1>1, <2>1 DEF Wrapped
    <3> QED
      BY <1>6, <3>1
  <2>2. CASE k = key /\ w = new
    BY <1>4, <1>6, <2>2
  <2> QED
    BY <1>8, <2>1, <2>2
<1>11. \A k \in Keys : \A w \in queues[k] : w.id # i
  <2>1. \A k \in Keys : \A w \in queues[k] : w.id \in DOMAIN added
    BY OneWrapper
  <2> QED
    BY <1>6, <2>1
<1>12. Distinct(queues)'
  <2> SUFFICES ASSUME NEW k \in Keys, NEW v \in queues'[k], NEW w \in queues'[k], v.id = w.id
               PROVE  v = w
    BY DEF Distinct
  <2>1. v \in queues[k] /\ w \in queues[k] => v = w
    BY <1>1 DEF Distinct
  <2>2. v \in queues[k] \/ v = new
    BY <1>8
  <2>3. w \in queues[k] \/ w = new
    BY <1>8
  <2>4. (v \in queues[k] => v.id # i) /\ (w \in queues[k] => w.id # i)
    BY <1>11
  <2> QED
    BY <1>4, <2>1, <2>2, <2>3, <2>4
<1>13. Gone(queues, used)'
  <2> SUFFICES ASSUME NEW j \in DOMAIN added', ~Spent(j, used)'
               PROVE  \E w \in queues'[added'[j].key] : w.id = j
    BY DEF Gone
  <2>1. CASE j = i
    BY <1>4, <1>6, <1>8, <2>1
  <2>2. CASE j \in DOMAIN added
    <3>1. added'[j] = added[j] /\ ~Spent(j, used)
      BY <1>3, <1>6, <2>2 DEF Spent
    <3>2. PICK w \in queues[added[j].key] : w.id = j
      BY <1>1, <2>2, <3>1 DEF Gone
    <3>3. added[j] \in [key : Keys, spec : Overrides]
      BY <1>1, <2>2, ElementOf
    <3>4. added[j].key \in Keys
      BY <3>3
    <3> QED
      BY <1>8, <3>1, <3>2, <3>4
  <2> QED
    BY <1>6, <2>1, <2>2
<1>14. Counting(queues, used)'
  <2> SUFFICES ASSUME NEW k \in Keys, NEW w \in queues'[k]
               PROVE  /\ w.spec.limit = "Once" => w.calls = used[w.id] /\ w.calls <= 1
                      /\ w.spec.limit = "NTimes" => w.calls = used[w.id] /\ w.calls <= w.spec.n
    BY <1>3 DEF Counting
  <2>1. CASE w \in queues[k]
    BY <1>1, <2>1 DEF Counting
  <2>2. CASE w = new
    <3>1. spec.n \in Nat
      BY OverridesAssumption
    <3> QED
      BY <1>4, <1>9, <2>2, <3>1
  <2> QED
    BY <1>8, <2>1, <2>2
<1>15. Fresh(used)'
  BY <1>1, <1>3, <1>6 DEF Fresh
<1>16. Ordered(used)'
  <2> SUFFICES ASSUME NEW j \in DOMAIN added', used[j] > 0
               PROVE  /\ added'[j].spec.limit = "Once" => used[j] = 1
                      /\ added'[j].spec.limit = "NTimes" => used[j] <= added'[j].spec.n
                      /\ \A l \in 1 .. j - 1 :
                           added'[l].key = added'[j].key => Spent(l, used)'
    BY <1>3 DEF Ordered
  <2>1. j \in DOMAIN added /\ added'[j] = added[j]
    BY <1>6, <1>9
  <2>2. \A l \in 1 .. j - 1 : l \in DOMAIN added
    BY <1>1, <2>1
  <2>3. \A l \in DOMAIN added : Spent(l, used) => Spent(l, used)'
    BY <1>3, <1>6 DEF Spent
  <2>4. /\ added[j].spec.limit = "Once" => used[j] = 1
        /\ added[j].spec.limit = "NTimes" => used[j] <= added[j].spec.n
        /\ \A l \in 1 .. j - 1 : added[l].key = added[j].key => Spent(l, used)
    BY <1>1, <2>1 DEF Ordered
  <2> QED
    BY <1>6, <2>1, <2>2, <2>3, <2>4
<1> QED
  BY <1>1, <1>2, <1>3, <1>6, <1>7, <1>10, <1>12, <1>13, <1>14, <1>15, <1>16 DEF QueueInv

(* Time only exhausts overrides. *)
LEMMA TimeKeeps ==
    ASSUME QueueInv(queues, used), NEW i \in Ids, TimePasses(i)
    PROVE  QueueInv(queues, used)'
<1>1. /\ queues' = queues /\ added' = added /\ used' = used /\ passed \subseteq passed'
  BY DEF TimePasses, ghostVars
<1>2. \A j : Spent(j, used) => Spent(j, used)'
  BY <1>1 DEF Spent
<1>3. Gone(queues, used)' /\ Ordered(used)'
  BY <1>1, <1>2 DEF QueueInv, Gone, Ordered
<1> QED
  BY <1>1, <1>3 DEF QueueInv, Wrapped, Distinct, Counting, Fresh

LEMMA TakeKeeps ==
    ASSUME TInv, QueueInv(queues, used), NEW c \in Calls, TakeOverride(c)
    PROVE  QueueInv(queues, used)'
<1> DEFINE cleaned == Cleaned(queues)
<1>1. QueueInv(cleaned, used)
  BY CleanedKeeps
<1>2. cleaned \in QueueMaps /\ call[c].method \in Methods
  BY <1>1 DEF TInv, UnderWay, TakeOverride, QueueInv
<1>3. UNCHANGED <<passed, added>>
  BY DEF TakeOverride
<1>4. QueueInv(queues', used')
  <2>1. CASE TakeNone(c, cleaned)
    BY <1>1, <2>1 DEF TakeNone
  <2>2. ASSUME NEW w \in Chosen(cleaned, call[c].method), TakeFirst(c, w, cleaned)
        PROVE  QueueInv(queues', used')
    <3>1. PICK k \in Keys : w \in cleaned[k] /\ IsFirst(w, cleaned[k])
      BY <1>2, ChosenType
    <3>2. ~Outdated(w)
      BY <3>1 DEF Cleaned
    <3> DEFINE uc == [used EXCEPT ![w.id] = IF @ < MaxUses THEN @ + 1 ELSE @]
    <3>3. QueueInv(Counted(cleaned, w), uc)
      BY <1>1, <3>1, <3>2, CountedKeeps
    <3>4. QueueInv(Cleaned(Counted(cleaned, w)), uc)
      BY <3>3, CleanedKeeps
    <3> QED
      BY <2>2, <3>4 DEF TakeFirst
  <2> QED
    BY <2>1, <2>2 DEF TakeOverride
<1> QED
  BY <1>3, <1>4 DEF QueueInv, Wrapped, Distinct, Gone, Counting, Fresh, Ordered, Spent

LEMMA StepQueues ==
    TInv /\ QueueInv(queues, used) /\ [Next]_vars => QueueInv(queues, used)'
<1> SUFFICES ASSUME TInv, QueueInv(queues, used), [Next]_vars
             PROVE  QueueInv(queues, used)'
  OBVIOUS
<1>1. CASE UNCHANGED <<nodeVars, ghostVars>>
  BY <1>1 DEF QueueInv, Wrapped, Distinct, Gone, Counting, Fresh, Ordered, Spent,
              nodeVars, ghostVars
<1>2. ASSUME NEW c \in Calls,
             \/ FinishHandler(c) \/ ReturnResult(c) \/ Repeat(c) \/ GiveUp(c) \/ Elapse(c)
             \/ \E m \in Methods : StartCall(c, m)
      PROVE  UNCHANGED <<nodeVars, ghostVars>>
  BY <1>2 DEF FinishHandler, ReturnResult, Repeat, GiveUp, Elapse, StartCall
<1> QED
  BY <1>1, <1>2, AddKeeps, TimeKeeps, TakeKeeps DEF Next, CallStep, vars

(* Overrides of a method are used in the order they were added and within their *)
(* limits, whichever concurrent calls use them.                                 *)
THEOREM UsesInOrder == Spec => []UsedInOrder
<1>1. Init => TInv /\ QueueInv(queues, used)
  BY InitType, InitQueues
<1>2. TInv /\ QueueInv(queues, used) /\ [Next]_vars => TInv' /\ QueueInv(queues, used)'
  BY StepType, StepQueues
<1>3. QueueInv(queues, used) => UsedInOrder
  <2> SUFFICES ASSUME Ordered(used) PROVE UsedInOrder
    BY DEF QueueInv
  <2>1. \A i, spec : Exhausted(i, spec) <=>
            \/ spec.limit = "Once" /\ used[i] = 1
            \/ spec.limit = "NTimes" /\ used[i] = spec.n
            \/ spec.limit = "Until" /\ i \in passed
    BY DEF Exhausted
  <2> QED
    BY <2>1 DEF Ordered, UsedInOrder, Spent
<1> QED
  BY <1>1, <1>2, <1>3, PTL DEF Spec
================================================================================
