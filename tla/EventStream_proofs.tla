--------------------------- MODULE EventStream_proofs ---------------------------
(* Theorems about EventStream, for any number of subscribers, blocks and      *)
(* events and any capacity of the channels.                                   *)
EXTENDS EventStream, FiniteSetTheorems, TLAPS

(* The last block that may have logs. *)
LastLogged == IF adder = "operations" THEN height + 1 ELSE height

(* Logs are those of blocks begun, one of which is the latest; what is left   *)
(* to emit is the end of the logs of the last block in the chain.             *)
Shape ==
    /\ adder # "idle" => toEmit = <<>>
    /\ adder = "published" => height \in Blocks
    /\ \A b \in Blocks : b > LastLogged => pending[b] = 0
    /\ LoggedBlocks = {} \/ \E b \in LoggedBlocks : \A c \in LoggedBlocks : b >= c
    /\ toEmit # <<>> =>
          /\ height \in Blocks
          /\ Len(toEmit) <= pending[height]
          /\ \A i \in DOMAIN toEmit :
                toEmit[i] = [block |-> height, index |-> pending[height] - Len(toEmit) + i]

(* A subscription that is not registered has no channel yet. *)
Unregistered ==
    \A s \in Subscribers : stage[s] \in {"away", "resolved"} =>
        sent[s] = <<>> /\ at[s] = 0 /\ got[s] = <<>> /\ replayed[s] = 0

TypedShape == TypeOK /\ Shape /\ Unregistered

--------------------------------------------------------------------------------
(* Replays *)

LEMMA PastFinite ==
    ASSUME TypedShape, NEW first \in 0 .. MaxBlock
    PROVE  IsFiniteSet(Past(first)) /\ Past(first) \subseteq Events
<1> DEFINE Pairs == Blocks \X (1 .. MaxEvents)
           f == [p \in Pairs |-> [block |-> p[1], index |-> p[2]]]
<1>1. IsFiniteSet(Pairs)
  <2>1. IsFiniteSet(1 .. MaxBlock) /\ IsFiniteSet(1 .. MaxEvents)
    BY BoundsAssumption, FS_Interval
  <2> QED
    BY <2>1, FS_Product DEF Blocks
<1>2. f \in Surjection(Pairs, Events)
  <2>1. f \in [Pairs -> Events]
    BY DEF Events
  <2>2. ASSUME NEW e \in Events
        PROVE  \E p \in Pairs : f[p] = e
    <3>1. <<e.block, e.index>> \in Pairs /\ f[<<e.block, e.index>>] = e
      BY DEF Events
    <3> QED
      BY <3>1
  <2> QED
    BY <2>1, <2>2 DEF Surjection
<1>3. IsFiniteSet(Events)
  BY <1>1, <1>2, FS_Surjection
<1>4. Past(first) \subseteq Events
  BY DEF Past
<1> QED
  BY <1>3, <1>4, FS_Subset

(* A replay is a sequence of all past events, each once. *)
LEMMA ReplayFacts ==
    ASSUME TypedShape, NEW first \in 0 .. MaxBlock, NEW replay \in Replays(first)
    PROVE  /\ replay \in Seq(Events)
           /\ \A i \in 1 .. Len(replay) : replay[i] \in Past(first)
           /\ \A i, j \in 1 .. Len(replay) : replay[i] = replay[j] => i = j
           /\ \A e \in Past(first) : \E i \in 1 .. Len(replay) : replay[i] = e
<1> DEFINE P == Past(first)
           n == Cardinality(P)
<1>1. n \in Nat /\ IsFiniteSet(P) /\ P \subseteq Events
  BY PastFinite, FS_CardinalityType
<1>2. replay \in SetToSeqs(P)
  BY DEF Replays
<1> HIDE DEF P
<1>3. replay \in Injection(1 .. n, P)
  BY <1>2 DEF SetToSeqs, Injection, IsInjective
<1>4. Cardinality(1 .. n) = n
  BY <1>1, FS_Interval
<1>5. replay \in Surjection(1 .. n, P)
  BY <1>1, <1>3, <1>4, FS_Injection
<1> HIDE DEF n
<1>6. replay \in [1 .. n -> P]
  BY <1>3 DEF Injection
<1>7. replay \in Seq(Events) /\ Len(replay) = n
  BY <1>1, <1>6
<1>8. \A i, j \in 1 .. n : replay[i] = replay[j] => i = j
  BY <1>3 DEF Injection, IsInjective
<1>9. \A e \in P : \E i \in 1 .. n : replay[i] = e
  BY <1>5 DEF Surjection
<1> QED
  BY <1>6, <1>7, <1>8, <1>9 DEF P

--------------------------------------------------------------------------------
(* Types *)

LEMMA LogsType ==
    ASSUME TypeOK, NEW b \in Blocks
    PROVE  Logs(b) \in Seq(Events) /\ Len(Logs(b)) = pending[b]
<1>1. pending[b] \in 0 .. MaxEvents /\ pending[b] \in Nat
  BY BoundsAssumption DEF TypeOK
<1>2. Logs(b) \in [1 .. pending[b] -> Events]
  BY <1>1, BoundsAssumption DEF Logs, Events
<1> QED
  BY <1>1, <1>2 DEF Logs

LEMMA LatestType ==
    ASSUME TypedShape
    PROVE  Latest \in 0 .. MaxBlock
<1>1. CASE LoggedBlocks = {}
  BY <1>1, BoundsAssumption DEF Latest
<1>2. CASE LoggedBlocks # {}
  <2>1. \E b \in LoggedBlocks : \A c \in LoggedBlocks : b >= c
    BY <1>2 DEF TypedShape, Shape
  <2>2. Max(LoggedBlocks) \in LoggedBlocks
    BY <2>1 DEF Max
  <2> QED
    BY <1>2, <2>2, BoundsAssumption DEF Latest, LoggedBlocks, Blocks
<1> QED
  BY <1>1, <1>2

LEMMA InitTypedShape == Init => TypedShape
  BY BoundsAssumption DEF Init, TypedShape, TypeOK, Shape, LoggedBlocks, Blocks, LastLogged,
     Unregistered

LEMMA BlockStepTypedShape ==
    ASSUME TypedShape, BeginBlock \/ AddPendingLog \/ PublishBlock \/ FinishBlock
    PROVE  TypedShape'
<1> USE BoundsAssumption DEF TypedShape, TypeOK
<1>c. UNCHANGED <<channelVars, ghostVars>>
  BY DEF BeginBlock, AddPendingLog, PublishBlock, FinishBlock
<1>u. Unregistered'
  BY <1>c DEF Unregistered, channelVars, ghostVars
<1>n. height \in Nat /\ MaxBlock \in Nat
  OBVIOUS
<1>1. CASE BeginBlock
  <2>1. toEmit = <<>> /\ adder = "idle"
    BY <1>1 DEF BeginBlock, Busy
  <2> QED
    BY <1>1, <1>c, <1>n, <1>u, <2>1
       DEF BeginBlock, Shape, LoggedBlocks, LastLogged, channelVars, ghostVars, Blocks
<1>2. CASE AddPendingLog
  <2>1. height + 1 \in Blocks /\ adder = "operations" /\ adder' = adder
    BY <1>2 DEF AddPendingLog, Blocks
  <2>2. pending' = [pending EXCEPT ![height + 1] = @ + 1] /\ UNCHANGED <<height, toEmit>>
    BY <1>2 DEF AddPendingLog
  <2>3. pending[height + 1] \in 0 .. MaxEvents /\ pending[height + 1] < MaxEvents
    BY <1>2, <2>1 DEF AddPendingLog
  <2>4. pending' \in [Blocks -> 0 .. MaxEvents]
    <3>1. pending[height + 1] + 1 \in 0 .. MaxEvents
      BY <2>3
    <3> QED
      BY <2>2, <3>1
  <2>5. TypeOK'
    BY <2>1, <2>2, <2>4, <1>c DEF channelVars, ghostVars
  <2>6. \A b \in Blocks : b > LastLogged' => pending'[b] = 0
    BY <2>1, <2>2, <1>n DEF Shape, LastLogged
  <2>7. \A c \in LoggedBlocks' : height + 1 >= c
    <3> SUFFICES ASSUME NEW c \in Blocks, c > height + 1
                 PROVE  ~(pending'[c] > 0)
      BY <1>n DEF LoggedBlocks, Blocks
    <3> QED
      BY <2>1, <2>6, <2>2 DEF LastLogged
  <2>8. height + 1 \in LoggedBlocks'
    BY <2>1, <2>2, <2>3 DEF LoggedBlocks
  <2> QED
    BY <1>u, <2>1, <2>2, <2>5, <2>6, <2>7, <2>8 DEF Shape
<1>3. CASE PublishBlock
  <2>1. toEmit = <<>> /\ height + 1 \in Blocks
    BY <1>3 DEF PublishBlock, Blocks
  <2> QED
    BY <1>3, <1>c, <1>n, <1>u, <2>1
       DEF PublishBlock, Shape, LoggedBlocks, LastLogged, channelVars, ghostVars, Blocks
<1>4. CASE FinishBlock
  <2>1. height \in Blocks
    BY <1>4 DEF FinishBlock, Shape
  <2>2. toEmit' \in Seq(Events) /\ Len(toEmit') = pending[height]
    BY <1>4, <2>1, LogsType DEF FinishBlock
  <2>3. \A i \in DOMAIN toEmit' : toEmit'[i] = [block |-> height, index |-> i]
    BY <1>4 DEF FinishBlock, Logs
  <2>4. TypeOK'
    BY <1>4, <1>c, <2>2 DEF FinishBlock, channelVars, ghostVars
  <2>5. pending[height] \in Nat
    BY <2>1
  <2>6. \A i \in DOMAIN toEmit' : pending[height] - Len(toEmit') + i = i
    BY <2>2, <2>5
  <2>7. UNCHANGED <<height, pending>> /\ adder = "published" /\ adder' = "idle"
    BY <1>4 DEF FinishBlock
  <2>8. \A i \in DOMAIN toEmit' :
          toEmit'[i] = [block |-> height, index |-> pending[height] - Len(toEmit') + i]
    BY <2>3, <2>6
  <2>9. LastLogged' = LastLogged /\ LoggedBlocks' = LoggedBlocks
    BY <2>7 DEF LastLogged, LoggedBlocks
  <2>10. Shape'
    BY <2>1, <2>2, <2>5, <2>7, <2>8, <2>9 DEF Shape
  <2> QED
    BY <1>u, <2>4, <2>10
<1> QED
  BY <1>1, <1>2, <1>3, <1>4

LEMMA Shift ==
    ASSUME NEW p \in Nat, NEW l \in Nat, NEW m, m = l - 1, NEW i \in Nat
    PROVE  p - l + (i + 1) = p - m + i
  OBVIOUS

LEMMA EmissionTypedShape ==
    ASSUME TypedShape, EmitLogEvent
    PROVE  TypedShape'
<1> USE BoundsAssumption DEF TypedShape, TypeOK
<1>1. /\ toEmit # <<>>
      /\ toEmit' = Tail(toEmit)
      /\ UNCHANGED <<height, adder, pending, stage, from, at, got, replayed, during>>
  BY DEF EmitLogEvent, ghostVars
<1>2. Head(toEmit) \in Events /\ Tail(toEmit) \in Seq(Events)
  BY <1>1
<1>3. \A s \in Subscribers :
        sent'[s] \in {sent[s], Append(sent[s], Head(toEmit))}
  BY DEF EmitLogEvent
<1>4. \A s \in Subscribers : sent'[s] \in Seq(Events) /\ at[s] <= Len(sent'[s])
  <2> SUFFICES ASSUME NEW s \in Subscribers
               PROVE  sent'[s] \in Seq(Events) /\ at[s] <= Len(sent'[s])
    OBVIOUS
  <2>1. sent[s] \in Seq(Events) /\ at[s] \in Nat /\ at[s] <= Len(sent[s])
    OBVIOUS
  <2>2. /\ Append(sent[s], Head(toEmit)) \in Seq(Events)
        /\ Len(Append(sent[s], Head(toEmit))) = Len(sent[s]) + 1
    BY <1>2, <2>1
  <2>3. Len(sent[s]) \in Nat
    BY <2>1
  <2>4. CASE sent'[s] = sent[s]
    BY <2>1, <2>4
  <2>5. CASE sent'[s] = Append(sent[s], Head(toEmit))
    <3>1. at[s] <= Len(sent[s]) + 1
      BY <2>1, <2>3
    <3> QED
      BY <2>2, <2>5, <3>1
  <2> QED
    BY <1>3, <2>4, <2>5
<1>5. sent' \in [Subscribers -> Seq(Events)]
  BY <1>4 DEF EmitLogEvent
<1>6. TypeOK'
  BY <1>1, <1>2, <1>4, <1>5
<1>u. Unregistered'
  BY <1>1 DEF Unregistered, EmitLogEvent
<1>7. /\ height \in Blocks
      /\ Len(toEmit) <= pending[height]
      /\ \A i \in DOMAIN toEmit :
            toEmit[i] = [block |-> height, index |-> pending[height] - Len(toEmit) + i]
  BY <1>1 DEF Shape
<1>8. Len(toEmit) \in Nat /\ Len(toEmit') = Len(toEmit) - 1 /\ pending[height] \in Nat
  BY <1>1, <1>7
<1>9. \A i \in DOMAIN toEmit' :
        toEmit'[i] = [block |-> height, index |-> pending[height] - Len(toEmit') + i]
  <2> SUFFICES ASSUME NEW i \in DOMAIN toEmit'
               PROVE  toEmit'[i] = [block |-> height, index |-> pending[height] - Len(toEmit') + i]
    OBVIOUS
  <2>1. i \in Nat /\ toEmit'[i] = toEmit[i + 1] /\ i + 1 \in DOMAIN toEmit
    BY <1>1, <1>2
  <2>2. pending[height] - Len(toEmit) + (i + 1) = pending[height] - Len(toEmit') + i
    <3> DEFINE p == pending[height]
               l == Len(toEmit)
               m == Len(toEmit')
    <3>1. p \in Nat /\ l \in Nat /\ m = l - 1 /\ i \in Nat
      BY <1>8, <2>1
    <3> HIDE DEF p, l, m
    <3>2. p - l + (i + 1) = p - m + i
      BY <3>1, Shift
    <3> QED
      BY <3>2 DEF p, l, m
  <2> QED
    BY <1>7, <2>1, <2>2
<1>10. Len(toEmit') <= pending[height]
  BY <1>7, <1>8
<1> QED
  BY <1>1, <1>6, <1>7, <1>9, <1>10, <1>u DEF Shape, LoggedBlocks, LastLogged

LEMMA SubscriberTypedShape ==
    ASSUME TypedShape, NEW s \in Subscribers,
           Resolve(s) \/ Register(s) \/ Forward(s) \/ FallBehind(s)
    PROVE  TypedShape'
<1>l. Latest \in 0 .. MaxBlock
  BY LatestType
<1> USE BoundsAssumption DEF TypedShape, TypeOK
<1>b. UNCHANGED blockVars
  BY DEF Resolve, Register, Forward, FallBehind
<1>s. Shape'
  BY <1>b DEF blockVars, Shape, LoggedBlocks, LastLogged
<1>1. CASE Resolve(s)
  <2>1. PICK first \in Blocks \union {Latest} : from' = [from EXCEPT ![s] = first]
    BY <1>1 DEF Resolve
  <2>2. first \in 0 .. MaxBlock
    BY <2>1, <1>l DEF Blocks
  <2> QED
    BY <1>1, <1>b, <1>s, <2>1, <2>2 DEF Resolve, blockVars, ghostVars, Unregistered
<1>2. CASE Register(s)
  <2>1. PICK replay \in Replays(from[s]) :
          /\ sent' = [sent EXCEPT ![s] = replay]
          /\ replayed' = [replayed EXCEPT ![s] = Len(replay)]
    BY <1>2 DEF Register
  <2>2. replay \in Seq(Events) /\ Len(replay) \in Nat
    BY ReplayFacts
  <2>3. Adding \in 0 .. MaxBlock
    BY DEF Adding
  <2>4. at[s] = 0 /\ stage[s] = "resolved"
    BY <1>2 DEF Register, Unregistered
  <2>5. at[s] <= Len(sent'[s])
    BY <2>1, <2>2, <2>4
  <2> QED
    BY <1>2, <1>b, <1>s, <2>1, <2>2, <2>3, <2>4, <2>5 DEF Register, blockVars, Unregistered
<1>3. CASE Forward(s)
  <2>1. at[s] + 1 \in DOMAIN sent[s] /\ at[s] \in Nat
    BY <1>3 DEF Forward
  <2>2. sent[s][at[s] + 1] \in Events
    BY <2>1
  <2> QED
    BY <1>3, <1>b, <1>s, <2>1, <2>2 DEF Forward, blockVars, ghostVars, Unregistered
<1>4. CASE FallBehind(s)
  BY <1>4, <1>b, <1>s DEF FallBehind, blockVars, ghostVars, Unregistered
<1> QED
  BY <1>1, <1>2, <1>3, <1>4

LEMMA NextTypedShape == TypedShape /\ [Next]_vars => TypedShape'
<1> SUFFICES ASSUME TypedShape, [Next]_vars
             PROVE  TypedShape'
  OBVIOUS
<1>1. CASE UNCHANGED vars
  BY <1>1 DEF vars, blockVars, channelVars, ghostVars, TypedShape, TypeOK, Shape, LoggedBlocks,
     LastLogged, Unregistered
<1> QED
  BY <1>1, BlockStepTypedShape, EmissionTypedShape, SubscriberTypedShape
     DEF Next, AddBlock, Task

(* Type correctness: only events that can be are emitted, replayed, sent and  *)
(* forwarded, and no receiver passes more than was sent.                      *)
THEOREM TypeCorrect == Spec => []TypeOK
<1>1. TypedShape => TypeOK
  BY DEF TypedShape
<1> QED
  BY <1>1, InitTypedShape, NextTypedShape, PTL DEF Spec

--------------------------------------------------------------------------------
(* Streams.  Why nothing is missed or repeated: at any time an event of the   *)
(* pending logs either has been emitted or will be, and a replay has all of   *)
(* them; so a subscriber lacks nothing that was emitted, and has from its     *)
(* replay only events of the block being added, which come again, and of      *)
(* blocks that are closed.                                                    *)

(* How many of the logs of each block were emitted. *)
done ==
    [b \in Blocks |->
        IF adder # "idle" /\ b = Adding THEN 0
        ELSE IF adder = "idle" /\ b = height THEN pending[b] - Len(toEmit)
        ELSE pending[b]]

(* No log of a block up to here will be emitted anymore. *)
ClosedHeight == IF adder = "operations" \/ ~Busy THEN height ELSE height - 1

Emitted(e) == e.block <= height /\ e.index <= done[e.block]

Before(e, f) == e.block < f.block \/ (e.block = f.block /\ e.index < f.index)

Replay(s) == 1 .. replayed[s]
Emission(s) == replayed[s] + 1 .. Len(sent[s])

Forwarded(s) == Len(got[s]) = at[s] /\ \A i \in 1 .. at[s] : got[s][i] = sent[s][i]

Covered(s) ==
    stage[s] = "open" =>
        \A e \in Events :
            e.block >= from[s] /\ e.index <= done[e.block] =>
                \E i \in 1 .. Len(sent[s]) : sent[s][i] = e

ReplayedOnce(s) ==
    /\ replayed[s] <= Len(sent[s])
    /\ \A i, j \in Replay(s) : sent[s][i] = sent[s][j] => i = j
    /\ \A i \in Replay(s) : sent[s][i].block = during[s] \/ sent[s][i].block <= ClosedHeight

EmittedOnce(s) ==
    /\ \A i \in Emission(s) : Emitted(sent[s][i])
    /\ \A i, j \in Emission(s) : i < j => Before(sent[s][i], sent[s][j])

RepeatsDuring(s) ==
    \A i \in Replay(s), j \in Emission(s) :
        sent[s][i] = sent[s][j] => sent[s][i].block = during[s]

StreamInv(s) ==
    Forwarded(s) /\ Covered(s) /\ ReplayedOnce(s) /\ EmittedOnce(s) /\ RepeatsDuring(s)

SInv == TypedShape /\ \A s \in Subscribers : StreamInv(s)

(* What was emitted, and which blocks are closed, while a block is added. *)
LEMMA BlockStepCounts ==
    ASSUME TypedShape, BeginBlock \/ AddPendingLog \/ PublishBlock \/ FinishBlock
    PROVE  /\ \A b \in Blocks : done'[b] = done[b]
           /\ height' \in Nat /\ height <= height'
           /\ ClosedHeight' \in Int /\ ClosedHeight <= ClosedHeight'
<1> USE DEF TypedShape, TypeOK
<1>n. height \in Nat /\ height \in Int /\ \A b \in Blocks : b \in Nat
  BY DEF Blocks
<1>1. CASE BeginBlock
  <2>1. /\ adder = "idle" /\ toEmit = <<>> /\ adder' = "operations"
        /\ UNCHANGED <<height, pending, toEmit>>
        /\ height < MaxBlock
    BY <1>1 DEF BeginBlock, Busy
  <2>2. pending[height + 1] = 0
    BY <2>1, <1>n, BoundsAssumption DEF Shape, LastLogged, Blocks
  <2>3. ASSUME NEW b \in Blocks
        PROVE  done'[b] = done[b]
    <3>1. pending[b] \in Nat /\ pending[b] - 0 = pending[b] /\ Len(toEmit) = 0
      BY <2>1
    <3>2. done[b] = pending[b]
      BY <2>1, <3>1 DEF done
    <3>3. done'[b] = IF b = height + 1 THEN 0 ELSE pending[b]
      BY <2>1 DEF done, Adding, Busy
    <3> QED
      BY <2>2, <3>2, <3>3
  <2> QED
    BY <2>1, <2>3, <1>n DEF ClosedHeight, Busy
<1>2. CASE AddPendingLog
  <2>1. /\ adder = "operations" /\ adder' = "operations"
        /\ UNCHANGED <<height, toEmit>>
        /\ pending' = [pending EXCEPT ![height + 1] = @ + 1]
    BY <1>2 DEF AddPendingLog
  <2> QED
    BY <2>1, <1>n DEF done, Adding, Busy, ClosedHeight
<1>3. CASE PublishBlock
  <2>1. /\ adder = "operations" /\ adder' = "published"
        /\ height' = height + 1
        /\ UNCHANGED <<pending, toEmit>>
    BY <1>3 DEF PublishBlock
  <2> QED
    BY <2>1, <1>n DEF done, Adding, Busy, ClosedHeight
<1>4. CASE FinishBlock
  <2>1. /\ adder = "published" /\ adder' = "idle"
        /\ UNCHANGED <<height, pending>>
        /\ toEmit' = Logs(height)
        /\ height \in Blocks
    BY <1>4 DEF FinishBlock, Shape
  <2>2. Len(toEmit') = pending[height] /\ pending[height] \in Nat
    BY <2>1, LogsType
  <2>3. pending[height] - Len(toEmit') = 0
    BY <2>2
  <2>4. ASSUME NEW b \in Blocks
        PROVE  done'[b] = done[b]
    <3>1. done[b] = IF b = height THEN 0 ELSE pending[b]
      BY <2>1 DEF done, Adding, Busy
    <3>2. done'[b] = IF b = height THEN 0 ELSE pending[b]
      BY <2>1, <2>3 DEF done
    <3> QED
      BY <3>1, <3>2
  <2> QED
    BY <2>1, <2>4, <1>n DEF ClosedHeight, Busy
<1> QED
  BY <1>1, <1>2, <1>3, <1>4

(* The event that is emitted is the next of the last block. *)
LEMMA EmissionCounts ==
    ASSUME TypedShape, EmitLogEvent
    PROVE  /\ Head(toEmit) \in Events
           /\ Head(toEmit).block = height
           /\ Head(toEmit).index = done[height] + 1
           /\ done[height] \in Nat
           /\ done'[height] = done[height] + 1
           /\ \A b \in Blocks : b # height => done'[b] = done[b]
           /\ ClosedHeight = height - 1
           /\ ClosedHeight' \in {height, height - 1}
<1> USE DEF TypedShape, TypeOK
<1>1. /\ toEmit # <<>> /\ toEmit' = Tail(toEmit)
      /\ UNCHANGED <<height, adder, pending>>
      /\ adder = "idle"
  BY DEF EmitLogEvent, Shape
<1>2. /\ height \in Blocks
      /\ Len(toEmit) <= pending[height]
      /\ Head(toEmit) = [block |-> height, index |-> pending[height] - Len(toEmit) + 1]
      /\ Head(toEmit) \in Events
  BY <1>1 DEF Shape
<1>3. Len(toEmit) \in Nat /\ Len(toEmit') = Len(toEmit) - 1 /\ pending[height] \in Nat
  BY <1>1, <1>2, BoundsAssumption
<1>4. done[height] = pending[height] - Len(toEmit) /\ done'[height] = pending[height] - Len(toEmit')
  BY <1>1, <1>2 DEF done
<1>5. pending[height] - Len(toEmit') = (pending[height] - Len(toEmit)) + 1
  <2> DEFINE p == pending[height]
             l == Len(toEmit)
             m == Len(toEmit')
  <2>1. p \in Nat /\ l \in Nat /\ m = l - 1
    BY <1>3
  <2> HIDE DEF p, l, m
  <2>2. p - m = (p - l) + 1
    BY <2>1
  <2> QED
    BY <2>2 DEF p, l, m
<1>6. pending[height] - Len(toEmit) \in Nat
  BY <1>2, <1>3
<1>7. \A b \in Blocks : b # height => done'[b] = done[b]
  BY <1>1 DEF done
<1> QED
  BY <1>1, <1>2, <1>4, <1>5, <1>6, <1>7 DEF ClosedHeight, Busy

(* Steps of add_block that emit nothing leave every stream as good as it was. *)
LEMMA BlockStepStreams ==
    ASSUME SInv, BeginBlock \/ AddPendingLog \/ PublishBlock \/ FinishBlock,
           NEW s \in Subscribers
    PROVE  StreamInv(s)'
<1> USE DEF SInv
<1>c. UNCHANGED <<stage, from, sent, at, got, replayed, during>>
  BY DEF BeginBlock, AddPendingLog, PublishBlock, FinishBlock, channelVars, ghostVars
<1>n. /\ height \in Nat /\ sent[s] \in Seq(Events) /\ replayed[s] \in Nat
      /\ \A e \in Events : e.block \in Blocks /\ e.block \in Nat
  <2>1. \A e \in Events : e.block \in Blocks /\ e.block \in Nat
    BY DEF Events, Blocks
  <2>2. height \in Nat /\ sent[s] \in Seq(Events) /\ replayed[s] \in Nat
    BY DEF TypedShape, TypeOK
  <2> QED
    BY <2>1, <2>2
<1>d. /\ \A b \in Blocks : done'[b] = done[b]
      /\ height' \in Nat /\ height <= height'
      /\ ClosedHeight' \in Int /\ ClosedHeight <= ClosedHeight' /\ ClosedHeight \in Int
  BY <1>n, BlockStepCounts DEF ClosedHeight
<1>1. Forwarded(s)'
  BY <1>c DEF StreamInv, Forwarded
<1>2. Covered(s)'
  BY <1>c, <1>d, <1>n DEF StreamInv, Covered
<1>3. ReplayedOnce(s)'
  <2>1. \A i \in Replay(s) : sent[s][i].block \in Nat
    BY <1>n DEF StreamInv, ReplayedOnce, Replay
  <2> QED
    BY <1>c, <1>d, <2>1 DEF StreamInv, ReplayedOnce, Replay
<1>4. EmittedOnce(s)'
  <2>1. \A i \in Emission(s) : sent[s][i] \in Events
    BY <1>n DEF Emission
  <2>2. \A i \in Emission(s) :
          sent[s][i].block <= height' /\ sent[s][i].index <= done'[sent[s][i].block]
    BY <1>c, <1>d, <1>n, <2>1 DEF StreamInv, EmittedOnce, Emitted
  <2> QED
    BY <1>c, <2>2 DEF StreamInv, EmittedOnce, Emission, Emitted, Before
<1>5. RepeatsDuring(s)'
  BY <1>c DEF StreamInv, RepeatsDuring, Replay, Emission
<1> QED
  BY <1>1, <1>2, <1>3, <1>4, <1>5 DEF StreamInv

(* Emission appends the next event to every stream that wants it. *)
LEMMA EmissionStreams ==
    ASSUME SInv, EmitLogEvent, NEW s \in Subscribers
    PROVE  StreamInv(s)'
<1> USE DEF SInv
<1> DEFINE e == Head(toEmit)
           n == Len(sent[s])
<1>c. /\ UNCHANGED <<height, pending, stage, from, at, got, replayed, during>>
      /\ sent'[s] = IF stage[s] = "open" /\ e.block >= from[s]
                    THEN Append(sent[s], e) ELSE sent[s]
  BY DEF EmitLogEvent, ghostVars, Matches
<1>n. /\ height \in Nat /\ sent[s] \in Seq(Events) /\ replayed[s] \in Nat /\ at[s] \in Nat
      /\ n \in Nat /\ at[s] <= n
      /\ \A f \in Events : f.block \in Blocks /\ f.block \in Nat /\ f.index \in Nat
  <2>1. \A f \in Events : f.block \in Blocks /\ f.block \in Nat /\ f.index \in Nat
    BY DEF Events, Blocks
  <2>2. /\ height \in Nat /\ sent[s] \in Seq(Events) /\ replayed[s] \in Nat /\ at[s] \in Nat
        /\ at[s] <= n
    BY DEF TypedShape, TypeOK
  <2> QED
    BY <2>1, <2>2
<1>e. /\ e \in Events /\ e.block = height /\ e.index = done[height] + 1
      /\ done[height] \in Nat /\ done'[height] = done[height] + 1
      /\ \A b \in Blocks : b # height => done'[b] = done[b]
      /\ ClosedHeight = height - 1
      /\ ClosedHeight' \in {height, height - 1}
  BY EmissionCounts
<1> HIDE DEF e
<1>l. /\ Len(sent'[s]) \in {n, n + 1}
      /\ \A i \in 1 .. n : sent'[s][i] = sent[s][i] /\ sent[s][i] \in Events
      /\ Len(sent'[s]) = n + 1 => sent'[s][n + 1] = e
  BY <1>c, <1>n, <1>e
<1>r. replayed[s] <= n
  BY DEF StreamInv, ReplayedOnce
<1> HIDE DEF n
<1>p. Replay(s) \subseteq 1 .. n /\ Replay(s)' = Replay(s)
  BY <1>c, <1>n, <1>r DEF Replay
<1>m. /\ Emission(s) = replayed[s] + 1 .. n /\ Emission(s) \subseteq 1 .. n
      /\ \A i \in Emission(s)' : i \in Emission(s) \/ (i = n + 1 /\ Len(sent'[s]) = n + 1)
  BY <1>c, <1>n, <1>r, <1>l DEF Emission, n
<1>1. Forwarded(s)'
  <2>1. \A i \in 1 .. at[s] : i \in 1 .. n
    BY <1>n
  <2> QED
    BY <1>c, <1>l, <2>1 DEF StreamInv, Forwarded
<1>2. Covered(s)'
  <2> SUFFICES ASSUME stage[s] = "open", NEW f \in Events,
                      f.block >= from[s], f.index <= done'[f.block]
               PROVE  \E i \in 1 .. Len(sent'[s]) : sent'[s][i] = f
    BY <1>c DEF Covered
  <2>1. CASE f.index <= done[f.block]
    <3>1. PICK i \in 1 .. n : sent[s][i] = f
      BY <2>1 DEF StreamInv, Covered, n
    <3>2. i \in 1 .. Len(sent'[s])
      BY <1>l, <1>n
    <3> QED
      BY <1>l, <3>1, <3>2
  <2>2. CASE ~(f.index <= done[f.block])
    <3>1. f.block = height
      BY <1>e, <1>n, <2>2
    <3>2. f.index = done[height] + 1
      BY <1>e, <1>n, <2>2, <3>1
    <3>3. f = e
      BY <1>e, <3>1, <3>2 DEF Events
    <3>4. sent'[s] = Append(sent[s], e)
      BY <1>c, <3>3
    <3>5. Len(sent'[s]) = n + 1 /\ n + 1 \in 1 .. n + 1
      BY <1>n, <1>e, <3>4 DEF n
    <3> QED
      BY <1>l, <3>3, <3>5
  <2> QED
    BY <2>1, <2>2
<1>3. ReplayedOnce(s)'
  <2>1. replayed[s] <= Len(sent'[s])
    BY <1>l, <1>n, <1>r
  <2>2. \A i \in Replay(s) : sent[s][i].block <= ClosedHeight => sent[s][i].block <= ClosedHeight'
    <3> SUFFICES ASSUME NEW i \in Replay(s), sent[s][i].block <= height - 1
                 PROVE  sent[s][i].block <= ClosedHeight'
      BY <1>e
    <3>1. sent[s][i].block \in Nat
      BY <1>l, <1>n, <1>p
    <3> QED
      BY <1>e, <1>n, <3>1
  <2> QED
    BY <1>c, <1>l, <1>p, <2>1, <2>2 DEF StreamInv, ReplayedOnce
<1>4. EmittedOnce(s)'
  <2>1. ASSUME NEW f \in Events, Emitted(f)
        PROVE  f.block <= height /\ f.index <= done'[f.block] /\ Before(f, e)
    <3>1. f.block \in Blocks /\ f.block \in Nat /\ f.index \in Nat
          /\ f.block <= height /\ f.index <= done[f.block]
      BY <1>n, <2>1 DEF Emitted
    <3>2. CASE f.block = height
      BY <1>e, <3>1, <3>2 DEF Before
    <3>3. CASE f.block # height
      BY <1>e, <1>n, <3>1, <3>3 DEF Before
    <3> QED
      BY <3>2, <3>3
  <2>2. \A i \in Emission(s) : /\ sent'[s][i] = sent[s][i]
                               /\ sent[s][i] \in Events
                               /\ Emitted(sent[s][i])
    BY <1>l, <1>m DEF StreamInv, EmittedOnce
  <2>3. \A i \in Emission(s)' :
          sent'[s][i].block <= height' /\ sent'[s][i].index <= done'[sent'[s][i].block]
    <3>1. e.index <= done'[e.block] /\ e.block <= height
      BY <1>e, <1>n
    <3> QED
      BY <1>c, <1>l, <1>m, <2>1, <2>2, <3>1
  <2>4. \A i, j \in Emission(s)' : i < j => Before(sent'[s][i], sent'[s][j])
    <3> SUFFICES ASSUME NEW i \in Emission(s)', NEW j \in Emission(s)', i < j
                 PROVE  Before(sent'[s][i], sent'[s][j])
      OBVIOUS
    <3>1. i \in Emission(s)
      <4>1. i \in Nat /\ j \in Nat /\ j <= n + 1
        BY <1>l, <1>n, <1>c DEF Emission
      <4> QED
        BY <1>m, <1>n, <4>1
    <3>2. CASE j \in Emission(s)
      BY <2>2, <3>1, <3>2 DEF StreamInv, EmittedOnce
    <3>3. CASE j \notin Emission(s)
      BY <1>l, <1>m, <2>1, <2>2, <3>1, <3>3
    <3> QED
      BY <3>2, <3>3
  <2> QED
    BY <2>3, <2>4 DEF EmittedOnce, Emitted, Before
<1>5. RepeatsDuring(s)'
  <2> SUFFICES ASSUME NEW i \in Replay(s), NEW j \in Emission(s)', sent'[s][i] = sent'[s][j]
               PROVE  sent'[s][i].block = during[s]
    BY <1>c, <1>p DEF RepeatsDuring
  <2>1. CASE j \in Emission(s)
    BY <1>l, <1>m, <1>p, <2>1 DEF StreamInv, RepeatsDuring
  <2>2. CASE j \notin Emission(s)
    <3>1. sent[s][i] = e /\ sent'[s][i] = e
      BY <1>l, <1>m, <1>p, <2>2
    <3>2. ~(e.block <= ClosedHeight)
      BY <1>e, <1>n
    <3> QED
      BY <3>1, <3>2 DEF StreamInv, ReplayedOnce
  <2> QED
    BY <2>1, <2>2
<1> QED
  BY <1>1, <1>2, <1>3, <1>4, <1>5 DEF StreamInv

(* A subscriber registers with a replay of all the logs there are. *)
LEMMA RegisterStream ==
    ASSUME SInv, NEW s \in Subscribers, Register(s)
    PROVE  StreamInv(s)'
<1> USE DEF SInv
<1>1. PICK replay \in Replays(from[s]) :
        sent'[s] = replay /\ replayed'[s] = Len(replay)
  BY DEF Register, TypedShape, TypeOK
<1>2. UNCHANGED <<height, adder, pending, toEmit, from, at, got>> /\ during'[s] = Adding
  BY DEF Register, blockVars, TypedShape, TypeOK
<1>3. at[s] = 0 /\ got[s] = <<>>
  BY DEF Register, TypedShape, Unregistered
<1>4. /\ replay \in Seq(Events)
      /\ \A i \in 1 .. Len(replay) : replay[i] \in Past(from[s])
      /\ \A i, j \in 1 .. Len(replay) : replay[i] = replay[j] => i = j
      /\ \A e \in Past(from[s]) : \E i \in 1 .. Len(replay) : replay[i] = e
  BY ReplayFacts DEF TypedShape, TypeOK
<1>5. Len(replay) \in Nat /\ Emission(s)' = {}
  BY <1>1, <1>4 DEF Emission
<1>6. UNCHANGED <<ClosedHeight, done>>
  BY <1>2 DEF ClosedHeight, done, Busy, Adding
<1>7. Forwarded(s)'
  BY <1>2, <1>3 DEF Forwarded
<1>8. Covered(s)'
  <2> SUFFICES ASSUME NEW e \in Events, e.block >= from[s], e.index <= done[e.block]
               PROVE  e \in Past(from[s])
    BY <1>1, <1>2, <1>4, <1>6 DEF Covered
  <2>1. e.block \in Blocks /\ e.index \in Nat /\ e.index >= 1
    BY DEF Events
  <2>2. pending[e.block] \in Nat /\ Len(toEmit) \in Nat
    BY <2>1 DEF TypedShape, TypeOK
  <2>3. e.index <= pending[e.block]
    BY <2>1, <2>2 DEF done
  <2> QED
    BY <2>3 DEF Past, Matches
<1>9. ReplayedOnce(s)'
  <2>1. ASSUME NEW e \in Past(from[s])
        PROVE  e.block = Adding \/ e.block <= ClosedHeight
    <3>1. e.block \in Blocks /\ e.block \in Nat /\ e.index \in Nat /\ e.index >= 1
      BY DEF Past, Events, Blocks
    <3>2. pending[e.block] # 0
      BY <3>1 DEF Past
    <3>3. ~(e.block > LastLogged)
      BY <3>1, <3>2 DEF TypedShape, Shape
    <3>4. height \in Nat
      BY DEF TypedShape, TypeOK
    <3> QED
      BY <3>1, <3>3, <3>4 DEF LastLogged, ClosedHeight, Busy, Adding
  <2>2. Replay(s)' = 1 .. Len(replay) /\ replayed'[s] <= Len(sent'[s])
    BY <1>1, <1>5 DEF Replay
  <2>3. \A i \in 1 .. Len(replay) : replay[i].block = Adding \/ replay[i].block <= ClosedHeight
    BY <1>4, <2>1
  <2> QED
    BY <1>1, <1>2, <1>4, <1>6, <2>2, <2>3 DEF ReplayedOnce
<1>10. EmittedOnce(s)' /\ RepeatsDuring(s)'
  BY <1>5 DEF EmittedOnce, RepeatsDuring
<1> QED
  BY <1>7, <1>8, <1>9, <1>10 DEF StreamInv

(* Resolving, forwarding and falling behind add nothing to a stream. *)
LEMMA ReaderStream ==
    ASSUME SInv, NEW s \in Subscribers, Resolve(s) \/ Forward(s) \/ FallBehind(s)
    PROVE  StreamInv(s)'
<1> USE DEF SInv
<1>t. /\ at[s] \in Nat /\ got[s] \in Seq(Events) /\ sent[s] \in Seq(Events)
      /\ stage \in [Subscribers -> {"away", "resolved", "open", "lagged"}]
      /\ got \in [Subscribers -> Seq(Events)] /\ at \in [Subscribers -> Nat]
  BY DEF TypedShape, TypeOK
<1>1. UNCHANGED <<height, adder, pending, toEmit, sent, replayed, during>>
  BY DEF Resolve, Forward, FallBehind, blockVars, ghostVars
<1>2. UNCHANGED <<ClosedHeight, done>>
  BY <1>1 DEF ClosedHeight, done, Busy, Adding
<1>3. Covered(s)'
  <2>1. stage'[s] = "open" => stage[s] = "open" /\ UNCHANGED from
    BY <1>t DEF Resolve, Forward, FallBehind
  <2> QED
    BY <1>1, <1>2, <2>1 DEF StreamInv, Covered
<1>4. ReplayedOnce(s)' /\ EmittedOnce(s)' /\ RepeatsDuring(s)'
  BY <1>1, <1>2 DEF StreamInv, ReplayedOnce, EmittedOnce, RepeatsDuring, Replay, Emission,
     Emitted, Before
<1>5. Forwarded(s)'
  <2>1. CASE Forward(s)
    <3>1. at'[s] = at[s] + 1 /\ got'[s] = Append(got[s], sent[s][at[s] + 1])
      BY <2>1, <1>t DEF Forward
    <3>2. Len(got[s]) = at[s] /\ \A i \in 1 .. at[s] : got[s][i] = sent[s][i]
      BY DEF StreamInv, Forwarded
    <3>3. at[s] + 1 \in 1 .. Len(sent[s])
      BY <2>1, <1>t DEF Forward
    <3>4. sent[s][at[s] + 1] \in Events
      BY <1>t, <3>3
    <3>5. /\ Len(got'[s]) = at[s] + 1
          /\ got'[s][at[s] + 1] = sent[s][at[s] + 1]
          /\ \A i \in 1 .. at[s] : got'[s][i] = got[s][i]
      BY <1>t, <3>1, <3>2, <3>4
    <3>6. \A i \in 1 .. at[s] + 1 : i \in 1 .. at[s] \/ i = at[s] + 1
      <4>1. at[s] \in Nat
        BY <1>t
      <4> HIDE DEF SInv
      <4> QED
        BY <4>1
    <3> QED
      BY <1>1, <3>1, <3>2, <3>5, <3>6 DEF Forwarded
  <2>2. CASE Resolve(s) \/ FallBehind(s)
    BY <2>2, <1>1 DEF Resolve, FallBehind, StreamInv, Forwarded
  <2> QED
    BY <2>1, <2>2
<1> QED
  BY <1>3, <1>4, <1>5 DEF StreamInv

(* One subscriber does not disturb another. *)
LEMMA OtherStreams ==
    ASSUME SInv, NEW s \in Subscribers, NEW t \in Subscribers \ {s},
           Resolve(s) \/ Register(s) \/ Forward(s) \/ FallBehind(s)
    PROVE  StreamInv(t)'
<1>1. UNCHANGED <<height, adder, pending, toEmit>>
  BY DEF Resolve, Register, Forward, FallBehind, blockVars
<1>2. /\ stage'[t] = stage[t] /\ from'[t] = from[t] /\ sent'[t] = sent[t] /\ at'[t] = at[t]
      /\ got'[t] = got[t] /\ replayed'[t] = replayed[t] /\ during'[t] = during[t]
  BY DEF SInv, TypedShape, TypeOK, Resolve, Register, Forward, FallBehind, ghostVars
<1>3. UNCHANGED <<ClosedHeight, done>>
  BY <1>1 DEF ClosedHeight, done, Busy, Adding
<1>4. StreamInv(t)
  BY DEF SInv
<1>5. Forwarded(t)' /\ Covered(t)'
  BY <1>2, <1>3, <1>4 DEF StreamInv, Forwarded, Covered
<1>6. ReplayedOnce(t)' /\ RepeatsDuring(t)'
  BY <1>2, <1>3, <1>4 DEF StreamInv, ReplayedOnce, RepeatsDuring, Replay, Emission
<1>7. EmittedOnce(t)'
  BY <1>1, <1>2, <1>3, <1>4 DEF StreamInv, EmittedOnce, Emission, Emitted, Before
<1> QED
  BY <1>5, <1>6, <1>7 DEF StreamInv

LEMMA InitSInv == Init => SInv
<1> SUFFICES ASSUME Init, NEW s \in Subscribers
             PROVE  StreamInv(s)
  BY InitTypedShape DEF SInv
<1>1. /\ sent[s] = <<>> /\ got[s] = <<>> /\ at[s] = 0 /\ replayed[s] = 0 /\ stage[s] = "away"
  BY DEF Init
<1>2. Replay(s) = {} /\ Emission(s) = {}
  BY <1>1 DEF Replay, Emission
<1> QED
  BY <1>1, <1>2 DEF StreamInv, Forwarded, Covered, ReplayedOnce, EmittedOnce, RepeatsDuring

LEMMA NextSInv == SInv /\ [Next]_vars => SInv'
<1> SUFFICES ASSUME SInv, [Next]_vars, NEW s \in Subscribers
             PROVE  StreamInv(s)'
  BY NextTypedShape DEF SInv
<1>1. CASE AddBlock
  BY <1>1, BlockStepStreams, EmissionStreams DEF AddBlock
<1>2. ASSUME NEW t \in Subscribers, Resolve(t) \/ Register(t) \/ Task(t)
      PROVE  StreamInv(s)'
  <2>1. CASE t = s
    BY <1>2, <2>1, RegisterStream, ReaderStream DEF Task
  <2>2. CASE t # s
    BY <1>2, <2>2, OtherStreams DEF Task
  <2> QED
    BY <2>1, <2>2
<1>3. CASE UNCHANGED vars
  BY <1>3 DEF vars, blockVars, channelVars, ghostVars, SInv, StreamInv, Forwarded, Covered,
     ReplayedOnce, EmittedOnce, RepeatsDuring, Replay, Emission, Emitted, Before, done,
     ClosedHeight, Busy, Adding
<1> QED
  BY <1>1, <1>2, <1>3 DEF Next

LEMMA StreamsInvariant == Spec => []SInv
  BY InitSInv, NextSInv, PTL DEF Spec

(* No event from a client's first block on is missed by both the replay and   *)
(* the emission, whenever it subscribes.                                      *)
THEOREM NoEventMissed == Spec => []NothingMissed
<1>1. SInv => NothingMissed
  <2> SUFFICES ASSUME SInv, NEW s \in Subscribers, NEW e \in Events,
                      stage[s] = "open", Finished(e), e.block >= from[s]
               PROVE  Reached(s, e)
    BY DEF NothingMissed
  <2>1. e.block \in Blocks /\ adder = "idle" /\ toEmit = <<>>
    BY DEF Events, Finished, Busy
  <2>2. pending[e.block] \in Nat /\ Len(toEmit) = 0
    BY <2>1 DEF SInv, TypedShape, TypeOK
  <2>3. done[e.block] = pending[e.block]
    BY <2>1, <2>2 DEF done
  <2>4. PICK i \in 1 .. Len(sent[s]) : sent[s][i] = e
    BY <2>3 DEF SInv, StreamInv, Covered, Finished
  <2>5. DOMAIN sent[s] = 1 .. Len(sent[s])
    BY DEF SInv, TypedShape, TypeOK
  <2> QED
    BY <2>4, <2>5 DEF Reached, ToSet
<1> QED
  BY <1>1, StreamsInvariant, PTL

(* A client never sees an event of a block that is not in the chain, but for  *)
(* the block that was being added when it subscribed.                         *)
THEOREM BlocksComeFirst == Spec => []BlockFirst
<1>1. SInv => BlockFirst
  <2> SUFFICES ASSUME SInv, NEW s \in Subscribers, NEW i \in DOMAIN sent[s],
                      sent[s][i].block # during[s]
               PROVE  sent[s][i].block <= height
    BY DEF BlockFirst
  <2>1. /\ sent[s] \in Seq(Events) /\ i \in 1 .. Len(sent[s]) /\ sent[s][i] \in Events
        /\ height \in Nat /\ replayed[s] \in Nat
    BY DEF SInv, TypedShape, TypeOK
  <2>2. sent[s][i].block \in Nat
    BY <2>1 DEF Events, Blocks
  <2>3. CASE i \in Replay(s)
    <3>1. sent[s][i].block <= ClosedHeight
      BY <2>3 DEF SInv, StreamInv, ReplayedOnce
    <3> QED
      BY <2>1, <2>2, <3>1 DEF ClosedHeight
  <2>4. CASE i \in Emission(s)
    BY <2>4 DEF SInv, StreamInv, EmittedOnce, Emitted
  <2>5. i \in Replay(s) \/ i \in Emission(s)
    BY <2>1 DEF Replay, Emission
  <2> QED
    BY <2>3, <2>4, <2>5
<1> QED
  BY <1>1, StreamsInvariant, PTL

(* What a client gets is a prefix of what was sent to it, and what was        *)
(* emitted to it is in the order in which it happened.                        *)
THEOREM EventsInOrder == Spec => []InOrder
<1>1. SInv => InOrder
  <2> SUFFICES ASSUME SInv, NEW s \in Subscribers
               PROVE  /\ IsPrefix(got[s], sent[s])
                      /\ \A j, i \in DOMAIN sent[s] :
                            replayed[s] < i /\ i < j => Before(sent[s][i], sent[s][j])
    BY DEF InOrder, Before
  <2>1. /\ sent[s] \in Seq(Events) /\ got[s] \in Seq(Events) /\ at[s] <= Len(sent[s])
        /\ replayed[s] \in Nat
    BY DEF SInv, TypedShape, TypeOK
  <2>2. Len(got[s]) <= Len(sent[s]) /\ \A i \in 1 .. Len(got[s]) : got[s][i] = sent[s][i]
    BY <2>1 DEF SInv, StreamInv, Forwarded
  <2>3. IsPrefix(got[s], sent[s])
    BY <2>1, <2>2 DEF IsPrefix
  <2>4. \A i \in DOMAIN sent[s] : replayed[s] < i => i \in Emission(s)
    BY <2>1 DEF Emission
  <2>5. \A i, j \in DOMAIN sent[s] : replayed[s] < i /\ i < j => replayed[s] < j
    BY <2>1
  <2> QED
    BY <2>3, <2>4, <2>5 DEF SInv, StreamInv, EmittedOnce
<1> QED
  BY <1>1, StreamsInvariant, PTL

LEMMA FewAreFinite ==
    ASSUME NEW A, NEW x, A \subseteq {x}
    PROVE  IsFiniteSet(A) /\ Cardinality(A) \in Nat /\ Cardinality(A) <= 1
<1>1. IsFiniteSet({x}) /\ Cardinality({x}) = 1
  BY FS_Singleton
<1>2. IsFiniteSet(A) /\ Cardinality(A) <= Cardinality({x})
  BY <1>1, FS_Subset
<1> QED
  BY <1>1, <1>2, FS_CardinalityType

(* Replay and emission together send an event once, and one of the block that *)
(* was being added at registration at most twice.                             *)
THEOREM EventsSentOnce == Spec => []SentOnce
<1>1. SInv => SentOnce
  <2> SUFFICES ASSUME SInv, NEW s \in Subscribers, NEW e \in Events
               PROVE  Cardinality({i \in DOMAIN sent[s] : sent[s][i] = e})
                         <= IF e.block = during[s] THEN 2 ELSE 1
    BY DEF SentOnce
  <2> DEFINE A == {i \in Replay(s) : sent[s][i] = e}
             B == {i \in Emission(s) : sent[s][i] = e}
  <2>1. sent[s] \in Seq(Events) /\ replayed[s] \in Nat /\ replayed[s] <= Len(sent[s])
    BY DEF SInv, TypedShape, TypeOK, StreamInv, ReplayedOnce
  <2>2. {i \in DOMAIN sent[s] : sent[s][i] = e} = A \union B
    BY <2>1 DEF Replay, Emission
  <2>3. \A i, j \in A : i = j
    BY DEF SInv, StreamInv, ReplayedOnce
  <2>4. \A i, j \in B : i = j
    <3> SUFFICES ASSUME NEW i \in B, NEW j \in B, i < j
                 PROVE  FALSE
      BY <2>1 DEF Emission
    <3>1. Before(e, e)
      BY DEF SInv, StreamInv, EmittedOnce
    <3> QED
      BY <3>1 DEF Before, Events, Blocks
  <2>5. /\ IsFiniteSet(A) /\ Cardinality(A) \in Nat /\ Cardinality(A) <= 1
        /\ IsFiniteSet(B) /\ Cardinality(B) \in Nat /\ Cardinality(B) <= 1
    <3> HIDE DEF A, B
    <3>1. (\E x : A \subseteq {x}) /\ (\E x : B \subseteq {x})
      BY <2>3, <2>4
    <3> QED
      BY <3>1, FewAreFinite
  <2>6. A # {} /\ B # {} => e.block = during[s]
    BY DEF SInv, StreamInv, RepeatsDuring
  <2> HIDE DEF A, B
  <2>7. CASE A = {} \/ B = {}
    <3>1. Cardinality(A \union B) <= 1
      <4>1. A \union B = A \/ A \union B = B
        BY <2>7
      <4> QED
        BY <2>5, <4>1
    <3>2. Cardinality(A \union B) \in Nat
      BY <2>5, FS_Union, FS_CardinalityType
    <3> QED
      BY <2>2, <3>1, <3>2
  <2>8. CASE A # {} /\ B # {}
    <3>1. Cardinality(A \union B) <= 2
      <4>1. /\ IsFiniteSet(A \union B)
            /\ Cardinality(A \union B) = Cardinality(A) + Cardinality(B) - Cardinality(A \cap B)
        BY <2>5, FS_Union
      <4>2. Cardinality(A \cap B) \in Nat
        BY <2>5, FS_Intersection, FS_CardinalityType
      <4> QED
        BY <2>5, <4>1, <4>2
    <3> QED
      BY <2>2, <2>6, <2>8, <3>1
  <2> QED
    BY <2>7, <2>8
<1> QED
  BY <1>1, StreamsInvariant, PTL

================================================================================
