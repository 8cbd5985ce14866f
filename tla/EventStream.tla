------------------------------- MODULE EventStream -------------------------------
(***************************************************************************)
(* Event subscriptions of arkiv-mock and the streams a client reads from   *)
(* them (events.rs of the mock, lib.rs subscribe, events.rs of the SDK).   *)
(*                                                                         *)
(* While add_block runs the operations of a block it appends their events  *)
(* to the pending logs of the block, one lock acquisition each.  Then it   *)
(* publishes the block, drops the lock of the chain, copies the logs and   *)
(* emits them one by one.  A subscribe call reads the latest block number, *)
(* and in another acquisition registers and replays what is pending so     *)
(* far.  Each subscription has a broadcast channel and a task that         *)
(* forwards from it.                                                       *)
(*                                                                         *)
(* An event is its block and its position among the logs of the block.     *)
(* Contract and event kinds are left out: a filter of the client asks for  *)
(* all that the emitter emits.  A reset of the chain is left out: it does  *)
(* not touch the emitter, and block numbers go on.                         *)
(***************************************************************************)
EXTENDS Integers, Sequences, FiniteSets, SequencesExt

CONSTANTS
    Subscribers,
    MaxBlock,       \* bound on the block number
    MaxEvents,      \* bound on the events of a block
    Capacity        \* of a broadcast channel

ASSUME BoundsAssumption == /\ MaxBlock \in Nat
                           /\ MaxEvents \in Nat
                           /\ Capacity \in Nat \ {0}

VARIABLES
    height,     \* last block in the chain
    adder,      \* where add_block is
    pending,    \* number of pending logs of each block, which are never cleared
    toEmit,     \* copied by finish_block and not yet emitted
    stage,      \* of each subscription
    from,       \* first block of its filter
    sent,       \* everything sent to its channel
    at,         \* how much of that its receiver has passed
    got,        \* what was forwarded to the client
    replayed,   \* how much of what was sent is replay
    during      \* the block being added when it registered, or 0

blockVars == <<height, adder, pending, toEmit>>
channelVars == <<stage, from, sent, at, got>>
ghostVars == <<replayed, during>>
vars == <<blockVars, channelVars, ghostVars>>

Blocks == 1 .. MaxBlock
Events == [block : Blocks, index : 1 .. MaxEvents]

TypeOK ==
    /\ height \in 0 .. MaxBlock
    /\ adder \in {"idle", "operations", "published"}
    /\ adder = "operations" => height < MaxBlock /\ toEmit = <<>>
    /\ pending \in [Blocks -> 0 .. MaxEvents]
    /\ toEmit \in Seq(Events)
    /\ stage \in [Subscribers -> {"away", "resolved", "open", "lagged"}]
    /\ from \in [Subscribers -> 0 .. MaxBlock]
    /\ sent \in [Subscribers -> Seq(Events)]
    /\ at \in [Subscribers -> Nat]
    /\ \A s \in Subscribers : at[s] <= Len(sent[s])
    /\ got \in [Subscribers -> Seq(Events)]
    /\ replayed \in [Subscribers -> Nat]
    /\ during \in [Subscribers -> 0 .. MaxBlock]

Init ==
    /\ height = 0
    /\ adder = "idle"
    /\ pending = [b \in Blocks |-> 0]
    /\ toEmit = <<>>
    /\ stage = [s \in Subscribers |-> "away"]
    /\ from = [s \in Subscribers |-> 0]
    /\ sent = [s \in Subscribers |-> <<>>]
    /\ at = [s \in Subscribers |-> 0]
    /\ got = [s \in Subscribers |-> <<>>]
    /\ replayed = [s \in Subscribers |-> 0]
    /\ during = [s \in Subscribers |-> 0]

Logs(b) == [i \in 1 .. pending[b] |-> [block |-> b, index |-> i]]

(* A block has an entry among the pending logs once it has a log. *)
LoggedBlocks == {b \in Blocks : pending[b] > 0}

Busy == adder # "idle" \/ toEmit # <<>>

Adding == IF ~Busy THEN 0 ELSE IF adder = "operations" THEN height + 1 ELSE height

--------------------------------------------------------------------------------
(* add_block *)

BeginBlock ==
    /\ ~Busy
    /\ height < MaxBlock
    /\ adder' = "operations"
    /\ UNCHANGED <<height, pending, toEmit, channelVars, ghostVars>>

AddPendingLog ==
    /\ adder = "operations"
    /\ pending[height + 1] < MaxEvents
    /\ pending' = [pending EXCEPT ![height + 1] = @ + 1]
    /\ UNCHANGED <<height, adder, toEmit, channelVars, ghostVars>>

PublishBlock ==
    /\ adder = "operations"
    /\ height' = height + 1
    /\ adder' = "published"
    /\ UNCHANGED <<pending, toEmit, channelVars, ghostVars>>

(* Mutants: the events are emitted before the block is in the chain; the     *)
(* logs of all blocks are emitted, as none is ever cleared.                  *)
FinishBlockBeforePublished ==
    /\ adder = "operations"
    /\ toEmit = <<>>
    /\ toEmit' = Logs(height + 1)
    /\ UNCHANGED <<height, adder, pending, channelVars, ghostVars>>

FinishEveryBlock ==
    /\ adder = "published"
    /\ toEmit' = FlattenSeq([b \in 1 .. height |-> Logs(b)])
    /\ adder' = "idle"
    /\ UNCHANGED <<height, pending, channelVars, ghostVars>>

FinishBlock ==
    /\ adder = "published"
    /\ toEmit' = Logs(height)
    /\ adder' = "idle"
    /\ UNCHANGED <<height, pending, channelVars, ghostVars>>

(* Mutant: the filter starts after its first block. *)
MatchesAfter(e, first) == e.block > first

(* log_event_matches_filter *)
Matches(e, first) == e.block >= first

(* Mutant: the last log first. *)
EmitLastLogEvent ==
    LET e == Last(toEmit)
    IN  /\ toEmit # <<>>
        /\ toEmit' = Front(toEmit)
        /\ sent' = [s \in Subscribers |->
                        IF stage[s] = "open" /\ Matches(e, from[s])
                        THEN Append(sent[s], e) ELSE sent[s]]
        /\ UNCHANGED <<height, adder, pending, stage, from, at, got, ghostVars>>

(* emit_log_event: to every subscription, whatever the others do with it. *)
EmitLogEvent ==
    LET e == Head(toEmit)
    IN  /\ toEmit # <<>>
        /\ toEmit' = Tail(toEmit)
        /\ sent' = [s \in Subscribers |->
                        IF stage[s] = "open" /\ Matches(e, from[s])
                        THEN Append(sent[s], e) ELSE sent[s]]
        /\ UNCHANGED <<height, adder, pending, stage, from, at, got, ghostVars>>

--------------------------------------------------------------------------------
(* subscribe_to_events *)

(* get_latest_block_number: the latest block with a log, maybe an unfinished *)
(* one.                                                                      *)
Latest == IF LoggedBlocks = {} THEN 0 ELSE Max(LoggedBlocks)

(* extract_block_range of events_stream and of events_stream_from_block. *)
Resolve(s) ==
    /\ stage[s] = "away"
    /\ stage' = [stage EXCEPT ![s] = "resolved"]
    /\ \E first \in Blocks \union {Latest} : from' = [from EXCEPT ![s] = first]
    /\ UNCHANGED <<blockVars, sent, at, got, ghostVars>>

(* What emit_past_blocks finds: the logs of every block, unfinished ones too. *)
Past(first) == {e \in Events : e.index <= pending[e.block] /\ Matches(e, first)}

(* emit_past_blocks: block by block, in the order of a hash map; the logs of  *)
(* a block together and in their order.                                       *)
Replays(first) ==
    {replay \in SetToSeqs(Past(first)) :
        \A i, j \in DOMAIN replay :
            i < j /\ replay[i].block = replay[j].block =>
                /\ replay[i].index < replay[j].index
                /\ \A k \in i .. j : replay[k].block = replay[i].block}

Register(s) ==
    /\ stage[s] = "resolved"
    /\ stage' = [stage EXCEPT ![s] = "open"]
    /\ \E replay \in Replays(from[s]) :
        /\ sent' = [sent EXCEPT ![s] = replay]
        /\ replayed' = [replayed EXCEPT ![s] = Len(replay)]
    /\ during' = [during EXCEPT ![s] = Adding]
    /\ UNCHANGED <<blockVars, from, at, got>>

--------------------------------------------------------------------------------
(* The forwarding task of subscribe *)

(* The channel keeps the last Capacity events it was sent. *)
Lagging(s) == Len(sent[s]) - at[s] > Capacity

(* Mutant: the last event is left for a next one to push it out. *)
ForwardAllButLast(s) ==
    /\ stage[s] = "open"
    /\ at[s] + 1 < Len(sent[s])
    /\ ~Lagging(s)
    /\ at' = [at EXCEPT ![s] = @ + 1]
    /\ got' = [got EXCEPT ![s] = Append(@, sent[s][at[s] + 1])]
    /\ UNCHANGED <<blockVars, stage, from, sent, ghostVars>>

Forward(s) ==
    /\ stage[s] = "open"
    /\ at[s] < Len(sent[s])
    /\ ~Lagging(s)
    /\ at' = [at EXCEPT ![s] = @ + 1]
    /\ got' = [got EXCEPT ![s] = Append(@, sent[s][at[s] + 1])]
    /\ UNCHANGED <<blockVars, stage, from, sent, ghostVars>>

(* The task ends at the error; the client is not told. *)
FallBehind(s) ==
    /\ stage[s] = "open"
    /\ Lagging(s)
    /\ stage' = [stage EXCEPT ![s] = "lagged"]
    /\ UNCHANGED <<blockVars, from, sent, at, got, ghostVars>>

--------------------------------------------------------------------------------
AddBlock == BeginBlock \/ AddPendingLog \/ PublishBlock \/ FinishBlock \/ EmitLogEvent

Task(s) == Forward(s) \/ FallBehind(s)

Next == AddBlock \/ \E s \in Subscribers : Resolve(s) \/ Register(s) \/ Task(s)

Spec == Init /\ [][Next]_vars

(* add_block goes on with what it started, and tasks are scheduled. *)
FairSpec ==
    /\ Spec
    /\ WF_vars(PublishBlock \/ FinishBlock \/ EmitLogEvent)
    /\ \A s \in Subscribers : WF_vars(Task(s))

--------------------------------------------------------------------------------
(* Properties *)

Finished(e) == ~Busy /\ e.index <= pending[e.block]

Reached(s, e) == e \in ToSet(sent[s])

(* Whenever a client subscribes, in the middle of a block or between two, no *)
(* event from its first block on is missed by both the replay and the        *)
(* emission.                                                                 *)
NothingMissed ==
    \A s \in Subscribers, e \in Events :
        stage[s] = "open" /\ Finished(e) /\ e.block >= from[s] => Reached(s, e)

(* Replay and emission together send an event once, and one of the block     *)
(* that was being added at registration at most twice.                       *)
SentOnce ==
    \A s \in Subscribers, e \in Events :
        Cardinality({i \in DOMAIN sent[s] : sent[s][i] = e})
            <= IF e.block = during[s] THEN 2 ELSE 1

(* "Blockchain must be ready to return block if caller asks": a client never *)
(* sees an event of a block that is not in the chain, unless it subscribed   *)
(* while that block was being added.                                         *)
BlockFirst ==
    \A s \in Subscribers : \A i \in DOMAIN sent[s] :
        sent[s][i].block <= height \/ sent[s][i].block = during[s]

(* What a client gets is the replay and then the events in the order in which *)
(* they happened; if it reads too slowly it loses the end of the stream and   *)
(* never something in the middle.                                             *)
InOrder ==
    \A s \in Subscribers :
        /\ IsPrefix(got[s], sent[s])
        /\ \A j \in DOMAIN sent[s], i \in DOMAIN sent[s] :
            replayed[s] < i /\ i < j =>
                \/ sent[s][i].block < sent[s][j].block
                \/ sent[s][i].block = sent[s][j].block /\ sent[s][i].index < sent[s][j].index

(* What was sent is read, or its reader falls behind, without a further      *)
(* event to wake it.                                                         *)
AllForwarded == \A s \in Subscribers : []<>(got[s] = sent[s] \/ stage[s] = "lagged")
================================================================================
