----------------------------- MODULE PulseClient -----------------------------
(***************************************************************************)
(* client/consensus/randomness-beacon/src: how one node carries pulses     *)
(* from drand's gossip topic to its transaction pool.                      *)
(*                                                                         *)
(*   gossipsub.rs  the swarm, the watchdog that rebuilds it, and the       *)
(*                 receiver's bounded queue of pulses                      *)
(*   gadget.rs     handle_finality_notification, split where it awaits     *)
(*   worker.rs     submit_pulse, split where it awaits the pool            *)
(*                                                                         *)
(* The chain is abstracted to the number of the node's best block and the  *)
(* NextRound in that block's state; a pulse to its round.  Time passes in  *)
(* polls of the watchdog.  The unbounded channels in front of the queue    *)
(* are left out: gossip already delivers in any order, and repeatedly.     *)
(***************************************************************************)
EXTENDS Integers, Sequences

CONSTANTS
    Nothing,          \* Option::None
    MaxQueueSize,     \* capacity of the DrandReceiver
    MaxRounds,        \* what the runtime API max_rounds answers
    NoMessageTimeout, \* polls the watchdog lets the queue stay empty
    LastPulse,        \* bound: rounds drand publishes
    LastBlock         \* bound: block numbers

PulseRounds == 1..LastPulse

ASSUME ClientAssumption ==
    /\ MaxQueueSize \in Nat \ {0}
    /\ MaxRounds \in Nat
    /\ NoMessageTimeout \in Nat
    /\ LastPulse \in Nat
    /\ LastBlock \in Nat
    /\ Nothing \notin Int
    /\ Nothing \notin [round : PulseRounds, block : 0..LastBlock]

VARIABLES
    published,            \* latest round published by drand
    swarm,                \* "joined", "deaf" (no messages) or "exited"
    pulses,               \* DrandReceiver.pulses
    idle,                 \* polls since the watchdog saw a pulse in the queue
    best_number,
    best_next_round,      \* NextRound in the state of the best block
    pc,                   \* where handle_finality_notification is
    asked,                \* its next_round
    picked,               \* the round it submits
    at_round,             \* NextRound in the block submit_pulse works at
    next_round,           \* PulseFinalizationGadget.next_round
    last_submitted_block, \* PulseWorker.last_submitted_block
    submitted             \* history: the last extrinsic the pool took since
                          \* the node started, or Nothing

gossip == <<published, swarm, pulses, idle>>
chain == <<best_number, best_next_round>>
locals == <<pc, asked, picked, at_round>>
trackers == <<next_round, last_submitted_block, submitted>>
client == <<gossip, chain, locals, trackers>>

ClientTypeOK ==
    /\ published \in 0..LastPulse
    /\ swarm \in {"joined", "deaf", "exited"}
    /\ pulses \in Seq(PulseRounds)
    /\ Len(pulses) <= MaxQueueSize
    /\ idle \in 0..(NoMessageTimeout + 1)
    /\ best_number \in 0..LastBlock
    /\ best_next_round \in 0..(LastPulse + 1)
    /\ pc \in {"waiting", "consume", "submit", "pool"}
    /\ asked \in 0..(LastPulse + 1)
    /\ picked \in 0..LastPulse
    /\ at_round \in 0..(LastPulse + 1)
    /\ next_round \in 0..(LastPulse + 1)
    /\ last_submitted_block \in 0..LastBlock \union {Nothing}
    /\ submitted \in [round : PulseRounds, block : 0..LastBlock] \union {Nothing}

(* The node starts on a new chain, with a swarm the mesh may refuse. *)
ClientInit ==
    /\ published = 0
    /\ swarm \in {"joined", "deaf"}
    /\ pulses = <<>>
    /\ idle = 0
    /\ best_number = 0
    /\ best_next_round = 0
    /\ pc = "waiting"
    /\ asked = 0
    /\ picked = 0
    /\ at_round = 0
    /\ next_round = 0
    /\ last_submitted_block = Nothing
    /\ submitted = Nothing

-----------------------------------------------------------------------------
(* The world around the client *)

Publish ==
    /\ published < LastPulse
    /\ published' = published + 1
    /\ UNCHANGED <<swarm, pulses, idle, chain, locals, trackers>>

(* A new best block.  NextRound is whatever packets of published rounds    *)
(* made it on that branch: it falls when the best chain is replaced.       *)
ImportBlock ==
    /\ best_number < LastBlock
    /\ best_number' \in (best_number + 1)..LastBlock
    /\ best_next_round' \in 0..(published + 1)
    /\ UNCHANGED <<gossip, locals, trackers>>

(* The best block is replaced by one of the same height. *)
ReplaceBest ==
    /\ best_next_round' \in 0..(published + 1)
    /\ UNCHANGED <<gossip, best_number, locals, trackers>>

(* The mesh drops the node, or the task that runs the swarm ends. *)
SwarmFails ==
    /\ swarm = "joined"
    /\ swarm' \in {"deaf", "exited"}
    /\ UNCHANGED <<published, pulses, idle, chain, locals, trackers>>

-----------------------------------------------------------------------------
(* gossipsub.rs *)

(* Fault: the queue is not bounded. *)
PushedUnbounded(q, r) == Append(q, r)

(* The receiver's queue drops its oldest pulse when it is full. *)
Pushed(q, r) == Append(IF Len(q) = MaxQueueSize THEN Tail(q) ELSE q, r)

(* A trusted peer's message arrives: any published round, at any time,     *)
(* again and out of order.                                                 *)
handle_event(r) ==
    /\ swarm = "joined"
    /\ r <= published
    /\ pulses' = Pushed(pulses, r)
    /\ UNCHANGED <<published, swarm, idle, chain, locals, trackers>>

(* Fault: the watchdog's clock restarts at every poll. *)
ClockRestarted == 0

(* The watchdog's clock at a poll. *)
SinceNonempty == IF pulses = <<>> THEN idle ELSE 0

GivesUp == swarm = "exited" \/ SinceNonempty > NoMessageTimeout

(* The outer loop of RetryableGossipsubRunner::run. *)
Rebuild(state) ==
    /\ GivesUp
    /\ swarm' = state
    /\ idle' = 0
    /\ UNCHANGED <<published, pulses, chain, locals, trackers>>

(* Its inner loop: look at the task, look at the queue, sleep. *)
Poll ==
    /\ ~GivesUp
    /\ idle' = SinceNonempty + 1
    /\ UNCHANGED <<published, swarm, pulses, chain, locals, trackers>>

-----------------------------------------------------------------------------
(* gadget.rs *)

Later(m, n) == IF m > n THEN m ELSE n

(* Fault: only the runtime is asked for the next round. *)
NextWantedByRuntime(runtime_round) == runtime_round

NextWanted(runtime_round) == Later(runtime_round, next_round)

(* A finality notification is taken up, under the submission lock.  The    *)
(* runtime's answer is 0 when its API fails.                               *)
handle_finality_notification ==
    /\ pc = "waiting"
    /\ \E runtime_round \in {best_next_round, 0} : asked' = NextWanted(runtime_round)
    /\ pc' = "consume"
    /\ UNCHANGED <<gossip, chain, picked, at_round, trackers>>

(* The handler returns. *)
Return ==
    /\ pc' = "waiting"
    /\ asked' = 0
    /\ picked' = 0
    /\ at_round' = 0

Taken == IF Len(pulses) < MaxRounds THEN Len(pulses) ELSE MaxRounds

Fresh == {i \in 1..Taken : pulses[i] >= asked}

(* max_rounds pulses leave the front of the queue, and the last of them    *)
(* that is still wanted is kept.                                           *)
consume ==
    /\ pc = "consume"
    /\ pulses' = SubSeq(pulses, Taken + 1, Len(pulses))
    /\ \/ /\ Fresh = {}
          /\ Return
       \/ \E i \in Fresh :
            /\ \A j \in Fresh : j <= i
            /\ picked' = pulses[i]
            /\ pc' = "submit"
            /\ UNCHANGED <<asked, at_round>>
    /\ UNCHANGED <<published, swarm, idle, chain, trackers>>

-----------------------------------------------------------------------------
(* worker.rs *)

(* submit_pulse has nothing to sign with. *)
NoAuthorityKeys ==
    /\ pc = "submit"
    /\ Return
    /\ UNCHANGED <<gossip, chain, trackers>>

(* Fault: the worker does not look for an earlier submission. *)
NeverSubmitted == FALSE

AlreadySubmitted == last_submitted_block = best_number

(* Ok without a submission; the gadget then moves past the round. *)
SkipPulse ==
    /\ pc = "submit"
    /\ AlreadySubmitted
    /\ next_round' = picked + 1
    /\ Return
    /\ UNCHANGED <<gossip, chain, last_submitted_block, submitted>>

(* The block is claimed and the extrinsic is on its way. *)
submit_pulse ==
    /\ pc = "submit"
    /\ ~AlreadySubmitted
    /\ last_submitted_block' = best_number
    /\ at_round' = best_next_round
    /\ pc' = "pool"
    /\ UNCHANGED <<gossip, chain, asked, picked, next_round, submitted>>

(* Signing or building the extrinsic fails: the block stays claimed. *)
SignFails ==
    /\ pc = "pool"
    /\ Return
    /\ UNCHANGED <<gossip, chain, trackers>>

(* submit_one validates against the block the worker captured. *)
PoolAccepts ==
    /\ pc = "pool"
    /\ picked >= at_round
    /\ submitted' = [round |-> picked, block |-> last_submitted_block]
    /\ next_round' = picked + 1
    /\ Return
    /\ UNCHANGED <<gossip, chain, last_submitted_block>>

(* The extrinsic is stale, or the pool has a reason of its own. *)
PoolRejects ==
    /\ pc = "pool"
    /\ last_submitted_block' = Nothing
    /\ Return
    /\ UNCHANGED <<gossip, chain, next_round, submitted>>

-----------------------------------------------------------------------------
(* The node stops, in the middle of a handler if one is running, and       *)
(* starts again.  The chain is on disk.  The queue, the trackers and the   *)
(* pool are built anew (service.rs), so the node forgets what it submitted *)
(* and asks the runtime for its next round.                                *)
Restart ==
    /\ swarm' \in {"joined", "deaf"}
    /\ pulses' = <<>>
    /\ idle' = 0
    /\ Return
    /\ next_round' = 0
    /\ last_submitted_block' = Nothing
    /\ submitted' = Nothing
    /\ UNCHANGED <<published, chain>>

-----------------------------------------------------------------------------
Environment == Publish \/ ImportBlock \/ ReplaceBest \/ SwarmFails

Watchdog == Poll \/ \E state \in {"joined", "deaf"} : Rebuild(state)

Gadget ==
    \/ handle_finality_notification
    \/ consume
    \/ NoAuthorityKeys
    \/ SkipPulse
    \/ submit_pulse
    \/ SignFails
    \/ PoolAccepts
    \/ PoolRejects

ClientNext ==
    \/ Environment
    \/ \E r \in PulseRounds : handle_event(r)
    \/ Watchdog
    \/ Gadget
    \/ Restart

ClientSpec == ClientInit /\ [][ClientNext]_client

(* The watchdog keeps polling; blocks keep being finalized, so the gadget  *)
(* keeps running; and the mesh does not refuse every swarm built for it.   *)
FairSpec ==
    /\ ClientSpec
    /\ WF_client(Watchdog)
    /\ WF_client(Gadget)
    /\ SF_client(Rebuild("joined"))

-----------------------------------------------------------------------------
(* Until it restarts, the extrinsics a node hands to its pool advance:     *)
(* each carries a later round than the one before and is made at a higher  *)
(* block, so that no round is submitted twice and no block gets two        *)
(* submissions, although gossip repeats and reorders pulses, the runtime's *)
(* NextRound falls when the best chain is replaced, its API may answer     *)
(* nothing, and the worker forgets its block whenever the pool refuses     *)
(* (gadget.rs, worker.rs).                                                 *)
SubmissionsAdvance ==
    [][ submitted' # submitted /\ submitted # Nothing /\ submitted' # Nothing =>
            /\ submitted'.round > submitted.round
            /\ submitted'.block > submitted.block ]_client

(* What keeps them advancing: a handler under way wants no round behind the *)
(* gadget's next_round, which is past the last submission, and the worker's *)
(* claim separates the block of the last submission from the next: while    *)
(* the claim is held it is not below that block, and when it was dropped    *)
(* the best block is already above it.                                      *)
TrackersAgree ==
    /\ pc # "waiting" => asked >= next_round
    /\ pc \in {"submit", "pool"} => picked \in PulseRounds /\ picked >= asked
    /\ last_submitted_block # Nothing => last_submitted_block <= best_number
    /\ pc = "pool" => last_submitted_block # Nothing
    /\ submitted # Nothing =>
          /\ submitted.round < next_round
          /\ last_submitted_block = Nothing => submitted.block < best_number
          /\ last_submitted_block # Nothing => submitted.block <= last_submitted_block
          /\ pc = "pool" => submitted.block < last_submitted_block

(* A swarm that the mesh leaves without messages, or whose task ends, is   *)
(* replaced until one is accepted (RetryableGossipsubRunner::run), unless  *)
(* the node itself restarts again and again.                               *)
MeshIsRejoined == []<>(swarm = "joined") \/ []<><<Restart>>_client
=============================================================================
