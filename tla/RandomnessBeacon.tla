-------------------------- MODULE RandomnessBeacon --------------------------
(***************************************************************************)
(* pallets/randomness-beacon/src/lib.rs with what surrounds it on a node:  *)
(* block authoring and every author's own transaction pool (the extrinsics *)
(* of this pallet are not propagated).                                     *)
(*                                                                         *)
(* An aggregated signature is abstracted to the public key under which it  *)
(* verifies for the rounds start..end of its extrinsic; the signature over *)
(* the payload to the author who made it.                                  *)
(***************************************************************************)
EXTENDS Saturating, FiniteSetsExt, Functions

CONSTANTS
    Authors,
    Keys,             \* beacon public keys
    None,             \* Option::None
    MaxSigsPerBlock,
    Longevity,        \* blocks an extrinsic stays valid in the pool
    LastRound,        \* bound: rounds of the beacon that the instance covers
    PoolLimit         \* bound: extrinsics waiting in all pools

Rounds == 0..LastRound

Accumulation == [start : Rounds, end : Rounds, key : Keys]

(* A try_submit_asig extrinsic; ttl counts down to the end of its validity. *)
Extrinsic ==
    [start : Rounds, end : Rounds, key : Keys, by : Authors, ttl : 1..Longevity]

ASSUME BeaconAssumption ==
    /\ U64Max \in Nat
    /\ LastRound \in Nat
    /\ LastRound < U64Max
    /\ MaxSigsPerBlock \in Nat
    /\ Longevity \in Nat \ {0}
    /\ None \notin Authors \union Keys \union Accumulation

VARIABLES
    BeaconConfig,         \* the beacon's public key, or None
    NextRound,
    SparseAccumulation,   \* the last packet accepted, or None
    DidUpdate,
    best_round,           \* NextRound in the state of the best block
    author,               \* author of the block being built, or None
    pool,                 \* the extrinsics waiting at each author
    emitted               \* history: rounds handed to the Dispatcher

storage == <<BeaconConfig, NextRound, SparseAccumulation, DidUpdate, emitted>>
vars == <<storage, best_round, author, pool>>

TypeOK ==
    /\ BeaconConfig \in Keys \union {None}
    /\ NextRound \in 0..U64Max
    /\ SparseAccumulation \in Accumulation \union {None}
    /\ DidUpdate \in BOOLEAN
    /\ best_round \in 0..U64Max
    /\ author \in Authors \union {None}
    /\ pool \in [Authors -> SUBSET Extrinsic]
    /\ emitted \in SUBSET Rounds

(* Genesis, with or without a beacon_pubkey_hex. *)
Init ==
    /\ BeaconConfig \in Keys \union {None}
    /\ NextRound = 0
    /\ SparseAccumulation = None
    /\ DidUpdate = FALSE
    /\ best_round = 0
    /\ author = None
    /\ pool = [a \in Authors |-> {}]
    /\ emitted = {}

-----------------------------------------------------------------------------
(* The transaction pool *)

validate_unsigned(tx, next_round) == tx.start >= next_round

(* A node submits an extrinsic to its own pool, which validates it against *)
(* the best block, whatever the block under construction has done since.   *)
SubmitLocal(a, tx) ==
    /\ tx.by = a
    /\ tx.ttl = Longevity
    /\ Cardinality(UNION Range(pool)) < PoolLimit
    /\ validate_unsigned(tx, best_round)
    /\ pool' = [pool EXCEPT ![a] = @ \union {tx}]
    /\ UNCHANGED <<storage, best_round, author>>

(* Fault: an extrinsic survives the end of its validity. *)
AgedForever(txs) == {[tx EXCEPT !.ttl = @ - 1] : tx \in txs}

(* The end of a block, for a pool: extrinsics past their longevity go. *)
Aged(txs) == {[tx EXCEPT !.ttl = @ - 1] : tx \in {tx \in txs : tx.ttl > 1}}

-----------------------------------------------------------------------------
(* Blocks *)

BeginBlock(a) ==
    /\ author = None
    /\ author' = a
    /\ UNCHANGED <<storage, best_round, pool>>

verify_signature(tx) == tx.by = author

verify_beacon_signature(pk, tx) == tx.key = pk

(* Fault: a second packet is accepted in the same block. *)
AcceptableAgain(tx) ==
    LET height == SaturatingSub(tx.end, tx.start)
    IN  /\ verify_signature(tx)
        /\ BeaconConfig # None
        /\ height = 0 => tx.start = tx.end
        /\ height <= MaxSigsPerBlock
        /\ NextRound > 0 => tx.start >= NextRound
        /\ verify_beacon_signature(BeaconConfig, tx)

(* The checks of try_submit_asig, in the order of the code. *)
Acceptable(tx) ==
    LET height == SaturatingSub(tx.end, tx.start)
    IN  /\ verify_signature(tx)
        /\ ~DidUpdate
        /\ BeaconConfig # None
        /\ height = 0 => tx.start = tx.end
        /\ height <= MaxSigsPerBlock
        /\ NextRound > 0 => tx.start >= NextRound
        /\ verify_beacon_signature(BeaconConfig, tx)

(* Fault: the last round accepted may be asked for again. *)
AcceptEndAgain(tx) ==
    /\ NextRound' = tx.end
    /\ SparseAccumulation' = [start |-> tx.start, end |-> tx.end, key |-> tx.key]
    /\ DidUpdate' = TRUE
    /\ emitted' = emitted \union tx.start..tx.end
    /\ UNCHANGED BeaconConfig

Accept(tx) ==
    /\ NextRound' = SaturatingAdd(tx.end, 1)
    /\ SparseAccumulation' = [start |-> tx.start, end |-> tx.end, key |-> tx.key]
    /\ DidUpdate' = TRUE
    /\ emitted' = emitted \union tx.start..tx.end
    /\ UNCHANGED BeaconConfig

(* The author puts an extrinsic of its pool into the block: it leaves the  *)
(* pool, invalid ones are skipped, and a failed one changes no storage.    *)
try_submit_asig(tx) ==
    /\ author # None
    /\ tx \in pool[author]
    /\ pool' = [pool EXCEPT ![author] = @ \ {tx}]
    /\ IF validate_unsigned(tx, NextRound) /\ Acceptable(tx)
       THEN Accept(tx)
       ELSE UNCHANGED storage
    /\ UNCHANGED <<best_round, author>>

set_beacon_config(pk) ==
    /\ author # None
    /\ BeaconConfig' = pk
    /\ UNCHANGED <<NextRound, SparseAccumulation, DidUpdate, emitted,
                   best_round, author, pool>>

(* Fault: the flag outlives the block. *)
on_finalize_keeping_flag ==
    /\ author # None
    /\ author' = None
    /\ best_round' = NextRound
    /\ pool' = [a \in Authors |-> Aged(pool[a])]
    /\ UNCHANGED storage

(* on_finalize takes DidUpdate; the block becomes the best one. *)
on_finalize ==
    /\ author # None
    /\ DidUpdate' = FALSE
    /\ author' = None
    /\ best_round' = NextRound
    /\ pool' = [a \in Authors |-> Aged(pool[a])]
    /\ UNCHANGED <<BeaconConfig, NextRound, SparseAccumulation, emitted>>

Next ==
    \/ \E a \in Authors : \E tx \in Extrinsic : SubmitLocal(a, tx)
    \/ \E a \in Authors : BeginBlock(a)
    \/ author # None /\ \E tx \in pool[author] : try_submit_asig(tx)
    \/ \E pk \in Keys : set_beacon_config(pk)
    \/ on_finalize

Spec == Init /\ [][Next]_vars

-----------------------------------------------------------------------------
(* Properties *)

(* The accumulation that random() serves is the packet accepted last: its  *)
(* end is the highest round handed to the dispatcher, and the next round   *)
(* try_submit_asig asks for is the one after it.                           *)
AccumulationIsLatest ==
    /\ SparseAccumulation = None <=> emitted = {}
    /\ emitted = {} => NextRound = 0
    /\ emitted # {} => /\ SparseAccumulation.end = Max(emitted)
                       /\ SparseAccumulation.start..SparseAccumulation.end
                            \subseteq emitted
                       /\ NextRound = Max(emitted) + 1

(* DidUpdate, which try_submit_asig sets and on_finalize takes, says       *)
(* exactly whether this block moved NextRound past the parent block's.     *)
FlagMeansProgress ==
    /\ DidUpdate <=> NextRound > best_round
    /\ ~DidUpdate => NextRound = best_round

Stream == INSTANCE PulseStream WITH sent <- DidUpdate

(* try_submit_asig hands the Dispatcher the stream of PulseStream: no      *)
(* round twice or out of order, at most one packet per block, whatever the *)
(* pools held, whichever extrinsics failed and whenever the key changed.   *)
ImplementsStream == Stream!Spec
=============================================================================
