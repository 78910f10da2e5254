----------------------------- MODULE IdnRuntime -----------------------------
(***************************************************************************)
(* The runtime of the Ideal Network: the randomness beacon pallet and the  *)
(* IDN Manager pallet in one block production, with the manager as the     *)
(* beacon's Dispatcher.                                                    *)
(*                                                                         *)
(* IdnManager leaves to its environment how often dispatch is called.      *)
(* Here nothing but an accepted try_submit_asig starts a distribution, in  *)
(* the same extrinsic, and nothing but the beacon's storage limits it.     *)
(***************************************************************************)
EXTENDS IdnManager

CONSTANTS
    Authors, Keys, MaxSigsPerBlock, Longevity, PoolLimit,
    Nil,         \* the beacon's None
    FinalRound   \* the beacon's LastRound

VARIABLES
    BeaconConfig, NextRound, SparseAccumulation, best_round, author, pool,
    emitted,
    heard   \* history: per id, the last round a pulse brought to it

B == INSTANCE RandomnessBeacon WITH None <- Nil, LastRound <- FinalRound

ASSUME RuntimeAssumption == B!BeaconAssumption

beacon == <<BeaconConfig, NextRound, SparseAccumulation, best_round, author,
            pool, emitted>>
manager == <<Subscriptions, SubCounter, balances, phase, todo, granted,
             received, repriced, resized>>
runtimeVars == <<vars, beacon, heard>>

NotHeard == -1

RuntimeTypeOK ==
    /\ TypeOK
    /\ B!TypeOK
    /\ heard \in [SubIds -> {NotHeard} \union B!Rounds]

RuntimeInit ==
    /\ Init
    /\ B!Init
    /\ heard = [id \in SubIds |-> NotHeard]

-----------------------------------------------------------------------------
(* Between blocks, and at any time on the nodes. *)
NodeStep ==
    /\ \/ \E a \in Authors : \E tx \in B!Extrinsic : B!SubmitLocal(a, tx)
       \/ \E a \in Authors : B!BeginBlock(a)
    /\ UNCHANGED <<manager, heard>>

(* try_submit_asig, whose last step hands the pulse to                     *)
(* IdnManager::dispatch.  The loop over the subscriptions follows before   *)
(* anything else happens in the block.                                     *)
SubmitAsig(tx) ==
    /\ Executing
    /\ B!try_submit_asig(tx)
    /\ todo' = IF B!validate_unsigned(tx, NextRound) /\ B!Acceptable(tx)
               THEN DOMAIN Subscriptions
               ELSE todo
    /\ UNCHANGED <<Subscriptions, SubCounter, balances, phase, granted,
                   received, repriced, resized, heard>>

SetBeaconConfig(pk) ==
    /\ Executing
    /\ B!set_beacon_config(pk)
    /\ UNCHANGED <<manager, heard>>

(* The pulse of the packet accepted last goes to subscription id. *)
Hear(id) ==
    /\ DeliverPulse(id)
    /\ heard' = [heard EXCEPT ![id] = SparseAccumulation.end]
    /\ UNCHANGED beacon

(* A call of a subscriber, a step of the loop of distribute that sends     *)
(* nothing, and the manager's on_finalize, in a block under construction.  *)
ManagerStep ==
    /\ author # Nil
    /\ \/ \E a \in Accounts, id \in SubIds : Call(a, id)
       \/ \E id \in SubIds :
            PauseUnpaid(id) \/ PauseUnsent(id) \/ IdlePulse(id)
       \/ on_finalize
       \/ \E id \in SubIds : TerminateFinalized(id)
    /\ UNCHANGED <<beacon, heard>>

(* The beacon's on_finalize, and the block is done. *)
EndBlock ==
    /\ NextBlock
    /\ B!on_finalize
    /\ UNCHANGED heard

RuntimeNext ==
    \/ NodeStep
    \/ author # Nil /\ \E tx \in pool[author] : SubmitAsig(tx)
    \/ \E pk \in Keys : SetBeaconConfig(pk)
    \/ \E id \in SubIds : Hear(id)
    \/ ManagerStep
    \/ EndBlock

RuntimeSpec == RuntimeInit /\ [][RuntimeNext]_runtimeVars

-----------------------------------------------------------------------------
(* Properties.                                                             *)

(* The beacon is the environment that IdnManager's specification takes for *)
(* granted: however packets, calls and hooks of the runtime interleave, a  *)
(* distribution starts at most once per block and only between calls.  So  *)
(* what is shown for IdnManager holds in the runtime.                      *)
ManagerAsSpecified == Spec

(* From the beacon to the subscriber: each pulse that distribute sends to  *)
(* a subscription is made of rounds after all the rounds the subscription  *)
(* has heard of, also when it was removed and created again in between.    *)
RoundsAdvance ==
    [][\A id \in SubIds :
         heard'[id] # heard[id] \/ received'[id] > received[id] =>
           /\ SparseAccumulation.start > heard[id]
           /\ heard'[id] >= SparseAccumulation.start]_runtimeVars
=============================================================================
