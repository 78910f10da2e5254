-------------------------------- MODULE Vraas --------------------------------
(***************************************************************************)
(* Randomness on demand for contracts of the Ideal Network:                *)
(*                                                                         *)
(*   pallets/randomness-beacon/src/lib.rs           random                 *)
(*   chains/ideal-network/runtime/src/configs/contracts.rs                 *)
(*                                                  the chain extension    *)
(*   contracts/src/vraas                            shuffle and select     *)
(*   contracts/examples/rand-extension/lib.rs       a contract using them  *)
(*                                                                         *)
(* A hash is abstracted to what is hashed.  The contract's 32 bytes are    *)
(* abstracted to the hash they come from, so that shuffling changes their  *)
(* order only and a selection is known by its source and its size.         *)
(***************************************************************************)
EXTENDS RandomnessBeacon

CONSTANTS
    Callers,      \* accounts that call the contract
    Contexts,     \* the contexts given to manual_update
    Selections,   \* the numbers of elements asked for
    ValueSize     \* elements in the contract's value

(* Caller and context; the third part of the subject, the contract's own   *)
(* address, is always the same.                                            *)
Subjects == Callers \X (Contexts \union Callers)

ASSUME VraasAssumption ==
    /\ Selections \subseteq Nat
    /\ ValueSize \in Nat

VARIABLES
    value,      \* of the contract
    winners,
    drawn,      \* history: per subject, the last randomness read
    current     \* history: subjects that read since the last packet

contract == <<value, winners, drawn, current>>
vraasVars == <<vars, contract>>

Randomness == [of : Accumulation \union {None}, subject : Subjects]

VraasTypeOK ==
    /\ TypeOK
    /\ value \in Randomness \union {None}
    /\ winners \in [of : Randomness \union {None}, n : 0..ValueSize] \union {None}
    /\ drawn \in [Subjects -> Randomness \union {None}]
    /\ current \subseteq Subjects

VraasInit ==
    /\ Init
    /\ value = None
    /\ winners = None
    /\ drawn = [s \in Subjects |-> None]
    /\ current = {}

-----------------------------------------------------------------------------
(* While there is no accumulation the answer is the fallback's, which is   *)
(* no randomness of the beacon's.                                          *)
random(subject) == [of |-> SparseAccumulation, subject |-> subject]

(* fetch_random, function 1101 of the chain extension, in a block. *)
fetch_random(caller, ctx) ==
    /\ author # None
    /\ drawn' = [drawn EXCEPT ![<<caller, ctx>>] = random(<<caller, ctx>>)]
    /\ current' = current \union {<<caller, ctx>>}
    /\ UNCHANGED vars

manual_update(caller, ctx) ==
    /\ fetch_random(caller, ctx)
    /\ value' = random(<<caller, ctx>>)
    /\ UNCHANGED winners

(* The library's shuffle: one read, with the caller as the context, and    *)
(* another order of the same elements.                                     *)
shuffle_elements(caller) == fetch_random(caller, caller)

shuffle(caller) ==
    /\ shuffle_elements(caller)
    /\ UNCHANGED <<value, winners>>

(* The library's select gives what there is if more is asked for. *)
select_elements(caller, n) ==
    /\ fetch_random(caller, caller)
    /\ winners' = [of |-> value, n |-> Lesser(n, ValueSize)]

select(caller, n) ==
    /\ select_elements(caller, n)
    /\ UNCHANGED value

(* A step of the beacon; a packet it accepts ends what was read before. *)
BeaconStep ==
    /\ Next
    /\ current' = IF ~DidUpdate /\ DidUpdate' THEN {} ELSE current
    /\ UNCHANGED <<value, winners, drawn>>

VraasNext ==
    \/ \E caller \in Callers :
         \/ \E ctx \in Contexts : manual_update(caller, ctx)
         \/ shuffle(caller)
         \/ \E n \in Selections : select(caller, n)
    \/ BeaconStep

VraasSpec == VraasInit /\ [][VraasNext]_vraasVars

-----------------------------------------------------------------------------
(* Properties.                                                             *)

(* A contract that reads randomness again for the same caller and context  *)
(* (RandExtension::call, random) gets what it got before as long as the    *)
(* beacon accepted no packet, in whatever blocks the two reads are, and    *)
(* never what it got before once the beacon accepted one, even in the      *)
(* middle of a block.                                                      *)
RandomnessFollowsBeacon ==
    [][\A s \in Subjects :
         drawn[s] # None =>
           /\ s \in current /\ drawn[s].of # None => drawn'[s] = drawn[s]
           /\ s \in current' \ current => drawn'[s] # drawn[s]]_vraasVars
=============================================================================
