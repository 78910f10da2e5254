---------------------------- MODULE PulseStream ----------------------------
(***************************************************************************)
(* What the randomness beacon promises to the pallet behind its Dispatcher *)
(* trait, without pool, authors or keys: at most one packet of consecutive *)
(* rounds per block, every packet strictly after all the rounds before it. *)
(***************************************************************************)
EXTENDS Integers

CONSTANT Rounds   \* round numbers of the beacon

VARIABLES
    emitted,   \* the rounds handed to the dispatcher so far
    sent       \* a packet went out in the current block

Init ==
    /\ emitted = {}
    /\ sent = FALSE

Emit ==
    /\ ~sent
    /\ sent' = TRUE
    /\ \E first, last \in Rounds :
         /\ first <= last
         /\ \A r \in emitted : r < first
         /\ emitted' = emitted \union first..last

EndBlock ==
    /\ sent' = FALSE
    /\ UNCHANGED emitted

Next == Emit \/ EndBlock

Spec == Init /\ [][Next]_<<emitted, sent>>
=============================================================================
