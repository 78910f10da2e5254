------------------------ MODULE QuotedSubscriptions ------------------------
(***************************************************************************)
(* What a quote promises.  A quote for n pulses asks for                   *)
(* calculate_credits(frequency, n) credits.  This module follows every     *)
(* subscription that was created with the credits of a quote and left      *)
(* alone since: nobody paused, updated or killed it, and no message and no *)
(* collection of fees failed.                                              *)
(***************************************************************************)
EXTENDS IdnManager

VARIABLE quoted   \* history: per id, the pulses its credits were quoted for

quotedVars == <<vars, quoted>>

(* The most pulses whose quote the credits pay for. *)
PulsesQuoted(credits, frequency) ==
    Max({n \in 0..credits : calculate_credits(frequency, n) <= credits})

QuotedInit == Init /\ quoted = [id \in SubIds |-> 0]

Created(id) == ~InStorage(id) /\ InStorage(id)'

(* The step kills, pauses or updates the stored subscription id. *)
Disturbed(id) ==
    /\ InStorage(id)
    /\ IF InStorage(id)'
       THEN \/ /\ Subscriptions[id].state = "Active"
               /\ Subscriptions'[id].state = "Paused"
            \/ Subscriptions'[id].credits # Subscriptions[id].credits
            \/ Subscriptions'[id].frequency # Subscriptions[id].frequency
       ELSE id \notin FinalizedIds

Follow ==
    quoted' = [id \in SubIds |->
                 IF Created(id)
                 THEN PulsesQuoted(Subscriptions'[id].credits,
                                   Subscriptions'[id].frequency)
                 ELSE IF Disturbed(id) THEN 0 ELSE quoted[id]]

QuotedNext == Next /\ Follow

QuotedSpec == QuotedInit /\ [][QuotedNext]_quotedVars /\ Fairness

-----------------------------------------------------------------------------
(* Properties.                                                             *)

(* calculate_credits allows for the idle credits that distribute charges   *)
(* between two pulses: whatever the timing of the pulses and of the other  *)
(* subscriptions, the credits of a quote are not used up before the quoted *)
(* number of pulses has been sent.                                         *)
QuoteKept ==
    \A id \in FinalizedIds : received[id] >= quoted[id]

(* While the beacon's pulses keep coming, a subscription that is left      *)
(* alone is sent the number of pulses it was quoted.                       *)
QuoteHonoured ==
    \A id \in SubIds :
      InStorage(id) /\ quoted[id] > 0 ~>
        quoted[id] = 0 \/ received[id] >= quoted[id]
=============================================================================
