--------------------------- MODULE ManagerService ---------------------------
(***************************************************************************)
(* The manager pallet seen as the service its subscribers are promised.    *)
(***************************************************************************)
EXTENDS IdnManager

Subscribers ==
    [id \in DOMAIN Subscriptions |-> Subscriptions[id].subscriber]

(* The pulses an open subscription was granted and has not been sent. *)
Outstanding == [id \in SubIds |-> granted[id] - received[id]]

(* The subscriptions distribute has still to visit. *)
Waiting == IF phase = "execute" THEN todo ELSE {}

Service == INSTANCE SubscriptionService
           WITH Offers <- CreditChoices, subscriber <- Subscribers,
                outstanding <- Outstanding, waiting <- Waiting,
                begun <- DidUpdate

(* The pallet is the service of SubscriptionService: whatever fails,       *)
(* pauses, is updated or is killed, distribute visits every subscription   *)
(* once per block and sends it a pulse only while it has one outstanding;  *)
(* update_subscription never adds one, and only an owner's call or the end *)
(* of the credits closes a subscription.                                   *)
ImplementsService == Service!ServiceSpec
=============================================================================
