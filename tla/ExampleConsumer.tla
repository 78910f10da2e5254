--------------------------- MODULE ExampleConsumer ---------------------------
(***************************************************************************)
(* A consumer contract and the IDN manager that serves it, on two chains   *)
(* that only exchange XCM messages:                                        *)
(*                                                                         *)
(*   contracts/examples/consumer-contract/lib.rs   the contract            *)
(*   contracts/src/xcm/mod.rs                      IdnClient, its requests *)
(*   IdnManager                                    the other chain         *)
(*                                                                         *)
(* Requests and pulses travel in two queues in the order they were sent.   *)
(* A request leaves the consumer chain with the block that sent it.        *)
(* xcm_send only tells that a request was queued: on the IDN it may fail,  *)
(* and nobody hears of it.  A pulse is abstracted to its round.  Quotes    *)
(* and subscription information are in ContractQueries.                    *)
(***************************************************************************)
EXTENDS IdnManager, Sequences

CONSTANTS
    contract,         \* the contract's account on the IDN
    None,             \* Option::None
    MaxHistory,       \* MAX_HISTORY_SIZE
    LastTimestamp,    \* bound: blocks of the consumer chain
    LastRound,        \* bound: rounds of the beacon
    QueueLimit        \* bound: messages under way in one direction

(* Ids are hashes of the request and the block's timestamp. *)
ASSUME ConsumerAssumption ==
    /\ contract \in Accounts
    /\ SubIds = CreditChoices \X FrequencyChoices \X MetadataSizes
                  \X (1..LastTimestamp)
    /\ LastTimestamp \in Nat \ {0}
    /\ None \notin SubIds
    /\ MaxHistory \in Nat \ {0}
    /\ LastRound \in Nat
    /\ QueueLimit \in Nat

VARIABLES
    subscription_id,       \* of the contract
    randomness_history,
    authorized_deliverers,
    timestamp,             \* of the consumer chain's block
    requests,              \* XCM messages to the IDN
    unsent,                \* how many of them, the last ones, wait for the
                           \* end of the consumer chain's block
    pulses,                \* XCM messages to the consumer chain
    round,                 \* of the latest pulse the beacon dispatched
    failed                 \* history: ids for which a kill request failed

consumer == <<subscription_id, randomness_history, authorized_deliverers, timestamp>>
network == <<requests, unsent, pulses>>
world == <<vars, consumer, network, round, failed>>

Request ==
         [call : {"create"}, id : SubIds, credits : CreditChoices,
          frequency : FrequencyChoices, metadata : MetadataSizes]
    \cup [call : {"update"}, id : SubIds,
          credits : CreditChoices, frequency : FrequencyChoices]
    \cup [call : {"pause", "reactivate", "kill"}, id : SubIds]

ConsumerTypeOK ==
    /\ TypeOK
    /\ subscription_id \in SubIds \cup {None}
    /\ randomness_history \in Seq(1..LastRound)
    /\ Len(randomness_history) <= MaxHistory
    /\ authorized_deliverers \subseteq {"self", "idn"}
    /\ timestamp \in 1..LastTimestamp
    /\ requests \in Seq(Request)
    /\ unsent \in 0..Len(requests)
    /\ pulses \in Seq([round : 1..LastRound, id : SubIds])
    /\ round \in 0..LastRound
    /\ failed \subseteq SubIds

ConsumerInit ==
    /\ Init
    /\ subscription_id = None
    /\ randomness_history = <<>>
    /\ authorized_deliverers = {"self"}
    /\ timestamp = 1
    /\ requests = <<>>
    /\ unsent = 0
    /\ pulses = <<>>
    /\ round = 0
    /\ failed = {}

-----------------------------------------------------------------------------
(* The owner's messages to the contract.  One that returns an error is     *)
(* rolled back, also when xcm_send fails; the others are steps.            *)

xcm_send(request) ==
    /\ Len(requests) < QueueLimit
    /\ requests' = Append(requests, request)
    /\ unsent' = unsent + 1
    /\ UNCHANGED <<vars, pulses, round, failed>>

ensure_active_sub == subscription_id # None

owner_create(credits, frequency, metadata) ==
    LET sub_id == <<credits, frequency, metadata, timestamp>>
    IN  /\ subscription_id = None
        /\ credits # 0 /\ frequency # 0
        /\ xcm_send([call |-> "create", id |-> sub_id, credits |-> credits,
                     frequency |-> frequency, metadata |-> metadata])
        /\ subscription_id' = sub_id
        /\ UNCHANGED <<randomness_history, authorized_deliverers, timestamp>>

owner_update(credits, frequency) ==
    /\ ensure_active_sub
    /\ xcm_send([call |-> "update", id |-> subscription_id,
                 credits |-> credits, frequency |-> frequency])
    /\ UNCHANGED consumer

owner_pause ==
    /\ ensure_active_sub
    /\ xcm_send([call |-> "pause", id |-> subscription_id])
    /\ UNCHANGED consumer

owner_reactivate ==
    /\ ensure_active_sub
    /\ xcm_send([call |-> "reactivate", id |-> subscription_id])
    /\ UNCHANGED consumer

(* Fault: the id is cleared although the request was not sent. *)
owner_kill_unsent ==
    /\ ensure_active_sub
    /\ \/ xcm_send([call |-> "kill", id |-> subscription_id])
       \/ UNCHANGED <<vars, network, round, failed>>
    /\ subscription_id' = None
    /\ UNCHANGED <<randomness_history, authorized_deliverers, timestamp>>

owner_kill ==
    /\ ensure_active_sub
    /\ xcm_send([call |-> "kill", id |-> subscription_id])
    /\ subscription_id' = None
    /\ UNCHANGED <<randomness_history, authorized_deliverers, timestamp>>

add_authorized_deliverer ==
    /\ "idn" \notin authorized_deliverers
    /\ authorized_deliverers' = authorized_deliverers \cup {"idn"}
    /\ UNCHANGED <<vars, subscription_id, randomness_history, timestamp,
                   network, round, failed>>

remove_authorized_deliverer ==
    /\ "idn" \in authorized_deliverers
    /\ authorized_deliverers' = authorized_deliverers \ {"idn"}
    /\ UNCHANGED <<vars, subscription_id, randomness_history, timestamp,
                   network, round, failed>>

(* The consumer chain sends the requests of its block and begins the next. *)
NextTimestamp ==
    /\ timestamp < LastTimestamp
    /\ timestamp' = timestamp + 1
    /\ unsent' = 0
    /\ UNCHANGED <<vars, subscription_id, randomness_history,
                   authorized_deliverers, requests, pulses, round, failed>>

-----------------------------------------------------------------------------
(* The contract's callback.                                                *)

(* Fault: the history is never trimmed. *)
RememberedForever(history, r) == Append(history, r)

(* The oldest entry makes room for a new one. *)
Remembered(history, r) ==
    Append(IF Len(history) >= MaxHistory THEN Tail(history) ELSE history, r)

(* Fault: any subscription's pulse is taken. *)
accepts_any(pulse) ==
    /\ "idn" \in authorized_deliverers
    /\ ensure_active_sub

accepts(pulse) ==
    /\ "idn" \in authorized_deliverers
    /\ pulse.id = subscription_id

(* The first pulse under way reaches the contract, which keeps it or       *)
(* returns an error to nobody.                                             *)
consume_pulse ==
    /\ pulses # <<>>
    /\ pulses' = Tail(pulses)
    /\ randomness_history' = IF accepts(Head(pulses))
                             THEN Remembered(randomness_history, Head(pulses).round)
                             ELSE randomness_history
    /\ UNCHANGED <<vars, subscription_id, authorized_deliverers, timestamp,
                   requests, unsent, round, failed>>

(* A pulse is lost: the execution of the message or the call runs out of   *)
(* weight or of gas.                                                       *)
LosePulse ==
    /\ pulses # <<>>
    /\ pulses' = Tail(pulses)
    /\ UNCHANGED <<vars, consumer, requests, unsent, round, failed>>

-----------------------------------------------------------------------------
(* The IDN, with its inputs taken from the queue of requests.              *)

(* The first request takes its turn. *)
NextRequest ==
    /\ Len(requests) > unsent
    /\ requests' = Tail(requests)
    /\ UNCHANGED unsent

(* The manager's call that a request asks for. *)
Transact(m) ==
    CASE m.call = "create" -> create_subscription(contract, m.id, m.credits,
                                                  m.frequency, m.metadata)
      [] m.call = "update" -> update_subscription(contract, m.id, m.credits,
                                m.frequency, Subscriptions[m.id].metadata)
      [] m.call = "pause" -> pause_subscription(contract, m.id)
      [] m.call = "reactivate" -> reactivate_subscription(contract, m.id)
      [] m.call = "kill" -> kill_subscription(contract, m.id)

ExecuteRequest ==
    /\ NextRequest
    /\ Head(requests).call = "update" => InStorage(Head(requests).id)
    /\ Transact(Head(requests))
    /\ UNCHANGED <<consumer, pulses, round, failed>>

(* The call returns an error, or the fees sent along do not buy its        *)
(* execution.                                                              *)
FailRequest ==
    /\ NextRequest
    /\ Executing
    /\ failed' = IF Head(requests).call = "kill" /\ InStorage(Head(requests).id)
                 THEN failed \cup {Head(requests).id}
                 ELSE failed
    /\ UNCHANGED <<vars, consumer, pulses, round>>

DispatchPulse ==
    /\ round < LastRound
    /\ dispatch
    /\ round' = round + 1
    /\ UNCHANGED <<consumer, network, failed>>

(* The XCM message of a delivery joins the queue; when that is full, the   *)
(* send fails and the manager takes the PauseUnsent branch.                *)
Deliver(id) ==
    /\ DeliverPulse(id)
    /\ Len(pulses) < QueueLimit
    /\ pulses' = Append(pulses, [round |-> round, id |-> id])
    /\ UNCHANGED <<consumer, requests, unsent, round, failed>>

IdnStep ==
    /\ \/ \E id \in SubIds : \/ PauseUnpaid(id)
                             \/ PauseUnsent(id)
                             \/ IdlePulse(id)
                             \/ TerminateFinalized(id)
       \/ on_finalize
       \/ NextBlock
    /\ UNCHANGED <<consumer, network, round, failed>>

-----------------------------------------------------------------------------
OwnerStep ==
    \/ \E c \in CreditChoices, f \in FrequencyChoices :
         \/ \E size \in MetadataSizes : owner_create(c, f, size)
         \/ owner_update(c, f)
    \/ owner_pause
    \/ owner_reactivate
    \/ owner_kill
    \/ add_authorized_deliverer
    \/ remove_authorized_deliverer

ConsumerNext ==
    \/ OwnerStep
    \/ NextTimestamp
    \/ consume_pulse
    \/ LosePulse
    \/ ExecuteRequest
    \/ FailRequest
    \/ DispatchPulse
    \/ \E id \in SubIds : Deliver(id)
    \/ IdnStep

ConsumerSpec == ConsumerInit /\ [][ConsumerNext]_world

-----------------------------------------------------------------------------
(* The randomness a contract remembers is in the order of the beacon and   *)
(* no round is in it twice, over kills, re-creations, requests that fail   *)
(* and pulses that are lost, even while a subscription the contract has    *)
(* given up is still served (consume_pulse's checks, distribute).          *)
HistoryInOrder ==
    \A i, j \in DOMAIN randomness_history :
      i < j => randomness_history[i] < randomness_history[j]

(* A subscription stored on the IDN is the one the contract knows, or its  *)
(* kill request is under way or was refused: while requests only wait,     *)
(* fail or are executed in order, the contract never loses track of a      *)
(* subscription it pays for (create_subscription, kill_subscription).      *)
NoneForgotten ==
    \A id \in DOMAIN Subscriptions :
      \/ id = subscription_id
      \/ id \in failed
      \/ \E i \in DOMAIN requests : requests[i].call = "kill" /\ requests[i].id = id
=============================================================================
