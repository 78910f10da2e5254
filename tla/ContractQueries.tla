--------------------------- MODULE ContractQueries ---------------------------
(***************************************************************************)
(* What ExampleConsumer leaves out: the owner of the contract asks for     *)
(* quotes and for information on the contract's subscription, the manager  *)
(* answers, and the contract keeps the answers.                            *)
(*                                                                         *)
(*   contracts/src/xcm/mod.rs                      request_quote,          *)
(*                                                 request_sub_info        *)
(*   pallets/idn-manager/src/lib.rs                quote_subscription,     *)
(*                                                 get_subscription_info   *)
(*   contracts/examples/consumer-contract/lib.rs   the two callbacks       *)
(*                                                                         *)
(* Questions wait in the queue of requests and answers in the queue of     *)
(* pulses.  The call that carries an answer is prepared by the contract    *)
(* with the length of the answer it expects; an answer of another length   *)
(* does not decode.  A request reference is the tuple that is hashed.      *)
(***************************************************************************)
EXTENDS ExampleConsumer

CONSTANTS
    UpdateCredits,    \* the credits that updates ask for
    PulseCounts,      \* the numbers of pulses quotes are asked for
    InfoMetadata      \* sizes of the metadata given to request_sub_info

ASSUME QueriesAssumption ==
    /\ UpdateCredits \subseteq 0..U64Max
    /\ PulseCounts \subseteq Nat
    /\ InfoMetadata \subseteq Nat
    /\ FixedSize > 0

VARIABLES
    quote_history,        \* of the contract
    sub_info_history,
    lives                 \* history: creations of an id, up to two

queries == <<quote_history, sub_info_history, lives>>
everything == <<world, queries>>

IsPulse(m) == "round" \in DOMAIN m

Blocks == 1..LastTimestamp

Quote == [req_ref : FrequencyChoices \X Blocks, fees : Nat, deposit : Nat]

SubInfo == [req_ref : SubIds \X Blocks, id : SubIds, credits_left : 0..U64Max]

(* The histories hold answers and stay within MAX_HISTORY_SIZE. *)
QueriesTypeOK ==
    /\ quote_history \in Seq(Quote)
    /\ sub_info_history \in Seq(SubInfo)
    /\ Len(quote_history) <= MaxHistory
    /\ Len(sub_info_history) <= MaxHistory
    /\ lives \in [SubIds -> 0..2]
    /\ Len(requests) <= QueueLimit /\ Len(pulses) <= QueueLimit

QueriesInit ==
    /\ ConsumerInit
    /\ quote_history = <<>>
    /\ sub_info_history = <<>>
    /\ lives = [id \in SubIds |-> 0]

-----------------------------------------------------------------------------
(* The owner asks.                                                         *)

request_quote(number_of_pulses, frequency, metadata) ==
    xcm_send([call |-> "quote", pulses |-> number_of_pulses,
              frequency |-> frequency, metadata |-> metadata,
              req_ref |-> <<frequency, timestamp>>])

owner_request_quote(number_of_pulses, frequency, metadata) ==
    /\ request_quote(number_of_pulses, frequency, metadata)
    /\ UNCHANGED <<consumer, queries>>

(* Encoded size of a subscription that was delivered a pulse. *)
create_dummy_sub_info_response(metadata) ==
    FixedSize + metadata + BlockNumberSize

request_sub_info(sub_id, metadata) ==
    xcm_send([call |-> "info", id |-> sub_id,
              expects |-> create_dummy_sub_info_response(metadata),
              req_ref |-> <<sub_id, timestamp>>])

owner_request_sub_info(metadata) ==
    /\ ensure_active_sub
    /\ request_sub_info(subscription_id, metadata)
    /\ UNCHANGED <<consumer, queries>>

-----------------------------------------------------------------------------
(* The manager answers.  If the answer cannot be sent the call fails       *)
(* (RefuseRequest).                                                        *)

Answer(m) ==
    /\ NextRequest
    /\ Executing
    /\ Len(pulses) < QueueLimit
    /\ pulses' = Append(pulses, m)
    /\ UNCHANGED <<vars, consumer, round, failed, queries>>

(* The pulse callback of a real subscription is one byte longer: the       *)
(* length of its data no longer fits one byte.                             *)
AnswerQuote ==
    /\ requests # <<>>
    /\ Head(requests).call = "quote"
    /\ LET q     == Head(requests)
           quote == quote_subscription(contract, q.pulses, q.frequency, q.metadata, 1)
       IN  Answer([req_ref |-> q.req_ref, fees |-> quote.fees,
                   deposit |-> quote.deposit])

AnswerInfo ==
    /\ requests # <<>>
    /\ Head(requests).call = "info"
    /\ InStorage(Head(requests).id)
    /\ LET q   == Head(requests)
           sub == get_subscription_info(q.id)
       IN  Answer([req_ref |-> q.req_ref, id |-> q.id,
                   credits_left |-> sub.credits_left,
                   expects |-> q.expects, size |-> EncodedSize(sub)])

-----------------------------------------------------------------------------
(* The contract's callbacks.                                               *)

(* The length that create_callback_data left in the call is the length of  *)
(* what the manager appended.                                              *)
Decodes(m) == m.size = m.expects

Receives ==
    /\ pulses # <<>>
    /\ pulses' = Tail(pulses)
    /\ UNCHANGED <<vars, consumer, requests, unsent, round, failed, lives>>

ensure_authorized_deliverer == "idn" \in authorized_deliverers

add_to_quote_history(quote) == Remembered(quote_history, quote)

consume_quote ==
    /\ Receives
    /\ "fees" \in DOMAIN Head(pulses)
    /\ quote_history' = IF ensure_authorized_deliverer
                        THEN add_to_quote_history(Head(pulses))
                        ELSE quote_history
    /\ UNCHANGED sub_info_history

(* Fault: the answer is filed under the contract's present subscription. *)
add_under_present_id(m) ==
    Remembered(sub_info_history,
               [req_ref |-> m.req_ref, id |-> subscription_id,
                credits_left |-> m.credits_left])

add_to_sub_info_history(m) ==
    Remembered(sub_info_history,
               [req_ref |-> m.req_ref, id |-> m.id, credits_left |-> m.credits_left])

consume_sub_info ==
    /\ Receives
    /\ "size" \in DOMAIN Head(pulses)
    /\ sub_info_history' = IF Decodes(Head(pulses)) /\ ensure_authorized_deliverer
                           THEN add_to_sub_info_history(Head(pulses))
                           ELSE sub_info_history
    /\ UNCHANGED quote_history

-----------------------------------------------------------------------------
(* Steps of ExampleConsumer. *)

CreateStep ==
    \E c \in CreditChoices, f \in FrequencyChoices, m \in MetadataSizes :
      /\ owner_create(c, f, m)
      /\ lives' = [lives EXCEPT ![<<c, f, m, timestamp>>] = Lesser(@ + 1, 2)]
      /\ UNCHANGED <<quote_history, sub_info_history>>

(* FailRequest, without the history that NoneForgotten needs. *)
RefuseRequest ==
    /\ NextRequest
    /\ Executing
    /\ UNCHANGED <<vars, consumer, pulses, round, failed>>

ServiceStep ==
    /\ \/ \E c \in UpdateCredits, f \in FrequencyChoices : owner_update(c, f)
       \/ owner_pause
       \/ owner_reactivate
       \/ owner_kill
       \/ add_authorized_deliverer
       \/ remove_authorized_deliverer
       \/ NextTimestamp
       \/ pulses # <<>> /\ IsPulse(Head(pulses)) /\ consume_pulse
       \/ LosePulse
       \/ requests # <<>> /\ Head(requests).call \notin {"quote", "info"} /\ ExecuteRequest
       \/ RefuseRequest
       \/ DispatchPulse
       \/ \E id \in SubIds : Deliver(id)
       \/ IdnStep
    /\ UNCHANGED queries

QueriesNext ==
    \/ \E n \in PulseCounts, f \in FrequencyChoices, m \in MetadataSizes :
         owner_request_quote(n, f, m)
    \/ \E m \in InfoMetadata : owner_request_sub_info(m)
    \/ AnswerQuote
    \/ AnswerInfo
    \/ consume_quote
    \/ consume_sub_info
    \/ CreateStep
    \/ ServiceStep

QueriesSpec == QueriesInit /\ [][QueriesNext]_everything

-----------------------------------------------------------------------------
(* Properties.                                                             *)

(* A quote the contract holds is the price of what it asked for: the fees  *)
(* create_subscription puts on hold for the credits of the quoted pulses,  *)
(* and the deposit it puts on hold up to the one byte that the callback of *)
(* a real subscription is longer (request_quote, quote_subscription).      *)
QuoteIsThePrice ==
    \A i \in DOMAIN quote_history :
      \E n \in PulseCounts, m \in MetadataSizes :
        LET q == quote_history[i]
            f == q.req_ref[1]
            c == calculate_credits(f, n)
        IN  /\ q.fees = calculate_subscription_fees(c)
            /\ q.deposit + SDMultiplier =
                 calculate_storage_deposit(NewSubscription(contract, c, f, m))

(* Information grows old in one direction only: what the contract knows of *)
(* a subscription is never less than the credits it has left, over pulses, *)
(* pauses, updates, answers that arrive after the contract gave the        *)
(* subscription up, and a successor under another id (consume_sub_info     *)
(* does not compare the answer with the present subscription).  An id that *)
(* was created a second time, in the same block, is excepted.              *)
InfoIsUpperBound ==
    \A i \in DOMAIN sub_info_history :
      LET info == sub_info_history[i]
      IN  InStorage(info.id) /\ lives[info.id] = 1 =>
            Subscriptions[info.id].credits_left <= info.credits_left

(* contracts/src/xcm/mod.rs:699 says of an answer to request_sub_info that *)
(* it "is delivered via the [`IdnConsumer::consume_sub_info`] callback     *)
(* method".  With the metadata of the subscription given, as the same doc  *)
(* asks, every answer under way would decode.                              *)
InfoDecodes ==
    \A i \in DOMAIN pulses : "size" \in DOMAIN pulses[i] => Decodes(pulses[i])
=============================================================================
