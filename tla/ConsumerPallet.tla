--------------------------- MODULE ConsumerPallet ---------------------------
(***************************************************************************)
(* pallets/idn-consumer/src/lib.rs: a pallet through which the users of a  *)
(* consumer chain manage subscriptions on the IDN, composed with the       *)
(* manager that serves them.                                               *)
(*                                                                         *)
(* The pallet has no storage.  A dispatchable sends one XCM message, on    *)
(* behalf of the user's own account on the IDN; the manager sends pulses,  *)
(* quotes and information back to the pallet's callbacks, which pass them  *)
(* to the runtime's consumers.  Both queues are first in, first out; a     *)
(* request may fail on the IDN and an answer may get lost, unnoticed.      *)
(*                                                                         *)
(* A generated subscription id or request reference is the tuple that the  *)
(* pallet hashes; neither contains the user.  A chosen id or reference is  *)
(* one of these tuples, so that it can be one that somebody else uses.     *)
(***************************************************************************)
EXTENDS IdnManager, Sequences

CONSTANTS
    None,             \* Option::None
    GivenIds,         \* ids that users choose themselves
    GivenQuoteRefs,   \* references that users choose themselves
    GivenInfoRefs,
    UpdateChoices,    \* <<credits, frequency, metadata>>, None to keep a value
    PulseCounts,      \* the numbers of pulses quotes are asked for
    LastBlock,        \* bound: blocks of the consumer chain
    LastRound,        \* bound: rounds of the beacon
    QuestionLimit,    \* bound: different questions asked
    RequestLimit,     \* bound: requests under way
    AnswerLimit       \* bound: answers under way

Blocks == 1..LastBlock

(* The parameters that do_create_subscription hashes, and its salt. *)
GeneratedIds == CreditChoices \X FrequencyChoices \X MetadataSizes \X Blocks

QuoteRef == FrequencyChoices \X MetadataSizes \X Blocks

InfoRef == SubIds \X Blocks

Updates == (0..U64Max \union {None}) \X (Frequencies \union {None})
             \X (MetadataSizes \union {None})

ASSUME PalletAssumption ==
    /\ SubIds = GeneratedIds
    /\ GivenIds \subseteq SubIds
    /\ GivenQuoteRefs \subseteq QuoteRef
    /\ GivenInfoRefs \subseteq InfoRef
    /\ UpdateChoices \subseteq Updates
    /\ None \notin SubIds \union QuoteRef \union InfoRef \union Nat
    /\ PulseCounts \subseteq Nat
    /\ LastBlock \in Nat \ {0}
    /\ LastRound \in Nat
    /\ QuestionLimit \in Nat
    /\ RequestLimit \in Nat
    /\ AnswerLimit \in Nat

VARIABLES
    block_number,     \* of the consumer chain
    requests,         \* XCM messages to the IDN
    answers,          \* XCM messages to the consumer chain
    round,            \* of the latest pulse the beacon dispatched
    asked             \* history: the questions users sent

chain == <<block_number, requests, answers>>
world == <<vars, chain, round, asked>>

QuoteRequest ==
    [req_ref : QuoteRef, lifetime_pulses : PulseCounts,
     frequency : FrequencyChoices, metadata : MetadataSizes]

SubInfoRequest == [req_ref : InfoRef, id : SubIds]

Request ==
    [call : {"quote"}, user : Accounts, req : QuoteRequest]
    \union [call : {"info"}, user : Accounts, req : SubInfoRequest]
    \union [call : {"create"}, user : Accounts, id : SubIds, credits : CreditChoices,
            frequency : FrequencyChoices, metadata : MetadataSizes]
    \union [call : {"update"}, user : Accounts, id : SubIds, new : UpdateChoices]
    \union [call : {"pause", "reactivate", "kill"}, user : Accounts, id : SubIds]

PulseMessage == [kind : {"pulse"}, round : 1..LastRound, id : SubIds]

QuoteMessage == [kind : {"quote"}, req_ref : QuoteRef, fees : Nat, deposit : Nat]

InfoMessage == [kind : {"info"}, req_ref : InfoRef, id : SubIds]

PalletTypeOK ==
    /\ TypeOK
    /\ block_number \in Blocks
    /\ requests \in Seq(Request)
    /\ answers \in Seq(PulseMessage \union QuoteMessage \union InfoMessage)
    /\ Len(requests) <= RequestLimit
    /\ Len(answers) <= AnswerLimit
    /\ round \in 0..LastRound
    /\ asked \subseteq QuoteRequest \union SubInfoRequest

PalletInit ==
    /\ Init
    /\ block_number = 1
    /\ requests = <<>>
    /\ answers = <<>>
    /\ round = 0
    /\ asked = {}

-----------------------------------------------------------------------------
(* The dispatchables, for any signed user.                                 *)

xcm_send(request) ==
    /\ Len(requests) < RequestLimit
    /\ requests' = Append(requests, request)
    /\ UNCHANGED <<vars, block_number, answers, round>>

do_create_subscription(user, credits, frequency, metadata, sub_id) ==
    LET id == IF sub_id # None THEN sub_id
              ELSE <<credits, frequency, metadata, block_number>>
    IN  /\ xcm_send([call |-> "create", user |-> user, id |-> id,
                     credits |-> credits, frequency |-> frequency,
                     metadata |-> metadata])
        /\ UNCHANGED asked

do_update_subscription(user, id, new) ==
    /\ xcm_send([call |-> "update", user |-> user, id |-> id, new |-> new])
    /\ UNCHANGED asked

do_pause_subscription(user, id) ==
    /\ xcm_send([call |-> "pause", user |-> user, id |-> id])
    /\ UNCHANGED asked

do_reactivate_subscription(user, id) ==
    /\ xcm_send([call |-> "reactivate", user |-> user, id |-> id])
    /\ UNCHANGED asked

do_kill_subscription(user, id) ==
    /\ xcm_send([call |-> "kill", user |-> user, id |-> id])
    /\ UNCHANGED asked

Ask(req) ==
    /\ asked' = asked \union {req}
    /\ Cardinality(asked') <= QuestionLimit

do_request_quote(user, number_of_pulses, frequency, metadata, req_ref) ==
    LET req == [req_ref |-> IF req_ref # None THEN req_ref
                            ELSE <<frequency, metadata, block_number>>,
                lifetime_pulses |-> number_of_pulses, frequency |-> frequency,
                metadata |-> metadata]
    IN  /\ xcm_send([call |-> "quote", user |-> user, req |-> req])
        /\ Ask(req)

do_request_sub_info(user, id, req_ref) ==
    LET req == [req_ref |-> IF req_ref # None THEN req_ref
                            ELSE <<id, block_number>>,
                id |-> id]
    IN  /\ xcm_send([call |-> "info", user |-> user, req |-> req])
        /\ Ask(req)

NextConsumerBlock ==
    /\ block_number < LastBlock
    /\ block_number' = block_number + 1
    /\ UNCHANGED <<vars, requests, answers, round, asked>>

-----------------------------------------------------------------------------
(* The IDN, with its inputs taken from the queue of requests.              *)

Given(choice, old) == IF choice = None THEN old ELSE choice

Update(m) ==
    LET sub == Subscriptions[m.id]
    IN  update_subscription(m.user, m.id, Given(m.new[1], sub.credits),
                            Given(m.new[2], sub.frequency),
                            Given(m.new[3], sub.metadata))

Transact(m) ==
    CASE m.call = "create" -> create_subscription(m.user, m.id, m.credits,
                                                  m.frequency, m.metadata)
      [] m.call = "update" -> InStorage(m.id) /\ Update(m)
      [] m.call = "pause" -> pause_subscription(m.user, m.id)
      [] m.call = "reactivate" -> reactivate_subscription(m.user, m.id)
      [] m.call = "kill" -> kill_subscription(m.user, m.id)

ExecuteRequest ==
    /\ requests # <<>>
    /\ Head(requests).call \notin {"quote", "info"}
    /\ requests' = Tail(requests)
    /\ Transact(Head(requests))
    /\ UNCHANGED <<block_number, answers, round, asked>>

Answer(m) ==
    /\ Executing
    /\ Len(answers) < AnswerLimit
    /\ requests' = Tail(requests)
    /\ answers' = Append(answers, m)
    /\ UNCHANGED <<vars, block_number, round, asked>>

AnswerQuote ==
    /\ requests # <<>>
    /\ Head(requests).call = "quote"
    /\ LET req   == Head(requests).req
           quote == quote_subscription(Head(requests).user, req.lifetime_pulses,
                                       req.frequency, req.metadata, 0)
       IN  Answer([kind |-> "quote", req_ref |-> req.req_ref,
                   fees |-> quote.fees, deposit |-> quote.deposit])

(* Anybody may ask about any stored subscription. *)
AnswerInfo ==
    /\ requests # <<>>
    /\ Head(requests).call = "info"
    /\ LET req == Head(requests).req
       IN  /\ InStorage(req.id)
           /\ Answer([kind |-> "info", req_ref |-> req.req_ref, id |-> req.id])

(* The call returns an error, or the fees sent along do not buy its        *)
(* execution.                                                              *)
FailRequest ==
    /\ requests # <<>>
    /\ Executing
    /\ requests' = Tail(requests)
    /\ UNCHANGED <<vars, block_number, answers, round, asked>>

DispatchPulse ==
    /\ round < LastRound
    /\ dispatch
    /\ round' = round + 1
    /\ UNCHANGED <<chain, asked>>

Deliver(id) ==
    /\ DeliverPulse(id)
    /\ Len(answers) < AnswerLimit
    /\ answers' = Append(answers, [kind |-> "pulse", round |-> round, id |-> id])
    /\ UNCHANGED <<block_number, requests, round, asked>>

IdnStep ==
    /\ \/ \E id \in SubIds : \/ PauseUnpaid(id)
                             \/ PauseUnsent(id)
                             \/ IdlePulse(id)
                             \/ TerminateFinalized(id)
       \/ on_finalize
       \/ NextBlock
    /\ UNCHANGED <<chain, round, asked>>

-----------------------------------------------------------------------------
(* The callbacks: consume_pulse, consume_quote and consume_sub_info hand   *)
(* what arrives to the runtime.                                            *)

Consume(kind) ==
    /\ answers # <<>>
    /\ Head(answers).kind = kind
    /\ answers' = Tail(answers)
    /\ UNCHANGED <<vars, block_number, requests, round, asked>>

consume_pulse == Consume("pulse")

consume_quote == Consume("quote")

consume_sub_info == Consume("info")

(* The message is not executed, or the consumer refuses what it is given. *)
LoseAnswer ==
    /\ answers # <<>>
    /\ answers' = Tail(answers)
    /\ UNCHANGED <<vars, block_number, requests, round, asked>>

-----------------------------------------------------------------------------
UserStep(user) ==
    \/ \E c \in CreditChoices, f \in FrequencyChoices, m \in MetadataSizes :
         \E sub_id \in GivenIds \union {None} :
           do_create_subscription(user, c, f, m, sub_id)
    \/ \E id \in SubIds :
         \/ \E new \in UpdateChoices : do_update_subscription(user, id, new)
         \/ do_pause_subscription(user, id)
         \/ do_reactivate_subscription(user, id)
         \/ do_kill_subscription(user, id)
         \/ \E req_ref \in GivenInfoRefs \union {None} :
              do_request_sub_info(user, id, req_ref)
    \/ \E n \in PulseCounts, f \in FrequencyChoices, m \in MetadataSizes :
         \E req_ref \in GivenQuoteRefs \union {None} :
           do_request_quote(user, n, f, m, req_ref)

PalletNext ==
    \/ \E user \in Accounts : UserStep(user)
    \/ NextConsumerBlock
    \/ ExecuteRequest
    \/ AnswerQuote
    \/ AnswerInfo
    \/ FailRequest
    \/ DispatchPulse
    \/ \E id \in SubIds : Deliver(id)
    \/ IdnStep
    \/ consume_pulse
    \/ consume_quote
    \/ consume_sub_info
    \/ LoseAnswer

PalletSpec == PalletInit /\ [][PalletNext]_world

-----------------------------------------------------------------------------
(* Properties.                                                             *)

OwnSubscriptions(user) ==
    [id \in OwnedBy(user) |-> Subscriptions[id]]

(* A user's request never touches the money or the subscriptions of        *)
(* another, although two users who ask for the same parameters in one      *)
(* block, or choose the same id, are told the same subscription id and go  *)
(* on to pause, update and kill under it (do_create_subscription hashes    *)
(* only the parameters and the block; the manager compares the caller).    *)
UsersAreIsolated ==
    [][ requests # <<>> /\ requests' = Tail(requests) =>
          \A user \in Accounts \ {Head(requests).user} :
            /\ balances'[user] = balances[user]
            /\ OwnSubscriptions(user)' = OwnSubscriptions(user) ]_world

(* What the callbacks hand to the consumers was asked for: a quote carries *)
(* the reference and the price of one question that some user sent, an     *)
(* information the reference of a question about that subscription.        *)
(* Failed requests, lost answers and shared references change nothing      *)
(* about that.                                                             *)
AnswersWereAsked ==
    \A i \in DOMAIN answers :
      LET a == answers[i]
      IN  /\ a.kind = "info" => [req_ref |-> a.req_ref, id |-> a.id] \in asked
          /\ a.kind = "quote" =>
               \E q \in asked \intersect QuoteRequest, user \in Accounts :
                 LET c == calculate_credits(q.frequency, q.lifetime_pulses)
                 IN  /\ q.req_ref = a.req_ref
                     /\ a.fees = calculate_subscription_fees(c)
                     /\ a.deposit = calculate_storage_deposit(
                          NewSubscription(user, c, q.frequency, q.metadata))
=============================================================================
