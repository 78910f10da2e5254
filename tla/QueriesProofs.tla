---------------------------- MODULE QueriesProofs ----------------------------
(***************************************************************************)
(* Proofs about ContractQueries: what the answers a contract has recorded  *)
(* still say, for any requests and blocks and any number of messages under *)
(* way.  As in ContractProofs, each lemma on a step takes the manager by   *)
(* its type; CompositionProofs states the theorems.                        *)
(***************************************************************************)
EXTENDS ContractQueries, ContractProofs

-----------------------------------------------------------------------------
(* ContractQueries: what is under way in the two queues.                   *)

Question ==
    [call : {"quote"}, pulses : PulseCounts, frequency : FrequencyChoices,
     metadata : MetadataSizes, req_ref : FrequencyChoices \X Blocks]

InfoQuestion ==
    [call : {"info"}, id : SubIds, expects : Nat, req_ref : SubIds \X Blocks]

CallRequest ==
         [call : {"create"}, id : SubIds, credits : CreditChoices,
          frequency : FrequencyChoices, metadata : MetadataSizes]
    \cup [call : {"update"}, id : SubIds,
          credits : UpdateCredits, frequency : FrequencyChoices]
    \cup [call : {"pause", "reactivate", "kill"}, id : SubIds]

AnyRequest == CallRequest \cup Question \cup InfoQuestion

InfoAnswer ==
    [req_ref : SubIds \X Blocks, id : SubIds, credits_left : 0..U64Max,
     expects : Nat, size : Nat]

AnyMessage == [round : 1..LastRound, id : SubIds] \cup Quote \cup InfoAnswer

QueueTypes ==
    /\ subscription_id \in SubIds \cup {None}
    /\ timestamp \in Blocks
    /\ requests \in Seq(AnyRequest)
    /\ unsent \in 0..Len(requests)
    /\ pulses \in Seq(AnyMessage)
    /\ round \in 0..LastRound
    /\ phase = "execute" /\ todo # {} => round > 0

(* The quote is the price of some subscription that was asked about. *)
IsPrice(q) ==
    \E n \in PulseCounts, m \in MetadataSizes :
      LET f == q.req_ref[1]
          c == calculate_credits(f, n)
      IN  /\ q.fees = calculate_subscription_fees(c)
          /\ q.deposit + SDMultiplier =
               calculate_storage_deposit(NewSubscription(contract, c, f, m))

Priced ==
    /\ \A i \in DOMAIN requests :
         requests[i].call = "quote" => requests[i].req_ref[1] = requests[i].frequency
    /\ \A i \in DOMAIN pulses : "fees" \in DOMAIN pulses[i] => IsPrice(pulses[i])
    /\ \A i \in DOMAIN quote_history : IsPrice(quote_history[i])

(* A creation of id is under way. *)
Expected(id) ==
    \E i \in DOMAIN requests : requests[i].call = "create" /\ requests[i].id = id

(* Information on an id that was created once bounds the credits it has    *)
(* left, and the id is not expected to come back.                          *)
Bounds(info) ==
    /\ lives[info.id] # 0
    /\ lives[info.id] = 1 =>
         /\ ~Expected(info.id)
         /\ InStorage(info.id) =>
              Subscriptions[info.id].credits_left <= info.credits_left

(* lives counts the creations: an id that is stored or expected was        *)
(* created, and one that is both, or expected twice, more than once.       *)
Counted ==
    /\ \A id \in SubIds : lives[id] = 0 => ~InStorage(id) /\ ~Expected(id)
    /\ \A id \in SubIds : lives[id] = 1 => ~(InStorage(id) /\ Expected(id))
    /\ \A i, j \in DOMAIN requests :
         /\ requests[i].call = "create" /\ requests[j].call = "create"
         /\ requests[i].id = requests[j].id
         /\ lives[requests[i].id] = 1
         => i = j

Informed ==
    /\ Counted
    /\ \A i \in DOMAIN pulses : "size" \in DOMAIN pulses[i] => Bounds(pulses[i])
    /\ \A i \in DOMAIN sub_info_history : Bounds(sub_info_history[i])

QInv == TypeOK /\ QueueTypes /\ QueriesTypeOK /\ Priced /\ Informed

-----------------------------------------------------------------------------
(* A request and an answer have the fields of their kind. *)
LEMMA AnyRequestFields ==
    ASSUME NEW q \in AnyRequest
    PROVE  /\ q.call = "quote" => q \in Question
           /\ q.call = "info" => q \in InfoQuestion
           /\ q.call \notin {"quote", "info"} => Callable(q)
<1>1. CASE q \in [call : {"create"}, id : SubIds, credits : CreditChoices,
                  frequency : FrequencyChoices, metadata : MetadataSizes]
  BY SMTT(60), <1>1 DEF Callable
<1>2. CASE q \in [call : {"update"}, id : SubIds,
                  credits : UpdateCredits, frequency : FrequencyChoices]
  BY ZenonT(60), <1>2, QueriesAssumption DEF Callable
<1>3. CASE q \in [call : {"pause", "reactivate", "kill"}, id : SubIds]
  BY <1>3 DEF Callable
<1>4. CASE q \in Question
  BY SMTT(60), <1>4 DEF Question
<1>5. CASE q \in InfoQuestion
  BY SMTT(60), <1>5 DEF InfoQuestion
<1> QED BY ZenonT(60), <1>1, <1>2, <1>3, <1>4, <1>5 DEF AnyRequest, CallRequest

LEMMA AnyMessageFields ==
    ASSUME NEW m \in AnyMessage
    PROVE  /\ "fees" \in DOMAIN m => m \in Quote
           /\ "size" \in DOMAIN m => m \in InfoAnswer
<1>1. CASE m \in [round : 1..LastRound, id : SubIds]
  BY SMTT(60), <1>1
<1>2. CASE m \in Quote
  BY SMTT(60), <1>2 DEF Quote
<1>3. CASE m \in InfoAnswer
  BY SMTT(60), <1>3 DEF InfoAnswer
<1> QED BY SMTT(60), <1>1, <1>2, <1>3 DEF AnyMessage

(* Quotes stay prices when every request, answer and entry was there       *)
(* before or is one.                                                       *)
LEMMA PricedKept ==
    ASSUME Priced,
           \A i \in DOMAIN requests' :
             \/ \E j \in DOMAIN requests : requests'[i] = requests[j]
             \/ requests'[i].call = "quote" =>
                  requests'[i].req_ref[1] = requests'[i].frequency,
           \A i \in DOMAIN pulses' :
             \/ \E j \in DOMAIN pulses : pulses'[i] = pulses[j]
             \/ "fees" \in DOMAIN pulses'[i] => IsPrice(pulses'[i]),
           \A i \in DOMAIN quote_history' :
             \/ \E j \in DOMAIN quote_history : quote_history'[i] = quote_history[j]
             \/ IsPrice(quote_history'[i])
    PROVE  Priced'
BY SMTT(60) DEF Priced

(* An id that was created once and is not expected does not come back, and *)
(* has no more credits left than before.                                   *)
NoneRevived ==
    \A id \in SubIds :
      lives[id] # 0 =>
        /\ lives'[id] # 0
        /\ lives'[id] = 1 =>
             /\ lives[id] = 1
             /\ ~Expected(id) =>
                  /\ ~Expected(id)'
                  /\ InStorage(id)' => /\ InStorage(id)
                                       /\ Subscriptions'[id].credits_left
                                            <= Subscriptions[id].credits_left

(* Information that was sound stays so. *)
LEMMA BoundsKept ==
    ASSUME TypeOK, TypeOK', NoneRevived, NEW info, info.id \in SubIds,
           info.credits_left \in Int, Bounds(info)
    PROVE  Bounds(info)'
<1>1. \A id \in DOMAIN Subscriptions : Subscriptions[id].credits_left \in Int
  BY SMTT(60), CreditsLeft DEF TypeOK
<1>2. \A id \in DOMAIN Subscriptions' : Subscriptions'[id].credits_left \in Int
  <2>1. ASSUME NEW id \in DOMAIN Subscriptions'
        PROVE  Subscriptions'[id] \in Subscription
    BY SMTT(60) DEF TypeOK
  <2> QED BY SMTT(60), <2>1, CreditsLeft
<1>3. lives[info.id] # 0
  BY SMTT(60) DEF Bounds
<1>4. ASSUME lives'[info.id] = 1
      PROVE  /\ ~Expected(info.id)'
             /\ InStorage(info.id)' =>
                  Subscriptions'[info.id].credits_left <= info.credits_left
  <2>1. /\ lives[info.id] = 1
        /\ ~Expected(info.id) =>
             /\ ~Expected(info.id)'
             /\ InStorage(info.id)' => /\ InStorage(info.id)
                                       /\ Subscriptions'[info.id].credits_left
                                            <= Subscriptions[info.id].credits_left
    BY SMTT(60), <1>3, <1>4 DEF NoneRevived
  <2>2. /\ ~Expected(info.id)
        /\ InStorage(info.id) =>
             Subscriptions[info.id].credits_left <= info.credits_left
    BY SMTT(60), <2>1 DEF Bounds
  <2> QED BY SMTT(60), <1>1, <1>2, <2>1, <2>2 DEF InStorage
<1> QED BY SMTT(60), <1>3, <1>4 DEF Bounds, NoneRevived

(* So with every piece of information that was there before, under way or  *)
(* kept.                                                                   *)
LEMMA InformedKept ==
    ASSUME QInv, TypeOK', NoneRevived, Counted',
           \A i \in DOMAIN pulses' :
             \/ \E j \in DOMAIN pulses : pulses'[i] = pulses[j]
             \/ "size" \in DOMAIN pulses'[i] => Bounds(pulses[i])',
           \A i \in DOMAIN sub_info_history' :
             \/ \E j \in DOMAIN sub_info_history :
                  sub_info_history'[i] = sub_info_history[j]
             \/ \E j \in DOMAIN pulses :
                  /\ "size" \in DOMAIN pulses[j]
                  /\ sub_info_history'[i].id = pulses[j].id
                  /\ sub_info_history'[i].credits_left = pulses[j].credits_left
    PROVE  Informed'
<1>1. TypeOK
  BY SMTT(60) DEF QInv
<1>2. ASSUME NEW j \in DOMAIN pulses, "size" \in DOMAIN pulses[j]
      PROVE  /\ pulses[j].id \in SubIds /\ pulses[j].credits_left \in Int
             /\ Bounds(pulses[j])
  <2>1. pulses \in Seq(AnyMessage)
    BY SMTT(60) DEF QInv, QueueTypes
  <2>2. pulses[j] \in AnyMessage
    BY SMTT(60), <2>1, EntryIs
  <2>3. pulses[j] \in InfoAnswer
    BY SMTT(60), <1>2, <2>2, AnyMessageFields
  <2>4. pulses[j].id \in SubIds /\ pulses[j].credits_left \in 0..U64Max
    BY SMTT(60), <2>3 DEF InfoAnswer
  <2> QED BY SMTT(60), <1>2, <2>4, FeesAssumption DEF QInv, Informed
<1>3. ASSUME NEW j \in DOMAIN sub_info_history
      PROVE  /\ sub_info_history[j].id \in SubIds
             /\ sub_info_history[j].credits_left \in Int
             /\ Bounds(sub_info_history[j])
  <2>1. sub_info_history \in Seq(SubInfo)
    BY SMTT(60) DEF QInv, QueriesTypeOK
  <2>2. sub_info_history[j] \in SubInfo
    BY SMTT(60), <2>1, EntryIs
  <2> QED BY SMTT(60), <2>2, FeesAssumption DEF SubInfo, QInv, Informed
<1>4. ASSUME NEW i \in DOMAIN pulses', "size" \in DOMAIN pulses'[i]
      PROVE  Bounds(pulses[i])'
  <2>1. ASSUME NEW j \in DOMAIN pulses, pulses'[i] = pulses[j]
        PROVE  Bounds(pulses[i])'
    <3>1. PICK info : info = pulses[j]
      OBVIOUS
    <3>2. Bounds(info)'
      BY ZenonT(60), <1>1, <1>2, <1>4, <2>1, <3>1, BoundsKept
    <3> QED BY ZenonT(60), <2>1, <3>1, <3>2 DEF Bounds, Expected, InStorage
  <2> QED BY SMTT(60), <1>4, <2>1
<1>5. ASSUME NEW i \in DOMAIN sub_info_history'
      PROVE  Bounds(sub_info_history[i])'
  <2>1. ASSUME NEW info, info.id = sub_info_history'[i].id,
               info.credits_left = sub_info_history'[i].credits_left,
               info.id \in SubIds, info.credits_left \in Int, Bounds(info)
        PROVE  Bounds(sub_info_history[i])'
    <3>1. Bounds(info)'
      BY ZenonT(60), <1>1, <2>1, BoundsKept
    <3> QED BY ZenonT(60), <2>1, <3>1 DEF Bounds, Expected, InStorage
  <2>2. ASSUME NEW j \in DOMAIN sub_info_history,
               sub_info_history'[i] = sub_info_history[j]
        PROVE  Bounds(sub_info_history[i])'
    BY SMTT(60), <1>3, <2>1, <2>2
  <2>3. ASSUME NEW j \in DOMAIN pulses, "size" \in DOMAIN pulses[j],
               sub_info_history'[i].id = pulses[j].id,
               sub_info_history'[i].credits_left = pulses[j].credits_left
        PROVE  Bounds(sub_info_history[i])'
    BY SMTT(60), <1>2, <2>1, <2>3
  <2> QED BY ZenonT(60), <1>5, <2>2, <2>3
<1> QED BY SMTT(60), <1>4, <1>5 DEF Informed

(* xcm_send: a request, question or not, joins the queue; a creation       *)
(* counts.                                                                 *)
LEMMA SendIsAnswerable ==
    ASSUME QInv, TypeOK', NEW q \in AnyRequest, xcm_send(q),
           UNCHANGED <<timestamp, quote_history, sub_info_history>>,
           subscription_id' \in SubIds \cup {None},
           q.call = "quote" => q.req_ref[1] = q.frequency,
           \/ q.call = "create" /\ lives' = [lives EXCEPT ![q.id] = Lesser(@ + 1, 2)]
           \/ q.call # "create" /\ lives' = lives
    PROVE  QInv'
<1>1. /\ requests \in Seq(AnyRequest) /\ unsent \in 0..Len(requests)
      /\ Len(requests) < QueueLimit
      /\ requests' = Append(requests, q) /\ unsent' = unsent + 1
      /\ UNCHANGED <<vars, pulses, round>>
  BY SMTT(60) DEF xcm_send, QInv, QueueTypes
<1>2. /\ Len(requests) \in Nat
      /\ requests' \in Seq(AnyRequest) /\ Len(requests') = Len(requests) + 1
      /\ DOMAIN requests = 1..Len(requests)
      /\ DOMAIN requests' = 1..(Len(requests) + 1)
      /\ \A i \in 1..Len(requests) : requests'[i] = requests[i]
      /\ requests'[Len(requests) + 1] = q
  BY SMTT(60), <1>1, AppendIs
<1>3. UNCHANGED <<Subscriptions, phase, todo>>
  BY SMTT(60), <1>1 DEF vars
<1>4. ASSUME NEW i \in DOMAIN requests'
      PROVE  \/ i \in DOMAIN requests /\ requests'[i] = requests[i]
             \/ i = Len(requests) + 1 /\ requests'[i] = q
  BY <1>2
<1>5. /\ lives \in [SubIds -> 0..2] /\ lives' \in [SubIds -> 0..2]
      /\ q.call = "create" => q.id \in SubIds
      /\ \A id \in SubIds :
           IF q.call = "create" /\ id = q.id
           THEN lives'[id] # 0 /\ (lives'[id] = 1 => lives[id] = 0)
           ELSE lives'[id] = lives[id]
  <2>1. lives \in [SubIds -> 0..2]
    BY ZenonT(60) DEF QInv, QueriesTypeOK
  <2>2. q.call = "create" => q.id \in SubIds
    BY SMTT(60), AnyRequestFields DEF Callable
  <2> QED BY <2>1, <2>2 DEF Lesser
<1>6. QueueTypes' /\ QueriesTypeOK'
  <2>1. unsent' \in 0..Len(requests') /\ Len(requests') <= QueueLimit
    BY SMTT(60), <1>1, <1>2, ConsumerAssumption
  <2> QED BY ZenonT(60), <1>1, <1>2, <1>3, <1>5, <2>1 DEF QInv, QueueTypes, QueriesTypeOK
<1>7. Priced'
  BY ZenonT(60), <1>1, <1>4, PricedKept DEF QInv
<1>8. ASSUME NEW id \in SubIds
      PROVE  Expected(id)' <=> Expected(id) \/ (q.call = "create" /\ id = q.id)
  <2>1. ASSUME NEW i \in DOMAIN requests
        PROVE  i \in DOMAIN requests' /\ requests'[i] = requests[i]
    BY SMTT(60), <1>2
  <2>2. Len(requests) + 1 \in DOMAIN requests' /\ requests'[Len(requests) + 1] = q
    BY SMTT(60), <1>2
  <2> QED BY ZenonT(60), <1>4, <2>1, <2>2 DEF Expected
<1>9. Counted'
  <2>1. /\ \A id \in SubIds : lives[id] = 0 => ~InStorage(id) /\ ~Expected(id)
        /\ \A id \in SubIds : lives[id] = 1 => ~(InStorage(id) /\ Expected(id))
    BY ZenonT(60) DEF QInv, Informed, Counted
  <2>2. \A id \in SubIds : InStorage(id)' <=> InStorage(id)
    BY SMTT(60), <1>3 DEF InStorage
  <2>3. ASSUME NEW id \in SubIds
        PROVE  /\ lives'[id] = 0 => ~InStorage(id)' /\ ~Expected(id)'
               /\ lives'[id] = 1 => ~(InStorage(id)' /\ Expected(id)')
    BY ZenonT(60), <1>5, <1>8, <2>1, <2>2
  <2>4. ASSUME NEW i \in DOMAIN requests', NEW j \in DOMAIN requests',
               requests'[i].call = "create", requests'[j].call = "create",
               requests'[i].id = requests'[j].id, lives'[requests'[i].id] = 1
        PROVE  i = j
    <3>1. requests'[i].id \in SubIds
      <4>1. requests'[i] \in AnyRequest
        BY ZenonT(60), <1>2, EntryIs
      <4> QED BY SMTT(60), <2>4, <4>1, AnyRequestFields DEF Callable
    <3>2. CASE i \in DOMAIN requests /\ j \in DOMAIN requests
      <4>1. requests'[i] = requests[i] /\ requests'[j] = requests[j]
        BY SMTT(60), <1>2, <3>2
      <4>2. ~(q.call = "create" /\ requests[i].id = q.id)
        <5>1. Expected(requests[i].id)
          BY ZenonT(60), <2>4, <3>2, <4>1 DEF Expected
        <5> QED BY ZenonT(60), <1>5, <2>1, <2>4, <3>1, <4>1, <5>1
      <4>3. lives[requests[i].id] = 1
        BY SMTT(60), <1>5, <2>4, <3>1, <4>1, <4>2
      <4> QED BY ZenonT(60), <2>4, <3>2, <4>1, <4>3 DEF QInv, Informed, Counted
    <3>3. CASE i \in DOMAIN requests /\ j = Len(requests) + 1
      <4>1. requests'[i] = requests[i] /\ requests'[j] = q
        BY ZenonT(60), <1>2, <3>3
      <4>2. Expected(requests[i].id)
        BY SMTT(60), <2>4, <3>3, <4>1 DEF Expected
      <4> QED BY ZenonT(60), <1>5, <2>1, <2>4, <3>1, <4>1, <4>2
    <3>4. CASE j \in DOMAIN requests /\ i = Len(requests) + 1
      <4>1. requests'[j] = requests[j] /\ requests'[i] = q
        BY ZenonT(60), <1>2, <3>4
      <4>2. Expected(requests[j].id)
        BY SMTT(60), <2>4, <3>4, <4>1 DEF Expected
      <4> QED BY ZenonT(60), <1>5, <2>1, <2>4, <3>1, <4>1, <4>2
    <3> QED BY ZenonT(60), <1>4, <3>2, <3>3, <3>4
  <2> QED BY ZenonT(60), <2>3, <2>4 DEF Counted
<1>10. NoneRevived
  <2>1. \A x \in DOMAIN Subscriptions : Subscriptions[x].credits_left \in Int
    BY SMTT(60), CreditsLeft DEF QInv, TypeOK
  <2>2. \A id \in SubIds : InStorage(id)' =>
          /\ InStorage(id)
          /\ Subscriptions'[id].credits_left <= Subscriptions[id].credits_left
    BY <1>3, <2>1 DEF InStorage
  <2> QED BY ZenonT(60), <1>5, <1>8, <2>2 DEF NoneRevived
<1>11. Informed'
  BY ZenonT(60), <1>1, <1>3, <1>9, <1>10, InformedKept
<1> QED BY SMTT(60), <1>3, <1>6, <1>7, <1>11 DEF QInv

(* The owner's questions and requests. *)
LEMMA OwnerIsAnswerable ==
    ASSUME QInv, TypeOK',
           \/ \E n \in PulseCounts, f \in FrequencyChoices, m \in MetadataSizes :
                owner_request_quote(n, f, m)
           \/ \E m \in InfoMetadata : owner_request_sub_info(m)
           \/ CreateStep
           \/ /\ \/ \E c \in UpdateCredits, f \in FrequencyChoices : owner_update(c, f)
                 \/ owner_pause
                 \/ owner_reactivate
                 \/ owner_kill
              /\ UNCHANGED queries
    PROVE  QInv'
<1>1. timestamp \in Blocks /\ subscription_id \in SubIds \cup {None}
  BY DEF QInv, QueueTypes
<1>2. ASSUME NEW n \in PulseCounts, NEW f \in FrequencyChoices, NEW m \in MetadataSizes,
             owner_request_quote(n, f, m)
      PROVE  QInv'
  <2> DEFINE q == [call |-> "quote", pulses |-> n, frequency |-> f, metadata |-> m,
                   req_ref |-> <<f, timestamp>>]
  <2>1. xcm_send(q) /\ UNCHANGED consumer /\ UNCHANGED queries
    BY SMTT(60), <1>2 DEF owner_request_quote, request_quote
  <2>2. /\ q \in Question /\ q.call = "quote" /\ q.req_ref[1] = q.frequency
    BY SMTT(60), <1>1 DEF Question
  <2> HIDE DEF q
  <2>3. UNCHANGED <<timestamp, subscription_id, quote_history, sub_info_history, lives>>
    BY SMTT(60), <2>1 DEF consumer, queries
  <2> QED BY ZenonT(60), <1>1, <2>1, <2>2, <2>3, SendIsAnswerable DEF AnyRequest
<1>3. ASSUME NEW m \in InfoMetadata, owner_request_sub_info(m)
      PROVE  QInv'
  <2> DEFINE e == create_dummy_sub_info_response(m)
             q == [call |-> "info", id |-> subscription_id, expects |-> e,
                   req_ref |-> <<subscription_id, timestamp>>]
  <2>1. /\ xcm_send(q) /\ UNCHANGED consumer /\ UNCHANGED queries
        /\ subscription_id # None
    BY SMTT(60), <1>3 DEF owner_request_sub_info, request_sub_info, ensure_active_sub
  <2>2. e \in Nat
    BY SMTT(60), QueriesAssumption, ManagerAssumption DEF create_dummy_sub_info_response
  <2> HIDE DEF e
  <2>3. q \in InfoQuestion /\ q.call = "info"
    BY SMTT(60), <1>1, <2>1, <2>2 DEF InfoQuestion
  <2> HIDE DEF q
  <2>4. UNCHANGED <<timestamp, subscription_id, quote_history, sub_info_history, lives>>
    BY SMTT(60), <2>1 DEF consumer, queries
  <2> QED BY ZenonT(60), <1>1, <2>1, <2>3, <2>4, SendIsAnswerable DEF AnyRequest
<1>4. ASSUME NEW c \in CreditChoices, NEW f \in FrequencyChoices, NEW m \in MetadataSizes,
             owner_create(c, f, m),
             lives' = [lives EXCEPT ![<<c, f, m, timestamp>>] = Lesser(@ + 1, 2)],
             UNCHANGED <<quote_history, sub_info_history>>
      PROVE  QInv'
  <2> DEFINE id == <<c, f, m, timestamp>>
             q == [call |-> "create", id |-> id, credits |-> c, frequency |-> f,
                   metadata |-> m]
  <2>1. xcm_send(q) /\ subscription_id' = id /\ UNCHANGED timestamp
    BY SMTT(60), <1>4 DEF owner_create
  <2>2. id \in SubIds
    BY SMTT(60), <1>1, ConsumerAssumption DEF Blocks
  <2>3. lives' = [lives EXCEPT ![id] = Lesser(@ + 1, 2)]
    BY SMTT(60), <1>4
  <2> HIDE DEF id
  <2>4. q \in CallRequest /\ q.call = "create" /\ q.id = id
    BY ZenonT(60), <2>2 DEF CallRequest
  <2> HIDE DEF q
  <2> QED BY ZenonT(60), <1>4, <2>1, <2>2, <2>3, <2>4, SendIsAnswerable DEF AnyRequest
<1>5. ASSUME NEW q \in CallRequest, xcm_send(q), q.call # "create", q.call # "quote",
             UNCHANGED timestamp, UNCHANGED queries,
             subscription_id' \in {subscription_id, None}
      PROVE  QInv'
  BY SMTT(60), <1>1, <1>5, SendIsAnswerable DEF AnyRequest, queries
<1>6. ASSUME NEW c \in UpdateCredits, NEW f \in FrequencyChoices, owner_update(c, f),
             UNCHANGED queries
      PROVE  QInv'
  <2> DEFINE q == [call |-> "update", id |-> subscription_id, credits |-> c,
                   frequency |-> f]
  <2>1. xcm_send(q) /\ UNCHANGED consumer /\ subscription_id # None
    BY SMTT(60), <1>6 DEF owner_update, ensure_active_sub
  <2>2. q \in CallRequest /\ q.call = "update"
    BY ZenonT(60), <1>1, <2>1 DEF CallRequest
  <2> HIDE DEF q
  <2> QED BY SMTT(60), <1>5, <1>6, <2>1, <2>2 DEF consumer
<1>7. ASSUME NEW name \in {"pause", "reactivate", "kill"},
             xcm_send([call |-> name, id |-> subscription_id]),
             subscription_id # None, UNCHANGED timestamp, UNCHANGED queries,
             subscription_id' \in {subscription_id, None}
      PROVE  QInv'
  <2> DEFINE q == [call |-> name, id |-> subscription_id]
  <2>1. q \in CallRequest /\ q.call # "create" /\ q.call # "quote"
    BY ZenonT(60), <1>1, <1>7 DEF CallRequest
  <2>2. xcm_send(q)
    BY SMTT(60), <1>7
  <2> HIDE DEF q
  <2> QED BY SMTT(60), <1>5, <1>7, <2>1, <2>2
<1>8. ASSUME owner_pause \/ owner_reactivate \/ owner_kill, UNCHANGED queries
      PROVE  QInv'
  <2>1. CASE owner_pause
    BY SMTT(60), <1>7, <1>8, <2>1 DEF owner_pause, ensure_active_sub, consumer
  <2>2. CASE owner_reactivate
    BY SMTT(60), <1>7, <1>8, <2>2 DEF owner_reactivate, ensure_active_sub, consumer
  <2>3. CASE owner_kill
    BY SMTT(60), <1>7, <1>8, <2>3 DEF owner_kill, ensure_active_sub
  <2> QED BY SMTT(60), <1>8, <2>1, <2>2, <2>3
<1> QED BY ZenonT(60), <1>2, <1>3, <1>4, <1>6, <1>8 DEF CreateStep

(* Steps that leave the manager, the queues and the answers as they are. *)
LEMMA QuietIsAnswerable ==
    ASSUME QInv, TypeOK', UNCHANGED <<vars, subscription_id, requests, pulses, round>>,
           UNCHANGED queries, timestamp' \in Blocks, unsent' \in 0..Len(requests)
    PROVE  QInv'
<1>1. UNCHANGED <<Subscriptions, phase, todo>>
  BY DEF vars
<1> QED BY ZenonT(60), <1>1 DEF QInv, QueueTypes, QueriesTypeOK, Priced, Informed, Counted,
                    Bounds, Expected, InStorage, queries

(* The first message under way arrives: it is forgotten, or joins the      *)
(* history of its kind (consume_pulse, consume_quote, consume_sub_info).   *)
LEMMA ReceiptIsAnswerable ==
    ASSUME QInv, TypeOK', consume_quote \/ consume_sub_info
                   \/ ((consume_pulse \/ LosePulse) /\ UNCHANGED queries)
    PROVE  QInv'
<1> DEFINE p == Head(pulses)
           info == [req_ref |-> p.req_ref, id |-> p.id, credits_left |-> p.credits_left]
<1>1. /\ pulses # <<>> /\ pulses' = Tail(pulses)
      /\ UNCHANGED <<vars, subscription_id, timestamp, requests, unsent, round, lives>>
  BY SMTT(60) DEF consume_quote, consume_sub_info, consume_pulse, LosePulse, Receives,
         consumer, queries
<1>2. /\ \/ quote_history' = quote_history
         \/ "fees" \in DOMAIN p /\ quote_history' = Remembered(quote_history, p)
      /\ \/ sub_info_history' = sub_info_history
         \/ "size" \in DOMAIN p /\ sub_info_history' = Remembered(sub_info_history, info)
  BY ZenonT(60) DEF consume_quote, consume_sub_info, add_to_quote_history,
         add_to_sub_info_history, queries
<1>3. pulses \in Seq(AnyMessage)
  BY SMTT(60) DEF QInv, QueueTypes
<1>4. /\ Len(pulses) \in Nat /\ Len(pulses) > 0 /\ DOMAIN pulses = 1..Len(pulses)
      /\ p = pulses[1] /\ p \in AnyMessage
      /\ pulses' \in Seq(AnyMessage) /\ Len(pulses') = Len(pulses) - 1
      /\ DOMAIN pulses' = 1..(Len(pulses) - 1)
      /\ \A i \in 1..(Len(pulses) - 1) : pulses'[i] = pulses[i + 1]
  BY SMTT(60), <1>1, <1>3, TailIs
<1>5. 1 \in DOMAIN pulses /\ p = pulses[1]
  BY <1>4
<1>6. "fees" \in DOMAIN p => p \in Quote
  BY ZenonT(60), <1>4, AnyMessageFields
<1>7. "size" \in DOMAIN p => info \in SubInfo
  <2>1. "size" \in DOMAIN p => p \in InfoAnswer
    BY SMTT(60), <1>4, AnyMessageFields
  <2> QED BY SMTT(60), <2>1 DEF InfoAnswer, SubInfo
<1>8. info.id = p.id /\ info.credits_left = p.credits_left
  OBVIOUS
<1> HIDE DEF p, info
<1>9. UNCHANGED <<Subscriptions, phase, todo>>
  BY SMTT(60), <1>1 DEF vars
<1>10. /\ quote_history \in Seq(Quote) /\ Len(quote_history) <= MaxHistory
       /\ sub_info_history \in Seq(SubInfo) /\ Len(sub_info_history) <= MaxHistory
  BY SMTT(60) DEF QInv, QueriesTypeOK
<1>11. /\ quote_history' \in Seq(Quote) /\ Len(quote_history') <= MaxHistory
       /\ \A i \in DOMAIN quote_history' :
            \/ \E j \in DOMAIN quote_history : quote_history'[i] = quote_history[j]
            \/ "fees" \in DOMAIN p /\ quote_history'[i] = p
  <2>1. CASE quote_history' = quote_history
    BY SMTT(60), <1>10, <2>1
  <2>2. CASE "fees" \in DOMAIN p /\ quote_history' = Remembered(quote_history, p)
    <3>1. quote_history' \in Seq(Quote) /\ Continues(quote_history', quote_history, p)
      BY SMTT(60), <1>6, <1>10, <2>2, RememberedIs
    <3> QED BY SMTT(60), <2>2, <3>1, ConsumerAssumption DEF Continues
  <2> QED BY SMTT(60), <1>2, <2>1, <2>2
<1>12. /\ sub_info_history' \in Seq(SubInfo) /\ Len(sub_info_history') <= MaxHistory
       /\ \A i \in DOMAIN sub_info_history' :
            \/ \E j \in DOMAIN sub_info_history :
                 sub_info_history'[i] = sub_info_history[j]
            \/ "size" \in DOMAIN p /\ sub_info_history'[i] = info
  <2>1. CASE sub_info_history' = sub_info_history
    BY SMTT(60), <1>10, <2>1
  <2>2. CASE "size" \in DOMAIN p /\ sub_info_history' = Remembered(sub_info_history, info)
    <3>1. /\ sub_info_history' \in Seq(SubInfo)
          /\ Continues(sub_info_history', sub_info_history, info)
      BY SMTT(60), <1>7, <1>10, <2>2, RememberedIs
    <3> QED BY SMTT(60), <2>2, <3>1, ConsumerAssumption DEF Continues
  <2> QED BY ZenonT(60), <1>2, <2>1, <2>2
<1>13. QueueTypes' /\ QueriesTypeOK'
  <2>1. Len(pulses') <= QueueLimit
    BY SMTT(60), <1>4, ConsumerAssumption DEF QInv, QueriesTypeOK
  <2> QED BY ZenonT(60), <1>1, <1>4, <1>9, <1>11, <1>12, <2>1 DEF QInv, QueueTypes, QueriesTypeOK
<1>14. \A i \in DOMAIN pulses' : \E j \in DOMAIN pulses : pulses'[i] = pulses[j]
  BY SMTT(60), <1>4
<1>15. Priced'
  <2>1. "fees" \in DOMAIN p => IsPrice(p)
    BY SMTT(60), <1>5 DEF QInv, Priced
  <2> QED BY ZenonT(60), <1>1, <1>11, <1>14, <2>1, PricedKept DEF QInv
<1>16. Counted'
  BY ZenonT(60), <1>1, <1>9 DEF QInv, Informed, Counted, Expected, InStorage
<1>17. NoneRevived
  <2>1. \A x \in DOMAIN Subscriptions : Subscriptions[x].credits_left \in Int
    BY SMTT(60), CreditsLeft DEF QInv, TypeOK
  <2> QED BY SMTT(60), <1>1, <1>9, <2>1 DEF NoneRevived, Expected, InStorage
<1>18. Informed'
  BY ZenonT(60), <1>5, <1>8, <1>9, <1>12, <1>14, <1>16, <1>17, InformedKept
<1> QED BY SMTT(60), <1>9, <1>13, <1>15, <1>18 DEF QInv

(* A counter that a call leaves alone has not grown. *)
LEMMA NumberIsBounded == \A n \in Int : n <= n
OBVIOUS

(* A request leaves the queue, and at most one answer joins the other. *)
LEMMA TurnKeeps ==
    ASSUME QInv, TypeOK', NextRequest, UNCHANGED <<phase, todo>>,
           UNCHANGED <<subscription_id, timestamp, round>>, UNCHANGED queries,
           pulses' \in Seq(AnyMessage), Len(pulses') <= QueueLimit,
           \A i \in DOMAIN pulses' :
             \/ \E j \in DOMAIN pulses : pulses'[i] = pulses[j]
             \/ "fees" \in DOMAIN pulses'[i] => IsPrice(pulses'[i]),
           \A i \in DOMAIN pulses' :
             \/ \E j \in DOMAIN pulses : pulses'[i] = pulses[j]
             \/ "size" \in DOMAIN pulses'[i] => Bounds(pulses[i])',
           \/ OnlyUsesUp
           \/ /\ Head(requests).call = "create"
              /\ DOMAIN Subscriptions' = DOMAIN Subscriptions \cup {Head(requests).id}
              /\ \A x \in DOMAIN Subscriptions : Subscriptions'[x] = Subscriptions[x]
    PROVE  QInv'
<1> DEFINE q == Head(requests)
<1>1. /\ Len(requests) > unsent /\ requests' = Tail(requests) /\ unsent' = unsent
      /\ requests \in Seq(AnyRequest) /\ unsent \in 0..Len(requests)
  BY ZenonT(60) DEF NextRequest, QInv, QueueTypes
<1>2. requests # <<>>
  BY SMTT(60), <1>1
<1>3. /\ Len(requests) \in Nat /\ Len(requests) > 0
      /\ DOMAIN requests = 1..Len(requests)
      /\ q = requests[1]
      /\ requests' \in Seq(AnyRequest) /\ Len(requests') = Len(requests) - 1
      /\ DOMAIN requests' = 1..(Len(requests) - 1)
      /\ \A i \in 1..(Len(requests) - 1) : requests'[i] = requests[i + 1]
  BY <1>1, <1>2, TailIs
<1>4. /\ 1 \in DOMAIN requests /\ q = requests[1]
      /\ \A i \in DOMAIN requests' :
           i + 1 \in DOMAIN requests /\ requests'[i] = requests[i + 1]
      /\ \A i, j \in DOMAIN requests' : i + 1 = j + 1 => i = j
      /\ \A i \in DOMAIN requests' : i + 1 # 1
  BY <1>3
<1>5. \/ OnlyUsesUp
      \/ /\ q.call = "create"
         /\ DOMAIN Subscriptions' = DOMAIN Subscriptions \cup {q.id}
         /\ \A x \in DOMAIN Subscriptions : Subscriptions'[x] = Subscriptions[x]
  OBVIOUS
<1> HIDE DEF q
<1>6. UNCHANGED <<quote_history, sub_info_history, lives>>
  BY ZenonT(60) DEF queries
<1>7. QueueTypes' /\ QueriesTypeOK'
  <2>1. unsent' \in 0..Len(requests') /\ Len(requests') <= QueueLimit
    BY <1>1, <1>3, ConsumerAssumption DEF QInv, QueriesTypeOK
  <2> QED BY ZenonT(60), <1>3, <1>6, <2>1 DEF QInv, QueueTypes, QueriesTypeOK
<1>8. Priced'
  <2>1. \A i \in DOMAIN requests' : \E j \in DOMAIN requests : requests'[i] = requests[j]
    BY ZenonT(60), <1>4
  <2> QED BY ZenonT(60), <1>6, <2>1, PricedKept DEF QInv
<1>9. \A id \in SubIds : Expected(id)' => Expected(id)
  BY SMTT(60), <1>4 DEF Expected
<1>10. q.call = "create" => Expected(q.id)
  BY SMTT(60), <1>4 DEF Expected
<1>11. \A id \in SubIds : InStorage(id)' =>
         \/ InStorage(id)
         \/ q.call = "create" /\ id = q.id
  BY ZenonT(60), <1>5 DEF InStorage, OnlyUsesUp
<1>12. Counted'
  <2>1. /\ \A id \in SubIds : lives[id] = 0 => ~InStorage(id) /\ ~Expected(id)
        /\ \A id \in SubIds : lives[id] = 1 => ~(InStorage(id) /\ Expected(id))
        /\ \A i, j \in DOMAIN requests :
             /\ requests[i].call = "create" /\ requests[j].call = "create"
             /\ requests[i].id = requests[j].id
             /\ lives[requests[i].id] = 1
             => i = j
    BY ZenonT(60) DEF QInv, Informed, Counted
  <2>2. \A id \in SubIds : lives'[id] = 0 => ~InStorage(id)' /\ ~Expected(id)'
    BY ZenonT(60), <1>6, <1>9, <1>10, <1>11, <2>1
  <2>3. ASSUME NEW id \in SubIds, lives'[id] = 1, InStorage(id)', Expected(id)'
        PROVE  FALSE
    <3>1. lives[id] = 1 /\ Expected(id) /\ q.call = "create" /\ id = q.id
      BY ZenonT(60), <1>6, <1>9, <1>11, <2>1, <2>3
    <3>2. PICK i \in DOMAIN requests' : requests'[i].call = "create" /\ requests'[i].id = id
      BY ZenonT(60), <2>3 DEF Expected
    <3> QED BY <1>4, <2>1, <3>1, <3>2
  <2>4. \A i, j \in DOMAIN requests' :
          /\ requests'[i].call = "create" /\ requests'[j].call = "create"
          /\ requests'[i].id = requests'[j].id
          /\ lives'[requests'[i].id] = 1
          => i = j
    BY <1>4, <1>6, <2>1
  <2> QED BY ZenonT(60), <2>2, <2>3, <2>4 DEF Counted
<1>13. NoneRevived
  <2>1. \A x \in DOMAIN Subscriptions : Subscriptions[x].credits_left \in Int
    BY SMTT(60), CreditsLeft DEF QInv, TypeOK
  <2>2. \A id \in SubIds : ~Expected(id) /\ InStorage(id)' =>
          /\ InStorage(id)
          /\ Subscriptions'[id].credits_left <= Subscriptions[id].credits_left
    <3>1. CASE OnlyUsesUp
      BY ZenonT(60), <3>1 DEF InStorage, OnlyUsesUp
    <3>2. CASE /\ q.call = "create"
               /\ DOMAIN Subscriptions' = DOMAIN Subscriptions \cup {q.id}
               /\ \A x \in DOMAIN Subscriptions : Subscriptions'[x] = Subscriptions[x]
      <4>1. \A x \in DOMAIN Subscriptions :
              Subscriptions'[x].credits_left <= Subscriptions[x].credits_left
        BY ZenonT(60), <2>1, <3>2, NumberIsBounded
      <4> QED BY ZenonT(60), <1>10, <3>2, <4>1 DEF InStorage
    <3> QED BY ZenonT(60), <1>5, <3>1, <3>2
  <2> QED BY ZenonT(60), <1>6, <1>9, <2>2 DEF NoneRevived
<1>14. Informed'
  BY ZenonT(60), <1>6, <1>12, <1>13, InformedKept
<1> QED BY ZenonT(60), <1>7, <1>8, <1>14 DEF QInv

(* The fees of any number of credits are a number. *)
FeesAreNumbers == \A c \in 0..U64Max : calculate_subscription_fees(c) \in Nat

(* A size with a positive part is one more than a size. *)
LEMMA OneByteLess ==
    \A x, y \in Nat : x > 0 => /\ (x + y) - 1 \in Nat
                              /\ x + y = ((x + y) - 1) + 1
OBVIOUS

(* quote_subscription: the fees are those of the credits that the pulses   *)
(* need, and the deposit lacks the price of one byte.                      *)
LEMMA QuoteIsPrice ==
    ASSUME FeesAreNumbers, NEW q \in Question, q.req_ref[1] = q.frequency,
           NEW m, m = [req_ref |-> q.req_ref,
                       fees |-> quote_subscription(contract, q.pulses, q.frequency,
                                                   q.metadata, 1).fees,
                       deposit |-> quote_subscription(contract, q.pulses, q.frequency,
                                                      q.metadata, 1).deposit]
    PROVE  m \in Quote /\ IsPrice(m)
<1> DEFINE n == q.pulses
           f == q.frequency
           size == q.metadata
           c == calculate_credits(f, n)
<1>1. /\ n \in PulseCounts /\ n \in Nat
      /\ f \in FrequencyChoices /\ f \in Nat
      /\ size \in MetadataSizes /\ size \in Nat
      /\ q.req_ref \in FrequencyChoices \X Blocks
  <2>1. /\ n \in PulseCounts /\ f \in FrequencyChoices /\ size \in MetadataSizes
        /\ q.req_ref \in FrequencyChoices \X Blocks
    BY SMTT(60) DEF Question
  <2>2. \A k \in FrequencyChoices : k \in Nat
    BY ManagerAssumption
  <2> QED BY ZenonT(60), <2>1, <2>2, ManagerAssumption, QueriesAssumption
<1>2. /\ SDMultiplier \in Nat /\ FixedSize \in Nat /\ FixedSize > 0 /\ U64Max \in Nat
  BY FeesAssumption, ManagerAssumption, QueriesAssumption
<1>3. c \in 0..U64Max
  <2>1. SaturatingMul(f, 1) \in 0..U64Max
    BY <1>1, <1>2 DEF SaturatingMul, Lesser
  <2>2. SaturatingAdd(SaturatingMul(f, 1), 1) \in 0..U64Max
    BY SMTT(60), <1>2, <2>1 DEF SaturatingAdd, Lesser
  <2>3. ASSUME NEW k \in 0..U64Max PROVE SaturatingMul(n, k) \in 0..U64Max
    <3>1. n * k \in Nat
      BY <1>1, <1>2
    <3> QED BY SMTT(60), <1>2, <3>1 DEF SaturatingMul, Lesser
  <2> QED BY ZenonT(60), <2>2, <2>3 DEF calculate_credits, get_idle_credits, get_consume_credits
<1>4. calculate_subscription_fees(c) \in Nat
  <2> HIDE DEF c
  <2> QED BY ZenonT(60), <1>3 DEF FeesAreNumbers
<1>5. /\ EncodedSize(NewSubscription(contract, 0, f, size)) = FixedSize + size
      /\ EncodedSize(NewSubscription(contract, c, f, size)) = FixedSize + size
  <2> HIDE DEF c, f, size
  <2>1. /\ EncodedSize(NewSubscription(contract, 0, f, size)) = FixedSize + size + 0
        /\ EncodedSize(NewSubscription(contract, c, f, size)) = FixedSize + size + 0
    BY ZenonT(60) DEF EncodedSize, NewSubscription
  <2>2. FixedSize + size + 0 = FixedSize + size
    BY SMTT(60), <1>1, <1>2
  <2> QED BY ZenonT(60), <2>1, <2>2
<1>6. /\ m.req_ref = q.req_ref /\ m.fees = calculate_subscription_fees(c)
      /\ m.deposit = SDMultiplier * ((FixedSize + size) - 1)
  BY ZenonT(60), <1>5 DEF quote_subscription, calculate_storage_deposit_from_create_params
<1>7. calculate_storage_deposit(NewSubscription(contract, c, f, size)) =
        SDMultiplier * (FixedSize + size)
  BY ZenonT(60), <1>5 DEF calculate_storage_deposit
<1>8. /\ m.deposit \in Nat
      /\ m.deposit + SDMultiplier = SDMultiplier * (FixedSize + size)
  <2>1. PICK k \in Nat : FixedSize + size = k + 1
    <3>1. /\ (FixedSize + size) - 1 \in Nat
          /\ FixedSize + size = ((FixedSize + size) - 1) + 1
      BY ZenonT(60), <1>1, <1>2, OneByteLess
    <3> QED BY ZenonT(60), <3>1
  <2>2. m.deposit = SDMultiplier * k
    BY <1>6, <2>1
  <2>3. SDMultiplier * (k + 1) = SDMultiplier * k + SDMultiplier /\ SDMultiplier * k \in Nat
    BY <1>2
  <2> QED BY ZenonT(60), <2>1, <2>2, <2>3
<1> QED
  <2>1. m \in Quote
    <3>1. m = [req_ref |-> m.req_ref, fees |-> m.fees, deposit |-> m.deposit]
      BY ZenonT(60)
    <3> QED BY ZenonT(60), <1>1, <1>4, <1>6, <1>8, <3>1 DEF Quote
  <2>2. m.req_ref[1] = f
    BY ZenonT(60), <1>6
  <2>3. /\ m.fees = calculate_subscription_fees(calculate_credits(f, n))
        /\ m.deposit + SDMultiplier =
             calculate_storage_deposit(
               NewSubscription(contract, calculate_credits(f, n), f, size))
    BY ZenonT(60), <1>6, <1>7, <1>8
  <2> HIDE DEF n, f, size
  <2> QED BY ZenonT(60), <1>1, <2>1, <2>2, <2>3 DEF IsPrice

(* The IDN takes the first request: it executes it, refuses it or answers. *)
LEMMA TurnIsAnswerable ==
    ASSUME QInv, TypeOK', FeesAreNumbers,
           \/ AnswerQuote
           \/ AnswerInfo
           \/ /\ requests # <<>> /\ Head(requests).call \notin {"quote", "info"}
              /\ ExecuteRequest /\ UNCHANGED queries
           \/ RefuseRequest /\ UNCHANGED queries
    PROVE  QInv'
<1> DEFINE q == Head(requests)
<1>1. /\ TypeOK /\ requests \in Seq(AnyRequest) /\ unsent \in 0..Len(requests)
      /\ pulses \in Seq(AnyMessage) /\ Len(pulses) <= QueueLimit
  BY SMTT(60) DEF QInv, QueueTypes, QueriesTypeOK
<1>2. NextRequest /\ UNCHANGED <<subscription_id, timestamp, round>> /\ UNCHANGED queries
  BY ZenonT(60) DEF AnswerQuote, AnswerInfo, Answer, ExecuteRequest, RefuseRequest, consumer
<1>3. requests # <<>> /\ requests' = Tail(requests)
  BY SMTT(60), <1>1, <1>2 DEF NextRequest
<1>4. /\ q \in AnyRequest /\ q = requests[1] /\ 1 \in DOMAIN requests
      /\ DOMAIN requests' = 1..(Len(requests) - 1)
      /\ \A i \in 1..(Len(requests) - 1) : requests'[i] = requests[i + 1]
      /\ DOMAIN requests = 1..Len(requests) /\ Len(requests) \in Nat
  BY SMTT(60), <1>1, <1>3, TailIs
<1>4a. \A x : Expected(x)' => Expected(x)
  BY SMTT(60), <1>4 DEF Expected
<1>5. ASSUME ExecuteRequest, q.call \notin {"quote", "info"}
      PROVE  QInv'
  <2>1. Transact(q) /\ (q.call = "update" => InStorage(q.id)) /\ UNCHANGED pulses
    BY ZenonT(60), <1>5 DEF ExecuteRequest
  <2>2. Callable(q)
    BY SMTT(60), <1>4, <1>5, AnyRequestFields
  <2>3. /\ UNCHANGED <<phase, todo>>
        /\ \/ OnlyUsesUp
           \/ /\ q.call = "create"
              /\ DOMAIN Subscriptions' = DOMAIN Subscriptions \cup {q.id}
              /\ \A x \in DOMAIN Subscriptions : Subscriptions'[x] = Subscriptions[x]
    <3> HIDE DEF q
    <3> QED BY ZenonT(60), <1>1, <2>1, <2>2, RequestRuns
  <2> QED BY ZenonT(60), <1>1, <1>2, <2>1, <2>3, TurnKeeps
<1>6. ASSUME UNCHANGED vars
      PROVE  OnlyUsesUp /\ UNCHANGED <<Subscriptions, phase, todo>>
  BY SMTT(60), <1>1, <1>6, SameUsesUp DEF vars
<1>7. CASE RefuseRequest
  <2>1. UNCHANGED vars /\ UNCHANGED pulses
    BY SMTT(60), <1>7 DEF RefuseRequest
  <2> QED BY ZenonT(60), <1>1, <1>2, <1>6, <2>1, TurnKeeps
<1>8. ASSUME NEW m \in AnyMessage, Answer(m), "fees" \in DOMAIN m => IsPrice(m),
             "size" \in DOMAIN m => Bounds(m)'
      PROVE  QInv'
  <2>1. UNCHANGED vars /\ pulses' = Append(pulses, m) /\ Len(pulses) < QueueLimit
    BY SMTT(60), <1>8 DEF Answer
  <2>2. /\ Len(pulses) \in Nat /\ DOMAIN pulses = 1..Len(pulses)
        /\ pulses' \in Seq(AnyMessage) /\ Len(pulses') = Len(pulses) + 1
        /\ DOMAIN pulses' = 1..(Len(pulses) + 1)
        /\ \A i \in 1..Len(pulses) : pulses'[i] = pulses[i]
        /\ pulses'[Len(pulses) + 1] = m
    BY SMTT(60), <1>1, <2>1, AppendIs
  <2>3. Len(pulses') <= QueueLimit
    BY SMTT(60), <2>1, <2>2, ConsumerAssumption
  <2>4. ASSUME NEW i \in DOMAIN pulses'
        PROVE  (\E j \in DOMAIN pulses : pulses'[i] = pulses[j]) \/ pulses'[i] = m
    BY SMTT(60), <2>2
  <2>5. ASSUME NEW i \in DOMAIN pulses', pulses'[i] = m, "size" \in DOMAIN m
        PROVE  Bounds(pulses[i])'
    <3>1. Bounds(m)'
      BY SMTT(60), <1>8, <2>5
    <3> QED BY SMTT(60), <2>5, <3>1 DEF Bounds, Expected, InStorage
  <2> QED BY ZenonT(60), <1>2, <1>6, <1>8, <2>1, <2>2, <2>3, <2>4, <2>5, TurnKeeps
<1>9. CASE AnswerQuote
  <2>1. PICK m : /\ Answer(m)
                 /\ m = [req_ref |-> q.req_ref,
                         fees |-> quote_subscription(contract, q.pulses, q.frequency,
                                                     q.metadata, 1).fees,
                         deposit |-> quote_subscription(contract, q.pulses, q.frequency,
                                                        q.metadata, 1).deposit]
    BY ZenonT(60), <1>9 DEF AnswerQuote
  <2>2. q.call = "quote" /\ q \in Question
    BY ZenonT(60), <1>4, <1>9, AnyRequestFields DEF AnswerQuote
  <2>3. q.req_ref[1] = q.frequency
    BY ZenonT(60), <1>4, <2>2 DEF QInv, Priced
  <2>4. "size" \notin DOMAIN m
    BY ZenonT(60), <2>1
  <2> HIDE DEF q
  <2>5. m \in Quote /\ IsPrice(m)
    BY ZenonT(60), <2>1, <2>2, <2>3, QuoteIsPrice
  <2> QED BY ZenonT(60), <1>8, <2>1, <2>4, <2>5 DEF AnyMessage
<1>10. CASE AnswerInfo
  <2>1. /\ q.call = "info" /\ InStorage(q.id)
        /\ Answer([req_ref |-> q.req_ref, id |-> q.id,
                   credits_left |-> Subscriptions[q.id].credits_left,
                   expects |-> q.expects, size |-> EncodedSize(Subscriptions[q.id])])
    BY ZenonT(60), <1>10 DEF AnswerInfo, get_subscription_info
  <2>2. PICK m : /\ Answer(m)
                 /\ m = [req_ref |-> q.req_ref, id |-> q.id,
                         credits_left |-> Subscriptions[q.id].credits_left,
                         expects |-> q.expects,
                         size |-> EncodedSize(Subscriptions[q.id])]
    BY ZenonT(60), <2>1
  <2>3. q \in InfoQuestion
    BY ZenonT(60), <1>4, <2>1, AnyRequestFields
  <2>4. /\ Subscriptions[q.id] \in Subscription
        /\ Subscriptions[q.id].credits_left \in 0..U64Max
        /\ Subscriptions[q.id].credits_left \in Nat
    <3>1. Subscriptions[q.id] \in Subscription
      BY SMTT(60), <1>1, <2>1 DEF TypeOK, InStorage
    <3> QED BY SMTT(60), <3>1, CreditsLeft
  <2>5. EncodedSize(Subscriptions[q.id]) \in Nat
    <3>1. Subscriptions[q.id].metadata \in Nat
      BY ZenonT(60), <2>4, ManagerAssumption DEF Subscription
    <3> QED BY SMTT(60), <3>1, ManagerAssumption DEF EncodedSize
  <2>6. m \in InfoAnswer
    BY ZenonT(60), <2>2, <2>3, <2>4, <2>5 DEF InfoAnswer, InfoQuestion
  <2>7. /\ m.id = q.id /\ m.credits_left = Subscriptions[q.id].credits_left
        /\ m.id \in SubIds
    BY ZenonT(60), <2>2, <2>3 DEF InfoQuestion
  <2>8. "fees" \notin DOMAIN m
    BY ZenonT(60), <2>2
  <2>9. UNCHANGED <<Subscriptions, lives>>
    BY ZenonT(60), <1>2, <2>2 DEF Answer, vars, queries
  <2>10. Expected(m.id)' => Expected(m.id)
    BY ZenonT(60), <1>4a
  <2>11. Bounds(m)'
    <3>1. lives[m.id] # 0 /\ (lives[m.id] = 1 => ~Expected(m.id))
      BY ZenonT(60), <2>1, <2>7 DEF QInv, Informed, Counted
    <3> QED BY <2>4, <2>7, <2>9, <2>10, <3>1 DEF Bounds
  <2> QED BY ZenonT(60), <1>8, <2>2, <2>6, <2>8, <2>11 DEF AnyMessage
<1> QED BY SMTT(60), <1>5, <1>7, <1>9, <1>10

(* The IDN by itself uses credits up; a delivery joins the answers. *)
LEMMA ServiceIsAnswerable ==
    ASSUME QInv, TypeOK', DispatchPulse \/ (\E id \in SubIds : Deliver(id)) \/ IdnStep,
           UNCHANGED queries
    PROVE  QInv'
<1>1. /\ TypeOK /\ round \in 0..LastRound
      /\ pulses \in Seq(AnyMessage) /\ Len(pulses) <= QueueLimit
  BY SMTT(60) DEF QInv, QueueTypes, QueriesTypeOK
<1>2. UNCHANGED <<subscription_id, timestamp, requests, unsent, lives,
                  quote_history, sub_info_history>>
  BY ZenonT(60) DEF DispatchPulse, Deliver, IdnStep, consumer, network, queries
<1>3. ASSUME OnlyUsesUp, round' \in 0..LastRound,
             phase' = "execute" /\ todo' # {} => round' > 0,
             pulses' \in Seq(AnyMessage), Len(pulses') <= QueueLimit,
             \A i \in DOMAIN pulses' :
               \/ \E j \in DOMAIN pulses : pulses'[i] = pulses[j]
               \/ "fees" \notin DOMAIN pulses'[i] /\ "size" \notin DOMAIN pulses'[i]
      PROVE  QInv'
  <2>1. QueueTypes' /\ QueriesTypeOK'
    BY ZenonT(60), <1>2, <1>3 DEF QInv, QueueTypes, QueriesTypeOK
  <2>2. Priced'
    BY ZenonT(60), <1>2, <1>3, PricedKept DEF QInv
  <2>3. \A id \in SubIds : Expected(id)' <=> Expected(id)
    BY ZenonT(60), <1>2 DEF Expected
  <2>4. \A id \in SubIds : InStorage(id)' =>
          /\ InStorage(id)
          /\ Subscriptions'[id].credits_left <= Subscriptions[id].credits_left
    BY ZenonT(60), <1>3 DEF OnlyUsesUp, InStorage
  <2>5. Counted'
    <3>1. \A i, j \in DOMAIN requests' :
            /\ requests'[i].call = "create" /\ requests'[j].call = "create"
            /\ requests'[i].id = requests'[j].id
            /\ lives'[requests'[i].id] = 1
            => i = j
      BY ZenonT(60), <1>2 DEF QInv, Informed, Counted
    <3>2. \A id \in SubIds :
            /\ lives'[id] = 0 => ~InStorage(id)' /\ ~Expected(id)'
            /\ lives'[id] = 1 => ~(InStorage(id)' /\ Expected(id)')
      BY ZenonT(60), <1>2, <2>3, <2>4 DEF QInv, Informed, Counted
    <3> QED BY ZenonT(60), <3>1, <3>2 DEF Counted
  <2>6. NoneRevived
    BY ZenonT(60), <1>2, <2>3, <2>4 DEF NoneRevived
  <2>7. Informed'
    BY ZenonT(60), <1>2, <1>3, <2>5, <2>6, InformedKept
  <2> QED BY ZenonT(60), <1>3, <2>1, <2>2, <2>7 DEF QInv
<1>4. CASE DispatchPulse
  <2>1. /\ round < LastRound /\ round' = round + 1 /\ dispatch
        /\ UNCHANGED <<pulses, Subscriptions>>
    BY ZenonT(60), <1>4 DEF DispatchPulse, dispatch, network
  <2>2. round' \in 0..LastRound /\ round' > 0
    BY SMTT(60), <1>1, <2>1, ConsumerAssumption
  <2> QED BY SMTT(60), <1>1, <1>3, <2>1, <2>2, SameUsesUp
<1>5. ASSUME NEW id \in SubIds, Deliver(id)
      PROVE  QInv'
  <2> DEFINE p == [round |-> round, id |-> id]
  <2>1. /\ DeliverPulse(id) /\ pulses' = Append(pulses, p) /\ round' = round
        /\ Len(pulses) < QueueLimit
    BY <1>5 DEF Deliver
  <2>2. phase = "execute" /\ id \in todo
    BY SMTT(60), <2>1 DEF DeliverPulse, Distributing
  <2>3. round > 0
    BY SMTT(60), <2>2 DEF QInv, QueueTypes
  <2>4. OnlyUsesUp
    BY SMTT(60), <1>1, <2>1, BlockStepUsesUp DEF BlockStep, Distribute
  <2>5. p \in AnyMessage /\ "fees" \notin DOMAIN p /\ "size" \notin DOMAIN p
    <3>1. round \in 1..LastRound
      BY SMTT(60), <1>1, <2>3, ConsumerAssumption
    <3>2. p \in [round : 1..LastRound, id : SubIds] /\ DOMAIN p = {"round", "id"}
      BY SMTT(60), <3>1
    <3> HIDE DEF p
    <3> QED BY ZenonT(60), <3>2 DEF AnyMessage
  <2> HIDE DEF p
  <2>6. /\ Len(pulses) \in Nat /\ DOMAIN pulses = 1..Len(pulses)
        /\ pulses' \in Seq(AnyMessage) /\ Len(pulses') = Len(pulses) + 1
        /\ DOMAIN pulses' = 1..(Len(pulses) + 1)
        /\ \A i \in 1..Len(pulses) : pulses'[i] = pulses[i]
        /\ pulses'[Len(pulses) + 1] = p
    BY <1>1, <2>1, <2>5, AppendIs
  <2>7. \A i \in DOMAIN pulses' : (\E j \in DOMAIN pulses : pulses'[i] = pulses[j])
                                    \/ pulses'[i] = p
    BY <2>6
  <2>8. Len(pulses') <= QueueLimit
    BY SMTT(60), <2>1, <2>6, ConsumerAssumption
  <2> QED BY SMTT(60), <1>1, <1>3, <2>1, <2>3, <2>4, <2>5, <2>6, <2>7, <2>8
<1>6. CASE IdnStep
  <2>1. BlockStep /\ UNCHANGED <<pulses, round>>
    BY SMTT(60), <1>6 DEF IdnStep, BlockStep, Distribute, network
  <2>2. OnlyUsesUp /\ LoopGoesOn
    BY SMTT(60), <1>1, <2>1, BlockStepUsesUp
  <2>3. phase' = "execute" /\ todo' # {} => round' > 0
    BY SMTT(60), <2>1, <2>2 DEF LoopGoesOn, QInv, QueueTypes
  <2> QED BY ZenonT(60), <1>1, <1>3, <2>1, <2>2, <2>3
<1> QED BY SMTT(60), <1>4, <1>5, <1>6

(* The invariant holds in every initial state. *)
LEMMA AnswersStartSound ==
    ASSUME QueriesInit, TypeOK
    PROVE  QInv
<1>1. /\ DOMAIN Subscriptions = {} /\ todo = {}
      /\ requests = <<>> /\ pulses = <<>> /\ unsent = 0 /\ round = 0
      /\ timestamp = 1 /\ subscription_id = None
      /\ quote_history = <<>> /\ sub_info_history = <<>>
      /\ lives = [id \in SubIds |-> 0]
  BY ZenonT(60) DEF QueriesInit, ConsumerInit, Init
<1>2. QueueTypes
  BY SMTT(60), <1>1, ConsumerAssumption DEF QueueTypes, Blocks
<1>3. QueriesTypeOK
  BY SMTT(60), <1>1, ConsumerAssumption DEF QueriesTypeOK
<1>4. Priced /\ Informed
  BY <1>1 DEF Priced, Informed, Counted, Expected, InStorage
<1> QED BY SMTT(60), <1>2, <1>3, <1>4 DEF QInv

(* Every step keeps it, if the manager keeps its type. *)
LEMMA AnswersStepIsSound ==
    ASSUME QInv, TypeOK', FeesAreNumbers, [QueriesNext]_everything
    PROVE  QInv'
<1>1. timestamp \in Blocks /\ unsent \in 0..Len(requests) /\ 0 \in 0..Len(requests)
  BY SMTT(60) DEF QInv, QueueTypes
<1>2. CASE UNCHANGED everything
  BY SMTT(60), <1>1, <1>2, QuietIsAnswerable DEF everything, world, consumer, network
<1>3. ASSUME add_authorized_deliverer \/ remove_authorized_deliverer, UNCHANGED queries
      PROVE  QInv'
  BY SMTT(60), <1>1, <1>3, QuietIsAnswerable
     DEF add_authorized_deliverer, remove_authorized_deliverer, network
<1>4. ASSUME NextTimestamp, UNCHANGED queries
      PROVE  QInv'
  <2>1. timestamp' \in Blocks
    BY SMTT(60), <1>1, <1>4, ConsumerAssumption DEF NextTimestamp, Blocks
  <2> QED BY SMTT(60), <1>1, <1>4, <2>1, QuietIsAnswerable DEF NextTimestamp
<1>5. ASSUME ServiceStep
      PROVE  QInv'
  BY SMTT(60), <1>3, <1>4, <1>5, OwnerIsAnswerable, ReceiptIsAnswerable, TurnIsAnswerable,
     ServiceIsAnswerable DEF ServiceStep
<1>6. ASSUME QueriesNext, ~ServiceStep
      PROVE  QInv'
  BY SMTT(60), <1>6, OwnerIsAnswerable, ReceiptIsAnswerable, TurnIsAnswerable DEF QueriesNext
<1> QED BY SMTT(60), <1>2, <1>5, <1>6

(* Every step of the contract, the network and the IDN is one of the       *)
(* manager's, or leaves all it has alone.                                  *)
LEMMA AnswersStepIsServed ==
    ASSUME QInv, [QueriesNext]_everything
    PROVE  Served
<1>1. TypeOK /\ requests \in Seq(AnyRequest) /\ unsent \in 0..Len(requests)
  BY DEF QInv, QueueTypes
<1>2. ASSUME UNCHANGED vars PROVE Served
  BY ZenonT(60), <1>2 DEF Served
<1>3. ASSUME Next PROVE Served
  BY ZenonT(60), <1>3 DEF Served
<1>4. ASSUME ExecuteRequest, Head(requests).call \notin {"quote", "info"}
      PROVE  Served
  <2>1. /\ Len(requests) > unsent /\ Transact(Head(requests))
        /\ Head(requests).call = "update" => InStorage(Head(requests).id)
    BY ZenonT(60), <1>4 DEF ExecuteRequest, NextRequest
  <2>2. requests # <<>>
    BY <1>1, <2>1
  <2>3. PICK q \in AnyRequest : q = Head(requests)
    BY <1>1, <2>2
  <2>4. Callable(q)
    BY ZenonT(60), <1>4, <2>3, AnyRequestFields
  <2> QED BY ZenonT(60), <1>1, <2>1, <2>3, <2>4, RequestIsCall
<1>5. ASSUME DispatchPulse \/ (\E id \in SubIds : Deliver(id)) \/ IdnStep
      PROVE  Next
  BY ZenonT(60), <1>5 DEF DispatchPulse, Deliver, IdnStep, Next, BlockStep, Distribute
<1>6. CASE ServiceStep
  <2>1. ASSUME \/ \E c \in UpdateCredits, f \in FrequencyChoices : owner_update(c, f)
               \/ owner_pause \/ owner_reactivate \/ owner_kill
               \/ add_authorized_deliverer \/ remove_authorized_deliverer
        PROVE  UNCHANGED vars
    BY ZenonT(60), <2>1 DEF owner_update, owner_pause, owner_reactivate, owner_kill,
         add_authorized_deliverer, remove_authorized_deliverer, xcm_send
  <2>2. ASSUME NextTimestamp \/ consume_pulse \/ LosePulse \/ RefuseRequest
        PROVE  UNCHANGED vars
    BY ZenonT(60), <2>2 DEF NextTimestamp, consume_pulse, LosePulse, RefuseRequest
  <2> QED BY ZenonT(60), <1>2, <1>3, <1>4, <1>5, <1>6, <2>1, <2>2 DEF ServiceStep
<1>7. ASSUME \/ \E n \in PulseCounts, f \in FrequencyChoices, m \in MetadataSizes :
                  owner_request_quote(n, f, m)
             \/ \E m \in InfoMetadata : owner_request_sub_info(m)
             \/ CreateStep
      PROVE  UNCHANGED vars
  BY ZenonT(60), <1>7 DEF owner_request_quote, request_quote, owner_request_sub_info,
       request_sub_info, CreateStep, owner_create, xcm_send
<1>8. ASSUME AnswerQuote \/ AnswerInfo \/ consume_quote \/ consume_sub_info
      PROVE  UNCHANGED vars
  BY ZenonT(60), <1>8 DEF AnswerQuote, AnswerInfo, Answer, consume_quote,
       consume_sub_info, Receives
<1>9. CASE UNCHANGED everything
  BY ZenonT(60), <1>2, <1>9 DEF everything, world
<1> QED BY ZenonT(60), <1>2, <1>6, <1>7, <1>8, <1>9 DEF QueriesNext
=============================================================================
