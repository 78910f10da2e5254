------------------------- MODULE CompositionProofs --------------------------
(***************************************************************************)
(* The manager among the parts it works with.  A contract on another chain *)
(* (ExampleConsumer, ContractQueries) and the runtime with its beacon      *)
(* (IdnRuntime) call it only as its specification says, so that what       *)
(* IdnManagerProofs proves holds in them; and with the manager's invariant *)
(* the lemmas of ContractProofs and QueriesProofs become theorems.         *)
(***************************************************************************)
EXTENDS IdnRuntime, QueriesProofs, IdnManagerProofs

-----------------------------------------------------------------------------
(* A contract and the manager.                                             *)

(* The manager and the contract keep their invariants together. *)
LEMMA ContractStaysSound == ConsumerSpec => [](IInv /\ CInv)
<1>1. ConsumerInit => IInv /\ CInv
  <2> SUFFICES ASSUME ConsumerInit PROVE IInv /\ CInv
    OBVIOUS
  <2>1. IInv
    BY ZenonT(60), InitEstablishes DEF ConsumerInit
  <2>2. TypeOK
    BY ZenonT(60), <2>1 DEF IInv
  <2> QED BY ZenonT(60), <2>1, <2>2, ContractStartsSound
<1>2. IInv /\ CInv /\ [ConsumerNext]_world => IInv' /\ CInv'
  <2> SUFFICES ASSUME IInv, CInv, [ConsumerNext]_world PROVE IInv' /\ CInv'
    BY ZenonT(60)
  <2>1. IInv'
    BY ZenonT(60), ContractStepIsServed, StepPreserves
  <2>2. TypeOK'
    BY ZenonT(60), <2>1 DEF IInv
  <2> QED BY ZenonT(60), <2>1, <2>2, ContractStepIsSound
<1> QED BY <1>1, <1>2, PTL DEF ConsumerSpec

(* A contract's requests, executed from the queue in another block than    *)
(* they were made, are calls the manager's specification allows: the       *)
(* contract and its chain implement the manager's environment (Transact).  *)
THEOREM ContractImplementsManager == ConsumerSpec => Spec
<1>1. ConsumerInit => Init
  BY ZenonT(60) DEF ConsumerInit
<1>2. IInv /\ CInv /\ [ConsumerNext]_world => [Next]_vars
  BY ZenonT(60), ContractStepIsServed
<1> QED BY <1>1, <1>2, ContractStaysSound, PTL DEF ConsumerSpec, Spec

(* Every queue, history and variable of the two chains keeps its type, and *)
(* the history of randomness stays within MAX_HISTORY_SIZE                 *)
(* (consume_pulse).                                                        *)
THEOREM ContractIsTyped == ConsumerSpec => []ConsumerTypeOK
<1>1. CInv => ConsumerTypeOK
  BY ZenonT(60) DEF CInv
<1> QED BY <1>1, ContractStaysSound, PTL

(* The randomness a contract remembers is in the order of the beacon and   *)
(* no round is in it twice, for any number of kills, re-creations, failed  *)
(* requests and lost pulses (consume_pulse).                               *)
THEOREM HistoryStaysInOrder == ConsumerSpec => []HistoryInOrder
<1>1. CInv => HistoryInOrder
  BY ZenonT(60) DEF CInv, Ordered
<1> QED BY <1>1, ContractStaysSound, PTL

(* A stored subscription is known to the contract, or its kill is under    *)
(* way or was refused (create_subscription, kill_subscription).            *)
THEOREM NoSubscriptionForgotten == ConsumerSpec => []NoneForgotten
<1>1. CInv => NoneForgotten
  <2> SUFFICES ASSUME CInv, NEW id \in DOMAIN Subscriptions
               PROVE  \/ id = subscription_id
                      \/ id \in failed
                      \/ \E i \in DOMAIN requests : requests[i].call = "kill" /\ requests[i].id = id
    BY ZenonT(60) DEF NoneForgotten
  <2> QED BY ZenonT(60) DEF CInv, Tracked, KnownAfter
<1> QED BY <1>1, ContractStaysSound, PTL

-----------------------------------------------------------------------------
(* A contract that asks for quotes and for its subscription, and may       *)
(* change the number of its credits to what it computes.                   *)

(* Whatever the contract's requests do, the manager keeps its invariant.   *)
LEMMA ServiceKeepsManager ==
    ASSUME IInv, Served
    PROVE  IInv'
<1>1. CASE [Next]_vars
  BY ZenonT(60), <1>1, StepPreserves
<1>2. ASSUME NEW id \in SubIds, NEW c \in 0..U64Max, NEW f \in FrequencyChoices,
             NEW m \in MetadataSizes, update_subscription(contract, id, c, f, m)
      PROVE  IInv'
  <2>1. f \in Frequencies /\ contract \in Accounts
    BY ZenonT(60), ManagerAssumption, ConsumerAssumption DEF Frequencies
  <2> QED BY ZenonT(60), <1>2, <2>1, UpdatePreserves
<1> QED BY ZenonT(60), <1>1, <1>2 DEF Served

(* The manager and the contract's answers keep their invariants together. *)
LEMMA AnswersStaySound == QueriesSpec => [](IInv /\ QInv)
<1>0. FeesAreNumbers
  <2>1. \A k \in 0..U64Max : k \in Nat
    BY FeesAssumption
  <2> QED BY ZenonT(60), <2>1, FeesType DEF FeesAreNumbers
<1>1. QueriesInit => IInv /\ QInv
  <2> SUFFICES ASSUME QueriesInit PROVE IInv /\ QInv
    OBVIOUS
  <2>1. IInv
    BY ZenonT(60), InitEstablishes DEF QueriesInit, ConsumerInit
  <2>2. TypeOK
    BY ZenonT(60), <2>1 DEF IInv
  <2> QED BY ZenonT(60), <2>1, <2>2, AnswersStartSound
<1>2. IInv /\ QInv /\ [QueriesNext]_everything => IInv' /\ QInv'
  <2> SUFFICES ASSUME IInv, QInv, [QueriesNext]_everything PROVE IInv' /\ QInv'
    BY ZenonT(60)
  <2>1. IInv'
    BY ZenonT(60), AnswersStepIsServed, ServiceKeepsManager
  <2>2. TypeOK'
    BY ZenonT(60), <2>1 DEF IInv
  <2> QED BY ZenonT(60), <1>0, <2>1, <2>2, AnswersStepIsSound
<1> QED BY <1>1, <1>2, PTL DEF QueriesSpec

(* Also when a contract sets its credits to any u64, no account's money is *)
(* created or destroyed, SubCounter is the number of stored subscriptions, *)
(* and no subscription is sent more pulses than the credits it was created *)
(* with (update_subscription, distribute).                                 *)
THEOREM ContractsAreSafe ==
    QueriesSpec => [](MoneyConserved /\ CounterMatchesStorage /\ DeliveriesBounded)
<1>1. IInv => MoneyConserved
  BY ZenonT(60) DEF IInv, AllSound, Sound, MoneyConserved
<1>2. IInv => CounterMatchesStorage /\ DeliveriesBounded
  BY ZenonT(60) DEF IInv, AllWithinGrant, WithinGrant, DeliveriesBounded
<1> QED BY <1>1, <1>2, AnswersStaySound, PTL

(* What the contract keeps are answers, its histories stay within          *)
(* MAX_HISTORY_SIZE and the queues within their limit (consume_quote,      *)
(* consume_sub_info).                                                      *)
THEOREM QueriesAreTyped == QueriesSpec => []QueriesTypeOK
<1>1. QInv => QueriesTypeOK
  BY ZenonT(60) DEF QInv
<1> QED BY <1>1, AnswersStaySound, PTL

(* Every quote the contract holds is the price of what it asked for, up to *)
(* the one byte of the callback (request_quote, quote_subscription).       *)
THEOREM QuotesAreThePrice == QueriesSpec => []QuoteIsThePrice
<1>1. QInv => QuoteIsThePrice
  BY ZenonT(60) DEF QInv, Priced, IsPrice, QuoteIsThePrice
<1> QED BY <1>1, AnswersStaySound, PTL

(* What the contract knows of a subscription is never less than the        *)
(* credits it has left, however late the answer (consume_sub_info).        *)
THEOREM InfoStaysUpperBound == QueriesSpec => []InfoIsUpperBound
<1>1. QInv => InfoIsUpperBound
  BY ZenonT(60) DEF QInv, Informed, Bounds, InfoIsUpperBound
<1> QED BY <1>1, AnswersStaySound, PTL

-----------------------------------------------------------------------------
(* The runtime and the manager.                                            *)

(* try_submit_asig starts a distribution exactly when it accepts a packet, *)
(* and DidUpdate was not set then; otherwise the manager is left alone.    *)
LEMMA SubmissionIsDispatch ==
    ASSUME NEW tx, SubmitAsig(tx)
    PROVE  dispatch \/ UNCHANGED vars
<1>1. CASE B!validate_unsigned(tx, NextRound) /\ B!Acceptable(tx)
  <2>1. ~DidUpdate
    BY ZenonT(60), <1>1 DEF B!Acceptable
  <2>2. B!Accept(tx)
    BY ZenonT(60), <1>1 DEF SubmitAsig, B!try_submit_asig
  <2>3. DidUpdate' = TRUE
    BY ZenonT(60), <2>2 DEF B!Accept
  <2>4. todo' = DOMAIN Subscriptions
    BY ZenonT(60), <1>1 DEF SubmitAsig
  <2> QED BY ZenonT(60), <2>1, <2>3, <2>4 DEF SubmitAsig, dispatch
<1>2. CASE ~(B!validate_unsigned(tx, NextRound) /\ B!Acceptable(tx))
  <2>1. UNCHANGED B!storage
    BY ZenonT(60), <1>2 DEF SubmitAsig, B!try_submit_asig
  <2>2. DidUpdate' = DidUpdate
    BY ZenonT(60), <2>1 DEF B!storage
  <2>3. todo' = todo
    BY ZenonT(60), <1>2 DEF SubmitAsig
  <2> QED BY ZenonT(60), <2>2, <2>3 DEF SubmitAsig, vars
<1> QED BY ZenonT(60), <1>1, <1>2

(* The steps of the nodes and a change of the beacon's key do not touch    *)
(* the manager or DidUpdate.                                               *)
LEMMA BeaconStepsStutter ==
    NodeStep \/ (\E pk \in Keys : SetBeaconConfig(pk)) => UNCHANGED vars
<1>1. ASSUME NodeStep PROVE UNCHANGED vars
  <2>1. UNCHANGED B!storage
    BY ZenonT(60), <1>1 DEF NodeStep, B!SubmitLocal, B!BeginBlock
  <2> QED BY ZenonT(60), <1>1, <2>1 DEF NodeStep, manager, vars, B!storage
<1>2. ASSUME NEW pk \in Keys, SetBeaconConfig(pk) PROVE UNCHANGED vars
  BY ZenonT(60), <1>2 DEF SetBeaconConfig, B!set_beacon_config, manager, vars
<1> QED BY ZenonT(60), <1>1, <1>2

(* Every step of the runtime is a step of the manager or leaves it alone.  *)
LEMMA RuntimeStepIsManagerStep ==
    [RuntimeNext]_runtimeVars => [Next]_vars
<1> SUFFICES ASSUME [RuntimeNext]_runtimeVars
             PROVE  Next \/ UNCHANGED vars
  OBVIOUS
<1>1. CASE NodeStep \/ \E pk \in Keys : SetBeaconConfig(pk)
  BY ZenonT(60), <1>1, BeaconStepsStutter
<1>2. CASE author # Nil /\ \E tx \in pool[author] : SubmitAsig(tx)
  BY <1>2, SubmissionIsDispatch, Zenon DEF Next
<1>3. CASE \E id \in SubIds : Hear(id)
  BY <1>3, Zenon DEF Hear, Next, BlockStep, Distribute
<1>4. CASE ManagerStep
  BY <1>4, Zenon DEF ManagerStep, Next, BlockStep, Distribute
<1>5. CASE EndBlock
  BY <1>5, Zenon DEF EndBlock, Next, BlockStep
<1>6. CASE UNCHANGED runtimeVars
  BY ZenonT(60), <1>6 DEF runtimeVars
<1> QED BY ZenonT(60), <1>1, <1>2, <1>3, <1>4, <1>5, <1>6 DEF RuntimeNext

(* The runtime implements the manager's specification: with the beacon's   *)
(* try_submit_asig as the only caller of dispatch, and DidUpdate taken in  *)
(* the beacon's on_finalize, the manager's environment is as assumed.      *)
THEOREM RuntimeImplementsManager == RuntimeSpec => ManagerAsSpecified
<1>1. RuntimeInit => Init
  BY DEF RuntimeInit
<1> QED BY <1>1, RuntimeStepIsManagerStep, PTL DEF RuntimeSpec, ManagerAsSpecified, Spec

(* In the runtime as a whole no account's money is created or destroyed,   *)
(* SubCounter is the number of stored subscriptions, and no subscription   *)
(* is sent more pulses than the credits it was created with, whatever the  *)
(* authors' pools bring (distribute, terminate_subscription).              *)
THEOREM RuntimeIsSafe ==
    RuntimeSpec => [](MoneyConserved /\ CounterMatchesStorage /\ DeliveriesBounded)
<1>1. RuntimeSpec => Spec
  BY ZenonT(60), RuntimeImplementsManager DEF ManagerAsSpecified
<1> QED BY <1>1, MoneyIsConserved, CounterIsExact, DeliveriesAreBounded, PTL

-----------------------------------------------------------------------------
(* What makes the rounds of a subscriber advance: nothing was heard of     *)
(* NextRound or later, and while distribute has a subscription before it,  *)
(* nothing of the packet accepted last.                                    *)

BeaconTypes ==
    /\ NextRound \in 0..U64Max
    /\ SparseAccumulation \in B!Accumulation \union {Nil}
    /\ author \in Authors \union {Nil}
    /\ pool \in [Authors -> SUBSET B!Extrinsic]

HInv ==
    /\ BeaconTypes
    /\ heard \in [SubIds -> Int]
    /\ SparseAccumulation # Nil =>
         /\ SparseAccumulation.start <= SparseAccumulation.end
         /\ NextRound = SparseAccumulation.end + 1
    /\ \A id \in SubIds : heard[id] < NextRound
    /\ phase = "execute" =>
         \A id \in todo : /\ SparseAccumulation # Nil
                          /\ heard[id] < SparseAccumulation.start

(* The runtime starts with nothing heard.                                  *)
LEMMA NothingHeardFirst == RuntimeInit => HInv
<1> SUFFICES ASSUME RuntimeInit PROVE HInv
  OBVIOUS
<1>1. 0 \in 0..U64Max
  BY FeesAssumption
<1>2. BeaconTypes
  BY ZenonT(60), <1>1 DEF RuntimeInit, B!Init, BeaconTypes
<1>3. todo = {} /\ heard = [id \in SubIds |-> -1] /\ NextRound = 0
  BY DEF RuntimeInit, Init, B!Init, NotHeard
<1>4. SparseAccumulation = Nil
  BY ZenonT(60) DEF RuntimeInit, B!Init
<1> QED BY <1>2, <1>3, <1>4 DEF HInv

(* A packet that try_submit_asig accepts begins at NextRound or later, and *)
(* NextRound moves past its end.                                           *)
LEMMA PacketIsFresh ==
    ASSUME BeaconTypes, NEW tx \in B!Extrinsic,
           B!validate_unsigned(tx, NextRound), B!Acceptable(tx), B!Accept(tx)
    PROVE  /\ tx.start \in B!Rounds /\ tx.end \in B!Rounds
           /\ NextRound <= tx.start
           /\ tx.start <= tx.end
           /\ NextRound' = tx.end + 1
           /\ NextRound' \in 0..U64Max
           /\ SparseAccumulation' \in B!Accumulation
           /\ SparseAccumulation'.start = tx.start
           /\ SparseAccumulation'.end = tx.end
<1>1. /\ tx.start \in 0..FinalRound /\ tx.end \in 0..FinalRound
      /\ tx.key \in Keys
  BY DEF B!Extrinsic, B!Rounds
<1>2. U64Max \in Nat /\ FinalRound \in Nat /\ FinalRound < U64Max
  BY ZenonT(60), RuntimeAssumption DEF B!BeaconAssumption
<1>3. tx.start >= NextRound
  BY DEF B!validate_unsigned
<1>4. tx.start <= tx.end
  BY <1>1, <1>2 DEF B!Acceptable, B!SaturatingSub
<1>5. NextRound' = tx.end + 1
  BY <1>1, <1>2 DEF B!Accept, B!SaturatingAdd, B!Lesser
<1>6. SparseAccumulation' = [start |-> tx.start, end |-> tx.end, key |-> tx.key]
  BY ZenonT(60) DEF B!Accept
<1> QED BY <1>1, <1>2, <1>3, <1>4, <1>5, <1>6 DEF B!Accumulation, B!Rounds, BeaconTypes

(* A step that sends no pulse puts no subscription before distribute, and  *)
(* counts no pulse.                                                        *)
LEMMA OtherStepsAreQuiet ==
    ASSUME TypeOK, ManagerStep
    PROVE  /\ UNCHANGED <<beacon, heard>>
           /\ phase' = "execute" => phase = "execute" /\ todo' \subseteq todo
           /\ \A id \in SubIds : ~(received'[id] > received[id])
<1> DEFINE Goal == /\ phase' = "execute" => phase = "execute" /\ todo' \subseteq todo
                   /\ \A id \in SubIds : ~(received'[id] > received[id])
<1>0. received \in [SubIds -> Nat]
  BY DEF TypeOK
<1>1. ASSUME UNCHANGED received PROVE \A id \in SubIds : ~(received'[id] > received[id])
  BY <1>0, <1>1
<1>2. ASSUME NEW id \in SubIds, received' = [received EXCEPT ![id] = 0]
      PROVE  \A x \in SubIds : ~(received'[x] > received[x])
  BY <1>0, <1>2
<1>3. ASSUME NEW a \in Accounts, NEW id \in SubIds, Call(a, id)
      PROVE  Goal
  <2>1. /\ UNCHANGED <<phase, todo>>
        /\ UNCHANGED received \/ received' = [received EXCEPT ![id] = 0]
    BY ZenonT(60), <1>3 DEF Call, create_subscription, pause_subscription, SetState,
         kill_subscription, Remove, update_subscription, reactivate_subscription
  <2> QED BY ZenonT(60), <2>1, <1>1, <1>2
<1>4. ASSUME NEW id \in SubIds, PauseUnpaid(id) \/ PauseUnsent(id) \/ IdlePulse(id)
      PROVE  Goal
  BY ZenonT(60), <1>4, <1>1 DEF PauseUnpaid, PauseUnsent, IdlePulse, Distributing
<1>5. ASSUME on_finalize
      PROVE  Goal
  BY ZenonT(60), <1>5, <1>1 DEF on_finalize
<1>6. ASSUME NEW id \in SubIds, TerminateFinalized(id)
      PROVE  Goal
  BY ZenonT(60), <1>6, <1>1, <1>2 DEF TerminateFinalized, Remove
<1>7. Goal
  BY ZenonT(60), <1>3, <1>4, <1>5, <1>6 DEF ManagerStep
<1> QED BY ZenonT(60), <1>7 DEF ManagerStep

(* The rounds of an accumulation are numbers. *)
LEMMA AccumulatedRounds ==
    /\ \A n \in B!Rounds : n \in Int
    /\ \A acc \in B!Accumulation : acc.start \in Int /\ acc.end \in Int
    /\ \A n \in 0..U64Max : n \in Int
<1>1. \A n \in B!Rounds : n \in Int
  BY RuntimeAssumption DEF B!Rounds, B!BeaconAssumption
<1>2. \A acc \in B!Accumulation : acc.start \in B!Rounds /\ acc.end \in B!Rounds
  BY DEF B!Accumulation
<1>3. \A n \in 0..U64Max : n \in Int
  BY FeesAssumption
<1> QED BY ZenonT(60), <1>1, <1>2, <1>3

(* What was heard before NextRound was heard before the packet that starts *)
(* there or later.                                                         *)
LEMMA HeardBefore ==
    ASSUME NEW h \in Int, NEW n \in Int, NEW s \in Int, NEW e \in Int,
           h < n, n <= s, s <= e
    PROVE  h < s /\ h < e + 1
OBVIOUS

(* No count is above itself. *)
LEMMA NoneAboveItself == \A n \in Nat : ~(n > n)
OBVIOUS

(* The rounds of a packet are rounds of the beacon. *)
LEMMA PacketRounds ==
    ASSUME NEW tx \in B!Extrinsic
    PROVE  tx.start..tx.end \subseteq B!Rounds
BY RuntimeAssumption DEF B!Extrinsic, B!Rounds, B!BeaconAssumption

(* Letting a block pass leaves every pool a set of extrinsics.             *)
LEMMA PoolsAge ==
    ASSUME NEW txs \in SUBSET B!Extrinsic
    PROVE  B!Aged(txs) \in SUBSET B!Extrinsic
<1> SUFFICES ASSUME NEW tx \in B!Extrinsic, tx.ttl > 1
             PROVE  [tx EXCEPT !.ttl = @ - 1] \in B!Extrinsic
  BY ZenonT(60) DEF B!Aged
<1>1. tx.ttl - 1 \in 1..Longevity
  BY RuntimeAssumption DEF B!BeaconAssumption, B!Extrinsic
<1> QED BY ZenonT(60), <1>1 DEF B!Extrinsic

(* Every step of the runtime preserves HInv.                               *)
LEMMA HearingIsSound ==
    TypeOK /\ HInv /\ [RuntimeNext]_runtimeVars => HInv'
<1> SUFFICES ASSUME TypeOK, HInv, [RuntimeNext]_runtimeVars
             PROVE  HInv'
  BY ZenonT(60)
<1>1. ASSUME NodeStep PROVE HInv'
  <2>1. BeaconTypes'
    BY ZenonT(60), <1>1 DEF NodeStep, B!SubmitLocal, B!BeginBlock, B!storage, HInv, BeaconTypes
  <2>2. UNCHANGED <<NextRound, SparseAccumulation, heard, phase, todo>>
    BY ZenonT(60), <1>1 DEF NodeStep, B!SubmitLocal, B!BeginBlock, B!storage, manager
  <2> QED BY ZenonT(60), <2>1, <2>2 DEF HInv
<1>2. ASSUME author # Nil, NEW tx \in pool[author], SubmitAsig(tx) PROVE HInv'
  <2>1. author \in Authors /\ tx \in B!Extrinsic
    BY ZenonT(60), <1>2 DEF HInv, BeaconTypes
  <2>2. /\ pool' \in [Authors -> SUBSET B!Extrinsic]
        /\ author' = author /\ UNCHANGED <<heard, phase>>
    BY ZenonT(60), <1>2, <2>1 DEF SubmitAsig, B!try_submit_asig, HInv, BeaconTypes
  <2>3. CASE B!validate_unsigned(tx, NextRound) /\ B!Acceptable(tx)
    <3>1. B!Accept(tx) /\ todo' = DOMAIN Subscriptions
      BY ZenonT(60), <1>2, <2>3 DEF SubmitAsig, B!try_submit_asig
    <3>2. /\ tx.start \in B!Rounds /\ tx.end \in B!Rounds
          /\ NextRound <= tx.start
          /\ tx.start <= tx.end
          /\ NextRound' = tx.end + 1
          /\ NextRound' \in 0..U64Max
          /\ SparseAccumulation' \in B!Accumulation
          /\ SparseAccumulation'.start = tx.start
          /\ SparseAccumulation'.end = tx.end
      BY ZenonT(60), <2>1, <2>3, <3>1, PacketIsFresh DEF HInv
    <3>3. BeaconTypes'
      BY ZenonT(60), <2>1, <2>2, <3>2 DEF BeaconTypes
    <3>4. tx.start \in Int /\ tx.end \in Int /\ NextRound \in Int
      BY ZenonT(60), <3>2, AccumulatedRounds DEF HInv, BeaconTypes
    <3>5. ASSUME NEW id \in SubIds
          PROVE  heard'[id] < tx.start /\ heard'[id] < NextRound'
      <4>1. heard'[id] \in Int /\ heard'[id] < NextRound
        BY ZenonT(60), <2>2 DEF HInv
      <4> QED BY ZenonT(60), <3>2, <3>4, <4>1, HeardBefore
    <3>6. todo' \subseteq SubIds
      BY ZenonT(60), <3>1 DEF TypeOK
    <3>7. SparseAccumulation' # Nil
      BY ZenonT(60), <3>2, RuntimeAssumption DEF B!BeaconAssumption
    <3> QED BY ZenonT(60), <2>2, <3>2, <3>3, <3>5, <3>6, <3>7 DEF HInv
  <2>4. CASE ~(B!validate_unsigned(tx, NextRound) /\ B!Acceptable(tx))
    <3>1. UNCHANGED B!storage /\ todo' = todo
      BY ZenonT(60), <1>2, <2>4 DEF SubmitAsig, B!try_submit_asig
    <3> QED BY ZenonT(60), <2>1, <2>2, <3>1 DEF B!storage, HInv, BeaconTypes
  <2> QED BY ZenonT(60), <2>3, <2>4
<1>3. ASSUME NEW pk \in Keys, SetBeaconConfig(pk) PROVE HInv'
  BY ZenonT(60), <1>3 DEF SetBeaconConfig, B!set_beacon_config, manager, HInv, BeaconTypes
<1>4. ASSUME NEW id \in SubIds, Hear(id) PROVE HInv'
  <2>1. /\ phase = "execute" /\ phase' = phase
        /\ id \in todo /\ todo' = todo \ {id}
        /\ heard' = [heard EXCEPT ![id] = SparseAccumulation.end]
        /\ UNCHANGED beacon
    BY ZenonT(60), <1>4 DEF Hear, DeliverPulse, Distributing
  <2>2. SparseAccumulation # Nil /\ SparseAccumulation \in B!Accumulation
    BY ZenonT(60), <2>1 DEF HInv, BeaconTypes
  <2>3. SparseAccumulation.end \in Int
    BY ZenonT(60), <2>2, AccumulatedRounds
  <2>4. todo \subseteq SubIds
    BY ZenonT(60) DEF TypeOK
  <2>5. SparseAccumulation.end < NextRound
    <3>1. NextRound = SparseAccumulation.end + 1
      BY ZenonT(60), <2>2 DEF HInv
    <3> QED BY <2>3, <3>1
  <2>6. /\ heard' \in [SubIds -> Int]
        /\ \A x \in SubIds : heard'[x] = IF x = id THEN SparseAccumulation.end ELSE heard[x]
    BY ZenonT(60), <2>1, <2>3 DEF HInv
  <2> QED BY ZenonT(60), <2>1, <2>2, <2>4, <2>5, <2>6 DEF HInv, BeaconTypes, beacon
<1>5. ASSUME ManagerStep PROVE HInv'
  BY ZenonT(60), <1>5, OtherStepsAreQuiet DEF HInv, BeaconTypes, beacon
<1>6. ASSUME EndBlock PROVE HInv'
  <2>1. pool' \in [Authors -> SUBSET B!Extrinsic]
    BY ZenonT(60), <1>6, PoolsAge DEF EndBlock, B!on_finalize, HInv, BeaconTypes
  <2>2. todo' = {} /\ UNCHANGED <<heard, NextRound, SparseAccumulation>> /\ author' = Nil
    BY ZenonT(60), <1>6 DEF EndBlock, NextBlock, B!on_finalize
  <2> QED BY ZenonT(60), <2>1, <2>2 DEF HInv, BeaconTypes
<1>7. CASE UNCHANGED runtimeVars
  BY ZenonT(60), <1>7 DEF runtimeVars, vars, beacon, HInv, BeaconTypes
<1> QED BY ZenonT(60), <1>1, <1>2, <1>3, <1>4, <1>5, <1>6, <1>7 DEF RuntimeNext

(* A pulse that reaches a subscription (Hear) is of rounds it has not      *)
(* heard of; no other step brings one.                                     *)
LEMMA HearingAdvances ==
    ASSUME TypeOK, HInv, [RuntimeNext]_runtimeVars,
           NEW id \in SubIds,
           heard'[id] # heard[id] \/ received'[id] > received[id]
    PROVE  /\ SparseAccumulation.start > heard[id]
           /\ heard'[id] >= SparseAccumulation.start
<1>0. received \in [SubIds -> Nat]
  BY DEF TypeOK
<1>1. ASSUME UNCHANGED <<heard, received>> PROVE FALSE
  BY ZenonT(60), <1>0, <1>1, NoneAboveItself
<1>2. ~NodeStep /\ ~(\E pk \in Keys : SetBeaconConfig(pk))
  BY ZenonT(60), <1>1 DEF NodeStep, SetBeaconConfig, manager
<1>3. ~(\E tx \in pool[author] : SubmitAsig(tx))
  BY ZenonT(60), <1>1 DEF SubmitAsig
<1>4. ~ManagerStep
  BY ZenonT(60), OtherStepsAreQuiet
<1>5. ~EndBlock
  BY ZenonT(60), <1>1 DEF EndBlock, NextBlock
<1>6. ~UNCHANGED runtimeVars
  BY ZenonT(60), <1>1 DEF runtimeVars, vars
<1>7. PICK x \in SubIds : Hear(x)
  BY ZenonT(60), <1>2, <1>3, <1>4, <1>5, <1>6 DEF RuntimeNext
<1>8. /\ phase = "execute" /\ x \in todo
      /\ heard' = [heard EXCEPT ![x] = SparseAccumulation.end]
      /\ received' = [received EXCEPT ![x] = @ + 1]
  BY ZenonT(60), <1>7 DEF Hear, DeliverPulse, Distributing
<1>9. x = id
  BY <1>0, <1>8 DEF HInv
<1>10. SparseAccumulation \in B!Accumulation /\ heard[id] < SparseAccumulation.start
  BY ZenonT(60), <1>8, <1>9 DEF HInv, BeaconTypes
<1>11. SparseAccumulation.start \in Int /\ SparseAccumulation.end \in Int
  BY ZenonT(60), <1>10, AccumulatedRounds
<1> QED BY ZenonT(60), <1>8, <1>9, <1>10, <1>11, RuntimeAssumption
        DEF HInv, B!BeaconAssumption

(* Every pulse that distribute sends to a subscription is of rounds after  *)
(* all those it has heard of.                                              *)
THEOREM SubscribersHearAdvancing == RuntimeSpec => RoundsAdvance
<1>1. RuntimeSpec => []TypeOK
  <2>1. RuntimeSpec => Spec
    BY RuntimeImplementsManager DEF ManagerAsSpecified
  <2> QED BY <2>1, TypeCorrect, PTL
<1>2. TypeOK /\ HInv /\ [RuntimeNext]_runtimeVars =>
        [\A id \in SubIds :
           heard'[id] # heard[id] \/ received'[id] > received[id] =>
             /\ SparseAccumulation.start > heard[id]
             /\ heard'[id] >= SparseAccumulation.start]_runtimeVars
  BY ZenonT(60), HearingAdvances
<1> QED BY <1>1, <1>2, NothingHeardFirst, HearingIsSound, PTL
        DEF RuntimeSpec, RoundsAdvance

-----------------------------------------------------------------------------
(* The beacon in the runtime.                                              *)

(* Every step of the runtime is a step of the beacon or leaves it alone:   *)
(* only the beacon writes what it stores, the manager never.               *)
LEMMA RuntimeStepIsBeaconStep ==
    [RuntimeNext]_runtimeVars => [B!Next]_(B!vars)
<1> SUFFICES ASSUME [RuntimeNext]_runtimeVars
             PROVE  B!Next \/ UNCHANGED B!vars
  OBVIOUS
<1>1. CASE NodeStep
  BY ZenonT(60), <1>1 DEF NodeStep, B!Next
<1>2. CASE author # Nil /\ \E tx \in pool[author] : SubmitAsig(tx)
  BY ZenonT(60), <1>2 DEF SubmitAsig, B!Next
<1>3. CASE \E pk \in Keys : SetBeaconConfig(pk)
  BY ZenonT(60), <1>3 DEF SetBeaconConfig, B!Next
<1>4. ASSUME UNCHANGED beacon, UNCHANGED DidUpdate PROVE UNCHANGED B!vars
  BY ZenonT(60), <1>4 DEF beacon, B!vars, B!storage
<1>5. CASE \E id \in SubIds : Hear(id)
  BY ZenonT(60), <1>4, <1>5 DEF Hear, DeliverPulse, Distributing
<1>6. CASE ManagerStep
  <2>1. ASSUME NEW a \in Accounts, NEW id \in SubIds, Call(a, id)
        PROVE  UNCHANGED DidUpdate
    BY ZenonT(60), <2>1 DEF Call, create_subscription, pause_subscription, SetState,
         kill_subscription, update_subscription, reactivate_subscription
  <2>2. ASSUME NEW id \in SubIds,
               PauseUnpaid(id) \/ PauseUnsent(id) \/ IdlePulse(id) \/ TerminateFinalized(id)
        PROVE  UNCHANGED DidUpdate
    BY ZenonT(60), <2>2 DEF PauseUnpaid, PauseUnsent, IdlePulse, Distributing, TerminateFinalized
  <2>3. CASE on_finalize
    BY ZenonT(60), <1>4, <1>6, <2>3 DEF ManagerStep, on_finalize
  <2> QED BY ZenonT(60), <1>4, <1>6, <2>1, <2>2, <2>3 DEF ManagerStep
<1>7. CASE EndBlock
  BY ZenonT(60), <1>7 DEF EndBlock, B!Next
<1>8. CASE UNCHANGED runtimeVars
  BY ZenonT(60), <1>4, <1>8 DEF runtimeVars, vars
<1> QED BY ZenonT(60), <1>1, <1>2, <1>3, <1>5, <1>6, <1>7, <1>8 DEF RuntimeNext

(* The runtime implements the beacon's specification: the manager as       *)
(* Dispatcher, and the subscribers' calls in the same blocks, change       *)
(* nothing of what try_submit_asig and on_finalize do.                     *)
THEOREM RuntimeImplementsBeacon == RuntimeSpec => B!Spec
<1>1. RuntimeInit => B!Init
  BY ZenonT(60) DEF RuntimeInit
<1> QED BY <1>1, RuntimeStepIsBeaconStep, PTL DEF RuntimeSpec, B!Spec

(* The two pallets keep their types in one block production, and what a    *)
(* subscription hears of is a round of the beacon (try_submit_asig,        *)
(* distribute).                                                            *)
THEOREM RuntimeIsTyped == RuntimeSpec => []RuntimeTypeOK
<1> DEFINE Kept == /\ BeaconConfig \in Keys \union {Nil}
                   /\ best_round \in 0..U64Max
                   /\ emitted \in SUBSET B!Rounds
                   /\ heard \in [SubIds -> {NotHeard} \union B!Rounds]
<1>1. RuntimeInit => Kept
  <2>1. 0 \in 0..U64Max
    BY FeesAssumption
  <2> QED BY ZenonT(60), <2>1 DEF RuntimeInit, B!Init
<1>2. TypeOK /\ HInv /\ Kept /\ [RuntimeNext]_runtimeVars => Kept'
  <2> SUFFICES ASSUME TypeOK, HInv, Kept, [RuntimeNext]_runtimeVars PROVE Kept'
    BY ZenonT(60)
  <2>1. CASE NodeStep
    BY ZenonT(60), <2>1 DEF NodeStep, B!SubmitLocal, B!BeginBlock, B!storage
  <2>2. ASSUME author # Nil, NEW tx \in pool[author], SubmitAsig(tx) PROVE Kept'
    <3>1. UNCHANGED <<best_round, heard>>
      BY ZenonT(60), <2>2 DEF SubmitAsig, B!try_submit_asig
    <3>2. CASE B!validate_unsigned(tx, NextRound) /\ B!Acceptable(tx)
      <4>1. B!Accept(tx) /\ tx \in B!Extrinsic
        BY ZenonT(60), <2>2, <3>2 DEF SubmitAsig, B!try_submit_asig, HInv, BeaconTypes
      <4>2. tx.start..tx.end \subseteq B!Rounds
        BY ZenonT(60), <4>1, PacketRounds
      <4>3. BeaconConfig' = BeaconConfig /\ emitted' = emitted \union tx.start..tx.end
        BY ZenonT(60), <4>1 DEF B!Accept
      <4> QED BY ZenonT(60), <3>1, <4>2, <4>3
    <3>3. CASE ~(B!validate_unsigned(tx, NextRound) /\ B!Acceptable(tx))
      BY ZenonT(60), <2>2, <3>1, <3>3 DEF SubmitAsig, B!try_submit_asig, B!storage
    <3> QED BY ZenonT(60), <3>2, <3>3
  <2>3. ASSUME NEW pk \in Keys, SetBeaconConfig(pk) PROVE Kept'
    BY ZenonT(60), <2>3 DEF SetBeaconConfig, B!set_beacon_config
  <2>4. ASSUME NEW id \in SubIds, Hear(id) PROVE Kept'
    <3>1. phase = "execute" /\ id \in todo
      BY ZenonT(60), <2>4 DEF Hear, DeliverPulse, Distributing
    <3>2. SparseAccumulation \in B!Accumulation
      BY ZenonT(60), <3>1 DEF HInv, BeaconTypes
    <3>3. SparseAccumulation.end \in B!Rounds
      BY ZenonT(60), <3>2 DEF B!Accumulation
    <3> QED BY ZenonT(60), <2>4, <3>3 DEF Hear, beacon
  <2>5. CASE ManagerStep
    BY ZenonT(60), <2>5 DEF ManagerStep, beacon
  <2>6. CASE EndBlock
    BY ZenonT(60), <2>6 DEF EndBlock, B!on_finalize, HInv, BeaconTypes
  <2>7. CASE UNCHANGED runtimeVars
    BY ZenonT(60), <2>7 DEF runtimeVars, beacon
  <2> QED BY ZenonT(60), <2>1, <2>2, <2>3, <2>4, <2>5, <2>6, <2>7 DEF RuntimeNext
<1>3. TypeOK /\ HInv /\ Kept => RuntimeTypeOK
  BY ZenonT(60) DEF TypeOK, HInv, BeaconTypes, RuntimeTypeOK, B!TypeOK
<1>4. RuntimeSpec => []TypeOK
  <2>1. RuntimeSpec => Spec
    BY RuntimeImplementsManager DEF ManagerAsSpecified
  <2> QED BY <2>1, TypeCorrect, PTL
<1> QED BY <1>1, <1>2, <1>3, <1>4, NothingHeardFirst, HearingIsSound, PTL
        DEF RuntimeSpec
=============================================================================
