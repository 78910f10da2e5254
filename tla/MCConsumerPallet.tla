-------------------------- MODULE MCConsumerPallet --------------------------
(* Small instances of ConsumerPallet for TLC: two users of one chain. *)
EXTENDS ConsumerPallet, TLC

CONSTANTS alice, bob

MCTierStart == <<1, 2, 3, 4, 5>>

MCTierDiscount == <<0, 5, 10, 20, 30>>

MCSubIds == CreditChoices \X FrequencyChoices \X MetadataSizes \X (1..LastBlock)

(* The ids of the first block, so that the second can choose them again. *)
MCGivenIds == CreditChoices \X FrequencyChoices \X MetadataSizes \X {1}

(* What a quote, and a question about its subscription, generate in the    *)
(* first block.                                                            *)
MCGivenQuoteRefs == {<<1, 0, 1>>}

MCGivenInfoRefs == {<<<<1, 1, 0, 1>>, 1>>}

(* Give up all credits, keep the frequency, and set the metadata. *)
MCUpdates == {<<0, None, 0>>}

(* No definition tells the users apart. *)
Symmetry == Permutations({alice, bob})
=============================================================================
