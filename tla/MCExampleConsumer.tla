------------------------- MODULE MCExampleConsumer -------------------------
(* Small instances of ExampleConsumer for TLC: one contract. *)
EXTENDS ExampleConsumer

MCTierStart == <<1, 2, 3, 4, 5>>

MCTierDiscount == <<0, 5, 10, 20, 30>>

(* The ids of the requests made in three blocks. *)
MCSubIds == CreditChoices \X FrequencyChoices \X MetadataSizes \X (1..3)
=============================================================================
