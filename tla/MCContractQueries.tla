------------------------- MODULE MCContractQueries -------------------------
(* A small instance of ContractQueries for TLC: one contract. *)
EXTENDS ContractQueries

MCTierStart == <<1, 2, 3, 4, 5>>

MCTierDiscount == <<0, 5, 10, 20, 30>>

(* The ids of the requests the owner can make. *)
MCSubIds == CreditChoices \X FrequencyChoices \X MetadataSizes \X (1..LastTimestamp)
=============================================================================
