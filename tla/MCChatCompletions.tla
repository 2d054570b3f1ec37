------------------------- MODULE MCChatCompletions -------------------------
(* Instances of ChatCompletions for TLC. *)
EXTENDS ChatCompletions, TLC

RequestSymmetry == Permutations(Requests)
=============================================================================
