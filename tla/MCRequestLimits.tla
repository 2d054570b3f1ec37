-------------------------- MODULE MCRequestLimits --------------------------
(* Instances of RequestLimits for TLC. *)
EXTENDS RequestLimits, TLC

\* A self-hosted model, one with three entries in the price table, one with
\* two (dated releases both), and one with none.
MCModels ==
    {<<"llama">>, <<"gpt-", "4", "o", "-mini", "-2024">>, <<"gpt-", "4", "o", "-2024">>, <<"o3">>}

\* A deployment that answers for another model.
MCEchoedModels == {<<"gpt-", "4", "o", "-2024">>}

RequestSymmetry == Permutations(Requests)
=============================================================================
