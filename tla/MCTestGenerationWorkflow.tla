---------------------- MODULE MCTestGenerationWorkflow ----------------------
(* Instances of TestGenerationWorkflow for TLC: the constants' values. *)
EXTENDS TestGenerationWorkflow, TLC

\* The first unit's reply may hold the AI-derived scenario "a", where the
\* instance has it; the other units find nothing new.
MCBatchScenarios == [b \in 1..NumBatches |-> IF b = 1 THEN {"a"} \cap Scenarios ELSE {}]

\* Where the question is how runs of the model overlap, what comes after the first
\* generated artifact is left to the instance about reviews.
BeforeGeneration == wf.stages["postmanGeneration"] \in {"not-yet-reached", "active"}

\* Handlers are interchangeable.
CallSymmetry == Permutations(Calls)
=============================================================================
