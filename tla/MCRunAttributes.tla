-------------------------- MODULE MCRunAttributes --------------------------
(* An instance of RunAttributes: interchangeable stages and values.        *)
EXTENDS RunAttributes, TLC

Interchangeable == Permutations(Stage) \cup Permutations(Value)
=============================================================================
