------------------------------ MODULE MCCalls ------------------------------
(* The threads of the application are interchangeable.                     *)
EXTENDS PipelineCalls, TLC

ThreadSymmetry == Permutations(Callers)
=============================================================================
