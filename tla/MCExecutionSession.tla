------------------------- MODULE MCExecutionSession -------------------------
(* Offers of eth versions for ExecutionSession. *)
EXTENDS ExecutionSession
MCCapSets == {{}, {68}, {68, 69}, {67, 70, 71}}
=============================================================================
