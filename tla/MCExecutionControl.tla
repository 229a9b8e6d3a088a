------------------------ MODULE MCExecutionControl ------------------------
(* Three HTTP requests against one account: enough for a Stop, a Start and *)
(* a lifecycle poll, or two Stops around a Start, to race with the worker. *)
EXTENDS ExecutionControl, TLC

Symmetry == Permutations(Requests)
=============================================================================
