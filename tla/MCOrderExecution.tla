--------------------------- MODULE MCOrderExecution ---------------------------
(***************************************************************************)
(* Model-checking instances of OrderExecution.  Workers, tokens and client *)
(* order ids are model values that nothing orders, so they may be permuted *)
(* where no liveness is checked.                                           *)
(***************************************************************************)
EXTENDS OrderExecution, TLC

Symmetry == Permutations(Worker) \cup Permutations(Token) \cup Permutations(OrderId)
=============================================================================
