---------------------------- MODULE MCOutcomeLabels ----------------------------
(***************************************************************************)
(* Model-checking instance of OutcomeLabels: a market whose price doubles  *)
(* while the pool is unknown, falls back as the pool drains, and rises.    *)
(***************************************************************************)
EXTENDS OutcomeLabels

Market(t) == {<< <<1, 10>>, <<2, Missing>>, <<1, 1>>, <<4, 10>> >>[t + 1]}
=============================================================================
