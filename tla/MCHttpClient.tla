------------------------------ MODULE MCHttpClient ------------------------------
(***************************************************************************)
(* HttpClient for TLC: the pairs of two tokens, which are cached, asked    *)
(* through a method that makes None of a ClientError.                      *)
(***************************************************************************)
EXTENDS HttpClient, TLC

Requests == {"token 1", "token 2"}

Labels == [r \in Requests |-> "pairs"]
=================================================================================
