---------------------------- MODULE MCTokenDirectory ----------------------------
(***************************************************************************)
(* TokenDirectory for TLC: two contracts, deployed and minted in blocks 1  *)
(* and 2.  The hot list has one of them and the operator types the other,  *)
(* both in mixed case, with a checksum.                                    *)
(***************************************************************************)
EXTENDS TokenDirectory

Births == [k \in Contract |-> IF k = "a" THEN 1 ELSE 2]

MintLogs == {[contract |-> k, block |-> Births[k]] : k \in Contract}

Listed == {At("a", "mixed")}

Typed == {At("b", "mixed")}
=================================================================================
