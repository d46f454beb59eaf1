---------------------------- MODULE MCInnerTree ----------------------------
(* The instances of InnerTree that are model-checked. *)
EXTENDS InnerTree, TLC

Clients == Permutations(Client)
=============================================================================
