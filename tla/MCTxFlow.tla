------------------------------ MODULE MCTxFlow ------------------------------
(***************************************************************************)
(* Instances of TxFlow for TLC.                                            *)
(***************************************************************************)
EXTENDS TxFlow, TLC

\* Nothing tells one interface from another.
VifSymmetry == Permutations(Vifs)
=============================================================================
