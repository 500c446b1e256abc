---------------------------- MODULE MCBlockchain ----------------------------
(* Instances of Blockchain for TLC.                                        *)
EXTENDS Blockchain

\* Which file is claimed does not matter.
TxSymmetry == Permutations(Txs)

=============================================================================
