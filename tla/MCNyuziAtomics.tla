--------------------------- MODULE MCNyuziAtomics ---------------------------
(* Instances of NyuziAtomics for TLC. *)
EXTENDS NyuziAtomics, TLC

(* Two-bit words: NAND, the carry of ADD and the borrow of SUB differ from *)
(* one another.                                                            *)
OperandsTwo == {{0}, {0, 1}}
OperandsThree == {{}, {0}, {0, 1}}

BinaryKinds == AllKinds \ {"CMP_SWAP"}

ThreadSymmetry == Permutations(Threads)
=============================================================================
