----------------------------- MODULE MCByteQueue -----------------------------
(* Instances of ByteQueue for TLC.                                         *)
EXTENDS ByteQueue, TLC

CONSTANTS b1, b2

(* Bytes are copied and compared, nothing else.                            *)
Symmetry == Permutations(Bytes)
=============================================================================
