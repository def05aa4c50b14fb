--------------------------- MODULE MCSpeedDispatch ---------------------------
(* Instances of SpeedDispatch for TLC.                                     *)
EXTENDS SpeedDispatch

CONSTANTS t1, t2, c1, c2, c3, r1, r2

(* Threads, descriptors and roads are interchangeable: the specification   *)
(* compares them and nothing else.                                         *)
Symmetry ==
  Permutations(Threads) \union Permutations(Fds) \union Permutations(Roads)
=============================================================================
