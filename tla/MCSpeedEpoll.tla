----------------------------- MODULE MCSpeedEpoll -----------------------------
(* Instances of SpeedEpoll for TLC.                                        *)
EXTENDS SpeedEpoll

CONSTANTS t1, t2, f1, f2, f3

(* Threads and descriptors are compared and nothing else.                  *)
Symmetry == Permutations(Threads) \union Permutations(Fds)
=============================================================================
