------------------------------ MODULE MCChatRoom ------------------------------
(* Instances of ChatRoom for TLC.                                          *)
EXTENDS ChatRoom

CONSTANTS s1, s2, s3, alice, bob

(* Sessions and names are compared and nothing else.                       *)
Symmetry == Permutations(Sessions) \union Permutations(Names)
=============================================================================
