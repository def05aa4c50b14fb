----------------------------- MODULE MCMeansServer -----------------------------
(* An instance of MeansServer for TLC.                                     *)
EXTENDS MeansServer

(* A price, another for the same time, and a query that includes it.       *)
MCMessages ==
  {[type |-> "I", first_word |-> 1, second_word |-> 3],
   [type |-> "I", first_word |-> 1, second_word |-> -4],
   [type |-> "Q", first_word |-> 1, second_word |-> 2]}
=============================================================================
