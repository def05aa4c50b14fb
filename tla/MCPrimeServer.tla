----------------------------- MODULE MCPrimeServer -----------------------------
(* An instance of PrimeServer for TLC.                                     *)
EXTENDS PrimeServer

(* A composite number; a prime, with a method that is compared only in     *)
(* part; a line that is not JSON.                                          *)
MCRequests ==
  {[json |-> TRUE, method |-> "isPrime", type |-> "int", value |-> 9],
   [json |-> TRUE, method |-> "isPrimes", type |-> "int", value |-> 13],
   [json |-> FALSE, method |-> "absent", type |-> "absent", value |-> 0]}
=============================================================================
