----------------------------- MODULE MCEchoServer -----------------------------
(* An instance of EchoServer for TLC.                                      *)
EXTENDS EchoServer

=============================================================================
