------------------------------- MODULE MCWire -------------------------------
(* TLC instance of Wire. *)
EXTENDS Wire
=============================================================================
