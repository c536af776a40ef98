---------------------------- MODULE MCTransport ----------------------------
(* An instance of Transport for TLC. *)
EXTENDS Transport

CONSTANTS w1, w2

TwoCallers == {w1, w2}
=============================================================================
