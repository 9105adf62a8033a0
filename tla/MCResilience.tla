---------------------------- MODULE MCResilience ----------------------------
(* Small instances of Resilience. *)
EXTENDS Resilience

TwoModels == <<"high", "flash">>
OneModel  == <<"high">>
=============================================================================
