------------------------------ MODULE MCEaBoot ------------------------------
(* TLC instance of EaBoot: r2 is the larger release.                       *)
EXTENDS EaBoot

MCSize == [r1 |-> 1, r2 |-> 2]
=============================================================================
