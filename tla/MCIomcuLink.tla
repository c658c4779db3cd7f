----------------------------- MODULE MCIomcuLink -----------------------------
(* TLC instance of IomcuLink.                                              *)
EXTENDS IomcuLink, TLC

CONSTANTS t1, t2, none
=============================================================================
