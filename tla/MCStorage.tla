----------------------------- MODULE MCStorage -----------------------------
(* TLC instance of Storage: two drives with one label.                     *)
EXTENDS Storage

MCLabel == [d \in Drives |-> "music"]
MCNames == << <<"music", 1>>, <<"music", 2>>, <<"music", 3>> >>
=============================================================================
