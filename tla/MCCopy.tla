------------------------------- MODULE MCCopy -------------------------------
(* Instances of Copy for TLC.                                              *)
EXTENDS Copy
=============================================================================
