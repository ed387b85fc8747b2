----------------------------- MODULE MCServices -----------------------------
(* Instances of Services, with Dial, for TLC.                              *)
EXTENDS Services
=============================================================================
