---------------------------- MODULE MCSignalling ----------------------------
(* Instances of Signalling for TLC.                                        *)
EXTENDS Signalling
=============================================================================
