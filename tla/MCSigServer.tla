----------------------------- MODULE MCSigServer -----------------------------
(* The instance of SigServer for TLC.                                       *)
EXTENDS SigServer
=============================================================================
