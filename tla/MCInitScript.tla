---------------------------- MODULE MCInitScript ----------------------------
(* Instances of InitScript for TLC.                                        *)
EXTENDS InitScript
=============================================================================
