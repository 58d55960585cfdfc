---------------------------- MODULE MCDuologger ----------------------------
(* Instances of Duologger for TLC.                                         *)
EXTENDS Duologger
=============================================================================
