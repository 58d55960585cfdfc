------------------------------ MODULE MCMemrec ------------------------------
(* Instances of Memrec for TLC.                                            *)
EXTENDS Memrec
=============================================================================
