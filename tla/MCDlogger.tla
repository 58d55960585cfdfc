----------------------------- MODULE MCDlogger -----------------------------
(* Instances of Dlogger for TLC.                                           *)
EXTENDS Dlogger, TLC

(* Modules are interchangeable: no action tells two of them apart.         *)
ModSymmetry == Permutations(Mods)
=============================================================================
