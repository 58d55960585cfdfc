---------------------------- MODULE MCLogRecord ----------------------------
(* Instances of LogRecord for TLC.                                         *)
EXTENDS LogRecord, TLC

(* Keys are interchangeable: their names play no part.                     *)
KeySymmetry == Permutations(Keys)
=============================================================================
