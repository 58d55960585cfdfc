---------------------------- MODULE MCInterfaces ----------------------------
(* Interfaces with few retries, numbers and faults, and the cipher suites  *)
(* with and without authentication, encryption and support.                *)
EXTENDS Interfaces

LpTestSuites == {0, 3, 4, 7, 15}
=============================================================================
