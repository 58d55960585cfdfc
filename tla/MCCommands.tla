----------------------------- MODULE MCCommands -----------------------------
(* Commands over small devices: records longer and shorter than what one   *)
(* read may return, inventories addressed by bytes and by words, with less *)
(* behind them than they say, and sensors of each kind of raw value.       *)
EXTENDS Commands

SdrTestRecords ==
  <<[id |-> 1, type |-> "full", len |-> 9, stype |-> 1, entity |-> 1],
    [id |-> 4, type |-> "oem", len |-> 3, stype |-> 0, entity |-> 0],
    [id |-> 7, type |-> "compact", len |-> 4, stype |-> 2, entity |-> 1]>>

(* One image of each kind of action, one that ends in a wrong one.         *)
HpmTestImages == {<<"prepare", "upload", "upload">>, <<"upload", "other">>}

FruTestAreas == <<[off |-> 2, len |-> 3], [off |-> 6, len |-> 2]>>
FruTestRecs == <<2, 1, 1>>
FruTestDevices ==
  {[words |-> FALSE, limit |-> l, real |-> 18] : l \in {1, 3, 255}}
    \cup {[words |-> TRUE, limit |-> 255, real |-> 18],
          [words |-> FALSE, limit |-> 255, real |-> 12]}

SnTestSensors == <<[unit |-> 0, m |-> 3, b |-> -2, lin |-> "linear"], [unit |-> 2, m |-> 2, b |-> 1, lin |-> "sqr"],
                   [unit |-> 1, m |-> 1, b |-> 0, lin |-> "linear"], [unit |-> 3, m |-> 1, b |-> 0, lin |-> "linear"],
                   [unit |-> 0, m |-> -2, b |-> 5, lin |-> "nonlinear"], [unit |-> 2, m |-> 0, b |-> 3, lin |-> "cube"],
                   [unit |-> 4, m |-> 0, b |-> 0, lin |-> "linear"]>>
SnTestAsked == {-3, 0, 9, 60}

(* Any command, beside one that shares a lock or a value with some.        *)
CfTestCommands == <<CfKinds, {"arp", "alert", "sol", "boot", "access", "setaccess"}>>
=============================================================================
