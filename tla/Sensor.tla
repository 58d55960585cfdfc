------------------------------- MODULE Sensor -------------------------------
(***************************************************************************)
(* Sensor values: lib/ipmi_sensor.c and the conversions of lib/ipmi_sdr.c, *)
(* which memrec's power.pm reads through "sdr list". A raw reading of the  *)
(* management controller is m * x + b (exponents of ten left out), x being *)
(* unsigned, one's or two's complement, and then linearized; thresholds go *)
(* the other way, without that. The powers 2 and 3, whose values are whole *)
(* numbers, stand for the eleven functions a sensor may be linearized by.  *)
(***************************************************************************)
EXTENDS Integers, Sequences, FiniteSets

CONSTANTS
  SnSensors,   \* sequence of records [unit, m, b, lin]: unit.analog, 3 for a discrete
               \* sensor, 4 for a compact record, which has no conversion
  SnRange,     \* raw values 0..SnRange - 1, 256 in the code
  SnRaws,      \* readings the sensors may have
  SnAsked,     \* values the user sets thresholds to
  SnMaxChanges, SnMaxFaults

ASSUME SnNumbers ==
  /\ SnRange \in Nat \ {0} /\ SnRange % 2 = 0 /\ SnRaws \subseteq 0..(SnRange - 1) /\ SnAsked \subseteq Int
  /\ SnSensors \in Seq([unit : 0..4, m : Int, b : Int, lin : {"linear", "sqr", "cube", "nonlinear"}]) /\ SnSensors # <<>>

VARIABLES
  snAt,     \* "new", "find", "read", "thresholds", "set", "done"
  snCmd,
  snTodo,   \* sensors still to show
  snSets,   \* thresholds still to set: slot and value
  snRc,
  snRsp,    \* the answer buffer: [raw, bits, thr], only overwritten by a good answer
  snShown,  \* the line being put together: [valid, val, status]
  snOut,    \* lines printed
  snRaw, snThr,        \* the controller: readings and thresholds
  snSeen, snWant,      \* history: raw values since the start; what was to be set
  snChanges, snFaults, snHist

snVars == <<snAt, snCmd, snTodo, snSets, snRc, snRsp, snShown, snOut, snRaw, snThr, snSeen, snWant, snChanges, snFaults, snHist>>
snWorld == <<snRaw, snThr, snSeen, snWant, snChanges>>

SnSlots == {"lnr", "lcr", "lnc", "unc", "ucr", "unr"}
SnLowers == {"lnr", "lcr", "lnc"}
SnIds == DOMAIN SnSensors
SnNoLine == [valid |-> FALSE, val |-> 0, status |-> "none"]
SnUnset == [slot \in SnSlots |-> -1]

SnInit ==
  /\ snAt = "new" /\ snCmd = "none" /\ snTodo = <<>> /\ snSets = <<>> /\ snRc = 0
  /\ snRsp = [raw |-> 0, bits |-> {}] /\ snShown = SnNoLine /\ snOut = <<>>
  /\ snRaw = [s \in SnIds |-> 1] /\ snThr = [s \in SnIds |-> SnUnset]
  /\ snSeen = [s \in SnIds |-> {1}] /\ snWant = [s \in SnIds |-> [slot \in SnSlots |-> {}]]
  /\ snChanges = 0 /\ snFaults = 0 /\ snHist = {}
-----------------------------------------------------------------------------
SnHalf == SnRange \div 2
SnAbs(x) == IF x < 0 THEN -x ELSE x
(* (int8_t) val                                                            *)
SnInt8(v) == IF v >= SnHalf THEN v - SnRange ELSE v
SnLinearized(lin, x) == IF lin = "sqr" THEN x * x ELSE IF lin = "cube" THEN x * x * x ELSE x
(* sdr_convert_sensor_reading. Slip: one's complement is taken for two's.  *)
SnNoOnesComplement(s, v) ==
  LET r == SnSensors[s] IN
  IF r.unit > 2 THEN 0 ELSE SnLinearized(r.lin, r.m * (IF r.unit = 0 THEN v ELSE SnInt8(v)) + r.b)
sdr_convert_sensor_reading(s, v) ==
  LET r == SnSensors[s]
      up == IF r.unit = 1 /\ v >= SnHalf THEN (v + 1) % SnRange ELSE v IN
  IF r.unit > 2 THEN 0 ELSE SnLinearized(r.lin, r.m * (IF r.unit = 0 THEN v ELSE SnInt8(up)) + r.b)
(* sdr_convert_sensor_value_to_raw: towards zero, up from one half of a    *)
(* positive quotient, and the low byte of that. Neither the kind of        *)
(* complement nor the linearization matters to it.                         *)
SnQuotient(p, q) == IF (p < 0) = (q < 0) THEN SnAbs(p) \div SnAbs(q) ELSE -(SnAbs(p) \div SnAbs(q))
sdr_convert_sensor_value_to_raw(s, value) ==
  LET r == SnSensors[s]
      p == value - r.b
      up == (p < 0) = (r.m < 0) /\ 2 * (SnAbs(p) % SnAbs(r.m)) >= SnAbs(r.m) IN
  IF r.unit > 2 \/ r.m = 0 THEN 0 ELSE (SnQuotient(p, r.m) + (IF up THEN 1 ELSE 0)) % SnRange
(* ipmi_sdr_get_status: the worst of the bits the controller set.          *)
ipmi_sdr_get_status(bits) ==
  IF bits \cap {"lnr", "unr"} # {} THEN "nr"
  ELSE IF bits \cap {"lcr", "ucr"} # {} THEN "cr"
  ELSE IF bits # {} THEN "nc" ELSE "ok"
-----------------------------------------------------------------------------
(* The controller: what a raw value stands for, unsigned, one's or two's   *)
(* complement; a reading changes; comparison with the thresholds.          *)
SnStraight(s, r) ==
  LET x == CASE SnSensors[s].unit = 0 -> r
             [] SnSensors[s].unit = 1 -> IF r < SnHalf THEN r ELSE r - (SnRange - 1)
             [] OTHER -> IF r < SnHalf THEN r ELSE r - SnRange IN
  SnSensors[s].m * x + SnSensors[s].b
SnCrossed(s) ==
  {slot \in SnSlots : snThr[s][slot] >= 0 /\
     LET v == SnStraight(s, snRaw[s])  t == SnStraight(s, snThr[s][slot]) IN
     IF slot \in SnLowers THEN v <= t ELSE v >= t}
SnReadingChanges ==
  /\ snAt \in {"find", "read", "thresholds"} /\ snCmd # "thresh" /\ snChanges < SnMaxChanges /\ snChanges' = snChanges + 1
  /\ \E s \in SnIds, r \in SnRaws : snRaw' = [snRaw EXCEPT ![s] = r] /\ snSeen' = [snSeen EXCEPT ![s] = @ \cup {r}]
  /\ UNCHANGED <<snAt, snCmd, snTodo, snSets, snRc, snRsp, snShown, snOut, snThr, snWant, snFaults, snHist>>
SnFault == snFaults < SnMaxFaults /\ snFaults' = snFaults + 1 /\ snHist' = snHist \cup {"fault"}

(* ipmi_sensor_main; thresholds are set one by one or three at a time, in  *)
(* the order of the code, and in the tests on a list with some set.        *)
SnThreeOf(cmd) == IF cmd = "upper" THEN <<"unc", "ucr", "unr">> ELSE <<"lnr", "lcr", "lnc">>
SnFirstList == [s \in SnIds |-> [SnUnset EXCEPT !["lcr"] = 1, !["unr"] = SnHalf - 1]]
ipmi_sensor_main ==
  /\ snAt = "new" /\ UNCHANGED <<snRc, snRsp, snShown, snOut, snRaw, snSeen, snChanges, snFaults, snHist>>
  /\ \/ /\ snCmd' \in {"list", "get", "reading", "sdr"} /\ snAt' = IF snCmd' = "list" THEN "read" ELSE "find"
        /\ snTodo' \in IF snCmd' = "list" THEN {[s \in SnIds |-> s]} ELSE {<<s>> : s \in SnIds}
        /\ snThr' = SnFirstList /\ UNCHANGED <<snSets, snWant>>
     \/ /\ snCmd' = "thresh" /\ snAt' = "find" /\ snTodo' \in {<<s>> : s \in SnIds} /\ UNCHANGED snThr
        /\ \/ \E slot \in SnSlots, v \in SnAsked : snSets' = <<[slot |-> slot, val |-> v]>>
           \/ \E cmd \in {"upper", "lower"}, f \in [1..3 -> SnAsked] :
                snSets' = [i \in 1..3 |-> [slot |-> SnThreeOf(cmd)[i], val |-> f[i]]]
        /\ LET s == Head(snTodo') IN
           snWant' = [snWant EXCEPT ![s] = [slot \in SnSlots |->
                        {snSets'[i].val : i \in {j \in DOMAIN snSets' : snSets'[j].slot = slot}}]]

SnSensor == Head(snTodo)
SnRecord == SnSensors[SnSensor]
SnNextSensor ==
  /\ snTodo' = Tail(snTodo) /\ snAt' = IF Tail(snTodo) = <<>> THEN "done" ELSE "read"
(* ipmi_sdr_find_sdr_byid finds the record or not (module Sdr); thresholds *)
(* can be set for any full record, a discrete sensor's too.                *)
SnFind ==
  /\ snAt = "find" /\ UNCHANGED <<snCmd, snSets, snRsp, snShown, snOut, snWorld>>
  /\ \/ UNCHANGED <<snFaults, snHist>>
        /\ IF snCmd # "thresh" THEN snAt' = "read" /\ UNCHANGED <<snTodo, snRc>>
           ELSE IF SnRecord.unit # 4 THEN snAt' = "set" /\ UNCHANGED <<snTodo, snRc>>
           ELSE SnNextSensor /\ snRc' = -1
     \/ SnFault /\ SnNextSensor /\ snRc' = -1

(* ipmi_sdr_get_sensor_reading(_ipmb): an answer with or without a value,  *)
(* an error that leaves the buffer as it was, or none. "sensor list" and   *)
(* "get" return -1 without a value, "reading" only without an answer,      *)
(* "sdr" never. An analog sensor of the first two has thresholds to get;   *)
(* they show a discrete one's byte as it is.                               *)
SnListing == snCmd \in {"list", "get"}
SnValue(raw) ==
  IF SnListing /\ SnRecord.unit > 2 THEN raw
  ELSE IF raw > 0 THEN sdr_convert_sensor_reading(SnSensor, raw) ELSE 0
SnLine(valid) ==
  IF ~valid THEN SnNoLine
  ELSE [valid |-> TRUE, val |-> SnValue(snRsp'.raw), status |-> ipmi_sdr_get_status(snRsp'.bits)]
SnOutput(valid) ==
  /\ snOut' = Append(snOut, [s |-> SnSensor, line |-> SnLine(valid), thr |-> SnUnset])
  /\ SnNextSensor /\ UNCHANGED snShown
ipmi_sensor_print_full(valid, answered) ==
  /\ snRc' = IF valid THEN snRc ELSE -1
  /\ IF ~answered THEN SnNextSensor /\ UNCHANGED <<snShown, snOut>>
     ELSE IF SnRecord.unit <= 2
     THEN snShown' = SnLine(valid) /\ snAt' = "thresholds" /\ UNCHANGED <<snTodo, snOut>>
     ELSE SnOutput(valid)
ipmi_sensor_get_reading(valid, answered) ==
  /\ snRc' = IF answered THEN snRc ELSE -1
  /\ IF valid THEN SnOutput(TRUE) ELSE SnNextSensor /\ UNCHANGED <<snShown, snOut>>
ipmi_sdr_print_sensor_full(valid) == SnOutput(valid) /\ UNCHANGED snRc
SnAfter(valid, answered) ==
  CASE SnListing -> ipmi_sensor_print_full(valid, answered)
    [] snCmd = "reading" -> ipmi_sensor_get_reading(valid, answered)
    [] OTHER -> ipmi_sdr_print_sensor_full(valid)
(* A sensor that cannot be linearized is passed over, with -1 except for   *)
(* "reading", which passes over compact records too; a discrete one is     *)
(* not looked at that way by the first two.                                *)
SnSkipped ==
  IF snCmd = "reading" THEN SnRecord.unit = 4 \/ SnRecord.lin = "nonlinear"
  ELSE SnRecord.lin = "nonlinear" /\ SnRecord.unit < IF SnListing THEN 3 ELSE 4
SnSkip ==
  /\ snAt = "read" /\ SnSkipped /\ SnNextSensor /\ snRc' = IF snCmd = "reading" THEN snRc ELSE -1
  /\ UNCHANGED <<snCmd, snSets, snRsp, snShown, snOut, snWorld, snFaults, snHist>>
SnRead ==
  /\ snAt = "read" /\ ~SnSkipped /\ UNCHANGED <<snCmd, snSets, snWorld>>
  /\ \/ snRsp' = [raw |-> snRaw[SnSensor], bits |-> SnCrossed(SnSensor)] /\ SnAfter(TRUE, TRUE) /\ UNCHANGED <<snFaults, snHist>>
     \/ SnFault /\ snRsp' \in {snRsp, [raw |-> 0, bits |-> {}]} /\ SnAfter(FALSE, TRUE)
     \/ SnFault /\ UNCHANGED snRsp /\ SnAfter(FALSE, FALSE)

(* ipmi_sensor_print_full_analog: the thresholds are asked for and shown.  *)
(* An error code is not looked at: the bytes of the reading are shown.     *)
SnPrint(thr) ==
  /\ snOut' = Append(snOut, [s |-> SnSensor, line |-> snShown, thr |-> thr]) /\ SnNextSensor
ipmi_sensor_print_full_analog ==
  /\ snAt = "thresholds" /\ UNCHANGED <<snCmd, snSets, snRc, snRsp, snShown, snWorld>>
  /\ \/ SnPrint(snThr[SnSensor]) /\ UNCHANGED <<snFaults, snHist>>
     \/ SnFault /\ SnPrint(SnUnset)
     \/ SnFault /\ SnPrint([SnUnset EXCEPT !["lnc"] = snRsp.raw])

ipmi_sensor_set_sensor_thresholds(s, set) ==
  [snThr EXCEPT ![s][set.slot] = sdr_convert_sensor_value_to_raw(s, set.val)]
(* ipmi_sensor_set_threshold: one threshold after the other; ret is what   *)
(* the last one returned.                                                  *)
ipmi_sensor_set_threshold ==
  /\ snAt = "set" /\ UNCHANGED <<snCmd, snTodo, snRsp, snShown, snOut, snRaw, snSeen, snWant, snChanges>>
  /\ snSets' = Tail(snSets) /\ snAt' = IF Tail(snSets) = <<>> THEN "done" ELSE "set"
  /\ LET put == ipmi_sensor_set_sensor_thresholds(SnSensor, Head(snSets)) IN
     \/ snThr' = put /\ snRc' = 0 /\ UNCHANGED <<snFaults, snHist>>
     \/ SnFault /\ snThr' \in {snThr, put} /\ snRc' = -1

SnNext == ipmi_sensor_main \/ SnReadingChanges \/ SnFind \/ SnSkip \/ SnRead \/ ipmi_sensor_print_full_analog \/ ipmi_sensor_set_threshold
SnFairness == WF_snVars(SnNext)
SnSpec == SnInit /\ [][SnNext]_snVars /\ SnFairness
-----------------------------------------------------------------------------
SnMeaning(s, r) == SnLinearized(SnSensors[s].lin, SnStraight(s, r))
SnShownAs(s, r) == IF SnSensors[s].unit > 2 THEN r ELSE IF r = 0 THEN 0 ELSE SnMeaning(s, r)

(* A value that "sensor list", "sensor get", "sensor reading" or "sdr"     *)
(* shows is one the sensor had while the command ran, although the answer  *)
(* buffer is used again for every request: only the raw value 0 is shown   *)
(* as 0 whatever b is, and only the first two show a discrete sensor's     *)
(* byte. Thresholds shown are those of the controller, but after an error  *)
(* code those shown may be bytes of the reading.                           *)
SnListTrue ==
  \A i \in DOMAIN snOut :
    LET o == snOut[i] IN
    /\ o.line.valid /\ (SnSensors[o.s].unit <= 2 \/ SnListing) => \E r \in snSeen[o.s] : o.line.val = SnShownAs(o.s, r)
    /\ o.thr \in {snThr[o.s], SnUnset} \/ "fault" \in snHist

(* The value lies between two that the sensor has: of others the low byte  *)
(* is set, with no word to the user.                                       *)
SnHas(s, v) == \E lo, hi \in 0..(SnRange - 1) : SnStraight(s, lo) <= v /\ v <= SnStraight(s, hi)
SnNear(s, t, v) ==
  LET m == SnAbs(SnSensors[s].m)
      off == SnAbs(SnStraight(s, t) - v) IN
  IF SnSensors[s].unit > 2 \/ m = 0 THEN t = 0
  ELSE SnHas(s, v) =>
         CASE SnSensors[s].unit = 0 -> 2 * off <= m
           [] SnSensors[s].unit = 1 -> off < 2 * m
           [] OTHER -> off < m
(* Each threshold that is set has the place that was asked for, and is 0   *)
(* for a sensor without a conversion. Otherwise it is the raw value whose  *)
(* m * x + b is next to the value asked for, if the sensor has such ones:  *)
(* for numbers with a sign it may be up to one step off, and a negative    *)
(* one's complement is a step off on top of that. If the command returns   *)
(* 0, the last of the three has been set; the others may not have been.    *)
SnSetExact ==
  snCmd = "thresh" => \A s \in SnIds :
    LET wanted == {slot \in SnSlots : snWant[s][slot] # {}} IN
    /\ \A slot \in SnSlots : snThr[s][slot] >= 0 => \E v \in snWant[s][slot] : SnNear(s, snThr[s][slot], v)
    /\ snAt = "done" /\ snRc = 0 /\ wanted # {} =>
         \E slot \in wanted : snThr[s][slot] >= 0 /\ (Cardinality(wanted) = 3 => slot \in {"unr", "lnc"})
=============================================================================
