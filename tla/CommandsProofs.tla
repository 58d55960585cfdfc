--------------------------- MODULE CommandsProofs ---------------------------
(***************************************************************************)
(* Theorems about ipmitool's commands, for any number of processes,        *)
(* retries, events, bytes and faults: settings (CfInv), the event log and  *)
(* its watcher (SelInv), firmware of Kontron boards (FwInv) and of HPM.1   *)
(* targets (HpmInv), the inventory (FruInv), sensors (SnInv). CmdMoves     *)
(* takes what is shown of one command to the program that runs it.         *)
(***************************************************************************)
EXTENDS Commands, FiniteSetTheorems, TLAPS

(* Settings. The steps of each command.                                    *)
CfSol == {"sol", "interval", "rate"}
CfStepsOf(k) ==
  CASE k = "none" -> {"new"}
    [] k \in {"arp", "auth"} -> {"find", "channel", "get", "state", "lock", "set", "again", "verify", "commit", "complete",
                                 "done", "usage"}
    [] k \in {"value", "vlan"} -> {"find", "channel", "state", "lock", "set", "again", "verify", "commit", "complete",
                                   "done", "usage"}
    [] k = "alert" -> {"find", "channel", "dest", "get", "state", "lock", "set", "commit", "complete", "done"}
    [] k = "access" -> {"find", "channel", "get", "set", "get2", "set2", "done", "usage"}
    [] k = "alerting" -> {"find", "channel", "get", "set", "both", "done", "usage"}
    [] k \in {"sol", "interval"} -> {"info", "get", "info2", "lock", "set", "commit", "complete", "done"}
    [] k = "noguard" -> {"info", "get", "info2", "set", "done"}
    [] k = "rate" -> {"lock", "set", "commit", "complete", "done"}
    [] k = "boot" -> {"lock", "ack", "set", "commit", "complete", "done", "usage"}
    [] k = "enables" -> {"get", "set", "show", "done", "usage"}
    [] k = "setaccess" -> {"get", "set", "done", "usage"}
    [] k \in {"lanuser", "lanpass", "stats"} -> {"find", "channel", "set", "done"}
    [] OTHER -> {"set", "done", "usage"}
CfBits == CfProcs \cup {0, CfLimit}
CfSteps == {"new", "find", "channel", "dest", "info", "get", "info2", "get2", "state", "lock", "ack", "set", "again", "set2",
            "verify", "both", "show", "commit", "complete", "done", "usage"}
CfStates ==
  [kind : CfKinds \cup {"none"}, at : CfSteps, data : SUBSET CfBits, rc : {0, -1}, retry : Int, guard : BOOLEAN]
CfTyped(q) == q \in CfStates /\ q.at \in CfStepsOf(q.kind)
CfTypes ==
  /\ cfProc \in [CfProcs -> CfStates] /\ \A p \in CfProcs : CfTyped(cfProc[p])
  /\ cfVal \in [CfAreas -> SUBSET CfBits] /\ cfBusy \in [{"lan", "sol", "boot"} -> BOOLEAN] /\ cfMade \subseteq CfProcs

(* Whose bits are where: a process has its own, and a bit that is in the   *)
(* controller, or was read by another, was written by its process ("lan    *)
(* set access" counts only once both settings are written).                *)
CfWritten(x) == x \in {0, CfLimit} \/ x \in cfMade \/ cfProc[x].kind = "access"
CfNoData(q) == q.kind = "alert" /\ q.data = {} /\ q.at \in {"state", "lock", "set", "commit", "complete"}
CfOwn ==
  \A p \in CfProcs : cfProc[p].at \notin {"new", "done"} =>
    p \in cfProc[p].data \/ CfNoData(cfProc[p]) \/ cfProc[p].kind = "setaccess"
CfCopied ==
  /\ \A a \in CfAreas : \A x \in cfVal[a] : CfWritten(x)
  /\ \A p \in CfProcs : \A x \in cfProc[p].data : x = p \/ CfWritten(x)
(* Steps behind the one that writes.                                       *)
CfLate == {"commit", "complete", "both", "show", "done"}
CfLoose == {"vlan", "alert", "stats"}
CfPast ==
  \A p \in CfProcs : cfProc[p].kind \notin CfLoose /\ cfProc[p].at \in CfLate /\ cfProc[p].rc = 0 =>
    p \in cfMade \/ (cfProc[p].kind = "setaccess" /\ p \notin cfProc[p].data)

(* A process about to write has nobody's bit 0 too, if it read the value.  *)
CfHolding(q) ==
  q.at \in CASE q.kind \in {"arp", "auth", "alert"} -> {"state", "lock", "set", "again", "verify"}
             [] q.kind \in {"sol", "noguard", "interval"} -> {"info2", "lock", "set"}
             [] q.kind \in {"access", "alerting", "enables", "setaccess"} -> {"set", "set2"}
             [] OTHER -> {}
CfUnread == \E h \in cfHurt : h.at = "get"
CfCleared == \E p \in CfProcs : cfProc[p].kind \in {"priv", "lanuser"}
CfExcused(q) ==
  \/ CfNoData(q)
  \/ q.kind \in {"sol", "noguard", "interval"} /\ CfUnread
  \/ q.kind = "setaccess" /\ CfCleared
CfZero == \A p \in CfProcs : CfHolding(cfProc[p]) => 0 \in cfProc[p].data \/ CfExcused(cfProc[p])

(* Somebody will give a flag back.                                         *)
CfAnswering(q) ==
  \/ q.kind \in CfLan /\ q.at \in {"state", "lock", "set", "again", "verify", "commit", "complete"}
  \/ q.kind \in CfSol /\ q.at \in {"set", "commit", "complete"}
  \/ q.kind = "boot" /\ q.guard /\ q.at \in {"ack", "set", "commit", "complete"}
CfExcuse(l) ==
  \E h \in cfHurt : /\ CfLock(h.kind) = l
                    /\ \/ h.at = "complete"
                       \/ h.result = "none" /\ <<l, h.at>> \in {<<"boot", "lock">>, <<"sol", "lock">>, <<"sol", "set">>}
CfFlags ==
  \A l \in {"lan", "sol", "boot"} :
    cfBusy[l] => CfExcuse(l) \/ \E p \in CfProcs : CfLock(cfProc[p].kind) = l /\ CfAnswering(cfProc[p])

(* A change that does not last is of a parameter another works on.         *)
CfShared(p) == \E q \in CfProcs \ {p} : CfArea(cfProc[p]) \in CfParameters(cfProc[q].kind)
CfLasting ==
  \A p \in cfMade :
    /\ cfProc[p].at # "new" /\ (cfProc[p].kind \in {"access", "setaccess"} => cfProc[p].at = "done")
    /\ p \in cfVal[CfArea(cfProc[p])] \/ CfShared(p)
CfKept ==
  \A a \in {"arp", "auth", "alert", "volatile", "nonvolatile", "sol", "interval", "enables", "useraccess"} :
    0 \in cfVal[a] \/ (a \in {"sol", "interval"} /\ CfUnread) \/ (a = "useraccess" /\ CfCleared)

(* The limits: "lan set ... alert" writes back the one it has read.        *)
CfReset(a) ==
  \E p \in CfProcs : cfProc[p].kind \in IF a = "useraccess" THEN {"setaccess", "priv", "lanuser"} ELSE {"access"}
CfLimits ==
  /\ \A a \in CfLimited : CfLimit \in cfVal[a] \/ CfReset(a)
  /\ \A p \in CfProcs : cfProc[p].kind = "alerting" /\ cfProc[p].at = "set" =>
       CfLimit \in cfProc[p].data \/ CfReset("nonvolatile")

CfInv == CfTypes /\ CfOwn /\ CfCopied /\ CfPast /\ CfZero /\ CfKept /\ CfLimits /\ CfLasting /\ CfFlags

(* What each handler makes of a process and the result of its request.     *)
CfResults == {"ok", "err", "none"}
CfWrites(q) == q.at \in IF q.kind = "access" THEN {"set2"} ELSE {"set", "again"}
CfGood(q, r, n) ==
  /\ n.kind = q.kind /\ CfTyped(n) /\ n.at # "new"
  /\ n.data \subseteq q.data \cup cfVal[CfArea(q)] \cup {0}
  /\ \/ q.data \subseteq n.data \/ CfNoData(n) \/ q.kind = "setaccess"
     \/ q.kind = "access" /\ q.data \cap CfModes \subseteq n.data
  /\ CfNoData(q) => CfNoData(n) \/ n.at = "done"
  /\ n.at \in CfLate /\ n.rc = 0 /\ n.kind \notin CfLoose =>
       \/ q.at \in CfLate /\ q.rc = 0
       \/ r = "ok" /\ n.data = q.data /\ (CfWrites(q) \/ (q.at = "verify" /\ cfVal[CfArea(q)] = q.data))
  /\ CfHolding(n) =>
       \/ CfHolding(q) /\ n.data = q.data
       \/ r = "ok" /\ cfVal[CfArea(q)] \ CfDropped(q.kind) \subseteq n.data
       \/ CfNoData(n)
       \/ n.kind \in {"sol", "noguard", "interval"} /\ q.at = "get" /\ r # "ok"
  /\ CfAnswering(q) /\ ~CfAnswering(n) => q.at = "complete" \/ (q.kind \in CfSol /\ q.at = "set" /\ r = "none")
  /\ q.at = "lock" /\ (r = "ok" \/ q.kind \in CfLan) => CfAnswering(n)
  /\ (q.kind = "access" /\ q.at = "set2") \/ (q.kind = "setaccess" /\ q.at = "set") => n.at = "done"

LEMMA CfAreaTyped == ASSUME NEW q, CfTyped(q), q.at # "new" PROVE CfArea(q) \in CfAreas
BY DEF CfTyped, CfStates, CfStepsOf, CfArea, CfAreas, CfKinds, CfLan, CfOnceKinds

(* Only the step, or the step and the result, of a process change.         *)
CfOnly(q, n, at, rc) ==
  n \in CfStates /\ n.kind = q.kind /\ n.data = q.data /\ n.guard = q.guard /\ n.at = at /\ n.rc = rc
LEMMA CfMoves ==
  ASSUME NEW q \in CfStates
  PROVE  /\ \A a \in CfSteps : CfOnly(q, CfTo(q, a), a, q.rc)
         /\ CfOnly(q, CfFail(q), "done", -1) /\ CfOnly(q, CfUsage(q), "usage", q.rc)
BY ZenonT(60) DEF CfOnly, CfTo, CfFail, CfUsage, CfStates, CfSteps
LEMMA CfFailGood ==
  ASSUME NEW q, CfTyped(q), q.kind # "none", NEW r \in CfResults, NEW n, CfOnly(q, n, "done", -1), ~CfAnswering(q),
         q.at # "lock"
  PROVE  CfGood(q, r, n)
<1>1. CfTyped(n) /\ ~CfHolding(n)
  BY DEF CfTyped, CfOnly, CfStates, CfStepsOf, CfHolding, CfKinds, CfLan, CfOnceKinds, CfSol
<1> QED
  BY <1>1 DEF CfOnly, CfGood
LEMMA CfUsageGood ==
  ASSUME NEW q, CfTyped(q), "usage" \in CfStepsOf(q.kind), NEW r \in CfResults, NEW n,
         CfOnly(q, n, "usage", q.rc), ~CfAnswering(q), q.at # "lock", q.at \notin {"set", "set2"}
  PROVE  CfGood(q, r, n)
<1>1. CfTyped(n) /\ ~CfHolding(n)
  BY DEF CfTyped, CfOnly, CfStates, CfStepsOf, CfHolding, CfKinds, CfLan, CfOnceKinds, CfSol
<1> QED
  BY <1>1 DEF CfOnly, CfGood, CfLate, CfAnswering, CfNoData, CfLan

LEMMA CfMoveGood ==
  ASSUME NEW q, CfTyped(q), NEW r \in CfResults, NEW at \in CfStepsOf(q.kind) \ (CfLate \cup {"new"}), NEW n,
         CfOnly(q, n, at, q.rc), ~CfAnswering(q), q.at # "lock", q.at \notin {"set", "set2"},
         ~CfHolding(n) \/ CfHolding(q)
  PROVE  CfGood(q, r, n)
<1>1. ~CfNoData(q)
  BY DEF CfNoData, CfAnswering, CfLan
<1> QED
  BY <1>1 DEF CfOnly, CfGood, CfTyped, CfStates

LEMMA CfFoundGood ==
  ASSUME NEW q, CfTyped(q), q.at \in {"find", "channel", "dest"}, NEW r \in CfResults, NEW n \in CfThen(q, r)
  PROVE  CfGood(q, r, n)
<1>0. q \in CfStates /\ q.kind # "none" /\ ~CfAnswering(q) /\ q.kind \notin CfSol \cup {"noguard"}
  BY DEF CfTyped, CfAnswering, CfStepsOf, CfSol
<1>1. CASE q.at = "find"
  <2>1. CfOnly(q, n, "channel", q.rc)
    BY <1>0, <1>1, CfMoves DEF CfThen, CfSteps
  <2>2. "channel" \in CfStepsOf(q.kind)
    BY <1>0, <1>1 DEF CfTyped, CfStepsOf
  <2>3. "channel" \notin CfLate \cup {"new"} /\ ~CfHolding(n)
    BY <2>1 DEF CfLate, CfOnly, CfHolding
  <2> QED
    BY <1>1, <1>0, <2>1, <2>2, <2>3, CfMoveGood
<1>2. CASE q.at \in {"channel", "dest"}
  <2>1. CASE n = CfFail(q)
    BY <1>0, <1>2, <2>1, CfMoves, CfFailGood
  <2>2. CASE n = CfUsage(q) /\ "usage" \in CfStepsOf(q.kind)
    BY <1>0, <1>2, <2>2, CfMoves, CfUsageGood
  <2>3. ASSUME NEW a \in {"dest", "set", "get", "state"}, n = CfTo(q, a), a \in CfStepsOf(q.kind),
               a = "set" => q.kind \in CfOnceKinds, a = "state" => q.kind \in {"value", "vlan"}
        PROVE  CfGood(q, r, n)
    <3>1. CfOnly(q, n, a, q.rc)
      BY <1>0, <2>3, CfMoves DEF CfSteps
    <3>2. a \notin CfLate \cup {"new"} /\ ~CfHolding(n)
      BY <2>3, <3>1 DEF CfLate, CfOnly, CfHolding, CfOnceKinds
    <3> QED
      BY <1>2, <1>0, <2>3, <3>1, <3>2, CfMoveGood
  <2>4. CASE q.at = "channel"
    <3>1. n \in is_lan_channel(q, r)
      BY <2>4 DEF CfThen
    <3>2. CASE q.kind = "alert"
      <4>1. n = CfTo(q, "dest") \/ n = CfFail(q)
        BY <3>1, <3>2 DEF is_lan_channel
      <4> QED
        BY <2>1, <2>3, <3>2, <4>1 DEF CfStepsOf
    <3>3. CASE q.kind = "stats"
      BY <2>1, <2>3, <3>1, <3>3 DEF is_lan_channel, CfStepsOf, CfOnceKinds
    <3>4. CASE q.kind = "alerting"
      BY <2>1, <2>2, <2>3, <3>1, <3>4 DEF is_lan_channel, CfLanSetRest, CfStepsOf
    <3>5. CASE q.kind \in {"value", "vlan"}
      BY <2>1, <2>2, <2>3, <3>1, <3>5 DEF is_lan_channel, CfLanSetRest, CfStepsOf
    <3>6. CASE q.kind \in {"lanuser", "lanpass"}
      BY <2>1, <2>3, <3>1, <3>6 DEF is_lan_channel, ipmi_lan_set, CfStepsOf, CfOnceKinds
    <3>7. CASE q.kind = "access"
      BY <2>1, <2>2, <2>3, <3>1, <3>7 DEF is_lan_channel, ipmi_lan_set, CfStepsOf
    <3>8. CASE q.kind \in {"arp", "auth"}
      BY <2>1, <2>2, <2>3, <3>1, <3>8 DEF is_lan_channel, ipmi_lan_set, CfStepsOf
    <3> QED
      BY <1>0, <2>4, <3>2, <3>3, <3>4, <3>5, <3>6, <3>7, <3>8
         DEF CfTyped, CfStates, CfKinds, CfLan, CfOnceKinds, CfStepsOf, CfSol
  <2>5. CASE q.at = "dest"
    <3>1. q.kind = "alert"
      BY <2>5 DEF CfTyped, CfStates, CfKinds, CfLan, CfOnceKinds, CfStepsOf
    <3>2. n = CfTo(q, "get") \/ n = CfFail(q)
      BY <2>5 DEF CfThen, ipmi_lan_alert
    <3> QED
      BY <2>1, <2>3, <3>1, <3>2 DEF CfStepsOf
  <2> QED
    BY <1>2, <2>4, <2>5
<1> QED
  BY <1>1, <1>2

CfGoes(q) == CfTyped(q) /\ q.at \notin CfOver \cup {"new", "find", "channel", "dest"}
(* A command that has no lock, past its last request.                      *)
LEMMA CfDoneGood ==
  ASSUME NEW q, CfTyped(q), NEW r \in CfResults, NEW n, CfOnly(q, n, "done", q.rc), "done" \in CfStepsOf(q.kind),
         q.at \in CfLate \/ q.kind \in CfLoose \/ (r = "ok" /\ CfWrites(q)), ~CfAnswering(q), q.at # "lock"
  PROVE  CfGood(q, r, n)
<1>1. CfTyped(n) /\ ~CfHolding(n)
  BY DEF CfTyped, CfOnly, CfHolding
<1> QED
  BY <1>1 DEF CfOnly, CfGood

LEMMA CfOnceGood ==
  ASSUME NEW q, CfGoes(q), q.kind \in CfOnceKinds, NEW r \in CfResults, NEW n \in CfThen(q, r)
  PROVE  CfGood(q, r, n)
<1>1. q \in CfStates /\ q.at = "set" /\ ~CfAnswering(q) /\ "done" \in CfStepsOf(q.kind) /\ q.kind # "none" /\ CfWrites(q)
  BY DEF CfGoes, CfTyped, CfStepsOf, CfOnceKinds, CfOver, CfAnswering, CfLan, CfSol, CfWrites
<1>2. n = CfSingle(q, r)
  BY DEF CfGoes, CfThen, CfOnceKinds, CfLan
<1>3. (n = CfTo(q, "done") /\ (r = "ok" \/ q.kind = "stats")) \/ n = CfFail(q)
  BY <1>2 DEF CfOnceKinds, CfSingle, CfOnce, ipmi_user_set_userpriv, ipmi_user_set_password, ipmi_user_set_username,
     ipmi_lan_set_password, CfLanSetUser, ipmi_chassis_power_policy, ipmi_chassis_power_control, ipmi_lan_stats_clear
<1>4. CASE n = CfFail(q)
  BY <1>1, <1>4, CfMoves, CfFailGood DEF CfGoes
<1>5. CASE n = CfTo(q, "done") /\ (r = "ok" \/ q.kind = "stats")
  BY <1>1, <1>5, CfMoves, CfDoneGood DEF CfGoes, CfSteps, CfLoose
<1> QED
  BY <1>3, <1>4, <1>5

(* What was read is added.                                                 *)
LEMMA CfReadGood ==
  ASSUME NEW q, CfTyped(q), q.at \in {"get", "get2"}, NEW r, r = "ok", NEW at \in CfStepsOf(q.kind) \ (CfLate \cup {"new"}),
         CfTypes, NEW n, n = CfWithOld(q, at)
  PROVE  CfGood(q, r, n)
<1>1. q \in CfStates /\ at \in CfSteps /\ CfArea(q) \in CfAreas /\ ~CfAnswering(q)
  <2>1. at \in CfSteps
    BY DEF CfTyped, CfStates, CfStepsOf, CfSteps
  <2> QED
    BY <2>1, CfAreaTyped DEF CfTyped, CfAnswering
<1>2. cfVal[CfArea(q)] \subseteq CfBits
  BY <1>1 DEF CfTypes
<1>3. /\ n \in CfStates /\ n.kind = q.kind /\ n.at = at /\ n.rc = q.rc /\ n.data = q.data \cup (cfVal[CfArea(q)] \ CfDropped(q.kind))
  BY <1>1, <1>2 DEF CfWithOld, CfTo, CfStates
<1> QED
  BY <1>1, <1>2, <1>3 DEF CfGood, CfTyped, CfNoData

LEMMA CfAccessGood ==
  ASSUME NEW q, CfGoes(q), q.kind = "access", NEW r \in CfResults, NEW n \in CfThen(q, r), CfTypes
  PROVE  CfGood(q, r, n)
<1>1. q \in CfStates /\ q.at \in {"get", "set", "get2", "set2"} /\ ~CfAnswering(q)
  BY DEF CfGoes, CfTyped, CfStepsOf, CfOver, CfAnswering, CfLan, CfSol
<1>2. n = ipmi_set_channel_access(q, r)
  BY DEF CfGoes, CfThen, CfOnceKinds, CfLan
<1>3. CASE r # "ok"
  BY <1>1, <1>2, <1>3, CfMoves, CfFailGood DEF CfGoes, ipmi_set_channel_access
<1>4. CASE r = "ok" /\ q.at \in {"get", "get2"}
  BY <1>1, <1>2, <1>4, CfReadGood DEF CfGoes, ipmi_set_channel_access, CfStepsOf, CfLate
<1>5. CASE r = "ok" /\ q.at = "set"
  <2>1. n \in CfStates /\ n.kind = q.kind /\ n.at = "get2" /\ n.rc = q.rc /\ n.data = q.data \cap CfModes
    BY <1>1, <1>2, <1>5 DEF ipmi_set_channel_access, CfTo, CfStates, CfSteps
  <2>2. CfTyped(n) /\ ~CfHolding(n)
    BY <2>1 DEF CfTyped, CfStepsOf, CfHolding
  <2> QED
    BY <1>1, <1>5, <2>1, <2>2 DEF CfGood, CfLate, CfNoData
<1>6. CASE r = "ok" /\ q.at = "set2"
  <2>1. n = CfTo(q, "done") /\ CfWrites(q) /\ "done" \in CfStepsOf(q.kind)
    BY <1>2, <1>6 DEF ipmi_set_channel_access, CfWrites, CfStepsOf
  <2> QED
    BY <1>1, <1>6, <2>1, CfMoves, CfDoneGood DEF CfGoes, CfSteps
<1> QED
  BY <1>1, <1>3, <1>4, <1>5, <1>6

LEMMA CfAlertingGood ==
  ASSUME NEW q, CfGoes(q), q.kind = "alerting", NEW r \in CfResults, NEW n \in CfThen(q, r), CfTypes
  PROVE  CfGood(q, r, n)
<1>1. q \in CfStates /\ q.at \in {"get", "set", "both"} /\ ~CfAnswering(q)
  BY DEF CfGoes, CfTyped, CfStepsOf, CfOver, CfAnswering, CfLan, CfSol
<1>2. n = ipmi_set_alert_enable(q, r)
  BY DEF CfGoes, CfThen, CfOnceKinds, CfLan
<1>3. CASE r # "ok"
  BY <1>1, <1>2, <1>3, CfMoves, CfFailGood DEF CfGoes, ipmi_set_alert_enable
<1>4. CASE r = "ok" /\ q.at = "get"
  BY <1>1, <1>2, <1>4, CfReadGood DEF CfGoes, ipmi_set_alert_enable, CfStepsOf, CfLate
<1>5. CASE r = "ok" /\ q.at = "set"
  <2>1. CfOnly(q, n, "both", q.rc)
    BY <1>1, <1>2, <1>5, CfMoves DEF ipmi_set_alert_enable, CfSteps
  <2>2. CfTyped(n) /\ ~CfHolding(n)
    BY <2>1 DEF CfOnly, CfTyped, CfStepsOf, CfHolding
  <2> QED
    BY <1>1, <1>5, <2>1, <2>2 DEF CfOnly, CfGood, CfWrites, CfNoData
<1>6. CASE r = "ok" /\ q.at = "both"
  <2>1. n = CfTo(q, "done") /\ q.at \in CfLate /\ "done" \in CfStepsOf(q.kind)
    BY <1>2, <1>6 DEF ipmi_set_alert_enable, CfLate, CfStepsOf
  <2> QED
    BY <1>1, <1>6, <2>1, CfMoves, CfDoneGood DEF CfGoes, CfSteps
<1> QED
  BY <1>1, <1>3, <1>4, <1>5, <1>6

LEMMA CfSetAccessGood ==
  ASSUME NEW q, CfGoes(q), q.kind = "setaccess", NEW r \in CfResults, NEW n \in CfThen(q, r), CfTypes
  PROVE  CfGood(q, r, n)
<1>1. q \in CfStates /\ q.at \in {"get", "set"} /\ ~CfAnswering(q)
  BY DEF CfGoes, CfTyped, CfStepsOf, CfOver, CfAnswering, CfLan, CfSol
<1>2. n \in ipmi_set_user_access(q, r)
  BY DEF CfGoes, CfThen, CfOnceKinds, CfLan
<1>3. CASE n = CfFail(q)
  BY <1>1, <1>3, CfMoves, CfFailGood DEF CfGoes
<1>4. CASE r = "ok" /\ q.at = "get" /\ n = CfWithOld(q, "set")
  BY <1>1, <1>4, CfReadGood DEF CfGoes, CfStepsOf, CfLate
<1>6. CASE r = "ok" /\ q.at = "get" /\ n = CfWithOld([q EXCEPT !.data = {}], "set")
  <2>1. CfArea(q) \in CfAreas /\ cfVal[CfArea(q)] \subseteq CfBits
    BY <1>1, CfAreaTyped DEF CfGoes, CfTypes
  <2>2. PICK m : m = [q EXCEPT !.data = {}]
    OBVIOUS
  <2>3. m \in CfStates /\ m.kind = q.kind /\ m.at = q.at /\ m.rc = q.rc /\ m.data = {} /\ CfArea(m) = CfArea(q)
    BY <1>1, <2>2 DEF CfStates, CfArea
  <2>4. /\ n \in CfStates /\ n.kind = q.kind /\ n.at = "set" /\ n.rc = q.rc
        /\ n.data = cfVal[CfArea(q)] \ CfDropped(q.kind)
    BY <1>6, <2>1, <2>2, <2>3 DEF CfWithOld, CfTo, CfStates, CfSteps
  <2>5. CfTyped(n)
    BY <2>4 DEF CfTyped, CfStepsOf
  <2> QED
    BY <1>1, <1>6, <2>1, <2>4, <2>5 DEF CfGood, CfNoData, CfLate
<1>5. CASE r = "ok" /\ q.at = "set" /\ n = CfTo(q, "done")
  <2>1. CfWrites(q) /\ "done" \in CfStepsOf(q.kind)
    BY <1>5 DEF CfWrites, CfStepsOf
  <2> QED
    BY <1>1, <1>5, <2>1, CfMoves, CfDoneGood DEF CfGoes, CfSteps
<1> QED
  BY <1>1, <1>2, <1>3, <1>4, <1>5, <1>6 DEF ipmi_set_user_access

LEMMA CfEnablesGood ==
  ASSUME NEW q, CfGoes(q), q.kind = "enables", NEW r \in CfResults, NEW n \in CfThen(q, r), CfTypes
  PROVE  CfGood(q, r, n)
<1>1. q \in CfStates /\ q.at \in {"get", "set", "show"} /\ ~CfAnswering(q)
  BY DEF CfGoes, CfTyped, CfStepsOf, CfOver, CfAnswering, CfLan, CfSol
<1>2. n \in ipmi_mc_set_enables(q, r)
  BY DEF CfGoes, CfThen, CfOnceKinds, CfLan
<1>3. CASE n = CfFail(q)
  BY <1>1, <1>3, CfMoves, CfFailGood DEF CfGoes
<1>4. CASE r = "ok" /\ q.at = "get" /\ n = CfWithOld(q, "set")
  BY <1>1, <1>4, CfReadGood DEF CfGoes, CfStepsOf, CfLate
<1>5. CASE q.at = "get" /\ n = CfUsage(q)
  BY <1>1, <1>5, CfMoves, CfUsageGood DEF CfGoes, CfStepsOf
<1>6. CASE r = "ok" /\ q.at = "set" /\ n = CfTo(q, "show")
  <2>1. CfOnly(q, n, "show", q.rc)
    BY <1>1, <1>6, CfMoves DEF CfSteps
  <2>2. CfTyped(n) /\ ~CfHolding(n)
    BY <2>1 DEF CfOnly, CfTyped, CfStepsOf, CfHolding
  <2> QED
    BY <1>1, <1>6, <2>1, <2>2 DEF CfOnly, CfGood, CfWrites, CfNoData
<1>7. CASE q.at = "show" /\ n = CfTo(q, "done")
  <2>1. q.at \in CfLate /\ "done" \in CfStepsOf(q.kind)
    BY <1>7 DEF CfLate, CfStepsOf
  <2> QED
    BY <1>1, <1>7, <2>1, CfMoves, CfDoneGood DEF CfGoes, CfSteps
<1> QED
  BY <1>1, <1>2, <1>3, <1>4, <1>5, <1>6, <1>7 DEF ipmi_mc_set_enables

LEMMA CfBootGood ==
  ASSUME NEW q, CfGoes(q), q.kind = "boot", NEW r \in CfResults, NEW n \in CfThen(q, r)
  PROVE  CfGood(q, r, n)
<1>1. q \in CfStates /\ q.at \in {"lock", "ack", "set", "commit", "complete"}
  BY DEF CfGoes, CfTyped, CfStepsOf, CfOver
<1>2. n \in ipmi_chassis_set_bootdev(q, r)
  BY DEF CfGoes, CfThen, CfOnceKinds, CfLan
<1>3. ASSUME n \in CfStates, n.kind = q.kind, n.data = q.data, n.at \in CfStepsOf("boot") \ {"new"},
             n.at \in CfLate /\ n.rc = 0 => (q.at \in CfLate /\ q.rc = 0) \/ (r = "ok" /\ q.at = "set"),
             q.at # "lock" /\ q.guard => n.guard /\ (n.at \in {"set", "commit", "complete"} \/ q.at = "complete"),
             q.at = "lock" /\ r = "ok" => n.guard /\ n.at = "ack"
      PROVE  CfGood(q, r, n)
  BY <1>1, <1>3 DEF CfGood, CfTyped, CfHolding, CfAnswering, CfLan, CfSol, CfWrites, CfNoData
<1>4. CASE q.at = "lock"
  <2>1. n = [[q EXCEPT !.at = "ack"] EXCEPT !.guard = (r = "ok")]
    BY <1>2, <1>4 DEF ipmi_chassis_set_bootdev, CfTo
  <2>2. n \in CfStates /\ n.kind = q.kind /\ n.data = q.data /\ n.at = "ack" /\ (r = "ok" => n.guard)
    BY <1>1, <2>1 DEF CfStates, CfSteps
  <2> QED
    BY <1>3, <1>4, <2>2 DEF CfStepsOf, CfLate
<1>5. CASE q.at \in {"ack", "set", "commit", "complete"}
  <2>1. ASSUME NEW at \in CfSteps, NEW rc \in {q.rc, -1}
        PROVE  LET m == [[q EXCEPT !.at = at] EXCEPT !.rc = rc] IN CfOnly(q, m, at, rc)
    BY <1>1 DEF CfOnly, CfStates, CfSteps
  <2>2. ASSUME NEW at \in {"set", "commit", "complete", "done"}, NEW rc \in {q.rc, -1}, CfOnly(q, n, at, rc),
               q.guard => at # "done" \/ q.at = "complete",
               at \in CfLate /\ rc = 0 => (q.at \in CfLate /\ q.rc = 0) \/ (r = "ok" /\ q.at = "set")
        PROVE  CfGood(q, r, n)
    <3>1. n \in CfStates /\ n.kind = q.kind /\ n.data = q.data /\ n.at = at /\ n.rc = rc /\ n.guard = q.guard
      BY <2>2 DEF CfOnly
    <3>2. at \in CfStepsOf("boot") \ {"new"}
      BY <2>2 DEF CfStepsOf
    <3> QED
      BY <1>3, <1>5, <2>2, <3>1, <3>2
  <2>3. CASE q.at = "ack"
    <3>1. \/ r = "ok" /\ n = CfTo(q, "set")
          \/ n = [CfTo(q, IF q.guard THEN "complete" ELSE "done") EXCEPT !.rc = -1]
      BY <1>2, <2>3 DEF ipmi_chassis_set_bootdev
    <3>2. CASE n = CfTo(q, "set")
      BY <1>1, <2>2, <2>3, <3>2, CfMoves DEF CfSteps, CfLate
    <3>3. CASE n = [CfTo(q, IF q.guard THEN "complete" ELSE "done") EXCEPT !.rc = -1]
      <4>1. CfOnly(q, n, IF q.guard THEN "complete" ELSE "done", -1)
        BY <1>1, <2>1, <3>3 DEF CfTo, CfSteps
      <4> QED
        BY <2>2, <4>1
    <3> QED
      BY <3>1, <3>2, <3>3
  <2>4. CASE q.at = "set"
    <3>1. \/ r = "ok" /\ n = CfTo(q, IF q.guard THEN "commit" ELSE "done")
          \/ n = [CfTo(q, IF q.guard THEN "complete" ELSE "done") EXCEPT !.rc = -1]
      BY <1>2, <2>4 DEF ipmi_chassis_set_bootdev
    <3>2. CASE r = "ok" /\ n = CfTo(q, IF q.guard THEN "commit" ELSE "done")
      <4>1. CfOnly(q, n, IF q.guard THEN "commit" ELSE "done", q.rc)
        BY <1>1, CfMoves, <3>2 DEF CfSteps
      <4> QED
        BY <2>2, <2>4, <3>2, <4>1
    <3>3. CASE n = [CfTo(q, IF q.guard THEN "complete" ELSE "done") EXCEPT !.rc = -1]
      <4>1. CfOnly(q, n, IF q.guard THEN "complete" ELSE "done", -1)
        BY <1>1, <2>1, <3>3 DEF CfTo, CfSteps
      <4> QED
        BY <2>2, <4>1
    <3> QED
      BY <3>1, <3>2, <3>3
  <2>5. CASE q.at = "commit"
    <3>1. n = CfTo(q, "complete")
      BY <1>2, <2>5 DEF ipmi_chassis_set_bootdev
    <3> QED
      BY <1>1, <2>2, <2>5, <3>1, CfMoves DEF CfSteps, CfLate
  <2>6. CASE q.at = "complete"
    <3>1. n = CfTo(q, "done")
      BY <1>2, <2>6 DEF ipmi_chassis_set_bootdev
    <3> QED
      BY <1>1, <2>2, <2>6, <3>1, CfMoves DEF CfSteps, CfLate
  <2> QED
    BY <1>5, <2>3, <2>4, <2>5, <2>6
<1> QED
  BY <1>1, <1>4, <1>5

LEMMA CfSolGood ==
  ASSUME NEW q, CfGoes(q), q.kind \in CfSol \cup {"noguard"}, NEW r \in CfResults, NEW n \in CfThen(q, r), CfTypes
  PROVE  CfGood(q, r, n)
<1>1. q \in CfStates /\ q.at \in {"info", "get", "info2", "lock", "set", "commit", "complete"}
  BY DEF CfGoes, CfTyped, CfStepsOf, CfOver, CfSol
<1>2. n \in (CASE q.at = "info" -> ipmi_get_sol_info(q, r)
                [] q.at = "get" -> CfSolInfoGot(q, r)
                [] q.at = "info2" -> CfSolInfoRest(q, r)
                [] OTHER -> {ipmi_sol_set_param(q, r)})
  BY DEF CfGoes, CfThen, CfOnceKinds, CfLan, CfSol
<1>3. CASE n = CfFail(q) /\ q.at \in {"info", "get", "info2"}
  <2>1. ~CfAnswering(q)
    BY <1>3 DEF CfAnswering, CfLan, CfSol
  <2> QED
    BY <1>1, <1>3, <2>1, CfMoves, CfFailGood DEF CfGoes, CfSol
<1>4. CASE q.at = "info" /\ n = CfTo(q, "get")
  <2>1. CfOnly(q, n, "get", q.rc) /\ ~CfAnswering(q) /\ "get" \in CfStepsOf(q.kind) \ (CfLate \cup {"new"})
    BY <1>1, <1>4, CfMoves DEF CfSteps, CfAnswering, CfLan, CfSol, CfStepsOf, CfLate, CfGoes, CfTyped
  <2>2. ~CfHolding(n)
    BY <2>1 DEF CfHolding, CfOnly
  <2> QED
    BY <1>4, <2>1, <2>2, CfMoveGood DEF CfGoes
<1>5. CASE q.at = "get" /\ r = "ok" /\ n = CfWithOld(q, "info2")
  <2>1. "info2" \in CfStepsOf(q.kind) \ (CfLate \cup {"new"})
    BY <1>5 DEF CfStepsOf, CfLate, CfGoes, CfTyped, CfSol
  <2> QED
    BY <1>5, <2>1, CfReadGood DEF CfGoes
<1>6. ASSUME NEW d \in SUBSET {0}, q.at = "get", r # "ok", n = [CfTo(q, "info2") EXCEPT !.data = @ \cup d]
      PROVE  CfGood(q, r, n)
  <2>1. n \in CfStates /\ n.kind = q.kind /\ n.at = "info2" /\ n.rc = q.rc /\ n.data = q.data \cup d
    BY <1>1, <1>6 DEF CfTo, CfStates, CfSteps, CfBits
  <2>2. CfTyped(n) /\ ~CfAnswering(q) /\ q.kind \in {"sol", "noguard", "interval"}
    BY <1>6, <2>1 DEF CfTyped, CfStepsOf, CfAnswering, CfLan, CfSol, CfGoes
  <2> QED
    BY <1>6, <2>1, <2>2 DEF CfGood, CfLate, CfNoData
<1>7. CASE q.at = "info2" /\ n = CfTo(q, IF q.kind = "noguard" THEN "set" ELSE "lock")
  <2>1. CfOnly(q, n, IF q.kind = "noguard" THEN "set" ELSE "lock", q.rc) /\ ~CfAnswering(q)
        /\ (IF q.kind = "noguard" THEN "set" ELSE "lock") \in CfStepsOf(q.kind) \ (CfLate \cup {"new"})
    BY <1>1, <1>7, CfMoves DEF CfSteps, CfAnswering, CfLan, CfSol, CfStepsOf, CfLate, CfGoes, CfTyped
  <2>2. CfHolding(q)
    BY <1>7 DEF CfHolding, CfGoes, CfTyped, CfStepsOf, CfSol
  <2> QED
    BY <1>7, <2>1, <2>2, CfMoveGood DEF CfGoes
<1>8. CASE q.at \in {"lock", "set", "commit", "complete"} /\ n = ipmi_sol_set_param(q, r)
  <2>0. q.at # "set" => q.kind # "noguard"
    BY <1>8 DEF CfGoes, CfTyped, CfStepsOf
  <2>1. ASSUME NEW at \in {"set", "commit", "complete", "done"}, NEW rc \in {q.rc, -1}, CfOnly(q, n, at, rc),
               at = "set" => q.at = "lock",
               at \in CfLate /\ rc = 0 => (q.at \in CfLate /\ q.rc = 0) \/ (r = "ok" /\ q.at = "set"),
               q.at = "lock" /\ r = "ok" => at = "set", at \in {"set", "commit", "complete"} => q.kind # "noguard",
               q.kind # "noguard" /\ q.at # "lock" =>
                 at \in {"set", "commit", "complete"} \/ q.at = "complete" \/ (q.at = "set" /\ r = "none")
        PROVE  CfGood(q, r, n)
    <3>1. n \in CfStates /\ n.kind = q.kind /\ n.data = q.data /\ n.at = at /\ n.rc = rc
      BY <2>1 DEF CfOnly
    <3>2. CfTyped(n)
      BY <2>1, <3>1 DEF CfTyped, CfStepsOf, CfSol
    <3>3. CfHolding(n) => CfHolding(q)
      BY <2>1, <3>1 DEF CfHolding, CfSol
    <3>4. CfAnswering(n) \/ at = "done"
      BY <2>1, <3>1 DEF CfAnswering, CfSol
    <3>5. CfAnswering(q) => q.kind # "noguard" /\ q.at # "lock"
      BY <1>8 DEF CfAnswering, CfSol, CfLan
    <3>6. q.kind \notin CfLan /\ q.kind \notin {"access", "setaccess"} /\ (q.kind # "noguard" => q.kind \in CfSol)
      BY DEF CfSol, CfLan
    <3> QED
      BY <1>8, <2>1, <3>1, <3>2, <3>3, <3>4, <3>5, <3>6 DEF CfGood, CfWrites, CfNoData
  <2>2. CASE q.at = "lock"
    <3>0. n = IF r = "ok" THEN CfTo(q, "set") ELSE CfFail(q)
      BY <1>8, <2>2 DEF ipmi_sol_set_param
    <3>1. (n = CfTo(q, "set") /\ r = "ok") \/ (n = CfFail(q) /\ r # "ok")
      BY <3>0
    <3> QED
      BY <1>1, <2>0, <2>1, <2>2, <3>1, CfMoves DEF CfSteps, CfLate
  <2>3. CASE q.at = "set"
    <3>1. \/ n = CfFail(q) /\ (r = "none" \/ q.kind = "noguard")
          \/ n = CfTo(q, "done") /\ q.kind = "noguard" /\ r = "ok"
          \/ n = [CfTo(q, "complete") EXCEPT !.rc = -1] /\ q.kind # "noguard"
          \/ n = CfTo(q, "commit") /\ q.kind # "noguard" /\ r = "ok"
      BY <1>8, <2>3 DEF ipmi_sol_set_param, CfResults
    <3>2. CfOnly(q, [CfTo(q, "complete") EXCEPT !.rc = -1], "complete", -1)
      BY <1>1 DEF CfOnly, CfTo, CfStates, CfSteps
    <3>3. CASE n = CfFail(q) /\ (r = "none" \/ q.kind = "noguard")
      BY <1>1, <2>1, <2>3, <3>3, CfMoves
    <3>4. CASE n = CfTo(q, "done") /\ q.kind = "noguard" /\ r = "ok"
      BY <1>1, <2>1, <2>3, <3>4, CfMoves DEF CfSteps
    <3>5. CASE n = [CfTo(q, "complete") EXCEPT !.rc = -1] /\ q.kind # "noguard"
      BY <1>1, <2>1, <2>3, <3>5, <3>2
    <3>6. CASE n = CfTo(q, "commit") /\ q.kind # "noguard" /\ r = "ok"
      BY <1>1, <2>1, <2>3, <3>6, CfMoves DEF CfSteps
    <3> QED
      BY <3>1, <3>3, <3>4, <3>5, <3>6
  <2>4. CASE q.at = "commit"
    <3>1. n = CfTo(q, "complete")
      BY <1>8, <2>4 DEF ipmi_sol_set_param
    <3> QED
      BY <1>1, <2>0, <2>1, <2>4, <3>1, CfMoves DEF CfSteps, CfLate
  <2>5. CASE q.at = "complete"
    <3>1. n = [CfTo(q, "done") EXCEPT !.rc = IF r = "ok" THEN @ ELSE -1]
      BY <1>8, <2>5 DEF ipmi_sol_set_param
    <3>2. CfOnly(q, n, "done", IF r = "ok" THEN q.rc ELSE -1)
      BY <1>1, <3>1 DEF CfOnly, CfTo, CfStates, CfSteps
    <3> QED
      BY <1>1, <2>0, <2>1, <2>5, <3>2 DEF CfLate
  <2> QED
    BY <1>8, <2>2, <2>3, <2>4, <2>5
<1>9. CASE q.at = "info"
  BY <1>2, <1>3, <1>4, <1>9 DEF ipmi_get_sol_info
<1>10. CASE q.at = "get"
  BY <1>2, <1>3, <1>5, <1>6, <1>10 DEF CfSolInfoGot, CfResults
<1>11. CASE q.at = "info2"
  BY <1>2, <1>3, <1>7, <1>11 DEF CfSolInfoRest
<1> QED
  BY <1>1, <1>2, <1>8, <1>9, <1>10, <1>11

LEMMA CfTries ==
  ASSUME NEW q \in CfStates, NEW at \in CfSteps, NEW m \in Int
  PROVE  /\ CfOnly(q, [q EXCEPT !.at = at, !.retry = m], at, q.rc)
         /\ CfOnly(q, [q EXCEPT !.retry = m], q.at, q.rc)
         /\ CfOnly(q, [q EXCEPT !.at = at, !.rc = -1], at, -1)
         /\ q.retry \in Int /\ q.retry - 1 \in Int
<1>1. CfOnly(q, [q EXCEPT !.at = at, !.retry = m], at, q.rc)
  BY DEF CfOnly, CfStates
<1>2. CfOnly(q, [q EXCEPT !.retry = m], q.at, q.rc)
  BY DEF CfOnly, CfStates
<1>3. CfOnly(q, [q EXCEPT !.at = at, !.rc = -1], at, -1)
  BY DEF CfOnly, CfStates
<1>4. q.retry \in Int /\ q.retry - 1 \in Int
  BY DEF CfStates
<1> QED
  BY <1>1, <1>2, <1>3, <1>4

LEMMA CfLanGood ==
  ASSUME NEW q, CfGoes(q), q.kind \in CfLan, NEW r \in CfResults, NEW n \in CfThen(q, r), CfTypes
  PROVE  CfGood(q, r, n)
<1>0. q \in CfStates /\ CfTyped(q) /\ q.kind \notin CfSol \cup {"none", "access", "setaccess", "boot"} /\ CfRetry \in Int
  BY CfNumbers DEF CfGoes, CfTyped, CfLan, CfSol
<1>1. q.at \in {"get", "state", "lock", "set", "again", "verify", "commit", "complete"}
  BY DEF CfGoes, CfTyped, CfStepsOf, CfOver, CfLan
<1>2. n \in CfLanThen(q, r)
  BY DEF CfGoes, CfThen, CfLan, CfOnceKinds
<1>3. CASE q.at = "get"
  <2>1. CASE n = CfFail(q)
    BY <1>0, <1>3, <2>1, CfMoves, CfFailGood DEF CfAnswering
  <2>2. CASE r = "ok" /\ n = CfWithOld(q, "state")
    <3>1. "state" \in CfStepsOf(q.kind) \ (CfLate \cup {"new"})
      BY <1>0 DEF CfStepsOf, CfLate, CfLan
    <3> QED
      BY <1>0, <1>3, <2>2, <3>1, CfReadGood
  <2>3. CASE q.kind = "alert" /\ n = [CfTo(q, "state") EXCEPT !.data = {}]
    <3>1. n \in CfStates /\ n.kind = q.kind /\ n.at = "state" /\ n.rc = q.rc /\ n.data = {}
      BY <1>0, <2>3 DEF CfTo, CfStates, CfSteps
    <3>2. CfTyped(n) /\ CfNoData(n)
      BY <2>3, <3>1 DEF CfTyped, CfStepsOf, CfNoData
    <3> QED
      BY <1>0, <1>3, <3>1, <3>2 DEF CfGood, CfLate, CfAnswering
  <2>4. CASE q.kind = "arp"
    BY <1>2, <1>3, <2>1, <2>2, <2>4 DEF CfLanThen, lan_set_arp_generate
  <2>5. CASE q.kind = "auth"
    BY <1>2, <1>3, <2>1, <2>2, <2>5 DEF CfLanThen, ipmi_lan_set_auth
  <2>6. CASE q.kind = "alert"
    <3>1. n \in ipmi_lan_alert_set(q, r)
      BY <1>2, <1>3, <2>6 DEF CfLanThen
    <3> QED
      BY <2>1, <2>2, <2>3, <2>6, <3>1 DEF ipmi_lan_alert_set, CfResults
  <2> QED
    BY <1>0, <1>3, <2>4, <2>5, <2>6 DEF CfTyped, CfStepsOf, CfLan
<1>4. ASSUME n \in CfStates, n.kind = q.kind, n.data = q.data, q.at # "get",
             n.at \in {"state", "lock", "set", "again", "verify", "commit", "complete"} \/ (q.at = "complete" /\ n.at = "done"),
             n.at \in {"again", "verify"} => q.kind # "alert",
             n.at \in {"state", "lock", "set", "again", "verify"} => q.at \in {"state", "lock", "set", "again", "verify"},
             n.at \in CfLate /\ n.rc = 0 /\ n.kind \notin CfLoose =>
               (q.at \in CfLate /\ q.rc = 0) \/ (r = "ok" /\ q.at = "verify" /\ cfVal[CfArea(q)] = q.data)
      PROVE  CfGood(q, r, n)
  <2>1. CfTyped(n)
    BY <1>0, <1>4 DEF CfTyped, CfStepsOf, CfLan
  <2>2. CfHolding(n) => CfHolding(q)
    BY <1>0, <1>1, <1>4 DEF CfHolding, CfLan
  <2>3. CfAnswering(n) \/ q.at = "complete"
    BY <1>0, <1>4 DEF CfAnswering
  <2> QED
    BY <1>0, <1>4, <2>1, <2>2, <2>3 DEF CfGood, CfNoData
<1>5. CASE q.at = "state"
  <2>1. n = ipmi_lanp_lock(q, r)
    BY <1>2, <1>5 DEF CfLanThen
  <2>2. n = [q EXCEPT !.at = "set", !.retry = CfRetry] \/ n = [q EXCEPT !.at = "lock", !.retry = @ - 1]
    BY <2>1, Zenon DEF ipmi_lanp_lock
  <2>3. n \in CfStates /\ n.kind = q.kind /\ n.data = q.data /\ n.at \in {"set", "lock"}
    <3>1. CfOnly(q, n, "set", q.rc) \/ CfOnly(q, n, "lock", q.rc)
      BY <1>0, <2>2, CfTries, ZenonT(60) DEF CfSteps
    <3> QED
      BY <3>1 DEF CfOnly
  <2> QED
    BY <1>4, <1>5, <2>3 DEF CfLate
<1>6. CASE q.at = "lock"
  <2>1. n = CfTo(q, "state")
    BY <1>2, <1>6 DEF CfLanThen
  <2> QED
    BY <1>0, <1>4, <1>6, <2>1, CfMoves DEF CfOnly, CfSteps, CfLate
<1>7. CASE q.at = "set"
  <2>1. n \in __set_lan_param(q, r)
    BY <1>2, <1>7 DEF CfLanThen
  <2>2. /\ n \in CfStates /\ n.kind = q.kind /\ n.data = q.data
        /\ (n.at = "commit" /\ (n.rc = -1 \/ q.kind = "alert")) \/ (n.at \in {"again", "verify"} /\ q.kind # "alert")
    <3>1. \/ CfOnly(q, n, "commit", -1) \/ (CfOnly(q, n, "commit", q.rc) /\ q.kind = "alert")
          \/ (q.kind # "alert" /\ (CfOnly(q, n, "again", q.rc) \/ CfOnly(q, n, "verify", q.rc)))
      <4>1. \/ n = [q EXCEPT !.at = "commit", !.rc = -1] \/ (n = CfTo(q, "commit") /\ q.kind = "alert")
            \/ (q.kind # "alert" /\ (n = CfToWait(q) \/ n = [q EXCEPT !.at = "again", !.retry = CfRetry]))
        BY <2>1 DEF __set_lan_param
      <4>2. CfOnly(q, CfToWait(q), "verify", q.rc) /\ CfOnly(q, [q EXCEPT !.at = "again", !.retry = CfRetry], "again", q.rc)
        BY <1>0, CfTries DEF CfToWait, CfSteps
      <4>3. CfOnly(q, [q EXCEPT !.at = "commit", !.rc = -1], "commit", -1) /\ CfOnly(q, CfTo(q, "commit"), "commit", q.rc)
        BY <1>0, CfTries, CfMoves DEF CfSteps
      <4> QED
        BY <4>1, <4>2, <4>3
    <3> QED
      BY <3>1 DEF CfOnly
  <2> QED
    BY <1>4, <1>7, <2>2 DEF CfLate, CfLoose
<1>8. CASE q.at = "again"
  <2>1. n = CfAgain(q, r)
    BY <1>2, <1>8 DEF CfLanThen
  <2>2. n \in CfStates /\ n.kind = q.kind /\ n.data = q.data /\ n.at \in {"again", "verify"}
    <3>1. CfOnly(q, n, "again", q.rc) \/ CfOnly(q, n, "verify", q.rc)
      BY <1>0, <1>8, <2>1, CfTries DEF CfAgain, CfToWait, CfSteps
    <3> QED
      BY <3>1 DEF CfOnly
  <2>3. q.kind # "alert"
    BY <1>0, <1>8 DEF CfTyped, CfStepsOf
  <2> QED
    BY <1>4, <1>8, <2>2, <2>3 DEF CfLate
<1>9. CASE q.at = "verify"
  <2>1. n = set_lan_param_wait(q, r)
    BY <1>2, <1>9 DEF CfLanThen
  <2>2. /\ n \in CfStates /\ n.kind = q.kind /\ n.data = q.data
        /\ n.at = "verify" \/ (n.at = "commit" /\ (n.rc = -1 \/ (r = "ok" /\ cfVal[CfArea(q)] = q.data)))
    <3>1. \/ CfOnly(q, n, "verify", q.rc) \/ CfOnly(q, n, "commit", -1)
          \/ (CfOnly(q, n, "commit", q.rc) /\ r = "ok" /\ cfVal[CfArea(q)] = q.data)
      BY <1>0, <1>9, <2>1, CfTries, CfMoves DEF set_lan_param_wait, CfSteps
    <3> QED
      BY <3>1 DEF CfOnly
  <2>3. q.kind # "alert"
    BY <1>0, <1>9 DEF CfTyped, CfStepsOf
  <2> QED
    BY <1>4, <1>9, <2>2, <2>3 DEF CfLate
<1>10. CASE q.at \in {"commit", "complete"}
  <2>1. n = ipmi_lanp_unlock(q)
    BY <1>2, <1>10 DEF CfLanThen
  <2>2. /\ n \in CfStates /\ n.kind = q.kind /\ n.data = q.data /\ (n.rc = q.rc \/ q.kind = "vlan")
        /\ n.at = "complete" \/ (q.at = "complete" /\ n.at = "done")
    BY <1>0, <1>10, <2>1 DEF ipmi_lanp_unlock, CfTo, CfStates, CfSteps
  <2> QED
    BY <1>4, <1>10, <2>2 DEF CfLate, CfLoose
<1> QED
  BY <1>1, <1>3, <1>5, <1>6, <1>7, <1>8, <1>9, <1>10

(* Every handler keeps to it.                                              *)
LEMMA CfThenGood ==
  ASSUME NEW q, CfTyped(q), q.at \notin CfOver \cup {"new"}, NEW r \in CfResults, NEW n \in CfThen(q, r), CfTypes
  PROVE  CfGood(q, r, n)
<1>1. CASE q.at \in {"find", "channel", "dest"}
  BY <1>1, CfFoundGood
<1>2. CASE q.at \notin {"find", "channel", "dest"}
  <2>1. CfGoes(q)
    BY <1>2 DEF CfGoes
  <2>2. q.kind \in CfLan \cup CfOnceKinds \cup CfSol \cup {"noguard", "access", "alerting", "boot", "enables", "setaccess"}
    BY <1>2 DEF CfTyped, CfStates, CfKinds, CfStepsOf, CfSol
  <2> QED
    BY <2>1, <2>2, CfLanGood, CfOnceGood, CfSolGood, CfAccessGood, CfAlertingGood, CfBootGood, CfEnablesGood, CfSetAccessGood
<1> QED
  BY <1>1, <1>2

(* A step of a process: its request is carried out or not, it gets result  *)
(* r, and a result other than "ok" is recorded unless it was a refusal.    *)
CfHurtBy(q, r) == [kind |-> q.kind, at |-> q.at, result |-> r]
CfEffect(p, r, n) ==
  /\ r \in CfResults /\ CfGood(cfProc[p], r, n) /\ cfProc[p].at \notin {"new", "done"} /\ cfProc' = [cfProc EXCEPT ![p] = n]
  /\ cfHurt \subseteq cfHurt'
  /\ r = "ok" \/ CfHurtBy(cfProc[p], r) \in cfHurt' \/ (r = "err" /\ CfRefused(cfProc[p]))
  /\ \/ CfDone(p, cfProc[p]) /\ ~CfRefused(cfProc[p]) /\ r # "err"
     \/ UNCHANGED <<cfVal, cfMade, cfBusy>> /\ r # "ok"

LEMMA CfEffects ==
  ASSUME CfTypes, NEW p \in CfProcs, CfAnswered(p) \/ CfNotDone(p) \/ CfAnswerLost(p)
  PROVE  \E r, n : CfEffect(p, r, n)
<1>1. CfTyped(cfProc[p]) /\ cfProc[p].at \notin CfOver \cup {"new"}
  BY DEF CfTypes, CfAnswered, CfNotDone, CfAnswerLost
<1>2. ASSUME NEW r \in CfResults, NEW n \in CfThen(cfProc[p], r) PROVE CfGood(cfProc[p], r, n) /\ cfProc[p].at \notin {"new", "done"}
  BY <1>1, <1>2, CfThenGood DEF CfOver
<1>3. CASE CfAnswered(p)
  <2>1. CASE CfRefused(cfProc[p])
    <3>1. PICK n \in CfThen(cfProc[p], "err") : cfProc' = [cfProc EXCEPT ![p] = n]
      BY <1>3, <2>1 DEF CfAnswered, CfResult
    <3>2. CfGood(cfProc[p], "err", n) /\ cfProc[p].at \notin {"new", "done"}
      BY <1>2, <3>1 DEF CfResults
    <3>3. UNCHANGED <<cfVal, cfMade, cfBusy, cfHurt>>
      BY <1>3, <2>1 DEF CfAnswered
    <3>4. CfEffect(p, "err", n)
      BY <2>1, <3>1, <3>2, <3>3 DEF CfEffect, CfResults
    <3> QED
      BY <3>4
  <2>2. CASE ~CfRefused(cfProc[p])
    <3>1. PICK n \in CfThen(cfProc[p], "ok") : cfProc' = [cfProc EXCEPT ![p] = n]
      BY <1>3, <2>2 DEF CfAnswered, CfResult
    <3>2. CfGood(cfProc[p], "ok", n) /\ cfProc[p].at \notin {"new", "done"}
      BY <1>2, <3>1 DEF CfResults
    <3>3. CfDone(p, cfProc[p]) /\ UNCHANGED cfHurt
      BY <1>3, <2>2 DEF CfAnswered
    <3>4. CfEffect(p, "ok", n)
      BY <2>2, <3>1, <3>2, <3>3 DEF CfEffect, CfResults
    <3> QED
      BY <3>4
  <2> QED
    BY <2>1, <2>2
<1>4. CASE CfNotDone(p)
  <2>1. PICK r \in {"err", "none"} : CfFault(p, r) /\ CfResult(p, r)
    BY <1>4 DEF CfNotDone
  <2>2. PICK n \in CfThen(cfProc[p], r) : cfProc' = [cfProc EXCEPT ![p] = n]
    BY <2>1 DEF CfResult
  <2>3. CfGood(cfProc[p], r, n) /\ cfProc[p].at \notin {"new", "done"}
    BY <1>2, <2>1, <2>2 DEF CfResults
  <2>4. UNCHANGED <<cfVal, cfMade, cfBusy>> /\ cfHurt' = cfHurt \cup {CfHurtBy(cfProc[p], r)}
    BY <1>4, <2>1 DEF CfNotDone, CfFault, CfHurtBy
  <2>5. CfEffect(p, r, n)
    BY <2>1, <2>2, <2>3, <2>4 DEF CfEffect, CfResults
  <2> QED
    BY <2>5
<1>5. CASE CfAnswerLost(p)
  <2>1. CfFault(p, "none") /\ CfResult(p, "none") /\ CfDone(p, cfProc[p]) /\ ~CfRefused(cfProc[p])
    BY <1>5 DEF CfAnswerLost
  <2>2. PICK n \in CfThen(cfProc[p], "none") : cfProc' = [cfProc EXCEPT ![p] = n]
    BY <2>1 DEF CfResult
  <2>3. CfGood(cfProc[p], "none", n) /\ cfProc[p].at \notin {"new", "done"}
    BY <1>2, <2>1, <2>2 DEF CfResults
  <2>4. cfHurt' = cfHurt \cup {CfHurtBy(cfProc[p], "none")}
    BY <2>1 DEF CfFault, CfHurtBy
  <2>5. CfEffect(p, "none", n)
    BY <2>1, <2>2, <2>3, <2>4 DEF CfEffect, CfResults
  <2> QED
    BY <2>5
<1> QED
  BY <1>3, <1>4, <1>5

LEMMA CfTypesKept ==
  ASSUME CfInv, NEW p \in CfProcs, NEW r, NEW n, CfEffect(p, r, n) PROVE CfTypes'
<1>1. n \in CfStates /\ CfTyped(n) /\ CfTyped(cfProc[p]) /\ cfProc[p].data \in SUBSET CfBits
  BY DEF CfEffect, CfGood, CfTyped, CfInv, CfTypes, CfStates
<1>2. cfProc' \in [CfProcs -> CfStates] /\ \A x \in CfProcs : CfTyped(cfProc'[x])
  BY <1>1 DEF CfEffect, CfInv, CfTypes
<1>3. CfArea(cfProc[p]) \in CfAreas
  BY <1>1, CfAreaTyped DEF CfEffect
<1>4. cfVal' \in [CfAreas -> SUBSET CfBits] /\ cfMade' \subseteq CfProcs
  BY <1>1, <1>3 DEF CfEffect, CfDone, CfInv, CfTypes
<1>5. CfLock(cfProc[p].kind) \in {"lan", "sol", "boot"}
  BY DEF CfLock
<1>6. cfBusy' \in [{"lan", "sol", "boot"} -> BOOLEAN]
  <2>1. \/ cfBusy' = [cfBusy EXCEPT ![CfLock(cfProc[p].kind)] = TRUE]
        \/ cfBusy' = [cfBusy EXCEPT ![CfLock(cfProc[p].kind)] = FALSE]
        \/ cfBusy' = cfBusy
    BY DEF CfEffect, CfDone
  <2> QED
    BY <1>5, <2>1 DEF CfInv, CfTypes
<1> QED
  BY <1>2, <1>4, <1>6 DEF CfTypes

(* What such a step changes, for the others of its parameter.              *)
LEMMA CfChanges ==
  ASSUME CfInv, NEW p \in CfProcs, NEW r, NEW n, CfEffect(p, r, n)
  PROVE  /\ CfTyped(cfProc[p]) /\ CfTyped(n) /\ n.kind = cfProc[p].kind /\ n.at # "new" /\ cfProc[p].at # "new"
         /\ CfArea(cfProc[p]) \in CfAreas /\ p \notin {0, CfLimit}
         /\ cfProc'[p] = n /\ \A x \in CfProcs \ {p} : cfProc'[x] = cfProc[x]
         /\ \A x \in CfProcs : cfProc'[x].kind = cfProc[x].kind
         /\ cfMade \subseteq cfMade' /\ cfMade' \subseteq cfMade \cup {p} /\ cfMade' \subseteq CfProcs
         /\ cfMade' # cfMade => CfWrites(cfProc[p])
         /\ \A a \in CfAreas : \/ cfVal'[a] = cfVal[a]
                               \/ /\ a = CfArea(cfProc[p]) /\ cfVal'[a] = cfProc[p].data /\ ~CfNoData(cfProc[p])
                                  /\ cfProc[p].at \in {"set", "again", "set2"}
                                  /\ p \in cfProc[p].data => p \in cfMade' \/ cfProc[p].kind = "access"
<1>1. CfTyped(cfProc[p]) /\ CfTyped(n) /\ n.kind = cfProc[p].kind /\ n.at # "new" /\ cfProc[p].at # "new"
  BY DEF CfEffect, CfGood, CfInv, CfTypes
<1>2. CfArea(cfProc[p]) \in CfAreas
  BY <1>1, CfAreaTyped
<1>3. p \notin {0, CfLimit}
  BY CfChoices DEF CfProcs, CfLimit
<1>4. cfProc'[p] = n /\ \A x \in CfProcs \ {p} : cfProc'[x] = cfProc[x]
  BY DEF CfEffect, CfInv, CfTypes
<1>5. \A x \in CfProcs : cfProc'[x].kind = cfProc[x].kind
  BY <1>1, <1>4
<1>6. cfMade \subseteq cfMade' /\ cfMade' \subseteq cfMade \cup {p} /\ (cfMade' # cfMade => CfWrites(cfProc[p]))
  BY DEF CfEffect, CfDone, CfWrites
<1>7. cfMade' \subseteq CfProcs
  BY <1>6 DEF CfInv, CfTypes
<1>8. ASSUME NEW a \in CfAreas, cfVal'[a] # cfVal[a]
      PROVE  /\ a = CfArea(cfProc[p]) /\ cfVal'[a] = cfProc[p].data /\ ~CfNoData(cfProc[p])
             /\ cfProc[p].at \in {"set", "again", "set2"}
             /\ p \in cfProc[p].data => p \in cfMade' \/ cfProc[p].kind = "access"
  <2>1. CfDone(p, cfProc[p]) /\ ~CfRefused(cfProc[p])
    BY <1>8 DEF CfEffect
  <2>2. a = CfArea(cfProc[p]) /\ cfVal'[a] = cfProc[p].data /\ cfProc[p].at \in {"set", "again", "set2"}
    BY <1>2, <1>8, <2>1 DEF CfDone, CfInv, CfTypes
  <2>3. cfProc[p].at = "set2" => cfProc[p].kind = "access"
    BY <1>1 DEF CfTyped, CfStepsOf
  <2>4. p \in cfProc[p].data => p \in cfMade' \/ cfProc[p].kind = "access"
    BY <2>1, <2>2, <2>3 DEF CfDone
  <2>5. cfProc[p].kind = "alert" => cfProc[p].at # "again"
    BY <1>1 DEF CfTyped, CfStepsOf
  <2>6. ~CfNoData(cfProc[p])
    BY <1>1, <2>1, <2>2, <2>3, <2>5 DEF CfRefused, CfNoData
  <2> QED
    BY <2>2, <2>4, <2>6
<1> QED
  BY <1>1, <1>2, <1>3, <1>4, <1>5, <1>6, <1>7, <1>8

LEMMA CfOwnKept ==
  ASSUME CfInv, NEW p \in CfProcs, NEW r, NEW n, CfEffect(p, r, n) PROVE CfOwn' /\ CfCopied'
<1>1. CfWritten(0)' /\ CfWritten(CfLimit)' /\ \A x \in CfBits : CfWritten(x) => CfWritten(x)'
  BY CfChanges DEF CfWritten, CfBits
<1>2. \A a \in CfAreas : cfVal[a] \subseteq CfBits
  BY DEF CfInv, CfTypes
<1>3. /\ cfProc[p].at # "done" => p \in cfProc[p].data \/ CfNoData(cfProc[p]) \/ cfProc[p].kind = "setaccess"
      /\ \A x \in cfProc[p].data : x \in CfBits /\ (x = p \/ CfWritten(x))
  BY CfChanges DEF CfInv, CfOwn, CfCopied, CfTyped, CfStates
<1>4. /\ n.data \subseteq cfProc[p].data \cup cfVal[CfArea(cfProc[p])] \cup {0}
      /\ \/ cfProc[p].data \subseteq n.data \/ CfNoData(n) \/ cfProc[p].kind = "setaccess"
         \/ cfProc[p].kind = "access" /\ cfProc[p].data \cap CfModes \subseteq n.data
      /\ CfNoData(cfProc[p]) => CfNoData(n) \/ n.at = "done"
      /\ cfProc[p].at # "done"
  BY DEF CfEffect, CfGood
<1>5. CfOwn'
  <2>1. p \in n.data \/ CfNoData(n) \/ n.at = "done" \/ n.kind = "setaccess"
    BY <1>3, <1>4, CfChanges DEF CfModes
  <2> QED
    BY <2>1, CfChanges DEF CfOwn, CfInv, CfNoData
<1>6. ASSUME NEW x \in n.data PROVE x = p \/ CfWritten(x)'
  <2>1. CfArea(cfProc[p]) \in CfAreas
    BY CfChanges
  <2>2. \A y \in cfVal[CfArea(cfProc[p])] : y \in CfBits /\ CfWritten(y)
    BY <1>2, <2>1 DEF CfInv, CfCopied
  <2> QED
    BY <1>1, <1>3, <1>4, <1>6, <2>2
<1>7. ASSUME NEW a \in CfAreas, NEW x \in cfVal'[a] PROVE CfWritten(x)'
  <2>1. CASE cfVal'[a] = cfVal[a]
    BY <1>1, <1>2, <1>7, <2>1 DEF CfInv, CfCopied
  <2>2. CASE cfVal'[a] = cfProc[p].data /\ (p \in cfProc[p].data => p \in cfMade' \/ cfProc[p].kind = "access")
    <3>1. x = p => CfWritten(p)'
      BY <1>7, <2>2, CfChanges DEF CfWritten
    <3> QED
      BY <1>1, <1>3, <1>7, <2>2, <3>1
  <2> QED
    BY <1>7, <2>1, <2>2, CfChanges
<1>8. ASSUME NEW y \in CfProcs \ {p}, NEW x \in cfProc'[y].data PROVE x = y \/ CfWritten(x)'
  <2>1. x \in cfProc[y].data /\ x \in CfBits
    BY <1>8, CfChanges DEF CfInv, CfTypes, CfTyped, CfStates
  <2> QED
    BY <1>1, <2>1 DEF CfInv, CfCopied
<1>9. CfCopied'
  BY <1>6, <1>7, <1>8, CfChanges DEF CfCopied
<1> QED
  BY <1>5, <1>9

LEMMA CfPastKept ==
  ASSUME CfInv, NEW p \in CfProcs, NEW r, NEW n, CfEffect(p, r, n) PROVE CfPast'
<1>1. ASSUME NEW x \in CfProcs \ {p}, cfProc'[x].kind \notin CfLoose, cfProc'[x].at \in CfLate, cfProc'[x].rc = 0
      PROVE  x \in cfMade' \/ (cfProc'[x].kind = "setaccess" /\ x \notin cfProc'[x].data)
  BY <1>1, CfChanges DEF CfInv, CfPast
<1>2. ASSUME n.kind \notin CfLoose, n.at \in CfLate, n.rc = 0, n.kind = "setaccess" => p \in n.data PROVE p \in cfMade'
  <2>1. \/ cfProc[p].at \in CfLate /\ cfProc[p].rc = 0
        \/ r = "ok" /\ n.data = cfProc[p].data /\ CfWrites(cfProc[p])
        \/ cfProc[p].at = "verify" /\ cfVal[CfArea(cfProc[p])] = cfProc[p].data
    BY <1>2 DEF CfEffect, CfGood
  <2>2. CASE cfProc[p].at \in CfLate /\ cfProc[p].rc = 0
    <3>1. cfProc[p].kind # "setaccess"
      BY <2>2, CfChanges DEF CfTyped, CfStepsOf, CfLate, CfEffect
    <3> QED
      BY <1>2, <2>2, <3>1, CfChanges DEF CfInv, CfPast
  <2>3. CASE r = "ok" /\ n.data = cfProc[p].data /\ CfWrites(cfProc[p])
    <3>1. p \in cfProc[p].data
      <4>1. p \in cfProc[p].data \/ CfNoData(cfProc[p]) \/ cfProc[p].kind = "setaccess"
        BY DEF CfInv, CfOwn, CfEffect
      <4>2. n.kind = cfProc[p].kind
        BY CfChanges
      <4> QED
        BY <1>2, <2>3, <4>1, <4>2 DEF CfNoData, CfLoose
    <3> QED
      BY <2>3, <3>1 DEF CfEffect, CfDone, CfWrites
  <2>4. CASE cfProc[p].at = "verify" /\ cfVal[CfArea(cfProc[p])] = cfProc[p].data
    <3>1. p \in cfProc[p].data
      <4>1. cfProc[p].kind # "setaccess"
        BY <2>4, CfChanges DEF CfTyped, CfStepsOf
      <4> QED
        BY <1>2, <2>4, <4>1, CfChanges DEF CfInv, CfOwn, CfNoData, CfLoose
    <3>2. CfWritten(p)
      BY <2>4, <3>1, CfChanges DEF CfInv, CfCopied
    <3>3. cfProc[p].kind # "access" /\ p \notin {0, CfLimit}
      BY <2>4, CfChanges DEF CfTyped, CfStepsOf
    <3> QED
      BY <3>2, <3>3, CfChanges DEF CfWritten
  <2> QED
    BY <2>1, <2>2, <2>3, <2>4
<1> QED
  BY <1>1, <1>2, CfChanges DEF CfPast

LEMMA CfZeroKept ==
  ASSUME CfInv, NEW p \in CfProcs, NEW r, NEW n, CfEffect(p, r, n) PROVE CfZero' /\ CfKept'
<1>1. (CfUnread => CfUnread') /\ (CfCleared => CfCleared')
  BY CfChanges DEF CfUnread, CfCleared, CfEffect
<1>2. \A q : CfExcused(q) => (CfNoData(q) \/ (q.kind \in {"sol", "noguard", "interval"} /\ CfUnread')
                                          \/ (q.kind = "setaccess" /\ CfCleared'))
  BY <1>1 DEF CfExcused
<1>3. ASSUME CfHolding(n), 0 \notin n.data
      PROVE  CfNoData(n) \/ (n.kind \in {"sol", "noguard", "interval"} /\ CfUnread') \/ (n.kind = "setaccess" /\ CfCleared')
  <2>1. \/ CfHolding(cfProc[p]) /\ n.data = cfProc[p].data
        \/ cfVal[CfArea(cfProc[p])] \ CfDropped(cfProc[p].kind) \subseteq n.data
        \/ CfNoData(n)
        \/ n.kind \in {"sol", "noguard", "interval"} /\ cfProc[p].at = "get" /\ r # "ok"
    BY <1>3 DEF CfEffect, CfGood
  <2>2. CASE CfHolding(cfProc[p]) /\ n.data = cfProc[p].data
    <3>1. CfExcused(cfProc[p])
      BY <1>3, <2>2 DEF CfInv, CfZero
    <3>2. CfNoData(cfProc[p]) => CfNoData(n)
      BY <1>3, CfChanges DEF CfEffect, CfGood, CfHolding
    <3> QED
      BY <1>2, <3>1, <3>2, CfChanges
  <2>3. CASE cfVal[CfArea(cfProc[p])] \ CfDropped(cfProc[p].kind) \subseteq n.data
    <3>1. 0 \notin cfVal[CfArea(cfProc[p])]
      <4>1. 0 \notin CfDropped(cfProc[p].kind)
        BY CfChoices DEF CfDropped, CfModes, CfLimit, CfProcs
      <4> QED
        BY <1>3, <2>3, <4>1
    <3>2. cfProc[p].kind \in {"arp", "auth", "alert", "sol", "noguard", "interval", "access", "alerting", "enables", "setaccess"}
      BY <1>3, CfChanges DEF CfHolding
    <3>3. /\ CfArea(cfProc[p]) \in {"arp", "auth", "alert", "volatile", "nonvolatile", "sol", "interval", "enables", "useraccess"}
          /\ CfArea(cfProc[p]) \in {"sol", "interval"} => cfProc[p].kind \in {"sol", "noguard", "interval"}
          /\ CfArea(cfProc[p]) = "useraccess" => cfProc[p].kind = "setaccess"
      BY <3>2 DEF CfArea
    <3> QED
      BY <1>1, <3>1, <3>3, CfChanges DEF CfInv, CfKept
  <2>4. CASE n.kind \in {"sol", "noguard", "interval"} /\ cfProc[p].at = "get" /\ r # "ok"
    <3>1. CfHurtBy(cfProc[p], r) \in cfHurt'
      BY <2>4 DEF CfEffect, CfRefused
    <3>2. CfUnread'
      BY <2>4, <3>1 DEF CfUnread, CfHurtBy
    <3> QED
      BY <2>4, <3>2
  <2> QED
    BY <2>1, <2>2, <2>3, <2>4
<1>4. CfZero'
  <2>1. ASSUME NEW x \in CfProcs \ {p}, CfHolding(cfProc[x]), 0 \notin cfProc[x].data
        PROVE  \/ CfNoData(cfProc[x]) \/ (cfProc[x].kind \in {"sol", "noguard", "interval"} /\ CfUnread')
               \/ (cfProc[x].kind = "setaccess" /\ CfCleared')
    BY <1>2, <2>1 DEF CfInv, CfZero
  <2>2. ASSUME NEW x \in CfProcs, CfHolding(cfProc'[x]), 0 \notin cfProc'[x].data
        PROVE  \/ CfNoData(cfProc'[x]) \/ (cfProc'[x].kind \in {"sol", "noguard", "interval"} /\ CfUnread')
               \/ (cfProc'[x].kind = "setaccess" /\ CfCleared')
    <3>1. CASE x = p
      BY <1>3, <2>2, <3>1, CfChanges
    <3>2. CASE x # p
      <4>1. cfProc'[x] = cfProc[x]
        BY <3>2, CfChanges
      <4> QED
        BY <2>1, <2>2, <3>2, <4>1
    <3> QED
      BY <3>1, <3>2
  <2> QED
    BY <2>2 DEF CfZero, CfExcused, CfNoData, CfHolding
<1>5. ASSUME NEW a \in {"arp", "auth", "alert", "volatile", "nonvolatile", "sol", "interval", "enables", "useraccess"},
             0 \notin cfVal'[a]
      PROVE  (a \in {"sol", "interval"} /\ CfUnread') \/ (a = "useraccess" /\ CfCleared')
  <2>1. CASE 0 \notin cfVal[a]
    BY <1>1, <2>1 DEF CfInv, CfKept
  <2>2. CASE 0 \in cfVal[a]
    <3>1. a = CfArea(cfProc[p]) /\ cfVal'[a] = cfProc[p].data /\ ~CfNoData(cfProc[p]) /\ cfProc[p].at \in {"set", "again", "set2"}
      BY <1>5, <2>2, CfChanges DEF CfAreas
    <3>2. CASE cfProc[p].kind \in {"priv", "lanuser"}
      <4>1. CfCleared /\ a = "useraccess"
        BY <3>1, <3>2 DEF CfCleared, CfArea
      <4> QED
        BY <1>1, <4>1
    <3>3. CASE cfProc[p].kind \notin {"priv", "lanuser"}
      <4>1. cfProc[p].kind \in {"arp", "auth", "alert", "sol", "noguard", "interval", "access", "alerting", "enables", "setaccess"}
        <5>1. cfProc[p].kind \notin {"volatile", "nonvolatile", "useraccess"}
          BY CfChanges DEF CfTyped, CfStates, CfKinds, CfLan, CfOnceKinds
        <5> QED
          BY <1>5, <3>1, <3>3, <5>1 DEF CfArea
      <4>2. CfHolding(cfProc[p])
        <5>1. cfProc[p].at \in CfStepsOf(cfProc[p].kind)
          BY CfChanges DEF CfTyped
        <5>2. CASE cfProc[p].kind \in {"arp", "auth", "alert"}
          BY <3>1, <5>1, <5>2 DEF CfHolding, CfStepsOf
        <5>3. CASE cfProc[p].kind \in {"sol", "noguard", "interval"}
          BY <3>1, <5>1, <5>3 DEF CfHolding, CfStepsOf
        <5>4. CASE cfProc[p].kind \in {"access", "alerting", "enables", "setaccess"}
          BY <3>1, <5>1, <5>4 DEF CfHolding, CfStepsOf
        <5> QED
          BY <4>1, <5>2, <5>3, <5>4
      <4>3. CfExcused(cfProc[p]) /\ ~CfNoData(cfProc[p])
        BY <1>5, <3>1, <4>2 DEF CfInv, CfZero, CfNoData
      <4>4. \/ cfProc[p].kind \in {"sol", "noguard", "interval"} /\ CfUnread'
            \/ cfProc[p].kind = "setaccess" /\ CfCleared'
        BY <1>2, <4>3
      <4> QED
        BY <3>1, <4>4 DEF CfArea
    <3> QED
      BY <3>2, <3>3
  <2> QED
    BY <2>1, <2>2
<1> QED
  BY <1>4, <1>5 DEF CfKept

LEMMA CfLimitsKept ==
  ASSUME CfInv, NEW p \in CfProcs, NEW r, NEW n, CfEffect(p, r, n) PROVE CfLimits'
<1>1. \A a \in CfLimited : CfReset(a) => CfReset(a)'
  BY CfChanges DEF CfReset
<1>2. ASSUME NEW a \in CfLimited, CfLimit \notin cfVal'[a] PROVE CfReset(a)'
  <2>0. a \in CfAreas
    BY DEF CfLimited, CfAreas
  <2>1. CASE cfVal'[a] = cfVal[a]
    BY <1>1, <1>2, <2>1 DEF CfInv, CfLimits
  <2>2. CASE a = CfArea(cfProc[p]) /\ cfVal'[a] = cfProc[p].data /\ cfProc[p].at \in {"set", "again", "set2"}
    <3>1. cfProc[p].kind \in CfKinds
      BY CfChanges DEF CfTyped, CfStates, CfStepsOf
    <3>2. \/ a # "useraccess" /\ cfProc[p].kind \in {"access", "alerting"}
          \/ a = "useraccess" /\ cfProc[p].kind \in {"setaccess", "priv", "lanuser"}
      BY <2>2, <3>1 DEF CfLimited, CfArea, CfKinds, CfLan, CfOnceKinds
    <3>3. CASE cfProc[p].kind = "alerting"
      <4>1. a = "nonvolatile" /\ cfProc[p].at = "set"
        BY <2>2, <3>3, CfChanges DEF CfArea, CfTyped, CfStepsOf
      <4> QED
        BY <1>1, <1>2, <2>2, <3>3, <4>1 DEF CfInv, CfLimits, CfLimited
    <3>4. CASE cfProc[p].kind # "alerting"
      <4>1. CfReset(a)
        BY <3>2, <3>4 DEF CfReset
      <4> QED
        BY <1>1, <4>1
    <3> QED
      BY <3>3, <3>4
  <2> QED
    BY <2>0, <2>1, <2>2, CfChanges
<1>3. ASSUME n.kind = "alerting", n.at = "set" PROVE CfLimit \in n.data \/ CfReset("nonvolatile")
  <2>1. CfHolding(n) /\ cfProc[p].kind = "alerting"
    BY <1>3, CfChanges DEF CfHolding
  <2>2. \/ CfHolding(cfProc[p]) /\ n.data = cfProc[p].data
        \/ cfVal[CfArea(cfProc[p])] \ CfDropped(cfProc[p].kind) \subseteq n.data
    BY <1>3, <2>1 DEF CfEffect, CfGood, CfNoData
  <2>3. CASE CfHolding(cfProc[p]) /\ n.data = cfProc[p].data
    <3>1. cfProc[p].at = "set"
      BY <2>1, <2>3, CfChanges DEF CfHolding, CfTyped, CfStepsOf
    <3> QED
      BY <2>1, <2>3, <3>1 DEF CfInv, CfLimits
  <2>4. CASE cfVal[CfArea(cfProc[p])] \ CfDropped(cfProc[p].kind) \subseteq n.data
    <3>1. CfArea(cfProc[p]) = "nonvolatile" /\ CfDropped(cfProc[p].kind) = {}
      BY <2>1 DEF CfArea, CfDropped
    <3> QED
      BY <2>4, <3>1 DEF CfInv, CfLimits, CfLimited
  <2> QED
    BY <2>2, <2>3, <2>4
<1>4. ASSUME NEW x \in CfProcs, cfProc'[x].kind = "alerting", cfProc'[x].at = "set"
      PROVE  CfLimit \in cfProc'[x].data \/ CfReset("nonvolatile")'
  <2>1. CfReset("nonvolatile") => CfReset("nonvolatile")'
    BY <1>1 DEF CfLimited
  <2>2. CASE x = p
    BY <1>3, <1>4, <2>1, <2>2, CfChanges
  <2>3. CASE x # p
    BY <1>4, <2>1, <2>3, CfChanges DEF CfInv, CfLimits
  <2> QED
    BY <2>2, <2>3
<1> QED
  BY <1>2, <1>4 DEF CfLimits

(* A command works on the parameter of each of its steps.                  *)
LEMMA CfWorksOn == ASSUME NEW q PROVE CfArea(q) \in CfParameters(q.kind)
<1>1. CfArea(q) = CfArea([kind |-> q.kind, at |-> "set"]) \/ CfArea(q) = CfArea([kind |-> q.kind, at |-> "set2"])
  BY DEF CfArea
<1> QED
  BY <1>1 DEF CfParameters

LEMMA CfLastingKept ==
  ASSUME CfInv, NEW p \in CfProcs, NEW r, NEW n, CfEffect(p, r, n) PROVE CfLasting'
<1>1. p \in cfMade => cfProc[p].kind \notin {"access", "setaccess"}
  BY CfChanges DEF CfInv, CfLasting, CfEffect
<1>2. ASSUME NEW x \in cfMade'
      PROVE  cfProc'[x].at # "new" /\ (cfProc'[x].kind \in {"access", "setaccess"} => cfProc'[x].at = "done")
  <2>1. CASE x # p
    <3>1. x \in cfMade /\ x \in CfProcs /\ cfProc'[x] = cfProc[x]
      BY <1>2, <2>1, CfChanges
    <3> QED
      BY <3>1 DEF CfInv, CfLasting
  <2>2. CASE x = p /\ n.kind \in {"access", "setaccess"}
    <3>1. CfWrites(cfProc[p])
      BY <1>1, <1>2, <2>2, CfChanges
    <3>2. (cfProc[p].kind = "access" /\ cfProc[p].at = "set2") \/ (cfProc[p].kind = "setaccess" /\ cfProc[p].at = "set")
      <4>1. cfProc[p].kind = n.kind /\ (cfProc[p].kind = "setaccess" => cfProc[p].at # "again")
        BY CfChanges DEF CfTyped, CfStepsOf
      <4> QED
        BY <2>2, <3>1, <4>1 DEF CfWrites
    <3>3. n.at = "done"
      BY <3>2 DEF CfEffect, CfGood
    <3> QED
      BY <2>2, <3>3, CfChanges
  <2> QED
    BY <2>1, <2>2, CfChanges
<1>3. ASSUME NEW x \in cfMade', \A y \in CfProcs \ {x} : CfArea(cfProc'[x]) \notin CfParameters(cfProc'[y].kind)
      PROVE  x \in cfVal'[CfArea(cfProc'[x])]
  <2>0. x \in CfProcs /\ cfProc[x].kind = cfProc'[x].kind /\ \A y \in CfProcs : cfProc[y].kind = cfProc'[y].kind
    BY <1>3, CfChanges
  <2>1. CASE x \notin cfMade
    <3>1. x = p /\ CfWrites(cfProc[p]) /\ cfMade' # cfMade
      BY <1>3, <2>1, CfChanges
    <3>2. cfVal' = [cfVal EXCEPT ![CfArea(cfProc[p])] = cfProc[p].data] /\ p \in cfProc[p].data
      BY <3>1 DEF CfEffect, CfDone, CfWrites
    <3>3. CfArea(n) = CfArea(cfProc[p])
      <4>1. CASE n.kind = "access"
        <5>1. cfProc[p].at = "set2" /\ n.at = "done"
          BY <3>1, <4>1, CfChanges DEF CfWrites, CfEffect, CfGood
        <5> QED
          BY <4>1, <5>1, CfChanges DEF CfArea
      <4> QED
        BY <4>1, CfChanges DEF CfArea
    <3>4. cfVal'[CfArea(n)] = cfProc[p].data
      BY <3>2, <3>3, CfChanges DEF CfInv, CfTypes
    <3> QED
      BY <3>1, <3>2, <3>4, CfChanges
  <2>2. CASE x \in cfMade
    <3>1. CfArea(cfProc'[x]) = CfArea(cfProc[x])
      <4>1. CASE x # p
        BY <2>0, <4>1, CfChanges
      <4>2. CASE x = p
        BY <1>1, <2>2, <4>2, CfChanges DEF CfArea
      <4> QED
        BY <4>1, <4>2
    <3>2. CfArea(cfProc[x]) \in CfAreas
      BY <2>0, <2>2, CfAreaTyped DEF CfInv, CfTypes, CfLasting
    <3>3. x \in cfVal[CfArea(cfProc[x])]
      BY <1>3, <2>0, <2>2, <3>1 DEF CfInv, CfLasting, CfShared
    <3>4. CASE x # p
      <4>1. CfArea(cfProc[x]) # CfArea(cfProc[p])
        <5>1. CfArea(cfProc[p]) \in CfParameters(cfProc[p].kind)
          BY CfWorksOn
        <5> QED
          BY <1>3, <2>0, <3>1, <3>4, <5>1
      <4> QED
        BY <3>1, <3>2, <3>3, <4>1, CfChanges
    <3>5. CASE x = p
      <4>1. CASE cfVal'[CfArea(cfProc[x])] = cfVal[CfArea(cfProc[x])]
        BY <3>1, <3>3, <4>1
      <4>2. CASE cfVal'[CfArea(cfProc[x])] = cfProc[p].data /\ ~CfNoData(cfProc[p])
        <5>1. p \in cfProc[p].data
          BY <1>1, <2>2, <3>5, <4>2, CfChanges DEF CfInv, CfOwn, CfEffect
        <5> QED
          BY <3>1, <3>5, <4>2, <5>1
      <4> QED
        BY <3>2, <4>1, <4>2, CfChanges
    <3> QED
      BY <3>4, <3>5
  <2> QED
    BY <2>1, <2>2
<1>4. ASSUME NEW x \in cfMade', x \notin cfVal'[CfArea(cfProc'[x])]
      PROVE  \E y \in CfProcs \ {x} : CfArea(cfProc'[x]) \in CfParameters(cfProc'[y].kind)
  BY <1>3, <1>4
<1> QED
  BY <1>2, <1>4 DEF CfLasting, CfShared, CfArea, CfParameters

LEMMA CfFlagsKept ==
  ASSUME CfInv, NEW p \in CfProcs, NEW r, NEW n, CfEffect(p, r, n) PROVE CfFlags'
<1> SUFFICES ASSUME NEW l \in {"lan", "sol", "boot"}, cfBusy'[l]
             PROVE  CfExcuse(l)' \/ \E x \in CfProcs : CfLock(cfProc'[x].kind) = l /\ CfAnswering(cfProc'[x])
  BY DEF CfFlags, CfAnswering
<1>1. ASSUME CfHurtBy(cfProc[p], r) \in cfHurt', CfLock(cfProc[p].kind) = l,
             \/ cfProc[p].at = "complete"
             \/ r = "none" /\ <<l, cfProc[p].at>> \in {<<"boot", "lock">>, <<"sol", "lock">>, <<"sol", "set">>}
      PROVE  CfExcuse(l)'
  <2>1. PICK h \in cfHurt' : h = CfHurtBy(cfProc[p], r)
    BY <1>1
  <2>2. h.kind = cfProc[p].kind /\ h.at = cfProc[p].at /\ h.result = r
    BY <2>1 DEF CfHurtBy
  <2>3. CfLock(h.kind) = l
    BY <1>1, <2>2
  <2> QED
    BY <1>1, <2>1, <2>2, <2>3 DEF CfExcuse, CfLock
<1>2. CASE cfBusy[l]
  <2>1. CASE CfExcuse(l)
    BY <2>1 DEF CfExcuse, CfEffect, CfLock
  <2>2. ASSUME NEW x \in CfProcs, CfLock(cfProc[x].kind) = l, CfAnswering(cfProc[x])
        PROVE  CfExcuse(l)' \/ \E y \in CfProcs : CfLock(cfProc'[y].kind) = l /\ CfAnswering(cfProc'[y])
    <3>1. CASE x # p
      <4>1. cfProc'[x] = cfProc[x]
        BY <3>1, CfChanges
      <4> QED
        BY <2>2, <4>1
    <3>2. CASE x = p /\ CfAnswering(n)
      BY <2>2, <3>2, CfChanges
    <3>3. CASE x = p /\ ~CfAnswering(n)
      <4>1. cfProc[p].at = "complete" \/ (cfProc[p].kind \in CfSol /\ cfProc[p].at = "set" /\ r = "none")
        BY <2>2, <3>3 DEF CfEffect, CfGood
      <4>2. CASE cfProc[p].at = "complete"
        <5>1. CASE r = "ok"
          <6>1. cfBusy' = [cfBusy EXCEPT ![CfLock(cfProc[p].kind)] = FALSE]
            BY <4>2, <5>1 DEF CfEffect, CfDone
          <6> QED
            BY <2>2, <3>3, <6>1 DEF CfInv, CfTypes
        <5>2. CASE r # "ok"
          <6>1. CfHurtBy(cfProc[p], r) \in cfHurt'
            BY <4>2, <5>2 DEF CfEffect, CfRefused
          <6> QED
            BY <1>1, <2>2, <3>3, <4>2, <6>1
        <5> QED
          BY <5>1, <5>2
      <4>3. CASE cfProc[p].kind \in CfSol /\ cfProc[p].at = "set" /\ r = "none"
        <5>1. CfHurtBy(cfProc[p], r) \in cfHurt'
          BY <4>3 DEF CfEffect
        <5>2. l = "sol"
          BY <2>2, <3>3, <4>3 DEF CfLock, CfSol, CfLan
        <5> QED
          BY <1>1, <2>2, <3>3, <4>3, <5>1, <5>2
      <4> QED
        BY <4>1, <4>2, <4>3
    <3> QED
      BY <3>1, <3>2, <3>3
  <2> QED
    BY <1>2, <2>1, <2>2 DEF CfInv, CfFlags
<1>3. CASE ~cfBusy[l]
  <2>1. CfDone(p, cfProc[p]) /\ r # "err" /\ cfProc[p].at = "lock" /\ CfLock(cfProc[p].kind) = l
    <3>1. cfBusy' # cfBusy
      BY <1>3
    <3>2. CfDone(p, cfProc[p]) /\ r # "err"
      BY <3>1 DEF CfEffect
    <3>3. \/ cfProc[p].at = "lock" /\ cfBusy' = [cfBusy EXCEPT ![CfLock(cfProc[p].kind)] = TRUE]
          \/ cfBusy' = [cfBusy EXCEPT ![CfLock(cfProc[p].kind)] = FALSE]
      BY <3>1, <3>2 DEF CfDone
    <3>4. cfBusy' # [cfBusy EXCEPT ![CfLock(cfProc[p].kind)] = FALSE]
      BY <1>3 DEF CfInv, CfTypes
    <3>5. CfLock(cfProc[p].kind) = l
      BY <1>3, <3>3, <3>4 DEF CfInv, CfTypes
    <3> QED
      BY <3>2, <3>3, <3>4, <3>5
  <2>2. CASE r = "ok" \/ cfProc[p].kind \in CfLan
    <3>1. CfAnswering(n)
      BY <2>1, <2>2 DEF CfEffect, CfGood
    <3> QED
      BY <2>1, <3>1, CfChanges
  <2>3. CASE r # "ok" /\ cfProc[p].kind \notin CfLan
    <3>1. r = "none" /\ CfHurtBy(cfProc[p], r) \in cfHurt'
      BY <2>1, <2>3 DEF CfEffect, CfResults
    <3>2. l \in {"sol", "boot"}
      BY <2>1, <2>3 DEF CfLock
    <3> QED
      BY <1>1, <2>1, <3>1, <3>2
  <2> QED
    BY <2>2, <2>3
<1> QED
  BY <1>2, <1>3

LEMMA CfStarted ==
  ASSUME NEW q \in CfStates, q.kind \in CfKinds, NEW n \in CfMain(q)
  PROVE  /\ CfTyped(n) /\ n.at # "new" /\ n.kind = q.kind /\ n.data = q.data /\ ~CfHolding(n)
         /\ n.at \in CfLate => n.rc = -1
<1>1. \/ n = CfFail(q)
      \/ n = CfUsage(q) /\ "usage" \in CfStepsOf(q.kind)
      \/ \E at \in CfStepsOf(q.kind) \cap {"info", "find", "lock", "set", "get"} :
            n = CfTo(q, at) /\ (at = "lock" => q.kind \in {"rate", "boot"}) /\ (at = "set" => q.kind \in CfOnceKinds)
  <2>1. CASE q.kind \in {"sol", "noguard", "interval", "rate"}
    BY <2>1 DEF CfMain, ipmi_sol_main, CfSolIntervals, CfSolRates, CfSolFlags, CfStepsOf
  <2>2. CASE q.kind \in {"boot", "policy", "power"}
    BY <2>2 DEF CfMain, ipmi_chassis_main, CfStepsOf, CfOnceKinds
  <2>3. CASE q.kind \in {"priv", "password", "name"}
    BY <2>3 DEF CfMain, ipmi_user_main, CfStepsOf, CfOnceKinds
  <2>4. CASE q.kind \in {"setaccess", "enables"}
    BY <2>4 DEF CfMain, ipmi_channel_main, ipmi_mc_main, CfStepsOf
  <2>5. CASE q.kind \in {"arp", "auth", "value", "vlan", "alert", "lanuser", "lanpass", "stats", "access", "alerting"}
    BY <2>5 DEF CfMain, ipmi_lanp_main, CfStepsOf
  <2> QED
    BY <2>1, <2>2, <2>3, <2>4, <2>5 DEF CfKinds, CfLan, CfOnceKinds
<1>2. ASSUME NEW at \in CfStepsOf(q.kind) \cap {"info", "find", "lock", "set", "get"}, CfOnly(q, n, at, q.rc),
             at = "lock" => q.kind \in {"rate", "boot"}, at = "set" => q.kind \in CfOnceKinds
      PROVE  CfTyped(n) /\ ~CfHolding(n) /\ n.at \notin CfLate \cup {"new"}
  BY <1>2 DEF CfOnly, CfTyped, CfHolding, CfLate, CfOnceKinds
<1>3. ASSUME CfOnly(q, n, "done", -1) PROVE CfTyped(n) /\ ~CfHolding(n)
  BY <1>3 DEF CfOnly, CfTyped, CfHolding, CfStepsOf, CfKinds, CfLan, CfOnceKinds
<1>4. ASSUME CfOnly(q, n, "usage", q.rc), "usage" \in CfStepsOf(q.kind) PROVE CfTyped(n) /\ ~CfHolding(n) /\ n.at \notin CfLate
  BY <1>4 DEF CfOnly, CfTyped, CfHolding, CfLate
<1>5. n.kind = q.kind /\ n.data = q.data
  BY <1>1, CfMoves DEF CfOnly, CfSteps
<1>6. CASE n = CfFail(q)
  BY <1>3, <1>5, <1>6, CfMoves DEF CfOnly
<1>7. CASE n = CfUsage(q) /\ "usage" \in CfStepsOf(q.kind)
  BY <1>4, <1>5, <1>7, CfMoves DEF CfOnly
<1>8. CASE \E at \in CfStepsOf(q.kind) \cap {"info", "find", "lock", "set", "get"} :
            n = CfTo(q, at) /\ (at = "lock" => q.kind \in {"rate", "boot"}) /\ (at = "set" => q.kind \in CfOnceKinds)
  <2>1. PICK at \in CfStepsOf(q.kind) \cap {"info", "find", "lock", "set", "get"} :
            n = CfTo(q, at) /\ (at = "lock" => q.kind \in {"rate", "boot"}) /\ (at = "set" => q.kind \in CfOnceKinds)
    BY <1>8
  <2>2. CfOnly(q, n, at, q.rc)
    BY <2>1, CfMoves DEF CfSteps
  <2> QED
    BY <1>2, <1>5, <2>1, <2>2
<1> QED
  BY <1>1, <1>6, <1>7, <1>8

LEMMA CfStartKept == ASSUME CfInv, NEW p \in CfProcs, CfStart(p) PROVE CfInv'
<1>1. PICK k \in CfCommands[p] : \E n \in CfMain([cfProc[p] EXCEPT !.kind = k, !.retry = CfLockRetry, !.data = {p}]) :
        cfProc' = [cfProc EXCEPT ![p] = n]
  BY DEF CfStart
<1> DEFINE q == [cfProc[p] EXCEPT !.kind = k, !.retry = CfLockRetry, !.data = {p}]
<1>2. PICK n \in CfMain(q) : cfProc' = [cfProc EXCEPT ![p] = n]
  BY <1>1
<1>3. k \in CfKinds /\ CfLockRetry \in Int
  BY <1>1, CfChoices, CfNumbers DEF CfProcs
<1>4. q \in CfStates /\ q.kind = k /\ q.data = {p}
  <2>1. cfProc[p] \in CfStates
    BY DEF CfInv, CfTypes
  <2> QED
    BY <1>1, <1>3, <2>1 DEF CfStates, CfBits
<1>5. /\ CfTyped(n) /\ n.at # "new" /\ n.kind = k /\ n.data = {p} /\ ~CfHolding(n)
      /\ n.at \in CfLate => n.rc = -1
  <2> HIDE DEF q
  <2> QED
    BY <1>2, <1>3, <1>4, CfStarted
<1>6. /\ cfProc'[p] = n /\ (\A x \in CfProcs \ {p} : cfProc'[x] = cfProc[x]) /\ cfProc[p].at = "new" /\ cfProc[p].kind = "none"
      /\ UNCHANGED <<cfVal, cfBusy, cfMade, cfHurt>>
  <2>1. cfProc[p].at = "new" /\ UNCHANGED <<cfVal, cfBusy, cfMade, cfHurt>>
    BY DEF CfStart
  <2>2. cfProc[p].kind = "none"
    BY <2>1 DEF CfInv, CfTypes, CfTyped, CfStepsOf
  <2> QED
    BY <1>2, <2>1, <2>2 DEF CfInv, CfTypes
<1>7. p \notin cfMade /\ cfMade \subseteq CfProcs
  BY <1>6 DEF CfInv, CfLasting, CfTypes
<1> HIDE DEF q
<1>8. CfTypes'
  <2>1. n \in CfStates
    BY <1>5 DEF CfTyped
  <2>2. cfProc' \in [CfProcs -> CfStates]
    BY <1>2, <2>1 DEF CfInv, CfTypes
  <2> QED
    BY <1>5, <1>6, <2>2 DEF CfInv, CfTypes
<1>9. CfOwn'
  BY <1>5, <1>6 DEF CfInv, CfOwn, CfNoData
<1>10. CfCopied'
  <2>1. \A x \in CfBits : CfWritten(x) => CfWritten(x)'
    BY <1>6 DEF CfWritten, CfBits
  <2>2. \A a \in CfAreas : \A x \in cfVal'[a] : x \in CfBits /\ CfWritten(x)
    BY <1>6 DEF CfInv, CfCopied, CfTypes
  <2>3. \A y \in CfProcs \ {p} : \A x \in cfProc'[y].data : x \in CfBits /\ (x = y \/ CfWritten(x))
    BY <1>6 DEF CfInv, CfCopied, CfTypes, CfStates
  <2> QED
    BY <1>5, <1>6, <2>1, <2>2, <2>3 DEF CfCopied
<1>11. CfPast'
  BY <1>5, <1>6 DEF CfInv, CfPast
<1>12. (CfUnread => CfUnread') /\ (CfCleared => CfCleared')
  BY <1>6 DEF CfUnread, CfCleared
<1>13. CfZero'
  <2>1. ASSUME NEW x \in CfProcs, CfHolding(cfProc'[x]), 0 \notin cfProc'[x].data
        PROVE  \/ CfNoData(cfProc'[x]) \/ (cfProc'[x].kind \in {"sol", "noguard", "interval"} /\ CfUnread')
               \/ (cfProc'[x].kind = "setaccess" /\ CfCleared')
    <3>1. x # p /\ cfProc'[x] = cfProc[x]
      BY <1>5, <1>6, <2>1
    <3>2. CfExcused(cfProc[x])
      BY <2>1, <3>1 DEF CfInv, CfZero
    <3> QED
      BY <1>12, <3>1, <3>2 DEF CfExcused
  <2> QED
    BY <2>1 DEF CfZero, CfExcused, CfNoData, CfHolding
<1>14. CfKept'
  BY <1>6, <1>12 DEF CfInv, CfKept
<1>15. CfLasting'
  <2>1. \A x \in cfMade : cfProc'[x] = cfProc[x] /\ x \in CfProcs
    BY <1>6, <1>7
  <2>2. cfMade' = cfMade /\ cfVal' = cfVal
    BY <1>6
  <2>3. ASSUME NEW x \in cfMade, NEW y \in CfProcs \ {x}, CfArea(cfProc[x]) \in CfParameters(cfProc[y].kind)
        PROVE  CfArea(cfProc'[x]) \in CfParameters(cfProc'[y].kind)
    <3>1. CASE y # p
      BY <1>6, <2>1, <2>3, <3>1
    <3>2. CASE y = p
      <4>1. CfArea(cfProc[x]) = "none"
        BY <1>6, <2>3, <3>2 DEF CfParameters, CfArea
      <4>2. CfArea(cfProc[x]) \in CfAreas
        BY <2>1, CfAreaTyped DEF CfInv, CfTypes, CfLasting
      <4> QED
        BY <4>1, <4>2 DEF CfAreas
    <3> QED
      BY <3>1, <3>2
  <2>4. \A x \in cfMade :
          /\ cfProc'[x].at # "new" /\ (cfProc'[x].kind \in {"access", "setaccess"} => cfProc'[x].at = "done")
          /\ \/ x \in cfVal'[CfArea(cfProc'[x])]
             \/ \E y \in CfProcs \ {x} : CfArea(cfProc'[x]) \in CfParameters(cfProc'[y].kind)
    BY <2>1, <2>2, <2>3 DEF CfInv, CfLasting, CfShared
  <2> QED
    BY <2>2, <2>4 DEF CfLasting, CfShared, CfArea, CfParameters
<1>17. CfLimits'
  <2>1. \A a \in CfLimited : CfReset(a) => CfReset(a)'
    BY <1>6 DEF CfReset
  <2>2. \A x \in CfProcs : cfProc'[x].kind = "alerting" /\ cfProc'[x].at = "set" => cfProc'[x] = cfProc[x]
    BY <1>5, <1>6 DEF CfHolding
  <2> QED
    BY <1>6, <2>1, <2>2 DEF CfInv, CfLimits, CfLimited
<1>16. CfFlags'
  <2>1. ASSUME NEW l \in {"lan", "sol", "boot"}, cfBusy'[l]
        PROVE  CfExcuse(l)' \/ \E x \in CfProcs : CfLock(cfProc'[x].kind) = l /\ CfAnswering(cfProc'[x])
    <3>1. cfBusy[l]
      BY <1>6, <2>1
    <3>2. CASE CfExcuse(l)
      BY <1>6, <3>2 DEF CfExcuse, CfLock
    <3>3. ASSUME NEW x \in CfProcs, CfLock(cfProc[x].kind) = l, CfAnswering(cfProc[x])
          PROVE  CfLock(cfProc'[x].kind) = l /\ CfAnswering(cfProc'[x])
      <4>1. x # p
        BY <1>6, <3>3 DEF CfAnswering
      <4> QED
        BY <1>6, <3>3, <4>1
    <3> QED
      BY <3>1, <3>2, <3>3 DEF CfInv, CfFlags
  <2> QED
    BY <2>1 DEF CfFlags, CfAnswering
<1> QED
  BY <1>8, <1>9, <1>10, <1>11, <1>13, <1>14, <1>15, <1>16, <1>17 DEF CfInv

LEMMA CfInvInit == CfInit => CfInv
<1> SUFFICES ASSUME CfInit PROVE CfInv
  OBVIOUS
<1>0. \A p \in CfProcs : cfProc[p] = [kind |-> "none", at |-> "new", data |-> {}, rc |-> 0, retry |-> 0, guard |-> FALSE]
  BY DEF CfInit
<1>1. CfTypes
  BY DEF CfInit, CfTypes, CfTyped, CfStates, CfSteps, CfStepsOf, CfBits
<1>2. CfOwn /\ CfCopied /\ CfPast /\ CfLasting
  BY <1>0 DEF CfInit, CfOwn, CfCopied, CfWritten, CfPast, CfLasting, CfLate
<1>3. CfZero
  BY <1>0 DEF CfZero, CfHolding
<1>4. CfKept /\ CfFlags
  BY DEF CfInit, CfKept, CfFlags, CfAreas, CfLimited
<1>5. CfLimits
  BY <1>0 DEF CfInit, CfLimits, CfLimited, CfAreas
<1> QED
  BY <1>1, <1>2, <1>3, <1>4, <1>5 DEF CfInv

LEMMA CfInvStep == CfInv /\ [CfNext]_cfVars => CfInv'
<1> SUFFICES ASSUME CfInv, [CfNext]_cfVars PROVE CfInv'
  OBVIOUS
<1>1. ASSUME NEW p \in CfProcs, CfStart(p) PROVE CfInv'
  BY <1>1, CfStartKept
<1>2. ASSUME NEW p \in CfProcs, CfAnswered(p) \/ CfNotDone(p) \/ CfAnswerLost(p) PROVE CfInv'
  <2>1. PICK r, n : CfEffect(p, r, n)
    BY <1>2, CfEffects DEF CfInv
  <2> QED
    BY <2>1, CfTypesKept, CfOwnKept, CfPastKept, CfZeroKept, CfLimitsKept, CfLastingKept, CfFlagsKept DEF CfInv
<1>3. CASE UNCHANGED cfVars
  <2>1. UNCHANGED <<cfProc, cfVal, cfBusy, cfMade, cfHurt>>
    BY <1>3 DEF cfVars
  <2> QED
    BY <2>1 DEF CfInv, CfTypes, CfOwn, CfCopied, CfWritten, CfPast, CfZero, CfExcused, CfUnread, CfCleared, CfKept, CfLasting,
       CfShared, CfLimits, CfReset, CfFlags, CfExcuse
<1> QED
  BY <1>1, <1>2, <1>3 DEF CfNext, CfStep

-----------------------------------------------------------------------------
(* Only the command that was called moves, and by its own steps.           *)
LEMMA CmdMoves ==
  [CmdNext]_cmdVars =>
    /\ [SelNext]_selVars /\ [HpmNext]_hpmVars /\ [FruNext]_fruVars
    /\ [FwNext]_fwVars /\ [SnNext]_snVars /\ [CfNext]_cfVars
<1>1. CASE UNCHANGED cmdVars
  BY <1>1 DEF cmdVars
<1>2. CASE CmdNext
  BY <1>2, Zenon DEF CmdNext, ipmi_cmd_run, CmdSel, CmdSdr, CmdHpm, CmdFru, CmdFw, CmdSn, CmdCf, CmdTb
<1> QED
  BY <1>1, <1>2

LEMMA CfAlways == CmdSpec => []CfInv
<1>1. CmdInit => CfInv
  BY CfInvInit DEF CmdInit
<1>2. CfInv /\ [CmdNext]_cmdVars => CfInv'
  BY CmdMoves, CfInvStep
<1> QED
  BY <1>1, <1>2, PTL DEF CmdSpec

(* A command that returns 0 has made its change, for any number of         *)
(* processes, retries and faults: lan set, user, channel, chassis, sol set *)
(* and mc setenables. "channel setaccess" has when strncmp's value had     *)
(* left the bit in what it sends.                                          *)
THEOREM SettingsTrue == CmdSpec => []CfSuccessTrue
<1>1. CfInv => CfSuccessTrue
  BY DEF CfInv, CfPast, CfSuccessTrue, CfLate, CfLoose
<1> QED
  BY <1>1, CfAlways, PTL

(* No setting loses the bits it is not about, the limits but for those     *)
(* that replace them, and a change lasts unless another process works on   *)
(* the same parameter, for any number of them.                             *)
THEOREM SettingsKept == CmdSpec => []CfOthersKept
<1>1. CfInv => CfOthersKept
  <2> SUFFICES ASSUME CfInv PROVE CfOthersKept
    OBVIOUS
  <2>1. \A a \in {"arp", "auth", "alert", "volatile", "nonvolatile", "sol", "interval", "enables", "useraccess"} :
          \/ 0 \in cfVal[a]
          \/ a \in {"sol", "interval"} /\ \E h \in cfHurt : h.at = "get"
          \/ a = "useraccess" /\ \E p \in CfProcs : cfProc[p].kind \in {"priv", "lanuser"}
    BY DEF CfInv, CfKept, CfUnread, CfCleared
  <2>2. ASSUME NEW p \in cfMade, \A q \in CfProcs \ {p} : CfArea(cfProc[p]) \notin CfParameters(cfProc[q].kind)
        PROVE  p \in cfVal[CfArea(cfProc[p])]
    BY <2>2 DEF CfInv, CfLasting, CfShared
  <2>3. \A a \in CfLimited : CfLimit \in cfVal[a] \/ CfReset(a)
    BY DEF CfInv, CfLimits
  <2> QED
    BY <2>1, <2>2, <2>3 DEF CfOthersKept, CfReset
<1> QED
  BY <1>1, CfAlways, PTL

(* When all have ended no flag is left taken, unless a request or an       *)
(* answer was lost where the code cannot make up for it.                   *)
THEOREM FlagsBack == CmdSpec => []CfFlagBack
<1>1. CfInv => CfFlagBack
  <2> SUFFICES ASSUME CfInv, \A p \in CfProcs : cfProc[p].at \in CfOver, NEW l \in DOMAIN cfBusy, cfBusy[l]
               PROVE  CfExcuse(l)
    BY DEF CfFlagBack, CfExcuse
  <2>1. l \in {"lan", "sol", "boot"}
    BY DEF CfInv, CfTypes
  <2>2. \A p \in CfProcs : ~CfAnswering(cfProc[p])
    BY DEF CfAnswering, CfOver
  <2> QED
    BY <2>1, <2>2 DEF CfInv, CfFlags
<1> QED
  BY <1>1, CfAlways, PTL

-----------------------------------------------------------------------------
(* The event log. While nobody deletes or clears and no request fails, the *)
(* log holds the events in order, and their ids are their numbers.         *)
SelDeleting == {"delete_reserve", "clear_reserve", "delete", "clear"}
SelQuiet == selHist.had = {} /\ selAt \notin SelDeleting /\ (selAt = "done" => selSeen # <<>>)
SelCursor == selCur \in [next : Nat, curr : Nat, delta : Int, again : {selCur.again}]
SelPlain ==
  /\ selEvents \in 0..SelMaxEvents /\ selIds = selEvents /\ selLog = [i \in 1..selEvents |-> [id |-> i, ev |-> i]]
  /\ selArg \in [count : {0, 1, -1, -2}, ids : {<<>>}] /\ SelCursor
  /\ selWatch \in [count : Nat, lastid : Nat, old : Nat] /\ selSeen \in Seq(Nat) /\ selHist.start \in 0..selEvents
(* Before the first entry is asked for.                                    *)
SelFresh ==
  /\ selAt \in {"new", "list_info", "list_reserve", "last_info", "last_first", "last_last", "watch_count", "watch_lastid"} =>
       selSeen = <<>>
  /\ selAt \in {"new", "list_info", "list_reserve", "last_info", "watch_count"} => selCur.next = 0 /\ selHist.start = 0
  /\ selAt \in {"list_reserve", "last_info", "last_first", "last_last"} => selEvents > 0
  /\ selAt \in {"last_info", "last_first", "last_last"} => selArg.count < 0
  /\ selAt \in {"last_first", "last_last"} => -selArg.count <= selEvents
  /\ selAt = "last_last" => selArg.count = -1 \/ selCur.delta = 1
(* What has been printed is a run of events from the first one asked for,  *)
(* up to the entry before the next.                                        *)
SelBase == IF selArg.count < 0 THEN selHist.start + selArg.count + 1 ELSE 1
SelRun ==
  /\ SelBase \in 1..selHist.start /\ SelBase + Len(selSeen) <= selEvents + 1
  /\ \A i \in DOMAIN selSeen : selSeen[i] = SelBase + i - 1
SelListed ==
  /\ selAt \in {"list", "done"} => SelRun
  /\ selAt = "list" =>
       \/ selCur.next = 0 /\ selSeen = <<>> /\ selArg.count >= 0
       \/ selCur.next = SelBase + Len(selSeen) /\ selCur.next <= selEvents
       \/ selCur.next = SelEnd /\ selSeen # <<>> /\ SelBase + Len(selSeen) > selHist.start
  /\ selAt = "done" => Len(selSeen) = selArg.count \/ SelBase + Len(selSeen) > selHist.start
(* The watcher: what it knows, reads and has logged.                       *)
SelWatched ==
  /\ selAt = "watch_lastid" => selCur.next \in 0..selEvents /\ selWatch.count \in 1..selEvents
  /\ selAt \in {"watch_sleep", "watch_read"} =>
       /\ selWatch.lastid \in 0..selEvents /\ selWatch.count \in 0..selEvents /\ (selSeen # <<>> => selEvents > 0)
       /\ \A i \in 1..selWatch.lastid : i > selHist.start => i \in SelSeenSet
       /\ \A i, j \in DOMAIN selSeen : i < j /\ selSeen[i] = selSeen[j] => selSeen[i] = 1
  /\ selAt = "watch_sleep" =>
       /\ \/ selWatch.count <= selWatch.lastid
          \/ selWatch.count = 1 /\ (selHist.start >= 1 \/ 1 \in SelSeenSet)
       /\ \A e \in SelSeenSet : e = 1 \/ e <= selWatch.lastid
  /\ selAt = "watch_read" =>
       /\ selCur.next \in selWatch.lastid..selEvents /\ selWatch.count >= 1
       /\ \A i \in 1..selCur.next : i > selHist.start /\ i # selCur.next => i \in SelSeenSet
       /\ \A e \in SelSeenSet : e = 1 \/ e < selCur.next \/ e <= selWatch.lastid
SelGood == SelPlain /\ SelFresh /\ SelListed /\ SelWatched

(* A reservation does not outlast a log that is cleared.                   *)
SelHistory(h) == h \in [had : {h.had}, stray : {{}}, start : {h.start}]
SelReserved ==
  /\ SelHistory(selHist)
  /\ selAt = "delete" /\ SelHas("cleared") => selRes = "none"
  /\ selAt \in SelDeleting \cup {"new"} => selSeen = <<>>
SelInv == SelReserved /\ (SelQuiet => SelGood)

(* Record ids are 16 bits long, and 0xffff is none.                        *)
SelRoom == SelMaxEvents < SelEnd

LEMMA SelMarks == ASSUME SelHistory(selHist), NEW h PROVE SelHistory(SelMark(h)) /\ SelMark(h).had = selHist.had \cup {h}
BY DEF SelHistory, SelMark
LEMMA SelMarkStays == ASSUME SelHistory(selHist), NEW h PROVE SelMark(h).had # {}
BY SelMarks

LEMMA SelReservedInit == SelInit => SelReserved
BY DEF SelInit, SelReserved, SelHas, SelHistory

LEMMA SelReservedStep == SelReserved /\ [SelNext]_selVars => SelReserved'
<1> SUFFICES ASSUME SelReserved, [SelNext]_selVars PROVE SelReserved'
  OBVIOUS
<1> USE DEF SelReserved, SelDeleting, SelHas
<1>1. CASE ipmi_sel_main
  BY <1>1 DEF ipmi_sel_main
<1>2. CASE SelListInfo \/ SelLastInfo
  BY <1>2 DEF SelListInfo, SelLastInfo
<1>3. CASE SelListReserve
  BY <1>3 DEF SelListReserve, SelHistory
<1>4. CASE SelLastFirst \/ SelLastLast
  <2>1. selHist' = selHist \/ selHist' = SelMark("fault")
        \/ (\E h \in {selHist, SelMark("fault")}, v \in {Len(selLog)} : selHist' = [h EXCEPT !.start = v])
    BY <1>4 DEF SelLastFirst, SelLastLast
  <2>2. SelHistory(selHist')
    <3>1. ASSUME NEW h \in {selHist, SelMark("fault")}, NEW v, selHist' = [h EXCEPT !.start = v] PROVE SelHistory(selHist')
      BY <3>1, SelMarks DEF SelHistory
    <3> QED
      BY <2>1, <3>1, SelMarks
  <2> QED
    BY <1>4, <2>2 DEF SelLastFirst, SelLastLast
<1>5. CASE SelListEntry
  <2>1. selHist' = selHist \/ selHist' = SelMark("fault")
    BY <1>5 DEF SelListEntry
  <2>2. SelHistory(selHist')
    BY <2>1, SelMarks
  <2>3. selAt' \in {"list", "done"}
    BY <1>5 DEF SelListEntry
  <2> QED
    BY <2>2, <2>3
<1>6. CASE ipmi_sel_reserve
  <2>1. SelHistory(selHist') /\ selHist'.had = {}
    BY <1>6 DEF ipmi_sel_reserve, SelHistory
  <2>2. selAt \in {"delete_reserve", "clear_reserve"} /\ UNCHANGED selSeen
    BY <1>6 DEF ipmi_sel_reserve
  <2> QED
    BY <2>1, <2>2
<1>7. CASE ipmi_sel_delete
  <2>1. selAt = "delete" /\ selAt' \in {"delete", "done"} /\ UNCHANGED selSeen
    BY <1>7 DEF ipmi_sel_delete, SelDelete
  <2>2. \/ UNCHANGED <<selRes, selHist>>
        \/ selRes' = "none" /\ selRes = "ours" /\ ("cleared" \notin selHist.had => selHist' = selHist)
    BY <1>7 DEF ipmi_sel_delete, SelDelete
  <2> QED
    BY <2>1, <2>2
<1>8. CASE ipmi_sel_clear
  BY <1>8 DEF ipmi_sel_clear
<1>9. CASE selwatch_setup \/ selwatch_check
  <2>1. selHist' = selHist \/ selHist' = SelMark("fault")
    BY <1>9 DEF selwatch_setup, selwatch_check, SelCount
  <2>2. SelHistory(selHist')
    BY <2>1, SelMarks
  <2>3. selAt' \in {"watch_sleep", "watch_lastid", "watch_read"} /\ UNCHANGED selSeen
    BY <1>9 DEF selwatch_setup, selwatch_check
  <2> QED
    BY <2>2, <2>3
<1>10. CASE selwatch_get_lastid \/ selwatch_read
  <2>1. selHist' = selHist \/ selHist' = SelMark("fault")
        \/ (\E h \in {selHist, SelMark("fault")}, v \in {selHist.start, SelMark("fault").start, selEvents} : selHist' = [h EXCEPT !.start = v])
    BY <1>10 DEF selwatch_get_lastid, selwatch_read
  <2>2. SelHistory(selHist')
    <3>1. ASSUME NEW h \in {selHist, SelMark("fault")}, NEW v, selHist' = [h EXCEPT !.start = v] PROVE SelHistory(selHist')
      BY <3>1, SelMarks DEF SelHistory
    <3> QED
      BY <2>1, <3>1, SelMarks
  <2>3. selAt' \in {"watch_sleep", "watch_lastid", "watch_read"}
    BY <1>10 DEF selwatch_get_lastid, selwatch_read
  <2> QED
    BY <2>2, <2>3
<1>11. CASE SelAdd \/ SelOther
  BY <1>11, SelMarks DEF SelAdd, SelOther
<1>12. CASE UNCHANGED selVars
  BY <1>12 DEF selVars
<1> QED
  BY <1>1, <1>2, <1>3, <1>4, <1>5, <1>6, <1>7, <1>8, <1>9, <1>10, <1>11, <1>12 DEF SelNext, SelCommand, SelWatcher

(* "sel delete" deletes nothing of a log that was cleared and filled again *)
(* after its reservation, however many entries it is given.                *)
THEOREM DeletesReserved == CmdSpec => []SelDeletesReserved
<1>1. CmdInit => SelReserved
  BY SelReservedInit DEF CmdInit
<1>2. SelReserved /\ [CmdNext]_cmdVars => SelReserved'
  BY CmdMoves, SelReservedStep
<1>3. SelReserved => SelDeletesReserved
  BY DEF SelReserved, SelHistory, SelDeletesReserved
<1> QED
  BY <1>1, <1>2, <1>3, PTL DEF CmdSpec

(* What an entry of an undisturbed log is.                                 *)
LEMMA SelRead ==
  ASSUME SelRoom, SelPlain, NEW id \in 0..selEvents, NEW r \in ipmi_sel_get_std_entry(id), r.next # 0
  PROVE  /\ selEvents > 0 /\ r.fault = 0
         /\ r.rec # <<>> /\ r.rec[1].id = (IF id = 0 THEN 1 ELSE id) /\ r.rec[1].ev = (IF id = 0 THEN 1 ELSE id)
         /\ r.next = IF id = selEvents \/ (id = 0 /\ selEvents = 1) THEN SelEnd ELSE IF id = 0 THEN 2 ELSE id + 1
<1>1. selEvents \in Nat /\ selEvents < SelEnd /\ SelEnd = 65535 /\ Len(selLog) = selEvents /\ DOMAIN selLog = 1..selEvents
  BY SelNumbers DEF SelRoom, SelPlain, SelCursor, SelEnd
<1>2. PICK i \in SelIndex(id) : r = [next |-> SelAfter(i), rec |-> <<selLog[i]>>, fault |-> 0]
  BY DEF ipmi_sel_get_std_entry
<1>3. selEvents > 0 /\ i = (IF id = 0 THEN 1 ELSE id) /\ i \in 1..selEvents
  BY <1>1, <1>2 DEF SelIndex, SelPlain, SelCursor
<1>4. selLog[i] = [id |-> i, ev |-> i] /\ (i # selEvents => selLog[i + 1].id = i + 1)
  BY <1>1, <1>3 DEF SelPlain, SelCursor
<1> QED
  BY <1>1, <1>2, <1>3, <1>4 DEF SelAfter

LEMMA SelQuietBefore == ASSUME SelReserved, [SelNext]_selVars, SelQuiet' PROVE SelQuiet
<1> USE DEF SelQuiet, SelDeleting
<1>0. selHist'.had = {} /\ SelHistory(selHist)
  BY DEF SelReserved
<1>1. CASE ipmi_sel_main \/ SelListInfo \/ SelLastInfo
  BY <1>1 DEF ipmi_sel_main, SelListInfo, SelLastInfo
<1>2. CASE SelListReserve
  BY <1>0, <1>2 DEF SelListReserve, SelHistory
<1>3. CASE SelLastFirst \/ SelLastLast
  <2>1. selHist' = selHist \/ selHist' = SelMark("fault") \/ (\E h \in {selHist, SelMark("fault")} : selHist'.had = h.had)
    BY <1>0, <1>3, SelMarks DEF SelLastFirst, SelLastLast, SelHistory
  <2> QED
    BY <1>0, <1>3, <2>1, SelMarks DEF SelLastFirst, SelLastLast
<1>4. CASE SelListEntry
  <2>1. selHist' = selHist \/ selHist' = SelMark("fault")
    BY <1>4 DEF SelListEntry
  <2> QED
    BY <1>0, <1>4, <2>1, SelMarks DEF SelListEntry
<1>5. CASE ipmi_sel_reserve \/ ipmi_sel_clear
  BY <1>5 DEF ipmi_sel_reserve, ipmi_sel_clear, SelReserved
<1>6. CASE ipmi_sel_delete
  BY <1>6 DEF ipmi_sel_delete, SelDelete, SelReserved
<1>7. CASE selwatch_setup \/ selwatch_check
  <2>1. selHist' = selHist \/ selHist' = SelMark("fault")
    BY <1>7 DEF selwatch_setup, selwatch_check, SelCount
  <2>2. selAt \in {"watch_count", "watch_sleep"}
    BY <1>7 DEF selwatch_setup, selwatch_check
  <2> QED
    BY <1>0, <2>1, <2>2, SelMarks
<1>8. CASE selwatch_get_lastid \/ selwatch_read
  <2>1. \E h \in {selHist, SelMark("fault")} : selHist'.had = h.had
    BY <1>0, <1>8, SelMarks DEF selwatch_get_lastid, selwatch_read, SelHistory
  <2>2. selAt \in {"watch_lastid", "watch_read"}
    BY <1>8 DEF selwatch_get_lastid, selwatch_read
  <2> QED
    BY <1>0, <2>1, <2>2, SelMarks
<1>9. CASE SelAdd
  BY <1>9 DEF SelAdd
<1>10. CASE SelOther
  BY <1>0, <1>10, SelMarks DEF SelOther
<1>11. CASE UNCHANGED selVars
  BY <1>11 DEF selVars
<1> QED
  BY <1>1, <1>2, <1>3, <1>4, <1>5, <1>6, <1>7, <1>8, <1>9, <1>10, <1>11 DEF SelNext, SelCommand, SelWatcher

LEMMA SelAddKept == ASSUME SelGood, SelAdd PROVE SelGood'
<1>1. selEvents \in Nat /\ selEvents' = selEvents + 1 /\ selEvents' <= SelMaxEvents /\ SelMaxEvents \in Nat
      /\ UNCHANGED <<selAt, selArg, selCur, selSeen, selWatch, selHist>> /\ selHist.start \in 0..selEvents
  BY SelNumbers DEF SelAdd, SelGood, SelPlain, SelCursor
<1>2. SelPlain'
  <2>1. selLog \in Seq([id : Nat, ev : Nat]) /\ Len(selLog) = selEvents
    <3>1. selLog = [i \in 1..selEvents |-> [id |-> i, ev |-> i]]
      BY DEF SelGood, SelPlain
    <3> QED
      BY <1>1, <3>1
  <2>2. selLog' = Append(selLog, [id |-> selEvents + 1, ev |-> selEvents + 1])
    BY DEF SelAdd, SelGood, SelPlain, SelCursor
  <2>3. \A i \in 1..selEvents : selLog[i] = [id |-> i, ev |-> i]
    BY DEF SelGood, SelPlain, SelCursor
  <2>4. selLog' = [i \in 1..selEvents' |-> [id |-> i, ev |-> i]]
    BY <1>1, <2>1, <2>2, <2>3
  <2>5. selIds' = selEvents'
    BY DEF SelAdd, SelGood, SelPlain, SelCursor
  <2> QED
    BY <1>1, <2>4, <2>5 DEF SelGood, SelPlain, SelCursor
<1>3. SelFresh'
  BY <1>1 DEF SelGood, SelFresh, SelPlain, SelCursor
<1>4. SelListed'
  <2>1. SelBase' = SelBase
    BY <1>1 DEF SelBase
  <2>2. SelRun => SelRun' /\ SelBase \in Nat /\ Len(selSeen) \in Nat
    BY <1>1, <2>1 DEF SelRun, SelGood, SelPlain, SelCursor
  <2> QED
    BY <1>1, <2>1, <2>2 DEF SelGood, SelListed
<1>5. SelWatched'
  BY <1>1 DEF SelGood, SelWatched, SelSeenSet, SelPlain, SelCursor
<1> QED
  BY <1>2, <1>3, <1>4, <1>5 DEF SelGood

(* The steps before the list.                                              *)
LEMMA SelBeginKept ==
  ASSUME SelGood, SelReserved, ipmi_sel_main \/ SelListInfo \/ SelListReserve \/ SelLastInfo, SelQuiet' PROVE SelGood'
<1>0. SelPlain /\ SelFresh /\ SelMaxEvents \in Nat /\ selEvents \in Nat /\ Len(selLog) = selEvents /\ selSeen = <<>>
  <2>1. selAt \in {"new", "list_info", "list_reserve", "last_info"}
    BY DEF ipmi_sel_main, SelListInfo, SelListReserve, SelLastInfo
  <2> QED
    BY <2>1, SelNumbers DEF SelGood, SelPlain, SelCursor, SelFresh
<1>1. CASE ipmi_sel_main
  BY <1>0, <1>1 DEF ipmi_sel_main, SelGood, SelPlain, SelCursor, SelFresh, SelListed, SelWatched, SelOthers, SelQuiet, SelDeleting
<1>2. CASE SelListInfo
  <2>1. selLog # <<>> => selEvents > 0
    BY <1>0 DEF SelPlain, SelCursor
  <2>2. selLog # <<>> /\ selAt = "list_info" /\ selAt' = "list_reserve"
    BY <1>0, <1>2 DEF SelListInfo, SelQuiet
  <2> QED
    BY <1>0, <1>2, <2>1, <2>2 DEF SelListInfo, SelGood, SelPlain, SelCursor, SelFresh, SelListed, SelWatched, SelOthers, SelQuiet
<1>3. CASE SelListReserve
  <2>1. selHist'.start = (IF selArg.count < 0 THEN 0 ELSE selEvents)
    BY <1>0, <1>3 DEF SelListReserve, SelReserved, SelHistory
  <2> QED
    BY <1>0, <1>3, <2>1 DEF SelListReserve, SelGood, SelPlain, SelCursor, SelFresh, SelListed, SelRun, SelBase, SelWatched, SelQuiet
<1>4. CASE SelLastInfo
  BY <1>0, <1>4 DEF SelLastInfo, SelGood, SelPlain, SelCursor, SelFresh, SelListed, SelWatched, SelOthers, SelQuiet
<1> QED
  BY <1>1, <1>2, <1>3, <1>4

(* The two entries that say where the last ones begin.                     *)
LEMMA SelLastKept ==
  ASSUME SelRoom, SelGood, SelReserved, SelLastFirst \/ SelLastLast, SelQuiet' PROVE SelGood'
<1>0. /\ SelPlain /\ SelFresh /\ SelMaxEvents \in Nat /\ selEvents \in Nat \ {0} /\ Len(selLog) = selEvents /\ selSeen = <<>>
      /\ selEvents < SelEnd /\ SelEnd = 65535 /\ selArg.count \in {-1, -2} /\ -selArg.count <= selEvents /\ selHist'.had = {}
      /\ SelHistory(selHist)
  <2>1. selAt \in {"last_first", "last_last"}
    BY DEF SelLastFirst, SelLastLast
  <2> QED
    BY <2>1, SelNumbers DEF SelGood, SelPlain, SelCursor, SelFresh, SelRoom, SelEnd, SelQuiet, SelReserved
<1>1. CASE SelLastFirst
  <2>1. PICK r \in ipmi_sel_get_std_entry(0) :
          /\ selCur' = [selCur EXCEPT !.delta = r.next - IF r.rec = <<>> THEN 0 ELSE r.rec[1].id]
          /\ selHist' = IF r.rec = <<>> THEN SelMark("fault") ELSE selHist
    BY <1>1 DEF SelLastFirst
  <2>2. r.rec # <<>> /\ selHist' = selHist
    BY <1>0, <2>1, SelMarkStays
  <2>3. r.next # 0
    <3>1. PICK i \in SelIndex(0) : r = [next |-> SelAfter(i), rec |-> <<selLog[i]>>, fault |-> 0]
      BY <2>2 DEF ipmi_sel_get_std_entry
    <3>2. i = 1
      BY <3>1 DEF SelIndex
    <3>3. SelAfter(1) = IF selEvents = 1 THEN SelEnd ELSE 2
      BY <1>0 DEF SelAfter, SelPlain, SelCursor
    <3> QED
      BY <1>0, <3>1, <3>2, <3>3
  <2>4. r.rec[1].id = 1 /\ r.next = IF selEvents = 1 THEN SelEnd ELSE 2
    <3>1. 0 \in 0..selEvents
      BY <1>0
    <3>2. r.rec[1].id = 1 /\ r.next = IF 0 = selEvents \/ selEvents = 1 THEN SelEnd ELSE 2
      BY <1>0, <2>1, <2>3, <3>1, SelRead
    <3> QED
      BY <1>0, <3>2
  <2>5. SelCursor' /\ (selEvents > 1 => selCur'.delta = 1)
    BY <1>0, <2>1, <2>2, <2>4, SMTT(30) DEF SelPlain, SelCursor
  <2> QED
    BY <1>0, <1>1, <2>2, <2>5 DEF SelLastFirst, SelGood, SelPlain, SelCursor, SelFresh, SelListed, SelWatched, SelOthers
<1>2. CASE SelLastLast
  <2>1. PICK r \in ipmi_sel_get_std_entry(SelEnd) :
          /\ selCur' = [selCur EXCEPT !.next = SelStartAt(IF r.rec = <<>> THEN 0 ELSE r.rec[1].id)]
          /\ selHist' = [(IF r.rec = <<>> THEN SelMark("fault") ELSE selHist) EXCEPT !.start = Len(selLog)]
    BY <1>2 DEF SelLastLast
  <2>2. r.rec # <<>> /\ selHist'.start = selEvents
    <3>1. SelHistory(SelMark("fault")) /\ SelMark("fault").had # {}
      BY <1>0, SelMarks
    <3>2. selHist'.had = (IF r.rec = <<>> THEN SelMark("fault") ELSE selHist).had /\ selHist'.start = Len(selLog)
      BY <1>0, <2>1, <3>1 DEF SelHistory
    <3> QED
      BY <1>0, <3>1, <3>2
  <2>3. r.rec[1].id = selEvents
    <3>1. PICK i \in SelIndex(SelEnd) : r = [next |-> SelAfter(i), rec |-> <<selLog[i]>>, fault |-> 0]
      BY <2>2 DEF ipmi_sel_get_std_entry
    <3>2. i = selEvents
      BY <1>0, <3>1 DEF SelIndex
    <3> QED
      BY <1>0, <3>1, <3>2 DEF SelPlain, SelCursor
  <2>4. SelStartAt(selEvents) = selEvents + selArg.count + 1
    <3>1. selCur.delta \in Int /\ (selArg.count = -1 \/ selCur.delta = 1)
      BY <1>2 DEF SelLastLast, SelGood, SelFresh, SelPlain, SelCursor
    <3>2. selEvents + selArg.count * selCur.delta + selCur.delta = selEvents + selArg.count + 1
      <4>1. CASE selArg.count = -1
        BY <1>0, <3>1, <4>1
      <4>2. CASE selCur.delta = 1
        BY <1>0, <4>2
      <4> QED
        BY <3>1, <4>1, <4>2
    <3>3. selEvents + selArg.count + 1 \in Nat /\ selEvents + selArg.count + 1 < 65536
      BY <1>0
    <3>4. \A x \in Nat : x < 65536 => x % 65536 = x
      OBVIOUS
    <3> QED
      BY <3>2, <3>3, <3>4 DEF SelStartAt
  <2>5. SelCursor' /\ selCur'.next = selEvents + selArg.count + 1
    <3>1. selCur' = [selCur EXCEPT !.next = selEvents + selArg.count + 1]
      BY <2>1, <2>2, <2>3, <2>4
    <3>2. selEvents + selArg.count + 1 \in Nat
      BY <1>0
    <3>3. SelCursor
      BY <1>0 DEF SelPlain
    <3> QED
      BY <3>1, <3>2, <3>3 DEF SelCursor
  <2>6. selAt' = "list" /\ UNCHANGED <<selLog, selIds, selEvents, selArg, selSeen, selWatch>>
    BY <1>2 DEF SelLastLast, SelOthers
  <2>7. SelBase' = selEvents + selArg.count + 1 /\ SelBase' \in 1..selEvents
    BY <1>0, <2>2, <2>6 DEF SelBase
  <2>8. SelRun'
    BY <1>0, <2>2, <2>6, <2>7 DEF SelRun
  <2>9. SelPlain' /\ SelFresh'
    BY <1>0, <2>2, <2>5, <2>6 DEF SelPlain, SelCursor, SelFresh
  <2> QED
    BY <1>0, <2>2, <2>5, <2>6, <2>7, <2>8, <2>9 DEF SelGood, SelListed, SelWatched
<1> QED
  BY <1>1, <1>2

LEMMA SelListKept ==
  ASSUME SelRoom, SelGood, SelReserved, SelListEntry, SelQuiet' PROVE SelGood'
<1>0. /\ SelPlain /\ selEvents \in Nat /\ Len(selLog) = selEvents /\ selHist'.had = {} /\ SelHistory(selHist)
      /\ selEvents < SelEnd /\ SelEnd = 65535 /\ SelRun /\ selAt = "list" /\ selSeen \in Seq(Nat)
      /\ selArg.count \in Int /\ selHist.start \in Nat
  <2>1. selAt = "list"
    BY DEF SelListEntry
  <2>2. selHist'.had = {} /\ SelHistory(selHist)
    BY DEF SelQuiet, SelReserved
  <2>3. SelPlain /\ SelRun
    BY <2>1 DEF SelGood, SelListed
  <2>4. /\ selEvents \in Nat /\ Len(selLog) = selEvents /\ selEvents < SelEnd /\ SelEnd = 65535 /\ selSeen \in Seq(Nat)
        /\ selArg.count \in Int /\ selHist.start \in Nat
    BY <2>3, SelNumbers DEF SelPlain, SelCursor, SelRoom, SelEnd
  <2> QED
    BY <2>1, <2>2, <2>3, <2>4
<1>1. UNCHANGED <<selLog, selIds, selEvents, selArg, selWatch>>
  BY DEF SelListEntry, SelOthers
<1>2. SelBase \in Nat \ {0} /\ Len(selSeen) \in Nat
  BY <1>0 DEF SelRun
<1>3. CASE selCur.next = SelEnd
  <2>1. selAt' = "done" /\ UNCHANGED <<selCur, selSeen, selHist>>
    BY <1>3 DEF SelListEntry
  <2>2. UNCHANGED <<SelBase, SelRun, SelPlain>>
    BY <1>1, <2>1 DEF SelBase, SelRun, SelPlain, SelCursor
  <2>3. SelBase + Len(selSeen) > selHist.start
    <3>1. (SelEnd = SelBase + Len(selSeen) /\ SelEnd <= selEvents) \/ SelBase + Len(selSeen) > selHist.start
      BY <1>0, <1>3 DEF SelGood, SelListed
    <3> QED
      BY <1>0, <3>1
  <2> QED
    BY <1>0, <2>1, <2>2, <2>3 DEF SelGood, SelListed, SelFresh, SelWatched
<1>4. CASE selCur.next # SelEnd
  <2>1. PICK r \in ipmi_sel_get_std_entry(selCur.next) :
          IF r.next # 0
          THEN /\ selSeen' = selSeen \o <<r.rec[1].ev>>
               /\ selCur' = [selCur EXCEPT !.next = r.next, !.again = FALSE]
               /\ selAt' = IF Len(selSeen') = selArg.count THEN "done" ELSE "list"
               /\ UNCHANGED selHist
          ELSE selHist' = SelMark("fault")
    BY <1>4 DEF SelListEntry
  <2>2. r.next # 0
    BY <1>0, <2>1, SelMarkStays
  <2>3. selCur.next \in 0..selEvents /\ (IF selCur.next = 0 THEN 1 ELSE selCur.next) = SelBase + Len(selSeen)
    BY <1>0, <1>2, <1>4 DEF SelGood, SelListed, SelBase
  <2>4. /\ r.rec[1].ev = SelBase + Len(selSeen) /\ selEvents > 0
        /\ r.next = IF SelBase + Len(selSeen) = selEvents THEN SelEnd ELSE SelBase + Len(selSeen) + 1
        /\ SelBase + Len(selSeen) <= selEvents
    <3>1. /\ r.rec[1].ev = (IF selCur.next = 0 THEN 1 ELSE selCur.next) /\ selEvents > 0
          /\ r.next = IF selCur.next = selEvents \/ (selCur.next = 0 /\ selEvents = 1) THEN SelEnd
                      ELSE IF selCur.next = 0 THEN 2 ELSE selCur.next + 1
      BY <1>0, <2>1, <2>2, <2>3, SelRead
    <3> QED
      BY <1>0, <1>2, <2>3, <3>1
  <2>5. UNCHANGED SelBase
    BY <1>1, <2>1, <2>2 DEF SelBase
  <2>6. /\ selSeen' \in Seq(Nat) /\ Len(selSeen') = Len(selSeen) + 1
        /\ \A i \in DOMAIN selSeen' : selSeen'[i] = SelBase + i - 1
    <3>1. selSeen' = Append(selSeen, SelBase + Len(selSeen)) /\ SelBase + Len(selSeen) \in Nat
      BY <1>0, <1>2, <2>1, <2>2, <2>4
    <3>2. \A i \in DOMAIN selSeen : selSeen[i] = SelBase + i - 1
      BY <1>0 DEF SelRun
    <3> QED
      BY <1>0, <1>2, <3>1, <3>2
  <2>7. SelCursor' /\ selCur'.next = r.next
    <3>1. r.next \in Nat /\ selCur' = [selCur EXCEPT !.next = r.next, !.again = FALSE]
      BY <1>0, <1>2, <2>1, <2>2, <2>4
    <3>2. SelCursor
      BY <1>0 DEF SelPlain, SelCursor
    <3> QED
      BY <3>1, <3>2 DEF SelCursor
  <2>8. SelPlain'
    BY <1>1, <2>1, <2>2, <2>6, <2>7 DEF SelGood, SelPlain, SelCursor
  <2>9. SelRun'
    BY <1>0, <1>1, <1>2, <2>1, <2>2, <2>4, <2>5, <2>6 DEF SelRun
  <2>10. selAt' \in {"list", "done"} /\ (selAt' = "done" => Len(selSeen') = selArg.count) /\ UNCHANGED selHist
    BY <2>1, <2>2
  <2>11. SelListed'
    <3>1. selSeen' # <<>>
      BY <1>2, <2>6
    <3>2. \/ selCur'.next = SelBase' + Len(selSeen') /\ selCur'.next <= selEvents'
          \/ selCur'.next = SelEnd /\ selSeen' # <<>> /\ SelBase' + Len(selSeen') > selHist'.start
      <4>1. selHist.start <= selEvents
        BY <1>0 DEF SelPlain, SelCursor
      <4>2. selHist'.start = selHist.start /\ selEvents' = selEvents /\ SelBase' = SelBase
        BY <1>1, <2>5, <2>10
      <4>3. CASE SelBase + Len(selSeen) = selEvents
        BY <1>0, <1>2, <2>4, <2>6, <2>7, <3>1, <4>1, <4>2, <4>3
      <4>4. CASE SelBase + Len(selSeen) # selEvents
        <5>1. selCur'.next = SelBase + Len(selSeen) + 1 /\ Len(selSeen') = Len(selSeen) + 1
          BY <2>4, <2>6, <2>7, <4>4
        <5>2. SelBase + Len(selSeen) + 1 <= selEvents
          BY <1>0, <1>2, <2>4, <4>4
        <5>3. SelBase' + Len(selSeen') = SelBase + Len(selSeen) + 1
          BY <1>2, <4>2, <5>1
        <5> QED
          BY <4>2, <5>1, <5>2, <5>3
      <4> QED
        BY <4>3, <4>4
    <3> QED
      BY <1>1, <2>9, <2>10, <3>2 DEF SelListed
  <2> QED
    BY <2>8, <2>10, <2>11 DEF SelGood, SelFresh, SelWatched
<1> QED
  BY <1>3, <1>4

(* The watcher counts.                                                     *)
LEMMA SelCountKept ==
  ASSUME SelRoom, SelGood, SelReserved, selwatch_setup \/ selwatch_check, SelQuiet' PROVE SelGood'
<1>0. /\ SelPlain /\ selEvents \in Nat /\ Len(selLog) = selEvents /\ selHist'.had = {} /\ SelHistory(selHist)
  BY SelNumbers DEF SelGood, SelPlain, SelCursor, SelQuiet, SelReserved
<1>1. UNCHANGED <<selLog, selIds, selEvents, selArg, selSeen>>
  BY DEF selwatch_setup, selwatch_check, SelOthers
<1>2. ASSUME NEW n, SelCount(n) PROVE n = selEvents /\ UNCHANGED selHist
  BY <1>0, <1>2, SelMarkStays DEF SelCount
<1>3. CASE selwatch_setup
  <2>1. selAt = "watch_count" /\ selSeen = <<>> /\ selHist.start = 0
    BY <1>3 DEF selwatch_setup, SelGood, SelFresh
  <2>2. /\ selWatch' = [selWatch EXCEPT !.count = selEvents, !.lastid = 0] /\ UNCHANGED selHist
        /\ selAt' = IF selEvents = 0 THEN "watch_sleep" ELSE "watch_lastid"
        /\ selCur' = [selCur EXCEPT !.next = 0, !.curr = 0, !.again = FALSE]
    <3>1. PICK n \in 0..SelMaxEvents :
            /\ SelCount(n) /\ selWatch' = [selWatch EXCEPT !.count = n, !.lastid = 0]
            /\ selAt' = IF n = 0 THEN "watch_sleep" ELSE "watch_lastid"
            /\ selCur' = [selCur EXCEPT !.next = 0, !.curr = 0, !.again = FALSE]
      BY <1>3 DEF selwatch_setup
    <3>2. n = selEvents /\ UNCHANGED selHist
      BY <1>2, <3>1
    <3> QED
      BY <3>1, <3>2
  <2>3. SelPlain' /\ selCur'.next = 0 /\ selWatch'.count = selEvents /\ selWatch'.lastid = 0
    BY <1>0, <1>1, <2>2 DEF SelPlain, SelCursor
  <2>4. SelSeenSet' = {}
    BY <1>1, <2>1 DEF SelSeenSet
  <2> QED
    BY <1>0, <1>1, <2>1, <2>2, <2>3, <2>4 DEF SelGood, SelFresh, SelListed, SelWatched
<1>4. CASE selwatch_check
  <2>1. selAt = "watch_sleep"
    BY <1>4 DEF selwatch_check
  <2>2. /\ selWatch' = [selWatch EXCEPT !.count = selEvents, !.lastid = IF selEvents = 0 THEN 0 ELSE @] /\ UNCHANGED selHist
        /\ selAt' = CASE selEvents > selWatch.count -> "watch_read"
                      [] selEvents # 0 /\ SelShrunk(selEvents) -> "watch_lastid"
                      [] OTHER -> "watch_sleep"
        /\ selCur' = [selCur EXCEPT !.next = IF selEvents > selWatch.count THEN selWatch.lastid ELSE 0, !.again = FALSE]
    <3>1. PICK n \in 0..SelMaxEvents :
            /\ SelCount(n) /\ selWatch' = [selWatch EXCEPT !.count = n, !.lastid = IF n = 0 THEN 0 ELSE @]
            /\ selAt' = CASE n > selWatch.count -> "watch_read"
                          [] n # 0 /\ SelShrunk(n) -> "watch_lastid"
                          [] OTHER -> "watch_sleep"
            /\ selCur' = [selCur EXCEPT !.next = IF n > selWatch.count THEN selWatch.lastid ELSE 0, !.again = FALSE]
      BY <1>4 DEF selwatch_check
    <3>2. n = selEvents /\ UNCHANGED selHist
      BY <1>2, <3>1
    <3> QED
      BY <3>1, <3>2
  <2>3. /\ selWatch.lastid \in 0..selEvents /\ selWatch.count \in 0..selEvents /\ (selSeen # <<>> => selEvents > 0)
        /\ \A i \in 1..selWatch.lastid : i > selHist.start => i \in SelSeenSet
        /\ \A i, j \in DOMAIN selSeen : i < j /\ selSeen[i] = selSeen[j] => selSeen[i] = 1
        /\ \/ selWatch.count <= selWatch.lastid
           \/ selWatch.count = 1 /\ (selHist.start >= 1 \/ 1 \in SelSeenSet)
        /\ \A e \in SelSeenSet : e = 1 \/ e <= selWatch.lastid
    BY <2>1 DEF SelGood, SelWatched
  <2>4. selAt' = IF selEvents > selWatch.count THEN "watch_read" ELSE "watch_sleep"
    BY <1>0, <2>2, <2>3 DEF SelShrunk
  <2>5. /\ selWatch'.count = selEvents /\ selWatch'.lastid = selWatch.lastid /\ SelPlain'
        /\ selEvents > selWatch.count => selCur'.next = selWatch.lastid
    <3>1. selEvents = 0 => selWatch.lastid = 0
      BY <1>0, <2>3
    <3>2. selWatch \in [count : Nat, lastid : Nat, old : Nat] /\ SelCursor
      BY <1>0 DEF SelPlain, SelCursor
    <3>3. selWatch'.count = selEvents /\ selWatch'.lastid = selWatch.lastid /\ selWatch' \in [count : Nat, lastid : Nat, old : Nat]
      BY <1>0, <2>2, <2>3, <3>1, <3>2
    <3>4. /\ SelCursor'
          /\ selEvents > selWatch.count => selCur'.next = selWatch.lastid
      <4>1. \A x \in Nat : SelCursor /\ selCur' = [selCur EXCEPT !.next = x, !.again = FALSE] => SelCursor' /\ selCur'.next = x
        BY DEF SelCursor
      <4>2. selWatch.lastid \in Nat
        BY <3>2
      <4>3. CASE selEvents > selWatch.count
        BY <2>2, <3>2, <4>1, <4>2, <4>3
      <4>4. CASE ~(selEvents > selWatch.count)
        BY <2>2, <3>2, <4>1, <4>4
      <4> QED
        BY <4>3, <4>4
    <3> QED
      BY <1>0, <1>1, <2>2, <3>3, <3>4 DEF SelPlain, SelCursor
  <2>6. UNCHANGED SelSeenSet
    BY <1>1 DEF SelSeenSet
  <2>7. \A e \in SelSeenSet : e \in Nat
    BY <1>0 DEF SelSeenSet, SelPlain, SelCursor
  <2>8. SelWatched'
    BY <1>0, <1>1, <2>2, <2>3, <2>4, <2>5, <2>6, <2>7 DEF SelWatched
  <2> QED
    BY <2>4, <2>5, <2>8 DEF SelGood, SelFresh, SelListed
<1> QED
  BY <1>3, <1>4

(* The watcher reads, at first for the last id and later to log.           *)
LEMMA SelReadKept ==
  ASSUME SelRoom, SelGood, SelReserved, selwatch_get_lastid \/ selwatch_read, SelQuiet' PROVE SelGood'
<1>0. /\ SelPlain /\ selEvents \in Nat /\ Len(selLog) = selEvents /\ selHist'.had = {} /\ SelHistory(selHist)
      /\ selEvents < SelEnd /\ SelEnd = 65535 /\ selSeen \in Seq(Nat) /\ selHist.start \in Nat
  <2>1. SelPlain
    BY DEF SelGood
  <2>2. selHist'.had = {} /\ SelHistory(selHist)
    BY DEF SelQuiet, SelReserved
  <2> QED
    BY <2>1, <2>2, SelNumbers DEF SelPlain, SelCursor, SelRoom, SelEnd
<1>1. UNCHANGED <<selLog, selIds, selEvents, selArg>>
  BY DEF selwatch_get_lastid, selwatch_read, SelOthers
<1>2. selWatch \in [count : Nat, lastid : Nat, old : Nat] /\ SelCursor
  BY <1>0 DEF SelPlain, SelCursor
<1>3. CASE selwatch_get_lastid
  <2>1. selAt = "watch_lastid" /\ selSeen = <<>> /\ selSeen' = <<>> /\ selCur.next \in 0..selEvents /\ selWatch.count \in 1..selEvents
    BY <1>3 DEF selwatch_get_lastid, SelGood, SelFresh, SelWatched
  <2>2. PICK r \in ipmi_sel_get_std_entry(selCur.next) :
          LET ends == r.next = SelEnd \/ (r.next = 0 /\ selCur.again) IN
          /\ selAt' = IF ends THEN "watch_sleep" ELSE "watch_lastid"
          /\ selWatch' = IF ends THEN [selWatch EXCEPT !.lastid = selCur.next] ELSE selWatch
          /\ selCur' = [selCur EXCEPT !.again = r.next = 0, !.next = IF r.next = 0 THEN @ ELSE r.next]
          /\ selHist' = [(IF r.next = 0 THEN SelMark("fault") ELSE selHist) EXCEPT !.start = IF ends THEN selEvents ELSE @]
    BY <1>3 DEF selwatch_get_lastid
  <2>3. r.next # 0
    <3>1. SelHistory(SelMark("fault")) /\ SelMark("fault").had # {}
      BY <1>0, SelMarks, SMTT(30)
    <3>2. selHist'.had = (IF r.next = 0 THEN SelMark("fault") ELSE selHist).had
      BY <1>0, <2>2, <3>1 DEF SelHistory
    <3> QED
      BY <1>0, <3>1, <3>2
  <2>4. /\ selEvents > 0
        /\ r.next = IF selCur.next = selEvents \/ (selCur.next = 0 /\ selEvents = 1) THEN SelEnd
                    ELSE IF selCur.next = 0 THEN 2 ELSE selCur.next + 1
    BY <1>0, <2>1, <2>2, <2>3, SelRead
  <2>5. selHist'.start = IF r.next = SelEnd THEN selEvents ELSE selHist.start
    BY <1>0, <2>2, <2>3 DEF SelHistory
  <2>6. SelCursor' /\ selCur'.next = r.next
    <3>1. r.next \in Nat
      BY <1>0, <1>2, <2>1, <2>4
    <3>2. PICK b : selCur' = [selCur EXCEPT !.again = b, !.next = r.next]
      BY <2>2, <2>3
    <3> QED
      BY <1>2, <3>1, <3>2 DEF SelCursor
  <2>7. /\ selWatch' \in [count : Nat, lastid : Nat, old : Nat] /\ selWatch'.count = selWatch.count
        /\ r.next = SelEnd => selWatch'.lastid = selCur.next
        /\ selAt' = IF r.next = SelEnd THEN "watch_sleep" ELSE "watch_lastid"
    BY <1>2, <2>1, <2>2, <2>3
  <2>8. SelPlain'
    BY <1>0, <1>1, <2>1, <2>5, <2>6, <2>7 DEF SelPlain, SelCursor
  <2>9. SelSeenSet' = {}
    BY <2>1 DEF SelSeenSet
  <2>10. SelWatched'
    <3>1. CASE r.next = SelEnd
      <4>1. selCur.next = selEvents \/ (selCur.next = 0 /\ selEvents = 1)
        BY <1>0, <2>1, <2>4, <3>1
      <4>2. selHist'.start = selEvents /\ selAt' = "watch_sleep" /\ selWatch'.lastid = selCur.next
        BY <2>5, <2>7, <3>1
      <4> QED
        BY <1>0, <1>1, <2>1, <2>7, <2>9, <4>1, <4>2 DEF SelWatched
    <3>2. CASE r.next # SelEnd
      BY <1>0, <1>1, <2>1, <2>4, <2>6, <2>7, <3>2 DEF SelWatched
    <3> QED
      BY <3>1, <3>2
  <2> QED
    BY <2>1, <2>7, <2>8, <2>10 DEF SelGood, SelFresh, SelListed
<1>4. CASE selwatch_read
  <2>1. selAt = "watch_read"
    BY <1>4 DEF selwatch_read
  <2>2. PICK r \in ipmi_sel_get_std_entry(selCur.next) :
          LET ends == r.next = SelEnd \/ (r.next = 0 /\ selCur.again) IN
          /\ selAt' = IF ends THEN "watch_sleep" ELSE "watch_read"
          /\ selWatch' = IF ends THEN [selWatch EXCEPT !.lastid = selCur.next] ELSE selWatch
          /\ selCur' = [selCur EXCEPT !.again = r.next = 0, !.next = IF r.next = 0 THEN @ ELSE r.next]
          /\ selSeen' = IF r.next # 0 /\ SelLogged(selCur.next) THEN selSeen \o <<r.rec[1].ev>> ELSE selSeen
          /\ selHist' = IF r.next = 0 THEN SelMark("fault") ELSE selHist
    BY <1>4 DEF selwatch_read
  <2>3. r.next # 0 /\ UNCHANGED selHist
    BY <1>0, <2>2, SelMarkStays, SMTT(30)
  <2>4. /\ selWatch.lastid \in 0..selEvents /\ selWatch.count \in 1..selEvents
        /\ \A i \in 1..selWatch.lastid : i > selHist.start => i \in SelSeenSet
        /\ \A i, j \in DOMAIN selSeen : i < j /\ selSeen[i] = selSeen[j] => selSeen[i] = 1
        /\ selCur.next \in selWatch.lastid..selEvents
        /\ \A i \in 1..selCur.next : i > selHist.start /\ i # selCur.next => i \in SelSeenSet
        /\ \A e \in SelSeenSet : e = 1 \/ e < selCur.next \/ e <= selWatch.lastid
    <3>1. SelWatched /\ selWatch.count \in Nat
      BY <1>2 DEF SelGood
    <3>2. /\ selWatch.lastid \in 0..selEvents /\ selWatch.count \in 0..selEvents
          /\ \A i \in 1..selWatch.lastid : i > selHist.start => i \in SelSeenSet
          /\ \A i, j \in DOMAIN selSeen : i < j /\ selSeen[i] = selSeen[j] => selSeen[i] = 1
      BY <2>1, <3>1 DEF SelWatched
    <3>3. /\ selCur.next \in selWatch.lastid..selEvents /\ selWatch.count >= 1
          /\ \A i \in 1..selCur.next : i > selHist.start /\ i # selCur.next => i \in SelSeenSet
          /\ \A e \in SelSeenSet : e = 1 \/ e < selCur.next \/ e <= selWatch.lastid
      BY <2>1, <3>1 DEF SelWatched
    <3> QED
      BY <1>0, <3>1, <3>2, <3>3
  <2>5. selCur.next \in 0..selEvents
    BY <1>0, <2>4
  <2> DEFINE c == IF selCur.next = 0 THEN 1 ELSE selCur.next
  <2>6. /\ selEvents > 0 /\ c \in 1..selEvents /\ r.rec[1].ev = c
        /\ r.next = IF c = selEvents THEN SelEnd ELSE c + 1
    <3>1. /\ selEvents > 0 /\ r.rec[1].ev = c
          /\ r.next = IF selCur.next = selEvents \/ (selCur.next = 0 /\ selEvents = 1) THEN SelEnd
                      ELSE IF selCur.next = 0 THEN 2 ELSE selCur.next + 1
      BY <1>0, <2>2, <2>3, <2>5, SelRead
    <3> QED
      BY <1>0, <2>5, <3>1
  <2>7. SelCursor' /\ selCur'.next = r.next
    <3>1. r.next \in Nat
      BY <1>0, <1>2, <2>6
    <3>2. PICK b : selCur' = [selCur EXCEPT !.again = b, !.next = r.next]
      BY <2>2, <2>3
    <3> QED
      BY <1>2, <3>1, <3>2 DEF SelCursor
  <2>8. /\ selWatch' \in [count : Nat, lastid : Nat, old : Nat] /\ selWatch'.count = selWatch.count
        /\ selWatch'.lastid = IF r.next = SelEnd THEN selCur.next ELSE selWatch.lastid
        /\ selAt' = IF r.next = SelEnd THEN "watch_sleep" ELSE "watch_read"
    <3>1. CASE r.next = SelEnd
      BY <1>2, <2>2, <3>1 DEF SelCursor
    <3>2. CASE r.next # SelEnd
      BY <1>2, <2>2, <2>3, <3>2
    <3> QED
      BY <3>1, <3>2
  <2>9. c # selWatch.lastid \/ selCur.next = 0 => selSeen' = Append(selSeen, c)
    BY <1>0, <2>2, <2>3, <2>6 DEF SelLogged
  <2>10. c = selWatch.lastid /\ selCur.next # 0 => selSeen' = selSeen
    BY <2>2, <2>3 DEF SelLogged
  <2> HIDE DEF c
  <2>11. /\ selSeen' \in Seq(Nat) /\ SelSeenSet \subseteq Nat /\ SelSeenSet \subseteq SelSeenSet'
         /\ SelSeenSet' \subseteq SelSeenSet \cup {c}
    <3>1. CASE selSeen' = selSeen
      BY <1>0, <3>1 DEF SelSeenSet
    <3>2. CASE selSeen' = Append(selSeen, c)
      <4>1. selSeen' \in Seq(Nat) /\ Len(selSeen') = Len(selSeen) + 1 /\ Len(selSeen) \in Nat
        BY <1>0, <2>6, <3>2
      <4>2. \A i \in 1..Len(selSeen) : selSeen'[i] = selSeen[i]
        BY <1>0, <2>6, <3>2
      <4>3. selSeen'[Len(selSeen) + 1] = c
        BY <1>0, <2>6, <3>2
      <4>4. DOMAIN selSeen = 1..Len(selSeen) /\ DOMAIN selSeen' = 1..(Len(selSeen) + 1)
        BY <1>0, <4>1
      <4>5. SelSeenSet \subseteq Nat
        BY <1>0 DEF SelSeenSet
      <4>6. SelSeenSet \subseteq SelSeenSet'
        BY <4>1, <4>2, <4>4 DEF SelSeenSet
      <4>7. SelSeenSet' \subseteq SelSeenSet \cup {c}
        BY <4>1, <4>2, <4>3, <4>4 DEF SelSeenSet
      <4> QED
        BY <4>1, <4>5, <4>6, <4>7
    <3> QED
      BY <2>9, <2>10, <3>1, <3>2
  <2>12. c > selHist.start => c \in SelSeenSet'
    <3>1. CASE selSeen' = Append(selSeen, c)
      <4>1. Len(selSeen') \in DOMAIN selSeen' /\ selSeen'[Len(selSeen')] = c
        BY <1>0, <2>6, <3>1
      <4> QED
        BY <4>1 DEF SelSeenSet
    <3>2. CASE c = selWatch.lastid /\ selCur.next # 0
      BY <2>4, <2>6, <2>11, <3>2
    <3> QED
      BY <2>9, <3>1, <3>2
  <2>13. \A i, j \in DOMAIN selSeen' : i < j /\ selSeen'[i] = selSeen'[j] => selSeen'[i] = 1
    <3>1. CASE selSeen' = selSeen
      BY <2>4, <3>1
    <3>2. CASE selSeen' = Append(selSeen, c) /\ (c # selWatch.lastid \/ selCur.next = 0)
      <4>1. \A i \in DOMAIN selSeen : selSeen[i] = c => c = 1
        <5>1. SUFFICES ASSUME NEW i \in DOMAIN selSeen, selSeen[i] = c, c # 1 PROVE FALSE
          OBVIOUS
        <5>2. c \in SelSeenSet /\ c = selCur.next
          BY <5>1 DEF SelSeenSet, c
        <5> QED
          BY <2>4, <2>6, <3>2, <5>1, <5>2
      <4> QED
        BY <1>0, <2>4, <3>2, <4>1
    <3> QED
      BY <2>9, <2>10, <3>1, <3>2
  <2>14. \A i \in 1..c : i > selHist.start => i \in SelSeenSet'
    BY <2>4, <2>6, <2>11, <2>12 DEF c
  <2>15. \A e \in SelSeenSet' : e = 1 \/ e <= c
    BY <1>0, <2>4, <2>6, <2>11 DEF c
  <2>16. SelPlain'
    BY <1>0, <1>1, <2>3, <2>7, <2>8, <2>11 DEF SelPlain, SelCursor
  <2>17. SelWatched'
    <3>1. CASE r.next = SelEnd
      <4>1. c = selEvents /\ selAt' = "watch_sleep" /\ selWatch'.lastid = selCur.next
        BY <1>0, <2>6, <2>8, <3>1
      <4>2. c = selCur.next \/ (c = 1 /\ selCur.next = 0)
        BY DEF c
      <4> QED
        BY <1>0, <1>1, <2>3, <2>4, <2>5, <2>6, <2>8, <2>11, <2>13, <2>14, <2>15, <4>1, <4>2 DEF SelWatched
    <3>2. CASE r.next # SelEnd
      <4>1. c < selEvents /\ selAt' = "watch_read" /\ selWatch'.lastid = selWatch.lastid /\ selCur'.next = c + 1
        BY <1>0, <2>6, <2>7, <2>8, <3>2
      <4>2. selWatch.lastid <= c
        BY <1>0, <2>4, <2>6 DEF c
      <4> QED
        <5>1. selWatch'.lastid \in 0..selEvents' /\ selWatch'.count \in 0..selEvents' /\ selWatch'.count >= 1
          BY <1>1, <2>4, <2>8, <4>1
        <5>2. \A i \in 1..selWatch'.lastid : i > selHist'.start => i \in SelSeenSet'
          BY <2>3, <2>4, <2>11, <4>1
        <5>3. selCur'.next \in selWatch'.lastid..selEvents'
          BY <1>0, <1>1, <2>4, <2>6, <4>1, <4>2
        <5>4. \A i \in 1..selCur'.next : i > selHist'.start /\ i # selCur'.next => i \in SelSeenSet'
          BY <1>0, <2>3, <2>6, <2>14, <4>1
        <5>5. \A e \in SelSeenSet' : e = 1 \/ e < selCur'.next \/ e <= selWatch'.lastid
          <6>1. c \in Nat /\ SelSeenSet' \subseteq Nat
            BY <1>0, <2>6, <2>11
          <6>2. \A e \in Nat : e <= c => e < c + 1
            BY <6>1
          <6> QED
            BY <2>15, <4>1, <6>1, <6>2
        <5> QED
          BY <1>1, <2>6, <2>13, <4>1, <5>1, <5>2, <5>3, <5>4, <5>5 DEF SelWatched
    <3> QED
      BY <3>1, <3>2
  <2> QED
    BY <2>8, <2>16, <2>17 DEF SelGood, SelFresh, SelListed
<1> QED
  BY <1>3, <1>4

LEMMA SelInvInit == SelInit => SelInv
<1> SUFFICES ASSUME SelInit PROVE SelInv
  OBVIOUS
<1>1. SelReserved
  BY SelReservedInit
<1>2. SelPlain
  BY SelNumbers DEF SelInit, SelPlain, SelCursor
<1> QED
  BY <1>1, <1>2 DEF SelInit, SelInv, SelGood, SelFresh, SelListed, SelWatched

LEMMA SelInvStep == ASSUME SelRoom, SelInv, [SelNext]_selVars PROVE SelInv'
<1>1. SelReserved'
  BY SelReservedStep DEF SelInv
<1>2. ASSUME SelQuiet' PROVE SelGood'
  <2>1. SelQuiet /\ SelGood /\ SelReserved
    BY <1>2, SelQuietBefore DEF SelInv
  <2>2. CASE ipmi_sel_main \/ SelListInfo \/ SelListReserve \/ SelLastInfo
    BY <1>2, <2>1, <2>2, SelBeginKept
  <2>3. CASE SelLastFirst \/ SelLastLast
    BY <1>2, <2>1, <2>3, SelLastKept
  <2>4. CASE SelListEntry
    BY <1>2, <2>1, <2>4, SelListKept
  <2>5. CASE ipmi_sel_reserve \/ ipmi_sel_delete \/ ipmi_sel_clear
    BY <2>1, <2>5 DEF ipmi_sel_reserve, ipmi_sel_delete, SelDelete, ipmi_sel_clear, SelQuiet, SelDeleting
  <2>6. CASE selwatch_setup \/ selwatch_check
    BY <1>2, <2>1, <2>6, SelCountKept
  <2>7. CASE selwatch_get_lastid \/ selwatch_read
    BY <1>2, <2>1, <2>7, SelReadKept
  <2>8. CASE SelAdd
    BY <2>1, <2>8, SelAddKept
  <2>9. CASE SelOther
    BY <1>2, <2>1, <2>9, SelMarkStays DEF SelOther, SelQuiet, SelReserved
  <2>10. CASE UNCHANGED selVars
    BY <2>1, <2>10 DEF selVars, SelGood, SelPlain, SelCursor, SelFresh, SelListed, SelRun, SelBase, SelWatched, SelSeenSet
  <2> QED
    BY <2>2, <2>3, <2>4, <2>5, <2>6, <2>7, <2>8, <2>9, <2>10 DEF SelNext, SelCommand, SelWatcher
<1> QED
  BY <1>1, <1>2 DEF SelInv

(* "sel list" prints every entry that was there when it began, once and in *)
(* order, "sel list last N" the last N, and the watcher logs every event   *)
(* that arrived since it began, up to the count it has seen, and none      *)
(* twice but the log's first, unless they are disturbed.                   *)
THEOREM LogExactlyShown == SelRoom => (CmdSpec => []SelExact)
<1> SUFFICES ASSUME SelRoom PROVE CmdSpec => []SelExact
  OBVIOUS
<1>1. CmdInit => SelInv
  BY SelInvInit DEF CmdInit
<1>2. SelInv /\ [CmdNext]_cmdVars => SelInv'
  BY CmdMoves, SelInvStep
<1>3. SelInv => SelListComplete
  <2> SUFFICES ASSUME SelInv, selAt = "done", selSeen # <<>>, SelUndisturbed PROVE SelListComplete
    BY DEF SelListComplete
  <2> DEFINE n == selHist.start
             from == IF selArg.count < 0 THEN n + selArg.count + 1 ELSE 1
             to == IF selArg.count > 0 THEN SelMin(n, selArg.count) ELSE n
  <2>1. SelPlain /\ SelRun /\ (Len(selSeen) = selArg.count \/ SelBase + Len(selSeen) > selHist.start)
    BY DEF SelInv, SelQuiet, SelDeleting, SelUndisturbed, SelGood, SelListed
  <2>2. /\ selSeen \in Seq(Nat) /\ selEvents \in Nat /\ n \in 0..selEvents /\ selArg.count \in {0, 1, -1, -2}
        /\ \A i \in 1..selEvents : selLog[i].ev = i
    BY <2>1, SelNumbers DEF SelPlain
  <2>3. from = SelBase /\ SelBase \in 1..n /\ Len(selSeen) \in Nat \ {0} /\ DOMAIN selSeen = 1..Len(selSeen)
        /\ \A i \in DOMAIN selSeen : selSeen[i] = SelBase + i - 1
    BY <2>1, <2>2 DEF SelRun, SelBase
  <2>4. \A i \in from..to : selLog[i].ev \in SelSeenSet
    <3>1. SUFFICES ASSUME NEW i \in from..to PROVE selLog[i].ev \in SelSeenSet
      OBVIOUS
    <3>2. i \in Nat /\ i >= SelBase /\ i <= n /\ (selArg.count > 0 => i <= selArg.count)
      BY <2>2, <2>3, <3>1 DEF SelMin
    <3>3. i < SelBase + Len(selSeen)
      BY <2>1, <2>2, <2>3, <3>2 DEF SelBase
    <3>4. i - SelBase + 1 \in 1..Len(selSeen) /\ selSeen[i - SelBase + 1] = i
      BY <2>2, <2>3, <3>2, <3>3
    <3>5. selLog[i].ev = i
      BY <2>2, <2>3, <3>2
    <3> QED
      BY <2>3, <3>4, <3>5 DEF SelSeenSet
  <2>5. \A i \in 2..Len(selSeen) : selSeen[i] = selSeen[i - 1] + 1
    <3>1. SUFFICES ASSUME NEW i \in 2..Len(selSeen) PROVE selSeen[i] = selSeen[i - 1] + 1
      OBVIOUS
    <3>2. i \in 1..Len(selSeen) /\ i - 1 \in 1..Len(selSeen) /\ SelBase \in Nat
      BY <2>2, <2>3, <3>1
    <3>3. selSeen[i] = SelBase + i - 1 /\ selSeen[i - 1] = SelBase + (i - 1) - 1
      BY <2>3, <3>2
    <3> QED
      BY <3>2, <3>3
  <2>6. selArg.count < 0 => selSeen[1] >= selLog[from].ev
    <3>1. selSeen[1] = SelBase /\ SelBase \in 1..selEvents
      BY <2>2, <2>3
    <3> QED
      BY <2>2, <2>3, <3>1
  <2> QED
    BY <2>4, <2>5, <2>6 DEF SelListComplete
<1>4. SelInv => SelWatchComplete /\ SelWatchOnce
  <2> SUFFICES ASSUME SelInv, selAt \in {"watch_sleep", "watch_read"}, SelUndisturbed PROVE SelWatchComplete /\ SelWatchOnce
    BY DEF SelWatchComplete, SelWatchOnce
  <2>1. SelPlain /\ SelWatched
    BY DEF SelInv, SelQuiet, SelDeleting, SelUndisturbed, SelGood
  <2>2. /\ selEvents \in Nat /\ selHist.start \in Nat
        /\ \A i \in 1..selEvents : selLog[i].ev = i
    BY <2>1, SelNumbers DEF SelPlain
  <2>3. ASSUME selAt = "watch_sleep", NEW i \in 1..selWatch.count, selLog[i].ev > selHist.start
        PROVE  selLog[i].ev \in SelSeenSet
    BY <2>1, <2>2, <2>3 DEF SelWatched
  <2>4. ASSUME NEW i \in DOMAIN selSeen, NEW j \in DOMAIN selSeen, i < j, selSeen[i] = selSeen[j]
        PROVE  selSeen[i] = selLog[1].ev
    <3>1. selSeen[i] = 1
      BY <2>1, <2>4 DEF SelWatched
    <3>2. selEvents > 0
      BY <2>1, <2>4 DEF SelWatched, SelPlain
    <3> QED
      BY <2>2, <3>1, <3>2
  <2> QED
    BY <2>3, <2>4 DEF SelWatchComplete, SelWatchOnce
<1>5. SelInv => SelExact
  BY <1>3, <1>4 DEF SelExact
<1> QED
  BY <1>1, <1>2, <1>5, PTL DEF CmdSpec

-----------------------------------------------------------------------------
(* The Kontron upload. The steps that are left of an upload, counted to    *)
(* the last one of "upgrade".                                              *)
FwUploads == {"download", "upgrade"}
FwLeft == IF fwTask = "download" THEN Len(fwTodo) + 1 ELSE Len(fwTodo)
FwStage(m) ==
  CASE m = 1 -> "upgrade" [] m \in {2, 3} -> "bank" [] m \in {4, 8} -> "info" [] m = 5 -> "finish" [] m = 6 -> "save"
    [] m = 7 -> "start" [] m = 9 -> "devid" [] OTHER -> "file"
FwNames == {"file", "devid", "info", "start", "save", "finish", "bank", "upgrade", "rollback", "trace"}
FwPlaced ==
  /\ fwTodo \in Seq(FwNames)
  /\ IF fwTask \in FwUploads THEN FwLeft <= 10 /\ \A i \in DOMAIN fwTodo : fwTodo[i] = FwStage(FwLeft + 1 - i)
     ELSE \A i \in DOMAIN fwTodo : fwTodo[i] \notin {"start", "save", "finish"}
FwTypes ==
  /\ fwInfo \in [seq : BOOLEAN, buffer : Nat]
  /\ fwUp \in [address : Nat, last : Nat, seq : Nat, retry : Nat]
  /\ fwSave \in [n : Int, old : Nat, retry : {fwSave.retry}, silent : Nat]
  /\ fwBoard \in [seq : BOOLEAN, lan : BOOLEAN, limit : {fwBoard.limit}, image : Seq(Nat), next : Nat, sum : {fwBoard.sum},
                  upgraded : BOOLEAN]
(* Before the pieces, and between and in them.                             *)
FwReady == /\ fwUp = [address |-> 0, last |-> 0, seq |-> 0, retry |-> FwRetry] /\ fwSave.n = -1
FwPieces ==
  /\ fwUp.last <= fwUp.address /\ fwUp.address <= FwTotal /\ fwUp.seq < FwSeqs /\ fwUp.retry <= FwRetry
  /\ fwBoard.next < FwSeqs
  /\ fwSave.n \in -1..fwSave.old
  /\ fwSave.n >= 0 => fwSave.old <= fwInfo.buffer /\ fwUp.address + fwSave.old <= FwTotal
FwRight(image) == \A i \in DOMAIN image : image[i] = i
(* With addresses, what the board has is right, and not less than sent.    *)
FwByAddress(b) == fwUp.address <= Len(b.image) /\ Len(b.image) <= FwTotal /\ FwRight(b.image)
(* With numbers: the piece under way is not stored, and the board waits    *)
(* for its number, or for one before that errors have passed by; or it is  *)
(* stored and the answer was lost. What is too much stays too much.        *)
FwMissing(b, lag) == fwUp.seq = b.next + lag \/ fwUp.seq + FwSeqs = b.next + lag
FwNotStored(b) ==
  /\ \E lag \in 0..(FwRetry - fwUp.retry) : FwMissing(b, lag)
  /\ Len(b.image) >= fwUp.address /\ (Len(b.image) = fwUp.address => FwRight(b.image))
FwIsStored(b) ==
  /\ fwSave.n >= 0 /\ b.next = FwNextSeq
  /\ Len(b.image) >= fwUp.address + fwSave.n /\ (Len(b.image) = fwUp.address + fwSave.n => FwRight(b.image))
FwHas(b) == IF fwInfo.seq THEN FwNotStored(b) \/ FwIsStored(b) ELSE FwByAddress(b)
FwLoop == FwPieces /\ FwHas(fwBoard)
FwDone == IF fwInfo.seq THEN Len(fwBoard.image) >= FwTotal /\ (Len(fwBoard.image) = FwTotal => FwRight(fwBoard.image))
          ELSE Len(fwBoard.image) = FwTotal /\ FwRight(fwBoard.image)
FwWhole == Len(fwBoard.image) = FwTotal /\ FwRight(fwBoard.image)
FwInv ==
  /\ FwTypes /\ FwPlaced
  /\ fwTask = "none" => FwReady /\ fwTodo = <<>>
  /\ fwTask \in FwUploads /\ fwTodo # <<>> =>
       /\ FwLeft > 6 => FwReady
       /\ FwLeft = 6 => FwLoop
       /\ FwLeft = 5 => FwDone
       /\ FwLeft < 5 => FwWhole
       /\ FwLeft > 1 => ~fwBoard.upgraded
  /\ fwTask = "none" => ~fwBoard.upgraded
  /\ fwTask = "upgrade" /\ fwBoard.upgraded => FwWhole

(* Errors in a row do not lead once around the sequence numbers.           *)
FwFew == FwRetry + 1 < FwSeqs

LEMMA FwNow ==
  ASSUME FwPlaced, NEW step, FwAt(step)
  PROVE  /\ fwTodo # <<>> /\ Len(fwTodo) \in Nat \ {0} /\ fwTodo[1] = step
         /\ fwTask \in FwUploads => FwLeft \in 1..10 /\ FwStage(FwLeft) = step
         /\ step \in {"start", "save", "finish"} => fwTask \in FwUploads
<1>1. fwTodo \in Seq(FwNames) /\ fwTodo # <<>> /\ Head(fwTodo) = step
  BY DEF FwAt, FwPlaced
<1>2. Len(fwTodo) \in Nat \ {0} /\ fwTodo[1] = step /\ 1 \in DOMAIN fwTodo
  BY <1>1
<1>3. ASSUME fwTask \in FwUploads PROVE FwLeft \in 1..10 /\ FwStage(FwLeft) = step
  <2>1. FwLeft \in Nat /\ FwLeft >= 1 /\ FwLeft <= 10
    BY <1>2, <1>3 DEF FwPlaced, FwLeft
  <2>2. fwTodo[1] = FwStage(FwLeft + 1 - 1)
    BY <1>2, <1>3 DEF FwPlaced
  <2>3. FwLeft + 1 - 1 = FwLeft
    BY <2>1
  <2> QED
    BY <1>2, <2>1, <2>2, <2>3
<1>4. step \in {"start", "save", "finish"} => fwTask \in FwUploads
  BY <1>2 DEF FwPlaced
<1> QED
  BY <1>1, <1>2, <1>3, <1>4

LEMMA FwStages ==
  ASSUME NEW m \in 1..10
  PROVE  /\ FwStage(m) = "start" <=> m = 7
         /\ FwStage(m) = "save" <=> m = 6
         /\ FwStage(m) = "finish" <=> m = 5
         /\ FwStage(m) = "upgrade" <=> m = 1
BY DEF FwStage

LEMMA FwGoesOn ==
  ASSUME FwPlaced, fwTodo # <<>>, fwTask' = fwTask, NEW ok \in BOOLEAN, FwThen(ok)
  PROVE  /\ FwPlaced' /\ (ok => FwLeft' = FwLeft - 1) /\ (~ok => fwTodo' = <<>>)
<1>1. fwTodo \in Seq(FwNames) /\ Len(fwTodo) \in Nat \ {0}
  BY DEF FwPlaced
<1>2. CASE ok
  <2>1. fwTodo' = Tail(fwTodo)
    BY <1>2 DEF FwThen
  <2>2. fwTodo' \in Seq(FwNames) /\ Len(fwTodo') = Len(fwTodo) - 1 /\ \A i \in DOMAIN fwTodo' : fwTodo'[i] = fwTodo[i + 1] /\ i + 1 \in DOMAIN fwTodo
    BY <1>1, <2>1
  <2>3. FwLeft' = FwLeft - 1 /\ FwLeft \in Nat
    BY <1>1, <2>2 DEF FwLeft
  <2>4. CASE fwTask \in FwUploads
    <3>1. FwLeft' <= 10
      BY <2>3, <2>4 DEF FwPlaced
    <3>2. \A i \in DOMAIN fwTodo' : fwTodo'[i] = FwStage(FwLeft' + 1 - i)
      <4>1. SUFFICES ASSUME NEW i \in DOMAIN fwTodo' PROVE fwTodo'[i] = FwStage(FwLeft' + 1 - i)
        OBVIOUS
      <4>2. fwTodo'[i] = FwStage(FwLeft + 1 - (i + 1))
        BY <2>2, <2>4 DEF FwPlaced
      <4>3. FwLeft + 1 - (i + 1) = FwLeft' + 1 - i
        BY <2>2, <2>3
      <4> QED
        BY <4>2, <4>3
    <3> QED
      BY <1>2, <2>2, <2>3, <2>4, <3>1, <3>2 DEF FwPlaced
  <2>5. CASE fwTask \notin FwUploads
    BY <1>2, <2>2, <2>3, <2>5 DEF FwPlaced
  <2> QED
    BY <2>4, <2>5
<1>3. CASE ~ok
  <2>1. fwTodo' = <<>>
    BY <1>3 DEF FwThen
  <2> QED
    BY <1>3, <2>1 DEF FwPlaced, FwLeft
<1> QED
  BY <1>2, <1>3

LEMMA FwNextStage ==
  ASSUME FwPlaced, fwTodo # <<>>, fwTask' = fwTask, FwThen(TRUE)
  PROVE  FwPlaced' /\ FwLeft' = FwLeft - 1
BY FwGoesOn

LEMMA FwStops ==
  ASSUME FwPlaced, fwTodo # <<>>, fwTask' = fwTask, FwThen(FALSE)
  PROVE  FwPlaced' /\ fwTodo' = <<>>
BY FwGoesOn

(* Steps that do not touch the upload.                                     *)
LEMMA FwCalm ==
  ASSUME FwInv, NEW step, step \notin {"start", "save", "finish", "upgrade"}, FwAt(step), NEW ok \in BOOLEAN, FwThen(ok),
         UNCHANGED <<fwTask, fwUp, fwSave, fwBoard>>, fwInfo' \in [seq : BOOLEAN, buffer : Nat]
  PROVE  FwInv'
<1>1. FwPlaced /\ FwTypes
  BY DEF FwInv
<1>2. /\ fwTodo # <<>> /\ (fwTask \in FwUploads => FwLeft \in 1..10 /\ FwStage(FwLeft) = step)
  BY <1>1, FwNow
<1>3. FwPlaced' /\ (ok => FwLeft' = FwLeft - 1) /\ (~ok => fwTodo' = <<>>)
  BY <1>1, <1>2, FwGoesOn
<1>4. FwTypes'
  BY <1>1 DEF FwTypes
<1>5. UNCHANGED <<FwWhole, FwReady>>
  BY DEF FwWhole, FwRight, FwReady
<1>6. ASSUME fwTask' \in FwUploads, fwTodo' # <<>>
      PROVE  /\ FwLeft' > 6 => FwReady' /\ FwLeft' # 6 /\ FwLeft' # 5
             /\ FwLeft' < 5 => FwWhole'
             /\ FwLeft' > 1 => ~fwBoard'.upgraded
  <2>1. ok /\ FwLeft' = FwLeft - 1 /\ FwLeft \in 1..10 /\ FwLeft \notin {7, 6, 5, 1}
    BY <1>2, <1>3, <1>6, FwStages
  <2> QED
    BY <1>2, <1>5, <1>6, <2>1 DEF FwInv
<1>7. fwTask \in FwUploads /\ fwTodo' # <<>> => FwLeft' # 6 /\ FwLeft' # 5
  BY <1>2, <1>3, FwStages
<1>8. fwTask # "none"
  BY <1>2 DEF FwInv
<1> QED
  BY <1>3, <1>4, <1>5, <1>6, <1>7, <1>8 DEF FwInv

LEMMA FwBooleans == TRUE \in BOOLEAN /\ FALSE \in BOOLEAN
OBVIOUS

LEMMA FwCalmKept ==
  ASSUME FwInv, FwReadFile \/ KfwumGetDeviceInfo \/ KfwumGetInfo \/ KfwumGetStatus \/ KfwumManualRollback \/ KfwumGetTraceLog
  PROVE  FwInv'
<1>1. fwInfo \in [seq : BOOLEAN, buffer : Nat] /\ fwBoard.seq \in BOOLEAN /\ FwBuffer \in Nat
  BY FwNumbers DEF FwInv, FwTypes
<1>2. PICK step \in {"file", "devid", "info", "bank", "rollback", "trace"} : FwAt(step)
  BY DEF FwReadFile, KfwumGetDeviceInfo, KfwumGetInfo, KfwumGetStatus, KfwumManualRollback, KfwumGetTraceLog
<1>3. UNCHANGED <<fwTask, fwUp, fwSave, fwBoard>>
  BY DEF FwReadFile, KfwumGetDeviceInfo, KfwumGetInfo, KfwumGetStatus, KfwumManualRollback, KfwumGetTraceLog
<1>4. fwInfo' \in [seq : BOOLEAN, buffer : Nat]
  <2>1. fwInfo' = fwInfo \/ fwInfo' = [seq |-> fwBoard.seq, buffer |-> FwBuffer]
    BY DEF FwReadFile, KfwumGetDeviceInfo, KfwumGetInfo, KfwumGetStatus, KfwumManualRollback, KfwumGetTraceLog
  <2> QED
    BY <1>1, <2>1
<1>5. \E ok \in BOOLEAN : FwThen(ok)
  BY FwBooleans DEF FwReadFile, KfwumGetDeviceInfo, KfwumGetInfo, KfwumGetStatus, KfwumManualRollback, KfwumGetTraceLog, FwOneRequest
<1>6. PICK ok \in BOOLEAN : FwThen(ok)
  BY <1>5
<1>7. step \notin {"start", "save", "finish", "upgrade"}
  BY <1>2
<1> QED
  BY <1>2, <1>3, <1>4, <1>6, <1>7, FwCalm

LEMMA FwMainKept == ASSUME FwInv, ipmi_fwum_main PROVE FwInv'
<1>1. /\ fwTask = "none" /\ fwTodo' = KfwumMain(fwTask') /\ UNCHANGED <<fwInfo, fwUp, fwSave>>
      /\ fwTask' \in {"download", "upgrade", "startupgrade", "info", "status", "rollback", "tracelog"}
  BY DEF ipmi_fwum_main
<1>2. FwReady /\ ~fwBoard.upgraded /\ FwTypes
  BY <1>1 DEF FwInv
<1>3. FwReady'
  BY <1>1, <1>2 DEF FwReady
<1>4. FwTypes' /\ fwBoard'.upgraded = fwBoard.upgraded
  <2>1. PICK b, lan \in BOOLEAN, l \in FwLimits : fwBoard' = [fwBoard EXCEPT !.seq = b, !.lan = lan, !.limit = l]
    BY DEF ipmi_fwum_main
  <2> QED
    BY <1>1, <1>2, <2>1 DEF FwTypes
<1>5. FwPlaced' /\ (fwTask' \in FwUploads => FwLeft' = 10)
  <2>1. CASE fwTask' = "download"
    <3>1. fwTodo' = <<"file", "devid", "info", "start", "save", "finish", "info", "bank", "bank">>
      BY <1>1, <2>1 DEF KfwumMain, FwUpload
    <3>2. fwTodo' \in Seq(FwNames) /\ Len(fwTodo') = 9 /\ FwLeft' = 10
      BY <2>1, <3>1 DEF FwLeft, FwNames
    <3>3. \A i \in DOMAIN fwTodo' : fwTodo'[i] = FwStage(11 - i)
      BY <3>1 DEF FwStage
    <3> QED
      BY <2>1, <3>2, <3>3 DEF FwPlaced, FwUploads
  <2>2. CASE fwTask' = "upgrade"
    <3>1. fwTodo' = Append(FwUpload, "upgrade") /\ FwUpload \in Seq(FwNames) /\ Len(FwUpload) = 9 /\ "upgrade" \in FwNames
      BY <1>1, <2>2 DEF KfwumMain, FwUpload, FwNames
    <3>2. fwTodo' \in Seq(FwNames) /\ Len(fwTodo') = 10 /\ FwLeft' = 10 /\ fwTodo'[10] = "upgrade"
      <4>1. fwTodo' \in Seq(FwNames) /\ Len(fwTodo') = Len(FwUpload) + 1 /\ fwTodo'[Len(FwUpload) + 1] = "upgrade"
        <5>1. \A u \in Seq(FwNames), x \in FwNames :
                /\ Append(u, x) \in Seq(FwNames) /\ Len(Append(u, x)) = Len(u) + 1 /\ Append(u, x)[Len(u) + 1] = x
          OBVIOUS
        <5> QED
          BY <3>1, <5>1
      <4>2. Len(fwTodo') = 10 /\ fwTodo'[10] = "upgrade"
        BY <3>1, <4>1
      <4> QED
        BY <2>2, <4>1, <4>2 DEF FwLeft
    <3>3. \A i \in DOMAIN fwTodo' : fwTodo'[i] = FwStage(11 - i)
      <4>1. \A i \in 1..9 : fwTodo'[i] = FwUpload[i]
        BY <3>1
      <4>2. \A i \in 1..9 : FwUpload[i] = FwStage(11 - i)
        BY DEF FwUpload, FwStage
      <4>3. FwStage(11 - 10) = "upgrade"
        BY DEF FwStage
      <4>4. DOMAIN fwTodo' = 1..10
        BY <3>2
      <4> QED
        BY <3>2, <4>1, <4>2, <4>3, <4>4
    <3> QED
      BY <2>2, <3>2, <3>3 DEF FwPlaced, FwUploads
  <2>3. CASE fwTask' \notin FwUploads
    <3>1. \/ fwTodo' = <<"upgrade">> \/ fwTodo' = <<"devid", "info">> \/ fwTodo' = <<"info", "bank", "bank">>
          \/ fwTodo' = <<"rollback">> \/ fwTodo' = <<"trace", "trace">>
      BY <1>1, <2>3 DEF KfwumMain, FwUploads
    <3>2. /\ fwTodo' \in Seq(FwNames)
          /\ \A i \in DOMAIN fwTodo' : fwTodo'[i] \notin {"start", "save", "finish"}
      <4>1. ASSUME NEW a \in FwNames \ {"start", "save", "finish"}, fwTodo' = <<a>>
            PROVE  fwTodo' \in Seq(FwNames) /\ \A i \in DOMAIN fwTodo' : fwTodo'[i] \notin {"start", "save", "finish"}
        BY <4>1
      <4>2. ASSUME NEW a \in FwNames \ {"start", "save", "finish"}, NEW b \in FwNames \ {"start", "save", "finish"}, fwTodo' = <<a, b>>
            PROVE  fwTodo' \in Seq(FwNames) /\ \A i \in DOMAIN fwTodo' : fwTodo'[i] \notin {"start", "save", "finish"}
        BY <4>2
      <4>3. CASE fwTodo' = <<"info", "bank", "bank">>
        BY <4>3 DEF FwNames
      <4>4. {"upgrade", "devid", "info", "rollback", "trace"} \subseteq FwNames \ {"start", "save", "finish"}
        BY DEF FwNames
      <4> QED
        BY <3>1, <4>1, <4>2, <4>3, <4>4
    <3> QED
      BY <2>3, <3>2 DEF FwPlaced
  <2> QED
    BY <2>1, <2>2, <2>3 DEF FwUploads
<1> QED
  BY <1>1, <1>2, <1>3, <1>4, <1>5 DEF FwInv

LEMMA FwStartKept == ASSUME FwInv, KfwumStartFirmwareImage PROVE FwInv'
<1>1. FwAt("start") /\ UNCHANGED <<fwTask, fwInfo, fwUp, fwSave>> /\ FwPlaced /\ FwTypes
  BY DEF KfwumStartFirmwareImage, FwInv
<1>2. fwTask \in FwUploads /\ fwTodo # <<>> /\ FwLeft = 7
  BY <1>1, FwNow, FwStages
<1>3. FwReady /\ ~fwBoard.upgraded /\ fwTask # "none"
  BY <1>2 DEF FwInv, FwUploads
<1>4. CASE FwThen(TRUE) /\ fwBoard' = [fwBoard EXCEPT !.image = <<>>, !.next = 0, !.sum = KfwumCalculateChecksumPadding]
  <2>1. FwPlaced' /\ FwLeft' = 6
    BY <1>1, <1>2, <1>4, FwNextStage
  <2>2. FwTypes' /\ fwBoard'.image = <<>> /\ fwBoard'.next = 0 /\ fwBoard'.upgraded = fwBoard.upgraded
    <3>1. PICK v : fwBoard' = [fwBoard EXCEPT !.image = <<>>, !.next = 0, !.sum = v]
      BY <1>4
    <3>2. <<>> \in Seq(Nat)
      OBVIOUS
    <3> QED
      BY <1>1, <3>1, <3>2 DEF FwTypes
  <2>3. fwUp' = [address |-> 0, last |-> 0, seq |-> 0, retry |-> FwRetry] /\ fwSave'.n = -1
    BY <1>1, <1>3 DEF FwReady
  <2>4. FwPieces'
    BY <2>2, <2>3, FwNumbers DEF FwPieces, FwTypes
  <2>5. FwByAddress(fwBoard)'
    BY <2>2, <2>3, FwNumbers DEF FwByAddress, FwRight
  <2>6. FwNotStored(fwBoard)'
    BY <2>2, <2>3, FwNumbers DEF FwNotStored, FwMissing, FwRight
  <2> QED
    BY <1>1, <1>2, <1>3, <2>1, <2>2, <2>4, <2>5, <2>6 DEF FwInv, FwLoop, FwHas
<1>5. CASE FwThen(FALSE) /\ UNCHANGED fwBoard
  <2>1. FwPlaced' /\ fwTodo' = <<>>
    BY <1>1, <1>2, <1>5, FwStops
  <2>2. FwTypes'
    BY <1>1, <1>5 DEF FwTypes
  <2> QED
    BY <1>1, <1>3, <1>5, <2>1, <2>2 DEF FwInv
<1> QED
  BY <1>4, <1>5 DEF KfwumStartFirmwareImage

LEMMA FwUpgradeKept == ASSUME FwInv, KfwumStartFirmwareUpgrade PROVE FwInv'
<1>1. FwAt("upgrade") /\ UNCHANGED <<fwTask, fwInfo, fwUp, fwSave>> /\ FwPlaced /\ FwTypes
  BY DEF KfwumStartFirmwareUpgrade, FwInv
<1>2. fwTodo # <<>> /\ (fwTask \in FwUploads => FwLeft = 1) /\ fwTask # "none"
  <2>1. fwTodo # <<>> /\ (fwTask \in FwUploads => FwLeft = 1)
    BY <1>1, FwNow, FwStages
  <2> QED
    BY <2>1 DEF FwInv
<1>3. PICK ok \in BOOLEAN, b \in BOOLEAN : FwThen(ok) /\ fwBoard' = [fwBoard EXCEPT !.upgraded = b]
  BY FwBooleans DEF KfwumStartFirmwareUpgrade
<1>4. FwPlaced' /\ (ok => FwLeft' = FwLeft - 1) /\ (~ok => fwTodo' = <<>>)
  BY <1>1, <1>2, <1>3, FwGoesOn
<1>5. FwTypes' /\ fwBoard'.image = fwBoard.image
  BY <1>1, <1>3 DEF FwTypes
<1>6. FwWhole <=> FwWhole'
  BY <1>5 DEF FwWhole, FwRight
<1>7. fwTask = "upgrade" => FwWhole
  BY <1>2 DEF FwInv, FwUploads
<1>8. fwTask \in FwUploads => fwTodo' = <<>>
  <2>1. fwTask \in FwUploads /\ ok => Len(fwTodo') \in Nat /\ FwLeft' = 0
    BY <1>2, <1>4 DEF FwPlaced
  <2> QED
    BY <1>1, <1>4, <2>1 DEF FwLeft, FwPlaced
<1> QED
  BY <1>1, <1>2, <1>4, <1>5, <1>6, <1>7, <1>8 DEF FwInv

LEMMA FwFinishKept == ASSUME FwInv, KfwumFinishFirmwareImage PROVE FwInv'
<1>1. FwAt("finish") /\ UNCHANGED <<fwTask, fwInfo, fwUp, fwSave, fwBoard>> /\ FwPlaced /\ FwTypes
  BY DEF KfwumFinishFirmwareImage, FwInv
<1>2. fwTask \in FwUploads /\ fwTodo # <<>> /\ FwLeft = 5 /\ fwTask # "none"
  <2>1. fwTask \in FwUploads /\ fwTodo # <<>> /\ FwLeft = 5
    BY <1>1, FwNow, FwStages
  <2> QED
    BY <2>1 DEF FwUploads
<1>3. FwDone /\ ~fwBoard.upgraded
  BY <1>2 DEF FwInv
<1>4. FwTypes' /\ (FwWhole <=> FwWhole') /\ (FwDone <=> FwDone') /\ ~fwBoard'.upgraded
  BY <1>1, <1>3 DEF FwTypes, FwWhole, FwDone, FwRight
<1>5. CASE UNCHANGED fwTodo
  <2>1. FwPlaced' /\ FwLeft' = 5 /\ fwTodo' = fwTodo
    BY <1>1, <1>2, <1>5 DEF FwPlaced, FwLeft
  <2> QED
    BY <1>1, <1>2, <1>3, <1>4, <2>1 DEF FwInv
<1>6. CASE fwTodo' = <<>>
  BY <1>1, <1>2, <1>4, <1>6 DEF FwInv, FwPlaced, FwLeft
<1>7. CASE FwThen(TRUE) /\ FwChecked
  <2>1. FwPlaced' /\ FwLeft' = 4
    BY <1>1, <1>2, <1>7, FwNextStage
  <2>2. FwWhole
    BY <1>3, <1>7 DEF FwChecked, FwWhole, FwDone
  <2> QED
    BY <1>1, <1>2, <1>4, <2>1, <2>2 DEF FwInv
<1>8. FwThen(FALSE) => fwTodo' = <<>>
  BY DEF FwThen
<1>9. \/ UNCHANGED fwTodo \/ fwTodo' = <<>> \/ FwThen(FALSE)
      \/ FwThen(FwChecked)
  BY DEF KfwumFinishFirmwareImage
<1>10. FwThen(FwChecked) => (FwThen(TRUE) /\ FwChecked) \/ fwTodo' = <<>>
  BY DEF FwThen
<1> QED
  BY <1>5, <1>6, <1>7, <1>8, <1>9, <1>10

(* What the board stores.                                                  *)
LEMMA FwPutRight ==
  ASSUME NEW image \in Seq(Nat), NEW at \in Nat, NEW n \in Nat, at <= Len(image), NEW base \in Nat,
         NEW bytes \in Seq(Nat), Len(bytes) = n, \A k \in 1..n : bytes[k] = base + k
  PROVE  /\ FwPut(image, at, bytes) \in Seq(Nat)
         /\ Len(FwPut(image, at, bytes)) = IF at + n > Len(image) THEN at + n ELSE Len(image)
         /\ at = base /\ FwRight(image) => FwRight(FwPut(image, at, bytes))
<1> DEFINE m == IF at + n > Len(image) THEN at + n ELSE Len(image)
           f == [p \in 1..m |-> IF p \in (at + 1)..(at + n) THEN bytes[p - at] ELSE IF p <= Len(image) THEN image[p] ELSE 0]
<1>1. Len(bytes) = n /\ \A k \in 1..n : bytes[k] = base + k
  OBVIOUS
<1>2. FwPut(image, at, bytes) = f
  BY <1>1 DEF FwPut
<1>3. m \in Nat /\ Len(image) \in Nat /\ m >= Len(image)
  OBVIOUS
<1>4. \A p \in 1..m : p \in (at + 1)..(at + n) => p - at \in 1..n
  BY <1>3
<1>5. \A p \in 1..m : p \notin (at + 1)..(at + n) => p \in 1..Len(image)
  BY <1>3
<1>6. \A p \in 1..Len(image) : image[p] \in Nat
  OBVIOUS
<1>7. \A p \in 1..m : f[p] \in Nat
  BY <1>1, <1>3, <1>4, <1>5, <1>6
<1>8. f \in Seq(Nat) /\ Len(f) = m /\ DOMAIN f = 1..m
  <2> HIDE DEF m
  <2>1. f \in [1..m -> Nat]
    BY <1>7
  <2> QED
    BY <1>3, <2>1
<1>9. ASSUME at = base, FwRight(image) PROVE FwRight(f)
  <2>1. \A p \in 1..Len(image) : image[p] = p
    BY <1>9 DEF FwRight
  <2>2. SUFFICES ASSUME NEW p \in 1..m PROVE f[p] = p
    BY <1>8 DEF FwRight
  <2>3. CASE p \in (at + 1)..(at + n)
    BY <1>1, <1>4, <1>9, <2>3
  <2>4. CASE p \notin (at + 1)..(at + n)
    BY <1>3, <1>5, <2>1, <2>4
  <2> QED
    BY <2>3, <2>4
<1> QED
  BY <1>2, <1>8, <1>9

LEMMA FwRound ==
  ASSUME NEW s \in Nat, s < FwSeqs
  PROVE  (s + 1) % FwSeqs = IF s + 1 = FwSeqs THEN 0 ELSE s + 1
<1>1. FwSeqs \in Nat /\ FwSeqs > 2
  BY FwNumbers
<1> QED
  BY <1>1

LEMMA FwPieceKept == ASSUME FwInv, FwPiece PROVE FwInv'
<1>1. FwAt("save") /\ UNCHANGED <<fwTask, fwTodo, fwInfo, fwUp, fwBoard, fwEnd>> /\ FwPlaced /\ FwTypes /\ fwSave.n = -1
  BY DEF FwPiece, FwInv
<1>2. fwTask \in FwUploads /\ fwTodo # <<>> /\ FwLeft = 6 /\ fwTask # "none"
  <2>1. fwTask \in FwUploads /\ fwTodo # <<>> /\ FwLeft = 6
    BY <1>1, FwNow, FwStages
  <2> QED
    BY <2>1 DEF FwUploads
<1>3. FwLoop /\ ~fwBoard.upgraded
  BY <1>2 DEF FwInv
<1> DEFINE n == IF fwUp.address + fwInfo.buffer > FwTotal THEN FwTotal - fwUp.address
                ELSE FwLess(fwInfo.buffer, FwPage - (fwUp.address % FwPage))
<1>4. fwSave' = [n |-> n, old |-> n, retry |-> FALSE, silent |-> 0]
  BY DEF FwPiece
<1>5. n \in Nat /\ n <= fwInfo.buffer /\ fwUp.address + n <= FwTotal
  <2>1. fwUp.address \in Nat /\ fwInfo.buffer \in Nat /\ FwTotal \in Nat /\ FwPage \in Nat /\ FwPage > 0 /\ fwUp.address <= FwTotal
    BY <1>1, <1>3, FwNumbers DEF FwTypes, FwLoop, FwPieces
  <2>2. fwUp.address % FwPage \in Nat /\ fwUp.address % FwPage < FwPage
    BY <2>1
  <2> QED
    BY <2>1, <2>2 DEF FwLess
<1> HIDE DEF n
<1>6. FwTypes'
  BY <1>1, <1>4, <1>5 DEF FwTypes
<1>7. FwPieces' /\ FwPlaced' /\ FwLeft' = 6
  BY <1>1, <1>2, <1>3, <1>4, <1>5 DEF FwLoop, FwPieces, FwPlaced, FwLeft
<1>8. FwHas(fwBoard)'
  BY <1>1, <1>3 DEF FwLoop, FwHas, FwNotStored, FwIsStored, FwMissing, FwByAddress
<1> QED
  BY <1>1, <1>2, <1>3, <1>6, <1>7, <1>8 DEF FwInv, FwLoop

(* What becomes of a piece: it is sent again, maybe shorter; the upload is *)
(* over; it goes back to the piece before; or on to the next one.          *)
FwStays == /\ UNCHANGED <<fwUp, fwInfo, fwTodo>> /\ fwSave'.old = fwSave.old
           /\ fwSave'.n \in {fwSave.n, fwSave.n - 1} /\ fwSave'.n >= 0
FwTurns == /\ fwUp.retry > 0 /\ fwUp' = FwBack(fwSave.n) /\ fwSave'.n = -1 /\ fwSave'.old = fwSave.old
           /\ UNCHANGED <<fwTodo, fwInfo>>
FwAdvances == /\ fwSave.n > 0 /\ fwSave'.n = -1 /\ fwSave'.old = fwSave.old /\ fwInfo'.seq = fwInfo.seq
              /\ fwUp' = [address |-> fwUp.address + fwSave.n, last |-> fwUp.address, seq |-> FwNextSeq, retry |-> FwRetry]
              /\ IF fwUp'.address < FwTotal THEN UNCHANGED fwTodo ELSE FwThen(TRUE)

LEMMA FwOutcome ==
  ASSUME FwTypes, FwPieces, fwSave.n >= 0, NEW cc, FwAnswered(cc)
  PROVE  /\ fwInfo' \in [seq : BOOLEAN, buffer : Nat]
         /\ fwUp' \in [address : Nat, last : Nat, seq : Nat, retry : Nat]
         /\ fwSave' \in [n : Int, old : Nat, retry : {fwSave'.retry}, silent : Nat]
         /\ IF cc \in {"ok", "82"} THEN FwAdvances \/ fwTodo' = <<>> ELSE FwStays \/ FwTurns \/ fwTodo' = <<>>
<1>0. /\ fwInfo \in [seq : BOOLEAN, buffer : Nat] /\ fwUp \in [address : Nat, last : Nat, seq : Nat, retry : Nat]
      /\ fwSave \in [n : Int, old : Nat, retry : {fwSave.retry}, silent : Nat] /\ FwSeqs \in Nat /\ FwRetry \in Nat
      /\ fwSave.n \in Nat /\ fwSave.n <= fwSave.old /\ fwSave.old <= fwInfo.buffer /\ fwUp.seq < FwSeqs
  BY FwNumbers DEF FwTypes, FwPieces
<1>1. FwNextSeq \in Nat
  BY <1>0, FwRound DEF FwNextSeq
<1>8. [fwSave EXCEPT !.n = -1].n = -1 /\ [fwSave EXCEPT !.n = -1].old = fwSave.old
  BY <1>0
<1>2. ASSUME NEW s, FwAgain(s), s \in [n : Int, old : Nat, retry : {s.retry}, silent : Nat], s.old = fwSave.old,
             s.n \in {fwSave.n, fwSave.n - 1}
      PROVE  /\ UNCHANGED <<fwUp, fwInfo>> /\ fwSave' = s /\ (FwStays \/ fwTodo' = <<>>)
  BY <1>0, <1>2 DEF FwAgain, FwStays
<1>3. ASSUME KfwumUploadFirmware(FALSE, fwSave.n)
      PROVE  /\ fwInfo' = fwInfo /\ fwUp' \in [address : Nat, last : Nat, seq : Nat, retry : Nat]
             /\ fwSave' = [fwSave EXCEPT !.n = -1] /\ (FwTurns \/ fwTodo' = <<>>)
  <2>1. CASE fwUp.retry > 0
    <3>1. fwUp' = FwBack(fwSave.n) /\ UNCHANGED <<fwTodo, fwInfo>> /\ fwSave' = [fwSave EXCEPT !.n = -1]
      BY <1>3, <2>1 DEF KfwumUploadFirmware
    <3>2. fwUp' \in [address : Nat, last : Nat, seq : Nat, retry : Nat]
      <4>1. fwUp.retry - 1 \in Nat /\ fwUp.last \in Nat
        BY <1>0, <2>1
      <4>2. fwUp' = [address |-> fwUp.last, last |-> fwUp.last, seq |-> FwNextSeq, retry |-> fwUp.retry - 1]
        BY <1>0, <3>1 DEF FwBack
      <4> QED
        BY <1>1, <4>1, <4>2
    <3>3. FwTurns
      BY <1>8, <2>1, <3>1 DEF FwTurns
    <3> QED
      BY <3>1, <3>2, <3>3
  <2>2. CASE ~(fwUp.retry > 0)
    BY <1>0, <1>3, <2>2 DEF KfwumUploadFirmware, FwThen
  <2> QED
    BY <2>1, <2>2
<1>4. ASSUME KfwumUploadFirmware(TRUE, 0)
      PROVE  /\ UNCHANGED <<fwUp, fwInfo>> /\ fwTodo' = <<>> /\ fwSave' = [fwSave EXCEPT !.n = -1]
  BY <1>4 DEF KfwumUploadFirmware, FwThen
<1>5. ASSUME KfwumUploadFirmware(TRUE, fwSave.n)
      PROVE  /\ fwInfo' \in [seq : BOOLEAN, buffer : Nat] /\ fwUp' \in [address : Nat, last : Nat, seq : Nat, retry : Nat]
             /\ fwSave' = [fwSave EXCEPT !.n = -1] /\ (FwAdvances \/ fwTodo' = <<>>)
  <2>1. CASE fwSave.n = 0
    BY <1>0, <1>4, <1>5, <2>1
  <2>2. CASE fwSave.n # 0
    <3>1. /\ fwInfo' = [fwInfo EXCEPT !.buffer = @ - (fwSave.old - fwSave.n)] /\ fwSave' = [fwSave EXCEPT !.n = -1]
          /\ fwUp' = [address |-> fwUp.address + fwSave.n, last |-> fwUp.address, seq |-> FwNextSeq, retry |-> FwRetry]
          /\ IF fwUp'.address < FwTotal THEN UNCHANGED fwTodo ELSE FwThen(TRUE)
      BY <1>5, <2>2 DEF KfwumUploadFirmware
    <3>2. fwInfo' \in [seq : BOOLEAN, buffer : Nat] /\ fwInfo'.seq = fwInfo.seq
      <4>1. fwInfo.buffer - (fwSave.old - fwSave.n) \in Nat
        BY <1>0
      <4> QED
        BY <1>0, <3>1, <4>1
    <3>3. fwUp' \in [address : Nat, last : Nat, seq : Nat, retry : Nat]
      BY <1>0, <1>1, <3>1
    <3> QED
      <4>1. FwAdvances
        <5>1. fwSave.n > 0
          BY <1>0, <2>2
        <5>2. fwSave'.n = -1 /\ fwSave'.old = fwSave.old
          BY <1>8, <3>1
        <5> QED
          BY <3>1, <3>2, <5>1, <5>2 DEF FwAdvances
      <4> QED
        BY <3>1, <3>2, <3>3, <4>1
  <2> QED
    BY <2>1, <2>2
<1>6. CASE cc \in {"ok", "82"}
  <2>1. KfwumUploadFirmware(TRUE, fwSave.n)
    BY <1>6 DEF FwAnswered
  <2> QED
    BY <1>0, <1>5, <1>6, <2>1, SMTT(30)
<1>7. CASE cc \notin {"ok", "82"}
  <2>1. \/ KfwumUploadFirmware(FALSE, fwSave.n) \/ KfwumUploadFirmware(TRUE, 0) \/ FwAgain(fwSave)
        \/ FwAgain([fwSave EXCEPT !.n = @ - 1, !.silent = @ + 1]) \/ FwAgain([fwSave EXCEPT !.retry = TRUE])
        \/ FwAgain([fwSave EXCEPT !.n = @ - 1, !.retry = TRUE])
    BY <1>7 DEF FwAnswered, FwRetryOnce, FwShorter
  <2>2. CASE KfwumUploadFirmware(FALSE, fwSave.n)
    BY <1>0, <1>3, <1>7, <2>2, SMTT(30)
  <2>3. CASE KfwumUploadFirmware(TRUE, 0)
    BY <1>0, <1>4, <1>7, <2>3
  <2>4. ASSUME NEW s, FwAgain(s), s = fwSave \/ s = [fwSave EXCEPT !.n = @ - 1, !.silent = @ + 1]
                 \/ s = [fwSave EXCEPT !.retry = TRUE] \/ s = [fwSave EXCEPT !.n = @ - 1, !.retry = TRUE]
        PROVE  /\ UNCHANGED <<fwUp, fwInfo>> /\ (FwStays \/ fwTodo' = <<>>)
               /\ fwSave' \in [n : Int, old : Nat, retry : {fwSave'.retry}, silent : Nat]
    <3>1. s \in [n : Int, old : Nat, retry : {s.retry}, silent : Nat] /\ s.old = fwSave.old /\ s.n \in {fwSave.n, fwSave.n - 1}
      <4>1. CASE s = fwSave
        BY <1>0, <4>1
      <4>0. fwSave.n - 1 \in Int /\ fwSave.silent + 1 \in Nat
        BY <1>0
      <4>2. CASE s = [fwSave EXCEPT !.n = @ - 1, !.silent = @ + 1]
        <5>1. s = [n |-> fwSave.n - 1, old |-> fwSave.old, retry |-> fwSave.retry, silent |-> fwSave.silent + 1]
          BY <1>0, <4>2
        <5> QED
          BY <1>0, <4>0, <5>1
      <4>3. ASSUME NEW b, s = [fwSave EXCEPT !.retry = b] \/ s = [fwSave EXCEPT !.n = @ - 1, !.retry = b]
            PROVE  s \in [n : Int, old : Nat, retry : {s.retry}, silent : Nat] /\ s.old = fwSave.old /\ s.n \in {fwSave.n, fwSave.n - 1}
        <5>1. \/ s = [n |-> fwSave.n, old |-> fwSave.old, retry |-> b, silent |-> fwSave.silent]
              \/ s = [n |-> fwSave.n - 1, old |-> fwSave.old, retry |-> b, silent |-> fwSave.silent]
          BY <1>0, <4>3
        <5> QED
          BY <1>0, <4>0, <5>1
      <4> QED
        BY <2>4, <4>1, <4>2, <4>3
    <3> QED
      BY <1>2, <2>4, <3>1
  <2> QED
    BY <1>0, <1>7, <2>1, <2>2, <2>3, <2>4
<1> QED
  BY <1>6, <1>7

(* The board after a request, before the program has the answer.           *)
LEMMA FwBoardHas ==
  ASSUME FwFew, FwTypes, FwPieces, FwHas(fwBoard), fwSave.n >= 0
  PROVE  /\ FwVerdict = "ok" =>
              /\ FwStored.image \in Seq(Nat) /\ FwStored.next \in Nat /\ FwStored.next < FwSeqs
              /\ IF fwInfo.seq THEN FwIsStored(FwStored)
                 ELSE FwByAddress(FwStored) /\ fwUp.address + fwSave.n <= Len(FwStored.image)
         /\ FwVerdict = "82" => fwInfo.seq /\ FwIsStored(fwBoard)
<1>0. /\ fwInfo.seq \in BOOLEAN /\ fwUp.address \in Nat /\ fwUp.seq \in Nat /\ fwUp.retry \in Nat /\ FwSeqs \in Nat /\ FwRetry \in Nat
      /\ fwSave.n \in Nat /\ fwUp.seq < FwSeqs /\ fwBoard.next \in Nat /\ fwBoard.next < FwSeqs /\ FwTotal \in Nat
      /\ fwBoard.image \in Seq(Nat) /\ Len(fwBoard.image) \in Nat /\ FwRetry + 1 < FwSeqs /\ FwSeqs > 2
      /\ fwUp.address + fwSave.n <= FwTotal
  <2>1. /\ fwInfo.seq \in BOOLEAN /\ fwUp.address \in Nat /\ fwUp.seq \in Nat /\ fwUp.retry \in Nat
        /\ fwSave.n \in Nat /\ fwBoard.next \in Nat /\ fwBoard.image \in Seq(Nat) /\ fwSave.old \in Nat
    BY DEF FwTypes
  <2>2. FwSeqs \in Nat /\ FwRetry \in Nat /\ FwTotal \in Nat /\ FwSeqs > 2 /\ FwRetry + 1 < FwSeqs
    BY FwNumbers DEF FwFew
  <2> QED
    BY <2>1, <2>2 DEF FwPieces
<1>1. FwNextSeq = IF fwUp.seq + 1 = FwSeqs THEN 0 ELSE fwUp.seq + 1
  BY <1>0, FwRound DEF FwNextSeq
<1>2. (fwBoard.next + 1) % FwSeqs = IF fwBoard.next + 1 = FwSeqs THEN 0 ELSE fwBoard.next + 1
  BY <1>0, FwRound
<1> DEFINE at == IF fwInfo.seq THEN Len(fwBoard.image) ELSE fwUp.address
           image == FwPut(fwBoard.image, at, FwBytes)
<1>3. FwStored.image = image /\ FwStored.next = IF fwInfo.seq THEN (fwBoard.next + 1) % FwSeqs ELSE fwBoard.next
  BY DEF FwStored, FwTypes
<1>4. ASSUME fwInfo.seq, FwVerdict = "ok" PROVE FwNotStored(fwBoard) /\ fwUp.seq = fwBoard.next
  <2>1. fwUp.seq = fwBoard.next
    BY <1>4 DEF FwVerdict
  <2>2. ~FwIsStored(fwBoard)
    BY <1>0, <1>1, <2>1 DEF FwIsStored
  <2> QED
    BY <1>4, <2>1, <2>2 DEF FwHas
<1>5. ASSUME FwVerdict = "82" PROVE fwInfo.seq /\ FwIsStored(fwBoard)
  <2>1. fwInfo.seq /\ fwUp.seq # fwBoard.next /\ FwNextSeq = fwBoard.next
    BY <1>5 DEF FwVerdict, FwNextSeq
  <2>2. ASSUME NEW lag \in 0..(FwRetry - fwUp.retry), FwMissing(fwBoard, lag) PROVE FALSE
    BY <1>0, <1>1, <2>1, <2>2, SMTT(30) DEF FwMissing
  <2> QED
    BY <2>1, <2>2 DEF FwHas, FwNotStored
<1>6. ASSUME FwVerdict = "ok" PROVE at \in Nat /\ at <= Len(fwBoard.image)
  BY <1>0, <1>6 DEF FwHas, FwByAddress
<1>7. ASSUME FwVerdict = "ok"
      PROVE  /\ image \in Seq(Nat) /\ Len(image) = (IF at + fwSave.n > Len(fwBoard.image) THEN at + fwSave.n ELSE Len(fwBoard.image))
             /\ at = fwUp.address /\ FwRight(fwBoard.image) => FwRight(image)
  <2> HIDE DEF at
  <2>1. FwBytes \in Seq(Nat) /\ Len(FwBytes) = fwSave.n /\ \A k \in 1..fwSave.n : FwBytes[k] = fwUp.address + k
    <3>1. \A k \in 1..fwSave.n : fwUp.address + k \in Nat
      BY <1>0
    <3>2. FwBytes \in [1..fwSave.n -> Nat] /\ \A k \in 1..fwSave.n : FwBytes[k] = fwUp.address + k
      BY <3>1 DEF FwBytes
    <3>3. \A n \in Nat : \A s : s \in [1..n -> Nat] => s \in Seq(Nat) /\ Len(s) = n
      OBVIOUS
    <3>4. fwSave.n \in Nat
      BY <1>0
    <3> QED
      BY <3>2, <3>3, <3>4
  <2>2. at \in Nat /\ at <= Len(fwBoard.image)
    BY <1>6, <1>7
  <2>3. /\ FwPut(fwBoard.image, at, FwBytes) \in Seq(Nat)
        /\ Len(FwPut(fwBoard.image, at, FwBytes)) = IF at + fwSave.n > Len(fwBoard.image) THEN at + fwSave.n ELSE Len(fwBoard.image)
        /\ at = fwUp.address /\ FwRight(fwBoard.image) => FwRight(FwPut(fwBoard.image, at, FwBytes))
    BY <1>0, <2>1, <2>2, FwPutRight
  <2> QED
    BY <2>3
<1>8. ASSUME FwVerdict = "ok", fwInfo.seq PROVE FwIsStored(FwStored)
  <2>1. /\ Len(fwBoard.image) >= fwUp.address /\ (Len(fwBoard.image) = fwUp.address => FwRight(fwBoard.image))
        /\ fwUp.seq = fwBoard.next
    BY <1>4, <1>8 DEF FwNotStored
  <2>2. Len(image) = Len(fwBoard.image) + fwSave.n
    BY <1>0, <1>7, <1>8
  <2>3. Len(image) >= fwUp.address + fwSave.n /\ (Len(image) = fwUp.address + fwSave.n => FwRight(image))
    BY <1>0, <1>7, <1>8, <2>1, <2>2
  <2>4. FwStored.next = FwNextSeq
    BY <1>3, <1>8, <2>1 DEF FwNextSeq
  <2> QED
    BY <1>0, <1>3, <2>3, <2>4 DEF FwIsStored
<1>9. ASSUME FwVerdict = "ok", ~fwInfo.seq
      PROVE  FwByAddress(FwStored) /\ fwUp.address + fwSave.n <= Len(FwStored.image)
  <2>1. Len(fwBoard.image) <= FwTotal /\ FwRight(fwBoard.image) /\ fwUp.address <= Len(fwBoard.image)
    BY <1>9 DEF FwHas, FwByAddress
  <2> QED
    BY <1>0, <1>3, <1>7, <1>9, <2>1 DEF FwByAddress
<1> QED
  BY <1>0, <1>2, <1>3, <1>5, <1>7, <1>8, <1>9, SMTT(30)

(* What the program makes of it.                                           *)
LEMMA FwStaysHas ==
  ASSUME FwFew, FwTypes, FwPieces, fwSave.n >= 0, NEW b, b.next \in Nat, b.next < FwSeqs, Len(b.image) \in Nat, FwHas(b),
         FwStays \/ FwTurns, b.image = fwBoard'.image, b.next = fwBoard'.next
  PROVE  FwPieces' /\ FwHas(fwBoard)'
<1>0. /\ fwInfo.seq \in BOOLEAN /\ fwUp.address \in Nat /\ fwUp.last \in Nat /\ fwUp.seq \in Nat /\ fwUp.retry \in Nat
      /\ fwSave.n \in Nat /\ fwSave.old \in Nat /\ FwSeqs \in Nat /\ FwRetry \in Nat /\ FwTotal \in Nat /\ FwSeqs > 2
      /\ fwInfo.buffer \in Nat
  BY FwNumbers DEF FwTypes
<1>1. FwNextSeq = (IF fwUp.seq + 1 = FwSeqs THEN 0 ELSE fwUp.seq + 1) /\ fwUp.seq < FwSeqs
  BY <1>0, FwRound DEF FwNextSeq, FwPieces
<1>2. CASE FwStays
  <2>1. /\ UNCHANGED <<fwUp, fwInfo>> /\ fwSave'.n \in {fwSave.n, fwSave.n - 1} /\ fwSave'.n \in Nat /\ fwSave'.old = fwSave.old
    BY <1>0, <1>2 DEF FwStays
  <2>2. FwPieces'
    <3>1. fwSave'.n \in -1..fwSave.old
      BY <1>0, <2>1, SMTT(30) DEF FwPieces
    <3> QED
      BY <1>0, <2>1, <3>1 DEF FwPieces
  <2>3. FwNotStored(b) => FwNotStored(fwBoard)'
    BY <2>1 DEF FwNotStored, FwMissing
  <2>4. FwIsStored(b) => FwIsStored(fwBoard)'
    <3>1. SUFFICES ASSUME FwIsStored(b) PROVE FwIsStored(fwBoard)'
      OBVIOUS
    <3>2. fwBoard'.next = FwNextSeq' /\ FwNextSeq' = FwNextSeq
      BY <2>1, <3>1 DEF FwIsStored, FwNextSeq
    <3>3. Len(fwBoard'.image) >= fwUp'.address + fwSave'.n /\ (Len(fwBoard'.image) = fwUp'.address + fwSave'.n => FwRight(fwBoard'.image))
      <4>1. Len(b.image) >= fwUp.address + fwSave.n /\ (Len(b.image) = fwUp.address + fwSave.n => FwRight(b.image))
        BY <3>1 DEF FwIsStored
      <4>2. CASE fwSave'.n = fwSave.n
        BY <2>1, <4>1, <4>2
      <4>3. CASE fwSave'.n = fwSave.n - 1
        <5>1. Len(b.image) > fwUp.address + (fwSave.n - 1)
          BY <1>0, <4>1
        <5>2. Len(fwBoard'.image) > fwUp'.address + fwSave'.n
          BY <2>1, <4>3, <5>1
        <5>3. fwUp'.address + fwSave'.n \in Int /\ Len(fwBoard'.image) \in Nat
          BY <1>0, <2>1
        <5> QED
          BY <5>2, <5>3
      <4> QED
        BY <2>1, <4>2, <4>3
    <3> QED
      BY <1>0, <2>1, <3>2, <3>3 DEF FwIsStored
  <2>5. FwByAddress(b) => FwByAddress(fwBoard)'
    BY <2>1 DEF FwByAddress
  <2> QED
    BY <2>1, <2>2, <2>3, <2>4, <2>5 DEF FwHas
<1>3. CASE FwTurns
  <2>1. /\ fwUp.retry > 0 /\ fwSave'.n = -1 /\ fwSave'.old = fwSave.old /\ fwInfo' = fwInfo
        /\ fwUp'.address = fwUp.last /\ fwUp'.last = fwUp.last /\ fwUp'.seq = FwNextSeq /\ fwUp'.retry = fwUp.retry - 1
    <3>1. fwUp' = [fwUp EXCEPT !.address = fwUp.last, !.retry = @ - 1, !.seq = FwNextSeq]
      BY <1>3 DEF FwTurns, FwBack
    <3> QED
      BY <1>3, <3>1 DEF FwTurns, FwTypes
  <2>2. FwPieces'
    <3>1. fwUp'.seq < FwSeqs /\ fwUp'.seq \in Nat
      <4>1. FwNextSeq < FwSeqs /\ FwNextSeq \in Nat
        BY <1>0, <1>1
      <4> QED
        BY <2>1, <4>1
    <3>2. fwSave'.n \in -1..fwSave'.old
      BY <1>0, <2>1
    <3> QED
      BY <1>0, <2>1, <3>1, <3>2, SMTT(30) DEF FwPieces
  <2>3. FwNotStored(b) => FwNotStored(fwBoard)'
    <3>1. SUFFICES ASSUME FwNotStored(b) PROVE FwNotStored(fwBoard)'
      OBVIOUS
    <3>2. PICK lag \in 0..(FwRetry - fwUp.retry) : FwMissing(b, lag)
      BY <3>1 DEF FwNotStored
    <3>3. lag + 1 \in 0..(FwRetry - fwUp'.retry) /\ lag \in Nat
      BY <1>0, <2>1, <3>2
    <3>4. lag <= FwRetry /\ FwRetry + 1 < FwSeqs
      BY <1>0, <3>2 DEF FwFew
    <3>5. FwMissing(fwBoard, lag + 1)'
      <4>1. fwUp.seq = b.next + lag \/ fwUp.seq + FwSeqs = b.next + lag
        BY <3>2 DEF FwMissing
      <4>2. fwUp'.seq = b.next + (lag + 1) \/ fwUp'.seq + FwSeqs = b.next + (lag + 1)
        <5>0. lag \in Nat /\ b.next \in Nat /\ FwSeqs \in Nat /\ fwUp.seq \in Nat
          BY <1>0, <3>3
        <5>1. FwNextSeq = b.next + (lag + 1) \/ FwNextSeq + FwSeqs = b.next + (lag + 1)
          <6>1. CASE fwUp.seq + 1 = FwSeqs
            <7>1. FwNextSeq = 0 /\ fwUp.seq = FwSeqs - 1
              BY <1>0, <1>1, <6>1
            <7>2. fwUp.seq = b.next + lag
              BY <1>0, <3>3, <3>4, <4>1, <7>1
            <7> QED
              BY <5>0, <7>1, <7>2
          <6>2. CASE fwUp.seq + 1 # FwSeqs
            <7>1. FwNextSeq = fwUp.seq + 1
              BY <1>1, <6>2
            <7>2. fwUp.seq + 1 = b.next + (lag + 1) \/ (fwUp.seq + 1) + FwSeqs = b.next + (lag + 1)
              BY <4>1, <5>0, SMTT(30)
            <7> QED
              BY <7>1, <7>2
          <6> QED
            BY <6>1, <6>2
        <5> QED
          BY <2>1, <5>1
      <4> QED
        BY <4>2 DEF FwMissing
    <3>6. \E l \in 0..(FwRetry - fwUp'.retry) : FwMissing(fwBoard, l)'
      BY <3>3, <3>5
    <3>7. Len(b.image) >= fwUp.last /\ (Len(b.image) = fwUp.last => FwRight(b.image))
      BY <1>0, <3>1, SMTT(30) DEF FwNotStored, FwPieces
    <3> QED
      BY <2>1, <3>6, <3>7 DEF FwNotStored, FwMissing
  <2>4. FwIsStored(b) => FwNotStored(fwBoard)'
    <3>1. SUFFICES ASSUME FwIsStored(b) PROVE FwNotStored(fwBoard)'
      OBVIOUS
    <3>2. Len(b.image) >= fwUp.last /\ (Len(b.image) = fwUp.last => FwRight(b.image))
      <4>1. Len(b.image) >= fwUp.address + fwSave.n /\ (Len(b.image) = fwUp.address + fwSave.n => FwRight(b.image))
        BY <3>1 DEF FwIsStored
      <4>2. fwUp.last <= fwUp.address
        BY DEF FwPieces
      <4>3. Len(b.image) >= fwUp.last /\ (Len(b.image) = fwUp.last => Len(b.image) = fwUp.address + fwSave.n)
        BY <1>0, <4>1, <4>2
      <4> QED
        BY <4>1, <4>3
    <3>3. 0 \in 0..(FwRetry - fwUp'.retry)
      BY <1>0, <2>1 DEF FwPieces
    <3>4. fwUp'.seq = fwBoard'.next + 0
      BY <2>1, <3>1 DEF FwIsStored
    <3> QED
      BY <2>1, <3>2, <3>3, <3>4 DEF FwNotStored, FwMissing
  <2>5. FwByAddress(b) => FwByAddress(fwBoard)'
    BY <1>0, <2>1 DEF FwByAddress, FwPieces
  <2> QED
    BY <2>1, <2>2, <2>3, <2>4, <2>5 DEF FwHas
<1> QED
  BY <1>2, <1>3

LEMMA FwAdvancesHas ==
  ASSUME FwTypes, FwPieces, FwAdvances, Len(fwBoard'.image) \in Nat, fwBoard'.next \in Nat, fwBoard'.next < FwSeqs,
         fwInfo' \in [seq : BOOLEAN, buffer : Nat],
         IF fwInfo.seq THEN FwIsStored(fwBoard') ELSE FwByAddress(fwBoard') /\ fwUp.address + fwSave.n <= Len(fwBoard'.image)
  PROVE  /\ FwPieces' /\ FwHas(fwBoard)'
         /\ ~(fwUp'.address < FwTotal) => FwDone'
<1>0. /\ fwInfo.seq \in BOOLEAN /\ fwUp.address \in Nat /\ fwUp.last \in Nat /\ fwUp.seq \in Nat /\ fwUp.retry \in Nat
      /\ fwSave.n \in Int /\ fwSave.old \in Nat /\ FwSeqs \in Nat /\ FwRetry \in Nat /\ FwTotal \in Nat /\ FwSeqs > 2
      /\ fwInfo.buffer \in Nat
  BY FwNumbers DEF FwTypes
<1>1. FwNextSeq = (IF fwUp.seq + 1 = FwSeqs THEN 0 ELSE fwUp.seq + 1) /\ fwUp.seq < FwSeqs
  BY <1>0, FwRound DEF FwNextSeq, FwPieces
<1>2. /\ fwSave.n > 0 /\ fwSave'.n = -1 /\ fwSave'.old = fwSave.old /\ fwInfo'.seq = fwInfo.seq
      /\ fwUp'.address = fwUp.address + fwSave.n /\ fwUp'.last = fwUp.address /\ fwUp'.seq = FwNextSeq /\ fwUp'.retry = FwRetry
  BY DEF FwAdvances
<1>3. FwPieces'
  <2>1. fwUp'.seq < FwSeqs
    BY <1>0, <1>1, <1>2
  <2>2. fwSave'.n \in -1..fwSave'.old
    BY <1>0, <1>2
  <2> QED
    BY <1>0, <1>2, <2>1, <2>2, SMTT(30) DEF FwPieces
<1>4. fwUp'.address <= FwTotal /\ fwUp'.address \in Nat
  BY <1>0, <1>2, SMTT(30) DEF FwPieces
<1>5. CASE fwInfo.seq
  <2>1. /\ fwBoard'.next = fwUp'.seq /\ Len(fwBoard'.image) >= fwUp'.address
        /\ Len(fwBoard'.image) = fwUp'.address => FwRight(fwBoard'.image)
    BY <1>2, <1>5 DEF FwIsStored
  <2>2. FwNotStored(fwBoard)'
    <3>1. 0 \in 0..(FwRetry - fwUp'.retry) /\ fwUp'.seq = fwBoard'.next + 0
      BY <1>0, <1>2, <2>1
    <3> QED
      BY <2>1, <3>1 DEF FwNotStored, FwMissing
  <2>3. ~(fwUp'.address < FwTotal) => FwDone'
    BY <1>0, <1>2, <1>4, <1>5, <2>1 DEF FwDone
  <2> QED
    BY <1>2, <1>3, <1>5, <2>2, <2>3 DEF FwHas
<1>6. CASE ~fwInfo.seq
  <2>1. fwUp'.address <= Len(fwBoard'.image) /\ Len(fwBoard'.image) <= FwTotal /\ FwRight(fwBoard'.image)
    BY <1>2, <1>6 DEF FwByAddress
  <2>2. FwByAddress(fwBoard)'
    BY <2>1 DEF FwByAddress
  <2>3. ~(fwUp'.address < FwTotal) => FwDone'
    BY <1>0, <1>2, <1>4, <1>6, <2>1 DEF FwDone
  <2> QED
    BY <1>2, <1>3, <1>6, <2>2, <2>3 DEF FwHas
<1> QED
  BY <1>5, <1>6

LEMMA FwSaveKept == ASSUME FwFew, FwInv, KfwumSaveFirmwareImage PROVE FwInv'
<1>1. FwAt("save") /\ fwSave.n >= 0 /\ fwTask' = fwTask /\ FwPlaced /\ FwTypes
  BY DEF KfwumSaveFirmwareImage, FwInv
<1>2. fwTask \in FwUploads /\ fwTodo # <<>> /\ FwLeft = 6 /\ fwTask # "none"
  <2>1. fwTask \in FwUploads /\ fwTodo # <<>> /\ FwLeft = 6
    BY <1>1, FwNow, FwStages
  <2> QED
    BY <2>1 DEF FwUploads
<1>3. FwPieces /\ FwHas(fwBoard) /\ ~fwBoard.upgraded
  BY <1>2 DEF FwInv, FwLoop
<1> DEFINE Fits(cc) == \/ cc = FwVerdict /\ fwBoard' = (IF FwVerdict = "ok" THEN FwStored ELSE fwBoard)
                       \/ cc \notin {"ok", "82"} /\ (fwBoard' = fwBoard \/ (FwVerdict = "ok" /\ fwBoard' = FwStored))
<1>4. PICK cc : FwAnswered(cc) /\ Fits(cc)
  <2>1. ASSUME FwAnswered(FwVerdict), fwBoard' = (IF FwVerdict = "ok" THEN FwStored ELSE fwBoard)
        PROVE  \E c : FwAnswered(c) /\ Fits(c)
    BY <2>1
  <2>2. ASSUME NEW c \in {"none", "c0", "cf", "83", "ff"}, FwAnswered(c),
               fwBoard' = fwBoard \/ (FwVerdict = "ok" /\ fwBoard' = FwStored)
        PROVE  \E d : FwAnswered(d) /\ Fits(d)
    BY <2>2
  <2> QED
    BY <2>1, <2>2 DEF KfwumSaveFirmwareImage
<1>5. /\ FwVerdict = "ok" =>
           /\ FwStored.image \in Seq(Nat) /\ FwStored.next \in Nat /\ FwStored.next < FwSeqs
           /\ IF fwInfo.seq THEN FwIsStored(FwStored)
              ELSE FwByAddress(FwStored) /\ fwUp.address + fwSave.n <= Len(FwStored.image)
      /\ FwVerdict = "82" => fwInfo.seq /\ FwIsStored(fwBoard)
  BY <1>1, <1>3, FwBoardHas
<1>6. /\ fwInfo' \in [seq : BOOLEAN, buffer : Nat]
      /\ fwUp' \in [address : Nat, last : Nat, seq : Nat, retry : Nat]
      /\ fwSave' \in [n : Int, old : Nat, retry : {fwSave'.retry}, silent : Nat]
      /\ IF cc \in {"ok", "82"} THEN FwAdvances \/ fwTodo' = <<>> ELSE FwStays \/ FwTurns \/ fwTodo' = <<>>
  BY <1>1, <1>3, <1>4, FwOutcome
<1>7. /\ fwBoard' = fwBoard \/ (FwVerdict = "ok" /\ fwBoard' = FwStored)
      /\ FwTypes' /\ fwBoard'.upgraded = fwBoard.upgraded /\ fwBoard'.next < FwSeqs
  <2>1. fwBoard' = fwBoard \/ (FwVerdict = "ok" /\ fwBoard' = FwStored)
    BY <1>4
  <2>2. CASE fwBoard' = fwBoard
    BY <1>1, <1>3, <1>6, <2>1, <2>2 DEF FwTypes, FwPieces
  <2>3. CASE FwVerdict = "ok" /\ fwBoard' = FwStored
    <3>1. PICK i, m : fwBoard' = [fwBoard EXCEPT !.image = i, !.next = m]
      BY <2>3 DEF FwStored
    <3>2. fwBoard'.image \in Seq(Nat) /\ fwBoard'.next \in Nat /\ fwBoard'.next < FwSeqs
      BY <1>5, <2>3
    <3>3. i \in Seq(Nat) /\ m \in Nat
      BY <1>1, <3>1, <3>2 DEF FwTypes
    <3> QED
      BY <1>1, <1>6, <2>1, <3>1, <3>2, <3>3 DEF FwTypes
  <2> QED
    BY <2>1, <2>2, <2>3
<1>8. CASE fwTodo' = <<>>
  <2>1. FwPlaced'
    BY <1>1, <1>2, <1>8 DEF FwPlaced, FwLeft
  <2> QED
    BY <1>1, <1>2, <1>3, <1>7, <1>8, <2>1 DEF FwInv
<1>9. CASE FwStays \/ FwTurns
  <2>1. FwHas(fwBoard') /\ fwBoard'.next \in Nat /\ Len(fwBoard'.image) \in Nat
    <3>1. FwHas(fwBoard')
      <4>1. CASE fwBoard' = fwBoard
        BY <1>3, <4>1
      <4>2. CASE FwVerdict = "ok" /\ fwBoard' = FwStored
        BY <1>5, <4>2 DEF FwHas
      <4> QED
        BY <1>7, <4>1, <4>2
    <3>2. fwBoard'.next \in Nat /\ fwBoard'.image \in Seq(Nat)
      BY <1>7 DEF FwTypes
    <3> QED
      BY <3>1, <3>2
  <2>2. FwPieces' /\ FwHas(fwBoard)'
    BY <1>1, <1>3, <1>7, <1>9, <2>1, FwStaysHas
  <2>3. fwTodo' = fwTodo
    BY <1>9 DEF FwStays, FwTurns
  <2>4. FwPlaced' /\ FwLeft' = 6
    BY <1>1, <1>2, <2>3 DEF FwPlaced, FwLeft
  <2> QED
    BY <1>1, <1>2, <1>3, <1>7, <2>2, <2>3, <2>4 DEF FwInv, FwLoop
<1>10. CASE FwAdvances /\ cc \in {"ok", "82"}
  <2>1. IF fwInfo.seq THEN FwIsStored(fwBoard') ELSE FwByAddress(fwBoard') /\ fwUp.address + fwSave.n <= Len(fwBoard'.image)
    <3>1. cc = FwVerdict /\ fwBoard' = (IF FwVerdict = "ok" THEN FwStored ELSE fwBoard)
      BY <1>4, <1>10
    <3>2. CASE cc = "ok"
      BY <1>5, <3>1, <3>2
    <3>3. CASE cc = "82"
      BY <1>5, <3>1, <3>3
    <3> QED
      BY <1>10, <3>2, <3>3
  <2>2. fwBoard'.next \in Nat /\ Len(fwBoard'.image) \in Nat
    <3>1. fwBoard'.next \in Nat /\ fwBoard'.image \in Seq(Nat)
      BY <1>7 DEF FwTypes
    <3> QED
      BY <3>1
  <2>3. FwPieces' /\ FwHas(fwBoard)' /\ (~(fwUp'.address < FwTotal) => FwDone')
    BY <1>1, <1>3, <1>6, <1>7, <1>10, <2>1, <2>2, FwAdvancesHas
  <2>4. CASE fwUp'.address < FwTotal
    <3>1. fwTodo' = fwTodo
      BY <1>10, <2>4 DEF FwAdvances
    <3>2. FwPlaced' /\ FwLeft' = 6
      BY <1>1, <1>2, <3>1 DEF FwPlaced, FwLeft
    <3> QED
      BY <1>1, <1>2, <1>3, <1>7, <2>3, <3>1, <3>2 DEF FwInv, FwLoop
  <2>5. CASE ~(fwUp'.address < FwTotal)
    <3>1. FwThen(TRUE)
      BY <1>10, <2>5 DEF FwAdvances
    <3>2. FwPlaced' /\ FwLeft' = 5
      BY <1>1, <1>2, <3>1, FwNextStage
    <3> QED
      BY <1>1, <1>2, <1>3, <1>7, <2>3, <2>5, <3>2 DEF FwInv
  <2> QED
    BY <2>4, <2>5
<1> QED
  BY <1>6, <1>8, <1>9, <1>10

LEMMA FwInvInit == FwInit => FwInv
<1> SUFFICES ASSUME FwInit PROVE FwInv
  OBVIOUS
<1>1. FwTypes
  <2>1. FALSE \in BOOLEAN /\ <<>> \in Seq(Nat) /\ FwRetry \in Nat
    BY FwNumbers
  <2> QED
    BY <2>1 DEF FwInit, FwTypes
<1>2. FwPlaced /\ fwTask = "none" /\ fwTodo = <<>> /\ FwReady /\ ~fwBoard.upgraded
  BY DEF FwInit, FwPlaced, FwReady, FwUploads
<1> QED
  BY <1>1, <1>2 DEF FwInv, FwUploads

LEMMA FwInvStep == ASSUME FwFew, FwInv, [FwNext]_fwVars PROVE FwInv'
<1>1. CASE ipmi_fwum_main
  BY <1>1, FwMainKept
<1>2. CASE FwReadFile \/ KfwumGetDeviceInfo \/ KfwumGetInfo \/ KfwumGetStatus \/ KfwumManualRollback \/ KfwumGetTraceLog
  BY <1>2, FwCalmKept
<1>3. CASE KfwumStartFirmwareUpgrade
  BY <1>3, FwUpgradeKept
<1>4. CASE KfwumStartFirmwareImage
  BY <1>4, FwStartKept
<1>5. CASE FwPiece
  BY <1>5, FwPieceKept
<1>6. CASE KfwumSaveFirmwareImage
  BY <1>6, FwSaveKept
<1>7. CASE KfwumFinishFirmwareImage
  BY <1>7, FwFinishKept
<1>8. CASE UNCHANGED fwVars \/ FwRepeating
  BY <1>8 DEF fwVars, FwRepeating, FwInv, FwTypes, FwPlaced, FwReady, FwLoop, FwPieces, FwHas, FwNotStored, FwIsStored, FwMissing,
              FwByAddress, FwDone, FwWhole, FwRight, FwLeft, FwNextSeq
<1> QED
  BY <1>1, <1>2, <1>3, <1>4, <1>5, <1>6, <1>7, <1>8 DEF FwNext

(* When the Kontron upload ends well the board has the file, or with       *)
(* numbered pieces an image that is longer, which it refuses; and          *)
(* "upgrade" puts nothing but the file into service.                       *)
THEOREM ImageSafe == FwFew => (CmdSpec => []FwImageSafe)
<1> SUFFICES ASSUME FwFew PROVE CmdSpec => []FwImageSafe
  OBVIOUS
<1>1. CmdInit => FwInv
  BY FwInvInit DEF CmdInit
<1>2. FwInv /\ [CmdNext]_cmdVars => FwInv'
  BY CmdMoves, FwInvStep
<1>3. FwInv => FwImageSafe
  <2> SUFFICES ASSUME FwInv PROVE FwImageSafe
    OBVIOUS
  <2>1. fwBoard.image \in Seq(Nat) /\ FwTotal \in Nat /\ FwPlaced /\ fwInfo.seq \in BOOLEAN
    BY FwNumbers DEF FwInv, FwTypes
  <2>2. FwWhole => fwBoard.image = FwFile
    <3>1. SUFFICES ASSUME FwWhole PROVE fwBoard.image = FwFile
      OBVIOUS
    <3>2. DOMAIN fwBoard.image = 1..FwTotal /\ \A i \in 1..FwTotal : fwBoard.image[i] = i
      BY <2>1, <3>1 DEF FwWhole, FwRight
    <3>3. fwBoard.image = [i \in DOMAIN fwBoard.image |-> fwBoard.image[i]]
      BY <2>1
    <3> QED
      BY <3>2, <3>3 DEF FwFile
  <2>3. ASSUME FwAt("finish") PROVE fwBoard.image = FwFile \/ (fwInfo.seq /\ Len(fwBoard.image) > FwTotal)
    <3>1. fwTask \in FwUploads /\ fwTodo # <<>> /\ FwLeft = 5
      BY <2>1, <2>3, FwNow, FwStages
    <3>2. FwDone
      BY <3>1 DEF FwInv
    <3>3. CASE FwWhole
      BY <2>2, <3>3
    <3>4. CASE ~FwWhole
      <4>1. fwInfo.seq /\ Len(fwBoard.image) >= FwTotal /\ Len(fwBoard.image) # FwTotal
        BY <3>2, <3>4 DEF FwDone, FwWhole
      <4> QED
        BY <2>1, <4>1
    <3> QED
      BY <3>3, <3>4
  <2> QED
    BY <2>2, <2>3 DEF FwInv, FwImageSafe
<1> QED
  BY <1>1, <1>2, <1>3, PTL DEF CmdSpec

-----------------------------------------------------------------------------
(* The upgrade by HPM.1. The request an answer or a status is about, and   *)
(* whether the target is known to have carried it out.                     *)
HpmFor == IF hpmReq = "status" THEN hpmWait.for ELSE hpmReq
HpmDid == hpmReq = "status" \/ (hpmAt = "answer" /\ (hpmAnswer \in {"ok", "progress"} \/ (hpmReq = "block" /\ hpmAnswer = "cc")))
HpmRequests == {"devid", "cap", "prop", "prepare", "block", "finish", "activate", "selftest", "rollstat"}
HpmBlock == IF hpmUp.pos + hpmUp.buf <= HpmLength THEN hpmUp.buf ELSE HpmLength - hpmUp.pos
HpmTypes ==
  /\ hpmCmd \in [name : {hpmCmd.name}, activate : {hpmCmd.activate}, actions : Seq({"prepare", "upload", "other"})]
  /\ hpmUp \in [act : Nat, comp : {hpmUp.comp}, pos : Nat, buf : Nat, block : Nat]
  /\ hpmUp.pos <= HpmLength /\ hpmUp.buf < 256 /\ hpmUp.block < 256
  /\ hpmWait \in [inacc : {hpmWait.inacc}, polls : {hpmWait.polls}, for : {hpmWait.for}]
  /\ hpmTarget \in [stage : {hpmTarget.stage}, got : Seq(Nat), next : Nat, last : {hpmTarget.last}, limit : Nat,
                    busy : {hpmTarget.busy}, good : {hpmTarget.good}, images : {hpmTarget.images}]
  /\ hpmTarget.next < 256 /\ hpmErr \in Nat
(* The blocks do not shrink below nothing: as many answers as are taken    *)
(* for "too long" are left.                                                *)
HpmRoom == HpmResize <= HpmBuf /\ \A l \in HpmLimits : HpmResize <= l
HpmLong ==
  /\ hpmAt # "new" => HpmResize <= hpmTarget.limit
  /\ hpmErr <= HpmResize /\ hpmUp.buf + hpmErr >= HpmResize
  /\ hpmAt = "answer" /\ hpmReq = "block" /\ hpmAnswer = "c7" => hpmUp.buf + hpmErr > HpmResize
(* A block the target waits for, and one it has, with the answer lost or   *)
(* not yet looked at. What is too much stays too much.                     *)
HpmUpTo(n) == Len(hpmTarget.got) >= n /\ (Len(hpmTarget.got) = n => FwRight(hpmTarget.got))
HpmWanted ==
  IF hpmTarget.stage = "loading" THEN hpmTarget.next = hpmUp.block /\ HpmUpTo(hpmUp.pos)
  ELSE hpmUp.pos = 0 /\ hpmUp.block = 0
HpmTaken ==
  hpmTarget.stage = "loading" /\ hpmTarget.next = (hpmUp.block + 1) % 256 /\ HpmUpTo(hpmUp.pos + HpmBlock)
(* The uploads the target has been given in full, and how far it is with   *)
(* the activation.                                                         *)
HpmGiven(n) == hpmTarget.images = HpmUploads(n)
HpmActive == "lost" \in hpmHist \/ (hpmTarget.stage = "activated" /\ hpmTarget.last = "ok")
HpmActing == hpmTarget.last = "error" \/ (hpmTarget.stage = "activated" /\ hpmTarget.last = "progress")
HpmUnder ==
  /\ HpmFor \in HpmRequests /\ (hpmReq = "status" => HpmFor \in {"prepare", "block", "finish", "activate"})
  /\ HpmFor \in {"devid", "cap"} => HpmGiven(0)
  /\ HpmFor \in {"devid", "cap", "prop", "prepare"} => hpmTarget.stage # "loading"
  /\ HpmFor \in {"prop", "prepare", "block", "finish"} => hpmUp.act \in 1..Len(hpmCmd.actions)
  /\ HpmFor \in {"prop", "prepare"} => HpmGiven(hpmUp.act)
  /\ HpmFor \in {"block", "finish"} => hpmCmd.actions[hpmUp.act] = "upload"
  /\ HpmFor = "block" => HpmGiven(hpmUp.act - 1) /\ (HpmTaken \/ (HpmWanted /\ ~HpmDid))
  /\ HpmFor = "finish" =>
       \/ hpmTarget.stage = "uploaded" /\ HpmGiven(hpmUp.act)
       \/ hpmTarget.stage = "loading" /\ HpmUpTo(HpmLength) /\ HpmGiven(hpmUp.act - 1) /\ ~HpmDid
  /\ HpmFor \in {"activate", "selftest", "rollstat"} => HpmGiven(Len(hpmCmd.actions))
  /\ HpmFor = "activate" /\ HpmDid => HpmActive \/ (HpmActing /\ (hpmReq = "status" \/ hpmAnswer = "progress"))
  /\ HpmFor = "selftest" => HpmActive
HpmNow ==
  /\ hpmAt \in {"send", "answer"} => HpmUnder
  /\ hpmAt = "done" /\ hpmRc = 0 =>
       HpmGiven(Len(hpmCmd.actions)) /\ (hpmCmd.activate /\ hpmReq # "rollstat" => HpmActive)
HpmSure == hpmCmd.name = "upgrade" /\ "unread" \notin hpmHist
HpmInv ==
  /\ HpmTypes /\ HpmLong
  /\ hpmAt \in {"new", "check", "send", "answer", "done"}
  /\ hpmAt \in {"new", "check"} => hpmTarget.images = {} /\ hpmTarget.stage # "loading"
  /\ HpmSure /\ hpmAt # "new" => HpmNow
HpmFits ==
  /\ hpmUp \in [act : Nat, comp : {hpmUp.comp}, pos : Nat, buf : Nat, block : Nat]
  /\ hpmUp.pos <= HpmLength /\ hpmUp.buf < 256 /\ hpmUp.block < 256 /\ hpmUp.buf + hpmErr >= HpmResize
(* Before the image is known to fit, nothing is sent that changes a target.*)
HpmLooks ==
  /\ hpmAt \in {"new", "check"} => "sent" \notin hpmHist
  /\ hpmCmd.name = "upgrade" /\ hpmAt \in {"send", "answer"} => hpmTarget.good \/ hpmReq \in {"devid", "cap"}
  /\ HpmUntouched

LEMMA HpmInvInit == HpmRoom /\ HpmInit => HpmInv
<1> SUFFICES ASSUME HpmRoom, HpmInit PROVE HpmInv
  OBVIOUS
<1>1. HpmBuf \in Nat /\ HpmBuf < 256 /\ HpmResize \in Nat /\ HpmLength \in Nat /\ HpmResize <= HpmBuf
  BY HpmNumbers DEF HpmRoom
<1>2. HpmTypes
  <2>1. <<>> \in Seq(Nat)
    OBVIOUS
  <2> QED
    BY <1>1, <2>1 DEF HpmInit, HpmTypes
<1>3. HpmLong
  BY <1>1 DEF HpmInit, HpmLong
<1> QED
  BY <1>2, <1>3 DEF HpmInit, HpmInv, HpmSure

LEMMA HpmMod == \A n \in Nat : n < 256 => (n + 1) % 256 = (IF n = 255 THEN 0 ELSE n + 1) /\ n % 256 = n
OBVIOUS

LEMMA HpmNumbersOf ==
  ASSUME HpmTypes
  PROVE  /\ hpmUp.pos \in Nat /\ hpmUp.buf \in Nat /\ hpmUp.block \in Nat /\ HpmLength \in Nat /\ HpmResize \in Nat
         /\ hpmUp.pos <= HpmLength /\ hpmUp.buf < 256 /\ hpmUp.block < 256 /\ hpmTarget.next \in Nat /\ hpmTarget.next < 256
         /\ HpmBlock \in Nat /\ HpmBlock <= hpmUp.buf /\ hpmUp.pos + HpmBlock <= HpmLength
         /\ hpmTarget.got \in Seq(Nat) /\ Len(hpmTarget.got) \in Nat /\ hpmTarget.limit \in Nat
<1>1. /\ hpmUp.pos \in Nat /\ hpmUp.buf \in Nat /\ hpmUp.block \in Nat /\ HpmLength \in Nat /\ HpmResize \in Nat
      /\ hpmUp.pos <= HpmLength /\ hpmUp.buf < 256 /\ hpmUp.block < 256 /\ hpmTarget.next \in Nat /\ hpmTarget.next < 256
      /\ hpmTarget.got \in Seq(Nat) /\ hpmTarget.limit \in Nat
  BY HpmNumbers DEF HpmTypes
<1>2. HpmBlock \in Nat /\ HpmBlock <= hpmUp.buf /\ hpmUp.pos + HpmBlock <= HpmLength
  BY <1>1 DEF HpmBlock
<1> QED
  BY <1>1, <1>2

(* A request that was carried out, by its answer or by the status, and     *)
(* what follows it.                                                        *)
LEMMA HpmSentTypes ==
  ASSUME HpmTypes, HpmSentBlock
  PROVE  /\ hpmUp' \in [act : Nat, comp : {hpmUp'.comp}, pos : Nat, buf : Nat, block : Nat]
         /\ hpmUp'.pos <= HpmLength /\ hpmUp'.buf = hpmUp.buf /\ hpmUp'.block < 256 /\ hpmUp'.act = hpmUp.act
         /\ hpmUp'.pos = hpmUp.pos + HpmBlock /\ hpmUp'.block = (hpmUp.block + 1) % 256
<1>1. Len(HpmBytes) = HpmBlock
  <2>1. \A n \in Nat : \A s : DOMAIN s = 1..n /\ s \in Seq(Nat) => Len(s) = n
    OBVIOUS
  <2>2. HpmBytes = [i \in 1..HpmBlock |-> hpmUp.pos + i]
    BY DEF HpmBytes, HpmBlock
  <2>3. HpmBlock \in Nat /\ \A i \in 1..HpmBlock : hpmUp.pos + i \in Nat
    BY HpmNumbersOf
  <2>4. HpmBytes \in [1..HpmBlock -> Nat]
    BY <2>2, <2>3
  <2>5. \A n \in Nat : \A s : s \in [1..n -> Nat] => s \in Seq(Nat) /\ Len(s) = n
    OBVIOUS
  <2> QED
    BY <2>3, <2>4, <2>5
<1>2. hpmUp' = [hpmUp EXCEPT !.pos = @ + HpmBlock, !.block = (@ + 1) % 256]
  BY <1>1 DEF HpmSentBlock
<1>3. hpmUp' = [act |-> hpmUp.act, comp |-> hpmUp.comp, pos |-> hpmUp.pos + HpmBlock, buf |-> hpmUp.buf,
                block |-> (hpmUp.block + 1) % 256]
  BY <1>2 DEF HpmTypes
<1>4. (hpmUp.block + 1) % 256 \in Nat /\ (hpmUp.block + 1) % 256 < 256
  BY HpmMod, HpmNumbersOf
<1>5. /\ hpmUp.pos + HpmBlock \in Nat /\ hpmUp.pos + HpmBlock <= HpmLength /\ hpmUp.buf \in Nat
      /\ hpmUp \in [act : Nat, comp : {hpmUp.comp}, pos : Nat, buf : Nat, block : Nat]
  BY HpmNumbersOf DEF HpmTypes
<1>6. hpmUp.act \in Nat /\ hpmUp.buf \in Nat
  BY <1>5
<1> DEFINE p == hpmUp.pos + HpmBlock
           b == (hpmUp.block + 1) % 256
<1> HIDE DEF p, b
<1>7. hpmUp' = [act |-> hpmUp.act, comp |-> hpmUp.comp, pos |-> p, buf |-> hpmUp.buf, block |-> b]
  BY <1>3 DEF p, b
<1>8. p \in Nat /\ p <= HpmLength /\ b \in Nat /\ b < 256
  BY <1>4, <1>5 DEF p, b
<1>9. /\ hpmUp' \in [act : Nat, comp : {hpmUp'.comp}, pos : Nat, buf : Nat, block : Nat]
      /\ hpmUp'.pos = p /\ hpmUp'.buf = hpmUp.buf /\ hpmUp'.block = b /\ hpmUp'.act = hpmUp.act
  BY <1>6, <1>7, <1>8
<1> QED
  BY <1>8, <1>9 DEF p, b

(* What uploads there are up to an action.                                 *)
LEMMA HpmUploadsNext ==
  ASSUME NEW n \in Nat
  PROVE  HpmUploads(n + 1) = HpmUploads(n) \cup (IF hpmCmd.actions[n + 1] = "upload" THEN {<<n + 1, HpmFile>>} ELSE {})
<1>1. {k \in 1..(n + 1) : hpmCmd.actions[k] = "upload"}
        = {k \in 1..n : hpmCmd.actions[k] = "upload"} \cup (IF hpmCmd.actions[n + 1] = "upload" THEN {n + 1} ELSE {})
  <2>1. 1..(n + 1) = (1..n) \cup {n + 1}
    OBVIOUS
  <2> QED
    BY <2>1
<1> QED
  BY <1>1 DEF HpmUploads

LEMMA HpmUploadsNone == HpmUploads(0) = {}
<1>1. 1..0 = {}
  OBVIOUS
<1> QED
  BY <1>1 DEF HpmUploads

(* Requests and ends leave the records that are waited on well formed.     *)
LEMMA HpmAsked ==
  ASSUME HpmTypes, NEW q, HpmAsk(q) \/ HpmPoll(q) \/ HpmEnd(q) \/ HpmWaits(q)
  PROVE  /\ hpmWait' \in [inacc : {hpmWait'.inacc}, polls : {hpmWait'.polls}, for : {hpmWait'.for}]
         /\ hpmAt' \in {"send", "done"} /\ (HpmPoll(q) => hpmWait'.for = hpmWait.for)
<1>1. hpmWait \in [inacc : {hpmWait.inacc}, polls : {hpmWait.polls}, for : {hpmWait.for}]
  BY DEF HpmTypes
<1>2. CASE HpmAsk(q)
  <2>1. hpmAt' = "send" /\ hpmWait' = [hpmWait EXCEPT !.polls = 0]
    BY <1>2 DEF HpmAsk
  <2>2. hpmWait' = [inacc |-> hpmWait.inacc, polls |-> 0, for |-> hpmWait.for]
    BY <1>1, <2>1
  <2> QED
    BY <2>1, <2>2
<1>3. CASE HpmPoll(q)
  <2>1. hpmAt' = "send" /\ hpmWait' = [hpmWait EXCEPT !.polls = hpmWait.polls + 1]
    BY <1>3 DEF HpmPoll
  <2> DEFINE n == hpmWait.polls + 1
  <2> HIDE DEF n
  <2>2. hpmWait' = [hpmWait EXCEPT !.polls = n]
    BY <2>1 DEF n
  <2>3. hpmWait' = [inacc |-> hpmWait.inacc, polls |-> n, for |-> hpmWait.for]
    BY <1>1, <2>2
  <2> QED
    BY <2>1, <2>3
<1>4. CASE HpmEnd(q)
  BY <1>1, <1>4 DEF HpmEnd, HpmPoll
<1>5. CASE HpmWaits(q)
  <2>1. hpmAt' = "send" /\ hpmWait' = [hpmWait EXCEPT !.polls = 0, !.for = q]
    BY <1>5 DEF HpmWaits
  <2>2. hpmWait' = [inacc |-> hpmWait.inacc, polls |-> 0, for |-> q]
    BY <1>1, <2>1
  <2>3. HpmPoll(q) => hpmWait'.for = hpmWait.for
    BY <1>3, <2>2 DEF HpmPoll, HpmTypes
  <2> QED
    BY <2>1, <2>2, <2>3
<1> QED
  BY <1>2, <1>3, <1>4, <1>5

(* The next action, or the end of them.                                    *)
LEMMA HpmStageTypes ==
  ASSUME HpmTypes, HpmLong, HpmRoom, NEW k \in Nat, HpmfwupgUpgradeStage(k), UNCHANGED hpmErr
  PROVE  /\ HpmFits' /\ hpmAt' \in {"send", "done"}
         /\ hpmWait' \in [inacc : {hpmWait'.inacc}, polls : {hpmWait'.polls}, for : {hpmWait'.for}]
<1>1. \/ hpmUp' = [hpmUp EXCEPT !.act = k] \/ hpmUp' = [hpmUp EXCEPT !.act = k, !.comp = 1]
      \/ hpmUp' = [act |-> k, comp |-> 0, pos |-> 0, buf |-> HpmBuf, block |-> 0] \/ hpmUp' = hpmUp
  BY DEF HpmfwupgUpgradeStage
<1>2. \E q : HpmAsk(q) \/ HpmEnd(q)
  BY DEF HpmfwupgUpgradeStage
<1>3. /\ hpmUp \in [act : Nat, comp : {hpmUp.comp}, pos : Nat, buf : Nat, block : Nat]
      /\ hpmUp.pos <= HpmLength /\ hpmUp.buf < 256 /\ hpmUp.block < 256 /\ hpmErr \in Nat
      /\ hpmUp.buf + hpmErr >= HpmResize
  BY DEF HpmTypes, HpmLong
<1>4. HpmBuf \in Nat /\ HpmBuf < 256 /\ HpmResize <= HpmBuf /\ HpmLength \in Nat /\ HpmResize \in Nat
  BY HpmNumbers DEF HpmRoom
<1>5. HpmFits'
  <2>1. CASE hpmUp' = [hpmUp EXCEPT !.act = k]
    <3>1. hpmUp' = [act |-> k, comp |-> hpmUp.comp, pos |-> hpmUp.pos, buf |-> hpmUp.buf, block |-> hpmUp.block]
      BY <1>3, <2>1
    <3> QED
      BY <1>3, <3>1 DEF HpmFits
  <2>2. CASE hpmUp' = [hpmUp EXCEPT !.act = k, !.comp = 1]
    <3>1. hpmUp' = [act |-> k, comp |-> 1, pos |-> hpmUp.pos, buf |-> hpmUp.buf, block |-> hpmUp.block]
      BY <1>3, <2>2
    <3> QED
      BY <1>3, <3>1 DEF HpmFits
  <2>3. CASE hpmUp' = [act |-> k, comp |-> 0, pos |-> 0, buf |-> HpmBuf, block |-> 0]
    BY <1>3, <1>4, <2>3 DEF HpmFits
  <2>4. CASE hpmUp' = hpmUp
    BY <1>3, <2>4 DEF HpmFits
  <2> QED
    BY <1>1, <2>1, <2>2, <2>3, <2>4
<1> QED
  BY <1>2, <1>5, HpmAsked

LEMMA HpmStageKept ==
  ASSUME HpmTypes, NEW n \in Nat, n <= Len(hpmCmd.actions), HpmGiven(n), hpmTarget.stage # "loading",
         UNCHANGED <<hpmTarget, hpmHist, hpmCmd>>, HpmfwupgUpgradeStage(n + 1)
  PROVE  HpmNow'
<1>0. Len(hpmCmd.actions) \in Nat
  BY DEF HpmTypes
<1>1. CASE n + 1 > Len(hpmCmd.actions)
  <2>1. n = Len(hpmCmd.actions)
    BY <1>0, <1>1
  <2>2. HpmGiven(Len(hpmCmd.actions))'
    BY <2>1 DEF HpmGiven, HpmUploads
  <2>3. CASE hpmCmd.activate
    <3>1. hpmAt' = "send" /\ hpmReq' = "activate"
      BY <1>1, <2>3 DEF HpmfwupgUpgradeStage, HpmAsk
    <3>2. HpmFor' = "activate" /\ ~HpmDid'
      BY <3>1 DEF HpmFor, HpmDid
    <3> QED
      BY <2>2, <3>1, <3>2 DEF HpmNow, HpmUnder, HpmRequests
  <2>4. CASE ~hpmCmd.activate
    <3>1. hpmAt' = "done" /\ ~hpmCmd.activate'
      BY <1>1, <2>4 DEF HpmfwupgUpgradeStage, HpmEnd
    <3> QED
      BY <2>2, <3>1 DEF HpmNow
  <2> QED
    BY <2>3, <2>4
<1>2. CASE ~(n + 1 > Len(hpmCmd.actions)) /\ hpmCmd.actions[n + 1] = "prepare"
  <2>1. hpmUp' = [hpmUp EXCEPT !.act = n + 1, !.comp = 1] /\ hpmAt' = "send" /\ hpmReq' = "prop"
    BY <1>2 DEF HpmfwupgUpgradeStage, HpmAsk
  <2>2. hpmUp'.act = n + 1 /\ n + 1 \in 1..Len(hpmCmd.actions)
    BY <1>0, <1>2, <2>1 DEF HpmTypes
  <2>3. HpmUploads(n + 1) = HpmUploads(n)
    BY <1>2, HpmUploadsNext
  <2>4. HpmGiven(hpmUp.act)'
    BY <2>2, <2>3 DEF HpmGiven, HpmUploads
  <2>5. HpmFor' = "prop" /\ ~HpmDid'
    BY <2>1 DEF HpmFor, HpmDid
  <2> QED
    BY <2>1, <2>2, <2>4, <2>5 DEF HpmNow, HpmUnder, HpmRequests
<1>3. CASE ~(n + 1 > Len(hpmCmd.actions)) /\ hpmCmd.actions[n + 1] = "upload"
  <2>1. /\ hpmUp' = [act |-> n + 1, comp |-> 0, pos |-> 0, buf |-> HpmBuf, block |-> 0]
        /\ hpmAt' = "send" /\ hpmReq' = "block"
    BY <1>3 DEF HpmfwupgUpgradeStage, HpmAsk
  <2>2. hpmUp'.act = n + 1 /\ n + 1 \in 1..Len(hpmCmd.actions) /\ hpmUp'.act - 1 = n
    BY <1>0, <1>3, <2>1
  <2>3. HpmGiven(hpmUp.act - 1)'
    BY <2>2 DEF HpmGiven, HpmUploads
  <2>4. HpmWanted'
    BY <2>1 DEF HpmWanted
  <2>5. HpmFor' = "block" /\ ~HpmDid'
    BY <2>1 DEF HpmFor, HpmDid
  <2> QED
    BY <1>3, <2>1, <2>2, <2>3, <2>4, <2>5 DEF HpmNow, HpmUnder, HpmRequests
<1>4. CASE ~(n + 1 > Len(hpmCmd.actions)) /\ hpmCmd.actions[n + 1] \notin {"prepare", "upload"}
  <2>1. hpmAt' = "done" /\ hpmRc' = -1
    BY <1>4 DEF HpmfwupgUpgradeStage, HpmEnd
  <2> QED
    BY <2>1 DEF HpmNow
<1> QED
  BY <1>1, <1>2, <1>3, <1>4

LEMMA HpmAfterKept ==
  ASSUME HpmTypes, HpmUnder, HpmDid, NEW req \in {"prepare", "block", "finish", "activate"}, HpmFor = req,
         hpmCmd.name = "upgrade", UNCHANGED <<hpmTarget, hpmHist, hpmCmd>>, req = "activate" => HpmActive, HpmAfter(req)
  PROVE  HpmNow'
<1>0. Len(hpmCmd.actions) \in Nat /\ hpmUp.act \in Nat
  BY DEF HpmTypes
<1>1. CASE req = "prepare"
  <2>1. HpmGiven(hpmUp.act) /\ hpmTarget.stage # "loading" /\ hpmUp.act <= Len(hpmCmd.actions)
    BY <1>0, <1>1 DEF HpmUnder
  <2>2. HpmfwupgUpgradeStage(hpmUp.act + 1)
    BY <1>1 DEF HpmAfter
  <2> QED
    BY <1>0, <2>1, <2>2, HpmStageKept
<1>2. CASE req = "block"
  <2>0. HpmSentBlock /\ HpmAsk(IF hpmUp'.pos < HpmLength THEN "block" ELSE "finish")
    BY <1>2 DEF HpmAfter
  <2>1. /\ hpmUp'.pos <= HpmLength /\ hpmUp'.pos \in Nat /\ hpmUp'.act = hpmUp.act
        /\ hpmUp'.pos = hpmUp.pos + HpmBlock /\ hpmUp'.block = (hpmUp.block + 1) % 256
    BY <2>0, HpmSentTypes
  <2>2. /\ HpmTaken /\ HpmGiven(hpmUp.act - 1) /\ hpmUp.act \in 1..Len(hpmCmd.actions)
        /\ hpmCmd.actions[hpmUp.act] = "upload"
    BY <1>2 DEF HpmUnder
  <2>3. HpmWanted' /\ hpmTarget.stage = "loading"
    BY <2>1, <2>2 DEF HpmWanted, HpmTaken, HpmUpTo
  <2>6. HpmGiven(hpmUp.act - 1)'
    BY <2>1, <2>2 DEF HpmGiven, HpmUploads
  <2>4. CASE hpmUp'.pos < HpmLength
    <3>1. hpmAt' = "send" /\ hpmReq' = "block"
      BY <2>0, <2>4 DEF HpmAsk
    <3>2. HpmFor' = "block" /\ ~HpmDid'
      BY <3>1 DEF HpmFor, HpmDid
    <3> QED
      BY <2>1, <2>2, <2>3, <2>6, <3>1, <3>2 DEF HpmNow, HpmUnder, HpmRequests
  <2>5. CASE ~(hpmUp'.pos < HpmLength)
    <3>1. hpmAt' = "send" /\ hpmReq' = "finish"
      BY <2>0, <2>5 DEF HpmAsk
    <3>2. HpmFor' = "finish" /\ ~HpmDid'
      BY <3>1 DEF HpmFor, HpmDid
    <3>3. hpmUp'.pos = HpmLength
      BY <2>1, <2>5, HpmNumbersOf
    <3>4. HpmUpTo(HpmLength)'
      BY <2>3, <3>3 DEF HpmWanted, HpmUpTo
    <3> QED
      BY <2>1, <2>2, <2>3, <2>6, <3>1, <3>2, <3>4 DEF HpmNow, HpmUnder, HpmRequests
  <2> QED
    BY <2>4, <2>5
<1>3. CASE req = "finish"
  <2>1. HpmGiven(hpmUp.act) /\ hpmTarget.stage # "loading" /\ hpmUp.act <= Len(hpmCmd.actions)
    BY <1>0, <1>3 DEF HpmUnder
  <2>2. HpmfwupgUpgradeStage(hpmUp.act + 1)
    BY <1>3 DEF HpmAfter
  <2> QED
    BY <1>0, <2>1, <2>2, HpmStageKept
<1>4. CASE req = "activate"
  <2>1. HpmActive' /\ HpmGiven(Len(hpmCmd.actions))'
    BY <1>4 DEF HpmUnder, HpmActive, HpmGiven, HpmUploads
  <2>2. (hpmAt' = "send" /\ hpmReq' = "selftest") \/ hpmAt' = "done"
    BY <1>4 DEF HpmAfter, HpmAsk, HpmEnd
  <2>3. hpmReq' = "selftest" => HpmFor' = "selftest"
    BY DEF HpmFor
  <2> QED
    BY <2>1, <2>2, <2>3 DEF HpmNow, HpmUnder, HpmRequests
<1> QED
  BY <1>1, <1>2, <1>3, <1>4

LEMMA HpmFailsKept ==
  ASSUME HpmUnder, NEW req, HpmFor = req, UNCHANGED <<hpmTarget, hpmHist, hpmCmd>>, HpmFails(req)
  PROVE  HpmNow'
<1>1. CASE hpmAt' = "send" /\ hpmReq' = "rollstat" /\ req \in {"activate", "selftest"}
  <2>1. HpmGiven(Len(hpmCmd.actions))'
    BY <1>1 DEF HpmUnder, HpmGiven, HpmUploads
  <2>2. HpmFor' = "rollstat"
    BY <1>1 DEF HpmFor
  <2> QED
    BY <1>1, <2>1, <2>2 DEF HpmNow, HpmUnder, HpmRequests
<1>2. CASE hpmAt' = "done" /\ hpmRc' = -1
  BY <1>2 DEF HpmNow
<1> QED
  BY <1>1, <1>2 DEF HpmFails, HpmAsk, HpmEnd

LEMMA HpmWaitsKept ==
  ASSUME HpmTypes, HpmUnder, HpmDid, NEW req \in {"prepare", "block", "finish", "activate"}, hpmReq = req,
         UNCHANGED <<hpmTarget, hpmHist, hpmCmd>>, HpmWaits(req)
  PROVE  HpmNow'
<1>1. hpmAt' = "send" /\ hpmReq' = "status" /\ hpmWait'.for = req /\ hpmUp' = hpmUp
  BY DEF HpmWaits, HpmTypes
<1>2. HpmFor = req /\ HpmFor' = req /\ HpmDid'
  BY <1>1 DEF HpmFor, HpmDid
<1>3. /\ HpmTaken => HpmTaken'
      /\ HpmActive => HpmActive'
      /\ HpmActing => HpmActing'
      /\ HpmGiven(hpmUp.act) => HpmGiven(hpmUp.act)'
      /\ HpmGiven(hpmUp.act - 1) => HpmGiven(hpmUp.act - 1)'
      /\ HpmGiven(Len(hpmCmd.actions)) => HpmGiven(Len(hpmCmd.actions))'
  BY <1>1 DEF HpmTaken, HpmActive, HpmActing, HpmUpTo, HpmBlock, HpmGiven, HpmUploads
<1> QED
  BY <1>1, <1>2, <1>3 DEF HpmNow, HpmUnder, HpmRequests

(* What the target does with a request, and answers.                       *)
HpmRefuses(t, r) ==
  /\ r = "error" /\ t.last = "error" /\ t.stage = hpmTarget.stage /\ t.got = hpmTarget.got /\ t.next = hpmTarget.next
  /\ t.images = hpmTarget.images
HpmServes(t, r) ==
  /\ t \in [stage : {t.stage}, got : Seq(Nat), next : Nat, last : {t.last}, limit : Nat, busy : {t.busy}, good : {t.good}, images : {t.images}]
  /\ t.next < 256 /\ t.limit = hpmTarget.limit /\ t.good = hpmTarget.good
  /\ hpmReq \in HpmQueries => t = hpmTarget
  /\ hpmReq \in {"prepare", "block", "activate"} => t.images = hpmTarget.images
  /\ hpmReq = "prepare" => t.stage = "prepared" \/ HpmRefuses(t, r)
  /\ hpmReq = "block" =>
       \/ HpmRefuses(t, r)
       \/ t = hpmTarget /\ r = "c7" /\ HpmBlock > hpmTarget.limit
       \/ t = hpmTarget /\ r = "cc" /\ hpmTarget.stage = "loading" /\ hpmUp.block # hpmTarget.next
       \/ /\ t.stage = "loading" /\ t.next = (hpmUp.block + 1) % 256 /\ r # "c7"
          /\ IF hpmTarget.stage = "loading"
             THEN /\ hpmUp.block = hpmTarget.next /\ Len(t.got) = Len(hpmTarget.got) + HpmBlock
                  /\ Len(hpmTarget.got) = hpmUp.pos /\ FwRight(hpmTarget.got) => FwRight(t.got)
             ELSE Len(t.got) = HpmBlock /\ (hpmUp.pos = 0 => FwRight(t.got))
  /\ hpmReq = "finish" =>
       \/ HpmRefuses(t, r)
       \/ /\ hpmTarget.stage = "loading" /\ Len(hpmTarget.got) = HpmLength /\ t.stage = "uploaded"
          /\ t.images = hpmTarget.images \cup {<<hpmUp.act, hpmTarget.got>>}
  /\ hpmReq = "activate" => HpmRefuses(t, r) \/ (t.stage = "activated" /\ t.last = r /\ r \in {"ok", "progress"})

LEMMA HpmTakesServed ==
  ASSUME HpmTypes, hpmReq = "block", NEW o \in {"ok", "progress"}, hpmTarget.stage = "loading" \/ hpmUp.block = 0
  PROVE  HpmServes(HpmTakes(hpmTarget, o)[1], HpmTakes(hpmTarget, o)[2])
<1> DEFINE d == HpmTakes(hpmTarget, o)
<1>1. /\ hpmTarget \in [stage : {hpmTarget.stage}, got : Seq(Nat), next : Nat, last : {hpmTarget.last}, limit : Nat,
                        busy : {hpmTarget.busy}, good : {hpmTarget.good}, images : {hpmTarget.images}]
      /\ hpmTarget.next < 256
  BY DEF HpmTypes
<1>2. HpmBytes = [i \in 1..HpmBlock |-> hpmUp.pos + i] /\ HpmBytes \in Seq(Nat) /\ Len(HpmBytes) = HpmBlock
  <2>1. HpmBytes = [i \in 1..HpmBlock |-> hpmUp.pos + i]
    BY DEF HpmBytes, HpmBlock
  <2>2. \A n \in Nat : \A s : s \in [1..n -> Nat] => s \in Seq(Nat) /\ Len(s) = n
    OBVIOUS
  <2>3. HpmBlock \in Nat /\ \A i \in 1..HpmBlock : hpmUp.pos + i \in Nat
    BY HpmNumbersOf
  <2>4. HpmBytes \in [1..HpmBlock -> Nat]
    BY <2>1, <2>3
  <2> QED
    BY <2>1, <2>2, <2>3, <2>4
<1>3. CASE Len(HpmBytes) > hpmTarget.limit
  <2>1. d = <<hpmTarget, "c7">>
    BY <1>3 DEF HpmTakes
  <2>2. d[1] = hpmTarget /\ d[2] = "c7"
    BY <2>1
  <2>3. HpmBlock > hpmTarget.limit
    BY <1>2, <1>3
  <2> HIDE DEF d
  <2> QED
    BY <1>1, <2>2, <2>3 DEF HpmServes, HpmQueries, d
<1>4. CASE ~(Len(HpmBytes) > hpmTarget.limit) /\ hpmTarget.stage = "loading" /\ hpmUp.block # hpmTarget.next
  <2>1. d = <<hpmTarget, "cc">>
    BY <1>4 DEF HpmTakes
  <2>2. d[1] = hpmTarget /\ d[2] = "cc"
    BY <2>1
  <2> HIDE DEF d
  <2> QED
    BY <1>1, <1>4, <2>2 DEF HpmServes, HpmQueries, d
<1>5. CASE ~(Len(HpmBytes) > hpmTarget.limit) /\ ~(hpmTarget.stage = "loading" /\ hpmUp.block # hpmTarget.next)
  <2> DEFINE got == IF hpmTarget.stage = "loading" THEN hpmTarget.got \o HpmBytes ELSE HpmBytes
             next == (hpmUp.block + 1) % 256
  <2>1. d = <<[hpmTarget EXCEPT !.stage = "loading", !.last = o, !.next = next, !.got = got], o>>
    BY <1>5 DEF HpmTakes
  <2>2. got \in Seq(Nat) /\ Len(got) = IF hpmTarget.stage = "loading" THEN Len(hpmTarget.got) + HpmBlock ELSE HpmBlock
    BY <1>1, <1>2, HpmNumbersOf
  <2>3. next \in Nat /\ next < 256
    BY HpmMod, HpmNumbersOf
  <2>4. ASSUME hpmTarget.stage = "loading", Len(hpmTarget.got) = hpmUp.pos, FwRight(hpmTarget.got) PROVE FwRight(got)
    <3>1. SUFFICES ASSUME NEW i \in 1..(hpmUp.pos + HpmBlock) PROVE got[i] = i
      BY <2>2, <2>4 DEF FwRight
    <3>2. CASE i <= hpmUp.pos
      <4>1. got[i] = hpmTarget.got[i] /\ i \in DOMAIN hpmTarget.got
        BY <1>2, <2>4, <3>2, HpmNumbersOf
      <4> QED
        BY <2>4, <4>1 DEF FwRight
    <3>3. CASE ~(i <= hpmUp.pos)
      <4>1. i - hpmUp.pos \in 1..HpmBlock /\ i \in Nat /\ i > Len(hpmTarget.got) /\ i <= Len(hpmTarget.got) + Len(HpmBytes)
        BY <1>2, <2>4, <3>3, HpmNumbersOf, SMTT(30)
      <4>2. \A u, v \in Seq(Nat) : \A j \in Nat : j > Len(u) /\ j <= Len(u) + Len(v) => (u \o v)[j] = v[j - Len(u)]
        OBVIOUS
      <4>3. hpmTarget.got \in Seq(Nat) /\ HpmBytes \in Seq(Nat)
        BY <1>2, HpmNumbersOf
      <4>4. got[i] = HpmBytes[i - hpmUp.pos]
        BY <2>4, <4>1, <4>2, <4>3
      <4>5. HpmBytes[i - hpmUp.pos] = hpmUp.pos + (i - hpmUp.pos)
        BY <1>2, <4>1
      <4>6. hpmUp.pos + (i - hpmUp.pos) = i
        BY <4>1, HpmNumbersOf
      <4> HIDE DEF got
      <4> QED
        BY <4>4, <4>5, <4>6
    <3> QED
      BY <3>2, <3>3
  <2>5. ASSUME hpmTarget.stage # "loading", hpmUp.pos = 0 PROVE FwRight(got)
    <3>1. got = [i \in 1..HpmBlock |-> 0 + i]
      BY <1>2, <2>5
    <3>2. \A i \in 1..HpmBlock : 0 + i = i
      BY HpmNumbersOf
    <3>3. DOMAIN got = 1..HpmBlock /\ \A i \in 1..HpmBlock : got[i] = 0 + i
      BY <3>1
    <3> HIDE DEF got
    <3> QED
      BY <3>2, <3>3 DEF FwRight
  <2> HIDE DEF got, next
  <2>6. d[1] = [hpmTarget EXCEPT !.stage = "loading", !.last = o, !.next = next, !.got = got] /\ d[2] = o
    BY <2>1
  <2>7. d[1] = [stage |-> "loading", got |-> got, next |-> next, last |-> o, limit |-> hpmTarget.limit,
                busy |-> hpmTarget.busy, good |-> hpmTarget.good, images |-> hpmTarget.images]
    BY <1>1, <2>6, ZenonT(60)
  <2>8. next = (hpmUp.block + 1) % 256
    BY DEF next
  <2>9. o # "c7"
    OBVIOUS
  <2> DEFINE t == d[1]
  <2>10. /\ t.stage = "loading" /\ t.got = got /\ t.next = next /\ t.limit = hpmTarget.limit
         /\ t.good = hpmTarget.good /\ t.images = hpmTarget.images
         /\ t \in [stage : {t.stage}, got : Seq(Nat), next : Nat, last : {t.last}, limit : Nat, busy : {t.busy}, good : {t.good}, images : {t.images}]
    BY <1>1, <2>2, <2>3, <2>7
  <2> HIDE DEF t, d
  <2> QED
    BY <1>1, <1>5, <2>2, <2>3, <2>4, <2>5, <2>6, <2>8, <2>9, <2>10 DEF HpmServes, HpmQueries, t, d
<1> QED
  BY <1>3, <1>4, <1>5

LEMMA HpmServed ==
  ASSUME HpmTypes, NEW o \in {"ok", "progress", "error"}
  PROVE  HpmServes(HpmDoes(hpmTarget, o)[1], HpmDoes(hpmTarget, o)[2])
<1> DEFINE to(s) == [hpmTarget EXCEPT !.stage = s, !.last = o]
           d == HpmDoes(hpmTarget, o)
<1>2. /\ hpmTarget \in [stage : {hpmTarget.stage}, got : Seq(Nat), next : Nat, last : {hpmTarget.last}, limit : Nat,
                        busy : {hpmTarget.busy}, good : {hpmTarget.good}, images : {hpmTarget.images}]
      /\ hpmTarget.next < 256
  BY DEF HpmTypes
<1>1. ASSUME NEW s
      PROVE  to(s) = [stage |-> s, got |-> hpmTarget.got, next |-> hpmTarget.next, last |-> o, limit |-> hpmTarget.limit,
                      busy |-> hpmTarget.busy, good |-> hpmTarget.good, images |-> hpmTarget.images]
  <2> DEFINE p == [hpmTarget EXCEPT !.stage = s]
  <2>1. p = [stage |-> s, got |-> hpmTarget.got, next |-> hpmTarget.next, last |-> hpmTarget.last, limit |-> hpmTarget.limit,
             busy |-> hpmTarget.busy, good |-> hpmTarget.good, images |-> hpmTarget.images]
    BY <1>2, SMTT(30)
  <2>2. to(s) = [p EXCEPT !.last = o]
    OBVIOUS
  <2> HIDE DEF p, to
  <2> QED
    BY <2>1, <2>2
<1>3. CASE hpmReq \in HpmQueries
  <2>1. d = <<hpmTarget, o>>
    BY <1>3 DEF HpmDoes, HpmQueries
  <2>2. d[1] = hpmTarget
    BY <2>1
  <2> HIDE DEF d
  <2> QED
    BY <1>2, <1>3, <2>2 DEF HpmServes, HpmQueries, d
<1>4. CASE hpmReq = "prepare" /\ o # "error"
  <2>1. d[1] = to("prepared")
    BY <1>4 DEF HpmDoes, HpmQueries
  <2> HIDE DEF d, to
  <2> QED
    BY <1>1, <1>2, <1>4, <2>1 DEF HpmServes, HpmQueries, d
<1>5. CASE hpmReq = "block" /\ o # "error" /\ (hpmTarget.stage = "loading" \/ hpmUp.block = 0)
  <2>1. d = HpmTakes(hpmTarget, o)
    BY <1>5 DEF HpmDoes, HpmQueries
  <2> HIDE DEF d
  <2> QED
    BY <1>5, <2>1, HpmTakesServed DEF d
<1>6. CASE hpmReq = "finish" /\ o # "error" /\ hpmTarget.stage = "loading" /\ Len(hpmTarget.got) = HpmLength
  <2> DEFINE p == to("uploaded")
             new == hpmTarget.images \cup {<<hpmUp.act, hpmTarget.got>>}
  <2>1. p = [stage |-> "uploaded", got |-> hpmTarget.got, next |-> hpmTarget.next, last |-> o, limit |-> hpmTarget.limit,
             busy |-> hpmTarget.busy, good |-> hpmTarget.good, images |-> hpmTarget.images]
    BY <1>1
  <2>2. d[1] = [p EXCEPT !.images = @ \cup {<<hpmUp.act, hpmTarget.got>>}]
    BY <1>6 DEF HpmDoes, HpmQueries
  <2> HIDE DEF p, d, to
  <2>3. d[1] = [p EXCEPT !.images = new]
    BY <2>1, <2>2
  <2> HIDE DEF new
  <2>4. d[1] = [stage |-> "uploaded", got |-> hpmTarget.got, next |-> hpmTarget.next, last |-> o, limit |-> hpmTarget.limit,
                busy |-> hpmTarget.busy, good |-> hpmTarget.good, images |-> new]
    BY <2>1, <2>3
  <2> QED
    BY <1>2, <1>6, <2>4 DEF HpmServes, HpmQueries, d, new
<1>7. CASE hpmReq = "activate" /\ o # "error" /\ hpmTarget.stage = "uploaded"
  <2>1. d[1] = to("activated") /\ d[2] = o
    BY <1>7 DEF HpmDoes, HpmQueries
  <2> HIDE DEF d, to
  <2> QED
    BY <1>1, <1>2, <1>7, <2>1 DEF HpmServes, HpmQueries, d
<1>8. CASE hpmReq = "rollback" /\ o # "error"
  <2>1. d[1] = to("rolledback")
    BY <1>8 DEF HpmDoes, HpmQueries
  <2> HIDE DEF d, to
  <2> QED
    BY <1>1, <1>2, <1>8, <2>1 DEF HpmServes, HpmQueries, d
<1>9. CASE /\ hpmReq \notin HpmQueries /\ ~(hpmReq \in {"prepare", "rollback"} /\ o # "error")
           /\ ~(hpmReq = "block" /\ o # "error" /\ (hpmTarget.stage = "loading" \/ hpmUp.block = 0))
           /\ ~(hpmReq = "finish" /\ o # "error" /\ hpmTarget.stage = "loading" /\ Len(hpmTarget.got) = HpmLength)
           /\ ~(hpmReq = "activate" /\ o # "error" /\ hpmTarget.stage = "uploaded")
  <2>1. d = <<[hpmTarget EXCEPT !.last = "error"], "error">>
    BY <1>9 DEF HpmDoes
  <2>2. d[1] = [hpmTarget EXCEPT !.last = "error"] /\ d[2] = "error"
    BY <2>1
  <2>3. d[1] = [stage |-> hpmTarget.stage, got |-> hpmTarget.got, next |-> hpmTarget.next, last |-> "error", limit |-> hpmTarget.limit,
                busy |-> hpmTarget.busy, good |-> hpmTarget.good, images |-> hpmTarget.images]
    BY <1>2, <2>2
  <2> HIDE DEF d, to
  <2>4. HpmRefuses(d[1], d[2])
    BY <2>2, <2>3 DEF HpmRefuses
  <2> QED
    BY <1>2, <1>9, <2>3, <2>4 DEF HpmServes, HpmRefuses, d
<1> QED
  BY <1>3, <1>4, <1>5, <1>6, <1>7, <1>8, <1>9

(* HpmfwupgSendCmd goes on sending or has an answer.                       *)
LEMMA HpmSends ==
  ASSUME HpmTypes, HpmLong, hpmAt = "send", NEW r, HpmfwupgSendCmd(r)
  PROVE  /\ \/ hpmAt' = "send" /\ hpmErr' = hpmErr
            \/ hpmAt' = "answer" /\ hpmAnswer' = HpmFakes(r) /\ r # "busy" /\ hpmErr' = hpmErr
            \/ hpmAt' = "answer" /\ hpmAnswer' = "c7" /\ hpmReq = "block" /\ r = "none" /\ hpmErr' = hpmErr + 1 /\ hpmErr < HpmResize
         /\ hpmAt' = "answer" /\ hpmAnswer' = "c7" /\ r = "none" => hpmErr' = hpmErr + 1
         /\ hpmWait' \in [inacc : {hpmWait'.inacc}, polls : {hpmWait'.polls}, for : {hpmWait'.for}] /\ hpmWait'.for = hpmWait.for
<1>1. /\ \/ hpmAt' = "send" /\ HpmFakes(r) \in {"none", "busy"}
         \/ hpmAt' = "answer" /\ hpmAnswer' = HpmFakes(r) /\ HpmFakes(r) # "busy"
      /\ hpmErr' = IF r = "none" /\ HpmFakes(r) = "c7" THEN hpmErr + 1 ELSE hpmErr
      /\ \E n : hpmWait' = [hpmWait EXCEPT !.inacc = n]
  <2>1. hpmWait = [hpmWait EXCEPT !.inacc = hpmWait.inacc]
    BY DEF HpmTypes
  <2>2. \E n : hpmWait' = [hpmWait EXCEPT !.inacc = n]
    <3>1. \/ hpmWait' = [hpmWait EXCEPT !.inacc = IF hpmIntf = "lan" /\ hpmReq \in {"status", "rollstat"} THEN HpmInaccess ELSE @ + 1]
          \/ hpmWait' = hpmWait \/ hpmWait' = [hpmWait EXCEPT !.inacc = 0]
      BY DEF HpmfwupgSendCmd
    <3> QED
      BY <2>1, <3>1
  <2> QED
    BY <2>2 DEF HpmfwupgSendCmd
<1>2. r # "none" => HpmFakes(r) = r
  BY DEF HpmFakes
<1>3. r = "none" /\ HpmFakes(r) = "c7" => hpmReq = "block" /\ hpmErr < HpmResize
  BY DEF HpmFakes
<1>4. hpmWait' \in [inacc : {hpmWait'.inacc}, polls : {hpmWait'.polls}, for : {hpmWait'.for}] /\ hpmWait'.for = hpmWait.for
  <2>1. PICK n : hpmWait' = [hpmWait EXCEPT !.inacc = n]
    BY <1>1
  <2> QED
    BY <2>1 DEF HpmTypes
<1> QED
  BY <1>1, <1>2, <1>3, <1>4

LEMMA HpmSendKept == ASSUME HpmInv, HpmSend PROVE HpmInv'
<1>1. hpmAt = "send" /\ UNCHANGED <<hpmIntf, hpmCmd, hpmReq, hpmUp, hpmRc>> /\ HpmTypes /\ HpmLong
  BY DEF HpmSend, HpmInv
<1> DEFINE Served(r) == HpmServes(hpmTarget', r) /\ HpmfwupgSendCmd(r) /\ hpmHist \subseteq hpmHist'
           Unheard == \E r : HpmServes(hpmTarget', r) /\ HpmfwupgSendCmd("none") /\ hpmHist \subseteq hpmHist'
           Lost(r) == /\ r \in {"busy", "none"} /\ hpmTarget' = hpmTarget /\ HpmfwupgSendCmd(r) /\ hpmHist \subseteq hpmHist'
                      /\ r = "none" /\ hpmReq = "activate" => "lost" \in hpmHist'
<1>2. (\E r : Served(r)) \/ Unheard \/ (\E r : Lost(r))
  <2>1. CASE hpmTarget.busy /\ HpmfwupgSendCmd("busy") /\ UNCHANGED <<hpmTarget, hpmFaults, hpmHist>>
    BY <2>1
  <2>2. ASSUME NEW o \in {"ok", "progress", "error"}, hpmTarget' = HpmDoes(hpmTarget, o)[1], hpmHist \subseteq hpmHist',
               HpmfwupgSendCmd(HpmDoes(hpmTarget, o)[2]) \/ HpmfwupgSendCmd("none")
        PROVE  (\E r : Served(r)) \/ Unheard
    <3>1. HpmServes(hpmTarget', HpmDoes(hpmTarget, o)[2])
      BY <1>1, <2>2, HpmServed
    <3> QED
      BY <2>2, <3>1
  <2>3. CASE /\ HpmfwupgSendCmd("none") /\ hpmTarget' = hpmTarget
             /\ hpmHist' = hpmHist \cup (IF hpmReq = "activate" THEN {"lost"} ELSE {})
    BY <2>3
  <2>4. CASE \E o \in {"ok", "progress", "error"} :
               /\ hpmTarget' = HpmDoes(hpmTarget, o)[1]
               /\ hpmHist' = IF HpmDoes(hpmTarget, o)[1] # hpmTarget THEN hpmHist \cup {"sent"} ELSE hpmHist
               /\ HpmfwupgSendCmd(HpmDoes(hpmTarget, o)[2]) \/ HpmfwupgSendCmd("none")
    <3>1. PICK o \in {"ok", "progress", "error"} :
               /\ hpmTarget' = HpmDoes(hpmTarget, o)[1]
               /\ hpmHist' = IF HpmDoes(hpmTarget, o)[1] # hpmTarget THEN hpmHist \cup {"sent"} ELSE hpmHist
               /\ HpmfwupgSendCmd(HpmDoes(hpmTarget, o)[2]) \/ HpmfwupgSendCmd("none")
      BY <2>4
    <3>2. hpmHist \subseteq hpmHist'
      BY <3>1
    <3> QED
      BY <2>2, <3>1, <3>2
  <2> QED
    BY <2>1, <2>3, <2>4 DEF HpmSend
<1>3. PICK r : HpmfwupgSendCmd(r) /\ hpmHist \subseteq hpmHist' /\
               \/ HpmServes(hpmTarget', r)
               \/ r = "none" /\ \E q : HpmServes(hpmTarget', q)
               \/ r \in {"busy", "none"} /\ hpmTarget' = hpmTarget /\ (r = "none" /\ hpmReq = "activate" => "lost" \in hpmHist')
  BY <1>2
<1>4. /\ \/ hpmAt' = "send" /\ hpmErr' = hpmErr
         \/ hpmAt' = "answer" /\ hpmAnswer' = HpmFakes(r) /\ r # "busy" /\ hpmErr' = hpmErr
         \/ hpmAt' = "answer" /\ hpmAnswer' = "c7" /\ hpmReq = "block" /\ r = "none" /\ hpmErr' = hpmErr + 1 /\ hpmErr < HpmResize
      /\ hpmAt' = "answer" /\ hpmAnswer' = "c7" /\ r = "none" => hpmErr' = hpmErr + 1
      /\ hpmWait' \in [inacc : {hpmWait'.inacc}, polls : {hpmWait'.polls}, for : {hpmWait'.for}] /\ hpmWait'.for = hpmWait.for
  BY <1>1, <1>3, HpmSends
<1>5. /\ hpmTarget' \in [stage : {hpmTarget'.stage}, got : Seq(Nat), next : Nat, last : {hpmTarget'.last}, limit : Nat,
                         busy : {hpmTarget'.busy}, good : {hpmTarget'.good}, images : {hpmTarget'.images}]
      /\ hpmTarget'.next < 256 /\ hpmTarget'.limit = hpmTarget.limit
  <2>1. ASSUME NEW q, HpmServes(hpmTarget', q) 
        PROVE  /\ hpmTarget' \in [stage : {hpmTarget'.stage}, got : Seq(Nat), next : Nat, last : {hpmTarget'.last}, limit : Nat,
                                  busy : {hpmTarget'.busy}, good : {hpmTarget'.good}, images : {hpmTarget'.images}]
               /\ hpmTarget'.next < 256 /\ hpmTarget'.limit = hpmTarget.limit
    BY <2>1 DEF HpmServes
  <2>2. CASE hpmTarget' = hpmTarget
    BY <1>1, <2>2 DEF HpmTypes
  <2> QED
    BY <1>3, <2>1, <2>2
<1>6. HpmTypes'
  BY <1>1, <1>4, <1>5 DEF HpmTypes
<1>7. HpmLong'
  <2>1. hpmErr \in Nat /\ HpmResize \in Nat /\ hpmUp.buf \in Nat
    BY <1>1, HpmNumbersOf DEF HpmTypes
  <2>2. ASSUME hpmAt' = "answer", hpmReq' = "block", hpmAnswer' = "c7" PROVE hpmUp'.buf + hpmErr' > HpmResize
    <3>1. CASE r = "none"
      BY <1>1, <1>4, <2>1, <2>2, <3>1 DEF HpmLong
    <3>2. CASE r # "none"
      <4>1. HpmFakes(r) = r /\ r = "c7" /\ HpmServes(hpmTarget', r) /\ hpmReq = "block" /\ hpmErr' = hpmErr
        BY <1>1, <1>3, <1>4, <2>2, <3>2 DEF HpmFakes
      <4>2. HpmBlock > hpmTarget.limit
        BY <4>1 DEF HpmServes, HpmRefuses
      <4>3. HpmResize <= hpmTarget.limit
        BY <1>1 DEF HpmLong
      <4> QED
        BY <1>1, <2>1, <4>1, <4>2, <4>3, HpmNumbersOf
    <3> QED
      BY <3>1, <3>2
  <2>3. HpmResize <= hpmTarget'.limit /\ hpmErr' <= HpmResize /\ hpmUp'.buf + hpmErr' >= HpmResize
    BY <1>1, <1>4, <1>5, <2>1 DEF HpmLong
  <2> QED
    BY <2>2, <2>3 DEF HpmLong
<1>8. ASSUME HpmSure' PROVE HpmUnder'
  <2>1. HpmUnder /\ HpmFor' = HpmFor
    BY <1>1, <1>3, <1>4, <1>8 DEF HpmInv, HpmSure, HpmNow, HpmFor
  <2>2. PICK q : /\ \/ HpmServes(hpmTarget', q) /\ (q = r \/ r = "none")
                    \/ /\ hpmTarget' = hpmTarget /\ r \in {"busy", "none"}
                       /\ r = "none" /\ hpmReq = "activate" => "lost" \in hpmHist'
    BY <1>3
  <2>3. hpmReq \in HpmRequests \cup {"status"} /\ HpmUploads(0)' = HpmUploads(0)
    BY <1>1, <2>1 DEF HpmUnder, HpmFor, HpmUploads
  <2>4. /\ HpmUploads(hpmUp.act)' = HpmUploads(hpmUp.act) /\ HpmUploads(hpmUp.act - 1)' = HpmUploads(hpmUp.act - 1)
        /\ HpmUploads(Len(hpmCmd.actions))' = HpmUploads(Len(hpmCmd.actions))
    BY <1>1 DEF HpmUploads
  <2>5. HpmDid' /\ hpmReq # "status" =>
          /\ hpmAt' = "answer" /\ hpmAnswer' = HpmFakes(r) /\ r # "busy"
          /\ hpmAnswer' \in {"ok", "progress"} \/ (hpmReq = "block" /\ hpmAnswer' = "cc")
          /\ r # "none" => hpmAnswer' = r
          /\ r = "none" => hpmReq \in {"activate", "rollback"} /\ hpmAnswer' = "progress"
    BY <1>1, <1>4 DEF HpmDid, HpmFakes
  <2>6. CASE hpmReq \in HpmQueries
    <3>1. hpmTarget' = hpmTarget
      BY <2>2, <2>6 DEF HpmServes
    <3>2. /\ HpmTaken <=> HpmTaken'
          /\ HpmActive => HpmActive'
          /\ HpmActing <=> HpmActing'
          /\ HpmGiven(0) <=> HpmGiven(0)'
          /\ HpmGiven(hpmUp.act) <=> HpmGiven(hpmUp.act)'
          /\ HpmGiven(hpmUp.act - 1) <=> HpmGiven(hpmUp.act - 1)'
          /\ HpmGiven(Len(hpmCmd.actions)) <=> HpmGiven(Len(hpmCmd.actions))'
      BY <1>1, <1>3, <2>3, <2>4, <3>1 DEF HpmTaken, HpmUpTo, HpmBlock, HpmActive, HpmActing, HpmGiven
    <3>3. hpmReq = "status" => HpmDid /\ HpmDid'
      BY <1>1 DEF HpmDid
    <3>4. hpmReq # "status" => HpmFor \in {"devid", "cap", "prop", "selftest", "rollstat"}
      BY <2>6 DEF HpmFor, HpmQueries
    <3> QED
      BY <1>1, <2>1, <3>1, <3>2, <3>3, <3>4 DEF HpmUnder
  <2>7. CASE hpmReq = "prepare"
    <3>1. HpmFor = "prepare"
      BY <2>7 DEF HpmFor
    <3>2. hpmTarget.stage # "loading" /\ hpmUp.act \in 1..Len(hpmCmd.actions) /\ HpmGiven(hpmUp.act)
      BY <2>1, <3>1 DEF HpmUnder
    <3>3. hpmTarget'.stage # "loading" /\ hpmTarget'.images = hpmTarget.images
      BY <2>2, <2>7, <3>2 DEF HpmServes, HpmRefuses
    <3>4. HpmGiven(hpmUp.act)'
      BY <2>4, <3>2, <3>3 DEF HpmGiven
    <3> QED
      BY <1>1, <2>1, <2>7, <3>1, <3>2, <3>3, <3>4 DEF HpmUnder, HpmRequests
  <2>8. CASE hpmReq = "block"
    <3>1. HpmFor = "block"
      BY <2>8 DEF HpmFor
    <3>2. /\ hpmUp.act \in 1..Len(hpmCmd.actions) /\ hpmCmd.actions[hpmUp.act] = "upload" /\ HpmGiven(hpmUp.act - 1)
          /\ HpmTaken \/ HpmWanted
      BY <2>1, <3>1 DEF HpmUnder
    <3>3. HpmGiven(hpmUp.act - 1)'
      <4>1. hpmTarget'.images = hpmTarget.images
        BY <2>2, <2>8 DEF HpmServes
      <4> QED
        BY <2>4, <3>2, <4>1 DEF HpmGiven
    <3>4. CASE /\ hpmTarget'.stage = hpmTarget.stage /\ hpmTarget'.got = hpmTarget.got /\ hpmTarget'.next = hpmTarget.next
               /\ r \in {"busy", "none", "error", "c7"}
      <4>1. (HpmTaken <=> HpmTaken') /\ (HpmWanted <=> HpmWanted')
        BY <1>1, <3>4 DEF HpmTaken, HpmWanted, HpmUpTo, HpmBlock
      <4>2. ~HpmDid'
        BY <2>5, <2>8, <3>4
      <4> QED
        BY <1>1, <2>1, <2>8, <3>1, <3>2, <3>3, <4>1, <4>2 DEF HpmUnder, HpmRequests
    <3>5. CASE hpmTarget' = hpmTarget /\ hpmTarget.stage = "loading" /\ hpmUp.block # hpmTarget.next
      <4>1. HpmTaken
        BY <3>2, <3>5 DEF HpmWanted
      <4>2. HpmTaken'
        BY <1>1, <3>5, <4>1 DEF HpmTaken, HpmUpTo, HpmBlock
      <4> QED
        BY <1>1, <2>1, <2>8, <3>1, <3>2, <3>3, <4>2 DEF HpmUnder, HpmRequests
    <3>6. CASE /\ hpmTarget'.stage = "loading" /\ hpmTarget'.next = (hpmUp.block + 1) % 256
               /\ IF hpmTarget.stage = "loading"
                  THEN /\ hpmUp.block = hpmTarget.next /\ Len(hpmTarget'.got) = Len(hpmTarget.got) + HpmBlock
                       /\ Len(hpmTarget.got) = hpmUp.pos /\ FwRight(hpmTarget.got) => FwRight(hpmTarget'.got)
                  ELSE Len(hpmTarget'.got) = HpmBlock /\ (hpmUp.pos = 0 => FwRight(hpmTarget'.got))
      <4>0. HpmBlock' = HpmBlock
        BY <1>1 DEF HpmBlock
      <4>1. HpmTaken'
        <5>1. CASE hpmTarget.stage = "loading"
          <6>1. HpmWanted
            BY <1>1, <3>2, <3>6, <5>1, HpmMod, HpmNumbersOf DEF HpmTaken
          <6>2. Len(hpmTarget.got) >= hpmUp.pos /\ (Len(hpmTarget.got) = hpmUp.pos => FwRight(hpmTarget.got))
            BY <5>1, <6>1 DEF HpmWanted, HpmUpTo
          <6>3. /\ Len(hpmTarget'.got) >= hpmUp.pos + HpmBlock
                /\ Len(hpmTarget'.got) = hpmUp.pos + HpmBlock => Len(hpmTarget.got) = hpmUp.pos
            BY <1>1, <3>6, <5>1, <6>2, HpmNumbersOf
          <6> QED
            BY <1>1, <3>6, <4>0, <5>1, <6>2, <6>3 DEF HpmTaken, HpmUpTo
        <5>2. CASE hpmTarget.stage # "loading"
          <6>1. hpmUp.pos = 0
            BY <3>2, <5>2 DEF HpmTaken, HpmWanted
          <6>2. hpmUp.pos + HpmBlock = HpmBlock /\ Len(hpmTarget'.got) = HpmBlock /\ FwRight(hpmTarget'.got)
            BY <1>1, <3>6, <5>2, <6>1, HpmNumbersOf
          <6>3. Len(hpmTarget'.got) >= hpmUp.pos + HpmBlock
            BY <1>1, <6>2, HpmNumbersOf
          <6> QED
            BY <1>1, <3>6, <4>0, <6>2, <6>3 DEF HpmTaken, HpmUpTo
        <5> QED
          BY <5>1, <5>2
      <4> QED
        BY <1>1, <2>1, <2>8, <3>1, <3>2, <3>3, <4>1 DEF HpmUnder, HpmRequests
    <3>7. CASE hpmTarget' = hpmTarget /\ r \in {"busy", "none"}
      BY <3>4, <3>7
    <3>8. CASE HpmRefuses(hpmTarget', q) /\ (q = r \/ r = "none")
      BY <3>4, <3>8 DEF HpmRefuses
    <3>9. CASE hpmTarget' = hpmTarget /\ q = "c7" /\ (q = r \/ r = "none")
      BY <3>4, <3>9
    <3> QED
      BY <2>2, <2>8, <3>5, <3>6, <3>7, <3>8, <3>9 DEF HpmServes
  <2>9. CASE hpmReq = "finish"
    <3>1. HpmFor = "finish"
      BY <2>9 DEF HpmFor
    <3>2. /\ hpmUp.act \in 1..Len(hpmCmd.actions) /\ hpmCmd.actions[hpmUp.act] = "upload"
          /\ \/ hpmTarget.stage = "uploaded" /\ HpmGiven(hpmUp.act)
             \/ hpmTarget.stage = "loading" /\ HpmUpTo(HpmLength) /\ HpmGiven(hpmUp.act - 1)
      BY <2>1, <3>1 DEF HpmUnder
    <3>3. CASE /\ hpmTarget'.stage = hpmTarget.stage /\ hpmTarget'.got = hpmTarget.got /\ hpmTarget'.images = hpmTarget.images
               /\ r \in {"busy", "none", "error"}
      <4>1. ~HpmDid'
        BY <2>5, <2>9, <3>3
      <4>2. /\ HpmGiven(hpmUp.act) => HpmGiven(hpmUp.act)'
            /\ HpmGiven(hpmUp.act - 1) => HpmGiven(hpmUp.act - 1)'
            /\ HpmUpTo(HpmLength) => HpmUpTo(HpmLength)'
        BY <2>4, <3>3 DEF HpmGiven, HpmUpTo
      <4> QED
        BY <1>1, <2>1, <2>9, <3>1, <3>2, <3>3, <4>1, <4>2 DEF HpmUnder, HpmRequests
    <3>4. CASE /\ hpmTarget.stage = "loading" /\ Len(hpmTarget.got) = HpmLength /\ hpmTarget'.stage = "uploaded"
               /\ hpmTarget'.images = hpmTarget.images \cup {<<hpmUp.act, hpmTarget.got>>}
      <4>1. HpmUpTo(HpmLength) /\ HpmGiven(hpmUp.act - 1)
        BY <3>2, <3>4
      <4>2. hpmTarget.got = HpmFile
        <5>1. hpmTarget.got \in Seq(Nat) /\ HpmLength \in Nat
          BY <1>1, HpmNumbersOf
        <5>2. DOMAIN hpmTarget.got = 1..HpmLength /\ \A i \in 1..HpmLength : hpmTarget.got[i] = i
          BY <3>4, <4>1, <5>1 DEF HpmUpTo, FwRight
        <5>3. hpmTarget.got = [i \in DOMAIN hpmTarget.got |-> hpmTarget.got[i]]
          BY <5>1
        <5> QED
          BY <5>2, <5>3 DEF HpmFile
      <4>3. HpmUploads(hpmUp.act) = HpmUploads(hpmUp.act - 1) \cup {<<hpmUp.act, HpmFile>>}
        <5>1. hpmUp.act - 1 \in Nat /\ (hpmUp.act - 1) + 1 = hpmUp.act
          BY <3>2
        <5> QED
          BY <3>2, <5>1, HpmUploadsNext
      <4>4. HpmGiven(hpmUp.act)'
        BY <2>4, <3>4, <4>1, <4>2, <4>3 DEF HpmGiven
      <4> QED
        BY <1>1, <2>1, <2>9, <3>1, <3>2, <3>4, <4>4 DEF HpmUnder, HpmRequests
    <3>5. CASE hpmTarget' = hpmTarget /\ r \in {"busy", "none"}
      BY <3>3, <3>5
    <3>6. CASE HpmRefuses(hpmTarget', q) /\ (q = r \/ r = "none")
      BY <3>3, <3>6 DEF HpmRefuses
    <3> QED
      BY <2>2, <2>9, <3>4, <3>5, <3>6 DEF HpmServes
  <2>10. CASE hpmReq = "activate"
    <3>1. HpmFor = "activate"
      BY <2>10 DEF HpmFor
    <3>2. hpmTarget'.images = hpmTarget.images
      BY <2>2, <2>10 DEF HpmServes
    <3>3. HpmGiven(Len(hpmCmd.actions))'
      BY <2>1, <2>4, <3>1, <3>2 DEF HpmUnder, HpmGiven
    <3>4. ASSUME HpmDid' PROVE HpmActive' \/ (HpmActing' /\ hpmAnswer' = "progress")
      <4>1. hpmAnswer' \in {"ok", "progress"} /\ r # "busy" /\ (r # "none" => hpmAnswer' = r) /\ (r = "none" => hpmAnswer' = "progress")
        BY <2>5, <2>10, <3>4
      <4>2. CASE HpmServes(hpmTarget', q) /\ (q = r \/ r = "none")
        <5>1. HpmRefuses(hpmTarget', q) \/ (hpmTarget'.stage = "activated" /\ hpmTarget'.last = q /\ q \in {"ok", "progress"})
          BY <2>10, <4>2 DEF HpmServes
        <5> QED
          BY <4>1, <4>2, <5>1 DEF HpmRefuses, HpmActive, HpmActing
      <4>3. CASE r \in {"busy", "none"} /\ (r = "none" /\ hpmReq = "activate" => "lost" \in hpmHist')
        BY <2>10, <4>1, <4>3 DEF HpmActive
      <4> QED
        BY <2>2, <4>2, <4>3
    <3> QED
      BY <1>1, <2>1, <2>10, <3>1, <3>3, <3>4 DEF HpmUnder, HpmRequests
  <2> QED
    BY <2>3, <2>6, <2>7, <2>8, <2>9, <2>10 DEF HpmRequests, HpmQueries
<1>9. hpmAt' \in {"send", "answer"}
  BY <1>4
<1> QED
  BY <1>6, <1>7, <1>8, <1>9 DEF HpmInv, HpmNow

(* What is left to show of a step that follows an answer: the upload goes  *)
(* on, or a block is made shorter.                                         *)
LEMMA HpmSteps ==
  ASSUME HpmInv, hpmAt \in {"check", "answer"}, hpmAt' \in {"send", "done"}, UNCHANGED <<hpmErr, hpmTarget, hpmCmd>>,
         HpmFits', hpmWait' \in [inacc : {hpmWait'.inacc}, polls : {hpmWait'.polls}, for : {hpmWait'.for}], HpmSure' => HpmNow'
  PROVE  HpmInv'
<1>1. HpmTypes /\ HpmLong
  BY DEF HpmInv
<1>4. HpmTypes'
  BY <1>1 DEF HpmTypes, HpmFits
<1>5. HpmLong'
  BY <1>1 DEF HpmLong, HpmFits
<1> QED
  BY <1>4, <1>5 DEF HpmInv

LEMMA HpmFitsKept == ASSUME HpmTypes, HpmLong, UNCHANGED <<hpmUp, hpmErr>> PROVE HpmFits'
BY DEF HpmTypes, HpmLong, HpmFits

(* What follows an answer keeps the upload within its bounds.              *)
LEMMA HpmAfterTypes ==
  ASSUME HpmTypes, HpmLong, HpmRoom, UNCHANGED hpmErr, NEW req, HpmAfter(req) \/ HpmFails(req) \/ HpmWaits(req)
  PROVE  HpmFits' /\ hpmAt' \in {"send", "done"} /\ hpmWait' \in [inacc : {hpmWait'.inacc}, polls : {hpmWait'.polls}, for : {hpmWait'.for}]
<1>1. CASE HpmSentBlock /\ \E q : HpmAsk(q)
  <2>1. HpmFits'
    <3>1. hpmErr \in Nat /\ hpmUp.buf + hpmErr >= HpmResize /\ hpmUp.buf < 256
      BY DEF HpmTypes, HpmLong
    <3> QED
      BY <1>1, <3>1, HpmSentTypes DEF HpmFits
  <2> QED
    BY <1>1, <2>1, HpmAsked
<1>2. CASE HpmfwupgUpgradeStage(hpmUp.act + 1)
  <2>1. hpmUp.act + 1 \in Nat
    BY DEF HpmTypes
  <2> QED
    BY <1>2, <2>1, HpmStageTypes
<1>3. CASE hpmUp' = hpmUp /\ \E q : HpmAsk(q) \/ HpmEnd(q) \/ HpmWaits(q)
  BY <1>3, HpmFitsKept, HpmAsked
<1>4. HpmWaits(req) => hpmUp' = hpmUp
  BY DEF HpmWaits
<1> QED
  BY <1>1, <1>2, <1>3, <1>4 DEF HpmAfter, HpmFails

LEMMA HpmAnswerUnder ==
  ASSUME HpmInv, hpmAt = "answer", HpmSure PROVE HpmUnder /\ hpmCmd.name = "upgrade"
BY DEF HpmInv, HpmNow, HpmSure

LEMMA HpmBeginKept == ASSUME HpmRoom, HpmInv, ipmi_hpmfwupg_main PROVE HpmInv'
<1>1. /\ HpmTypes /\ HpmLong /\ hpmAt = "new" /\ UNCHANGED <<hpmUp, hpmWait, hpmErr, hpmHist>>
      /\ hpmTarget.images = {} /\ hpmTarget.stage # "loading"
  BY DEF ipmi_hpmfwupg_main, HpmInv
<1>2. PICK l \in HpmLimits, g \in BOOLEAN : hpmTarget' = [hpmTarget EXCEPT !.limit = l, !.good = g]
  BY DEF ipmi_hpmfwupg_main
<1>3. l \in Nat /\ HpmResize <= l /\ hpmTarget'.limit = l /\ hpmTarget'.images = {} /\ hpmTarget'.stage # "loading"
  <2>1. l \in 1..255
    BY HpmNumbers
  <2>2. HpmResize <= l
    BY DEF HpmRoom
  <2>3. hpmTarget'.limit = l /\ hpmTarget'.images = {} /\ hpmTarget'.stage # "loading"
    BY <1>1, <1>2 DEF HpmTypes
  <2> QED
    BY <2>1, <2>2, <2>3
<1>7. hpmCmd' \in [name : {hpmCmd'.name}, activate : {hpmCmd'.activate}, actions : Seq({"prepare", "upload", "other"})]
  <2>1. PICK n, a, i : hpmCmd' = [name |-> n, activate |-> a, actions |-> i] /\ i \in HpmImages \cup {<<>>}
    BY DEF ipmi_hpmfwupg_main
  <2>2. i \in Seq({"prepare", "upload", "other"})
    <3>1. CASE i \in HpmImages
      BY <3>1, HpmNumbers
    <3>2. CASE i = <<>>
      BY <3>2
    <3> QED
      BY <2>1, <3>1, <3>2
  <2> QED
    BY <2>1, <2>2
<1>4. HpmTypes'
  BY <1>1, <1>2, <1>3, <1>7 DEF HpmTypes
<1>5. HpmLong'
  BY <1>1, <1>3 DEF HpmLong, ipmi_hpmfwupg_main
<1>6. hpmAt' = "check" \/ (hpmAt' = "send" /\ hpmCmd'.name # "upgrade")
  BY DEF ipmi_hpmfwupg_main
<1> QED
  BY <1>1, <1>3, <1>4, <1>5, <1>6 DEF HpmInv, HpmSure, HpmNow

LEMMA HpmEarlyKept ==
  ASSUME HpmRoom, HpmInv, HpmfwupgValidateImageIntegrity \/ HpmfwupgPreparationStage \/ HpmPrepareAction
  PROVE  HpmInv'
<1>0. HpmTypes /\ HpmLong
  BY DEF HpmInv
<1>1. CASE HpmfwupgValidateImageIntegrity
  <2>1. /\ hpmAt = "check" /\ UNCHANGED <<hpmErr, hpmTarget, hpmUp, hpmHist, hpmCmd>>
        /\ HpmAsk("devid") \/ HpmEnd(-1)
    BY <1>1 DEF HpmfwupgValidateImageIntegrity
  <2>2. HpmNow'
    <3>1. CASE HpmAsk("devid")
      <4>1. hpmAt' = "send" /\ hpmReq' = "devid"
        BY <3>1 DEF HpmAsk
      <4>2. HpmFor' = "devid"
        BY <4>1 DEF HpmFor
      <4>3. HpmUploads(0)' = {}
        BY <2>1, HpmUploadsNone DEF HpmUploads
      <4>4. HpmGiven(0)' /\ hpmTarget'.stage # "loading"
        BY <2>1, <4>3 DEF HpmInv, HpmGiven
      <4> QED
        BY <4>1, <4>2, <4>4 DEF HpmNow, HpmUnder, HpmRequests
    <3>2. CASE HpmEnd(-1)
      BY <3>2 DEF HpmEnd, HpmNow
    <3> QED
      BY <2>1, <3>1, <3>2
  <2> QED
    BY <1>0, <2>1, <2>2, HpmSteps, HpmFitsKept, HpmAsked
<1>2. CASE HpmfwupgPreparationStage
  <2>1. /\ hpmAt = "answer" /\ hpmReq \in {"devid", "cap"} /\ UNCHANGED <<hpmErr, hpmTarget, hpmHist, hpmCmd>>
        /\ \/ hpmUp' = hpmUp /\ HpmAsk("cap")
           \/ hpmUp' = hpmUp /\ HpmEnd(-1)
           \/ HpmfwupgUpgradeStage(1)
    BY <1>2 DEF HpmfwupgPreparationStage, HpmGot
  <2>2. ASSUME HpmSure' PROVE HpmGiven(0) /\ hpmTarget.stage # "loading"
    <3>1. HpmSure /\ HpmFor = hpmReq
      BY <2>1, <2>2 DEF HpmSure, HpmFor
    <3> QED
      BY <2>1, <3>1, HpmAnswerUnder DEF HpmUnder
  <2>3. CASE hpmUp' = hpmUp /\ HpmAsk("cap")
    <3>1. hpmAt' = "send" /\ hpmReq' = "cap"
      BY <2>3 DEF HpmAsk
    <3>2. HpmFor' = "cap" /\ (HpmGiven(0) => HpmGiven(0)')
      BY <2>1, <3>1 DEF HpmFor, HpmGiven, HpmUploads
    <3>3. HpmSure' => HpmNow'
      BY <2>1, <2>2, <3>1, <3>2 DEF HpmNow, HpmUnder, HpmRequests
    <3> QED
      BY <1>0, <2>1, <2>3, <3>3, HpmSteps, HpmFitsKept, HpmAsked
  <2>4. CASE hpmUp' = hpmUp /\ HpmEnd(-1)
    <3>1. HpmNow'
      BY <2>4 DEF HpmEnd, HpmNow
    <3> QED
      BY <1>0, <2>1, <2>4, <3>1, HpmSteps, HpmFitsKept, HpmAsked
  <2>5. CASE HpmfwupgUpgradeStage(1)
    <3>1. HpmfwupgUpgradeStage(0 + 1) /\ 0 <= Len(hpmCmd.actions)
      BY <1>0, <2>5 DEF HpmTypes
    <3>2. HpmSure' => HpmNow'
      BY <1>0, <2>1, <2>2, <3>1, HpmStageKept
    <3>3. HpmFits' /\ hpmAt' \in {"send", "done"} /\ hpmWait' \in [inacc : {hpmWait'.inacc}, polls : {hpmWait'.polls}, for : {hpmWait'.for}]
      BY <1>0, <2>1, <2>5, HpmStageTypes
    <3> QED
      BY <2>1, <3>2, <3>3, HpmSteps
  <2> QED
    BY <2>1, <2>3, <2>4, <2>5
<1>3. CASE HpmPrepareAction
  <2>1. /\ hpmAt = "answer" /\ hpmReq = "prop" /\ UNCHANGED <<hpmErr, hpmTarget, hpmHist, hpmCmd>>
        /\ HpmAsk("prop") \/ HpmAsk("prepare") \/ HpmEnd(-1)
        /\ hpmUp' = hpmUp \/ hpmUp' = [hpmUp EXCEPT !.comp = @ + 1]
    BY <1>3 DEF HpmPrepareAction, HpmGot
  <2>2. HpmFits' /\ hpmUp'.act = hpmUp.act
    <3>1. CASE hpmUp' = hpmUp
      BY <1>0, <2>1, <3>1, HpmFitsKept
    <3>2. CASE hpmUp' = [hpmUp EXCEPT !.comp = @ + 1]
      <4> DEFINE c == hpmUp.comp + 1
      <4>1. hpmUp' = [hpmUp EXCEPT !.comp = c]
        BY <3>2
      <4> HIDE DEF c
      <4>2. /\ hpmUp \in [act : Nat, comp : {hpmUp.comp}, pos : Nat, buf : Nat, block : Nat]
            /\ hpmUp.pos <= HpmLength /\ hpmUp.buf < 256 /\ hpmUp.block < 256 /\ hpmUp.buf + hpmErr >= HpmResize
        BY <1>0 DEF HpmTypes, HpmLong
      <4>3. hpmUp' = [act |-> hpmUp.act, comp |-> c, pos |-> hpmUp.pos, buf |-> hpmUp.buf, block |-> hpmUp.block]
        BY <4>1, <4>2
      <4> QED
        BY <2>1, <4>2, <4>3 DEF HpmFits
    <3> QED
      BY <2>1, <3>1, <3>2
  <2>3. ASSUME HpmSure' PROVE HpmNow'
    <3>1. HpmUnder /\ HpmFor = "prop"
      BY <2>1, <2>3, HpmAnswerUnder DEF HpmSure, HpmFor
    <3>2. hpmTarget.stage # "loading" /\ hpmUp.act \in 1..Len(hpmCmd.actions) /\ HpmGiven(hpmUp.act)'
      BY <2>1, <2>2, <3>1 DEF HpmUnder, HpmGiven, HpmUploads
    <3>3. CASE hpmAt' = "send" /\ hpmReq' \in {"prop", "prepare"}
      <4>1. HpmFor' = hpmReq' /\ ~HpmDid'
        BY <3>3 DEF HpmFor, HpmDid
      <4> QED
        BY <2>1, <2>2, <3>2, <3>3, <4>1 DEF HpmNow, HpmUnder, HpmRequests
    <3>4. CASE hpmAt' = "done" /\ hpmRc' = -1
      BY <3>4 DEF HpmNow
    <3> QED
      BY <2>1, <3>3, <3>4 DEF HpmAsk, HpmEnd
  <2> QED
    BY <1>0, <2>1, <2>2, <2>3, HpmSteps, HpmAsked
<1> QED
  BY <1>1, <1>2, <1>3

LEMMA HpmAnswersKept ==
  ASSUME HpmRoom, HpmInv, NEW req \in {"prepare", "block", "finish", "activate"}, HpmGot(req), hpmHist' = hpmHist,
         \/ HpmAnswered(req)
         \/ req = "block" /\ hpmAnswer = "cc" /\ HpmAfter(req)
         \/ req = "block" /\ hpmAnswer = "c7" /\ hpmUp' = [hpmUp EXCEPT !.buf = (@ - 1) % 256] /\ HpmAsk("block")
  PROVE  HpmInv'
<1>1. /\ hpmAt = "answer" /\ hpmReq = req /\ UNCHANGED <<hpmErr, hpmTarget, hpmCmd, hpmHist>> /\ HpmTypes /\ HpmLong
      /\ HpmFor = req
  BY DEF HpmGot, HpmInv, HpmFor
<1>2. ASSUME HpmSure' PROVE HpmUnder /\ hpmCmd.name = "upgrade"
  <2>1. HpmSure
    BY <1>1, <1>2 DEF HpmSure
  <2> QED
    BY <1>1, <2>1, HpmAnswerUnder
<1>3. CASE hpmAnswer = "progress" /\ HpmWaits(req)
  <2>1. HpmDid
    BY <1>1, <1>3 DEF HpmDid
  <2>2. HpmSure' => HpmNow'
    BY <1>1, <1>2, <1>3, <2>1, HpmWaitsKept
  <2> QED
    BY <1>1, <1>3, <2>2, HpmSteps, HpmAfterTypes
<1>4. CASE (hpmAnswer = "ok" \/ (req = "block" /\ hpmAnswer = "cc")) /\ HpmAfter(req)
  <2>1. HpmDid
    BY <1>1, <1>4 DEF HpmDid
  <2>2. ASSUME HpmSure' PROVE HpmNow'
    <3>1. HpmUnder /\ hpmCmd.name = "upgrade"
      BY <1>2, <2>2
    <3>2. req = "activate" => HpmActive
      BY <1>1, <1>4, <2>1, <3>1 DEF HpmUnder
    <3> QED
      BY <1>1, <1>4, <2>1, <3>1, <3>2, HpmAfterKept
  <2> QED
    BY <1>1, <1>4, <2>2, HpmSteps, HpmAfterTypes
<1>5. CASE req = "block" /\ hpmAnswer = "c7" /\ hpmUp' = [hpmUp EXCEPT !.buf = (@ - 1) % 256] /\ HpmAsk("block")
  <2>1. hpmAt' = "send" /\ hpmReq' = "block"
    BY <1>5 DEF HpmAsk
  <2>2. /\ hpmUp'.pos = hpmUp.pos /\ hpmUp'.block = hpmUp.block /\ hpmUp'.buf = hpmUp.buf - 1 /\ hpmUp.buf > 0
        /\ hpmUp'.act = hpmUp.act /\ HpmFits'
    <3>0. hpmUp \in [act : Nat, comp : {hpmUp.comp}, pos : Nat, buf : Nat, block : Nat]
      BY <1>1 DEF HpmTypes
    <3>1. hpmUp.buf + hpmErr > HpmResize /\ hpmErr <= HpmResize /\ hpmErr \in Nat /\ HpmResize \in Nat
      BY <1>1, <1>5, HpmNumbersOf DEF HpmInv, HpmLong, HpmTypes
    <3>2. hpmUp.buf - 1 \in Nat /\ hpmUp.buf - 1 < 256 /\ hpmUp.buf > 0 /\ (hpmUp.buf - 1) + hpmErr >= HpmResize
      BY <1>1, <3>1, HpmNumbersOf, SMTT(30)
    <3>3. (hpmUp.buf - 1) % 256 = hpmUp.buf - 1
      BY <3>2, HpmMod
    <3> DEFINE b == hpmUp.buf - 1
    <3>4. hpmUp' = [hpmUp EXCEPT !.buf = b] /\ b \in Nat /\ b < 256 /\ b + hpmErr >= HpmResize
      BY <1>5, <3>2, <3>3
    <3> HIDE DEF b
    <3>5. hpmUp' = [act |-> hpmUp.act, comp |-> hpmUp.comp, pos |-> hpmUp.pos, buf |-> b, block |-> hpmUp.block]
      BY <3>0, <3>4
    <3>6. hpmUp.pos <= HpmLength /\ hpmUp.block < 256
      BY <1>1 DEF HpmTypes
    <3>7. HpmFits'
      BY <1>1, <3>0, <3>4, <3>5, <3>6 DEF HpmFits
    <3> QED
      BY <3>2, <3>5, <3>7 DEF b
  <2>3. ASSUME HpmSure' PROVE HpmNow'
    <3>1. HpmFor' = "block" /\ ~HpmDid'
      BY <2>1 DEF HpmFor, HpmDid
    <3>2. /\ HpmTaken \/ HpmWanted
          /\ hpmUp.act \in 1..Len(hpmCmd.actions) /\ hpmCmd.actions[hpmUp.act] = "upload" /\ HpmGiven(hpmUp.act - 1)
      BY <1>1, <1>2, <1>5, <2>3 DEF HpmUnder
    <3>3. (HpmWanted => HpmWanted') /\ HpmGiven(hpmUp.act - 1)'
      BY <1>1, <2>2, <3>2 DEF HpmWanted, HpmUpTo, HpmGiven, HpmUploads
    <3>4. HpmTaken => HpmTaken'
      <4>1. HpmBlock' <= HpmBlock /\ HpmBlock' \in Nat
        BY <1>1, <2>2, HpmNumbersOf, SMTT(30) DEF HpmBlock
      <4>2. HpmUpTo(hpmUp.pos + HpmBlock) => HpmUpTo(hpmUp.pos + HpmBlock')
        BY <1>1, <4>1, HpmNumbersOf DEF HpmUpTo
      <4> QED
        BY <1>1, <2>2, <4>2 DEF HpmTaken, HpmUpTo
    <3> QED
      BY <1>1, <2>1, <2>2, <3>1, <3>2, <3>3, <3>4 DEF HpmNow, HpmUnder, HpmRequests
  <2> QED
    BY <1>1, <1>5, <2>1, <2>2, <2>3, HpmSteps, HpmAsked
<1>6. CASE HpmFails(req)
  <2>1. HpmSure' => HpmNow'
    BY <1>1, <1>2, <1>6, HpmFailsKept
  <2> QED
    BY <1>1, <1>6, <2>1, HpmSteps, HpmAfterTypes
<1> QED
  BY <1>3, <1>4, <1>5, <1>6 DEF HpmAnswered

LEMMA HpmRequestsKept ==
  ASSUME HpmRoom, HpmInv,
         HpmfwupgPrepareComponents \/ HpmfwupgUploadFirmwareBlock \/ HpmfwupgFinishFirmwareUpload \/ HpmfwupgActivateFirmware
  PROVE  HpmInv'
<1>1. CASE HpmfwupgPrepareComponents
  BY <1>1, HpmAnswersKept DEF HpmfwupgPrepareComponents
<1>2. CASE HpmfwupgUploadFirmwareBlock
  BY <1>2, HpmAnswersKept DEF HpmfwupgUploadFirmwareBlock
<1>3. CASE HpmfwupgFinishFirmwareUpload
  BY <1>3, HpmAnswersKept DEF HpmfwupgFinishFirmwareUpload
<1>4. CASE HpmfwupgActivateFirmware
  BY <1>4, HpmAnswersKept DEF HpmfwupgActivateFirmware
<1> QED
  BY <1>1, <1>2, <1>3, <1>4

LEMMA HpmEndsKept ==
  ASSUME HpmInv, HpmfwupgQuerySelftestResult \/ HpmfwupgManualFirmwareRollback \/ HpmfwupgQueryRollbackStatus
  PROVE  HpmInv'
<1>1. /\ hpmAt = "answer" /\ hpmReq \in {"selftest", "rollback", "rollstat"}
      /\ UNCHANGED <<hpmErr, hpmTarget, hpmUp, hpmHist, hpmCmd>> /\ HpmTypes /\ HpmLong
      /\ \E q : HpmAsk(q) \/ HpmPoll(q) \/ HpmEnd(q)
      /\ \/ hpmAt' = "send" /\ hpmReq' = "rollstat"
         \/ hpmAt' = "send" /\ hpmReq' = "selftest" /\ hpmReq = "selftest"
         \/ hpmAt' = "done" /\ hpmReq' = hpmReq
  BY DEF HpmfwupgQuerySelftestResult, HpmfwupgManualFirmwareRollback, HpmfwupgQueryRollbackStatus, HpmGot, HpmAsk, HpmPoll, HpmEnd,
         HpmFails, HpmInv
<1>3. ASSUME HpmSure' PROVE HpmNow'
  <2>1. HpmUnder
    BY <1>1, <1>3, HpmAnswerUnder DEF HpmSure
  <2>2. hpmReq \in {"selftest", "rollstat"} /\ HpmFor = hpmReq
    BY <1>1, <2>1 DEF HpmUnder, HpmRequests, HpmFor
  <2>3. HpmGiven(Len(hpmCmd.actions))' /\ (hpmReq = "selftest" => HpmActive')
    BY <1>1, <2>1, <2>2 DEF HpmUnder, HpmGiven, HpmUploads, HpmActive
  <2>4. hpmAt' = "send" => HpmFor' = hpmReq' /\ hpmReq' # "status"
    BY <1>1 DEF HpmFor
  <2> QED
    BY <1>1, <2>2, <2>3, <2>4 DEF HpmNow, HpmUnder, HpmRequests
<1> QED
  BY <1>1, <1>3, HpmSteps, HpmFitsKept, HpmAsked

LEMMA HpmStatusKept == ASSUME HpmRoom, HpmInv, HpmfwupgWaitLongDurationCmd PROVE HpmInv'
<1>1. /\ hpmAt = "answer" /\ hpmReq = "status" /\ UNCHANGED <<hpmErr, hpmTarget, hpmCmd>> /\ HpmTypes /\ HpmLong
      /\ HpmFor = hpmWait.for /\ HpmDid
  BY DEF HpmfwupgWaitLongDurationCmd, HpmGot, HpmInv, HpmFor, HpmDid
<1>2. PICK s \in HpmStatus :
        IF HpmPollsOn(s) THEN HpmPoll("status") /\ UNCHANGED hpmUp
        ELSE IF s = "ok" THEN HpmAfter(hpmWait.for) ELSE HpmFails(hpmWait.for)
  BY DEF HpmfwupgWaitLongDurationCmd
<1>3. ASSUME HpmSure'
      PROVE  /\ hpmHist' = hpmHist /\ HpmUnder /\ hpmCmd.name = "upgrade" /\ s = hpmTarget.last
             /\ hpmWait.for \in {"prepare", "block", "finish", "activate"}
  <2>1. hpmHist' = hpmHist /\ hpmAnswer = "ok"
    BY <1>3 DEF HpmSure, HpmfwupgWaitLongDurationCmd
  <2>2. HpmUnder /\ hpmCmd.name = "upgrade"
    BY <1>1, <1>3, <2>1, HpmAnswerUnder DEF HpmSure
  <2>3. s = hpmTarget.last
    BY <2>1 DEF HpmStatus
  <2> QED
    BY <1>1, <2>1, <2>2, <2>3 DEF HpmUnder
<1>4. CASE HpmPollsOn(s)
  <2>1. hpmAt' = "send" /\ hpmReq' = "status" /\ hpmUp' = hpmUp /\ HpmPoll("status")
    BY <1>2, <1>4 DEF HpmPoll
  <2>2. hpmWait'.for = hpmWait.for
    BY <1>1, <2>1, HpmAsked
  <2>4. ASSUME HpmSure' PROVE HpmNow'
    <3>1. HpmFor' = HpmFor /\ HpmFor \in {"prepare", "block", "finish", "activate"} /\ HpmDid'
      BY <1>1, <1>3, <2>1, <2>2, <2>4 DEF HpmFor, HpmDid
    <3>2. /\ HpmTaken => HpmTaken'
          /\ HpmActive => HpmActive'
          /\ HpmActing => HpmActing'
          /\ HpmGiven(hpmUp.act) => HpmGiven(hpmUp.act)'
          /\ HpmGiven(hpmUp.act - 1) => HpmGiven(hpmUp.act - 1)'
          /\ HpmGiven(Len(hpmCmd.actions)) => HpmGiven(Len(hpmCmd.actions))'
      BY <1>1, <1>3, <2>1, <2>4 DEF HpmTaken, HpmActive, HpmActing, HpmUpTo, HpmBlock, HpmGiven, HpmUploads
    <3> QED
      BY <1>1, <1>3, <2>1, <2>4, <3>1, <3>2 DEF HpmNow, HpmUnder, HpmRequests
  <2> QED
    BY <1>1, <2>1, <2>4, HpmSteps, HpmFitsKept, HpmAsked
<1>5. CASE ~HpmPollsOn(s) /\ s = "ok"
  <2>1. HpmAfter(hpmWait.for)
    BY <1>2, <1>5
  <2>3. ASSUME HpmSure' PROVE HpmNow'
    <3>1. /\ hpmHist' = hpmHist /\ HpmUnder /\ hpmCmd.name = "upgrade" /\ hpmTarget.last = "ok"
          /\ hpmWait.for \in {"prepare", "block", "finish", "activate"}
      BY <1>3, <1>5, <2>3
    <3>2. hpmWait.for = "activate" => HpmActive
      BY <1>1, <3>1 DEF HpmUnder, HpmActing
    <3> QED
      BY <1>1, <2>1, <3>1, <3>2, HpmAfterKept
  <2> QED
    BY <1>1, <2>1, <2>3, HpmSteps, HpmAfterTypes
<1>6. CASE ~HpmPollsOn(s) /\ s # "ok"
  <2>1. HpmFails(hpmWait.for)
    BY <1>2, <1>6
  <2>3. HpmSure' => HpmNow'
    BY <1>1, <1>3, <2>1, HpmFailsKept
  <2> QED
    BY <1>1, <2>1, <2>3, HpmSteps, HpmAfterTypes
<1> QED
  BY <1>4, <1>5, <1>6

LEMMA HpmTargetKept == ASSUME HpmInv, HpmTargetFinishes \/ HpmTargetBusy PROVE HpmInv'
<1>1. UNCHANGED <<hpmCmd, hpmAt, hpmReq, hpmAnswer, hpmUp, hpmWait, hpmErr, hpmRc, hpmHist>> /\ HpmTypes /\ HpmLong
  BY DEF HpmTargetFinishes, HpmTargetBusy, HpmInv
<1>2. PICK l, s, b : /\ hpmTarget' = [hpmTarget EXCEPT !.last = l, !.stage = s, !.busy = b]
                     /\ \/ l = hpmTarget.last /\ s = hpmTarget.stage
                        \/ hpmTarget.last = "progress" /\ l = "ok" /\ s = hpmTarget.stage
                        \/ hpmTarget.last = "progress" /\ l = "error" /\ s = (IF hpmTarget.stage = "activated" THEN "rolledback" ELSE hpmTarget.stage)
  <2>1. CASE HpmTargetFinishes /\ hpmTarget' = [hpmTarget EXCEPT !.last = "ok"]
    <3>1. hpmTarget' = [hpmTarget EXCEPT !.last = "ok", !.stage = hpmTarget.stage, !.busy = hpmTarget.busy]
      BY <1>1, <2>1 DEF HpmTypes
    <3> QED
      BY <2>1, <3>1 DEF HpmTargetFinishes
  <2>2. CASE HpmTargetFinishes /\ hpmTarget' = [hpmTarget EXCEPT !.last = "error", !.stage = IF @ = "activated" THEN "rolledback" ELSE @]
    <3> DEFINE s == IF hpmTarget.stage = "activated" THEN "rolledback" ELSE hpmTarget.stage
    <3>1. hpmTarget' = [hpmTarget EXCEPT !.last = "error", !.stage = s]
      BY <2>2
    <3> HIDE DEF s
    <3>2. hpmTarget' = [hpmTarget EXCEPT !.last = "error", !.stage = s, !.busy = hpmTarget.busy]
      BY <1>1, <3>1 DEF HpmTypes
    <3> QED
      BY <2>2, <3>2 DEF HpmTargetFinishes, s
  <2>3. CASE HpmTargetBusy
    <3>1. hpmTarget' = [hpmTarget EXCEPT !.busy = ~hpmTarget.busy]
      BY <2>3 DEF HpmTargetBusy
    <3>2. hpmTarget' = [hpmTarget EXCEPT !.last = hpmTarget.last, !.stage = hpmTarget.stage, !.busy = ~hpmTarget.busy]
      BY <1>1, <3>1 DEF HpmTypes
    <3> QED
      BY <3>2
  <2> QED
    BY <2>1, <2>2, <2>3 DEF HpmTargetFinishes
<1>3. /\ HpmTypes' /\ UNCHANGED <<hpmTarget.got, hpmTarget.next, hpmTarget.limit, hpmTarget.images, hpmTarget.good>>
      /\ hpmTarget'.last = l /\ hpmTarget'.stage = s
  <2>1. hpmTarget' = [stage |-> s, got |-> hpmTarget.got, next |-> hpmTarget.next, last |-> l, limit |-> hpmTarget.limit,
                      busy |-> b, good |-> hpmTarget.good, images |-> hpmTarget.images]
    BY <1>1, <1>2 DEF HpmTypes
  <2> QED
    BY <1>1, <2>1 DEF HpmTypes
<1>4. HpmLong'
  BY <1>1, <1>3 DEF HpmLong
<1>5. /\ hpmTarget.stage = "loading" <=> hpmTarget'.stage = "loading"
      /\ hpmTarget.stage = "uploaded" <=> hpmTarget'.stage = "uploaded"
      /\ HpmActive => HpmActive'
      /\ HpmActing => HpmActive' \/ HpmActing'
  BY <1>1, <1>2, <1>3 DEF HpmActive, HpmActing
<1>6. /\ HpmTaken <=> HpmTaken'
      /\ HpmWanted <=> HpmWanted'
      /\ HpmUpTo(HpmLength) <=> HpmUpTo(HpmLength)'
      /\ HpmGiven(0) <=> HpmGiven(0)'
      /\ HpmGiven(hpmUp.act) <=> HpmGiven(hpmUp.act)'
      /\ HpmGiven(hpmUp.act - 1) <=> HpmGiven(hpmUp.act - 1)'
      /\ HpmGiven(Len(hpmCmd.actions)) <=> HpmGiven(Len(hpmCmd.actions))'
  BY <1>1, <1>3, <1>5 DEF HpmTaken, HpmWanted, HpmUpTo, HpmBlock, HpmGiven, HpmUploads
<1>7. HpmFor' = HpmFor /\ (HpmDid' <=> HpmDid)
  BY <1>1 DEF HpmFor, HpmDid
<1>8. HpmNow => HpmNow'
  BY <1>1, <1>5, <1>6, <1>7 DEF HpmNow, HpmUnder
<1> QED
  BY <1>1, <1>3, <1>4, <1>5, <1>8 DEF HpmInv, HpmSure

LEMMA HpmInvStep == ASSUME HpmRoom, HpmInv, [HpmNext]_hpmVars PROVE HpmInv'
<1>1. CASE ipmi_hpmfwupg_main
  BY <1>1, HpmBeginKept
<1>2. CASE HpmfwupgValidateImageIntegrity \/ HpmfwupgPreparationStage \/ HpmPrepareAction
  BY <1>2, HpmEarlyKept
<1>3. CASE HpmSend
  BY <1>3, HpmSendKept
<1>4. CASE HpmfwupgPrepareComponents \/ HpmfwupgUploadFirmwareBlock \/ HpmfwupgFinishFirmwareUpload \/ HpmfwupgActivateFirmware
  BY <1>4, HpmRequestsKept
<1>5. CASE HpmfwupgQuerySelftestResult \/ HpmfwupgManualFirmwareRollback \/ HpmfwupgQueryRollbackStatus
  BY <1>5, HpmEndsKept
<1>6. CASE HpmfwupgWaitLongDurationCmd
  BY <1>6, HpmStatusKept
<1>7. CASE HpmTargetFinishes \/ HpmTargetBusy
  BY <1>7, HpmTargetKept
<1>8. CASE UNCHANGED hpmVars
  BY <1>8 DEF hpmVars, HpmInv, HpmTypes, HpmLong, HpmSure, HpmNow, HpmUnder, HpmFor, HpmDid, HpmTaken, HpmWanted, HpmGiven,
              HpmUploads, HpmActive, HpmActing, HpmUpTo, HpmBlock
<1> QED
  BY <1>1, <1>2, <1>3, <1>4, <1>5, <1>6, <1>7, <1>8 DEF HpmNext, HpmStep

LEMMA HpmLooksStep == ASSUME HpmInv, HpmLooks, [HpmNext]_hpmVars PROVE HpmLooks'
<1>1. CASE ipmi_hpmfwupg_main
  <2>1. hpmAt = "new" /\ hpmHist' = hpmHist /\ (hpmAt' = "check" \/ (hpmAt' = "send" /\ hpmCmd'.name # "upgrade"))
    BY <1>1 DEF ipmi_hpmfwupg_main
  <2> QED
    BY <2>1 DEF HpmLooks, HpmUntouched
<1>2. CASE HpmSend
  <2>1. hpmAt = "send" /\ UNCHANGED <<hpmCmd, hpmReq>> /\ HpmTypes
    BY <1>2 DEF HpmSend, HpmInv
  <2>2. hpmAt' \in {"send", "answer"}
    <3>1. PICK r : HpmfwupgSendCmd(r)
      BY <1>2 DEF HpmSend
    <3> QED
      BY <2>1, <3>1 DEF HpmfwupgSendCmd
  <2>3. \/ hpmTarget' = hpmTarget /\ (hpmHist' = hpmHist \/ hpmHist' = hpmHist \cup (IF hpmReq = "activate" THEN {"lost"} ELSE {}))
        \/ \E o \in {"ok", "progress", "error"} :
              /\ hpmTarget' = HpmDoes(hpmTarget, o)[1]
              /\ hpmHist' = IF hpmTarget' # hpmTarget THEN hpmHist \cup {"sent"} ELSE hpmHist
    <3>1. CASE UNCHANGED <<hpmTarget, hpmFaults, hpmHist>>
      BY <3>1
    <3>2. ASSUME NEW o \in {"ok", "progress", "error"}, hpmTarget' = HpmDoes(hpmTarget, o)[1],
                 hpmHist' = IF HpmDoes(hpmTarget, o)[1] # hpmTarget THEN hpmHist \cup {"sent"} ELSE hpmHist
          PROVE  \E p \in {"ok", "progress", "error"} :
                   /\ hpmTarget' = HpmDoes(hpmTarget, p)[1]
                   /\ hpmHist' = IF hpmTarget' # hpmTarget THEN hpmHist \cup {"sent"} ELSE hpmHist
      BY <3>2
    <3>3. CASE hpmTarget' = hpmTarget /\ hpmHist' = hpmHist \cup (IF hpmReq = "activate" THEN {"lost"} ELSE {})
      BY <3>3
    <3> QED
      BY <1>2, <3>1, <3>2, <3>3 DEF HpmSend
  <2>4. hpmTarget' = hpmTarget => ("sent" \in hpmHist' => "sent" \in hpmHist)
    BY <2>3
  <2>5. hpmTarget'.good = hpmTarget.good /\ (hpmReq \in {"devid", "cap"} => hpmTarget' = hpmTarget)
    <3>1. CASE hpmTarget' = hpmTarget
      BY <3>1
    <3>2. ASSUME NEW o \in {"ok", "progress", "error"}, hpmTarget' = HpmDoes(hpmTarget, o)[1]
          PROVE  hpmTarget'.good = hpmTarget.good /\ (hpmReq \in {"devid", "cap"} => hpmTarget' = hpmTarget)
      <4>1. HpmServes(hpmTarget', HpmDoes(hpmTarget, o)[2])
        BY <2>1, <3>2, HpmServed
      <4> QED
        BY <4>1 DEF HpmServes, HpmQueries
    <3> QED
      BY <2>3, <3>1, <3>2
  <2> QED
    BY <2>1, <2>2, <2>4, <2>5 DEF HpmLooks, HpmUntouched
<1>3. CASE HpmTargetFinishes \/ HpmTargetBusy
  <2>1. UNCHANGED <<hpmCmd, hpmAt, hpmReq, hpmHist>> /\ HpmTypes
    BY <1>3 DEF HpmTargetFinishes, HpmTargetBusy, HpmInv
  <2>2. \E l, t, b : \/ hpmTarget' = [hpmTarget EXCEPT !.last = l]
                      \/ hpmTarget' = [hpmTarget EXCEPT !.last = l, !.stage = t]
                      \/ hpmTarget' = [hpmTarget EXCEPT !.busy = b]
    BY <1>3 DEF HpmTargetFinishes, HpmTargetBusy
  <2>3. hpmTarget'.good = hpmTarget.good
    BY <2>1, <2>2 DEF HpmTypes
  <2> QED
    BY <2>1, <2>3 DEF HpmLooks, HpmUntouched
<1>4. CASE UNCHANGED hpmVars
  BY <1>4 DEF hpmVars, HpmLooks, HpmUntouched
<1>5. CASE HpmfwupgValidateImageIntegrity
  BY <1>5 DEF HpmfwupgValidateImageIntegrity, HpmAsk, HpmEnd, HpmLooks, HpmUntouched
<1>6. ASSUME hpmAt = "answer", hpmAt' \in {"send", "done"}, UNCHANGED <<hpmCmd, hpmTarget>>, "sent" \in hpmHist' => "sent" \in hpmHist,
             hpmAt' = "send" /\ hpmReq \in {"devid", "cap"} => hpmTarget.good \/ hpmReq' \in {"devid", "cap"}
      PROVE  HpmLooks'
  BY <1>6 DEF HpmLooks, HpmUntouched
<1>7. CASE HpmfwupgPreparationStage
  <2>1. /\ hpmAt = "answer" /\ hpmAt' \in {"send", "done"} /\ UNCHANGED <<hpmCmd, hpmTarget, hpmHist>>
        /\ hpmAt' = "send" => hpmTarget.good \/ hpmReq' = "cap"
    BY <1>7 DEF HpmfwupgPreparationStage, HpmGot, HpmAsk, HpmEnd, HpmfwupgUpgradeStage
  <2> QED
    BY <1>6, <2>1
<1>8. CASE HpmPrepareAction \/ HpmfwupgPrepareComponents \/ HpmfwupgUploadFirmwareBlock \/ HpmfwupgFinishFirmwareUpload \/ HpmfwupgActivateFirmware
           \/ HpmfwupgQuerySelftestResult \/ HpmfwupgManualFirmwareRollback \/ HpmfwupgQueryRollbackStatus
  <2>1. hpmAt = "answer" /\ UNCHANGED <<hpmCmd, hpmTarget, hpmHist>> /\ hpmReq \notin {"devid", "cap"}
    BY <1>8 DEF HpmPrepareAction, HpmfwupgPrepareComponents, HpmfwupgUploadFirmwareBlock, HpmfwupgFinishFirmwareUpload, HpmfwupgActivateFirmware,
                HpmfwupgQuerySelftestResult, HpmfwupgManualFirmwareRollback, HpmfwupgQueryRollbackStatus, HpmGot
  <2>2. hpmAt' \in {"send", "done"}
    BY <1>8 DEF HpmPrepareAction, HpmfwupgPrepareComponents, HpmfwupgUploadFirmwareBlock, HpmfwupgFinishFirmwareUpload, HpmfwupgActivateFirmware,
                HpmfwupgQuerySelftestResult, HpmfwupgManualFirmwareRollback, HpmfwupgQueryRollbackStatus, HpmAsk, HpmEnd, HpmPoll, HpmWaits,
                HpmAnswered, HpmAfter, HpmFails, HpmfwupgUpgradeStage
  <2> QED
    BY <1>6, <2>1, <2>2
<1>9. CASE HpmfwupgWaitLongDurationCmd
  <2>1. hpmAt = "answer" /\ UNCHANGED <<hpmCmd, hpmTarget>> /\ hpmReq \notin {"devid", "cap"} /\ ("sent" \in hpmHist' => "sent" \in hpmHist)
    BY <1>9 DEF HpmfwupgWaitLongDurationCmd, HpmGot
  <2>2. hpmAt' \in {"send", "done"}
    BY <1>9 DEF HpmfwupgWaitLongDurationCmd, HpmAsk, HpmPoll, HpmEnd, HpmAfter, HpmFails, HpmfwupgUpgradeStage
  <2> QED
    BY <1>6, <2>1, <2>2
<1> QED
  BY <1>1, <1>2, <1>3, <1>4, <1>5, <1>7, <1>8, <1>9 DEF HpmNext, HpmStep

(* An upgrade by HPM.1 that reports success has left the bytes of every    *)
(* upload action of the file on the target, each once and in order, and    *)
(* activated them, unless the activation got lost, a status could not be   *)
(* had or the success reported is that of the question about the rollback; *)
(* and a target the image does not fit is sent nothing that changes it.    *)
THEOREM UpgradeSafe == HpmRoom => (CmdSpec => []HpmSafe)
<1> SUFFICES ASSUME HpmRoom PROVE CmdSpec => []HpmSafe
  OBVIOUS
<1>1. CmdInit => HpmInv /\ HpmLooks
  <2>1. HpmInit => HpmLooks
    BY DEF HpmInit, HpmLooks, HpmUntouched
  <2> QED
    BY <2>1, HpmInvInit DEF CmdInit
<1>2. HpmInv /\ HpmLooks /\ [CmdNext]_cmdVars => HpmInv' /\ HpmLooks'
  BY CmdMoves, HpmInvStep, HpmLooksStep
<1>3. HpmInv /\ HpmLooks => HpmSafe
  <2> SUFFICES ASSUME HpmInv, HpmLooks, HpmSuccess
               PROVE  /\ HpmGiven(Len(hpmCmd.actions))
                      /\ hpmCmd.activate /\ hpmReq # "rollstat" => hpmTarget.stage = "activated" \/ "lost" \in hpmHist
    BY DEF HpmSafe, HpmLooks, HpmSuccessTrue, HpmGiven
  <2>1. HpmGiven(Len(hpmCmd.actions)) /\ (hpmCmd.activate /\ hpmReq # "rollstat" => HpmActive)
    BY DEF HpmInv, HpmSure, HpmNow, HpmSuccess
  <2> QED
    BY <2>1 DEF HpmActive
<1> QED
  BY <1>1, <1>2, <1>3, PTL DEF CmdSpec
-----------------------------------------------------------------------------
(* Inventory. Where a command is and what it is about to do; a device that *)
(* counts in words is asked from even offsets, or from its end.            *)
FruEven(n) == n % 2 = 0
FruTypes ==
  /\ fruDev \in [kind : [words : BOOLEAN, limit : Nat, real : 0..FruSize], data : [1..FruSize -> Int]]
  /\ FruKind.words => FruEven(FruKind.real)
  /\ fruBuf \in [1..FruSize -> Int] /\ fruRd \in [from : Nat, off : Nat, finish : Nat, for : {"none", "length", "area", "file", "multi"}]
  /\ fruWrt \in [at : Nat, off : Nat, len : Nat] /\ fruRqSize \in Nat
  /\ fruTodo \in Seq([off : Nat, len : Nat]) /\ \A k \in DOMAIN fruTodo : FruEven(fruTodo[k].off)
  /\ fruRec \in [n : Nat, from : Nat, i : Nat, last : Nat, final : BOOLEAN]
FruAligned(n) == FruKind.words => FruEven(n) \/ n >= FruSize
FruWalking == fruRec.i >= fruRec.from /\ fruRec.last >= fruRec.from /\ FruEven(fruRec.from) /\ FruAligned(fruRec.last)
FruPrinting == fruCmd = "print" /\ FruWalking /\ fruRec.last = fruRec.from
FruReading ==
  /\ fruRd.off >= fruRd.from /\ FruAligned(fruRd.off)
  /\ \/ /\ fruRd.for \in {"length", "area"} /\ FruPrinting /\ fruTodo # <<>> /\ fruRd.from = Head(fruTodo).off
        /\ fruRd.for = "area" => fruRd.finish = FruLess(fruRd.from + Head(fruTodo).len, FruSize)
     \/ fruRd.for = "file" /\ fruCmd = "read" /\ fruRd.from = 0 /\ fruRd.finish = FruSize
     \/ /\ fruRd.for = "multi" /\ fruCmd \in {"print", "edit"} /\ FruWalking /\ fruRd.from = fruRec.last
        /\ fruRd.finish >= fruRd.from /\ FruAligned(fruRd.finish)
FruWriting ==
  /\ FruEven(fruWrt.off) /\ fruWrt.off <= fruWrt.len /\ fruWrt.at + fruWrt.len <= FruSize
  /\ \/ fruCmd = "write" /\ fruWrt.at = 0 /\ fruBuf = FruFile
     \/ fruCmd = "upgEkey" /\ fruWrt.at = FruMulti /\ fruBuf = FruFile
     \/ fruCmd = "edit" /\ fruWrt.at >= fruRec.from /\ FruWalking
FruFresh == \A p \in 1..FruSize : fruDev.data[p] = p
FruStage ==
  /\ fruAt = "new" => fruCmd = "none"
  /\ fruAt \in {"new", "info", "header"} => FruFresh
  /\ fruAt = "info" => fruCmd \in {"print", "read", "write", "edit", "upgEkey"}
  /\ fruAt = "header" => fruCmd \in {"print", "edit", "upgEkey"}
  /\ fruAt = "area" => FruPrinting
  /\ fruAt = "again" => fruCmd = "edit" /\ FruWalking /\ fruRec.last = fruRec.from
  /\ fruAt \in {"walk", "record"} => fruCmd \in {"print", "edit"} /\ FruWalking
  /\ fruAt = "read" => FruReading
  /\ fruAt = "write" => FruWriting

(* What the buffer holds and how far it is filled.                         *)
FruSame(p, d) == d = p \/ (fruCmd = "edit" /\ d \in {100, 200})
FruPlain == fruCmd \in {"none", "print", "read"} \/ (fruCmd = "edit" /\ ~FruKind.words /\ fruHist = {})
FruGood(b) == \A p \in 1..FruSize : b[p] = 0 \/ FruSame(p, b[p])
FruFilled(b, from, to) == \A p \in 1..FruSize : p > from /\ p <= to => FruSame(p, b[p])
FruDevice ==
  FruPlain => FruGood(fruBuf) /\ \A p \in 1..FruSize : FruSame(p, fruDev.data[p])
FruSoFar ==
  FruPlain /\ fruHist = {} =>
    /\ fruAt = "read" => FruFilled(fruBuf, fruRd.from, fruRd.off)
    /\ fruAt \in {"walk", "record"} \/ (fruAt = "read" /\ fruRd.for = "multi") => FruFilled(fruBuf, fruRec.from, fruRec.last)
    /\ fruAt = "write" => FruFilled(fruBuf, fruRec.from, fruRec.last) /\ fruWrt.at + fruWrt.len <= fruRec.last
FruInv == FruTypes /\ FruStage /\ FruDevice /\ FruSoFar /\ FruBytesTrue /\ FruWriteExact

LEMMA FruSub ==
  ASSUME NEW b \in [1..FruSize -> Int], NEW off \in Nat, NEW m \in 0..FruSize
  PROVE  \A k \in 1..Len(SubSeq(b, off + 1, m)) : off + k <= m /\ SubSeq(b, off + 1, m)[k] = b[off + k]
<1>1. FruSize \in Nat
  BY FruNumbers
<1>2. b \in Seq(Int) /\ Len(b) = FruSize
  BY <1>1
<1>3. CASE off <= m
  <2>1. /\ Len(SubSeq(b, off + 1, m)) = m - off
        /\ \A i \in 1..(m - off) : SubSeq(b, off + 1, m)[i] = b[off + i]
    BY <1>1, <1>2, <1>3
  <2> QED
    BY <2>1
<1>4. CASE off > m
  <2>1. Len(SubSeq(b, off + 1, m)) = 0
    BY <1>1, <1>2, <1>4
  <2> QED
    BY <2>1
<1> QED
  BY <1>3, <1>4

(* Bytes that are printed: those of the device, or none after an error.    *)
LEMMA FruPrintsKept ==
  ASSUME FruBytesTrue, fruBuf' \in [1..FruSize -> Int], fruHist \subseteq fruHist', NEW off \in Nat, NEW len \in Nat,
         FruPrints(off, len), \A p \in 1..FruSize : fruBuf'[p] \in {0, p},
         fruHist' = {} => \A p \in 1..FruSize : p > off /\ p <= off + len => fruBuf'[p] = p
  PROVE  FruBytesTrue'
<1>1. FruSize \in Nat
  BY FruNumbers
<1>2. FruLess(off + len, FruSize) \in 0..FruSize /\ FruLess(off + len, FruSize) <= off + len
  BY <1>1 DEF FruLess
<1> DEFINE m == FruLess(off + len, FruSize)
           s == SubSeq(fruBuf', off + 1, m)
<1>3. fruOut' = fruOut \cup {[off |-> off, bytes |-> s]}
  BY DEF FruPrints
<1>4. \A k \in 1..Len(s) : off + k <= m /\ s[k] = fruBuf'[off + k]
  BY <1>2, FruSub
<1> HIDE DEF m, s
<1>5. m \in 0..FruSize /\ m <= off + len
  BY <1>2 DEF m
<1>6. \A k \in 1..Len(s) : s[k] = off + k \/ (s[k] = 0 /\ fruHist' # {})
  <2> SUFFICES ASSUME NEW k \in 1..Len(s) PROVE s[k] = off + k \/ (s[k] = 0 /\ fruHist' # {})
    OBVIOUS
  <2>1. k \in Nat \ {0}
    OBVIOUS
  <2>2. off + k \in 1..FruSize /\ off + k <= off + len /\ off + k > off
    BY <1>1, <1>4, <1>5, <2>1
  <2> QED
    BY <1>4, <2>2
<1> QED
  BY <1>3, <1>6 DEF FruBytesTrue

LEMMA FruTodoFacts ==
  ASSUME FruTypes, fruTodo # <<>>
  PROVE  /\ Head(fruTodo) \in [off : Nat, len : Nat] /\ Head(fruTodo).off \in Nat /\ Head(fruTodo).len \in Nat /\ FruEven(Head(fruTodo).off)
         /\ Tail(fruTodo) \in Seq([off : Nat, len : Nat]) /\ \A k \in DOMAIN Tail(fruTodo) : FruEven(Tail(fruTodo)[k].off)
<1> DEFINE S == [off : Nat, len : Nat]
<1>1. fruTodo \in Seq(S) /\ \A k \in DOMAIN fruTodo : FruEven(fruTodo[k].off)
  BY DEF FruTypes
<1> HIDE DEF S
<1>2. Len(fruTodo) \in Nat \ {0} /\ DOMAIN fruTodo = 1..Len(fruTodo)
  BY <1>1
<1>3. Head(fruTodo) = fruTodo[1] /\ 1 \in DOMAIN fruTodo /\ Head(fruTodo) \in S
  BY <1>1, <1>2
<1>4. Tail(fruTodo) \in Seq(S) /\ Len(Tail(fruTodo)) = Len(fruTodo) - 1
  BY <1>1, <1>2
<1>5. ASSUME NEW k \in DOMAIN Tail(fruTodo) PROVE FruEven(Tail(fruTodo)[k].off)
  <2>1. k \in 1..(Len(fruTodo) - 1)
    BY <1>4
  <2>2. Tail(fruTodo)[k] = fruTodo[k + 1] /\ k + 1 \in DOMAIN fruTodo
    BY <1>1, <1>2, <2>1
  <2> QED
    BY <1>1, <2>2
<1>6. Head(fruTodo).off \in Nat /\ Head(fruTodo).len \in Nat
  BY <1>3 DEF S
<1> QED
  BY <1>1, <1>3, <1>4, <1>5, <1>6 DEF S

(* What happens when a read ends, well or not.                             *)
LEMMA FruReadDoneKept ==
  ASSUME FruInv, fruAt = "read", UNCHANGED <<fruCmd, fruDev, fruWrt>>, fruRqSize' \in Nat, fruHist \subseteq fruHist',
         fruBuf' \in [1..FruSize -> Int], FruPlain => FruGood(fruBuf'), NEW ok \in BOOLEAN, FruReadDone(ok),
         FruPlain /\ fruHist' = {} =>
           /\ ok /\ FruFilled(fruBuf', fruRd.from, fruRd.finish)
           /\ fruRd.for = "multi" => FruFilled(fruBuf', fruRec.from, fruRec.last)
  PROVE  FruInv'
<1>0. FruTypes /\ FruReading /\ FruDevice /\ FruBytesTrue /\ FruWriteExact /\ FruSize \in Nat /\ FruMulti \in Nat
  BY FruNumbers DEF FruInv, FruStage
<1>a. fruRec'.from = fruRec.from
  BY <1>0 DEF FruReadDone, FruTypes
<1>1. FruWriteExact'
  BY <1>0, <1>a DEF FruWriteExact, FruKind
<1>2. FruDevice'
  BY <1>0 DEF FruDevice, FruPlain, FruGood, FruSame, FruKind
<1>3. PICK from \in Nat, off \in Nat, finish \in Nat, for \in {"length", "area", "file", "multi"} :
        fruRd = [from |-> from, off |-> off, finish |-> finish, for |-> for]
  BY <1>0 DEF FruTypes, FruReading
<1>4. PICK n \in Nat, base \in Nat, i \in Nat, last \in Nat, final \in BOOLEAN :
        fruRec = [n |-> n, from |-> base, i |-> i, last |-> last, final |-> final]
  BY <1>0 DEF FruTypes
<1>5. fruCmd # "edit" /\ FruReading => FruPlain \/ fruRd.for = "none"
  BY DEF FruReading, FruPrinting, FruPlain
<1>6. CASE fruRd.for = "length"
  <2>1. FruPrinting /\ fruTodo # <<>> /\ from = Head(fruTodo).off
    BY <1>0, <1>3, <1>6 DEF FruReading
  <2>2. /\ UNCHANGED <<fruRec, fruOut>>
        /\ \/ /\ fruAt' = "read" /\ UNCHANGED fruTodo
              /\ fruRd' = [fruRd EXCEPT !.off = @ - (fruRd.off - fruRd.from), !.for = "area",
                                        !.finish = FruLess(fruRd.from + Head(fruTodo).len, FruSize)]
           \/ FruNextArea /\ UNCHANGED fruRd
    BY <1>6 DEF FruReadDone
  <2>3. FruBytesTrue'
    BY <1>0, <2>2 DEF FruBytesTrue
  <2>4. CASE FruNextArea /\ UNCHANGED fruRd
    <3>1. FruTypes'
      BY <1>0, <2>1, <2>2, <2>4, FruTodoFacts DEF FruTypes, FruNextArea, FruKind
    <3>2. FruStage' /\ FruSoFar'
      BY <2>1, <2>2, <2>4 DEF FruStage, FruSoFar, FruNextArea, FruPrinting, FruWalking, FruAligned, FruKind
    <3> QED
      BY <1>1, <1>2, <2>3, <3>1, <3>2 DEF FruInv
  <2>5. CASE ~FruNextArea
    <3>1. Head(fruTodo) \in [off : Nat, len : Nat] /\ FruEven(Head(fruTodo).off)
      BY <1>0, <2>1, FruTodoFacts
    <3>2. FruLess(from + Head(fruTodo).len, FruSize) \in Nat
      BY <1>0, <3>1 DEF FruLess
    <3> DEFINE f == FruLess(from + Head(fruTodo).len, FruSize)
    <3>3. /\ fruAt' = "read" /\ UNCHANGED fruTodo
          /\ fruRd' = [from |-> from, off |-> off - (off - from), finish |-> f, for |-> "area"]
      BY <1>3, <2>2, <2>5
    <3> HIDE DEF f
    <3>4. off - (off - from) = from
      OBVIOUS
    <3>5. fruRd' = [from |-> from, off |-> from, finish |-> f, for |-> "area"]
      BY <3>3, <3>4
    <3>6. FruTypes'
      <4>1. f \in Nat
        BY <3>2 DEF f
      <4>2. fruRd' \in [from : Nat, off : Nat, finish : Nat, for : {"none", "length", "area", "file", "multi"}]
        BY <3>5, <4>1
      <4> QED
        BY <1>0, <2>2, <3>3, <4>2 DEF FruTypes, FruKind
    <3>7. FruReading'
      BY <2>1, <2>2, <3>1, <3>3, <3>5 DEF FruReading, FruPrinting, FruWalking, FruAligned, FruKind, f
    <3>8. FruStage'
      BY <3>3, <3>7 DEF FruStage
    <3>9. FruFilled(fruBuf, fruRd.from, fruRd.off)'
      BY <3>5 DEF FruFilled
    <3>10. FruSoFar'
      BY <3>3, <3>5, <3>9 DEF FruSoFar
    <3> QED
      BY <1>1, <1>2, <2>3, <3>6, <3>8, <3>10 DEF FruInv
  <2> QED
    BY <2>2, <2>4, <2>5 DEF FruNextArea
<1>7. CASE fruRd.for = "area"
  <2>1. FruPrinting /\ fruTodo # <<>> /\ from = Head(fruTodo).off /\ finish = FruLess(from + Head(fruTodo).len, FruSize)
    BY <1>0, <1>3, <1>7 DEF FruReading
  <2>2. /\ UNCHANGED <<fruRd, fruRec>> /\ FruNextArea
        /\ IF ok THEN FruPrints(fruRd.from, Head(fruTodo).len) ELSE UNCHANGED fruOut
    BY <1>7 DEF FruReadDone
  <2>3. FruTypes'
    BY <1>0, <2>1, <2>2, FruTodoFacts DEF FruTypes, FruNextArea, FruKind
  <2>4. FruStage' /\ FruSoFar'
    BY <2>1, <2>2 DEF FruStage, FruSoFar, FruNextArea, FruPrinting, FruWalking, FruAligned, FruKind
  <2>5. FruBytesTrue'
    <3>1. CASE ~ok
      BY <1>0, <2>2, <3>1 DEF FruBytesTrue
    <3>2. CASE ok
      <4>1. Head(fruTodo).len \in Nat
        BY <1>0, <2>1, FruTodoFacts
      <4>2. FruPlain /\ fruCmd = "print"
        BY <2>1 DEF FruPrinting, FruPlain
      <4>3. \A p \in 1..FruSize : fruBuf'[p] \in {0, p}
        BY <4>2 DEF FruGood, FruSame
      <4>4. fruHist' = {} => \A p \in 1..FruSize : p > from /\ p <= from + Head(fruTodo).len => fruBuf'[p] = p
        BY <1>0, <1>3, <2>1, <4>1, <4>2 DEF FruFilled, FruSame, FruLess
      <4>5. FruPrints(from, Head(fruTodo).len)
        BY <1>3, <2>2, <3>2
      <4> QED
        BY <1>0, <4>1, <4>3, <4>4, <4>5, FruPrintsKept
    <3> QED
      BY <3>1, <3>2
  <2> QED
    BY <1>1, <1>2, <2>3, <2>4, <2>5 DEF FruInv
<1>8. CASE fruRd.for = "file"
  <2>1. fruCmd = "read" /\ from = 0 /\ finish = FruSize
    BY <1>0, <1>3, <1>8 DEF FruReading
  <2>2. FruPrints(0, FruSize) /\ fruAt' = "done" /\ UNCHANGED <<fruRd, fruTodo, fruRec>>
    BY <1>8 DEF FruReadDone
  <2>3. FruTypes'
    BY <1>0, <2>2 DEF FruTypes, FruKind
  <2>4. FruStage' /\ FruSoFar'
    BY <2>2 DEF FruStage, FruSoFar
  <2>5. FruBytesTrue'
    <3>1. \A p \in 1..FruSize : fruBuf'[p] \in {0, p}
      BY <2>1 DEF FruGood, FruSame, FruPlain
    <3>2. fruHist' = {} => \A p \in 1..FruSize : p > 0 /\ p <= 0 + FruSize => fruBuf'[p] = p
      BY <1>0, <1>3, <2>1 DEF FruFilled, FruSame, FruPlain
    <3> QED
      BY <1>0, <2>2, <3>1, <3>2, FruPrintsKept
  <2> QED
    BY <1>1, <1>2, <2>3, <2>4, <2>5 DEF FruInv
<1>9. CASE fruRd.for = "multi"
  <2>1. fruCmd \in {"print", "edit"} /\ FruWalking /\ from = last /\ FruAligned(finish) /\ finish >= last
    BY <1>0, <1>3, <1>4, <1>9 DEF FruReading
  <2>2. /\ UNCHANGED <<fruRd, fruTodo, fruOut>>
        /\ IF ok THEN fruAt' = "record" /\ fruRec' = [n |-> n, from |-> base, i |-> i, last |-> finish, final |-> final]
           ELSE fruAt' = "done" /\ UNCHANGED fruRec
    BY <1>3, <1>4, <1>9 DEF FruReadDone
  <2>3. FruTypes'
    BY <1>0, <1>4, <2>2 DEF FruTypes, FruKind
  <2>4. FruBytesTrue'
    BY <1>0, <2>2 DEF FruBytesTrue
  <2>5. finish >= base
    BY <1>0, <1>4, <2>1 DEF FruWalking
  <2>6. FruStage'
    BY <1>0, <1>4, <2>1, <2>2, <2>5 DEF FruStage, FruWalking, FruAligned, FruKind
  <2>7. FruSoFar'
    <3>1. ASSUME FruPlain', fruHist' = {}, fruAt' = "record" PROVE FruFilled(fruBuf', base, finish)
      <4>1. FruPlain
        BY <3>1 DEF FruPlain, FruKind
      <4>2. FruFilled(fruBuf', last, finish) /\ FruFilled(fruBuf', base, last)
        BY <1>3, <1>4, <1>9, <2>1, <3>1, <4>1
      <4> QED
        BY <1>0, <4>2 DEF FruFilled
    <3>2. fruAt' = "record" => fruRec'.last = finish /\ fruRec'.from = base
      BY <2>2
    <3> QED
      BY <2>2, <3>1, <3>2 DEF FruSoFar, FruFilled, FruSame
  <2> QED
    BY <1>1, <1>2, <2>3, <2>4, <2>6, <2>7 DEF FruInv
<1> QED
  BY <1>3, <1>6, <1>7, <1>8, <1>9

(* What an answer brings: as many bytes as it has, from where they were    *)
(* asked, so that the next piece begins behind them.                       *)
LEMMA FruHalved == ASSUME NEW n \in Nat, FruEven(n) PROVE (n \div 2) * 2 = n
BY DEF FruEven
LEMMA FruDouble == ASSUME NEW n \in Int PROVE FruEven(2 * n)
BY DEF FruEven
LEMMA FruEvenSum == ASSUME NEW m \in Int, NEW n \in Int, FruEven(m), FruEven(n) PROVE FruEven(m - n) /\ FruEven(m + n)
BY DEF FruEven

LEMMA FruGetsFacts ==
  ASSUME FruTypes, FruReading, FruAligned(fruRd.off)
  PROVE  /\ FruGets.n \in Nat /\ FruGets.from \in Nat /\ FruAligned(fruRd.off + FruGets.n)
         /\ fruRd.off < FruSize \/ ~FruKind.words => FruGets.from = fruRd.off
         /\ FruGets.n > 0 => FruGets.from + FruGets.n <= FruSize
<1>0. FruSize \in Nat /\ fruRd.off \in Nat /\ fruRd.finish \in Nat /\ fruRqSize \in Nat /\ FruKind.words \in BOOLEAN
      /\ FruKind.real \in 0..FruSize /\ (FruKind.words => FruEven(FruKind.real))
  BY FruNumbers DEF FruTypes, FruKind
<1> DEFINE from == IF FruKind.words THEN (fruRd.off \div 2) * 2 ELSE fruRd.off
           n == FruLess(IF FruKind.words THEN 2 * FruAsked ELSE FruAsked, FruKind.real - from)
<1>1. FruAsked \in Int
  BY <1>0 DEF FruAsked, FruLess
<1>2. FruGets = [from |-> from, n |-> IF n > 0 THEN n ELSE 0]
  BY DEF FruGets
<1>3. from \in Nat /\ (fruRd.off < FruSize \/ ~FruKind.words => from = fruRd.off)
  <2>1. fruRd.off \div 2 \in Nat /\ (FruEven(fruRd.off) => (fruRd.off \div 2) * 2 = fruRd.off)
    <3>1. fruRd.off \div 2 \in Nat
      BY <1>0
    <3> QED
      BY <1>0, <3>1, FruHalved
  <2>2. CASE FruKind.words
    <3>1. from = (fruRd.off \div 2) * 2
      BY <2>2
    <3>2. FruEven(fruRd.off) \/ fruRd.off >= FruSize
      BY <2>2 DEF FruAligned
    <3> QED
      BY <1>0, <2>1, <2>2, <3>1, <3>2
  <2>3. CASE ~FruKind.words
    BY <1>0, <2>3
  <2> QED
    BY <2>2, <2>3
<1>4. n \in Int /\ n <= FruKind.real - from /\ (n = FruKind.real - from \/ n = IF FruKind.words THEN 2 * FruAsked ELSE FruAsked)
  BY <1>0, <1>1, <1>3 DEF FruLess
<1>5. FruKind.words => FruEven(from)
  <2>1. fruRd.off \div 2 \in Int
    BY <1>0
  <2>2. FruEven(2 * (fruRd.off \div 2)) /\ 2 * (fruRd.off \div 2) = (fruRd.off \div 2) * 2
    BY <2>1, FruDouble
  <2> QED
    BY <2>2
<1> HIDE DEF from, n
<1>6. FruKind.words => FruEven(n)
  <2> SUFFICES ASSUME FruKind.words PROVE FruEven(n)
    OBVIOUS
  <2>1. FruEven(FruKind.real - from) /\ FruEven(2 * FruAsked)
    <3>1. FruKind.real \in Int /\ from \in Int /\ FruEven(FruKind.real) /\ FruEven(from)
      BY <1>0, <1>3, <1>5
    <3> QED
      BY <1>1, <3>1, FruEvenSum, FruDouble
  <2> QED
    BY <1>4, <2>1
<1>7. FruGets.n \in Nat /\ FruGets.from = from /\ (FruGets.n > 0 => FruGets.n = n) /\ (FruKind.words => FruEven(FruGets.n))
  <2>1. CASE n > 0
    BY <1>2, <1>4, <1>6, <2>1
  <2>2. CASE ~(n > 0)
    BY <1>2, <1>4, <2>2 DEF FruEven
  <2> QED
    BY <2>1, <2>2
<1>8. FruAligned(fruRd.off + FruGets.n)
  <2>1. CASE FruKind.words /\ FruEven(fruRd.off)
    <3>1. FruEven(fruRd.off + FruGets.n)
      <4>1. fruRd.off \in Int /\ FruGets.n \in Int /\ FruEven(fruRd.off) /\ FruEven(FruGets.n)
        BY <1>0, <1>7, <2>1
      <4> QED
        BY <4>1, FruEvenSum
    <3> QED
      BY <3>1 DEF FruAligned
  <2>2. CASE ~FruKind.words
    BY <2>2 DEF FruAligned
  <2>3. CASE fruRd.off >= FruSize
    BY <1>0, <1>7, <2>3 DEF FruAligned
  <2> QED
    BY <2>1, <2>2, <2>3 DEF FruAligned
<1> QED
  BY <1>0, <1>3, <1>4, <1>7, <1>8

FruNewBuf ==
  [p \in 1..FruSize |->
     LET q == FruPlace(p) IN
     IF q \in (fruRd.off + 1)..(fruRd.off + FruGets.n) THEN fruDev.data[FruGets.from + q - fruRd.off] ELSE fruBuf[p]]
LEMMA FruPieceFills ==
  ASSUME FruInv, fruAt = "read"
  PROVE  /\ FruNewBuf \in [1..FruSize -> Int] /\ (FruPlain => FruGood(FruNewBuf))
         /\ FruPlain /\ fruHist = {} => /\ FruFilled(FruNewBuf, fruRd.from, fruRd.off + FruGets.n)
                                        /\ fruRd.for = "multi" => FruFilled(FruNewBuf, fruRec.from, fruRec.last)
<1>0. FruTypes /\ FruReading /\ FruDevice /\ FruSoFar /\ FruAligned(fruRd.off) /\ FruSize \in Nat /\ fruRd.off \in Nat /\ fruRd.from \in Nat
      /\ fruRd.off >= fruRd.from
  BY FruNumbers DEF FruInv, FruStage, FruReading, FruTypes
<1> DEFINE n == FruGets.n
           from == FruGets.from
           off == fruRd.off
<1>1. /\ n \in Nat /\ from \in Nat /\ (off < FruSize \/ ~FruKind.words => from = off) /\ (n > 0 => from + n <= FruSize)
      /\ off \in Nat
  BY <1>0, FruGetsFacts
<1>2. FruNewBuf = [p \in 1..FruSize |-> IF p \in (off + 1)..(off + n) THEN fruDev.data[from + p - off] ELSE fruBuf[p]]
  BY DEF FruNewBuf, FruPlace
<1>3. fruDev.data \in [1..FruSize -> Int] /\ fruBuf \in [1..FruSize -> Int]
  BY <1>0 DEF FruTypes
<1> HIDE DEF n, from, off
<1>4. ASSUME NEW p \in 1..FruSize, p \in (off + 1)..(off + n)
      PROVE  from + p - off = p /\ FruNewBuf[p] = fruDev.data[p]
  <2>1. from = off
    BY <1>0, <1>1, <1>4
  <2>2. from + p - off = p
    BY <1>1, <2>1
  <2> QED
    BY <1>2, <1>4, <2>2
<1>5. \A p \in 1..FruSize : p \notin (off + 1)..(off + n) => FruNewBuf[p] = fruBuf[p]
  BY <1>2
<1>6. FruNewBuf \in [1..FruSize -> Int]
  <2>1. \A p \in 1..FruSize : FruNewBuf[p] \in Int
    BY <1>3, <1>4, <1>5
  <2>2. DOMAIN FruNewBuf = 1..FruSize /\ FruNewBuf = [p \in 1..FruSize |-> FruNewBuf[p]]
    BY <1>2
  <2> QED
    BY <2>1, <2>2
<1>7. FruPlain => FruGood(FruNewBuf)
  BY <1>0, <1>4, <1>5 DEF FruDevice, FruGood
<1>8. ASSUME FruPlain, fruHist = {}, NEW a \in Nat, NEW b \in Nat, FruFilled(fruBuf, a, b) PROVE FruFilled(FruNewBuf, a, b)
  BY <1>0, <1>4, <1>5, <1>8 DEF FruDevice, FruFilled
<1>9. ASSUME FruPlain, fruHist = {} PROVE FruFilled(FruNewBuf, fruRd.from, off + n)
  <2>1. FruFilled(FruNewBuf, fruRd.from, off)
    BY <1>0, <1>1, <1>8, <1>9 DEF FruSoFar, off
  <2>2. ASSUME NEW p \in 1..FruSize, p > off, p <= off + n PROVE FruSame(p, FruNewBuf[p])
    <3>1. p \in (off + 1)..(off + n)
      BY <1>1, <2>2
    <3> QED
      BY <1>0, <1>4, <1>9, <3>1 DEF FruDevice
  <2> QED
    BY <1>1, <2>1, <2>2 DEF FruFilled
<1>10. ASSUME FruPlain, fruHist = {}, fruRd.for = "multi" PROVE FruFilled(FruNewBuf, fruRec.from, fruRec.last)
  <2>1. fruRec.last \in Nat /\ fruRec.from \in Nat /\ FruFilled(fruBuf, fruRec.from, fruRec.last)
    BY <1>0, <1>10, FruNumbers DEF FruTypes, FruSoFar
  <2> QED
    BY <1>8, <1>10, <2>1
<1> QED
  BY <1>6, <1>7, <1>9, <1>10 DEF n, off

LEMMA FruReadKept == ASSUME FruInv, read_fru_area PROVE FruInv'
<1>0. /\ fruAt = "read" /\ UNCHANGED <<fruCmd, fruDev, fruWrt>> /\ FruTypes /\ FruReading /\ FruDevice /\ FruSoFar
      /\ FruBytesTrue /\ FruWriteExact
  BY DEF read_fru_area, FruUnchangedRead, FruInv, FruStage
<1>1. PICK from \in Nat, off \in Nat, finish \in Nat, for \in {"length", "area", "file", "multi"} :
        fruRd = [from |-> from, off |-> off, finish |-> finish, for |-> for]
  BY <1>0 DEF FruTypes, FruReading
<1>2. FruGets.n \in Nat /\ FruAligned(off + FruGets.n) /\ off >= from
  BY <1>0, <1>1, FruGetsFacts DEF FruReading
<1>3. CASE /\ FruAsked <= FruKind.limit /\ UNCHANGED <<fruRqSize, fruFaults>>
           /\ LET g == FruGets  end == fruRd.off + g.n IN
              /\ fruBuf' = [p \in 1..FruSize |->
                   LET q == FruPlace(p) IN
                   IF q \in (fruRd.off + 1)..end THEN fruDev.data[g.from + q - fruRd.off] ELSE fruBuf[p]]
              /\ IF end >= fruRd.finish \/ g.n = 0
                 THEN FruReadDone(TRUE) /\ fruHist' = IF end < fruRd.finish THEN fruHist \cup {"short"} ELSE fruHist
                 ELSE fruRd' = [fruRd EXCEPT !.off = end] /\ UNCHANGED <<fruAt, fruTodo, fruRec, fruOut, fruHist>>
  <2> DEFINE end == off + FruGets.n
  <2>1. fruBuf' = FruNewBuf /\ fruRqSize' = fruRqSize
    BY <1>3 DEF FruNewBuf
  <2>2. /\ fruBuf' \in [1..FruSize -> Int] /\ (FruPlain => FruGood(fruBuf'))
        /\ FruPlain /\ fruHist = {} => /\ FruFilled(fruBuf', from, end)
                                       /\ for = "multi" => FruFilled(fruBuf', fruRec.from, fruRec.last)
    BY <1>0, <1>1, <2>1, FruPieceFills
  <2>3. fruRqSize' \in Nat
    BY <1>0, <2>1 DEF FruTypes
  <2>4. IF end >= finish \/ FruGets.n = 0
        THEN FruReadDone(TRUE) /\ fruHist' = IF end < finish THEN fruHist \cup {"short"} ELSE fruHist
        ELSE fruRd' = [fruRd EXCEPT !.off = end] /\ UNCHANGED <<fruAt, fruTodo, fruRec, fruOut, fruHist>>
    BY <1>1, <1>3
  <2>5. end \in Nat
    BY <1>2
  <2> HIDE DEF end
  <2>6. CASE end >= finish \/ FruGets.n = 0
    <3>1. FruReadDone(TRUE) /\ fruHist' = IF end < finish THEN fruHist \cup {"short"} ELSE fruHist
      BY <2>4, <2>6
    <3>2. fruHist \subseteq fruHist' /\ (fruHist' = {} => fruHist = {} /\ end >= finish)
      BY <2>5, <3>1
    <3>3. FruPlain /\ fruHist' = {} => /\ FruFilled(fruBuf', from, finish)
                                       /\ for = "multi" => FruFilled(fruBuf', fruRec.from, fruRec.last)
      <4>1. FruFilled(fruBuf', from, end) /\ end >= finish => FruFilled(fruBuf', from, finish)
        BY <2>5 DEF FruFilled
      <4> QED
        BY <2>2, <3>2, <4>1
    <3>4. FruPlain /\ fruHist' = {} => /\ TRUE /\ FruFilled(fruBuf', fruRd.from, fruRd.finish)
                                       /\ fruRd.for = "multi" => FruFilled(fruBuf', fruRec.from, fruRec.last)
      BY <1>1, <3>3
    <3> QED
      BY <1>0, <2>2, <2>3, <3>1, <3>2, <3>4, FruReadDoneKept
  <2>7. CASE ~(end >= finish \/ FruGets.n = 0)
    <3>1. fruRd' = [from |-> from, off |-> end, finish |-> finish, for |-> for] /\ UNCHANGED <<fruAt, fruTodo, fruRec, fruOut, fruHist>>
      BY <1>1, <2>4, <2>7
    <3>2. FruTypes'
      <4>1. fruRd' \in [from : Nat, off : Nat, finish : Nat, for : {"none", "length", "area", "file", "multi"}]
        BY <2>5, <3>1
      <4> QED
        BY <1>0, <2>2, <2>3, <3>1, <4>1 DEF FruTypes, FruKind
    <3>3. FruStage'
      <4>1. end >= from /\ FruAligned(end)
        BY <1>2 DEF end
      <4>2. FruReading'
        BY <1>0, <1>1, <3>1, <4>1 DEF FruReading, FruPrinting, FruWalking, FruAligned, FruKind
      <4> QED
        BY <1>0, <3>1, <4>2 DEF FruStage
    <3>4. FruDevice'
      BY <1>0, <2>2, <3>1 DEF FruDevice, FruPlain, FruGood, FruSame, FruKind
    <3>5. FruSoFar'
      BY <1>0, <1>1, <2>2, <3>1 DEF FruSoFar, FruPlain, FruFilled, FruSame, FruKind
    <3>6. FruBytesTrue' /\ FruWriteExact'
      BY <1>0, <3>1 DEF FruBytesTrue, FruWriteExact, FruKind
    <3> QED
      BY <3>2, <3>3, <3>4, <3>5, <3>6 DEF FruInv
  <2> QED
    BY <2>6, <2>7
<1>4. ASSUME fruBuf' = fruBuf, NEW ok \in BOOLEAN, FruReadDone(ok), fruRqSize' \in Nat, fruHist' = fruHist \cup {"fault"} PROVE FruInv'
  <2>1. fruBuf' \in [1..FruSize -> Int] /\ (FruPlain => FruGood(fruBuf')) /\ fruHist \subseteq fruHist' /\ fruHist' # {}
    BY <1>0, <1>4 DEF FruTypes, FruDevice
  <2> QED
    BY <1>0, <1>4, <2>1, FruReadDoneKept
<1>5. CASE /\ FruAsked > FruKind.limit /\ fruRqSize > 0 /\ fruRqSize' = FruSmaller /\ UNCHANGED <<fruBuf, fruFaults>>
           /\ IF fruRqSize' > FruRqMin THEN UNCHANGED <<fruAt, fruRd, fruTodo, fruRec, fruOut, fruHist>>
              ELSE FruReadDone(FALSE) /\ fruHist' = fruHist \cup {"fault"}
  <2>1. fruRqSize' \in Nat
    BY <1>0, <1>5 DEF FruTypes, FruSmaller
  <2>2. CASE fruRqSize' > FruRqMin
    <3>1. UNCHANGED <<fruAt, fruRd, fruTodo, fruRec, fruOut, fruHist, fruBuf>>
      BY <1>5, <2>2
    <3>2. FruTypes' /\ FruStage'
      BY <1>0, <2>1, <3>1 DEF FruTypes, FruStage, FruReading, FruPrinting, FruWalking, FruAligned, FruKind
    <3>3. FruDevice' /\ FruSoFar'
      BY <1>0, <3>1 DEF FruDevice, FruSoFar, FruPlain, FruFilled, FruGood, FruSame, FruKind
    <3>4. FruBytesTrue' /\ FruWriteExact'
      BY <1>0, <3>1 DEF FruBytesTrue, FruWriteExact, FruKind
    <3> QED
      BY <3>2, <3>3, <3>4 DEF FruInv
  <2>3. CASE ~(fruRqSize' > FruRqMin)
    BY <1>4, <1>5, <2>1, <2>3
  <2> QED
    BY <2>2, <2>3
<1>6. CASE /\ fruFaults < FruMaxFaults /\ fruFaults' = fruFaults + 1 /\ UNCHANGED <<fruBuf, fruRqSize>>
           /\ FruReadDone(fruRd.off >= fruRd.finish) /\ fruHist' = fruHist \cup {"fault"}
  <2>1. (fruRd.off >= fruRd.finish) \in BOOLEAN /\ fruRqSize' \in Nat /\ fruBuf' = fruBuf
    BY <1>0, <1>6 DEF FruTypes
  <2> QED
    BY <1>4, <1>6, <2>1
<1> QED
  BY <1>3, <1>5, <1>6 DEF read_fru_area

LEMMA FruHalfAbove == ASSUME NEW m \in Nat, NEW n \in Nat, FruEven(m), n >= m PROVE (n \div 2) * 2 >= m /\ n \div 2 \in Nat
BY DEF FruEven

(* Writing puts each byte of the source in its place.                      *)
LEMMA FruWriteKept == ASSUME FruInv, write_fru_area PROVE FruInv'
<1>0. /\ fruAt = "write" /\ UNCHANGED <<fruCmd, fruBuf, fruRd, fruRqSize, fruTodo, fruRec, fruOut>>
      /\ FruTypes /\ FruWriting /\ FruDevice /\ FruSoFar /\ FruBytesTrue /\ FruWriteExact
      /\ FruSize \in Nat /\ FruMulti \in Nat /\ FruWr \in Nat /\ FruEven(FruMulti) /\ FruEven(FruWr)
  BY FruNumbers, FruShapes DEF write_fru_area, FruInv, FruStage, FruEven
<1>1. PICK at \in Nat, off \in Nat, len \in Nat : fruWrt = [at |-> at, off |-> off, len |-> len]
  BY <1>0 DEF FruTypes
<1>2. FruEven(off) /\ off <= len /\ at + len <= FruSize /\ FruPiece \in Nat /\ FruPiece <= len - off
      /\ (FruPiece = len - off \/ FruPiece = FruWr)
  BY <1>0, <1>1 DEF FruWriting, FruPiece, FruLess
<1>3. fruCmd \in {"write", "upgEkey", "edit"} /\ fruRec.from \in Nat
      /\ (fruCmd = "edit" => FruWalking /\ at >= fruRec.from /\ FruEven(fruRec.from))
  BY <1>0, <1>1 DEF FruWriting, FruWalking, FruTypes
<1>4. ASSUME FruWritten, fruWrt' \in [at : Nat, off : Nat, len : Nat], FruTypes', fruHist \subseteq fruHist', fruDev'.kind = fruDev.kind
      PROVE  FruStage' /\ (FruPlain' /\ fruHist' = {} => FruPlain /\ fruHist = {}) /\ FruBytesTrue' /\ FruSoFar'
  <2>1. FruStage'
    BY <1>0, <1>3, <1>4 DEF FruStage, FruWritten, FruWalking, FruAligned, FruKind
  <2>2. FruPlain' /\ fruHist' = {} => FruPlain /\ fruHist = {}
    BY <1>0, <1>4 DEF FruPlain, FruKind
  <2>3. FruBytesTrue'
    BY <1>0, <1>4 DEF FruBytesTrue
  <2>4. FruSoFar'
    BY <1>0, <1>4, <2>2 DEF FruSoFar, FruWritten, FruFilled, FruSame
  <2> QED
    BY <2>1, <2>2, <2>3, <2>4
<1>5. ASSUME FruWritten, fruHist' = fruHist \cup {"fault"}, UNCHANGED <<fruDev, fruWrt>> PROVE FruInv'
  <2>1. FruTypes' /\ FruWriteExact'
    BY <1>0, <1>5 DEF FruTypes, FruWriteExact, FruKind
  <2>2. ~FruPlain'
    BY <1>0, <1>3, <1>5 DEF FruPlain
  <2>3. FruStage' /\ FruBytesTrue' /\ FruSoFar'
    BY <1>0, <1>4, <1>5, <2>1 DEF FruTypes
  <2> QED
    BY <2>1, <2>2, <2>3 DEF FruInv, FruDevice
<1>6. CASE /\ FruPiece <= FruKind.limit /\ UNCHANGED <<fruFaults, fruHist>>
           /\ LET to == fruWrt.at + fruWrt.off
                  put == IF FruKind.words THEN (to \div 2) * 2 ELSE to IN
              fruDev' = [fruDev EXCEPT !.data = [p \in 1..FruSize |->
                IF p \in (put + 1)..(put + FruPiece) THEN FruSource(p - put + fruWrt.off) ELSE @[p]]]
           /\ fruWrt' = [fruWrt EXCEPT !.off = @ + FruPiece]
           /\ IF fruWrt.off + FruPiece >= fruWrt.len THEN FruWritten ELSE UNCHANGED fruAt
  <2> DEFINE put == IF FruKind.words THEN ((at + off) \div 2) * 2 ELSE at + off
             Source(k) == fruBuf[IF fruCmd = "edit" THEN at + k ELSE k]
             data == [p \in 1..FruSize |-> IF p \in (put + 1)..(put + FruPiece) THEN Source(p - put + off) ELSE fruDev.data[p]]
  <2>1. fruDev' = [fruDev EXCEPT !.data = data]
    BY <1>1, <1>6 DEF FruSource
  <2>2. PICK k \in [words : BOOLEAN, limit : Nat, real : 0..FruSize], d \in [1..FruSize -> Int] : fruDev = [kind |-> k, data |-> d]
    BY <1>0 DEF FruTypes
  <2>3. fruDev' = [kind |-> k, data |-> data]
    BY <2>1, <2>2
  <2>4. put \in Nat /\ (fruCmd # "edit" \/ ~FruKind.words => put = at + off) /\ (fruCmd = "edit" => put >= fruRec.from)
    <3>1. at + off \in Nat
      OBVIOUS
    <3>2. CASE ~FruKind.words
      BY <1>0, <1>3, <3>1, <3>2
    <3>3. CASE FruKind.words /\ fruCmd = "edit"
      <4>1. at + off >= fruRec.from
        BY <1>0, <1>3, <3>3
      <4> QED
        BY <1>0, <1>3, <3>1, <3>3, <4>1, FruHalfAbove
    <3>4. CASE FruKind.words /\ fruCmd # "edit"
      <4>1. FruEven(at)
        BY <1>0, <1>1, <3>4 DEF FruWriting, FruEven
      <4>2. FruEven(at + off)
        BY <1>2, <4>1, FruEvenSum
      <4>3. ((at + off) \div 2) * 2 = at + off
        BY <3>1, <4>2, FruHalved
      <4> QED
        BY <3>1, <3>4, <4>3
    <3> QED
      BY <3>2, <3>3, <3>4
  <2>5. ASSUME NEW p \in 1..FruSize, p \in (put + 1)..(put + FruPiece)
        PROVE  data[p] = Source(p - put + off) /\ p - put + off \in 1..len
    <3>1. data[p] = Source(p - put + off)
      BY <2>5
    <3> HIDE DEF put
    <3>2. p - put + off \in 1..len
      BY <1>2, <2>4, <2>5
    <3> QED
      BY <3>1, <3>2
  <2>6. \A p \in 1..FruSize : p \notin (put + 1)..(put + FruPiece) => data[p] = fruDev.data[p]
    OBVIOUS
  <2>7. DOMAIN data = 1..FruSize /\ data = [p \in 1..FruSize |-> data[p]]
    OBVIOUS
  <2>8. fruBuf \in [1..FruSize -> Int]
    BY <1>0 DEF FruTypes
  <2> HIDE DEF data, put, Source
  <2>9. data \in [1..FruSize -> Int]
    <3>1. ASSUME NEW p \in 1..FruSize PROVE data[p] \in Int
      <4>1. CASE p \in (put + 1)..(put + FruPiece)
        <5>1. p - put + off \in 1..FruSize /\ at + (p - put + off) \in 1..FruSize
          BY <1>0, <1>2, <2>5, <4>1, SMTT(30)
        <5> QED
          BY <2>5, <2>8, <4>1, <5>1 DEF Source
      <4>2. CASE p \notin (put + 1)..(put + FruPiece)
        BY <2>2, <2>6, <4>2
      <4> QED
        BY <4>1, <4>2
    <3> QED
      BY <2>7, <3>1
  <2>10. fruWrt' = [at |-> at, off |-> off + FruPiece, len |-> len] /\ off + FruPiece \in Nat
    BY <1>1, <1>2, <1>6
  <2>11. FruTypes'
    <3>1. fruWrt' \in [at : Nat, off : Nat, len : Nat]
      BY <2>10
    <3>2. fruDev' \in [kind : [words : BOOLEAN, limit : Nat, real : 0..FruSize], data : [1..FruSize -> Int]]
      BY <2>3, <2>9
    <3>3. FruKind' = FruKind
      BY <2>2, <2>3 DEF FruKind
    <3> QED
      BY <1>0, <3>1, <3>2, <3>3 DEF FruTypes
  <2>12. ASSUME NEW p \in 1..FruSize, p \in (put + 1)..(put + FruPiece)
         PROVE  /\ fruCmd = "write" => data[p] = -p
                /\ fruCmd = "upgEkey" => p > FruMulti /\ data[p] = -(p - FruMulti)
                /\ fruCmd = "edit" => p > fruRec.from
                /\ fruCmd = "edit" /\ ~FruKind.words /\ fruHist = {} => FruSame(p, data[p])
    <3>1. p \in Int /\ p > put /\ p <= put + FruPiece /\ p - put + off \in 1..len
      BY <2>4, <2>5, <2>12
    <3>2. ASSUME fruCmd # "edit" PROVE data[p] = -(p - at) /\ p > at
      <4>1. put = at + off
        BY <2>4, <3>2
      <4>2. p - put + off = p - at
        BY <3>1, <4>1
      <4>3. fruBuf = FruFile
        BY <1>0, <3>2 DEF FruWriting
      <4>4. p - at \in 1..FruSize
        BY <1>0, <1>2, <3>1, <4>2
      <4>5. data[p] = fruBuf[p - at]
        BY <2>5, <2>12, <3>2, <4>2 DEF Source
      <4> QED
        BY <4>3, <4>4, <4>5 DEF FruFile
    <3>3. fruCmd = "write" => data[p] = -p
      BY <1>0, <1>1, <3>1, <3>2 DEF FruWriting
    <3>4. fruCmd = "upgEkey" => p > FruMulti /\ data[p] = -(p - FruMulti)
      BY <1>0, <1>1, <3>1, <3>2 DEF FruWriting
    <3>5. fruCmd = "edit" => p > fruRec.from
      BY <1>0, <1>3, <2>4, <3>1
    <3>6. ASSUME fruCmd = "edit", ~FruKind.words, fruHist = {} PROVE FruSame(p, data[p])
      <4>1. put = at + off
        BY <2>4, <3>6
      <4>2. at + (p - put + off) = p
        BY <3>1, <4>1
      <4>3. data[p] = fruBuf[p]
        BY <2>5, <2>12, <3>6, <4>2 DEF Source
      <4>4. FruFilled(fruBuf, fruRec.from, fruRec.last) /\ at + len <= fruRec.last
        BY <1>0, <1>1, <3>6 DEF FruSoFar, FruPlain
      <4>5. p <= fruRec.last /\ p > fruRec.from
        <5>1. fruRec.last \in Nat
          BY <1>0 DEF FruTypes
        <5> QED
          BY <1>0, <1>2, <3>1, <3>5, <3>6, <4>1, <4>4, <5>1
      <4> QED
        BY <4>3, <4>4, <4>5 DEF FruFilled
    <3> QED
      BY <3>3, <3>4, <3>5, <3>6
  <2>13. fruDev'.data = data /\ FruKind' = FruKind /\ fruDev'.kind = fruDev.kind
    BY <2>2, <2>3 DEF FruKind
  <2>14. FruDevice'
    <3>1. FruPlain' => FruPlain /\ fruCmd = "edit" /\ ~FruKind.words /\ fruHist = {}
      BY <1>0, <1>3, <1>6, <2>13 DEF FruPlain
    <3>2. FruPlain => \A p \in 1..FruSize : FruSame(p, data[p])
      <4>1. FruPlain => fruCmd = "edit" /\ ~FruKind.words /\ fruHist = {}
        BY <1>3 DEF FruPlain
      <4>2. FruPlain => \A p \in 1..FruSize : FruSame(p, fruDev.data[p])
        BY <1>0 DEF FruDevice
      <4> QED
        BY <2>6, <2>12, <4>1, <4>2
    <3>3. FruPlain => FruGood(fruBuf)
      BY <1>0 DEF FruDevice
    <3> QED
      BY <1>0, <2>13, <3>1, <3>2, <3>3 DEF FruDevice, FruGood, FruSame
  <2>15. FruWriteExact'
    <3> SUFFICES ASSUME NEW p \in 1..FruSize
                 PROVE  \/ data[p] = p
                        \/ fruCmd = "write" /\ data[p] = -p
                        \/ fruCmd = "upgEkey" /\ p > FruMulti /\ data[p] = -(p - FruMulti)
                        \/ fruCmd = "edit" /\ p > fruRec.from /\ (data[p] \in {100, 200} \/ FruKind.words \/ fruHist # {})
      BY <1>0, <1>6, <2>13 DEF FruWriteExact
    <3>1. CASE p \notin (put + 1)..(put + FruPiece)
      BY <1>0, <2>6, <3>1, SMTT(30) DEF FruWriteExact
    <3>2. CASE p \in (put + 1)..(put + FruPiece)
      BY <1>3, <2>12, <3>2 DEF FruSame
    <3> QED
      BY <3>1, <3>2
  <2>16. CASE off + FruPiece >= len
    <3>1. FruWritten
      BY <1>1, <1>6, <2>16
    <3>2. FruStage' /\ FruBytesTrue' /\ FruSoFar'
      BY <1>4, <1>6, <2>11, <2>13, <3>1 DEF FruTypes
    <3> QED
      BY <2>11, <2>14, <2>15, <3>2 DEF FruInv
  <2>17. CASE ~(off + FruPiece >= len)
    <3>1. fruAt' = "write" /\ fruHist' = fruHist
      BY <1>0, <1>1, <1>6, <2>17
    <3>2. FruPiece = FruWr /\ FruEven(off + FruPiece) /\ off + FruPiece <= len
      <4>1. FruPiece = FruWr
        BY <1>2, <2>17
      <4> QED
        BY <1>0, <1>2, <2>17, <4>1, FruEvenSum
    <3>3. FruWriting'
      BY <1>0, <1>1, <1>2, <2>10, <2>13, <3>2 DEF FruWriting, FruWalking, FruAligned, FruFile
    <3>4. FruStage'
      BY <3>1, <3>3 DEF FruStage
    <3>5. FruBytesTrue'
      BY <1>0, <3>1 DEF FruBytesTrue
    <3>6. FruSoFar'
      BY <1>0, <1>1, <2>10, <2>13, <3>1 DEF FruSoFar, FruFilled, FruSame, FruPlain
    <3> QED
      BY <2>11, <2>14, <2>15, <3>4, <3>5, <3>6 DEF FruInv
  <2> QED
    BY <2>16, <2>17
<1> QED
  BY <1>5, <1>6 DEF write_fru_area

LEMMA FruReadBegins ==
  ASSUME FruInv, NEW from \in Nat, NEW len \in Nat, NEW for \in {"length", "file", "multi"}, FruRead(from, len, for)
  PROVE  /\ fruAt' = "read" /\ fruRqSize' \in Nat
         /\ fruRd' = [from |-> from, off |-> from, finish |-> FruLess(from + len, FruSize), for |-> for]
         /\ fruRd' \in [from : Nat, off : Nat, finish : Nat, for : {"none", "length", "area", "file", "multi"}]
<1>1. FruSize \in Nat /\ FruRqWords \in Nat /\ fruRqSize \in Nat
  BY FruNumbers DEF FruInv, FruTypes
<1>2. FruLess(from + len, FruSize) \in Nat
  BY <1>1 DEF FruLess
<1>3. fruRqSize' \in Nat
  BY <1>1 DEF FruRead, FruLess
<1> QED
  BY <1>2, <1>3 DEF FruRead

LEMMA FruWriteBegins ==
  ASSUME FruTypes, NEW at \in Nat, NEW len \in Nat, FruWrite(at, len)
  PROVE  /\ fruWrt' \in [at : Nat, off : Nat, len : Nat] /\ fruAt' \in {"done", "walk", "write"}
         /\ (fruAt' = "walk" => fruCmd = "edit") /\ (fruCmd = "edit" => fruAt' # "done")
         /\ fruAt' = "write" => fruWrt' = [at |-> at, off |-> 0, len |-> len] /\ at + len <= FruSize
<1>1. FruSize \in Nat
  BY FruNumbers
<1> QED
  BY <1>1, SMTT(30) DEF FruWrite, FruTypes, FruWritten

LEMMA FruFileTyped == FruFile \in [1..FruSize -> Int]
BY FruNumbers DEF FruFile

LEMMA FruMainKept == ASSUME FruInv, ipmi_fru_main PROVE FruInv'
<1>1. /\ fruAt = "new" /\ fruAt' = "info" /\ fruCmd' \in {"print", "read", "write", "edit", "upgEkey"} /\ fruCmd = "none"
      /\ UNCHANGED <<fruBuf, fruRd, fruWrt, fruRqSize, fruTodo, fruRec, fruOut, fruFaults, fruHist>>
      /\ FruTypes /\ FruDevice /\ FruBytesTrue /\ FruFresh
  BY DEF ipmi_fru_main, FruInv, FruStage
<1>2. PICK k \in FruDevices : fruDev' = [fruDev EXCEPT !.kind = k]
  BY DEF ipmi_fru_main
<1>3. k \in [words : BOOLEAN, limit : Nat, real : 0..FruSize] /\ (k.words => FruEven(k.real))
  BY FruShapes DEF FruEven
<1>4. PICK d \in [1..FruSize -> Int] : fruDev.data = d /\ fruDev' = [kind |-> k, data |-> d]
  BY <1>1, <1>2 DEF FruTypes
<1>5. FruTypes'
  BY <1>1, <1>3, <1>4 DEF FruTypes, FruKind
<1>6. \A p \in 1..FruSize : fruBuf[p] \in {0, p} /\ d[p] = p
  BY <1>1, <1>4 DEF FruDevice, FruPlain, FruGood, FruSame, FruFresh
<1>7. FruDevice' /\ FruBytesTrue' /\ FruWriteExact'
  BY <1>1, <1>4, <1>6 DEF FruDevice, FruGood, FruSame, FruBytesTrue, FruWriteExact
<1>8. FruStage' /\ FruSoFar'
  BY <1>1, <1>4, <1>6 DEF FruStage, FruSoFar, FruFresh
<1> QED
  BY <1>5, <1>7, <1>8 DEF FruInv

(* The device and what was printed stay, and the command ends or goes on.  *)
LEMMA FruCalm ==
  ASSUME FruInv, UNCHANGED <<fruCmd, fruDev, fruOut, fruHist>>, FruTypes', FruStage', FruSoFar', FruPlain => FruGood(fruBuf'),
         fruRec'.from = fruRec.from \/ FruFresh
  PROVE  FruInv'
<1>1. FruDevice /\ FruBytesTrue /\ FruWriteExact
  BY DEF FruInv
<1>2. FruDevice'
  BY <1>1 DEF FruDevice, FruPlain, FruGood, FruSame, FruKind
<1>3. FruBytesTrue' /\ FruWriteExact'
  BY <1>1 DEF FruBytesTrue, FruWriteExact, FruKind, FruFresh
<1> QED
  BY <1>2, <1>3 DEF FruInv

LEMMA FruDoneKept ==
  ASSUME FruInv, UNCHANGED <<fruCmd, fruDev, fruOut, fruHist, fruBuf, fruRd, fruWrt, fruRqSize, fruTodo, fruRec>>,
         fruAt' \in {"done", "crashed"}
  PROVE  FruInv'
<1>1. FruTypes'
  BY DEF FruInv, FruTypes, FruKind
<1>2. FruStage' /\ FruSoFar'
  BY DEF FruStage, FruSoFar
<1>3. FruPlain => FruGood(fruBuf')
  BY DEF FruInv, FruDevice
<1> QED
  BY <1>1, <1>2, <1>3, FruCalm

LEMMA FruWalkBegins ==
  ASSUME FruInv, UNCHANGED <<fruCmd, fruDev, fruOut, fruHist, fruBuf, fruRd, fruWrt, fruRqSize>>, FruFresh,
         NEW n \in Nat, NEW off \in Nat, FruEven(off), FruWalk(n, off),
         fruTodo' \in Seq([off : Nat, len : Nat]), \A k \in DOMAIN fruTodo' : FruEven(fruTodo'[k].off),
         (fruCmd = "print" /\ fruAt' = "area") \/ (fruCmd = "edit" /\ fruAt' = "again")
  PROVE  FruInv'
<1>1. /\ fruRec' = [n |-> n, from |-> off, i |-> off, last |-> off, final |-> FALSE]
      /\ fruRec' \in [n : Nat, from : Nat, i : Nat, last : Nat, final : BOOLEAN]
  BY DEF FruWalk
<1>2. FruTypes'
  BY <1>1 DEF FruTypes, FruKind, FruInv
<1>3. FruStage' /\ FruSoFar'
  BY <1>1 DEF FruStage, FruPrinting, FruWalking, FruAligned, FruSoFar
<1>4. FruPlain => FruGood(fruBuf')
  BY DEF FruInv, FruDevice
<1> QED
  BY <1>2, <1>3, <1>4, FruCalm

LEMMA FruNoneKept ==
  ASSUME FruInv, FruNone, UNCHANGED <<fruCmd, fruDev, fruOut, fruHist>>, FruFresh
  PROVE  FruInv'
<1>1. CASE fruCmd = "edit"
  <2>1. fruAt' = "again" /\ FruWalk(0, 0) /\ UNCHANGED <<fruBuf, fruRd, fruWrt, fruRqSize, fruTodo>> /\ FruEven(0)
    BY <1>1 DEF FruNone, FruEven
  <2>2. fruTodo' \in Seq([off : Nat, len : Nat]) /\ \A k \in DOMAIN fruTodo' : FruEven(fruTodo'[k].off)
    BY <2>1 DEF FruInv, FruTypes
  <2> QED
    BY <1>1, <2>1, <2>2, FruWalkBegins
<1>2. CASE fruCmd # "edit"
  BY <1>2, FruDoneKept DEF FruNone
<1> QED
  BY <1>1, <1>2

LEMMA FruInfoKept == ASSUME FruInv, FruInfo PROVE FruInv'
<1>0. /\ fruAt = "info" /\ UNCHANGED <<fruCmd, fruDev, fruOut, fruHist>> /\ FruTypes /\ FruSize \in Nat /\ FruMulti \in Nat
      /\ fruCmd \in {"print", "read", "write", "edit", "upgEkey"} /\ (FruPlain => FruGood(fruBuf)) /\ FruFresh
  BY FruNumbers DEF FruInfo, FruInv, FruStage, FruDevice
<1>1. CASE fruCmd = "read" /\ FruRead(0, FruSize, "file") /\ UNCHANGED <<fruBuf, fruWrt, fruTodo, fruRec>>
  <2>1. /\ fruAt' = "read" /\ fruRqSize' \in Nat /\ fruRd' = [from |-> 0, off |-> 0, finish |-> FruLess(0 + FruSize, FruSize), for |-> "file"]
        /\ fruRd' \in [from : Nat, off : Nat, finish : Nat, for : {"none", "length", "area", "file", "multi"}]
    BY <1>0, <1>1, FruReadBegins
  <2>2. FruLess(0 + FruSize, FruSize) = FruSize
    BY <1>0 DEF FruLess
  <2>3. FruTypes'
    BY <1>0, <1>1, <2>1 DEF FruTypes, FruKind
  <2>4. FruStage'
    BY <1>0, <1>1, <2>1, <2>2 DEF FruStage, FruReading, FruAligned, FruEven
  <2>5. FruSoFar'
    BY <1>0, <2>1 DEF FruSoFar, FruFilled
  <2> QED
    BY <1>0, <1>1, <2>3, <2>4, <2>5, FruCalm
<1>2. ASSUME fruCmd = "write", fruBuf' = FruFile, UNCHANGED <<fruRd, fruRqSize, fruTodo, fruRec>>, NEW len \in 1..FruSize, FruWrite(0, len)
      PROVE  FruInv'
  <2>0. len \in Nat
    BY <1>0
  <2>1. /\ fruWrt' \in [at : Nat, off : Nat, len : Nat] /\ fruAt' \in {"done", "write"}
        /\ fruAt' = "write" => fruWrt' = [at |-> 0, off |-> 0, len |-> len] /\ 0 + len <= FruSize
    BY <1>0, <1>2, <2>0, FruWriteBegins
  <2>2. ~FruPlain /\ ~FruPlain'
    BY <1>0, <1>2 DEF FruPlain
  <2>3. FruTypes'
    BY <1>0, <1>2, <2>1, FruFileTyped DEF FruTypes, FruKind
  <2>4. FruStage'
    BY <1>0, <1>2, <2>0, <2>1 DEF FruStage, FruWriting, FruEven, FruFile
  <2> QED
    BY <1>0, <2>2, <2>3, <2>4, FruCalm DEF FruSoFar
<1>3. CASE fruCmd \notin {"read", "write"} /\ fruAt' = "header" /\ UNCHANGED <<fruBuf, fruRd, fruWrt, fruRqSize, fruTodo, fruRec>>
  <2>1. FruTypes' /\ FruStage' /\ FruSoFar'
    BY <1>0, <1>3 DEF FruTypes, FruKind, FruStage, FruSoFar, FruFresh
  <2> QED
    BY <1>0, <1>3, <2>1, FruCalm
<1>4. CASE FruNone
  BY <1>0, <1>4, FruNoneKept
<1> QED
  BY <1>1, <1>2, <1>3, <1>4 DEF FruInfo

LEMMA FruHeaderKept == ASSUME FruInv, FruHeader PROVE FruInv'
<1>0. /\ fruAt = "header" /\ UNCHANGED <<fruCmd, fruDev, fruOut, fruHist, fruRd, fruRqSize>> /\ FruTypes /\ FruSize \in Nat /\ FruMulti \in Nat
      /\ fruCmd \in {"print", "edit", "upgEkey"} /\ (FruPlain => FruGood(fruBuf)) /\ FruEven(FruMulti) /\ FruFresh
  BY FruNumbers, FruShapes DEF FruHeader, FruInv, FruStage, FruDevice, FruEven
<1>1. CASE FruWalk(1, FruMulti) /\ UNCHANGED <<fruBuf, fruWrt>>
           /\ \/ fruCmd = "print" /\ fruTodo' = FruAreas /\ fruAt' = "area"
              \/ fruCmd = "edit" /\ fruAt' = "again" /\ UNCHANGED fruTodo
  <2>1. fruTodo' \in Seq([off : Nat, len : Nat]) /\ \A k \in DOMAIN fruTodo' : FruEven(fruTodo'[k].off)
    BY <1>0, <1>1, FruShapes DEF FruTypes, FruEven
  <2> QED
    BY <1>0, <1>1, <2>1, FruWalkBegins
<1>2. ASSUME fruCmd = "upgEkey", fruBuf' = FruFile, UNCHANGED <<fruTodo, fruRec>>, NEW len \in 1..FruSize, FruWrite(FruMulti, len)
      PROVE  FruInv'
  <2>0. len \in Nat
    BY <1>0
  <2>1. /\ fruWrt' \in [at : Nat, off : Nat, len : Nat] /\ fruAt' \in {"done", "write"}
        /\ fruAt' = "write" => fruWrt' = [at |-> FruMulti, off |-> 0, len |-> len] /\ FruMulti + len <= FruSize
    BY <1>0, <1>2, <2>0, FruWriteBegins
  <2>2. ~FruPlain /\ ~FruPlain'
    BY <1>0, <1>2 DEF FruPlain
  <2>3. FruTypes'
    BY <1>0, <1>2, <2>1, FruFileTyped DEF FruTypes, FruKind
  <2>4. FruStage'
    <3>1. ASSUME fruAt' = "write" PROVE FruWriting'
      <4>1. fruWrt'.at = FruMulti /\ fruWrt'.off = 0 /\ fruWrt'.len = len /\ FruMulti + len <= FruSize /\ FruEven(0)
        BY <2>1, <3>1 DEF FruEven
      <4>2. fruBuf' = FruFile' /\ fruCmd' = "upgEkey"
        BY <1>0, <1>2 DEF FruFile
      <4> QED
        BY <2>0, <4>1, <4>2 DEF FruWriting
    <3> QED
      BY <2>1, <3>1 DEF FruStage
  <2> QED
    BY <1>0, <2>2, <2>3, <2>4, FruCalm DEF FruSoFar
<1>3. CASE FruNone
  BY <1>0, <1>3, FruNoneKept
<1> QED
  BY <1>0, <1>1, <1>2, <1>3 DEF FruHeader

LEMMA FruAgainKept == ASSUME FruInv, FruAgain PROVE FruInv'
<1>0. /\ fruAt = "again" /\ UNCHANGED <<fruCmd, fruDev, fruBuf, fruRd, fruWrt, fruRqSize, fruTodo, fruRec, fruOut, fruFaults, fruHist>>
      /\ fruAt' \in {"walk", "done"} /\ FruTypes /\ fruCmd = "edit" /\ FruWalking /\ fruRec.last = fruRec.from
      /\ (FruPlain => FruGood(fruBuf))
  BY DEF FruAgain, FruInv, FruStage, FruDevice
<1>1. FruTypes' /\ FruStage'
  BY <1>0 DEF FruTypes, FruStage, FruWalking, FruAligned, FruKind
<1>2. FruFilled(fruBuf, fruRec.from, fruRec.last)'
  BY <1>0 DEF FruFilled, FruTypes
<1>3. FruSoFar'
  BY <1>0, <1>2 DEF FruSoFar
<1> QED
  BY <1>0, <1>1, <1>3, FruCalm

LEMMA FruAreaKept == ASSUME FruInv, FruArea PROVE FruInv'
<1>0. /\ fruAt = "area" /\ UNCHANGED <<fruCmd, fruDev, fruWrt, fruTodo, fruRec, fruOut, fruFaults, fruHist>>
      /\ fruBuf' = [p \in 1..FruSize |-> 0] /\ FruTypes /\ FruPrinting /\ FruSize \in Nat
      /\ \/ fruTodo = <<>> /\ fruAt' = "walk" /\ UNCHANGED <<fruRd, fruRqSize>>
         \/ fruTodo # <<>> /\ FruRead(Head(fruTodo).off, 2, "length")
  BY FruNumbers DEF FruArea, FruInv, FruStage
<1>1. fruBuf' \in [1..FruSize -> Int] /\ FruGood(fruBuf')
  BY <1>0 DEF FruGood
<1>2. CASE fruTodo = <<>> /\ fruAt' = "walk" /\ UNCHANGED <<fruRd, fruRqSize>>
  <2>1. FruTypes'
    BY <1>0, <1>1, <1>2 DEF FruTypes, FruKind
  <2>2. FruStage'
    BY <1>0, <1>2 DEF FruStage, FruPrinting, FruWalking, FruAligned, FruKind
  <2>3. FruFilled(fruBuf, fruRec.from, fruRec.last)'
    BY <1>0 DEF FruFilled, FruPrinting, FruTypes
  <2>4. FruSoFar'
    BY <1>2, <2>3 DEF FruSoFar
  <2> QED
    BY <1>0, <1>1, <2>1, <2>2, <2>4, FruCalm
<1>3. CASE fruTodo # <<>> /\ FruRead(Head(fruTodo).off, 2, "length")
  <2>1. Head(fruTodo).off \in Nat /\ FruEven(Head(fruTodo).off)
    BY <1>0, <1>3, FruTodoFacts
  <2> DEFINE from == Head(fruTodo).off
             f == FruLess(from + 2, FruSize)
  <2>2. /\ fruAt' = "read" /\ fruRqSize' \in Nat /\ fruRd' = [from |-> from, off |-> from, finish |-> f, for |-> "length"]
        /\ fruRd' \in [from : Nat, off : Nat, finish : Nat, for : {"none", "length", "area", "file", "multi"}]
    BY <1>3, <2>1, FruReadBegins
  <2> HIDE DEF f
  <2>3. FruTypes'
    BY <1>0, <1>1, <2>2 DEF FruTypes, FruKind
  <2>4. FruStage'
    BY <1>0, <1>3, <2>1, <2>2 DEF FruStage, FruReading, FruPrinting, FruWalking, FruAligned, FruKind
  <2>5. FruSoFar'
    BY <2>1, <2>2 DEF FruSoFar, FruFilled
  <2> QED
    BY <1>0, <1>1, <2>3, <2>4, <2>5, FruCalm
<1> QED
  BY <1>0, <1>2, <1>3

LEMMA FruReadRecordKept == ASSUME FruInv, FruReadRecord PROVE FruInv'
<1>0. /\ fruAt = "walk" /\ UNCHANGED <<fruCmd, fruDev, fruBuf, fruWrt, fruTodo, fruRec, fruOut, fruFaults, fruHist>>
      /\ FruTypes /\ fruCmd \in {"print", "edit"} /\ FruWalking /\ FruSoFar /\ (FruPlain => FruGood(fruBuf))
      /\ FruSize \in Nat /\ FruMulti \in Nat /\ FruChunk \in Nat /\ FruEven(FruChunk) /\ fruRec.last \in Nat
  BY FruNumbers, FruShapes DEF FruReadRecord, FruInv, FruStage, FruDevice, FruTypes, FruEven
<1>1. CASE fruAt' = "done" /\ UNCHANGED <<fruRd, fruRqSize>>
  BY <1>0, <1>1, FruDoneKept
<1>2. CASE ~(fruRec.last > FruSize) /\ FruRead(fruRec.last, FruLess(FruSize - fruRec.last, FruChunk), "multi")
  <2> DEFINE last == fruRec.last
             len == FruLess(FruSize - last, FruChunk)
             f == FruLess(last + len, FruSize)
  <2>1. len \in Nat /\ (len = FruSize - last \/ len = FruChunk) /\ len <= FruSize - last
    BY <1>0, <1>2 DEF FruLess
  <2>2. /\ fruAt' = "read" /\ fruRqSize' \in Nat /\ fruRd' = [from |-> last, off |-> last, finish |-> f, for |-> "multi"]
        /\ fruRd' \in [from : Nat, off : Nat, finish : Nat, for : {"none", "length", "area", "file", "multi"}]
    BY <1>0, <1>2, <2>1, FruReadBegins
  <2> HIDE DEF len
  <2>3. f = last + len /\ f >= last
    BY <1>0, <2>1 DEF FruLess
  <2>4. FruAligned(f)
    <3>1. CASE len = FruSize - last
      BY <1>0, <2>3, <3>1 DEF FruAligned
    <3>2. CASE len = FruChunk /\ FruEven(last)
      <4>0. last \in Int /\ len \in Int /\ FruEven(len)
        BY <1>0, <2>1, <3>2
      <4>1. FruEven(last + len)
        BY <3>2, <4>0, FruEvenSum
      <4> QED
        BY <2>3, <4>1 DEF FruAligned
    <3>3. CASE last >= FruSize
      <4>1. f >= FruSize
        BY <1>0, <2>1, <2>3, <3>3
      <4> QED
        BY <4>1 DEF FruAligned
    <3>4. CASE ~FruKind.words
      BY <3>4 DEF FruAligned
    <3> QED
      BY <1>0, <2>1, <3>1, <3>2, <3>3, <3>4 DEF FruWalking, FruAligned
  <2> HIDE DEF f
  <2>5. FruTypes'
    BY <1>0, <2>2 DEF FruTypes, FruKind
  <2>6. FruReading'
    BY <1>0, <2>2, <2>3, <2>4 DEF FruReading, FruWalking, FruAligned, FruKind
  <2>7. FruStage'
    BY <2>2, <2>6 DEF FruStage
  <2>8. FruSoFar'
    <3>1. FruFilled(fruBuf, fruRd.from, fruRd.off)'
      BY <1>0, <2>2 DEF FruFilled
    <3> QED
      BY <1>0, <2>2, <3>1 DEF FruSoFar, FruPlain, FruFilled, FruSame, FruKind
  <2> QED
    BY <1>0, <2>5, <2>7, <2>8, FruCalm
<1> QED
  BY <1>1, <1>2 DEF FruReadRecord

LEMMA FruRecordFacts ==
  ASSUME FruInv, NEW h \in FruHeaders, FruRecord(h)
  PROVE  /\ fruRec.i \in Nat /\ fruRec.last \in Nat /\ fruRec.from \in Nat /\ fruRec.i >= fruRec.from
         /\ FruHdr \in Nat /\ FruSize \in Nat /\ h.len \in Nat /\ FruRecEnd(h) = fruRec.i + (FruHdr + h.len)
         /\ fruRec' \in [n : Nat, from : Nat, i : Nat, last : Nat, final : BOOLEAN]
         /\ fruRec'.i = FruRecEnd(h) /\ fruRec'.last = fruRec.last /\ fruRec'.from = fruRec.from
         /\ fruCmd \in {"print", "edit"} /\ FruWalking /\ FruWalking' /\ (FruPlain /\ fruHist = {} => FruFilled(fruBuf, fruRec.from, fruRec.last))
         /\ fruHist \subseteq fruHist' /\ (fruHist' = {} => fruHist = {} /\ FruRecEnd(h) <= fruRec.last)
<1>1. /\ fruAt \in {"walk", "record"} /\ FruTypes /\ FruWalking /\ fruCmd \in {"print", "edit"} /\ FruHdr \in Nat /\ FruSize \in Nat
      /\ (FruPlain /\ fruHist = {} => FruFilled(fruBuf, fruRec.from, fruRec.last)) /\ UNCHANGED <<fruCmd, fruDev>>
  BY FruNumbers DEF FruInv, FruStage, FruRecord, FruSoFar
<1>2. PICK n \in Nat, base \in Nat, i \in Nat, last \in Nat, final \in BOOLEAN :
        fruRec = [n |-> n, from |-> base, i |-> i, last |-> last, final |-> final]
  BY <1>1 DEF FruTypes
<1>3. h.len \in Nat /\ h.final \in BOOLEAN
  <2>1. CASE FruKnown
    <3>1. n \in DOMAIN FruRecs /\ FruRecs \in Seq(Nat)
      BY <1>2, <2>1, FruShapes DEF FruKnown
    <3>2. h = [len |-> FruRecs[fruRec.n], final |-> fruRec.n = Len(FruRecs)]
      BY <2>1 DEF FruHeaders
    <3> QED
      BY <1>2, <3>1, <3>2
  <2>2. CASE ~FruKnown /\ FruMissing
    <3>1. h = [len |-> 0, final |-> FALSE]
      BY <2>2 DEF FruHeaders
    <3> QED
      BY <3>1
  <2>3. CASE ~FruKnown /\ ~FruMissing
    <3>1. h \in [len : FruLens, final : BOOLEAN]
      BY <2>3 DEF FruHeaders
    <3> QED
      BY <3>1, FruNumbers
  <2> QED
    BY <2>1, <2>2, <2>3
<1>4. FruRecEnd(h) = i + (FruHdr + h.len) /\ FruRecEnd(h) \in Nat /\ FruRecEnd(h) >= i
  BY <1>1, <1>2, <1>3 DEF FruRecEnd
<1>5. PICK m \in Nat : fruRec' = [n |-> m, from |-> base, i |-> FruRecEnd(h), last |-> last, final |-> h.final]
  <2>1. CASE FruKnown
    <3>1. fruRec' = [fruRec EXCEPT !.n = fruRec.n + 1, !.i = FruRecEnd(h), !.final = h.final]
      BY <2>1 DEF FruRecord, FruNextRecord
    <3>2. fruRec' = [n |-> n + 1, from |-> base, i |-> FruRecEnd(h), last |-> last, final |-> h.final]
      BY <1>2, <3>1
    <3>3. n + 1 \in Nat
      OBVIOUS
    <3> QED
      BY <3>2, <3>3
  <2>2. CASE ~FruKnown
    <3>1. 0 \in Nat /\ fruRec' = [n |-> 0, from |-> base, i |-> FruRecEnd(h), last |-> last, final |-> h.final]
      BY <1>2, <2>2 DEF FruRecord, FruNextRecord
    <3> QED
      BY <3>1
  <2> QED
    BY <2>1, <2>2
<1>6. fruRec' \in [n : Nat, from : Nat, i : Nat, last : Nat, final : BOOLEAN]
  BY <1>3, <1>4, <1>5
<1>7. FruWalking'
  BY <1>1, <1>2, <1>4, <1>5 DEF FruWalking, FruAligned, FruKind
<1>8. fruHist \subseteq fruHist' /\ (fruHist' = {} => fruHist = {} /\ FruRecEnd(h) <= last)
  BY <1>2, <1>4 DEF FruRecord, FruTorn
<1> QED
  BY <1>1, <1>2, <1>3, <1>4, <1>5, <1>6, <1>7, <1>8 DEF FruWalking

LEMMA FruPrintKept == ASSUME FruInv, fru_area_print_multirec PROVE FruInv'
<1>a. PICK h \in FruHeaders : FruRecord(h) /\ FruPrints(fruRec.i, FruHdr + h.len)
  BY DEF fru_area_print_multirec
<1>0. /\ fruCmd = "print" /\ fruAt' = "walk" /\ UNCHANGED <<fruBuf, fruWrt>>
      /\ UNCHANGED <<fruCmd, fruDev, fruRd, fruRqSize, fruTodo, fruFaults>>
      /\ FruTypes /\ FruDevice /\ FruBytesTrue /\ FruWriteExact
  BY <1>a DEF fru_area_print_multirec, FruRecord, FruInv
<1>1. /\ fruRec.i \in Nat /\ fruRec.last \in Nat /\ fruRec.from \in Nat /\ fruRec.i >= fruRec.from
      /\ FruHdr \in Nat /\ FruSize \in Nat /\ h.len \in Nat /\ FruRecEnd(h) = fruRec.i + (FruHdr + h.len)
      /\ fruRec' \in [n : Nat, from : Nat, i : Nat, last : Nat, final : BOOLEAN]
      /\ fruRec'.last = fruRec.last /\ fruRec'.from = fruRec.from
      /\ FruWalking' /\ (FruPlain /\ fruHist = {} => FruFilled(fruBuf, fruRec.from, fruRec.last))
      /\ fruHist \subseteq fruHist' /\ (fruHist' = {} => fruHist = {} /\ FruRecEnd(h) <= fruRec.last)
  BY <1>a, FruRecordFacts
<1>2. FruTypes'
  BY <1>0, <1>1 DEF FruTypes, FruKind
<1>3. FruStage'
  BY <1>0, <1>1 DEF FruStage
<1>4. FruPlain
  BY <1>0 DEF FruPlain
<1>5. FruDevice'
  BY <1>0, <1>4 DEF FruDevice, FruGood, FruSame
<1>7. FruSoFar'
  BY <1>0, <1>1, <1>4 DEF FruSoFar, FruFilled, FruSame
<1>8. FruWriteExact'
  BY <1>0 DEF FruWriteExact
<1>9. FruBytesTrue'
  <2>1. \A p \in 1..FruSize : fruBuf'[p] \in {0, p}
    BY <1>0, <1>4 DEF FruDevice, FruGood, FruSame
  <2>2. FruHdr + h.len \in Nat
    BY <1>1
  <2>3. fruHist' = {} => \A p \in 1..FruSize : p > fruRec.i /\ p <= fruRec.i + (FruHdr + h.len) => fruBuf'[p] = p
    BY <1>0, <1>1, <1>4 DEF FruFilled, FruSame
  <2>4. fruBuf' \in [1..FruSize -> Int]
    BY <1>0 DEF FruTypes
  <2> QED
    BY <1>a, <1>0, <1>1, <2>1, <2>2, <2>3, <2>4, FruPrintsKept
<1> QED
  BY <1>2, <1>3, <1>5, <1>7, <1>8, <1>9 DEF FruInv

LEMMA FruEditKept == ASSUME FruInv, ipmi_fru_edit_multirec PROVE FruInv'
<1> DEFINE new == [p \in 1..FruSize |-> CASE p = fruRec.i + 1 -> 200
                                         [] p = fruRec.i + FruHdr + 1 -> 100
                                         [] OTHER -> fruBuf[p]]
<1>a. PICK h \in FruHeaders :
        /\ FruRecord(h)
        /\ \/ fruAt' = "walk" /\ UNCHANGED <<fruBuf, fruWrt>>
           \/ fruBuf' = new /\ FruWrite(fruRec.i, FruHdr + h.len)
  BY DEF ipmi_fru_edit_multirec
<1>0. /\ fruCmd = "edit" /\ UNCHANGED fruOut
      /\ UNCHANGED <<fruCmd, fruDev, fruRd, fruRqSize, fruTodo, fruFaults>>
      /\ FruTypes /\ FruDevice /\ FruBytesTrue /\ FruWriteExact
  BY <1>a DEF ipmi_fru_edit_multirec, FruRecord, FruInv
<1>1. /\ fruRec.i \in Nat /\ fruRec.last \in Nat /\ fruRec.from \in Nat /\ fruRec.i >= fruRec.from
      /\ FruHdr \in Nat /\ FruSize \in Nat /\ h.len \in Nat /\ FruRecEnd(h) = fruRec.i + (FruHdr + h.len)
      /\ fruRec' \in [n : Nat, from : Nat, i : Nat, last : Nat, final : BOOLEAN]
      /\ fruRec'.last = fruRec.last /\ fruRec'.from = fruRec.from
      /\ FruWalking' /\ (FruPlain /\ fruHist = {} => FruFilled(fruBuf, fruRec.from, fruRec.last))
      /\ fruHist \subseteq fruHist' /\ (fruHist' = {} => fruHist = {} /\ FruRecEnd(h) <= fruRec.last)
  BY <1>a, FruRecordFacts
<1>2. FruPlain' => FruPlain /\ fruHist = {} /\ fruHist' = {} /\ FruRecEnd(h) <= fruRec.last
  BY <1>0, <1>1 DEF FruPlain, FruKind
<1>3. FruBytesTrue' /\ FruWriteExact'
  BY <1>0, <1>1 DEF FruBytesTrue, FruWriteExact, FruKind
<1> HIDE DEF new
<1>5. ASSUME FruTypes', fruAt' \in {"walk", "write"}, fruAt' = "write" => FruWriting',
             fruAt' = "write" => fruWrt'.at + fruWrt'.len = FruRecEnd(h),
             \A p \in 1..FruSize : fruBuf'[p] = fruBuf[p] \/ fruBuf'[p] \in {100, 200}
      PROVE  FruInv'
  <2>1. FruStage'
    BY <1>0, <1>1, <1>5 DEF FruStage
  <2>2. FruDevice'
    BY <1>0, <1>2, <1>5 DEF FruDevice, FruGood, FruSame
  <2>3. FruSoFar'
    <3>1. FruPlain' => FruFilled(fruBuf, fruRec.from, fruRec.last) /\ FruRecEnd(h) <= fruRec.last
      BY <1>1, <1>2
    <3>2. FruPlain' => FruFilled(fruBuf, fruRec.from, fruRec.last)'
      BY <1>0, <1>1, <1>5, <3>1 DEF FruFilled, FruSame
    <3> QED
      BY <1>1, <1>5, <3>1, <3>2 DEF FruSoFar
  <2> QED
    BY <1>3, <1>5, <2>1, <2>2, <2>3 DEF FruInv
<1>6. CASE fruAt' = "walk" /\ UNCHANGED <<fruBuf, fruWrt>>
  <2>1. FruTypes'
    BY <1>0, <1>1, <1>6 DEF FruTypes, FruKind
  <2> QED
    BY <1>5, <1>6, <2>1
<1>7. CASE fruBuf' = new /\ FruWrite(fruRec.i, FruHdr + h.len)
  <2>1. FruHdr + h.len \in Nat
    BY <1>1
  <2>2. /\ fruWrt' \in [at : Nat, off : Nat, len : Nat] /\ fruAt' \in {"walk", "write"}
        /\ fruAt' = "write" => fruWrt' = [at |-> fruRec.i, off |-> 0, len |-> FruHdr + h.len] /\ fruRec.i + (FruHdr + h.len) <= FruSize
    BY <1>0, <1>1, <1>7, <2>1, FruWriteBegins
  <2>4. fruBuf' \in [1..FruSize -> Int] /\ \A p \in 1..FruSize : fruBuf'[p] = fruBuf[p] \/ fruBuf'[p] \in {100, 200}
    <3>1. fruBuf \in [1..FruSize -> Int]
      BY <1>0 DEF FruTypes
    <3>2. \A p \in 1..FruSize : new[p] = fruBuf[p] \/ new[p] \in {100, 200}
      BY DEF new
    <3>3. \A p \in 1..FruSize : new[p] \in Int
      BY <3>1, <3>2
    <3>4. new \in [1..FruSize -> Int]
      <4>1. new = [p \in 1..FruSize |-> new[p]]
        BY DEF new
      <4> QED
        BY <3>3, <4>1
    <3> QED
      BY <1>7, <3>2, <3>4
  <2>5. FruTypes'
    BY <1>0, <1>1, <2>2, <2>4 DEF FruTypes, FruKind
  <2>6. ASSUME fruAt' = "write" PROVE FruWriting' /\ fruWrt'.at + fruWrt'.len = FruRecEnd(h)
    <3>1. /\ fruWrt'.at = fruRec.i /\ fruWrt'.off = 0 /\ fruWrt'.len = FruHdr + h.len
          /\ fruRec.i + (FruHdr + h.len) <= FruSize /\ FruEven(0)
      BY <2>2, <2>6 DEF FruEven
    <3> QED
      BY <1>0, <1>1, <2>1, <3>1 DEF FruWriting
  <2> QED
    BY <1>5, <2>2, <2>4, <2>5, <2>6
<1> QED
  BY <1>a, <1>6, <1>7

LEMMA FruInvInit == FruInit => FruInv
<1> SUFFICES ASSUME FruInit PROVE FruInv
  OBVIOUS
<1>0. FruSize \in Nat /\ FruRq \in Nat
  BY FruNumbers
<1>1. [p \in 1..FruSize |-> p] \in [1..FruSize -> Int] /\ [p \in 1..FruSize |-> 0] \in [1..FruSize -> Int]
  BY <1>0
<1>2. FruTypes
  BY <1>0, <1>1 DEF FruInit, FruTypes, FruKind
<1>3. FruStage /\ FruSoFar
  BY <1>0 DEF FruInit, FruStage, FruSoFar, FruFresh
<1>4. FruDevice /\ FruBytesTrue /\ FruWriteExact
  BY <1>0 DEF FruInit, FruDevice, FruGood, FruSame, FruBytesTrue, FruWriteExact
<1> QED
  BY <1>2, <1>3, <1>4 DEF FruInv

LEMMA FruInvStep == ASSUME FruInv, [FruNext]_fruVars PROVE FruInv'
<1>1. CASE ipmi_fru_main
  BY <1>1, FruMainKept
<1>2. CASE FruInfo
  BY <1>2, FruInfoKept
<1>3. CASE FruHeader
  BY <1>3, FruHeaderKept
<1>4. CASE FruArea
  BY <1>4, FruAreaKept
<1>5. CASE read_fru_area
  BY <1>5, FruReadKept
<1>6. CASE FruReadRecord
  BY <1>6, FruReadRecordKept
<1>7. CASE fru_area_print_multirec
  BY <1>7, FruPrintKept
<1>8. CASE ipmi_fru_edit_multirec
  BY <1>8, FruEditKept
<1>9. CASE FruWalked
  BY <1>9, FruDoneKept DEF FruWalked
<1>12. CASE FruAgain
  BY <1>12, FruAgainKept
<1>10. CASE write_fru_area
  BY <1>10, FruWriteKept
<1>11. CASE UNCHANGED fruVars
  <2>1. FruTypes' /\ FruStage'
    BY <1>11 DEF fruVars, FruInv, FruTypes, FruStage, FruReading, FruWriting, FruPrinting, FruWalking, FruAligned, FruKind, FruFile, FruFresh
  <2>2. FruDevice' /\ FruSoFar'
    BY <1>11 DEF fruVars, FruInv, FruDevice, FruSoFar, FruPlain, FruGood, FruFilled, FruSame, FruKind
  <2>3. FruBytesTrue' /\ FruWriteExact'
    BY <1>11 DEF fruVars, FruInv, FruBytesTrue, FruWriteExact, FruKind
  <2> QED
    BY <2>1, <2>2, <2>3 DEF FruInv
<1> QED
  BY <1>1, <1>2, <1>3, <1>4, <1>5, <1>6, <1>7, <1>8, <1>9, <1>10, <1>11, <1>12 DEF FruNext

(* Bytes of the inventory that are printed, or stored in a file, are those *)
(* of the device, and a command that writes leaves every byte it is not    *)
(* about as it was: for any areas, records, sizes of requests and kinds of *)
(* devices, and however requests are refused, shortened or lost.           *)
THEOREM InventoryExact == CmdSpec => []FruExact
<1>1. CmdInit => FruInv
  BY FruInvInit DEF CmdInit
<1>2. FruInv /\ [CmdNext]_cmdVars => FruInv'
  BY CmdMoves, FruInvStep
<1>3. FruInv => FruExact
  BY DEF FruInv, FruExact
<1> QED
  BY <1>1, <1>2, <1>3, PTL DEF CmdSpec
-----------------------------------------------------------------------------
(* Sensors. A line shows a value the sensor had; the thresholds that are   *)
(* set are what was asked for, and those still to be set are among them.   *)
SnUnit(s) == SnSensors[s].unit
SnRawSet == 0..(SnRange - 1)
SnStates == {"ok", "nr", "cr", "nc", "none"}
SnLineSet == [valid : BOOLEAN, val : Int, status : SnStates]
SnTyped ==
  /\ snTodo \in Seq(SnIds) /\ snSets \in Seq([slot : SnSlots, val : Int])
  /\ snRsp \in [raw : SnRawSet, bits : SUBSET SnSlots] /\ snShown \in SnLineSet
  /\ snOut \in Seq([s : SnIds, line : SnLineSet, thr : [SnSlots -> Int]])
  /\ snRaw \in [SnIds -> SnRawSet] /\ snThr \in [SnIds -> [SnSlots -> Int]] /\ snSeen \in [SnIds -> SUBSET SnRawSet]
  /\ snWant \in [SnIds -> [SnSlots -> SUBSET SnAsked]]
SnLineTrue(s, l) ==
  l.valid /\ (SnUnit(s) <= 2 \/ SnListing) => \E r \in snSeen[s] : l.val = SnShownAs(s, r)
SnShowing ==
  /\ \A s \in SnIds : snRaw[s] \in snSeen[s]
  /\ snAt = "new" => snCmd = "none" /\ snOut = <<>>
  /\ snAt \in {"find", "read", "thresholds", "set"} => snTodo # <<>>
  /\ snAt = "thresholds" => SnLineTrue(SnSensor, snShown)
  /\ \A i \in DOMAIN snOut : SnLineTrue(snOut[i].s, snOut[i].line)
  /\ \A i \in DOMAIN snOut : snOut[i].thr \in {snThr[snOut[i].s], SnUnset} \/ "fault" \in snHist

SnWanted(s) == {slot \in SnSlots : snWant[s][slot] # {}}
SnAlone(s, slot) == Cardinality(SnWanted(s)) = 3 => slot \in {"unr", "lnc"}
SnNothing == \A s \in SnIds, slot \in SnSlots : snThr[s][slot] = -1 /\ snWant[s][slot] = {}
SnAsking ==
  /\ Len(snTodo) = 1 /\ snSets # <<>> /\ \A i \in DOMAIN snSets : snSets[i].val \in snWant[SnSensor][snSets[i].slot]
  /\ SnAlone(SnSensor, snSets[Len(snSets)].slot) /\ \A s \in SnIds : s # SnSensor => SnWanted(s) = {}
SnSetting ==
  /\ snAt = "new" => SnNothing
  /\ snAt = "set" => snCmd = "thresh"
  /\ snCmd = "thresh" =>
       /\ snAt \in {"find", "set", "done"} /\ snOut = <<>>
       /\ \A s \in SnIds, slot \in SnSlots : snThr[s][slot] >= 0 =>
            \E v \in snWant[s][slot] : snThr[s][slot] = sdr_convert_sensor_value_to_raw(s, v)
       /\ snAt # "done" => SnAsking
       /\ snAt = "done" /\ snRc = 0 =>
            \A s \in SnIds : SnWanted(s) # {} => \E slot \in SnWanted(s) : snThr[s][slot] >= 0 /\ SnAlone(s, slot)
SnInv == SnTyped /\ SnShowing /\ SnSetting

SnLins == {"linear", "sqr", "cube", "nonlinear"}
LEMMA SnConstants ==
  ASSUME NEW s \in SnIds
  PROVE  /\ SnSensors[s].unit \in 0..4 /\ SnSensors[s].m \in Int /\ SnSensors[s].b \in Int
         /\ SnRange \in Nat /\ SnHalf \in Nat /\ SnRange = 2 * SnHalf /\ SnHalf >= 1
<1>1. SnSensors \in Seq([unit : 0..4, m : Int, b : Int, lin : SnLins]) /\ SnRange \in Nat \ {0} /\ SnRange % 2 = 0
  BY SnNumbers DEF SnLins
<1>2. SnSensors[s] \in [unit : 0..4, m : Int, b : Int, lin : SnLins]
  <2> DEFINE S == [unit : 0..4, m : Int, b : Int, lin : SnLins]
  <2>1. SnSensors \in Seq(S)
    BY <1>1
  <2> HIDE DEF S
  <2>2. SnSensors[s] \in S
    BY <2>1 DEF SnIds
  <2> QED
    BY <2>2 DEF S
<1>3. SnHalf \in Nat /\ SnRange = 2 * SnHalf /\ SnHalf >= 1
  BY <1>1 DEF SnHalf
<1> QED
  BY <1>1, <1>2, <1>3

(* What sdr_convert_sensor_reading linearizes is what the raw value stands *)
(* for before that.                                                        *)
SnCode(s, v) ==
  LET r == SnSensors[s]
      up == IF r.unit = 1 /\ v >= SnHalf THEN (v + 1) % SnRange ELSE v IN
  r.m * (IF r.unit = 0 THEN v ELSE SnInt8(up)) + r.b
LEMMA SnReadsStraight ==
  ASSUME NEW s \in SnIds, SnUnit(s) <= 2, NEW r \in SnRawSet
  PROVE  SnCode(s, r) = SnStraight(s, r)
<1>1. SnSensors[s].unit \in 0..2 /\ SnRange \in Nat /\ SnHalf \in Nat /\ SnRange = 2 * SnHalf /\ SnHalf >= 1
  BY SnConstants DEF SnUnit
<1>2. r \in Nat /\ r < SnRange
  BY <1>1 DEF SnRawSet
<1>3. CASE SnSensors[s].unit = 0
  BY <1>3 DEF SnCode, SnStraight
<1>4. CASE SnSensors[s].unit = 2
  <2>1. SnCode(s, r) = SnSensors[s].m * SnInt8(r) + SnSensors[s].b
    BY <1>4 DEF SnCode
  <2>2. SnInt8(r) = (IF r < SnHalf THEN r ELSE r - SnRange)
    BY <1>1, <1>2 DEF SnInt8
  <2>3. SnStraight(s, r) = SnSensors[s].m * (IF r < SnHalf THEN r ELSE r - SnRange) + SnSensors[s].b
    BY <1>4 DEF SnStraight
  <2> QED
    BY <2>1, <2>2, <2>3
<1>5. CASE SnSensors[s].unit = 1
  <2>1. CASE r < SnHalf
    BY <1>1, <1>2, <1>5, <2>1 DEF SnCode, SnStraight, SnInt8
  <2>2. CASE r >= SnHalf /\ r + 1 < SnRange
    <3>1. (r + 1) % SnRange = r + 1
      BY <1>1, <1>2, <2>2
    <3>2. SnInt8(r + 1) = r - (SnRange - 1)
      BY <1>1, <1>2, <2>2 DEF SnInt8
    <3>3. SnCode(s, r) = SnSensors[s].m * SnInt8(r + 1) + SnSensors[s].b
      BY <1>5, <2>2, <3>1 DEF SnCode
    <3>4. SnStraight(s, r) = SnSensors[s].m * (r - (SnRange - 1)) + SnSensors[s].b
      BY <1>1, <1>2, <1>5, <2>2 DEF SnStraight
    <3> QED
      BY <3>2, <3>3, <3>4
  <2>3. CASE r + 1 = SnRange
    <3>1. (r + 1) % SnRange = 0 /\ r >= SnHalf
      BY <1>1, <1>2, <2>3
    <3>2. SnInt8(0) = 0 /\ r - (SnRange - 1) = 0
      BY <1>1, <1>2, <2>3 DEF SnInt8
    <3>3. SnCode(s, r) = SnSensors[s].m * SnInt8(0) + SnSensors[s].b
      BY <1>5, <3>1 DEF SnCode
    <3>4. SnStraight(s, r) = SnSensors[s].m * (r - (SnRange - 1)) + SnSensors[s].b
      BY <1>1, <1>2, <1>5, <3>1 DEF SnStraight
    <3> QED
      BY <3>2, <3>3, <3>4
  <2> QED
    BY <1>1, <1>2, <2>1, <2>2, <2>3
<1> QED
  BY <1>1, <1>3, <1>4, <1>5

LEMMA SnReads ==
  ASSUME NEW s \in SnIds, SnUnit(s) <= 2, NEW r \in SnRawSet
  PROVE  sdr_convert_sensor_reading(s, r) = SnMeaning(s, r)
<1>1. SnSensors[s].unit \in 0..4
  BY SnConstants
<1>2. ~(SnSensors[s].unit > 2)
  BY <1>1 DEF SnUnit
<1>3. sdr_convert_sensor_reading(s, r) = SnLinearized(SnSensors[s].lin, SnCode(s, r))
  BY <1>2 DEF sdr_convert_sensor_reading, SnCode
<1> QED
  BY <1>3, SnReadsStraight DEF SnMeaning

LEMMA SnDivides == ASSUME NEW a \in Nat \ {0}, NEW y \in Nat PROVE y = a * (y \div a) + (y % a) /\ y \div a \in Nat
<1>1. y = a * (y \div a) + (y % a)
  OBVIOUS
<1>2. y \div a \in Nat
  OBVIOUS
<1> QED
  BY <1>1, <1>2
LEMMA SnRest == ASSUME NEW a \in Nat \ {0}, NEW y \in Nat PROVE y % a \in 0..(a - 1)
OBVIOUS

(* Multiples that are close to each other.                                 *)
LEMMA SnMultiples ==
  ASSUME NEW a \in Nat \ {0}, NEW q \in Int, NEW h \in Int
  PROVE  /\ a * q <= a * h => q <= h
         /\ a * q < a * h => q + 1 <= h
         /\ a * (q + 1) = a * q + a /\ a * (-q) = -(a * q) /\ (-a) * q = -(a * q) /\ a * q \in Int
<1>1. a * (q + 1) = a * q + a /\ a * (-q) = -(a * q) /\ (-a) * q = -(a * q) /\ a * q \in Int
  OBVIOUS
<1>2. ASSUME q > h PROVE a * q > a * h
  <2>1. q - h \in Nat \ {0} /\ a * q = a * h + a * (q - h)
    BY <1>2
  <2>2. a * (q - h) >= 1
    BY <2>1
  <2> QED
    BY <2>1, <2>2
<1>3. a * q <= a * h => q <= h
  BY <1>2
<1>4. a * q < a * h => q # h /\ q <= h
  BY <1>2
<1> QED
  BY <1>1, <1>3, <1>4

(* The quotient that sdr_convert_sensor_value_to_raw rounds.               *)
SnRound(p, m) ==
  SnQuotient(p, m) + (IF (p < 0) = (m < 0) /\ 2 * (SnAbs(p) % SnAbs(m)) >= SnAbs(m) THEN 1 ELSE 0)
LEMMA SnRounds ==
  ASSUME NEW p \in Int, NEW m \in Int, m # 0
  PROVE  LET a == SnAbs(m)  x == SnRound(p, m)  y == IF m > 0 THEN p ELSE -p IN
         /\ x \in Int /\ SnAbs(m * x - p) < a
         /\ (m > 0 /\ p >= 0) \/ (m < 0 /\ p <= 0) => 2 * SnAbs(m * x - p) <= a /\ x >= 0
         /\ \A h \in Nat : (y <= a * h => x <= h) /\ (y >= -(a * h) => x >= -h)
<1> DEFINE a == SnAbs(m)
           q == SnAbs(p) \div SnAbs(m)
           r == SnAbs(p) % SnAbs(m)
           x == SnRound(p, m)
           y == IF m > 0 THEN p ELSE -p
           up == 2 * r >= a
<1>1. a \in Nat \ {0} /\ SnAbs(p) \in Nat /\ (m > 0 => m = a) /\ (m < 0 => m = -a) /\ (m > 0 \/ m < 0)
      /\ (p >= 0 => SnAbs(p) = p) /\ (p < 0 => SnAbs(p) = -p)
  BY DEF SnAbs
<1>2. SnAbs(p) = a * q + r /\ q \in Nat
  BY <1>1, SnDivides
<1>3. r \in 0..(a - 1)
  BY <1>1, SnRest
<1>4. x = (IF (p < 0) = (m < 0) THEN q ELSE -q) + (IF (p < 0) = (m < 0) /\ up THEN 1 ELSE 0)
  BY DEF SnRound, SnQuotient
<1> HIDE DEF a, q, r, x, up
<1>5. /\ (m > 0 /\ p >= 0) \/ (m < 0 /\ p < 0) => x = IF up THEN q + 1 ELSE q
      /\ (m > 0 /\ p < 0) \/ (m < 0 /\ p >= 0) => x = -q
  <2>1. CASE (m > 0 /\ p >= 0) \/ (m < 0 /\ p < 0)
    <3>1. (p < 0) = (m < 0)
      BY <2>1
    <3>2. ~((m > 0 /\ p < 0) \/ (m < 0 /\ p >= 0))
      BY <2>1
    <3>3. x = q + (IF up THEN 1 ELSE 0)
      BY <1>4, <3>1
    <3> QED
      BY <1>2, <3>2, <3>3
  <2>2. CASE (m > 0 /\ p < 0) \/ (m < 0 /\ p >= 0)
    <3>1. ~((p < 0) = (m < 0))
      BY <2>2
    <3>2. ~((m > 0 /\ p >= 0) \/ (m < 0 /\ p < 0))
      BY <2>2
    <3>3. x = -q + 0
      BY <1>4, <3>1
    <3> QED
      BY <1>2, <3>2, <3>3
  <2> QED
    BY <1>1, <2>1, <2>2
<1>6. x \in Int
  BY <1>1, <1>2, <1>5
<1>7. a * (q + 1) = a * q + a /\ a * (-q) = -(a * q) /\ (-a) * q = -(a * q) /\ a * q \in Int /\ (-a) * (q + 1) = -(a * q) - a
      /\ (-a) * (-q) = a * q
  BY <1>1, <1>2
<1> DEFINE e == m * x - p
<1>8. e \in Int /\ SnAbs(e) < a /\ ((m > 0 /\ p >= 0) \/ (m < 0 /\ p <= 0) => 2 * SnAbs(e) <= a /\ x >= 0)
  <2>1. CASE m > 0 /\ p >= 0
    <3>1. m = a /\ p = a * q + r /\ x = IF up THEN q + 1 ELSE q
      BY <1>1, <1>2, <1>5, <2>1
    <3>2. e = (IF up THEN a - r ELSE -r) /\ x >= 0
      BY <1>1, <1>2, <1>3, <1>7, <3>1
    <3> HIDE DEF e
    <3> QED
      BY <1>1, <1>3, <2>1, <3>2 DEF up, SnAbs
  <2>2. CASE m < 0 /\ p < 0
    <3>1. m = -a /\ p = -(a * q + r) /\ x = IF up THEN q + 1 ELSE q
      BY <1>1, <1>2, <1>5, <2>2
    <3>2. e = (IF up THEN r - a ELSE r) /\ x >= 0
      BY <1>1, <1>2, <1>3, <1>7, <3>1
    <3> HIDE DEF e
    <3> QED
      BY <1>1, <1>3, <2>2, <3>2 DEF up, SnAbs
  <2>3. CASE m > 0 /\ p < 0
    <3>1. m = a /\ p = -(a * q + r) /\ x = -q
      BY <1>1, <1>2, <1>5, <2>3
    <3>2. e = r
      BY <1>1, <1>2, <1>3, <1>7, <3>1
    <3> HIDE DEF e
    <3> QED
      BY <1>1, <1>3, <2>3, <3>2 DEF SnAbs
  <2>4. CASE m < 0 /\ p >= 0
    <3>1. m = -a /\ p = a * q + r /\ x = -q
      BY <1>1, <1>2, <1>5, <2>4
    <3>2. e = -r
      BY <1>1, <1>2, <1>3, <1>7, <3>1
    <3>3. p = 0 => r = 0 /\ x >= 0
      <4> SUFFICES ASSUME p = 0 PROVE r = 0 /\ x >= 0
        OBVIOUS
      <4>1. a * q \in Nat
        BY <1>1, <1>2
      <4>2. r = 0 /\ a * q = 0
        BY <1>3, <3>1, <4>1
      <4>3. q = 0
        BY <1>1, <1>2, <4>2
      <4> QED
        BY <3>1, <4>2, <4>3
    <3> HIDE DEF e
    <3> QED
      BY <1>1, <1>3, <2>4, <3>2, <3>3 DEF SnAbs
  <2> QED
    BY <1>1, <2>1, <2>2, <2>3, <2>4
<1>9. ASSUME NEW h \in Nat PROVE (y <= a * h => x <= h) /\ (y >= -(a * h) => x >= -h)
  <2>0. a * h \in Nat
    BY <1>1
  <2>1. CASE (m > 0 /\ p >= 0) \/ (m < 0 /\ p < 0)
    <3>1. y = a * q + r /\ x = (IF up THEN q + 1 ELSE q) /\ x \in Nat
      BY <1>1, <1>2, <1>5, <2>1
    <3> HIDE DEF y
    <3>2. ASSUME y <= a * h PROVE x <= h
      <4>1. CASE up
        <5>1. r > 0
          BY <1>1, <1>3, <4>1 DEF up
        <5>2. a * q < a * h
          BY <1>3, <1>7, <2>0, <3>1, <3>2, <5>1
        <5>3. q + 1 <= h
          BY <1>1, <1>2, <5>2, SnMultiples
        <5> QED
          BY <3>1, <4>1, <5>3
      <4>2. CASE ~up
        <5>1. a * q <= a * h
          BY <1>3, <1>7, <2>0, <3>1, <3>2
        <5>2. q <= h
          BY <1>1, <1>2, <5>1, SnMultiples
        <5> QED
          BY <3>1, <4>2, <5>2
      <4> QED
        BY <4>1, <4>2
    <3> QED
      BY <3>1, <3>2
  <2>2. CASE (m > 0 /\ p < 0) \/ (m < 0 /\ p >= 0)
    <3>1. y = -(a * q + r) /\ x = -q
      BY <1>1, <1>2, <1>5, <2>2
    <3> HIDE DEF y
    <3>2. ASSUME y >= -(a * h) PROVE x >= -h
      <4>1. a * q <= a * h
        BY <1>3, <1>7, <2>0, <3>1, <3>2
      <4>2. q <= h
        BY <1>1, <1>2, <4>1, SnMultiples
      <4> QED
        BY <1>2, <3>1, <4>2
    <3> QED
      BY <1>2, <3>1, <3>2
  <2> QED
    BY <1>1, <2>1, <2>2
<1> QED
  BY <1>6, <1>8, <1>9 DEF a, x

LEMMA SnWraps ==
  ASSUME NEW n \in Nat \ {0}, NEW x \in Int
  PROVE  (x >= 0 /\ x < n => x % n = x) /\ (x < 0 /\ x >= -n => x % n = x + n) /\ x % n \in Nat
<1>1. x >= 0 /\ x < n => x % n = x
  OBVIOUS
<1>2. ASSUME NEW q \in Int, NEW r \in 0..(n - 1) PROVE (q * n + r) % n = r
  OBVIOUS
<1>3. x < 0 /\ x >= -n => x % n = x + n
  <2> SUFFICES ASSUME x < 0, x >= -n PROVE x % n = x + n
    OBVIOUS
  <2>1. x + n \in 0..(n - 1) /\ -1 \in Int /\ (-1) * n + (x + n) = x
    OBVIOUS
  <2> QED
    BY <1>2, <2>1
<1>4. x % n \in Nat
  OBVIOUS
<1> QED
  BY <1>1, <1>3, <1>4

(* The ends of the range of a sensor, as multiples of m.                   *)
SnLow(s) == IF SnUnit(s) = 0 THEN 0 ELSE -SnHalf
SnHigh(s) == IF SnUnit(s) = 0 THEN SnRange - 1 ELSE SnHalf - 1
LEMMA SnInRange ==
  ASSUME NEW s \in SnIds, SnUnit(s) <= 2, NEW v \in Int, SnHas(s, v), SnSensors[s].m # 0
  PROVE  LET a == SnAbs(SnSensors[s].m)
             y == IF SnSensors[s].m > 0 THEN v - SnSensors[s].b ELSE SnSensors[s].b - v IN
         y >= a * SnLow(s) /\ y <= a * SnHigh(s)
<1> DEFINE m == SnSensors[s].m
           b == SnSensors[s].b
           a == SnAbs(m)
           y == IF m > 0 THEN v - b ELSE b - v
           X(n) == CASE SnSensors[s].unit = 0 -> n
                     [] SnSensors[s].unit = 1 -> IF n < SnHalf THEN n ELSE n - (SnRange - 1)
                     [] OTHER -> IF n < SnHalf THEN n ELSE n - SnRange
           L == SnLow(s)
           H == SnHigh(s)
<1>1. /\ SnSensors[s].unit \in 0..2 /\ m \in Int /\ m # 0 /\ b \in Int /\ SnRange \in Nat /\ SnHalf \in Nat
      /\ SnRange = 2 * SnHalf /\ SnHalf >= 1
  BY SnConstants DEF SnUnit
<1>2. PICK lo \in 0..(SnRange - 1), hi \in 0..(SnRange - 1) : SnStraight(s, lo) <= v /\ v <= SnStraight(s, hi)
  BY DEF SnHas
<1>3. \A n : SnStraight(s, n) = m * X(n) + b
  BY DEF SnStraight
<1>4. \A n \in 0..(SnRange - 1) : X(n) \in Int /\ X(n) >= L /\ X(n) <= H
  BY <1>1 DEF SnLow, SnHigh, SnUnit
<1>5. L \in Int /\ H \in Int
  BY <1>1 DEF SnLow, SnHigh, SnUnit
<1>6. m * X(lo) + b <= v /\ v <= m * X(hi) + b
  BY <1>2, <1>3
<1>7. a \in Nat \ {0} /\ (m > 0 => m = a) /\ (m < 0 => m = -a) /\ (m > 0 \/ m < 0)
  BY <1>1 DEF SnAbs
<1>8. \A z \in Int : z >= L /\ z <= H => a * z \in Int /\ a * L <= a * z /\ a * z <= a * H /\ (-a) * z = -(a * z)
  <2> HIDE DEF a, L, H
  <2> SUFFICES ASSUME NEW z \in Int, z >= L, z <= H PROVE a * z \in Int /\ a * L <= a * z /\ a * z <= a * H /\ (-a) * z = -(a * z)
    OBVIOUS
  <2>1. a * z \in Int /\ (-a) * z = -(a * z) /\ a * L \in Int /\ a * H \in Int
    BY <1>5, <1>7
  <2>2. a * (z - L) \in Nat /\ a * (H - z) \in Nat
    BY <1>5, <1>7
  <2>3. a * z = a * L + a * (z - L) /\ a * H = a * z + a * (H - z)
    BY <1>5, <1>7
  <2> QED
    BY <2>1, <2>2, <2>3
<1> DEFINE xl == X(lo)
           xh == X(hi)
<1>9. xl \in Int /\ xl >= L /\ xl <= H /\ xh \in Int /\ xh >= L /\ xh <= H /\ m * xl + b <= v /\ v <= m * xh + b
  BY <1>4, <1>6
<1> HIDE DEF m, b, a, X, L, H, xl, xh
<1>10. /\ a * xl \in Int /\ a * L <= a * xl /\ a * xl <= a * H /\ (-a) * xl = -(a * xl)
       /\ a * xh \in Int /\ a * L <= a * xh /\ a * xh <= a * H /\ (-a) * xh = -(a * xh)
  BY <1>8, <1>9
<1>11. a * L \in Int /\ a * H \in Int
  BY <1>5, <1>7
<1>12. CASE m > 0
  <2>1. y = v - b /\ a * xl + b <= v /\ v <= a * xh + b
    BY <1>7, <1>9, <1>12
  <2> HIDE DEF y
  <2>2. y >= a * L /\ y <= a * H
    BY <1>1, <1>10, <1>11, <2>1
  <2> QED
    BY <2>2 DEF y, m, b, a, L, H
<1>13. CASE m < 0
  <2>1. y = b - v /\ -(a * xl) + b <= v /\ v <= -(a * xh) + b
    BY <1>1, <1>7, <1>9, <1>10, <1>13
  <2> HIDE DEF y
  <2>2. y >= a * L /\ y <= a * H
    BY <1>1, <1>10, <1>11, <2>1
  <2> QED
    BY <2>2 DEF y, m, b, a, L, H
<1> QED
  BY <1>7, <1>12, <1>13

(* A threshold that is set is as close to the value as the sensor allows.  *)
LEMMA SnSetsClose ==
  ASSUME NEW s \in SnIds, NEW v \in SnAsked
  PROVE  /\ sdr_convert_sensor_value_to_raw(s, v) \in Nat
         /\ SnNear(s, sdr_convert_sensor_value_to_raw(s, v), v)
<1> DEFINE m == SnSensors[s].m
           b == SnSensors[s].b
           p == v - b
           a == SnAbs(m)
           x == SnRound(p, m)
           t == sdr_convert_sensor_value_to_raw(s, v)
           y == IF m > 0 THEN p ELSE -p
           e == m * x - p
<1>0. /\ SnSensors[s].unit \in 0..4 /\ m \in Int /\ b \in Int /\ SnRange \in Nat /\ SnHalf \in Nat
      /\ SnRange = 2 * SnHalf /\ SnHalf >= 1 /\ v \in Int
  BY SnConstants, SnNumbers, SMTT(30)
<1>10. CASE SnSensors[s].unit > 2 \/ m = 0
  <2>1. t = 0
    BY <1>10 DEF sdr_convert_sensor_value_to_raw
  <2>2. m = 0 => SnAbs(m) = 0
    BY DEF SnAbs
  <2>3. SnSensors[s].unit > 2 \/ SnAbs(SnSensors[s].m) = 0
    BY <1>10, <2>2
  <2> QED
    BY <2>1, <2>3 DEF SnNear
<1>11. CASE ~(SnSensors[s].unit > 2 \/ m = 0)
  <2>1. SnSensors[s].unit \in 0..2 /\ m # 0 /\ SnUnit(s) <= 2
    BY <1>0, <1>11 DEF SnUnit
  <2>2. p \in Int
    BY <1>0
  <2>3. t = x % SnRange
    BY <1>11 DEF sdr_convert_sensor_value_to_raw, SnRound
  <2>4. /\ x \in Int /\ SnAbs(e) < a /\ ((m > 0 /\ p >= 0) \/ (m < 0 /\ p <= 0) => 2 * SnAbs(e) <= a /\ x >= 0)
        /\ \A h \in Nat : (y <= a * h => x <= h) /\ (y >= -(a * h) => x >= -h)
    BY <1>0, <2>1, <2>2, SnRounds, Zenon
  <2>5. a \in Nat \ {0} /\ (m > 0 => m = a) /\ (m < 0 => m = -a) /\ (m > 0 \/ m < 0)
    BY <1>0, <2>1 DEF SnAbs
  <2>6. t \in Nat
    <3>1. SnRange \in Nat \ {0}
      BY <1>0
    <3>2. x \in Int
      BY <2>4
    <3> HIDE DEF x
    <3>3. x % SnRange \in Nat
      BY <3>1, <3>2, SnWraps
    <3> QED
      BY <2>3, <3>3
  <2>7. ASSUME SnHas(s, v)
        PROVE  CASE SnSensors[s].unit = 0 -> 2 * SnAbs(SnStraight(s, t) - v) <= a
                 [] SnSensors[s].unit = 1 -> SnAbs(SnStraight(s, t) - v) < 2 * a
                 [] OTHER -> SnAbs(SnStraight(s, t) - v) < a
    <3>0. \A n : SnStraight(s, n) = m * (CASE SnSensors[s].unit = 0 -> n
                                        [] SnSensors[s].unit = 1 -> IF n < SnHalf THEN n ELSE n - (SnRange - 1)
                                        [] OTHER -> IF n < SnHalf THEN n ELSE n - SnRange) + b
      BY DEF SnStraight
    <3>1. y >= a * SnLow(s) /\ y <= a * SnHigh(s)
      <4>1. y = IF m > 0 THEN v - b ELSE b - v
        BY <1>0
      <4>2. LET c == IF m > 0 THEN v - b ELSE b - v IN c >= a * SnLow(s) /\ c <= a * SnHigh(s)
        BY <1>0, <2>1, <2>7, SnInRange, Zenon
      <4> QED
        BY <4>1, <4>2
    <3> HIDE DEF m, b, x, t
    <3>2. m * (x + 1) = m * x + m /\ m * x \in Int /\ e \in Int
      BY <1>0, <2>2, <2>4
    <3>3. CASE SnSensors[s].unit = 0
      <4>1. SnStraight(s, t) = m * t + b
        BY <3>0, <3>3
      <4>2. y >= 0 /\ y <= a * (SnRange - 1) /\ SnRange - 1 \in Nat
        <5>1. SnLow(s) = 0 /\ SnHigh(s) = SnRange - 1
          BY <3>3 DEF SnLow, SnHigh, SnUnit
        <5>2. a * 0 = 0
          BY <2>5
        <5> QED
          BY <1>0, <3>1, <5>1, <5>2
      <4>3. (m > 0 /\ p >= 0) \/ (m < 0 /\ p <= 0)
        BY <1>0, <2>2, <2>5, <4>2
      <4>4. x >= 0 /\ x <= SnRange - 1 /\ 2 * SnAbs(e) <= a
        BY <2>4, <4>2, <4>3
      <4>5. t = x
        <5>1. x < SnRange /\ SnRange \in Nat \ {0}
          BY <1>0, <2>4, <4>4
        <5>2. x >= 0 /\ x < SnRange => x % SnRange = x
          BY <2>4, <5>1, SnWraps
        <5> QED
          BY <2>3, <4>4, <5>1, <5>2
      <4>6. SnStraight(s, t) - v = e
        BY <1>0, <3>2, <4>1, <4>5
      <4> QED
        BY <3>3, <4>4, <4>6
    <3>4. ASSUME SnSensors[s].unit \in {1, 2} PROVE t = (IF x >= 0 THEN x ELSE x + SnRange) /\ x >= -SnHalf /\ x < SnHalf
      <4>1. SnLow(s) = -SnHalf /\ SnHigh(s) = SnHalf - 1
        BY <3>4 DEF SnLow, SnHigh, SnUnit
      <4>2. a * (-SnHalf) = -(a * SnHalf)
        BY <1>0, <2>5
      <4>3. y >= -(a * SnHalf) /\ y <= a * (SnHalf - 1)
        BY <3>1, <4>1, <4>2
      <4>4. SnHalf - 1 \in Nat
        BY <1>0
      <4>5. x >= -SnHalf /\ x <= SnHalf - 1
        BY <1>0, <2>4, <4>3, <4>4, Zenon
      <4>6. x < SnHalf /\ x < SnRange /\ x >= -SnRange /\ SnRange \in Nat \ {0}
        BY <1>0, <2>4, <4>5
      <4>7. (x >= 0 /\ x < SnRange => x % SnRange = x) /\ (x < 0 /\ x >= -SnRange => x % SnRange = x + SnRange)
        BY <2>4, <4>6, SnWraps
      <4>8. t = IF x >= 0 THEN x ELSE x + SnRange
        BY <2>3, <2>4, <4>6, <4>7
      <4> QED
        BY <4>5, <4>6, <4>8
    <3>5. CASE SnSensors[s].unit = 2
      <4>1. (IF t < SnHalf THEN t ELSE t - SnRange) = x
        BY <1>0, <2>4, <3>4, <3>5
      <4>2. SnStraight(s, t) = m * x + b
        BY <3>0, <3>5, <4>1
      <4>3. SnStraight(s, t) - v = e
        BY <1>0, <3>2, <4>2
      <4> QED
        BY <2>4, <3>5, <4>3
    <3>6. CASE SnSensors[s].unit = 1
      <4>1. (IF t < SnHalf THEN t ELSE t - (SnRange - 1)) = (IF t < SnHalf THEN x ELSE x + 1)
        BY <1>0, <2>4, <3>4, <3>6
      <4>2. SnStraight(s, t) = m * (IF t < SnHalf THEN x ELSE x + 1) + b
        BY <3>0, <3>6, <4>1
      <4>3. SnStraight(s, t) - v = e \/ SnStraight(s, t) - v = e + m
        BY <1>0, <3>2, <4>2
      <4> HIDE DEF e, a
      <4>4. SnAbs(e) < 2 * a /\ SnAbs(e + m) < 2 * a
        BY <1>0, <2>4, <2>5, <3>2 DEF SnAbs
      <4>5. SnAbs(SnStraight(s, t) - v) < 2 * a
        BY <4>3, <4>4
      <4> QED
        BY <3>6, <4>5
    <3> QED
      BY <2>1, <3>3, <3>5, <3>6
  <2>8. SnNear(s, t, v)
    <3>1. ~(SnSensors[s].unit > 2 \/ SnAbs(SnSensors[s].m) = 0)
      BY <1>11, <2>5
    <3> QED
      BY <2>7, <3>1 DEF SnNear
  <2> QED
    BY <2>6, <2>8
<1> QED
  BY <1>10, <1>11

LEMMA SnFirst ==
  ASSUME SnTyped, snTodo # <<>>
  PROVE  SnSensor \in SnIds /\ Tail(snTodo) \in Seq(SnIds)
BY DEF SnTyped, SnSensor

LEMMA SnReadsInt == ASSUME NEW s \in SnIds, NEW r \in SnRawSet PROVE sdr_convert_sensor_reading(s, r) \in Int
<1>1. /\ SnSensors[s].unit \in 0..4 /\ SnSensors[s].m \in Int /\ SnSensors[s].b \in Int
      /\ SnRange \in Nat /\ SnHalf \in Nat /\ SnRange = 2 * SnHalf /\ SnHalf >= 1
  BY SnConstants
<1>2. r \in Int
  BY <1>1 DEF SnRawSet
<1>3. CASE SnSensors[s].unit > 2
  BY <1>3 DEF sdr_convert_sensor_reading
<1>4. CASE SnSensors[s].unit <= 2
  <2> DEFINE x == CASE SnSensors[s].unit = 0 -> r
                    [] SnSensors[s].unit = 1 -> IF r < SnHalf THEN r ELSE r - (SnRange - 1)
                    [] OTHER -> IF r < SnHalf THEN r ELSE r - SnRange
  <2>1. x \in Int
    BY <1>1, <1>2
  <2> DEFINE y == SnSensors[s].m * x + SnSensors[s].b
  <2>2. sdr_convert_sensor_reading(s, r) = SnLinearized(SnSensors[s].lin, y)
    BY <1>4, SnReads DEF SnMeaning, SnStraight, SnUnit
  <2> HIDE DEF x
  <2>3. y \in Int
    BY <1>1, <2>1
  <2> HIDE DEF y
  <2>4. y * y \in Int /\ y * y * y \in Int
    BY <2>3
  <2> QED
    BY <2>2, <2>3, <2>4 DEF SnLinearized
<1> QED
  BY <1>1, <1>3, <1>4

(* A line more.                                                            *)
LEMMA SnAppends ==
  ASSUME SnTyped, SnShowing, UNCHANGED <<snCmd, snSeen, snThr>>, snHist \subseteq snHist',
         NEW s \in SnIds, NEW l \in SnLineSet, NEW t \in [SnSlots -> Int],
         snOut' = Append(snOut, [s |-> s, line |-> l, thr |-> t]), SnLineTrue(s, l),
         t \in {snThr[s], SnUnset} \/ "fault" \in snHist'
  PROVE  /\ snOut' \in Seq([s : SnIds, line : SnLineSet, thr : [SnSlots -> Int]])
         /\ \A i \in DOMAIN snOut' : SnLineTrue(snOut'[i].s, snOut'[i].line)
         /\ \A i \in DOMAIN snOut' : snOut'[i].thr \in {snThr'[snOut'[i].s], SnUnset} \/ "fault" \in snHist'
<1> DEFINE S == [s : SnIds, line : SnLineSet, thr : [SnSlots -> Int]]
           o == [s |-> s, line |-> l, thr |-> t]
<1>1. snOut \in Seq(S) /\ o \in S /\ snOut' = Append(snOut, o)
  BY DEF SnTyped
<1>2. o.s = s /\ o.line = l /\ o.thr = t
  OBVIOUS
<1> HIDE DEF S, o
<1>3. snOut' \in Seq(S) /\ Len(snOut') = Len(snOut) + 1 /\ snOut'[Len(snOut) + 1] = o /\ \A i \in 1..Len(snOut) : snOut'[i] = snOut[i]
  BY <1>1
<1>4. DOMAIN snOut = 1..Len(snOut) /\ DOMAIN snOut' = 1..(Len(snOut) + 1) /\ Len(snOut) \in Nat
  BY <1>1, <1>3
<1>5. \A i \in DOMAIN snOut' : snOut'[i] = o \/ (i \in DOMAIN snOut /\ snOut'[i] = snOut[i])
  BY <1>3, <1>4
<1>6. ASSUME NEW i \in DOMAIN snOut' PROVE SnLineTrue(snOut'[i].s, snOut'[i].line)
  BY <1>2, <1>5 DEF SnShowing
<1>7. ASSUME NEW i \in DOMAIN snOut' PROVE snOut'[i].thr \in {snThr'[snOut'[i].s], SnUnset} \/ "fault" \in snHist'
  BY <1>2, <1>5 DEF SnShowing
<1> QED
  BY <1>3, <1>6, <1>7 DEF S

LEMMA SnUnsetTyped == SnUnset \in [SnSlots -> Int] /\ SnNoLine \in SnLineSet
BY DEF SnUnset, SnNoLine, SnLineSet, SnStates

(* Commands that set nothing only have to show what is true.               *)
LEMMA SnShows ==
  ASSUME SnInv, snCmd # "thresh", UNCHANGED <<snCmd, snRaw, snSeen, snThr, snWant, snSets>>, snAt # "new", snAt' \notin {"new", "set"}, snHist \subseteq snHist',
         snTodo' \in Seq(SnIds), snAt' \in {"find", "read", "thresholds"} => snTodo' # <<>>,
         snRsp' \in [raw : SnRawSet, bits : SUBSET SnSlots], snShown' \in SnLineSet,
         snAt' = "thresholds" => SnLineTrue(Head(snTodo'), snShown'),
         \/ snOut' = snOut
         \/ \E s \in SnIds, l \in SnLineSet, t \in [SnSlots -> Int] :
              /\ snOut' = Append(snOut, [s |-> s, line |-> l, thr |-> t]) /\ SnLineTrue(s, l)
              /\ t \in {snThr[s], SnUnset} \/ "fault" \in snHist'
  PROVE  SnInv'
<1>0. SnTyped /\ SnShowing
  BY DEF SnInv
<1>1. /\ snOut' \in Seq([s : SnIds, line : SnLineSet, thr : [SnSlots -> Int]])
      /\ \A i \in DOMAIN snOut' : SnLineTrue(snOut'[i].s, snOut'[i].line)
      /\ \A i \in DOMAIN snOut' : snOut'[i].thr \in {snThr'[snOut'[i].s], SnUnset} \/ "fault" \in snHist'
  <2>1. CASE snOut' = snOut
    <3>1. snOut' \in Seq([s : SnIds, line : SnLineSet, thr : [SnSlots -> Int]])
      BY <1>0, <2>1 DEF SnTyped
    <3>2. \A i \in DOMAIN snOut' : SnLineTrue(snOut'[i].s, snOut'[i].line)
      BY <1>0, <2>1 DEF SnShowing, SnLineTrue, SnListing
    <3>3. \A i \in DOMAIN snOut' : snOut'[i].thr \in {snThr'[snOut'[i].s], SnUnset} \/ "fault" \in snHist'
      BY <1>0, <2>1 DEF SnShowing
    <3> QED
      BY <3>1, <3>2, <3>3
  <2>2. ASSUME NEW s \in SnIds, NEW l \in SnLineSet, NEW t \in [SnSlots -> Int],
               snOut' = Append(snOut, [s |-> s, line |-> l, thr |-> t]), SnLineTrue(s, l), t \in {snThr[s], SnUnset} \/ "fault" \in snHist'
        PROVE  /\ snOut' \in Seq([s : SnIds, line : SnLineSet, thr : [SnSlots -> Int]])
               /\ \A i \in DOMAIN snOut' : SnLineTrue(snOut'[i].s, snOut'[i].line)
               /\ \A i \in DOMAIN snOut' : snOut'[i].thr \in {snThr'[snOut'[i].s], SnUnset} \/ "fault" \in snHist'
    BY <1>0, <2>2, SnAppends
  <2> QED
    BY <2>1, <2>2
<1>2. SnTyped'
  BY <1>0, <1>1 DEF SnTyped
<1>3. snAt' = "thresholds" => SnLineTrue(SnSensor, snShown)'
  BY DEF SnSensor, SnLineTrue, SnListing
<1>4. (\A i \in DOMAIN snOut : SnLineTrue(snOut[i].s, snOut[i].line))'
  BY <1>1 DEF SnLineTrue, SnListing
<1>5. SnShowing'
  BY <1>0, <1>1, <1>3, <1>4 DEF SnShowing
<1> QED
  BY <1>2, <1>5 DEF SnInv, SnSetting

LEMMA SnNexts ==
  ASSUME SnTyped, snTodo # <<>>, SnNextSensor
  PROVE  snTodo' \in Seq(SnIds) /\ snAt' \in {"read", "done"} /\ (snAt' = "read" => snTodo' # <<>>)
BY SnFirst DEF SnNextSensor

LEMMA SnSkipKept == ASSUME SnInv, SnSkip PROVE SnInv'
<1>0. /\ snAt = "read" /\ UNCHANGED <<snCmd, snSets, snRsp, snShown, snOut, snRaw, snThr, snSeen, snWant, snChanges, snFaults, snHist>>
      /\ SnTyped /\ snTodo # <<>> /\ snCmd # "thresh" /\ SnNextSensor
  BY DEF SnSkip, snWorld, SnInv, SnShowing, SnSetting
<1>1. /\ snTodo' \in Seq(SnIds) /\ snAt' \in {"read", "done"} /\ (snAt' = "read" => snTodo' # <<>>)
      /\ snShown' \in SnLineSet /\ snRsp' \in [raw : SnRawSet, bits : SUBSET SnSlots] /\ snHist \subseteq snHist'
  BY <1>0, SnNexts DEF SnTyped
<1> QED
  BY <1>0, <1>1, SnShows

LEMMA SnReadKept == ASSUME SnInv, SnRead PROVE SnInv'
<1>0. /\ snAt = "read" /\ UNCHANGED <<snCmd, snSets, snRaw, snThr, snSeen, snWant, snChanges>> /\ SnTyped /\ SnShowing
      /\ snTodo # <<>> /\ snCmd # "thresh"
  BY DEF SnRead, snWorld, SnInv, SnShowing, SnSetting
<1>1. SnSensor \in SnIds /\ snRaw[SnSensor] \in SnRawSet /\ snRaw[SnSensor] \in snSeen[SnSensor] /\ SnRawSet \subseteq Int /\ 0 \in SnRawSet
  <2>1. SnSensor \in SnIds
    BY <1>0, SnFirst
  <2> QED
    BY <1>0, <2>1, SnConstants DEF SnTyped, SnShowing, SnRawSet
<1>2. ASSUME NEW valid \in BOOLEAN, NEW answered \in BOOLEAN, SnAfter(valid, answered), snHist \subseteq snHist',
             snRsp' \in [raw : SnRawSet, bits : SUBSET SnSlots], valid => snRsp'.raw = snRaw[SnSensor]
      PROVE  SnInv'
  <2>1. \/ SnNextSensor /\ UNCHANGED <<snShown, snOut>>
        \/ snShown' = SnLine(valid) /\ snAt' = "thresholds" /\ UNCHANGED <<snTodo, snOut>>
        \/ SnOutput(valid)
    <3>1. CASE ipmi_sensor_print_full(valid, answered)
      BY <3>1 DEF ipmi_sensor_print_full
    <3>2. CASE ipmi_sensor_get_reading(valid, answered)
      <4>1. CASE valid
        BY <3>2, <4>1 DEF ipmi_sensor_get_reading
      <4>2. CASE ~valid
        BY <3>2, <4>2 DEF ipmi_sensor_get_reading
      <4> QED
        BY <4>1, <4>2
    <3>3. CASE ipmi_sdr_print_sensor_full(valid)
      BY <3>3 DEF ipmi_sdr_print_sensor_full
    <3> QED
      BY <1>2, <3>1, <3>2, <3>3 DEF SnAfter
  <2>2. SnLine(valid) \in SnLineSet /\ SnLineTrue(SnSensor, SnLine(valid))
    <3>1. CASE ~valid
      <4>1. SnLine(valid) = SnNoLine
        BY <3>1 DEF SnLine
      <4> QED
        BY <4>1, SnUnsetTyped DEF SnLineTrue, SnNoLine
    <3>2. CASE valid
      <4> DEFINE raw == snRaw[SnSensor]
                 val == SnValue(raw)
                 st == ipmi_sdr_get_status(snRsp'.bits)
      <4>1. SnLine(valid) = [valid |-> TRUE, val |-> val, status |-> st]
        BY <1>2, <3>2 DEF SnLine
      <4>2. val \in Int
        BY <1>1, SnReadsInt DEF SnValue
      <4>3. st \in SnStates
        BY DEF ipmi_sdr_get_status, SnStates
      <4>4. SnUnit(SnSensor) <= 2 \/ SnListing => val = SnShownAs(SnSensor, raw)
        <5>1. SnSensors[SnSensor].unit \in 0..4 /\ raw >= 0 /\ raw \in Int
          BY <1>1, SnConstants DEF SnRawSet
        <5>2. CASE SnSensors[SnSensor].unit > 2
          <6>1. ~(SnUnit(SnSensor) <= 2) /\ SnShownAs(SnSensor, raw) = raw
            BY <5>1, <5>2 DEF SnUnit, SnShownAs
          <6>2. SnListing => SnValue(raw) = raw
            BY <5>2 DEF SnValue, SnRecord
          <6> QED
            BY <6>1, <6>2
        <5>3. CASE ~(SnSensors[SnSensor].unit > 2)
          <6>1. sdr_convert_sensor_reading(SnSensor, raw) = SnMeaning(SnSensor, raw)
            BY <1>1, <5>1, <5>3, SnReads DEF SnUnit
          <6>2. SnShownAs(SnSensor, raw) = IF raw = 0 THEN 0 ELSE SnMeaning(SnSensor, raw)
            BY <5>3 DEF SnShownAs
          <6>3. SnValue(raw) = IF raw > 0 THEN sdr_convert_sensor_reading(SnSensor, raw) ELSE 0
            BY <5>3 DEF SnValue, SnRecord
          <6> QED
            BY <5>1, <6>1, <6>2, <6>3
        <5> QED
          BY <5>2, <5>3
      <4> HIDE DEF val, st
      <4>5. SnLine(valid) \in SnLineSet
        BY <4>1, <4>2, <4>3 DEF SnLineSet
      <4>6. SnLine(valid).val = val
        BY <4>1
      <4> QED
        BY <1>1, <4>4, <4>5, <4>6 DEF SnLineTrue
    <3> QED
      BY <3>1, <3>2
  <2>3. CASE SnNextSensor /\ UNCHANGED <<snShown, snOut>>
    <3>1. snTodo' \in Seq(SnIds) /\ snAt' \in {"read", "done"} /\ (snAt' = "read" => snTodo' # <<>>) /\ snShown' \in SnLineSet
      BY <1>0, <2>3, SnNexts DEF SnTyped
    <3> QED
      BY <1>0, <1>2, <2>3, <3>1, SnShows
  <2>4. CASE snShown' = SnLine(valid) /\ snAt' = "thresholds" /\ UNCHANGED <<snTodo, snOut>>
    <3>1. snTodo' \in Seq(SnIds) /\ snShown' \in SnLineSet /\ SnLineTrue(Head(snTodo'), snShown')
      BY <1>0, <2>2, <2>4 DEF SnTyped, SnSensor
    <3> QED
      BY <1>0, <1>2, <2>4, <3>1, SnShows
  <2>5. CASE SnOutput(valid)
    <3>1. snOut' = Append(snOut, [s |-> SnSensor, line |-> SnLine(valid), thr |-> SnUnset]) /\ SnNextSensor /\ UNCHANGED snShown
      BY <2>5 DEF SnOutput
    <3>2. snTodo' \in Seq(SnIds) /\ snAt' \in {"read", "done"} /\ (snAt' = "read" => snTodo' # <<>>) /\ snShown' \in SnLineSet
      BY <1>0, <3>1, SnNexts DEF SnTyped
    <3>3. \E s \in SnIds, l \in SnLineSet, t \in [SnSlots -> Int] :
              /\ snOut' = Append(snOut, [s |-> s, line |-> l, thr |-> t]) /\ SnLineTrue(s, l)
              /\ t \in {snThr[s], SnUnset} \/ "fault" \in snHist'
      BY <1>1, <2>2, <3>1, SnUnsetTyped
    <3> QED
      BY <1>0, <1>2, <3>2, <3>3, SnShows
  <2> QED
    BY <2>1, <2>3, <2>4, <2>5
<1>3. CASE snRsp' = [raw |-> snRaw[SnSensor], bits |-> SnCrossed(SnSensor)] /\ SnAfter(TRUE, TRUE) /\ UNCHANGED <<snFaults, snHist>>
  <2>1. SnCrossed(SnSensor) \in SUBSET SnSlots
    BY DEF SnCrossed
  <2>2. snRsp' \in [raw : SnRawSet, bits : SUBSET SnSlots] /\ snRsp'.raw = snRaw[SnSensor]
    BY <1>1, <1>3, <2>1
  <2>3. snHist \subseteq snHist'
    BY <1>3
  <2> QED
    BY <1>2, <1>3, <2>2, <2>3
<1>4. CASE SnFault /\ snRsp' \in {snRsp, [raw |-> 0, bits |-> {}]} /\ SnAfter(FALSE, TRUE)
  <2>1. snRsp' \in [raw : SnRawSet, bits : SUBSET SnSlots] /\ snHist \subseteq snHist'
    BY <1>0, <1>1, <1>4 DEF SnTyped, SnFault
  <2> QED
    BY <1>2, <1>4, <2>1
<1>5. CASE SnFault /\ UNCHANGED snRsp /\ SnAfter(FALSE, FALSE)
  <2>1. snRsp' \in [raw : SnRawSet, bits : SUBSET SnSlots] /\ snHist \subseteq snHist'
    BY <1>0, <1>5 DEF SnTyped, SnFault
  <2> QED
    BY <1>2, <1>5, <2>1
<1> QED
  BY <1>3, <1>4, <1>5 DEF SnRead

LEMMA SnAnalogKept == ASSUME SnInv, ipmi_sensor_print_full_analog PROVE SnInv'
<1>0. /\ snAt = "thresholds" /\ UNCHANGED <<snCmd, snSets, snRc, snRsp, snShown, snRaw, snThr, snSeen, snWant, snChanges>>
      /\ SnTyped /\ SnShowing /\ snTodo # <<>> /\ snCmd # "thresh" /\ SnLineTrue(SnSensor, snShown)
  BY DEF ipmi_sensor_print_full_analog, snWorld, SnInv, SnShowing, SnSetting
<1>1. SnSensor \in SnIds /\ snShown \in SnLineSet /\ snThr[SnSensor] \in [SnSlots -> Int] /\ snRsp.raw \in Int
  <2>1. SnSensor \in SnIds /\ SnRawSet \subseteq Int
    BY <1>0, SnFirst, SnConstants DEF SnRawSet
  <2> QED
    BY <1>0, <2>1 DEF SnTyped
<1>2. ASSUME NEW t \in [SnSlots -> Int], SnPrint(t), snHist \subseteq snHist', t \in {snThr[SnSensor], SnUnset} \/ "fault" \in snHist'
      PROVE  SnInv'
  <2>1. snOut' = Append(snOut, [s |-> SnSensor, line |-> snShown, thr |-> t]) /\ SnNextSensor
    BY <1>2 DEF SnPrint
  <2>2. snTodo' \in Seq(SnIds) /\ snAt' \in {"read", "done"} /\ (snAt' = "read" => snTodo' # <<>>)
    BY <1>0, <2>1, SnNexts
  <2>3. snRsp' \in [raw : SnRawSet, bits : SUBSET SnSlots] /\ snShown' \in SnLineSet
    BY <1>0 DEF SnTyped
  <2>4. \E s \in SnIds, l \in SnLineSet, u \in [SnSlots -> Int] :
              /\ snOut' = Append(snOut, [s |-> s, line |-> l, thr |-> u]) /\ SnLineTrue(s, l)
              /\ u \in {snThr[s], SnUnset} \/ "fault" \in snHist'
    BY <1>0, <1>1, <1>2, <2>1
  <2> QED
    BY <1>0, <1>2, <2>2, <2>3, <2>4, SnShows
<1>3. CASE SnPrint(snThr[SnSensor]) /\ UNCHANGED <<snFaults, snHist>>
  BY <1>1, <1>2, <1>3
<1>4. CASE SnFault /\ SnPrint(SnUnset)
  BY <1>2, <1>4, SnUnsetTyped DEF SnFault
<1>5. CASE SnFault /\ SnPrint([SnUnset EXCEPT !["lnc"] = snRsp.raw])
  <2>1. [SnUnset EXCEPT !["lnc"] = snRsp.raw] \in [SnSlots -> Int]
    BY <1>1, SnUnsetTyped
  <2> QED
    BY <1>2, <1>5, <2>1 DEF SnFault
<1> QED
  BY <1>3, <1>4, <1>5 DEF ipmi_sensor_print_full_analog

LEMMA SnChangesKept == ASSUME SnInv, SnReadingChanges PROVE SnInv'
<1>0. /\ snAt \in {"find", "read", "thresholds"} /\ snCmd # "thresh" /\ SnTyped /\ SnShowing
      /\ UNCHANGED <<snAt, snCmd, snTodo, snSets, snRc, snRsp, snShown, snOut, snThr, snWant, snFaults, snHist>>
  BY DEF SnReadingChanges, SnInv
<1>1. PICK s \in SnIds, r \in SnRaws : snRaw' = [snRaw EXCEPT ![s] = r] /\ snSeen' = [snSeen EXCEPT ![s] = @ \cup {r}]
  BY DEF SnReadingChanges
<1>2. r \in SnRawSet
  BY SnNumbers DEF SnRawSet
<1>3. snRaw' \in [SnIds -> SnRawSet] /\ snSeen' \in [SnIds -> SUBSET SnRawSet]
  BY <1>0, <1>1, <1>2 DEF SnTyped
<1>4. \A u \in SnIds : snSeen[u] \subseteq snSeen'[u] /\ snRaw'[u] \in snSeen'[u]
  BY <1>0, <1>1 DEF SnTyped, SnShowing
<1>5. SnTyped'
  BY <1>0, <1>3 DEF SnTyped
<1>6. ASSUME NEW u \in SnIds, NEW l, SnLineTrue(u, l) PROVE SnLineTrue(u, l)'
  BY <1>0, <1>4, <1>6 DEF SnLineTrue, SnListing
<1>7. \A i \in DOMAIN snOut : snOut[i].s \in SnIds
  <2> DEFINE S == [s : SnIds, line : SnLineSet, thr : [SnSlots -> Int]]
  <2>1. snOut \in Seq(S)
    BY <1>0 DEF SnTyped
  <2> HIDE DEF S
  <2>2. \A i \in DOMAIN snOut : snOut[i] \in S
    BY <2>1
  <2> QED
    BY <2>2 DEF S
<1>8. (\A i \in DOMAIN snOut : SnLineTrue(snOut[i].s, snOut[i].line))'
  BY <1>0, <1>6, <1>7 DEF SnShowing, SnLineTrue, SnListing
<1>9. snAt' = "thresholds" => SnLineTrue(SnSensor, snShown)'
  BY <1>0, <1>6, SnFirst DEF SnShowing, SnLineTrue, SnListing, SnSensor
<1>10. SnShowing'
  BY <1>0, <1>4, <1>8, <1>9 DEF SnShowing
<1> QED
  BY <1>0, <1>5, <1>10 DEF SnInv, SnSetting

LEMMA SnNoMore ==
  ASSUME NEW S, NEW q \in Seq(S), q # <<>>
  PROVE  Tail(q) = <<>> <=> Len(q) = 1
<1>1. Tail(q) \in Seq(S) /\ Len(Tail(q)) = Len(q) - 1 /\ Len(q) \in Nat
  OBVIOUS
<1>2. \A t \in Seq(S) : t = <<>> <=> Len(t) = 0
  OBVIOUS
<1> DEFINE t == Tail(q)
<1>3. t \in Seq(S) /\ Len(t) = Len(q) - 1
  BY <1>1
<1> HIDE DEF t
<1>4. t = <<>> <=> Len(t) = 0
  BY <1>2, <1>3
<1>5. t = <<>> <=> Len(q) = 1
  BY <1>1, <1>3, <1>4
<1> QED
  BY <1>5 DEF t

LEMMA SnFindKept == ASSUME SnInv, SnFind PROVE SnInv'
<1>0. /\ snAt = "find" /\ UNCHANGED <<snCmd, snSets, snRsp, snShown, snOut, snRaw, snThr, snSeen, snWant, snChanges>>
      /\ SnTyped /\ SnShowing /\ SnSetting /\ snTodo # <<>> /\ snHist \subseteq snHist'
      /\ \/ snCmd # "thresh" /\ snAt' = "read" /\ UNCHANGED <<snTodo, snRc>>
         \/ snCmd = "thresh" /\ snAt' = "set" /\ UNCHANGED <<snTodo, snRc>>
         \/ SnNextSensor /\ snRc' = -1
  BY DEF SnFind, SnFault, snWorld, SnInv, SnShowing
<1>1. /\ snTodo' \in Seq(SnIds) /\ (snAt' \in {"find", "read", "thresholds", "set"} => snTodo' # <<>>)
      /\ snAt' \in {"read", "set", "done"}
  <2>1. CASE SnNextSensor
    BY <1>0, <2>1, SnNexts
  <2>2. CASE ~SnNextSensor
    BY <1>0, <2>2 DEF SnTyped
  <2> QED
    BY <2>1, <2>2
<1>2. snRsp' \in [raw : SnRawSet, bits : SUBSET SnSlots] /\ snShown' \in SnLineSet
  BY <1>0 DEF SnTyped
<1>3. CASE snCmd # "thresh"
  <2>1. snAt' \in {"read", "done"}
    BY <1>0, <1>3 DEF SnNextSensor
  <2> QED
    BY <1>0, <1>1, <1>2, <1>3, <2>1, SnShows
<1>4. CASE snCmd = "thresh"
  <2>1. SnTyped'
    BY <1>0, <1>1 DEF SnTyped
  <2>2. snOut = <<>> /\ SnAsking
    BY <1>0, <1>4 DEF SnSetting
  <2>3. snAt' \in {"set", "done"}
    <3>1. Tail(snTodo) = <<>>
      <4>1. snTodo \in Seq(SnIds) /\ Len(snTodo) = 1
        BY <1>0, <2>2 DEF SnTyped, SnAsking
      <4> QED
        BY <1>0, <4>1, SnNoMore
    <3> QED
      BY <1>0, <1>4, <3>1 DEF SnNextSensor
  <2>4. SnShowing'
    BY <1>0, <1>1, <2>2, <2>3 DEF SnShowing
  <2>5. snAt' = "set" => SnAsking'
    <3>1. snAt' = "set" => UNCHANGED snTodo
      BY <1>0 DEF SnNextSensor
    <3> QED
      BY <1>0, <2>2, <3>1 DEF SnAsking, SnSensor, SnAlone, SnWanted
  <2>6. snAt' = "done" => snRc' = -1
    BY <1>0
  <2>7. SnSetting'
    BY <1>0, <1>4, <2>2, <2>3, <2>5, <2>6 DEF SnSetting
  <2> QED
    BY <2>1, <2>4, <2>7 DEF SnInv
<1> QED
  BY <1>3, <1>4

LEMMA SnThresholdKept == ASSUME SnInv, ipmi_sensor_set_threshold PROVE SnInv'
<1>0. /\ snAt = "set" /\ UNCHANGED <<snCmd, snTodo, snRsp, snShown, snOut, snRaw, snSeen, snWant, snChanges>>
      /\ snSets' = Tail(snSets) /\ snAt' = IF Tail(snSets) = <<>> THEN "done" ELSE "set"
      /\ SnTyped /\ SnShowing /\ SnSetting /\ snTodo # <<>>
  BY DEF ipmi_sensor_set_threshold, SnInv, SnShowing
<1> DEFINE put == ipmi_sensor_set_sensor_thresholds(SnSensor, Head(snSets))
<1>1. snThr' = put \/ snThr' = snThr
  BY DEF ipmi_sensor_set_threshold
<1>2. snRc' = 0 => snThr' = put
  BY DEF ipmi_sensor_set_threshold
<1>3. snHist \subseteq snHist'
  BY DEF ipmi_sensor_set_threshold, SnFault
<1>4. SnSensor \in SnIds
  BY <1>0, SnFirst
<1>5. snCmd = "thresh" /\ snSets # <<>>
  BY <1>0 DEF SnSetting, SnAsking
<1>6. CASE snCmd = "thresh" /\ snSets # <<>>
  <2>1. SnAsking /\ snOut = <<>>
    BY <1>0, <1>6 DEF SnSetting
  <2> DEFINE S == [slot : SnSlots, val : Int]
  <2>2. snSets \in Seq(S)
    BY <1>0 DEF SnTyped
  <2> HIDE DEF S
  <2>3. Head(snSets) = snSets[1] /\ 1 \in DOMAIN snSets /\ Head(snSets) \in S /\ Tail(snSets) \in Seq(S) /\ Len(Tail(snSets)) = Len(snSets) - 1
        /\ Len(snSets) \in Nat \ {0} /\ DOMAIN snSets = 1..Len(snSets) /\ DOMAIN Tail(snSets) = 1..(Len(snSets) - 1)
    BY <1>6, <2>2
  <2>4. \A i \in 1..(Len(snSets) - 1) : Tail(snSets)[i] = snSets[i + 1]
    BY <1>6, <2>2
  <2> DEFINE slot == Head(snSets).slot
             v == Head(snSets).val
             raw == sdr_convert_sensor_value_to_raw(SnSensor, v)
  <2>5. slot \in SnSlots /\ v \in snWant[SnSensor][slot]
    <3>1. slot \in SnSlots
      BY <2>3 DEF S
    <3> QED
      BY <2>1, <2>3, <3>1 DEF SnAsking
  <2>6. v \in SnAsked
    BY <1>0, <1>4, <2>5 DEF SnTyped
  <2>7. raw \in Nat
    BY <1>4, <2>1, <2>6, SnSetsClose
  <2>8. put = [snThr EXCEPT ![SnSensor][slot] = raw]
    BY DEF ipmi_sensor_set_sensor_thresholds
  <2>9. snThr \in [SnIds -> [SnSlots -> Int]]
    BY <1>0 DEF SnTyped
  <2>10. /\ put \in [SnIds -> [SnSlots -> Int]] /\ put[SnSensor][slot] = raw
         /\ \A s \in SnIds, x \in SnSlots : (s = SnSensor /\ x = slot) \/ put[s][x] = snThr[s][x]
    <3> HIDE DEF raw, put, slot
    <3> QED
      BY <1>4, <2>5, <2>7, <2>8, <2>9
  <2>11. SnTyped'
    <3>1. snThr' \in [SnIds -> [SnSlots -> Int]]
      BY <1>1, <2>9, <2>10
    <3>2. snSets' \in Seq([slot : SnSlots, val : Int])
      BY <1>0, <2>3 DEF S
    <3> QED
      BY <1>0, <3>1, <3>2 DEF SnTyped
  <2>12. SnShowing'
    BY <1>0, <2>1 DEF SnShowing
  <2>13. ASSUME NEW s \in SnIds, NEW x \in SnSlots, snThr'[s][x] >= 0
         PROVE  \E w \in snWant[s][x] : snThr'[s][x] = sdr_convert_sensor_value_to_raw(s, w)
    <3>1. CASE s = SnSensor /\ x = slot /\ snThr' = put
      BY <2>1, <2>5, <2>10, <3>1
    <3>2. CASE ~(s = SnSensor /\ x = slot /\ snThr' = put)
      <4>1. snThr'[s][x] = snThr[s][x]
        BY <1>1, <2>10, <3>2
      <4> QED
        BY <1>0, <1>6, <2>13, <4>1 DEF SnSetting
    <3> QED
      BY <3>1, <3>2
  <2>14. ASSUME snAt' # "done" PROVE SnAsking'
    <3>1. Tail(snSets) # <<>> /\ Len(snSets) - 1 \in Nat \ {0}
      BY <1>0, <2>3, <2>14
    <3>2. \A i \in DOMAIN Tail(snSets) : Tail(snSets)[i].val \in snWant[SnSensor][Tail(snSets)[i].slot]
      <4>1. ASSUME NEW i \in 1..(Len(snSets) - 1) PROVE Tail(snSets)[i].val \in snWant[SnSensor][Tail(snSets)[i].slot]
        <5>1. i + 1 \in DOMAIN snSets /\ Tail(snSets)[i] = snSets[i + 1]
          BY <2>3, <2>4
        <5> QED
          BY <2>1, <5>1 DEF SnAsking
      <4> QED
        BY <2>3, <4>1
    <3>3. Tail(snSets)[Len(Tail(snSets))] = snSets[Len(snSets)]
      <4>1. Len(snSets) - 1 \in 1..(Len(snSets) - 1) /\ (Len(snSets) - 1) + 1 = Len(snSets)
        BY <2>3, <3>1
      <4> QED
        BY <2>3, <2>4, <4>1
    <3>4. SnAlone(SnSensor, snSets[Len(snSets)].slot) /\ \A s \in SnIds : s # SnSensor => SnWanted(s) = {}
      BY <2>1 DEF SnAsking
    <3>5. SnAlone(SnSensor, snSets[Len(snSets)].slot)' /\ (\A s \in SnIds : s # SnSensor => SnWanted(s) = {})'
      BY <1>0, <3>3, <3>4 DEF SnAlone, SnWanted, SnSensor
    <3>6. (\A i \in DOMAIN snSets : snSets[i].val \in snWant[SnSensor][snSets[i].slot])'
      BY <1>0, <3>2 DEF SnSensor
    <3> QED
      BY <1>0, <2>1, <3>1, <3>5, <3>6 DEF SnAsking
  <2>15. ASSUME snAt' = "done", snRc' = 0, NEW s \in SnIds, SnWanted(s) # {}
         PROVE  \E x \in SnWanted(s) : snThr'[s][x] >= 0 /\ SnAlone(s, x)
    <3>1. s = SnSensor
      BY <2>1, <2>15 DEF SnAsking
    <3>2. Len(snSets) = 1
      <4>1. Tail(snSets) = <<>>
        BY <1>0, <2>15
      <4> QED
        BY <1>6, <2>2, <4>1, SnNoMore
    <3>3. SnAlone(SnSensor, slot)
      BY <2>1, <2>3, <3>2 DEF SnAsking
    <3>4. slot \in SnWanted(SnSensor)
      BY <2>5 DEF SnWanted
    <3>5. snThr'[SnSensor][slot] >= 0
      BY <1>2, <2>7, <2>10, <2>15
    <3> QED
      BY <3>1, <3>3, <3>4, <3>5
  <2>16. SnSetting'
    <3>1. (snAt = "done" /\ snRc = 0 =>
            \A s \in SnIds : SnWanted(s) # {} => \E x \in SnWanted(s) : snThr[s][x] >= 0 /\ SnAlone(s, x))'
      <4>1. \A s : SnWanted(s)' = SnWanted(s) /\ \A x : SnAlone(s, x)' <=> SnAlone(s, x)
        BY <1>0 DEF SnWanted, SnAlone
      <4> QED
        BY <2>15, <4>1
    <3>2. (\A s \in SnIds, x \in SnSlots : snThr[s][x] >= 0 =>
            \E w \in snWant[s][x] : snThr[s][x] = sdr_convert_sensor_value_to_raw(s, w))'
      BY <1>0, <2>13
    <3>3. snAt' \in {"set", "done"} /\ snOut' = <<>>
      BY <1>0, <2>1
    <3> QED
      BY <1>0, <1>6, <2>14, <3>1, <3>2, <3>3 DEF SnSetting
  <2> QED
    BY <2>11, <2>12, <2>16 DEF SnInv
<1> QED
  BY <1>5, <1>6

(* The thresholds that "sensor thresh" is given.                           *)
LEMMA SnAsks ==
  ASSUME SnInv, snAt = "new", NEW s \in SnIds, snTodo' = <<s>>, snSets' \in Seq([slot : SnSlots, val : SnAsked]), snSets' # <<>>,
         snWant' = [snWant EXCEPT ![s] = [slot \in SnSlots |->
                      {snSets'[i].val : i \in {j \in DOMAIN snSets' : snSets'[j].slot = slot}}]],
         SnAlone(s, snSets[Len(snSets)].slot)'
  PROVE  SnAsking' /\ snWant' \in [SnIds -> [SnSlots -> SUBSET SnAsked]] /\ snSets' \in Seq([slot : SnSlots, val : Int])
<1> DEFINE S == [slot : SnSlots, val : SnAsked]
           T == [slot : SnSlots, val : Int]
           asked(slot) == {snSets'[i].val : i \in {j \in DOMAIN snSets' : snSets'[j].slot = slot}}
           w == [slot \in SnSlots |-> asked(slot)]
<1>0. snWant \in [SnIds -> [SnSlots -> SUBSET SnAsked]] /\ SnNothing /\ S \subseteq T
  BY SnNumbers DEF SnInv, SnTyped, SnSetting
<1>1. snSets' \in Seq(S)
  OBVIOUS
<1>2. \A i \in DOMAIN snSets' : snSets'[i] \in S
  <2> HIDE DEF S
  <2> QED
    BY <1>1
<1>3. \A i \in DOMAIN snSets' : snSets'[i].slot \in SnSlots /\ snSets'[i].val \in SnAsked
  BY <1>2
<1>4. \A slot \in SnSlots : asked(slot) \in SUBSET SnAsked
  BY <1>3
<1>5. w \in [SnSlots -> SUBSET SnAsked]
  BY <1>4
<1>6. snWant' = [snWant EXCEPT ![s] = w]
  OBVIOUS
<1>7. snSets' \in Seq(T)
  <2> HIDE DEF S, T
  <2> QED
    BY <1>0, <1>1
<1>8. \A i \in DOMAIN snSets' : snSets'[i].val \in w[snSets'[i].slot]
  BY <1>3
<1> HIDE DEF w, asked
<1>9. snWant' \in [SnIds -> [SnSlots -> SUBSET SnAsked]] /\ snWant'[s] = w /\ \A u \in SnIds : u # s => snWant'[u] = snWant[u]
  BY <1>0, <1>5, <1>6
<1>10. SnSensor' = s /\ Len(snTodo') = 1
  BY DEF SnSensor
<1>11. (\A i \in DOMAIN snSets : snSets[i].val \in snWant[SnSensor][snSets[i].slot])'
  BY <1>8, <1>9, <1>10
<1>12. (\A u \in SnIds : u # SnSensor => SnWanted(u) = {})'
  BY <1>0, <1>9, <1>10 DEF SnWanted, SnNothing
<1>13. SnAlone(SnSensor, snSets[Len(snSets)].slot)'
  BY <1>10 DEF SnAlone, SnWanted
<1>14. SnAsking'
  BY <1>10, <1>11, <1>12, <1>13 DEF SnAsking
<1> QED
  BY <1>7, <1>9, <1>14

LEMMA SnMainKept == ASSUME SnInv, ipmi_sensor_main PROVE SnInv'
<1>0. /\ snAt = "new" /\ UNCHANGED <<snRc, snRsp, snShown, snOut, snRaw, snSeen, snChanges, snFaults, snHist>>
      /\ SnTyped /\ SnShowing /\ SnNothing /\ snOut = <<>>
  BY DEF ipmi_sensor_main, SnInv, SnShowing, SnSetting
<1>1. CASE /\ snCmd' \in {"list", "get", "reading", "sdr"} /\ snAt' = IF snCmd' = "list" THEN "read" ELSE "find"
           /\ snTodo' \in IF snCmd' = "list" THEN {[s \in SnIds |-> s]} ELSE {<<s>> : s \in SnIds}
           /\ snThr' = SnFirstList /\ UNCHANGED <<snSets, snWant>>
  <2>1. snTodo' \in Seq(SnIds) /\ snTodo' # <<>>
    <3>1. CASE snCmd' = "list"
      <4>1. SnSensors \in Seq([unit : 0..4, m : Int, b : Int, lin : SnLins]) /\ SnSensors # <<>>
        BY SnNumbers DEF SnLins
      <4> DEFINE n == Len(SnSensors)
                 R == [unit : 0..4, m : Int, b : Int, lin : SnLins]
      <4>2. SnSensors \in Seq(R)
        BY <4>1
      <4> HIDE DEF R
      <4>3. n \in Nat \ {0} /\ SnIds = 1..n
        BY <4>1, <4>2 DEF SnIds
      <4>4. snTodo' = [s \in 1..n |-> s]
        BY <1>1, <3>1, <4>3
      <4> HIDE DEF n
      <4>5. snTodo' \in Seq(1..n) /\ Len(snTodo') = n
        BY <4>3, <4>4
      <4> QED
        BY <4>3, <4>5
    <3>2. CASE snCmd' # "list"
      <4>1. PICK s \in SnIds : snTodo' = <<s>>
        BY <1>1, <3>2
      <4> QED
        BY <4>1
    <3> QED
      BY <3>1, <3>2
  <2>2. snThr' \in [SnIds -> [SnSlots -> Int]]
    <3>1. SnHalf - 1 \in Int
      BY SnNumbers DEF SnHalf
    <3>2. [SnUnset EXCEPT !["lcr"] = 1, !["unr"] = SnHalf - 1] \in [SnSlots -> Int]
      <4>1. "lcr" \in SnSlots /\ "unr" \in SnSlots
        BY DEF SnSlots
      <4>2. [SnUnset EXCEPT !["lcr"] = 1] \in [SnSlots -> Int]
        BY <4>1, SnUnsetTyped
      <4> QED
        BY <3>1, <4>1, <4>2, SnUnsetTyped
    <3> QED
      BY <1>1, <3>2 DEF SnFirstList
  <2>3. SnTyped'
    BY <1>0, <1>1, <2>1, <2>2 DEF SnTyped
  <2>4. snAt' \in {"read", "find"}
    BY <1>1
  <2>5. SnShowing'
    BY <1>0, <2>1, <2>4 DEF SnShowing
  <2> QED
    BY <1>1, <2>3, <2>4, <2>5 DEF SnInv, SnSetting
<1>2. CASE /\ snCmd' = "thresh" /\ snAt' = "find" /\ snTodo' \in {<<s>> : s \in SnIds} /\ UNCHANGED snThr
           /\ \/ \E slot \in SnSlots, v \in SnAsked : snSets' = <<[slot |-> slot, val |-> v]>>
              \/ \E cmd \in {"upper", "lower"}, f \in [1..3 -> SnAsked] :
                   snSets' = [i \in 1..3 |-> [slot |-> SnThreeOf(cmd)[i], val |-> f[i]]]
           /\ LET s == Head(snTodo') IN
              snWant' = [snWant EXCEPT ![s] = [slot \in SnSlots |->
                           {snSets'[i].val : i \in {j \in DOMAIN snSets' : snSets'[j].slot = slot}}]]
  <2>1. PICK s \in SnIds : snTodo' = <<s>>
    BY <1>2
  <2>2. snWant' = [snWant EXCEPT ![s] = [slot \in SnSlots |->
                     {snSets'[i].val : i \in {j \in DOMAIN snSets' : snSets'[j].slot = slot}}]]
    BY <1>2, <2>1
  <2> DEFINE S == [slot : SnSlots, val : SnAsked]
  <2>3. snSets' \in Seq(S) /\ snSets' # <<>> /\ SnAlone(s, snSets[Len(snSets)].slot)'
    <3>1. ASSUME NEW slot \in SnSlots, NEW v \in SnAsked, snSets' = <<[slot |-> slot, val |-> v]>>
          PROVE  snSets' \in Seq(S) /\ snSets' # <<>> /\ SnAlone(s, snSets[Len(snSets)].slot)'
      <4> DEFINE e == [slot |-> slot, val |-> v]
      <4>1. e \in S /\ e.slot = slot
        OBVIOUS
      <4> HIDE DEF e, S
      <4>2. snSets' = <<e>>
        BY <3>1 DEF e
      <4>3. snSets' \in Seq(S) /\ snSets' # <<>> /\ Len(snSets') = 1 /\ DOMAIN snSets' = {1} /\ snSets'[1] = e
        BY <4>1, <4>2
      <4>4. snWant \in [SnIds -> [SnSlots -> SUBSET SnAsked]]
        BY <1>0 DEF SnTyped
      <4>5. \A x \in SnSlots : snWant'[s][x] = {snSets'[i].val : i \in {j \in DOMAIN snSets' : snSets'[j].slot = x}}
        BY <2>2, <4>4
      <4>6. \A x \in SnSlots : snWant'[s][x] # {} <=> x = slot
        <5>1. snWant'[s][slot] # {}
          <6>1. 1 \in {j \in DOMAIN snSets' : snSets'[j].slot = slot}
            BY <4>1, <4>3
          <6> QED
            BY <4>5, <6>1
        <5>2. ASSUME NEW x \in SnSlots, x # slot PROVE snWant'[s][x] = {}
          <6>1. {j \in DOMAIN snSets' : snSets'[j].slot = x} = {}
            BY <4>1, <4>3, <5>2
          <6> QED
            BY <4>5, <6>1
        <5> QED
          BY <5>1, <5>2
      <4>7. SnWanted(s)' = {slot}
        BY <4>6 DEF SnWanted
      <4>8. Cardinality(SnWanted(s)') = 1
        BY <4>7, FS_Singleton
      <4>9. SnAlone(s, snSets[Len(snSets)].slot)'
        BY <4>8 DEF SnAlone
      <4> QED
        BY <4>3, <4>9
    <3>2. ASSUME NEW cmd \in {"upper", "lower"}, NEW f \in [1..3 -> SnAsked],
                 snSets' = [i \in 1..3 |-> [slot |-> SnThreeOf(cmd)[i], val |-> f[i]]]
          PROVE  snSets' \in Seq(S) /\ snSets' # <<>> /\ SnAlone(s, snSets[Len(snSets)].slot)'
      <4>1. SnThreeOf(cmd) \in [1..3 -> SnSlots] /\ SnThreeOf(cmd)[3] \in {"unr", "lnc"}
        BY DEF SnThreeOf, SnSlots
      <4>2. \A i \in 1..3 : [slot |-> SnThreeOf(cmd)[i], val |-> f[i]] \in S
        BY <4>1
      <4>3. snSets'[3].slot \in {"unr", "lnc"}
        BY <3>2, <4>1
      <4> HIDE DEF S
      <4> DEFINE h(i) == [slot |-> SnThreeOf(cmd)[i], val |-> f[i]]
      <4>4. (\A i \in 1..3 : h(i) \in S) /\ snSets' = [i \in 1..3 |-> h(i)]
        BY <3>2, <4>2
      <4> HIDE DEF h
      <4>5. snSets' \in Seq(S) /\ Len(snSets') = 3
        BY <4>4
      <4>6. snSets'[Len(snSets')].slot \in {"unr", "lnc"}
        BY <4>3, <4>5
      <4> QED
        BY <4>5, <4>6 DEF SnAlone
    <3> QED
      BY <1>2, <3>1, <3>2
  <2>4. SnAsking' /\ snWant' \in [SnIds -> [SnSlots -> SUBSET SnAsked]] /\ snSets' \in Seq([slot : SnSlots, val : Int])
    BY <1>0, <2>1, <2>2, <2>3, SnAsks
  <2>5. snTodo' \in Seq(SnIds) /\ snTodo' # <<>>
    BY <2>1
  <2>6. SnTyped'
    BY <1>0, <1>2, <2>4, <2>5 DEF SnTyped
  <2>7. SnShowing'
    BY <1>0, <1>2, <2>5 DEF SnShowing
  <2>8. SnSetting'
    BY <1>0, <1>2, <2>4 DEF SnSetting, SnNothing
  <2> QED
    BY <2>6, <2>7, <2>8 DEF SnInv
<1> QED
  BY <1>1, <1>2 DEF ipmi_sensor_main

LEMMA SnInvInit == ASSUME SnInit PROVE SnInv
<1>1. 1 \in SnRawSet /\ 0 \in SnRawSet
  BY SnNumbers DEF SnRawSet
<1>2. SnTyped
  BY <1>1, SnUnsetTyped DEF SnInit, SnTyped
<1>3. SnShowing
  BY DEF SnInit, SnShowing
<1>4. SnNothing
  BY DEF SnInit, SnNothing, SnUnset
<1> QED
  BY <1>2, <1>3, <1>4 DEF SnInit, SnInv, SnSetting

LEMMA SnInvStep == ASSUME SnInv, [SnNext]_snVars PROVE SnInv'
<1>1. CASE UNCHANGED snVars
  <2>1. SnTyped' /\ SnShowing'
    BY <1>1 DEF snVars, SnInv, SnTyped, SnShowing, SnLineTrue, SnListing, SnSensor
  <2>2. SnSetting'
    <3>1. UNCHANGED <<snAt, snCmd, snTodo, snSets, snRc, snOut, snThr, snWant>> /\ SnSetting
      BY <1>1 DEF snVars, SnInv
    <3>2. \A s : SnWanted(s)' = SnWanted(s) /\ \A x : SnAlone(s, x)' <=> SnAlone(s, x)
      BY <3>1 DEF SnWanted, SnAlone
    <3>3. SnSensor' = SnSensor /\ SnNothing' = SnNothing
      BY <3>1 DEF SnSensor, SnNothing
    <3>4. SnAsking => SnAsking'
      BY <3>1, <3>2, <3>3 DEF SnAsking
    <3> QED
      BY <3>1, <3>2, <3>3, <3>4 DEF SnSetting
  <2> QED
    BY <2>1, <2>2 DEF SnInv
<1> QED
  BY <1>1, SnMainKept, SnChangesKept, SnFindKept, SnSkipKept, SnReadKept, SnAnalogKept, SnThresholdKept DEF SnNext

(* Sensors show values they had and thresholds of the controller, and a    *)
(* threshold is set where and as near as it was asked for: for any sensors,*)
(* readings and values asked for, linearized or not, and however requests  *)
(* fail.                                                                   *)
THEOREM SensorsExact == CmdSpec => []SnExact
<1>1. CmdInit => SnInv
  BY SnInvInit DEF CmdInit
<1>2. SnInv /\ [CmdNext]_cmdVars => SnInv'
  BY CmdMoves, SnInvStep
<1>3. SnInv => SnExact
  <2> SUFFICES ASSUME SnInv PROVE SnExact
    OBVIOUS
  <2>1. SnListTrue
    BY DEF SnInv, SnShowing, SnListTrue, SnLineTrue, SnUnit
  <2>2. ASSUME snCmd = "thresh", NEW s \in SnIds, NEW slot \in SnSlots, snThr[s][slot] >= 0
        PROVE  \E v \in snWant[s][slot] : SnNear(s, snThr[s][slot], v)
    <3>1. \E v \in snWant[s][slot] : snThr[s][slot] = sdr_convert_sensor_value_to_raw(s, v)
      BY <2>2 DEF SnInv, SnSetting
    <3>2. PICK v \in snWant[s][slot] : snThr[s][slot] = sdr_convert_sensor_value_to_raw(s, v)
      BY <3>1
    <3>3. v \in SnAsked
      BY <3>2 DEF SnInv, SnTyped
    <3> QED
      BY <3>1, <3>2, <3>3, SnSetsClose
  <2>3. ASSUME snCmd = "thresh", snAt = "done", snRc = 0, NEW s \in SnIds, SnWanted(s) # {}
        PROVE  \E slot \in SnWanted(s) : snThr[s][slot] >= 0 /\ SnAlone(s, slot)
    BY <2>3 DEF SnInv, SnSetting
  <2>4. SnSetExact
    BY <2>2, <2>3, Zenon DEF SnSetExact, SnWanted, SnAlone
  <2> QED
    BY <2>1, <2>4 DEF SnExact
<1> QED
  BY <1>1, <1>2, <1>3, PTL DEF CmdSpec
=============================================================================
