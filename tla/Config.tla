------------------------------- MODULE Config -------------------------------
(***************************************************************************)
(* ipmitool's changes to the configuration of a management controller:     *)
(* lib/ipmi_lanp.c (lan set, lan alert set), ipmi_sol_set_param of         *)
(* lib/ipmi_sol.c and ipmi_chassis_set_bootdev of lib/ipmi_chassis.c. Each *)
(* of them reads the old value, takes a "set in progress" flag, writes,    *)
(* and gives the flag back, in its own way. Two ipmitool processes work on *)
(* one controller, and requests or answers get lost.                       *)
(***************************************************************************)
EXTENDS Integers, FiniteSets, Sequences

CONSTANTS
  CfCommands,   \* sequence of the sets of commands the processes choose from
  CfLockRetry,  \* retry of ipmi_lanp_lock: 3
  CfRetry,      \* retry of set_lan_param_wait and __set_lan_param: 10
  CfMaxFaults   \* bound: errors and lost requests and answers

ASSUME CfNumbers == {CfLockRetry, CfRetry, CfMaxFaults} \subseteq Nat

VARIABLES
  cfProc,    \* each process: command, step, data, rc, retry, guard (it has set the flag)
  cfVal,     \* the controller: bits of each parameter
  cfBusy,    \* set in progress, for lan, sol and boot parameters
  cfMade,    \* history: processes whose data the controller has taken
  cfHurt,    \* history: steps at which a request or an answer was lost, or an error came
  cfFaults

cfVars == <<cfProc, cfVal, cfBusy, cfMade, cfHurt, cfFaults>>

CfProcs == DOMAIN CfCommands
(* What the commands do. "arp", "auth": lan set arp, auth, whose value is  *)
(* read first. "value", "vlan": a value of its own. "access", "alerting":  *)
(* the channel's access, volatile and not. "alert": lan alert set. "sol",  *)
(* "noguard", "interval", "rate": sol set. "enables": mc setenables.       *)
(* "setaccess": of channel. The CfOnceKinds are a single request.          *)
CfLan == {"arp", "auth", "value", "vlan", "alert"}
CfOnceKinds == {"lanuser", "lanpass", "stats", "priv", "password", "name", "policy", "power"}
CfKinds == CfLan \cup CfOnceKinds \cup {"access", "alerting", "sol", "noguard", "interval", "rate", "boot", "enables",
                                      "setaccess"}
ASSUME CfChoices == CfCommands \in Seq(SUBSET CfKinds)
CfLock(kind) == IF kind \in CfLan THEN "lan" ELSE IF kind = "boot" THEN "boot" ELSE "sol"
CfOver == {"done", "usage"}

(* The parameter of the controller that step q.at of a command is about,   *)
(* and those a command works on.                                           *)
CfArea(q) ==
  CASE q.kind = "access" -> IF q.at \in {"get", "set"} THEN "nonvolatile" ELSE "volatile"
    [] q.kind = "alerting" -> "nonvolatile"
    [] q.kind = "noguard" -> "sol"
    [] q.kind \in {"lanuser", "priv", "setaccess"} -> "useraccess"
    [] q.kind \in {"lanpass", "password"} -> "password"
    [] OTHER -> q.kind
CfAreas == {"arp", "auth", "value", "vlan", "alert", "volatile", "nonvolatile", "sol", "interval", "rate", "boot", "enables",
            "useraccess", "password", "name", "policy", "power", "stats"}

CfParameters(kind) == {CfArea([kind |-> kind, at |-> a]) : a \in {"set", "set2"}}

(* Bit p of each parameter is what process p sets, bit 0 nobody's. Access  *)
(* to a channel and of a user has a limit: of privilege, of sessions.      *)
CfLimit == -1
CfLimited == {"volatile", "nonvolatile", "useraccess"}
CfInit ==
  /\ cfProc = [p \in CfProcs |-> [kind |-> "none", at |-> "new", data |-> {}, rc |-> 0, retry |-> 0, guard |-> FALSE]]
  /\ cfVal = [a \in CfAreas |-> IF a \in CfLimited THEN {0, CfLimit} ELSE {0}] /\ cfBusy = [l \in {"lan", "sol", "boot"} |-> FALSE]
  /\ cfMade = {} /\ cfHurt = {} /\ cfFaults = 0
-----------------------------------------------------------------------------
CfTo(q, at) == [q EXCEPT !.at = at]
CfFail(q) == [q EXCEPT !.at = "done", !.rc = -1]
(* A wrong command line: the usage is shown and the command returns 0.     *)
CfUsage(q) == CfTo(q, "usage")

(* The main functions read the command line. ipmi_lanp_main looks for a    *)
(* LAN channel whatever the command is.                                    *)
ipmi_lanp_main(q) == {CfTo(q, "find"), CfFail(q)}
(* ipmi_sol_set_param, by parameter: the authentication bits and the       *)
(* intervals share a parameter of the controller with others and are read  *)
(* first; a bit rate, or whether SOL is enabled, is a parameter.           *)
CfSolFlags(q) == {CfTo(q, "info"), CfFail(q)}
CfSolIntervals(q) == {CfTo(q, "info")}
CfSolRates(q) == {CfTo(q, "lock"), CfFail(q)}
ipmi_sol_main(q) ==
  {CfFail(q)} \cup (CASE q.kind = "interval" -> CfSolIntervals(q) [] q.kind = "rate" -> CfSolRates(q) [] OTHER -> CfSolFlags(q))
ipmi_chassis_main(q) == {CfTo(q, IF q.kind = "boot" THEN "lock" ELSE "set"), CfUsage(q), CfFail(q)}
(* Passwords longer than 20, two that differ, and user 0 are refused.      *)
ipmi_user_main(q) == {CfTo(q, "set"), CfFail(q)}
ipmi_channel_main(q) == {CfTo(q, "get"), CfUsage(q)}
ipmi_mc_main(q) == {CfTo(q, "get"), CfUsage(q)}
CfMain(q) ==
  CASE q.kind \in {"sol", "noguard", "interval", "rate"} -> ipmi_sol_main(q)
    [] q.kind \in {"boot", "policy", "power"} -> ipmi_chassis_main(q)
    [] q.kind \in {"priv", "password", "name"} -> ipmi_user_main(q)
    [] q.kind = "setaccess" -> ipmi_channel_main(q)
    [] q.kind = "enables" -> ipmi_mc_main(q)
    [] OTHER -> ipmi_lanp_main(q)
CfStart(p) ==
  /\ cfProc[p].at = "new" /\ UNCHANGED <<cfVal, cfBusy, cfMade, cfHurt, cfFaults>>
  /\ \E k \in CfCommands[p] : \E n \in CfMain([cfProc[p] EXCEPT !.kind = k, !.retry = CfLockRetry, !.data = {p}]) :
       cfProc' = [cfProc EXCEPT ![p] = n]

(* ipmi_lan_set: values that are read first, and single requests.          *)
ipmi_lan_set(q) ==
  CASE q.kind \in {"lanuser", "lanpass"} -> {CfTo(q, "set")}
    [] q.kind = "access" -> {CfTo(q, "get"), CfUsage(q)}
    [] OTHER -> {CfTo(q, "get"), CfUsage(q), CfFail(q)}
(* ... and addresses, vlan, alerting and cipher suites. A wrong address or *)
(* vlan is only shown the usage, or a message.                             *)
CfLanSetRest(q) == {CfTo(q, IF q.kind = "alerting" THEN "get" ELSE "state"), CfUsage(q)}
(* is_lan_channel, with ipmi_get_channel_medium.                           *)
is_lan_channel(q, r) ==
  IF r # "ok" THEN {CfFail(q)}
  ELSE {CfFail(q)} \cup (CASE q.kind = "alert" -> {CfTo(q, "dest")}
                           [] q.kind = "stats" -> {CfTo(q, "set")}
                           [] q.kind \in {"value", "vlan", "alerting"} -> CfLanSetRest(q)
                           [] OTHER -> ipmi_lan_set(q))
(* ipmi_lan_alert: the destination must exist (is_alert_destination).      *)
ipmi_lan_alert(q, r) == IF r = "ok" THEN {CfTo(q, "get"), CfFail(q)} ELSE {CfFail(q)}

(* What a process goes on with once it has read the old value: "lan set    *)
(* access" replaces the access mode (there is one, whoever set it) and the *)
(* limit by ADMIN, "channel setaccess" the limit by 0. Slip: it writes     *)
(* only what it sets.                                                      *)
CfModes == {p \in CfProcs : cfProc[p].kind = "access"}
CfDropped(kind) ==
  CASE kind = "access" -> CfModes \cup {CfLimit} [] kind = "setaccess" -> {CfLimit} [] OTHER -> {}
CfForgetsOld(q, at) == CfTo(q, at)
CfWithOld(q, at) == [CfTo(q, at) EXCEPT !.data = @ \cup (cfVal[CfArea(q)] \ CfDropped(q.kind))]
(* lan_set_arp_interval, _generate and _respond read before they lock.     *)
lan_set_arp_generate(q, r) == IF r = "ok" THEN CfWithOld(q, "state") ELSE CfFail(q)
ipmi_lan_set_auth(q, r) == IF r = "ok" THEN CfWithOld(q, "state") ELSE CfFail(q)
(* ipmi_lan_alert_set follows a NULL when there is no answer, and when the *)
(* answer is "not supported" goes on with no data at all.                  *)
ipmi_lan_alert_set(q, r) ==
  CASE r = "ok" -> {CfWithOld(q, "state"), CfFail(q)}
    [] r = "none" -> {CfFail(q)}
    [] OTHER -> {CfFail(q), [CfTo(q, "state") EXCEPT !.data = {}]}
(* ipmi_get_sol_info reads nine parameters. Without an answer, or when the *)
(* controller does not support one, it goes on, and its structure keeps    *)
(* what the stack held; any other error ends the command.                  *)
ipmi_get_sol_info(q, r) ==
  IF r = "err" THEN {CfTo(q, "get"), CfFail(q)} ELSE {CfTo(q, "get")}
CfSolInfoGot(q, r) ==
  LET unset == {[CfTo(q, "info2") EXCEPT !.data = @ \cup d] : d \in SUBSET {0}} IN
  CASE r = "ok" -> {CfWithOld(q, "info2")} [] r = "none" -> unset [] OTHER -> unset \cup {CfFail(q)}
CfSolInfoRest(q, r) ==
  LET next == CfTo(q, IF q.kind = "noguard" THEN "set" ELSE "lock") IN
  IF r = "err" THEN {next, CfFail(q)} ELSE {next}
(* ipmi_set_user_access of channel: the bits are read, changed, written.   *)
(* For "link=on" and "ipmi=on" the change is the value of strncmp in a     *)
(* field of one bit: nothing when it is even (8 where it is a difference). *)
ipmi_set_user_access(q, r) ==
  IF r # "ok" THEN {CfFail(q)}
  ELSE IF q.at = "get" THEN {CfWithOld(q, "set"), CfWithOld([q EXCEPT !.data = {}], "set"), CfFail(q)}
  ELSE {CfTo(q, "done")}
(* ipmi_mc_set_enables: options it does not know leave nothing to change.  *)
(* It reads once more in the end, for show.                                *)
ipmi_mc_set_enables(q, r) ==
  IF q.at = "show" THEN {CfTo(q, "done")}
  ELSE IF r # "ok" THEN {CfFail(q)}
  ELSE IF q.at = "get" THEN {CfWithOld(q, "set"), CfUsage(q)} ELSE {CfTo(q, "show")}
(* ipmi_lanp_lock: the state is read until it is "in progress", whoever    *)
(* made it so, or there is no answer, or the retries are used up.          *)
ipmi_lanp_lock(q, r) ==
  IF r # "ok" \/ cfBusy["lan"] \/ q.retry = 0 THEN [q EXCEPT !.at = "set", !.retry = CfRetry]
  ELSE [q EXCEPT !.at = "lock", !.retry = @ - 1]
(* __set_lan_param. "wait", reads back; without, an error code does not    *)
(* matter. After code 0xcc it is tried again, 0xff is taken for success.   *)
CfToWait(q) == [q EXCEPT !.at = "verify", !.retry = CfRetry]
__set_lan_param(q, r) ==
  IF r = "none" THEN {[q EXCEPT !.at = "commit", !.rc = -1]}
  ELSE IF q.kind = "alert" THEN {CfTo(q, "commit")}
  ELSE IF r = "ok" THEN {CfToWait(q)}
  ELSE {[q EXCEPT !.at = "again", !.retry = CfRetry], CfToWait(q), [q EXCEPT !.at = "commit", !.rc = -1]}
CfAgain(q, r) == IF r = "ok" \/ q.retry = 0 THEN CfToWait(q) ELSE [q EXCEPT !.retry = @ - 1]
(* set_lan_param_wait. Slip: it gives up as if the value had been read.    *)
CfWaitGivesUp(q, r) ==
  IF (r = "ok" /\ cfVal[CfArea(q)] = q.data) \/ q.retry = 0 THEN CfTo(q, "commit") ELSE [q EXCEPT !.retry = @ - 1]
set_lan_param_wait(q, r) ==
  IF r = "ok" /\ cfVal[CfArea(q)] = q.data THEN CfTo(q, "commit")
  ELSE IF q.retry = 0 THEN [q EXCEPT !.at = "commit", !.rc = -1] ELSE [q EXCEPT !.retry = @ - 1]
(* ipmi_lanp_unlock; the result of "vlan" is thrown away.                  *)
ipmi_lanp_unlock(q) ==
  IF q.at = "commit" THEN CfTo(q, "complete")
  ELSE [CfTo(q, "done") EXCEPT !.rc = IF q.kind = "vlan" THEN 0 ELSE @]

(* ipmi_set_channel_access: no flag at all. What is kept for the next run, *)
(* then what is in force.                                                  *)
ipmi_set_channel_access(q, r) ==
  IF r # "ok" THEN CfFail(q)
  ELSE CASE q.at = "get" -> CfWithOld(q, "set")
         [] q.at = "set" -> [CfTo(q, "get2") EXCEPT !.data = q.data \cap CfModes]
         [] q.at = "get2" -> CfWithOld(q, "set2")
         [] OTHER -> CfTo(q, "done")
(* ipmi_set_alert_enable leaves the limit alone; its last request asks for *)
(* the volatile and the other setting at once.                             *)
ipmi_set_alert_enable(q, r) ==
  IF r # "ok" THEN CfFail(q)
  ELSE CASE q.at = "get" -> CfWithOld(q, "set") [] q.at = "set" -> CfTo(q, "both") [] OTHER -> CfTo(q, "done")
(* Single requests. user priv and lan set user clear the other bits of the *)
(* user's access, and the limit; lan stats clear returns 0 whatever the answer.           *)
CfOnce(q, r) == IF r = "ok" THEN CfTo(q, "done") ELSE CfFail(q)
ipmi_user_set_userpriv(q, r) == CfOnce(q, r)
ipmi_user_set_password(q, r) == CfOnce(q, r)
ipmi_user_set_username(q, r) == CfOnce(q, r)
ipmi_lan_set_password(q, r) == CfOnce(q, r)
CfLanSetUser(q, r) == CfOnce(q, r)
ipmi_chassis_power_policy(q, r) == CfOnce(q, r)
ipmi_chassis_power_control(q, r) == CfOnce(q, r)
ipmi_lan_stats_clear(q, r) == CfTo(q, "done")
CfSingle(q, r) ==
  CASE q.kind = "priv" -> ipmi_user_set_userpriv(q, r)
    [] q.kind = "password" -> ipmi_user_set_password(q, r)
    [] q.kind = "name" -> ipmi_user_set_username(q, r)
    [] q.kind = "lanpass" -> ipmi_lan_set_password(q, r)
    [] q.kind = "lanuser" -> CfLanSetUser(q, r)
    [] q.kind = "policy" -> ipmi_chassis_power_policy(q, r)
    [] q.kind = "power" -> ipmi_chassis_power_control(q, r)
    [] OTHER -> ipmi_lan_stats_clear(q, r)

(* ipmi_sol_set_param: without the flag nothing is done; no answer to the  *)
(* value leaves the flag. Slip: so does an error code.                     *)
CfSolErrorLeaves(q, r) ==
  CASE q.at = "lock" -> IF r = "ok" THEN CfTo(q, "set") ELSE CfFail(q)
    [] q.at = "set" -> IF r = "ok" /\ q.kind # "noguard" THEN CfTo(q, "commit") ELSE CfFail(q)
    [] q.at = "commit" -> CfTo(q, "complete")
    [] OTHER -> [CfTo(q, "done") EXCEPT !.rc = IF r = "ok" THEN @ ELSE -1]
ipmi_sol_set_param(q, r) ==
  CASE q.at = "lock" -> IF r = "ok" THEN CfTo(q, "set") ELSE CfFail(q)
    [] q.at = "set" ->
         IF r = "none" THEN CfFail(q)
         ELSE IF q.kind = "noguard" THEN (IF r = "ok" THEN CfTo(q, "done") ELSE CfFail(q))
         ELSE IF r = "err" THEN [CfTo(q, "complete") EXCEPT !.rc = -1] ELSE CfTo(q, "commit")
    [] q.at = "commit" -> CfTo(q, "complete")
    [] OTHER -> [CfTo(q, "done") EXCEPT !.rc = IF r = "ok" THEN @ ELSE -1]

(* ipmi_chassis_set_bootdev: when the flag cannot be had (or the answer is *)
(* lost), it goes on without and does not give it back.                    *)
ipmi_chassis_set_bootdev(q, r) ==
  LET end == IF q.guard THEN "complete" ELSE "done"
      failed == [CfTo(q, end) EXCEPT !.rc = -1] IN
  CASE q.at = "lock" -> {[CfTo(q, "ack") EXCEPT !.guard = r = "ok"]}
    [] q.at = "ack" -> IF r = "ok" THEN {CfTo(q, "set"), failed} ELSE {failed}
    [] q.at = "set" -> IF r = "ok" THEN {CfTo(q, IF q.guard THEN "commit" ELSE "done")} ELSE {failed}
    [] q.at = "commit" -> {CfTo(q, "complete")}
    [] OTHER -> {CfTo(q, "done")}

(* The process after result r of the request of its step.                  *)
CfLanThen(q, r) ==
  CASE q.at = "get" -> CASE q.kind = "arp" -> {lan_set_arp_generate(q, r)}
                         [] q.kind = "auth" -> {ipmi_lan_set_auth(q, r)}
                         [] OTHER -> ipmi_lan_alert_set(q, r)
    [] q.at = "state" -> {ipmi_lanp_lock(q, r)}
    [] q.at = "lock" -> {CfTo(q, "state")}
    [] q.at = "set" -> __set_lan_param(q, r)
    [] q.at = "again" -> {CfAgain(q, r)}
    [] q.at = "verify" -> {set_lan_param_wait(q, r)}
    [] OTHER -> {ipmi_lanp_unlock(q)}
CfThen(q, r) ==
  IF q.at \in {"find", "channel", "dest"}
  THEN CASE q.at = "find" -> {CfTo(q, "channel")}
         [] q.at = "channel" -> is_lan_channel(q, r)
         [] OTHER -> ipmi_lan_alert(q, r)
  ELSE CASE q.kind \in CfLan -> CfLanThen(q, r)
         [] q.kind \in CfOnceKinds -> {CfSingle(q, r)}
         [] q.kind = "access" -> {ipmi_set_channel_access(q, r)}
         [] q.kind = "alerting" -> {ipmi_set_alert_enable(q, r)}
         [] q.kind = "boot" -> ipmi_chassis_set_bootdev(q, r)
         [] q.kind = "setaccess" -> ipmi_set_user_access(q, r)
         [] q.kind = "enables" -> ipmi_mc_set_enables(q, r)
         [] OTHER -> CASE q.at = "info" -> ipmi_get_sol_info(q, r)
                       [] q.at = "get" -> CfSolInfoGot(q, r)
                       [] q.at = "info2" -> CfSolInfoRest(q, r)
                       [] OTHER -> {ipmi_sol_set_param(q, r)}
-----------------------------------------------------------------------------
(* The controller carries out a request. It refuses the flag to a second,  *)
(* a value of no bytes, and both settings of alerting at once.             *)
CfRefused(q) ==
  \/ q.at = "lock" /\ cfBusy[CfLock(q.kind)]
  \/ q.at = "set" /\ q.kind = "alert" /\ q.data = {}
  \/ q.at = "both"
CfDone(p, q) ==
  /\ cfVal' = IF q.at \in {"set", "again", "set2"} THEN [cfVal EXCEPT ![CfArea(q)] = q.data] ELSE cfVal
  /\ cfMade' = IF q.at \in (IF q.kind = "access" THEN {"set2"} ELSE {"set", "again"}) /\ p \in q.data
               THEN cfMade \cup {p} ELSE cfMade
  /\ cfBusy' = CASE q.at = "lock" -> [cfBusy EXCEPT ![CfLock(q.kind)] = TRUE]
                 [] q.at = "complete" -> [cfBusy EXCEPT ![CfLock(q.kind)] = FALSE]
                 [] OTHER -> cfBusy
CfResult(p, r) == \E n \in CfThen(cfProc[p], r) : cfProc' = [cfProc EXCEPT ![p] = n]
CfFault(p, r) ==
  /\ cfFaults < CfMaxFaults /\ cfFaults' = cfFaults + 1
  /\ cfHurt' = cfHurt \cup {[kind |-> cfProc[p].kind, at |-> cfProc[p].at, result |-> r]}
CfAnswered(p) ==
  /\ cfProc[p].at \notin CfOver \cup {"new"} /\ UNCHANGED <<cfHurt, cfFaults>>
  /\ IF CfRefused(cfProc[p]) THEN CfResult(p, "err") /\ UNCHANGED <<cfVal, cfMade, cfBusy>>
     ELSE CfResult(p, "ok") /\ CfDone(p, cfProc[p])
CfNotDone(p) ==
  /\ cfProc[p].at \notin CfOver \cup {"new"} /\ (\E r \in {"err", "none"} : CfFault(p, r) /\ CfResult(p, r))
  /\ UNCHANGED <<cfVal, cfMade, cfBusy>>
CfAnswerLost(p) ==
  /\ cfProc[p].at \notin CfOver \cup {"new"} /\ ~CfRefused(cfProc[p]) /\ CfFault(p, "none") /\ CfResult(p, "none")
  /\ CfDone(p, cfProc[p])

CfStep(p) == CfStart(p) \/ CfAnswered(p) \/ CfNotDone(p) \/ CfAnswerLost(p)
CfNext == \E p \in CfProcs : CfStep(p)
CfFairness == \A p \in CfProcs : WF_cfVars(CfStep(p))
CfSpec == CfInit /\ [][CfNext]_cfVars /\ CfFairness
-----------------------------------------------------------------------------
(* A command that returns 0 has made its change, whatever was lost and     *)
(* whatever the other process did meanwhile. Of those that had a right     *)
(* command line, only "lan set vlan" (its result is thrown away), "lan     *)
(* alert set" (error codes are not looked at), "lan stats clear" and, when *)
(* strncmp's value left the bit out of its data, "channel setaccess" do    *)
(* not keep to that.                                                       *)
CfSuccessTrue ==
  \A p \in CfProcs :
    cfProc[p].at = "done" /\ cfProc[p].rc = 0 /\ cfProc[p].kind \notin {"vlan", "alert", "stats"} =>
      p \in cfMade \/ (cfProc[p].kind = "setaccess" /\ p \notin cfProc[p].data)

(* No change loses the bits it is not about, and a change lasts unless     *)
(* another process works on the same parameter: the values are read before *)
(* the flag is taken, so it does not protect them. Bits are lost when      *)
(* ipmi_get_sol_info has no answer, and "user priv" and "lan set user"     *)
(* clear those of the user's access. Limits are lost to "lan set access"   *)
(* ("lan set ... alert" keeps them), and to all that set a user's access.  *)
CfOthersKept ==
  /\ \A a \in {"arp", "auth", "alert", "volatile", "nonvolatile", "sol", "interval", "enables", "useraccess"} :
       \/ 0 \in cfVal[a]
       \/ a \in {"sol", "interval"} /\ \E h \in cfHurt : h.at = "get"
       \/ a = "useraccess" /\ \E p \in CfProcs : cfProc[p].kind \in {"priv", "lanuser"}
  /\ \A a \in CfLimited :
       \/ CfLimit \in cfVal[a]
       \/ \E p \in CfProcs : cfProc[p].kind \in IF a = "useraccess" THEN {"setaccess", "priv", "lanuser"} ELSE {"access"}
  /\ \A p \in cfMade : (\A q \in CfProcs \ {p} : CfArea(cfProc[p]) \notin CfParameters(cfProc[q].kind)) =>
       p \in cfVal[CfArea(cfProc[p])]

(* The flag is given back when all commands have ended, unless a request   *)
(* or an answer failed where the code cannot make up for it: at the giving *)
(* back itself, or when an answer was lost, in "sol set" and "bootdev" to  *)
(* the taking and in "sol set" to the value; then every later "sol set"    *)
(* fails.                                                                  *)
CfFlagBack ==
  (\A p \in CfProcs : cfProc[p].at \in CfOver) =>
    \A l \in DOMAIN cfBusy : cfBusy[l] =>
      \E h \in cfHurt : /\ CfLock(h.kind) = l
                        /\ \/ h.at = "complete"
                           \/ h.result = "none" /\ <<l, h.at>> \in {<<"boot", "lock">>, <<"sol", "lock">>, <<"sol", "set">>}
=============================================================================
