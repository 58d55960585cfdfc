------------------------------ MODULE OpenIpmi ------------------------------
(***************************************************************************)
(* One process of ipmitool over the kernel's driver: lib/ipmi_main.c,      *)
(* src/plugins/ipmi_intf.c, the shell and the exec command of              *)
(* src/ipmishell.c, and src/plugins/open/open.c. This is the way power.pm  *)
(* and ipmiinfo.pm of memrec read a machine's sensors.                     *)
(***************************************************************************)
EXTENDS Naturals, Sequences

CONSTANTS
  OiMaxCalls,   \* bound: requests in one process
  OiMaxFaults   \* bound: failing system calls

ASSUME OiNumbers == OiMaxCalls \in Nat /\ OiMaxFaults \in Nat

VARIABLES
  oiAt,      \* "options", "run", "wait", "closed"
  oiMode,    \* "single", "shell", "exec"
  oiIntf,    \* opened, noanswer
  oiFd,      \* the driver's state of the descriptor: requests, messages to read
  oiOld,     \* descriptors that were opened and are not closed
  oiCall,    \* curr_seq: the number of requests sent
  oiGot,     \* the request the last answer was for, and the one it was taken for
  oiFaults,
  oiSelect   \* history: select failed or was interrupted

oiVars == <<oiAt, oiMode, oiIntf, oiFd, oiOld, oiCall, oiGot, oiFaults, oiSelect>>
OiFresh == [req |-> <<>>, msg |-> <<>>]

OiInit ==
  /\ oiAt = "options" /\ oiMode = "single" /\ oiIntf = [opened |-> FALSE, noanswer |-> FALSE]
  /\ oiFd = OiFresh /\ oiOld = 0 /\ oiCall = 0 /\ oiGot = [of |-> 0, by |-> 0]
  /\ oiFaults = 0 /\ oiSelect = FALSE

(* ipmi_main up to ipmi_cmd_run: usage, an unknown interface, and no       *)
(* memory leave by out_free; otherwise one command, the shell, or exec.    *)
ipmi_main ==
  /\ oiAt = "options"
  /\ \/ oiAt' = "closed" /\ UNCHANGED oiMode
     \/ oiAt' = "run" /\ oiMode' \in {"single", "shell", "exec"}
  /\ UNCHANGED <<oiIntf, oiFd, oiOld, oiCall, oiGot, oiFaults, oiSelect>>

(* ipmi_openipmi_open: three names of the device, then two ioctls, without *)
(* a look at a descriptor that is open already; then the request.          *)
ipmi_openipmi_open(noanswer) ==
  /\ oiIntf' = [opened |-> TRUE, noanswer |-> noanswer]
  /\ oiFd' = [OiFresh EXCEPT !.req = <<oiCall + 1>>]
  /\ oiOld' = oiOld + IF oiIntf.opened THEN 1 ELSE 0

(* noanswer is set by ipmi_mc_reset and never taken back.                  *)
OiNoanswer == oiIntf.noanswer

(* ipmi_openipmi_send_cmd: opened by the first request; the driver takes   *)
(* the request, or refuses it.                                             *)
ipmi_openipmi_send_cmd ==
  /\ oiAt = "run" /\ oiCall < OiMaxCalls
  /\ oiMode = "single" => oiCall < 2
  /\ \/ /\ oiFaults < OiMaxFaults /\ oiFaults' = oiFaults + 1
        /\ UNCHANGED <<oiAt, oiIntf, oiFd, oiOld, oiCall>>
     \/ /\ IF oiIntf.opened
           THEN oiFd' = [oiFd EXCEPT !.req = Append(@, oiCall + 1)] /\ UNCHANGED <<oiIntf, oiOld>>
           ELSE ipmi_openipmi_open(oiIntf.noanswer)
        /\ oiCall' = oiCall + 1 /\ oiAt' = IF OiNoanswer THEN "run" ELSE "wait"
        /\ UNCHANGED oiFaults
  /\ UNCHANGED <<oiMode, oiGot, oiSelect>>

(* ipmi_mc_reset with BMC_COLD_RESET: opens once more, and does not wait.  *)
ipmi_mc_reset ==
  /\ oiAt = "run" /\ oiCall < OiMaxCalls
  /\ ipmi_openipmi_open(TRUE)
  /\ oiCall' = oiCall + 1
  /\ UNCHANGED <<oiAt, oiMode, oiGot, oiFaults, oiSelect>>

(* The message that select announces is taken as the answer; its msgid is  *)
(* not compared with the request's.                                        *)
OiReceive ==
  /\ oiAt = "wait" /\ oiFd.msg # <<>>
  /\ oiGot' = [of |-> Head(oiFd.msg), by |-> oiCall]
  /\ oiFd' = [oiFd EXCEPT !.msg = Tail(@)]
  /\ oiAt' = "run"
  /\ UNCHANGED <<oiMode, oiIntf, oiOld, oiCall, oiFaults, oiSelect>>

(* select fails, or a signal interrupts it: the call ends without a look   *)
(* at the message that is still to come.                                   *)
OiSelectFails ==
  /\ oiAt = "wait" /\ oiFaults < OiMaxFaults
  /\ oiFaults' = oiFaults + 1 /\ oiSelect' = TRUE /\ oiAt' = "run"
  /\ UNCHANGED <<oiMode, oiIntf, oiFd, oiOld, oiCall, oiGot>>

(* The end of ipmi_main: quit, the end of the input or of the file, or of  *)
(* the one command.                                                        *)
OiClose ==
  /\ oiAt = "run" /\ oiAt' = "closed"
  /\ oiIntf' = [oiIntf EXCEPT !.opened = FALSE] /\ oiFd' = OiFresh
  /\ UNCHANGED <<oiMode, oiOld, oiCall, oiGot, oiFaults, oiSelect>>

(* The driver answers every request it took, a cold reset with an error.   *)
OiDriver ==
  /\ oiFd.req # <<>> /\ oiAt # "closed"
  /\ oiFd' = [req |-> Tail(oiFd.req), msg |-> Append(oiFd.msg, Head(oiFd.req))]
  /\ UNCHANGED <<oiAt, oiMode, oiIntf, oiOld, oiCall, oiGot, oiFaults, oiSelect>>

OiNext == ipmi_main \/ ipmi_openipmi_send_cmd \/ ipmi_mc_reset \/ OiReceive \/ OiSelectFails
       \/ OiClose \/ OiDriver
OiFairness == WF_oiVars(OiReceive) /\ WF_oiVars(OiDriver)
OiSpec == OiInit /\ [][OiNext]_oiVars /\ OiFairness
-----------------------------------------------------------------------------
(* The answer a call returns is the driver's answer to its own request,    *)
(* with any number of requests in the shell or in a file of commands, cold *)
(* resets among them, until a select fails.                                *)
OiRightAnswer == ~oiSelect => oiGot.of = oiGot.by
=============================================================================
