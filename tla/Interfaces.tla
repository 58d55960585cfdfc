----------------------------- MODULE Interfaces -----------------------------
(***************************************************************************)
(* One process of ipmitool and the interface it talks through: lan (Lan),  *)
(* lanplus (Lanplus), the serial console that runs over lanplus (Sol), or  *)
(* the OpenIPMI driver (OpenIpmi). The process loads one interface and     *)
(* stays with it.                                                          *)
(***************************************************************************)
EXTENDS Lan, Lanplus, Sol, OpenIpmi

VARIABLE ifName   \* intf->name; "unloaded" before, "null" if there is none

ifVars == <<ifName, lanVars, lpVars, solVars, oiVars>>

IfInit == ifName = "unloaded" /\ LanInit /\ LpInit /\ SolInit /\ OiInit

(* ipmi_intf_load: the interface asked for, by default the first of the    *)
(* table, or none.                                                         *)
ipmi_intf_load ==
  /\ ifName = "unloaded" /\ ifName' \in {"lan", "lanplus", "console", "open", "null"}
  /\ UNCHANGED <<lanVars, lpVars, solVars, oiVars>>

(* The loaded interface runs, with nothing left of the others.             *)
IfOverLan == ifName = "lan" /\ UNCHANGED <<ifName, lpVars, solVars, oiVars>>
IfOverLanplus == ifName = "lanplus" /\ UNCHANGED <<ifName, lanVars, solVars, oiVars>>
IfOverConsole == ifName = "console" /\ UNCHANGED <<ifName, lanVars, lpVars, oiVars>>
IfOverOpen == ifName = "open" /\ UNCHANGED <<ifName, lanVars, lpVars, solVars>>

IfNext ==
  \/ ipmi_intf_load
  \/ IfOverLan /\ LanNext
  \/ IfOverLanplus /\ LpNext
  \/ IfOverConsole /\ SolNextStep
  \/ IfOverOpen /\ OiNext

(* The program goes on while it can, and the other end (BMC, driver) takes *)
(* the requests that reach it.                                             *)
IfProgramStep ==
  \/ IfOverLan /\ LanProgramStep
  \/ IfOverLanplus /\ LpProgramStep
  \/ IfOverConsole /\ SolSendStep
  \/ IfOverOpen /\ OiReceive
IfPeerStep ==
  \/ IfOverLan /\ LanBmcStep
  \/ IfOverLanplus /\ LpBmcStep
  \/ IfOverConsole /\ SolBmcTakes
  \/ IfOverOpen /\ OiDriver
IfFairness == WF_ifVars(IfProgramStep) /\ WF_ifVars(IfPeerStep)
IfSpec == IfInit /\ [][IfNext]_ifVars /\ IfFairness
-----------------------------------------------------------------------------
IfCalling ==
  \/ lanAt \in {"send", "recv", "failing"} \/ lpCall.at \in {"send", "recv"}
  \/ solAt \in {"send", "recv"} \/ oiAt = "wait"

(* Every call comes back to its caller: ipmi_lan_send_cmd and              *)
(* ipmi_lanplus_send_payload with an answer or after their retries, the    *)
(* console's packets acknowledged or given up, and ipmi_openipmi_send_cmd, *)
(* whose select has no timeout, because the driver answers all it took.    *)
(* The one exception is ipmi_lan_send_cmd while send() keeps failing.      *)
CallsReturn == IfCalling ~> ~IfCalling \/ lanAt = "failing"

(* What a call returns is the answer to its own request: over lan while no *)
(* packet was lost or refused by a bridge and no call went unanswered, the *)
(* acknowledgement of a bridge excluded if the session is authenticated;   *)
(* the payloads of lanplus's handshake always; over the driver until a     *)
(* select fails, cold resets and any number of requests of the shell       *)
(* included.                                                               *)
RightAnswer == LanRightAnswer /\ LpHandshakeAnswer /\ OiRightAnswer

(* A program that ends by the interface's close function after a session   *)
(* was activated has asked the BMC to close the session, unless the        *)
(* command was a cold reset or the BMC refused; and the console puts the   *)
(* terminal back and deactivates the payload, unless a select fails.       *)
SessionClosed == LanClosesSession /\ LpClosesSession /\ SolLeavesClean

(* The console is exact in both directions: each character of output that  *)
(* the BMC was told arrived is printed once and in order, and the BMC gets *)
(* each typed character once and in order, whatever is lost or repeated.   *)
SolExact == SolConsoleOnce /\ SolConsoleComplete /\ SolInputExact
=============================================================================
