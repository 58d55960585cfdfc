------------------------------ MODULE Commands ------------------------------
(***************************************************************************)
(* One process of ipmitool and the command it was started for: the event   *)
(* log (Sel), the sensor data repository (Sdr), the two firmware upgrades  *)
(* (Hpm, Fwum), inventory (Fru), sensors and thresholds (Sensor), settings *)
(* (Config) and listings (Tables). The answers of the BMC come as the      *)
(* interfaces deliver them: right, with an error code, or not at all.      *)
(***************************************************************************)
EXTENDS Sel, Sdr, Hpm, Fru, Fwum, Sensor, Config, Tables

VARIABLE cmdName   \* cmd->name; "none" before ipmi_cmd_run, "invalid" if it finds none

cmdVars == <<cmdName, selVars, sdrVars, hpmVars, fruVars, fwVars, snVars, cfVars, tbVars>>

CmdInit == /\ cmdName = "none" /\ SelInit /\ SdrInit /\ HpmInit /\ FruInit
           /\ FwInit /\ SnInit /\ CfInit /\ TbInit

(* ipmi_cmd_run: the first command of that name is called; without one the *)
(* list of commands is printed and -1 returned.                            *)
ipmi_cmd_run ==
  /\ cmdName = "none"
  /\ cmdName' \in {"sel", "sdr", "hpm", "fru", "fwum", "sensor", "config", "tables", "invalid"}
  /\ UNCHANGED <<selVars, sdrVars, hpmVars, fruVars, fwVars, snVars, cfVars, tbVars>>

(* Only the command that was called runs.                                  *)
CmdSel == cmdName = "sel" /\ UNCHANGED <<cmdName, sdrVars, hpmVars, fruVars, fwVars, snVars, cfVars, tbVars>>
CmdSdr == cmdName = "sdr" /\ UNCHANGED <<cmdName, selVars, hpmVars, fruVars, fwVars, snVars, cfVars, tbVars>>
CmdHpm == cmdName = "hpm" /\ UNCHANGED <<cmdName, selVars, sdrVars, fruVars, fwVars, snVars, cfVars, tbVars>>
CmdFru == cmdName = "fru" /\ UNCHANGED <<cmdName, selVars, sdrVars, hpmVars, fwVars, snVars, cfVars, tbVars>>
CmdFw == cmdName = "fwum" /\ UNCHANGED <<cmdName, selVars, sdrVars, hpmVars, fruVars, snVars, cfVars, tbVars>>
CmdSn == cmdName = "sensor" /\ UNCHANGED <<cmdName, selVars, sdrVars, hpmVars, fruVars, fwVars, cfVars, tbVars>>
CmdCf == cmdName = "config" /\ UNCHANGED <<cmdName, selVars, sdrVars, hpmVars, fruVars, fwVars, snVars, tbVars>>
CmdTb == cmdName = "tables" /\ UNCHANGED <<cmdName, selVars, sdrVars, hpmVars, fruVars, fwVars, snVars, cfVars>>

CmdNext ==
  \/ ipmi_cmd_run
  \/ CmdSel /\ SelNext
  \/ CmdSdr /\ SdrNext
  \/ CmdHpm /\ HpmNext
  \/ CmdFru /\ FruNext
  \/ CmdFw /\ FwNext
  \/ CmdSn /\ SnNext
  \/ CmdCf /\ CfNext
  \/ CmdTb /\ TbNextStep

(* The process goes on while it can; of two processes that set the same    *)
(* parameters (Config), each does.                                         *)
CmdStep ==
  \/ CmdSel /\ (SelCommand \/ SelWatcher)
  \/ CmdSdr /\ SdrStep
  \/ CmdHpm /\ HpmStep
  \/ CmdFru /\ FruNext
  \/ CmdFw /\ FwNext
  \/ CmdSn /\ SnNext
  \/ CmdTb /\ (TbStart \/ TbAnswered \/ TbRead)
CmdFairness == WF_cmdVars(CmdStep) /\ \A p \in CfProcs : WF_cmdVars(CmdCf /\ CfStep(p))
CmdSpec == CmdInit /\ [][CmdNext]_cmdVars /\ CmdFairness
-----------------------------------------------------------------------------
(* "sel list" prints every entry it is asked for, once and in order, with  *)
(* events coming in, and the watcher (ipmievd's sel service) logs every    *)
(* event that arrived since it began, up to the count it has seen, and     *)
(* none twice but the very first entry, while nobody else changes the log  *)
(* and no request fails.                                                   *)
SelExact == SelListComplete /\ SelWatchComplete /\ SelWatchOnce

(* What the sdr commands show is the repository: every record they are     *)
(* about, once and in order, whether it came from the list of an earlier   *)
(* command or had to be read (after a dump: SdrDumpTrue), and each record  *)
(* whole, in one version, as long as the reservation was not renewed in    *)
(* the middle of it.                                                       *)
SdrTrue == SdrOutputComplete /\ SdrRecordWhole

(* An upgrade by HPM.1 that reports success has left the bytes of the file *)
(* on the target and activated them, unless the answer to the rollback     *)
(* question stood in for that of the activation (HpmReportTrue), and one   *)
(* whose image does not fit the target has sent it nothing that changes it.*)
HpmSafe == HpmSuccessTrue /\ HpmUntouched

(* Bytes of the inventory that are printed, or stored in a file, are those *)
(* of the device, and a command that writes leaves every byte it is not    *)
(* about as it was, however requests are cut, refused or shortened.        *)
FruExact == FruBytesTrue /\ FruWriteExact

(* A listed sensor value is what the device read at that time, and a       *)
(* threshold that was set stands for the value the user gave, up to the    *)
(* resolution of the sensor and before any linearization, if the sensor    *)
(* has such values.                                                        *)
SnExact == SnListTrue /\ SnSetExact

CmdBusy ==
  CASE cmdName = "sel" -> SelPending \/ selAt \notin {"new", "done", "watch_sleep"}
    [] cmdName = "sdr" -> sdrAt \notin {"new", "idle", "crashed"} /\ "garbage" \notin sdrHist
    [] cmdName = "hpm" -> hpmAt # "done" /\ ~hpmTarget.busy
    [] cmdName = "fru" -> fruAt \notin {"done", "crashed"}
    [] cmdName = "fwum" -> fwEnd = "none"
    [] cmdName = "sensor" -> snAt # "done"
    [] cmdName = "config" -> \E p \in CfProcs : cfProc[p].at \notin CfOver
    [] cmdName = "tables" -> tb.at # "done"
    [] OTHER -> FALSE

(* Every command ends, whatever is refused, lost or shortened and however  *)
(* often reservations are lost: sdr unless errors are taken for headers,   *)
(* hpm if the target is not busy for ever, fwum if the board does not ask  *)
(* for the same piece for ever, and fru also by a crash behind its buffer. *)
(* The watcher of the event log does not sleep on an event for ever, and   *)
(* does not read for ever.                                                 *)
CommandsEnd == CmdBusy ~> ~CmdBusy
=============================================================================
