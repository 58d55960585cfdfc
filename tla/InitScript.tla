----------------------------- MODULE InitScript -----------------------------
(***************************************************************************)
(* scripts/dlogger and scripts/duologger: the SysV init scripts.  They     *)
(* know the daemon by the name of its processes only: pidof tells whether  *)
(* it runs, killall sends it signals, and the collector and its timer have *)
(* the same name.  One administrator runs one command at a time; every     *)
(* launch adds a daemon that lives as Daemon.tla says.                     *)
(***************************************************************************)
EXTENDS Naturals, Sequences

CONSTANTS
  Commands,   \* the commands in use
  MaxStarts   \* bound: how many daemons are ever launched

ASSUME CommandAssumption ==
  Commands \subseteq {"start", "stop", "restart", "reload", "condrestart"}
ASSUME StartsAssumption == MaxStarts \in Nat

VARIABLES
  daemons,   \* the lives of the daemons launched so far
  script,    \* the next thing the running command does
  hurt,      \* the daemons that lost a process by accident
  missed     \* a restart sent its SIGINT to a collector that ignores it

vars == <<daemons, script, hurt, missed>>
historyVars == <<hurt, missed>>

(* The daemons of the init scripts are started without -S.                 *)
Life == INSTANCE Daemon WITH life <- daemons, Single <- FALSE

Steps == {"idle", "launch", "stop", "reload", "restart"}

(* rh_status: pidof -x finds a process of that name, whichever it is.      *)
HasProcess(l) == Life!CollectorUp(l) \/ Life!TimerUp(l)
rh_status == \E i \in DOMAIN daemons : HasProcess(daemons[i])

(* killall sends its signal to all of them; a timer ignores it.            *)
KillallINT == daemons' = [i \in DOMAIN daemons |-> Life!OnINT(daemons[i])]
IgnoresINT(l) == l.phase \in {"deaf", "stray"}
KillallUSR2 == daemons' = [i \in DOMAIN daemons |-> Life!OnUSR2(daemons[i])]

Init == daemons = <<>> /\ script = "idle" /\ hurt = {} /\ missed = FALSE
-----------------------------------------------------------------------------
(* The case statement: look at the status, then do it or exit.             *)

(* Slip: start does not look at the status.                                *)
startUnchecked ==
  /\ script = "idle" /\ "start" \in Commands
  /\ script' = "launch"
  /\ UNCHANGED <<daemons, historyVars>>

start ==
  /\ script = "idle" /\ "start" \in Commands
  /\ script' = IF rh_status THEN "idle" ELSE "launch"
  /\ UNCHANGED <<daemons, historyVars>>

stop ==
  /\ script = "idle" /\ "stop" \in Commands
  /\ script' = IF rh_status THEN "stop" ELSE "idle"
  /\ UNCHANGED <<daemons, historyVars>>

reload ==
  /\ script = "idle" /\ "reload" \in Commands
  /\ script' = IF rh_status THEN "reload" ELSE "idle"
  /\ UNCHANGED <<daemons, historyVars>>

(* restart and force-reload look at nothing.                               *)
restart ==
  /\ script = "idle" /\ "restart" \in Commands
  /\ script' = "restart"
  /\ UNCHANGED <<daemons, historyVars>>

condrestart ==
  /\ script = "idle" /\ "condrestart" \in Commands
  /\ script' = IF rh_status THEN "restart" ELSE "idle"
  /\ UNCHANGED <<daemons, historyVars>>
-----------------------------------------------------------------------------
(* The bodies of start(), stop(), restart() and reload().                  *)

(* The command returns as soon as the daemon has put itself in the         *)
(* background, which is before it has set up its signals.                  *)
DoLaunch ==
  /\ script = "launch" /\ script' = "idle"
  /\ Len(daemons) < MaxStarts
  /\ daemons' = Append(daemons, Life!Born)
  /\ UNCHANGED historyVars

(* Slip: the signal of reload.                                             *)
DoStopUSR2 ==
  /\ script = "stop" /\ script' = "idle"
  /\ KillallUSR2
  /\ UNCHANGED historyVars

DoStop ==
  /\ script = "stop" /\ script' = "idle"
  /\ KillallINT
  /\ UNCHANGED historyVars

(* stop; start: nothing waits for the daemons to end in between.           *)
DoRestart ==
  /\ script = "restart" /\ script' = "launch"
  /\ KillallINT
  /\ missed' = (missed \/ \E i \in DOMAIN daemons : IgnoresINT(daemons[i]))
  /\ UNCHANGED hurt

DoReload ==
  /\ script = "reload" /\ script' = "idle"
  /\ KillallUSR2
  /\ UNCHANGED historyVars
-----------------------------------------------------------------------------
DaemonStep(i) ==
  /\ \E t \in Life!Own(daemons[i]) : daemons' = [daemons EXCEPT ![i] = t]
  /\ UNCHANGED <<script, historyVars>>

Accident(i) ==
  /\ \E t \in Life!Mishaps(daemons[i]) : daemons' = [daemons EXCEPT ![i] = t]
  /\ hurt' = hurt \cup {i}
  /\ UNCHANGED <<script, missed>>

Command == start \/ stop \/ reload \/ restart \/ condrestart
Body == DoLaunch \/ DoStop \/ DoRestart \/ DoReload

Next ==
  \/ Command \/ Body
  \/ \E i \in DOMAIN daemons : DaemonStep(i) \/ Accident(i)

(* A command that was begun is finished and every daemon is scheduled.     *)
Fairness ==
  /\ WF_vars(Body)
  /\ \A i \in 1..MaxStarts : WF_vars(i \in DOMAIN daemons /\ DaemonStep(i))

Spec == Init /\ [][Next]_vars
FairSpec == Spec /\ Fairness
-----------------------------------------------------------------------------
(* Every variable keeps to its range; no more daemons than launches.       *)
TypeOK ==
  /\ script \in Steps
  /\ daemons \in Seq(Life!Lives) /\ Len(daemons) <= MaxStarts
  /\ hurt \subseteq DOMAIN daemons /\ missed \in BOOLEAN

(* No order of commands and deaths makes two collectors log at the same    *)
(* time, but for one that a restart has already told to stop, and for one  *)
(* that ignored a restart's SIGINT because it was just starting its timer. *)
OneDaemon ==
  ~missed => \A i, j \in DOMAIN daemons :
    /\ Life!CollectorUp(daemons[i]) /\ daemons[i].asked = "no"
    /\ Life!CollectorUp(daemons[j]) /\ daemons[j].asked = "no"
    => i = j

(* The commands leave nobody behind that pidof finds and killall cannot    *)
(* reach: but for accidents, every timer has a collector.                  *)
NoStuckTimer ==
  \A i \in DOMAIN daemons \ hurt :
    Life!TimerUp(daemons[i]) => Life!CollectorUp(daemons[i])

(* The script's commands, in any order and over daemons that lose          *)
(* processes, neither start a second collector nor strand a timer.         *)
ScriptSafe == OneDaemon /\ NoStuckTimer

(* A stop that finds a daemon serving clears its processes away, whatever  *)
(* commands follow and however many daemons a restart has piled up, unless *)
(* its collector dies first.                                               *)
StopWorks ==
  \A i \in 1..MaxStarts :
    (script = "stop" /\ i \in DOMAIN daemons /\ daemons[i].phase = "serving")
      ~> (i \in DOMAIN daemons /\ (~HasProcess(daemons[i]) \/ i \in hurt))
=============================================================================
