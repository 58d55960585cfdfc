------------------------------ MODULE Dlogger ------------------------------
(***************************************************************************)
(* sbin/dlogger.pl: the logging daemon.  Two processes share a pipe: the   *)
(* timer sleeps for one heartbeat and writes a tick, the collector waits   *)
(* for a tick, polls its measurement objects and writes a log record.      *)
(* SIGUSR2 asks the collector to re-read its configuration file, SIGINT    *)
(* asks it to stop.  Perl runs a handler between two operations of the     *)
(* interpreted program, whatever that program is doing, once for any       *)
(* number of signals that arrived since it last looked.                    *)
(***************************************************************************)
EXTENDS Naturals

CONSTANTS
  Mods,      \* the measurement modules a configuration file can name
  PipeCap,   \* ticks the kernel's pipe buffer holds
  BufSize,   \* ticks one fill of the READER handle's buffer takes in
  MaxEdits,  \* bound: how often the configuration file is rewritten
  OptS       \* TRUE when the daemon runs with -S, a single cycle

ASSUME PipeAssumption == PipeCap \in Nat \ {0} /\ BufSize \in Nat \ {0}
ASSUME BoundAssumption == MaxEdits \in Nat
ASSUME OptAssumption == OptS \in BOOLEAN

VARIABLES
  cpc,      \* where the collector is in the program
  tpc,      \* where the timer is in its loop
  todo,     \* what the collector's current foreach has still to visit
  objs,     \* @objs, by module
  live,     \* objects created by new() and not yet given to delete()
  flag,     \* $sigusr2_flag
  cpend,    \* signals the collector has to run a handler for
  tpend,    \* the same for the timer
  kpipe,    \* ticks in the kernel's pipe
  rbuf,     \* ticks in the buffer of READER
  readers,  \* processes that hold the read end open
  writers,  \* processes that hold the write end open
  cfg,      \* the configuration file on disk
  loaded,   \* the configuration file as the collector last read it
  req,      \* file version at the last handler2 outside LossWindow
  reqAny    \* file version at the last handler2

collectorVars == <<todo, objs, live, flag, loaded>>
pipeVars == <<kpipe, rbuf, readers, writers>>
historyVars == <<req, reqAny>>
vars == <<cpc, tpc, collectorVars, cpend, tpend, pipeVars, cfg, historyVars>>

Config == [ver : Nat, mods : SUBSET Mods]

(* Signal dispositions follow the program text: fatal until line 188, then *)
(* ignored, then handled from line 266 to the end of the program.          *)
Fatal == {"boot", "ready"}
Deaf == {"quiet", "forked"}
Polling == {"collect", "write", "wait", "check"}
Rereading == {"delete", "do", "rearm"}
Handling == {"inst", "cleanup"} \cup Polling \cup Rereading
Ended == {"exited", "died"}
(* fork() failed and the program carries on as a timer nobody listens to.  *)
AsTimer == {"astimer"}
CollectorPC == Fatal \cup Deaf \cup Handling \cup Ended \cup AsTimer

Catching == {"arm", "sleep", "write"}
TimerPC == {"none", "born", "dead"} \cup Catching
TimerAlive == tpc \in Catching \cup {"born"}

(* Where a reload request is overwritten by the assignment that follows:   *)
(* after handler2 is installed and before line 267, and after the file is  *)
(* read and before line 356.                                               *)
LossWindow == {"inst", "do", "rearm"}

Init ==
  /\ cpc = "boot" /\ tpc = "none"
  /\ todo = {} /\ objs = {} /\ live = {} /\ flag = FALSE
  /\ cpend = {} /\ tpend = {}
  /\ kpipe = 0 /\ rbuf = 0 /\ readers = {} /\ writers = {}
  /\ cfg \in [ver : {1}, mods : SUBSET Mods]
  /\ loaded = [ver |-> 0, mods |-> {}]
  /\ req = 0 /\ reqAny = 0
-----------------------------------------------------------------------------
(* Start-up of the collector.                                              *)

(* require $cfgfile, skipped when the file is not readable.  A module that *)
(* dies in new() ends the program here: CollectorDies.                     *)
LoadConfig ==
  /\ cpc = "boot" /\ cpc' = "ready"
  /\ \/ objs' = cfg.mods /\ live' = cfg.mods /\ loaded' = cfg
     \/ UNCHANGED <<objs, live, loaded>>
  /\ UNCHANGED <<tpc, todo, flag, cpend, tpend, pipeVars, cfg, historyVars>>

(* A bad -l or -o: the program exits, with the objects it created.        *)
RejectArgs ==
  /\ cpc = "ready" /\ cpc' = "died"
  /\ cpend' = {}
  /\ UNCHANGED <<tpc, collectorVars, tpend, pipeVars, cfg, historyVars>>

IgnoreSignals ==
  /\ cpc = "ready" /\ cpc' = "quiet"
  /\ UNCHANGED <<tpc, collectorVars, cpend, tpend, pipeVars, cfg, historyVars>>

ForkTimer ==
  /\ cpc = "quiet" /\ cpc' = "forked"
  /\ tpc' = "born"
  /\ readers' = {"collector", "timer"}
  /\ writers' = {"collector", "timer"}
  /\ UNCHANGED <<collectorVars, cpend, tpend, kpipe, rbuf, cfg, historyVars>>

(* fork() returns undef, which "not $pid" takes for the child's 0.         *)
ForkFails ==
  /\ cpc = "quiet" /\ cpc' = "astimer"
  /\ writers' = {"collector"}
  /\ UNCHANGED <<tpc, collectorVars, cpend, tpend, kpipe, rbuf, readers, cfg, historyVars>>

(* Slip: the collector keeps its copy of WRITER open.                      *)
InstallHandlersKeepsWriter ==
  /\ cpc = "forked" /\ cpc' = "inst"
  /\ UNCHANGED <<tpc, collectorVars, cpend, tpend, pipeVars, cfg, historyVars>>

InstallHandlers ==
  /\ cpc = "forked" /\ cpc' = "inst"
  /\ writers' = writers \ {"collector"}
  /\ UNCHANGED <<tpc, collectorVars, cpend, tpend, kpipe, rbuf, readers, cfg, historyVars>>

InitFlag ==
  /\ cpc = "inst" /\ cpc' = "collect"
  /\ flag' = FALSE
  /\ todo' = objs
  /\ UNCHANGED <<tpc, objs, live, loaded, cpend, tpend, pipeVars, cfg, historyVars>>
-----------------------------------------------------------------------------
(* The collector's main loop.                                              *)

GetData(m) ==
  /\ cpc = "collect" /\ m \in todo
  /\ todo' = todo \ {m}
  /\ UNCHANGED <<cpc, tpc, objs, live, flag, loaded, cpend, tpend, pipeVars, cfg, historyVars>>

CollectDone ==
  /\ cpc = "collect" /\ todo = {} /\ cpc' = "write"
  /\ UNCHANGED <<tpc, collectorVars, cpend, tpend, pipeVars, cfg, historyVars>>

WriteRecord ==
  /\ cpc = "write"
  /\ IF OptS THEN cpc' = "cleanup" /\ todo' = objs
             ELSE cpc' = "wait" /\ UNCHANGED todo
  /\ UNCHANGED <<tpc, objs, live, flag, loaded, cpend, tpend, pipeVars, cfg, historyVars>>

(* eof(READER) fills an empty buffer with what the pipe holds and blocks   *)
(* on an empty pipe; <READER> then takes one tick.                         *)
Fill == IF kpipe < BufSize THEN kpipe ELSE BufSize

ReadTick ==
  /\ cpc = "wait" /\ cpc' = "check"
  /\ \/ rbuf > 0 /\ rbuf' = rbuf - 1 /\ UNCHANGED kpipe
     \/ rbuf = 0 /\ kpipe > 0 /\ rbuf' = Fill - 1 /\ kpipe' = kpipe - Fill
  /\ UNCHANGED <<tpc, collectorVars, cpend, tpend, readers, writers, cfg, historyVars>>

(* "last" in wait_for_timestep leaves the caller's while loop.             *)
ReadEof ==
  /\ cpc = "wait" /\ rbuf = 0 /\ kpipe = 0 /\ writers = {}
  /\ cpc' = "cleanup" /\ todo' = objs
  /\ UNCHANGED <<tpc, objs, live, flag, loaded, cpend, tpend, pipeVars, cfg, historyVars>>

(* Slip: reread_cfg drops @objs without calling delete().                  *)
CheckFlagNoDelete ==
  /\ cpc = "check"
  /\ cpc' = IF flag THEN "delete" ELSE "collect"
  /\ todo' = IF flag THEN {} ELSE objs
  /\ UNCHANGED <<tpc, objs, live, flag, loaded, cpend, tpend, pipeVars, cfg, historyVars>>

(* Slip: the test of line 353 is missing.                                  *)
CheckFlagIgnores ==
  /\ cpc = "check" /\ cpc' = "collect"
  /\ todo' = objs
  /\ UNCHANGED <<tpc, objs, live, flag, loaded, cpend, tpend, pipeVars, cfg, historyVars>>

CheckFlag ==
  /\ cpc = "check"
  /\ cpc' = IF flag THEN "delete" ELSE "collect"
  /\ todo' = objs
  /\ UNCHANGED <<tpc, objs, live, flag, loaded, cpend, tpend, pipeVars, cfg, historyVars>>
-----------------------------------------------------------------------------
(* reread_cfg, and the clean-up after the main loop.                       *)

DeleteObj(m) ==
  /\ cpc \in {"delete", "cleanup"} /\ m \in todo
  /\ todo' = todo \ {m}
  /\ live' = live \ {m}
  /\ UNCHANGED <<cpc, tpc, objs, flag, loaded, cpend, tpend, pipeVars, cfg, historyVars>>

(* @objs = (); do $cfgfile reads the whole file before it runs any of it.  *)
ReadConfig ==
  /\ cpc = "delete" /\ todo = {} /\ cpc' = "do"
  /\ objs' = {}
  /\ loaded' = cfg
  /\ todo' = cfg.mods
  /\ UNCHANGED <<tpc, live, flag, cpend, tpend, pipeVars, cfg, historyVars>>

(* push( @objs, m->new() ) is two operations: a handler can run between.   *)
NewObj(m) ==
  /\ cpc = "do" /\ m \in todo /\ todo \cap live = {}
  /\ live' = live \cup {m}
  /\ UNCHANGED <<cpc, tpc, todo, objs, flag, loaded, cpend, tpend, pipeVars, cfg, historyVars>>

PushObj(m) ==
  /\ cpc = "do" /\ m \in todo \cap live
  /\ todo' = todo \ {m}
  /\ objs' = objs \cup {m}
  /\ UNCHANGED <<cpc, tpc, live, flag, loaded, cpend, tpend, pipeVars, cfg, historyVars>>

DoDone ==
  /\ cpc = "do" /\ todo = {} /\ cpc' = "rearm"
  /\ UNCHANGED <<tpc, collectorVars, cpend, tpend, pipeVars, cfg, historyVars>>

(* The file is missing or does not compile, or a new() dies: do returns    *)
(* undef, which nobody looks at, and the rest of the file is not run.      *)
DoFails ==
  /\ cpc = "do" /\ todo # {} /\ todo \cap live = {} /\ cpc' = "rearm"
  /\ todo' = {}
  /\ UNCHANGED <<tpc, objs, live, flag, loaded, cpend, tpend, pipeVars, cfg, historyVars>>

Rearm ==
  /\ cpc = "rearm" /\ cpc' = "collect"
  /\ flag' = FALSE
  /\ todo' = objs
  /\ UNCHANGED <<tpc, objs, live, loaded, cpend, tpend, pipeVars, cfg, historyVars>>

(* kill(KILL, $pid) and the end of the program: every pipe end is closed.  *)
KillTimerAndExit ==
  /\ cpc' = "exited" /\ tpc' = "dead"
  /\ cpend' = {} /\ tpend' = {}
  /\ readers' = {} /\ writers' = {}
  /\ UNCHANGED <<kpipe, rbuf, cfg, historyVars>>

CleanupDone ==
  /\ cpc = "cleanup" /\ todo = {}
  /\ KillTimerAndExit
  /\ UNCHANGED collectorVars
-----------------------------------------------------------------------------
(* The collector's signal handlers.                                        *)

(* Slip: a request counts only while the collector waits for its tick.     *)
handler2OnlyAsleep ==
  /\ cpc \in Handling /\ "USR2" \in cpend
  /\ cpend' = cpend \ {"USR2"}
  /\ flag' = (flag \/ cpc = "wait")
  /\ tpend' = IF tpc \in Catching THEN {"USR1"} ELSE tpend
  /\ reqAny' = cfg.ver
  /\ req' = IF cpc \in LossWindow THEN req ELSE cfg.ver
  /\ UNCHANGED <<cpc, tpc, todo, objs, live, loaded, pipeVars, cfg>>

handler2 ==
  /\ cpc \in Handling /\ "USR2" \in cpend
  /\ cpend' = cpend \ {"USR2"}
  /\ flag' = TRUE
  /\ tpend' = IF tpc \in Catching THEN {"USR1"} ELSE tpend
  /\ reqAny' = cfg.ver
  /\ req' = IF cpc \in LossWindow THEN req ELSE cfg.ver
  /\ UNCHANGED <<cpc, tpc, todo, objs, live, loaded, pipeVars, cfg>>

(* Slip: exit without kill(KILL, $pid).                                    *)
handler3NoKill ==
  /\ cpc \in Handling /\ "INT" \in cpend
  /\ live' = live \ objs
  /\ cpc' = "exited" /\ cpend' = {}
  /\ readers' = readers \ {"collector"}
  /\ UNCHANGED <<tpc, todo, objs, flag, loaded, tpend, kpipe, rbuf, writers, cfg, historyVars>>

handler3 ==
  /\ cpc \in Handling /\ "INT" \in cpend
  /\ live' = live \ objs
  /\ KillTimerAndExit
  /\ UNCHANGED <<todo, objs, flag, loaded>>
-----------------------------------------------------------------------------
(* The timer.                                                              *)

TimerStart ==
  /\ tpc = "born" /\ tpc' = "arm"
  /\ readers' = readers \ {"timer"}
  /\ UNCHANGED <<cpc, collectorVars, cpend, tpend, kpipe, rbuf, writers, cfg, historyVars>>

TimerSleep ==
  /\ tpc = "arm" /\ tpc' = "sleep"
  /\ UNCHANGED <<cpc, collectorVars, cpend, tpend, pipeVars, cfg, historyVars>>

TimerWake ==
  /\ tpc = "sleep" /\ tpc' = "write"
  /\ UNCHANGED <<cpc, collectorVars, cpend, tpend, pipeVars, cfg, historyVars>>

(* Slip: without WRITER->autoflush(1) the tick stays in the timer's buffer. *)
TimerWriteBuffered ==
  /\ tpc = "write" /\ tpc' = "arm"
  /\ UNCHANGED <<cpc, collectorVars, cpend, tpend, pipeVars, cfg, historyVars>>

(* A full pipe blocks the print.  With no reader left it fails with EPIPE, *)
(* whose signal is ignored and whose result nobody checks.                 *)
TimerWrite ==
  /\ tpc = "write" /\ tpc' = "arm"
  /\ \/ readers # {} /\ kpipe < PipeCap /\ kpipe' = kpipe + 1
     \/ readers = {} /\ UNCHANGED kpipe
  /\ UNCHANGED <<cpc, collectorVars, cpend, tpend, rbuf, readers, writers, cfg, historyVars>>

(* Only a handler that runs inside sleep() cuts the heartbeat short.       *)
handler1 ==
  /\ tpc \in Catching /\ "USR1" \in tpend
  /\ tpend' = {}
  /\ tpc' = IF tpc = "sleep" THEN "write" ELSE tpc
  /\ UNCHANGED <<cpc, collectorVars, cpend, pipeVars, cfg, historyVars>>
-----------------------------------------------------------------------------
(* The environment: the administrator, and whatever ends a process early   *)
(* (SIGTERM, SIGKILL, a die in a module or in Netsyslog's send).           *)

EditConfig ==
  /\ cfg.ver <= MaxEdits
  /\ cfg' \in [ver : {cfg.ver + 1}, mods : SUBSET Mods]
  /\ UNCHANGED <<cpc, tpc, collectorVars, cpend, tpend, pipeVars, historyVars>>

(* Slip: signals are held back, not ignored, while the timer is forked.    *)
SignalHeldBack(sig) ==
  /\ cpc \in Handling \cup Deaf
  /\ cpend' = cpend \cup {sig}
  /\ UNCHANGED <<cpc, tpc, collectorVars, tpend, pipeVars, cfg, historyVars>>

(* A signal counts only while its handler is installed.                    *)
Signal(sig) ==
  /\ cpc \in Handling
  /\ cpend' = cpend \cup {sig}
  /\ UNCHANGED <<cpc, tpc, collectorVars, tpend, pipeVars, cfg, historyVars>>

CollectorDies ==
  /\ cpc \notin Ended /\ cpc' = "died"
  /\ cpend' = {}
  /\ readers' = readers \ {"collector"}
  /\ writers' = writers \ {"collector"}
  /\ UNCHANGED <<tpc, collectorVars, tpend, kpipe, rbuf, cfg, historyVars>>

TimerDies ==
  /\ TimerAlive /\ tpc' = "dead"
  /\ tpend' = {}
  /\ readers' = readers \ {"timer"}
  /\ writers' = writers \ {"timer"}
  /\ UNCHANGED <<cpc, collectorVars, cpend, kpipe, rbuf, cfg, historyVars>>
-----------------------------------------------------------------------------
Startup == LoadConfig \/ RejectArgs \/ IgnoreSignals \/ ForkTimer \/ ForkFails \/ InstallHandlers \/ InitFlag

Loop == CollectDone \/ WriteRecord \/ ReadTick \/ ReadEof \/ CheckFlag
        \/ \E m \in Mods : GetData(m)

Reread == ReadConfig \/ DoDone \/ DoFails \/ Rearm \/ CleanupDone
          \/ \E m \in Mods : DeleteObj(m) \/ NewObj(m) \/ PushObj(m)

Collector == Startup \/ Loop \/ Reread

Timer == TimerStart \/ TimerSleep \/ TimerWake \/ TimerWrite

Environment == EditConfig \/ CollectorDies \/ TimerDies
               \/ \E sig \in {"USR2", "INT"} : Signal(sig)

Next == Collector \/ Timer \/ handler1 \/ handler2 \/ handler3 \/ Environment

(* Both processes are scheduled and every handler gets its turn; nothing   *)
(* is assumed of the administrator or of what ends a process early.        *)
Fairness ==
  /\ WF_vars(Collector) /\ WF_vars(Timer)
  /\ WF_vars(handler1) /\ WF_vars(handler2) /\ WF_vars(handler3)

Spec == Init /\ [][Next]_vars
FairSpec == Spec /\ Fairness
-----------------------------------------------------------------------------
(* The daemon as the init script sees it.                                  *)

phaseOf ==
  CASE cpc \in Fatal -> "starting" [] cpc \in Deaf -> "deaf" [] cpc \in Handling -> "serving"
    [] cpc \in AsTimer -> "stray" [] cpc = "exited" -> "ended" [] cpc = "died" -> "crashed"

lifeOf ==
  [phase |-> phaseOf,
   timer |-> IF tpc = "none" THEN "none" ELSE IF TimerAlive THEN "on" ELSE "off",
   asked |-> IF "INT" \in cpend THEN "yes" ELSE "no"]

DaemonOf == INSTANCE Daemon WITH life <- lifeOf, Single <- OptS
-----------------------------------------------------------------------------
(* What the daemon promises.                                               *)

(* Every variable keeps to its range; the two buffers never exceed the     *)
(* capacity of the pipe (line 226) and of the READER handle (line 384).    *)
TypeOK ==
  /\ cpc \in CollectorPC /\ tpc \in TimerPC
  /\ todo \subseteq Mods /\ objs \subseteq Mods /\ live \subseteq Mods
  /\ flag \in BOOLEAN
  /\ cpend \subseteq {"USR2", "INT"} /\ tpend \subseteq {"USR1"}
  /\ kpipe \in 0..PipeCap /\ rbuf \in 0..BufSize
  /\ readers \subseteq {"collector", "timer"}
  /\ writers \subseteq {"collector", "timer"}
  /\ cfg \in Config /\ loaded \in Config
  /\ req \in Nat /\ reqAny \in Nat

(* However the collector comes to exit() - SIGINT at any point of the      *)
(* loop (handler3), -S, or the end of the pipe - the timer it forked has   *)
(* been killed: no timer outlives an orderly stop.                         *)
NoOrphanTimer == cpc = "exited" => tpc = "dead"

(* Reloads neither leak an object nor poll a deleted one: while the loop   *)
(* runs, the objects that new() made and delete() has not seen are those   *)
(* of @objs.  An orderly exit deletes all of @objs; handler3 can only miss *)
(* the one object that new() has returned and push has not stored yet.     *)
ObjectsAccounted ==
  /\ cpc \in Polling => live = objs
  /\ cpc = "collect" => todo \subseteq live
  /\ cpc = "exited" => live \cap objs = {} /\ \A m, n \in live : m = n

(* Between reloads the collector polls only modules of the configuration   *)
(* it read last, also when that reload failed half way (reread_cfg).       *)
PollsLoadedConfig == cpc \in Polling => objs \subseteq loaded.mods

(* Across reloads, failing ones too, the objects polled are exactly those  *)
(* that are alive, and they are of the configuration read last.            *)
ConfigFollowed == ObjectsAccounted /\ PollsLoadedConfig

(* A reload request that handler2 took outside LossWindow is honoured: as  *)
(* long as the configuration in use is older than the request, the flag is *)
(* still set and the next pass of line 353 will read the file.             *)
ReloadHonoured == cpc \in Polling /\ ~flag => loaded.ver >= req

(* The two processes keep to the life that Daemon.tla describes: signals   *)
(* are fatal, ignored or heard when it says, an orderly end comes only of  *)
(* SIGINT, -S or the loss of the timer, and it leaves no timer behind.     *)
ImplementsDaemon == DaemonOf!Spec

(* The collector leaves its loop through wait_for_timestep only when the   *)
(* timer is gone and every tick it had written has been served.            *)
EofStep == cpc = "wait" /\ cpc' = "cleanup" => tpc = "dead" /\ kpipe + rbuf = 0
EofOnlyWhenTimerGone == [][EofStep]_vars

(* Collector and timer end together: no orderly exit leaves a timer, and   *)
(* the pipe is taken for closed only when the timer is gone and all it     *)
(* wrote was served.                                                       *)
TimerSafe == [][NoOrphanTimer' /\ EofStep]_vars

(* While the flag is set in the main loop, a re-read (or the end of the    *)
(* daemon) follows: the kick of handler2, or failing that the heartbeat,   *)
(* brings the tick that takes the collector past line 353.                 *)
ReloadHappens == (flag /\ cpc \in Polling) ~> cpc \in {"do", "cleanup"} \cup Ended

(* A SIGINT that reached the collector ends both processes, unless the     *)
(* collector dies before handler3 runs.                                    *)
StopHappens == "INT" \in cpend ~> (cpc = "died" \/ (cpc = "exited" /\ tpc = "dead"))

(* When the timer dies, the collector does not wait for ever: it sees the  *)
(* end of the pipe once the ticks left in it are used up.                  *)
TimerLossEndsDaemon == tpc = "dead" ~> cpc \in Ended

(* The daemon ends when it is told to, and when its timer is lost.         *)
DaemonEnds == StopHappens /\ TimerLossEndsDaemon

(* The daemon collects again and again until it ends; a failed fork of the *)
(* timer (line 232) is the one way it can run on without ever collecting.  *)
KeepsCollecting == []<>(cpc \in {"collect"} \cup AsTimer \cup Ended)

(* "note that handlers are only 'on' during the sleep call so there        *)
(* shouldn't be any race conditions here" (reread_cfg, handler2): then no  *)
(* reload request would ever be lost.                                      *)
NoLostReload == cpc \in Polling /\ ~flag => loaded.ver >= reqAny
=============================================================================
