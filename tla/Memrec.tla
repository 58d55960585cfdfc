------------------------------- MODULE Memrec -------------------------------
(***************************************************************************)
(* bin/memrec.pl: the flight recorder.  The recorder forks the target, the *)
(* program whose memory it records, and a timer that writes one tick per   *)
(* heartbeat into a pipe.  Its loop runs until SIGCHLD has told it that    *)
(* the target is gone, or the pipe that the timer is.  Perl runs a handler *)
(* between two operations of the program.                                  *)
(***************************************************************************)
EXTENDS Naturals

CONSTANTS
  PipeCap   \* ticks the pipe and the buffer of READER hold together

ASSUME PipeAssumption == PipeCap \in Nat \ {0}

VARIABLES
  rpc,      \* where the recorder is in the program
  target,   \* the first child: the program under observation
  timer,    \* the second child
  ticks,    \* ticks written and not yet read
  flag,     \* $child_flag = 1
  pend,     \* signals the recorder has to run a handler for
  helpers,  \* the modules in @objs run commands of their own
  live,     \* the objects of @objs exist and are not deleted
  early     \* the target ended while no handler listened for it

vars == <<rpc, target, timer, ticks, flag, pend, helpers, live, early>>

Startup == {"boot", "ready", "forked", "quiet", "timed", "attached"}
Looping == {"check", "collect", "wait"}
(* handler3 is installed at line 192, child_handler at line 194.           *)
Catching == {"cleanup"} \cup Looping
Handling == {"inst"} \cup Catching
(* Ends: the last line, handler3, and anything that ends a process early.  *)
Ended == {"exited", "interrupted", "died"}
(* A failed fork makes the recorder play the child it could not create.    *)
Impostor == {"astarget", "astimer"}
RecorderPC == Startup \cup Handling \cup Ended \cup Impostor

TimerAlive == timer \in {"sleep", "write"}

Init ==
  /\ rpc = "boot" /\ target = "none" /\ timer = "none"
  /\ ticks = 0 /\ flag = FALSE /\ pend = {}
  /\ helpers = FALSE /\ live = FALSE /\ early = FALSE
-----------------------------------------------------------------------------
(* Start-up.                                                               *)

LoadConfig ==
  /\ rpc = "boot" /\ rpc' = "ready"
  /\ helpers' \in BOOLEAN
  /\ live' = TRUE
  /\ UNCHANGED <<target, timer, ticks, flag, pend, early>>

ForkTarget ==
  /\ rpc = "ready" /\ rpc' = "forked"
  /\ target' = "running"
  /\ UNCHANGED <<timer, ticks, flag, pend, helpers, live, early>>

(* undef == 0: the recorder itself execs the command.                      *)
ForkTargetFails ==
  /\ rpc = "ready" /\ rpc' = "astarget"
  /\ UNCHANGED <<target, timer, ticks, flag, pend, helpers, live, early>>

SetUp ==
  /\ rpc = "forked" /\ rpc' = "quiet"
  /\ UNCHANGED <<target, timer, ticks, flag, pend, helpers, live, early>>

ForkTimer ==
  /\ rpc = "quiet" /\ rpc' = "timed"
  /\ timer' = "sleep"
  /\ UNCHANGED <<target, ticks, flag, pend, helpers, live, early>>

ForkTimerFails ==
  /\ rpc = "quiet" /\ rpc' = "astimer"
  /\ UNCHANGED <<target, timer, ticks, flag, pend, helpers, live, early>>

(* pidmem->new opens /proc/$pid/status, which a zombie still has.          *)
Attach ==
  /\ rpc = "timed" /\ rpc' = "attached"
  /\ UNCHANGED <<target, timer, ticks, flag, pend, helpers, live, early>>

InitFlag ==
  /\ rpc = "attached" /\ rpc' = "inst"
  /\ flag' = TRUE
  /\ UNCHANGED <<target, timer, ticks, pend, helpers, live, early>>

InstallChld ==
  /\ rpc = "inst" /\ rpc' = "check"
  /\ UNCHANGED <<target, timer, ticks, flag, pend, helpers, live, early>>
-----------------------------------------------------------------------------
(* The main loop and the normal exit.                                      *)

(* Slip: while( 1 ), as the daemons have it.                               *)
CheckFlagNever ==
  /\ rpc = "check" /\ rpc' = "collect"
  /\ UNCHANGED <<target, timer, ticks, flag, pend, helpers, live, early>>

CheckFlag ==
  /\ rpc = "check"
  /\ rpc' = IF flag THEN "collect" ELSE "cleanup"
  /\ UNCHANGED <<target, timer, ticks, flag, pend, helpers, live, early>>

(* One record; the end of every command a module runs raises SIGCHLD.      *)
Record ==
  /\ rpc = "collect" /\ rpc' = "wait"
  /\ pend' = IF helpers THEN pend \cup {"CHLD"} ELSE pend
  /\ UNCHANGED <<target, timer, ticks, flag, helpers, live, early>>

ReadTick ==
  /\ rpc = "wait" /\ ticks > 0 /\ rpc' = "check"
  /\ ticks' = ticks - 1
  /\ UNCHANGED <<target, timer, flag, pend, helpers, live, early>>

(* "last" in wait_for_timestep leaves the caller's while loop.             *)
ReadEof ==
  /\ rpc = "wait" /\ ticks = 0 /\ ~TimerAlive /\ rpc' = "cleanup"
  /\ UNCHANGED <<target, timer, ticks, flag, pend, helpers, live, early>>

(* Children that a dead parent left behind are reaped by init.             *)
Orphaned(child) == IF child = "zombie" THEN "gone" ELSE child

Finish ==
  /\ rpc = "cleanup" /\ rpc' = "exited"
  /\ timer' = "gone" /\ target' = Orphaned(target)
  /\ live' = FALSE /\ pend' = {}
  /\ UNCHANGED <<ticks, flag, helpers, early>>
-----------------------------------------------------------------------------
(* The signal handlers.                                                    *)

(* Slip: if instead of while, one child per call.                          *)
child_handlerOnce ==
  /\ rpc \in Catching /\ "CHLD" \in pend
  /\ pend' = pend \ {"CHLD"}
  /\ \/ /\ flag' = (flag /\ target # "zombie")
        /\ target' = Orphaned(target) /\ UNCHANGED timer
     \/ timer = "zombie" /\ timer' = "gone" /\ UNCHANGED <<flag, target>>
  /\ UNCHANGED <<rpc, ticks, helpers, live, early>>

(* Slip: the test $w == $pid is missing.                                   *)
child_handlerAnyChild ==
  /\ rpc \in Catching /\ "CHLD" \in pend
  /\ pend' = pend \ {"CHLD"} /\ flag' = FALSE
  /\ target' = Orphaned(target) /\ timer' = Orphaned(timer)
  /\ UNCHANGED <<rpc, ticks, helpers, live, early>>

(* waitpid(-1) in a loop reaps every zombie, whatever raised the signal.   *)
child_handler ==
  /\ rpc \in Catching /\ "CHLD" \in pend
  /\ pend' = pend \ {"CHLD"}
  /\ flag' = (flag /\ target # "zombie")
  /\ target' = Orphaned(target) /\ timer' = Orphaned(timer)
  /\ UNCHANGED <<rpc, ticks, helpers, live, early>>

(* $timer_pid is killed.  $pid names the package variable here, which is   *)
(* undefined (line 108 has a lexical one): kill dies of it, and with it    *)
(* the recorder.                                                           *)
handler3 ==
  /\ rpc \in Handling /\ "INT" \in pend
  /\ rpc' = "interrupted" /\ pend' = {}
  /\ timer' = "gone" /\ target' = Orphaned(target)
  /\ live' = FALSE
  /\ UNCHANGED <<ticks, flag, helpers, early>>
-----------------------------------------------------------------------------
(* The timer.                                                              *)

(* The heartbeat is over, or SIGUSR1 ran handler1 inside sleep().          *)
TimerWake ==
  /\ timer = "sleep" /\ timer' = "write"
  /\ UNCHANGED <<rpc, target, ticks, flag, pend, helpers, live, early>>

(* Blocks on a full pipe; fails unnoticed when the recorder is gone.       *)
TimerWrite ==
  /\ timer = "write" /\ timer' = "sleep"
  /\ \/ rpc \notin Ended /\ ticks < PipeCap /\ ticks' = ticks + 1
     \/ rpc \in Ended /\ UNCHANGED ticks
  /\ UNCHANGED <<rpc, target, flag, pend, helpers, live, early>>
-----------------------------------------------------------------------------
(* The environment.                                                        *)

(* A child that ends waits as a zombie for its parent; SIGCHLD is          *)
(* discarded until child_handler is installed.                             *)
Dead == IF rpc \in Ended THEN "gone" ELSE "zombie"
RaiseChld == IF rpc \in Catching THEN pend \cup {"CHLD"} ELSE pend

TargetExits ==
  /\ target = "running" /\ target' = Dead
  /\ pend' = RaiseChld
  /\ early' = (rpc \notin Catching)
  /\ UNCHANGED <<rpc, timer, ticks, flag, helpers, live>>

TimerDies ==
  /\ TimerAlive /\ timer' = Dead
  /\ pend' = RaiseChld
  /\ UNCHANGED <<rpc, target, ticks, flag, helpers, live, early>>

(* SIGINT from line 192 on; it is ignored from line 128 until then.        *)
Interrupt ==
  /\ rpc \in Handling
  /\ pend' = pend \cup {"INT"}
  /\ UNCHANGED <<rpc, target, timer, ticks, flag, helpers, live, early>>

RecorderDies ==
  /\ rpc \notin Ended /\ rpc' = "died"
  /\ target' = Orphaned(target) /\ timer' = Orphaned(timer)
  /\ pend' = {}
  /\ UNCHANGED <<ticks, flag, helpers, live, early>>
-----------------------------------------------------------------------------
Recorder ==
  \/ LoadConfig \/ ForkTarget \/ ForkTargetFails \/ SetUp \/ ForkTimer \/ ForkTimerFails
  \/ Attach \/ InitFlag \/ InstallChld
  \/ CheckFlag \/ Record \/ ReadTick \/ ReadEof \/ Finish

Timer == TimerWake \/ TimerWrite

Environment == TargetExits \/ TimerDies \/ Interrupt \/ RecorderDies

Next == Recorder \/ Timer \/ child_handler \/ handler3 \/ Environment

(* Both processes are scheduled and every handler gets its turn; nothing   *)
(* is assumed of the target, the user or what ends a process early.        *)
Fairness == WF_vars(Recorder) /\ WF_vars(Timer) /\ WF_vars(child_handler) /\ WF_vars(handler3)

Spec == Init /\ [][Next]_vars
FairSpec == Spec /\ Fairness
-----------------------------------------------------------------------------
(* What the recorder promises.                                             *)

(* Every variable keeps to its range; the pipe never exceeds its capacity. *)
TypeOK ==
  /\ rpc \in RecorderPC
  /\ target \in {"none", "running", "zombie", "gone"}
  /\ timer \in {"none", "sleep", "write", "zombie", "gone"}
  /\ ticks \in 0..PipeCap
  /\ pend \subseteq {"INT", "CHLD"}
  /\ flag \in BOOLEAN /\ helpers \in BOOLEAN /\ live \in BOOLEAN /\ early \in BOOLEAN

(* Signals merge: SIGCHLD of the target, of the timer and of a module's    *)
(* command may be one call of child_handler.  None is lost: a target that  *)
(* ended under its eyes is reaped, or a call of child_handler is due.      *)
NoMissedExit ==
  rpc \in Catching /\ target = "zombie" /\ ~early => "CHLD" \in pend

(* The loop gives up on a target only once that target is gone: neither    *)
(* the timer's death nor that of a module's command clears $child_flag.    *)
RecordsToTheEnd == rpc \in Handling /\ ~flag => target = "gone"

(* The normal exit (line 308) has a reason - the target is gone or the     *)
(* timer had died - and leaves no timer and no object behind; nor does     *)
(* handler3.                                                               *)
EndStep ==
  /\ rpc' = "exited" /\ rpc # "exited" => target = "gone" \/ timer \in {"zombie", "gone"}
  /\ rpc' \in {"exited", "interrupted"} => ~TimerAlive' /\ ~live'
EndsWithReason == [][EndStep]_vars

(* The recorder neither gives up on a running target nor leaves a timer or *)
(* an object behind when it ends.                                          *)
EndsRight == [][RecordsToTheEnd' /\ EndStep]_vars

(* A target that ends after child_handler was installed ends the           *)
(* recording; one that ended before does too if a module runs commands,    *)
(* whose SIGCHLD makes child_handler find it.                              *)
ExitNoticed ==
  (rpc \in Catching /\ target \in {"zombie", "gone"} /\ (helpers \/ ~early)) ~> rpc \in Ended

(* SIGINT ends the recorder and the timer, unless something else ends the  *)
(* recorder before handler3 runs.                                          *)
InterruptEnds ==
  "INT" \in pend ~> (rpc = "died" \/ (rpc \in Ended /\ ~TimerAlive))

(* The recorder does not wait for ever on a timer that has died.           *)
TimerLossEnds == (rpc \in Handling /\ ~TimerAlive) ~> rpc \in Ended

(* The recorder ends: with its target, on SIGINT, and without its timer.   *)
RecorderEnds == ExitNoticed /\ InterruptEnds /\ TimerLossEnds

(* README: "repeat until target-program exits".                            *)
EndsWithTarget == (rpc \in Looping /\ target \in {"zombie", "gone"}) ~> rpc \in Ended
=============================================================================
