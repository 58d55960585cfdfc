----------------------------- MODULE Duologger -----------------------------
(***************************************************************************)
(* sbin/duologger.pl: the two-level daemon.  Every tick of the timer polls *)
(* the inner modules; every inner2outer-th tick also polls the outer ones  *)
(* and writes a record.  The processes, the pipe and the signals are those *)
(* of dlogger.pl; the loop structure, the reload and the exit are not, and *)
(* they are what this module is about.  lib/memrec/netinfo10.pm, the inner *)
(* module, divides by the inner2outer it saw when it was created.          *)
(***************************************************************************)
EXTENDS Naturals

CONSTANTS
  Ratios,    \* the values of inner2outer a configuration file can set
  PipeCap,   \* ticks the pipe and the buffer of READER hold together
  MaxEdits,  \* bound: how often the configuration file is rewritten
  GivenI,    \* TRUE when the daemon was started with -i
  OptI,      \* the argument of -i
  OptS       \* TRUE when the daemon runs with -S, a single cycle

ASSUME RatioAssumption == Ratios \subseteq Nat /\ Ratios # {} /\ OptI \in Nat
ASSUME PipeAssumption == PipeCap \in Nat \ {0} /\ MaxEdits \in Nat
ASSUME OptAssumption == GivenI \in BOOLEAN /\ OptS \in BOOLEAN

VARIABLES
  pc,       \* where the collector is in the program
  tpc,      \* where the timer is in its loop
  ticks,    \* ticks written and not yet read
  itr,      \* $itr, the counter of the inner for loop
  n2o,      \* $inner2outer
  modN,     \* $in2out of netinfo10.pm
  objs,     \* which of @objs_in and @objs_out hold objects
  flag,     \* $sigusr2_flag
  cpend,    \* signals the collector has to run a handler for
  tpend,    \* SIGUSR1 is pending for the timer
  file,     \* the inner2outer that the configuration file sets
  edits,    \* how often the file was rewritten
  polls,    \* polls of @objs_in since the last record
  age       \* ticks read since the flag was raised

fileVars == <<file, edits>>
countVars == <<polls, age>>
vars == <<pc, tpc, ticks, itr, n2o, modN, objs, flag, cpend, tpend, fileVars, countVars>>

Startup == {"boot", "ready", "quiet", "forked"}
Cycle == {"inner", "ipoll", "iwait", "outer", "owait", "check"}
Rereading == {"reread", "do", "rearm"}
Handling == {"inst", "cleanup"} \cup Cycle \cup Rereading
Ended == {"exited", "died"}
CollectorPC == Startup \cup Handling \cup Ended \cup {"astimer"}

(* The timer catches SIGUSR1 between lines 243 and 244 only.               *)
TimerPC == {"none", "top", "caught", "sleep", "write", "dead"}
TimerAlive == tpc \in {"top", "caught", "sleep", "write"}

Lists == {"in", "out"}
(* Ticks per record: the for loop runs its body max(0, n2o - 1) times.     *)
CycleLength == IF n2o > 1 THEN n2o ELSE 1

Init ==
  /\ pc = "boot" /\ tpc = "none" /\ ticks = 0 /\ itr = 0
  /\ n2o \in Ratios /\ modN = n2o /\ objs = {} /\ flag = FALSE
  /\ cpend = {} /\ tpend = FALSE
  /\ file \in Ratios /\ edits = 0
  /\ polls = 0 /\ age = 0
-----------------------------------------------------------------------------
(* Start-up.                                                               *)

(* require runs the file, new() included; an unreadable file is skipped.   *)
LoadConfig ==
  /\ pc = "boot" /\ pc' = "ready"
  /\ \/ n2o' = file /\ modN' = file /\ objs' = Lists
     \/ UNCHANGED <<n2o, modN, objs>>
  /\ UNCHANGED <<tpc, ticks, itr, flag, cpend, tpend, fileVars, countVars>>

(* "now overwrite with cmdline args"; then daemonize, signals off, output. *)
(* A bad -l or -o ends the program instead: CollectorDies.                 *)
ApplyArgs ==
  /\ pc = "ready" /\ pc' = "quiet"
  /\ n2o' = IF GivenI THEN OptI ELSE n2o
  /\ UNCHANGED <<tpc, ticks, itr, modN, objs, flag, cpend, tpend, fileVars, countVars>>

ForkTimer ==
  /\ pc = "quiet" /\ pc' = "forked"
  /\ tpc' = "top"
  /\ UNCHANGED <<ticks, itr, n2o, modN, objs, flag, cpend, tpend, fileVars, countVars>>

(* fork() returns undef, which "not $pid" takes for the child's 0.         *)
ForkFails ==
  /\ pc = "quiet" /\ pc' = "astimer"
  /\ UNCHANGED <<tpc, ticks, itr, n2o, modN, objs, flag, cpend, tpend, fileVars, countVars>>

InstallHandlers ==
  /\ pc = "forked" /\ pc' = "inst"
  /\ UNCHANGED <<tpc, ticks, itr, n2o, modN, objs, flag, cpend, tpend, fileVars, countVars>>

InitFlag ==
  /\ pc = "inst" /\ pc' = "inner"
  /\ flag' = FALSE /\ itr' = 1
  /\ age' = 0
  /\ UNCHANGED <<tpc, ticks, n2o, modN, objs, cpend, tpend, fileVars, polls>>
-----------------------------------------------------------------------------
(* The inner iterations.                                                   *)

(* Slip: <= for < in the for loop.                                         *)
InnerTestOneMore ==
  /\ pc = "inner"
  /\ pc' = IF itr <= n2o THEN "ipoll" ELSE "outer"
  /\ UNCHANGED <<tpc, ticks, itr, n2o, modN, objs, flag, cpend, tpend, fileVars, countVars>>

InnerTest ==
  /\ pc = "inner"
  /\ pc' = IF itr < n2o THEN "ipoll" ELSE "outer"
  /\ UNCHANGED <<tpc, ticks, itr, n2o, modN, objs, flag, cpend, tpend, fileVars, countVars>>

InnerPoll ==
  /\ pc = "ipoll" /\ pc' = "iwait"
  /\ polls' = polls + 1
  /\ UNCHANGED <<tpc, ticks, itr, n2o, modN, objs, flag, cpend, tpend, fileVars, age>>

(* wait_for_timestep's <READER>.                                           *)
TakeTick ==
  /\ ticks > 0 /\ ticks' = ticks - 1
  /\ age' = IF flag THEN age + 1 ELSE age

InnerTick ==
  /\ pc = "iwait" /\ pc' = "inner"
  /\ TakeTick
  /\ itr' = itr + 1
  /\ UNCHANGED <<tpc, n2o, modN, objs, flag, cpend, tpend, fileVars, polls>>

(* Slip: return instead of last at the end of the pipe, in the inner loop. *)
InnerEofReturns ==
  /\ pc = "iwait" /\ ticks = 0 /\ ~TimerAlive /\ pc' = "iwait"
  /\ UNCHANGED <<tpc, ticks, itr, n2o, modN, objs, flag, cpend, tpend, fileVars, countVars>>

(* "last" leaves the innermost loop, which is the for: one more record is  *)
(* written before the outer wait meets the end of the pipe again.          *)
InnerEof ==
  /\ pc = "iwait" /\ ticks = 0 /\ ~TimerAlive /\ pc' = "outer"
  /\ UNCHANGED <<tpc, ticks, itr, n2o, modN, objs, flag, cpend, tpend, fileVars, countVars>>
-----------------------------------------------------------------------------
(* The outer iteration.                                                    *)

(* Polls @objs_in and @objs_out and writes the record.                     *)
OuterPoll ==
  /\ pc = "outer"
  /\ pc' = IF OptS THEN "cleanup" ELSE "owait"
  /\ polls' = 0
  /\ UNCHANGED <<tpc, ticks, itr, n2o, modN, objs, flag, cpend, tpend, fileVars, age>>

OuterTick ==
  /\ pc = "owait" /\ pc' = "check"
  /\ TakeTick
  /\ UNCHANGED <<tpc, itr, n2o, modN, objs, flag, cpend, tpend, fileVars, polls>>

OuterEof ==
  /\ pc = "owait" /\ ticks = 0 /\ ~TimerAlive /\ pc' = "cleanup"
  /\ UNCHANGED <<tpc, ticks, itr, n2o, modN, objs, flag, cpend, tpend, fileVars, countVars>>

CheckFlag ==
  /\ pc = "check"
  /\ pc' = IF flag THEN "reread" ELSE "inner"
  /\ itr' = 1
  /\ UNCHANGED <<tpc, ticks, n2o, modN, objs, flag, cpend, tpend, fileVars, countVars>>
-----------------------------------------------------------------------------
(* reread_cfg.                                                             *)

(* Every object is deleted, both lists are emptied, and the file, which    *)
(* do reads as a whole, sets $inner2outer again.                           *)
ReadConfig ==
  /\ pc = "reread" /\ pc' = "do"
  /\ objs' = {}
  /\ n2o' = file
  /\ UNCHANGED <<tpc, ticks, itr, modN, flag, cpend, tpend, fileVars, countVars>>

(* The rest of the file: inner modules, then outer ones.  A die in a new() *)
(* ends the do half way, unnoticed.                                        *)
RunConfig ==
  /\ pc = "do" /\ pc' = "rearm"
  /\ objs' \in {{}, {"in"}, Lists}
  /\ modN' = IF "in" \in objs' THEN n2o ELSE modN
  /\ UNCHANGED <<tpc, ticks, itr, n2o, flag, cpend, tpend, fileVars, countVars>>

(* do finds no file, or one that does not compile: nothing of it is run.   *)
ReadFails ==
  /\ pc = "reread" /\ pc' = "rearm"
  /\ objs' = {}
  /\ UNCHANGED <<tpc, ticks, itr, n2o, modN, flag, cpend, tpend, fileVars, countVars>>

Rearm ==
  /\ pc = "rearm" /\ pc' = "inner"
  /\ flag' = FALSE /\ itr' = 1
  /\ age' = 0
  /\ UNCHANGED <<tpc, ticks, n2o, modN, objs, cpend, tpend, fileVars, polls>>

(* The end of the main program: no kill of the timer.                      *)
Finish ==
  /\ pc = "cleanup" /\ pc' = "exited"
  /\ objs' = {} /\ cpend' = {}
  /\ UNCHANGED <<tpc, ticks, itr, n2o, modN, flag, tpend, fileVars, countVars>>
-----------------------------------------------------------------------------
(* The collector's signal handlers.                                        *)

(* A SIGUSR1 that the timer ignores is gone.                               *)
handler2 ==
  /\ pc \in Handling /\ "USR2" \in cpend
  /\ cpend' = cpend \ {"USR2"}
  /\ flag' = TRUE
  /\ tpend' = (tpend \/ tpc = "caught")
  /\ UNCHANGED <<pc, tpc, ticks, itr, n2o, modN, objs, fileVars, countVars>>

(* Slip: exit without kill(KILL, $pid).                                    *)
handler3NoKill ==
  /\ pc \in Handling /\ "INT" \in cpend
  /\ pc' = "exited" /\ objs' = {} /\ cpend' = {}
  /\ UNCHANGED <<tpc, ticks, itr, n2o, modN, flag, tpend, fileVars, countVars>>

handler3 ==
  /\ pc \in Handling /\ "INT" \in cpend
  /\ pc' = "exited" /\ objs' = {} /\ cpend' = {}
  /\ tpc' = "dead" /\ tpend' = FALSE
  /\ UNCHANGED <<ticks, itr, n2o, modN, flag, fileVars, countVars>>
-----------------------------------------------------------------------------
(* The timer.                                                              *)

TimerCatch ==
  /\ tpc = "top" /\ tpc' = "caught"
  /\ UNCHANGED <<pc, ticks, itr, n2o, modN, objs, flag, cpend, tpend, fileVars, countVars>>

handler1 ==
  /\ tpc = "caught" /\ tpend /\ tpend' = FALSE
  /\ UNCHANGED <<pc, tpc, ticks, itr, n2o, modN, objs, flag, cpend, fileVars, countVars>>

TimerIgnore ==
  /\ tpc = "caught" /\ tpc' = "sleep"
  /\ tpend' = FALSE
  /\ UNCHANGED <<pc, ticks, itr, n2o, modN, objs, flag, cpend, fileVars, countVars>>

TimerWake ==
  /\ tpc = "sleep" /\ tpc' = "write"
  /\ UNCHANGED <<pc, ticks, itr, n2o, modN, objs, flag, cpend, tpend, fileVars, countVars>>

(* Blocks on a full pipe; fails unnoticed when the collector is gone.      *)
TimerWrite ==
  /\ tpc = "write" /\ tpc' = "top"
  /\ \/ pc \notin Ended /\ ticks < PipeCap /\ ticks' = ticks + 1
     \/ pc \in Ended /\ UNCHANGED ticks
  /\ UNCHANGED <<pc, itr, n2o, modN, objs, flag, cpend, tpend, fileVars, countVars>>
-----------------------------------------------------------------------------
(* The environment.                                                        *)

EditConfig ==
  /\ edits < MaxEdits /\ edits' = edits + 1
  /\ file' \in Ratios
  /\ UNCHANGED <<pc, tpc, ticks, itr, n2o, modN, objs, flag, cpend, tpend, countVars>>

Signal(sig) ==
  /\ pc \in Handling
  /\ cpend' = cpend \cup {sig}
  /\ UNCHANGED <<pc, tpc, ticks, itr, n2o, modN, objs, flag, tpend, fileVars, countVars>>

CollectorDies ==
  /\ pc \notin Ended /\ pc' = "died" /\ cpend' = {}
  /\ UNCHANGED <<tpc, ticks, itr, n2o, modN, objs, flag, tpend, fileVars, countVars>>

TimerDies ==
  /\ TimerAlive /\ tpc' = "dead" /\ tpend' = FALSE
  /\ UNCHANGED <<pc, ticks, itr, n2o, modN, objs, flag, cpend, fileVars, countVars>>
-----------------------------------------------------------------------------
Collector ==
  \/ LoadConfig \/ ApplyArgs \/ ForkTimer \/ ForkFails \/ InstallHandlers \/ InitFlag
  \/ InnerTest \/ InnerPoll \/ InnerTick \/ InnerEof
  \/ OuterPoll \/ OuterTick \/ OuterEof \/ CheckFlag
  \/ ReadConfig \/ RunConfig \/ ReadFails \/ Rearm \/ Finish

Timer == TimerCatch \/ TimerIgnore \/ TimerWake \/ TimerWrite

Environment == EditConfig \/ CollectorDies \/ TimerDies
               \/ \E sig \in {"USR2", "INT"} : Signal(sig)

Next == Collector \/ Timer \/ handler1 \/ handler2 \/ handler3 \/ Environment

(* As for dlogger.pl: both processes and every handler get their turn.     *)
Fairness ==
  /\ WF_vars(Collector) /\ WF_vars(Timer)
  /\ WF_vars(handler2) /\ WF_vars(handler3)

Spec == Init /\ [][Next]_vars
FairSpec == Spec /\ Fairness
-----------------------------------------------------------------------------
(* The daemon as the init script sees it.                                  *)

phaseOf ==
  CASE pc \in {"boot", "ready"} -> "starting" [] pc \in {"quiet", "forked"} -> "deaf"
    [] pc \in Handling -> "serving" [] pc = "astimer" -> "stray"
    [] pc = "exited" -> "ended" [] pc = "died" -> "crashed"

lifeOf ==
  [phase |-> phaseOf,
   timer |-> IF tpc = "none" THEN "none" ELSE IF TimerAlive THEN "on" ELSE "off",
   asked |-> IF "INT" \in cpend THEN "yes" ELSE "no"]

DaemonOf == INSTANCE Daemon WITH life <- lifeOf, Single <- OptS
-----------------------------------------------------------------------------
(* What the daemon promises.                                               *)

(* Every variable keeps to its range.                                      *)
TypeOK ==
  /\ pc \in CollectorPC /\ tpc \in TimerPC
  /\ ticks \in 0..PipeCap
  /\ itr \in Nat /\ n2o \in Nat /\ modN \in Nat
  /\ objs \subseteq Lists
  /\ flag \in BOOLEAN /\ tpend \in BOOLEAN
  /\ cpend \subseteq {"USR2", "INT"}
  /\ file \in Ratios /\ edits \in 0..MaxEdits
  /\ polls \in Nat /\ age \in Nat

(* "num inner loops per outer": a record is written after inner2outer      *)
(* polls of the inner modules, the record's own included, also across      *)
(* reloads that change inner2outer.  Only the loss of the timer cuts a     *)
(* cycle short.                                                            *)
OuterCadence ==
  pc = "outer" => polls + 1 = CycleLength \/ (polls < CycleLength /\ tpc = "dead")

(* "if SIGUSR2 is caught here, we still go through N inner-iters": the     *)
(* file is read again within one cycle of the request.                     *)
ReloadLatency == pc \in Cycle /\ flag => age <= CycleLength

(* The ratio netinfo10 divides its totals by is that of the loop that      *)
(* polls it, also after reloads that fail half way.                        *)
ModuleAgrees == ~GivenI /\ pc \in Cycle /\ "in" \in objs => modN = n2o

(* The two levels stay in step across reloads: the length of a cycle, the  *)
(* delay of a reload and the ratio netinfo10 divides by all are that of    *)
(* the file in use.                                                        *)
LoopExact == OuterCadence /\ ReloadLatency /\ ModuleAgrees

(* The two processes keep to the life that Daemon.tla describes.           *)
ImplementsDaemon == DaemonOf!Spec

(* A SIGINT that reached the collector ends both processes, unless the     *)
(* collector dies before handler3 runs.                                    *)
StopHappens == "INT" \in cpend ~> (pc = "died" \/ (pc = "exited" /\ tpc = "dead"))

(* "last" works at both levels: the loss of the timer ends the daemon.     *)
TimerLossEndsDaemon == tpc = "dead" ~> pc \in Ended

(* The daemon ends when it is told to, and when its timer is lost.         *)
DaemonEnds == StopHappens /\ TimerLossEndsDaemon
=============================================================================
