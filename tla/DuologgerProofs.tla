-------------------------- MODULE DuologgerProofs --------------------------
(***************************************************************************)
(* The two-level loop of Duologger.tla, for any set of ratios, with and    *)
(* without -i, any pipe and any number of edits of the file.               *)
(***************************************************************************)
EXTENDS Duologger, TLAPS

(* What the for loop counts: before its test and its poll $itr is one      *)
(* ahead of the polls made, after the poll it is level with them.  A cycle *)
(* that was cut short has lost its timer for good.                         *)
CountInv ==
  /\ pc = "inner" => polls + 1 = itr /\ itr <= CycleLength
  /\ pc = "ipoll" => polls + 1 = itr /\ itr < n2o
  /\ pc = "iwait" => polls = itr /\ itr < n2o
  /\ OuterCadence
  /\ pc \notin {"inner", "ipoll", "iwait", "outer"} \cup Ended \cup {"cleanup"} => polls = 0
  /\ pc \in {"forked"} \cup Handling => tpc # "none"

(* A request is never older than the part of the cycle that has been run:  *)
(* the age of a raised flag follows $itr, and no flag means no age.        *)
AgeInv ==
  /\ pc \in Cycle /\ ~flag => age = 0
  /\ pc \in {"inner", "ipoll", "iwait"} => age < itr /\ itr <= CycleLength
  /\ pc \in {"outer", "owait"} => age < CycleLength
  /\ pc = "check" => age <= CycleLength

(* The inner module's divisor is set from $inner2outer whenever the module *)
(* is created, and $inner2outer changes only while there is no object.     *)
RatioInv == ~GivenI /\ "in" \in objs => modN = n2o

USE DEF Startup, Cycle, Rereading, Handling, Ended, CollectorPC, TimerPC, TimerAlive,
        Lists, fileVars, countVars, vars

(* The types are inductive by themselves.                                  *)
LEMMA TypeStep == TypeOK /\ [Next]_vars => TypeOK'
<1> SUFFICES ASSUME TypeOK, [Next]_vars PROVE TypeOK'
  OBVIOUS
<1> USE DEF TypeOK
<1>1. CASE LoadConfig
  BY <1>1, RatioAssumption DEF LoadConfig
<1>2. CASE ApplyArgs
  BY <1>2, RatioAssumption DEF ApplyArgs
<1>3. CASE ForkTimer
  BY <1>3 DEF ForkTimer
<1>4. CASE ForkFails
  BY <1>4 DEF ForkFails
<1>5. CASE InstallHandlers
  BY <1>5 DEF InstallHandlers
<1>6. CASE InitFlag
  BY <1>6 DEF InitFlag
<1>7. CASE InnerTest
  BY <1>7 DEF InnerTest
<1>8. CASE InnerPoll
  BY <1>8 DEF InnerPoll
<1>9. CASE InnerTick
  BY <1>9, PipeAssumption DEF InnerTick, TakeTick
<1>10. CASE InnerEof
  BY <1>10 DEF InnerEof
<1>11. CASE OuterPoll
  BY <1>11 DEF OuterPoll
<1>12. CASE OuterTick
  BY <1>12, PipeAssumption DEF OuterTick, TakeTick
<1>13. CASE OuterEof
  BY <1>13 DEF OuterEof
<1>14. CASE CheckFlag
  BY <1>14 DEF CheckFlag
<1>15. CASE ReadConfig
  BY <1>15, RatioAssumption DEF ReadConfig
<1>16. CASE RunConfig
  BY <1>16 DEF RunConfig
<1>17. CASE ReadFails
  BY <1>17 DEF ReadFails
<1>18. CASE Rearm
  BY <1>18 DEF Rearm
<1>19. CASE Finish
  BY <1>19 DEF Finish
<1>20. CASE TimerCatch
  BY <1>20 DEF TimerCatch
<1>21. CASE TimerIgnore
  BY <1>21 DEF TimerIgnore
<1>22. CASE TimerWake
  BY <1>22 DEF TimerWake
<1>23. CASE TimerWrite
  BY <1>23, PipeAssumption DEF TimerWrite
<1>24. CASE handler1
  BY <1>24 DEF handler1
<1>25. CASE handler2
  BY <1>25 DEF handler2
<1>26. CASE handler3
  BY <1>26 DEF handler3
<1>27. CASE EditConfig
  BY <1>27, PipeAssumption DEF EditConfig
<1>28. ASSUME NEW sig \in {"USR2", "INT"}, Signal(sig) PROVE TypeOK'
  BY <1>28 DEF Signal
<1>29. CASE CollectorDies
  BY <1>29 DEF CollectorDies
<1>30. CASE TimerDies
  BY <1>30 DEF TimerDies
<1>31. CASE UNCHANGED vars
  BY <1>31
<1> QED
  BY <1>1, <1>2, <1>3, <1>4, <1>5, <1>6, <1>7, <1>8, <1>9, <1>10, <1>11,
     <1>12, <1>13, <1>14, <1>15, <1>16, <1>17, <1>18, <1>19, <1>20,
     <1>21, <1>22, <1>23, <1>24, <1>25, <1>26, <1>27, <1>28, <1>29,
     <1>30, <1>31
  DEF Next, Collector, Timer, Environment

(* Every step keeps the counters of the two loops together.                *)
LEMMA CountStep == TypeOK /\ CountInv /\ [Next]_vars => CountInv'
<1> SUFFICES ASSUME TypeOK, CountInv, [Next]_vars PROVE CountInv'
  OBVIOUS
<1> USE DEF TypeOK, CountInv, OuterCadence, CycleLength
<1>1. CASE LoadConfig
  BY <1>1 DEF LoadConfig
<1>2. CASE ApplyArgs
  BY <1>2 DEF ApplyArgs
<1>3. CASE ForkTimer
  BY <1>3 DEF ForkTimer
<1>4. CASE ForkFails
  BY <1>4 DEF ForkFails
<1>5. CASE InstallHandlers
  BY <1>5 DEF InstallHandlers
<1>6. CASE InitFlag
  BY <1>6 DEF InitFlag
<1>7. CASE InnerTest
  BY <1>7 DEF InnerTest
<1>8. CASE InnerPoll
  BY <1>8 DEF InnerPoll
<1>9. CASE InnerTick
  BY <1>9 DEF InnerTick, TakeTick
<1>10. CASE InnerEof
  BY <1>10 DEF InnerEof
<1>11. CASE OuterPoll
  BY <1>11 DEF OuterPoll
<1>12. CASE OuterTick
  BY <1>12 DEF OuterTick, TakeTick
<1>13. CASE OuterEof
  BY <1>13 DEF OuterEof
<1>14. CASE CheckFlag
  BY <1>14 DEF CheckFlag
<1>15. CASE ReadConfig
  BY <1>15 DEF ReadConfig
<1>16. CASE RunConfig
  BY <1>16 DEF RunConfig
<1>17. CASE ReadFails
  BY <1>17 DEF ReadFails
<1>18. CASE Rearm
  BY <1>18 DEF Rearm
<1>19. CASE Finish
  BY <1>19 DEF Finish
<1>20. CASE TimerCatch
  BY <1>20 DEF TimerCatch
<1>21. CASE TimerIgnore
  BY <1>21 DEF TimerIgnore
<1>22. CASE TimerWake
  BY <1>22 DEF TimerWake
<1>23. CASE TimerWrite
  BY <1>23 DEF TimerWrite
<1>24. CASE handler1
  BY <1>24 DEF handler1
<1>25. CASE handler2
  BY <1>25 DEF handler2
<1>26. CASE handler3
  BY <1>26 DEF handler3
<1>27. CASE EditConfig
  BY <1>27 DEF EditConfig
<1>28. ASSUME NEW sig \in {"USR2", "INT"}, Signal(sig) PROVE CountInv'
  BY <1>28 DEF Signal
<1>29. CASE CollectorDies
  BY <1>29 DEF CollectorDies
<1>30. CASE TimerDies
  BY <1>30 DEF TimerDies
<1>31. CASE UNCHANGED vars
  BY <1>31
<1> QED
  BY <1>1, <1>2, <1>3, <1>4, <1>5, <1>6, <1>7, <1>8, <1>9, <1>10, <1>11,
     <1>12, <1>13, <1>14, <1>15, <1>16, <1>17, <1>18, <1>19, <1>20,
     <1>21, <1>22, <1>23, <1>24, <1>25, <1>26, <1>27, <1>28, <1>29,
     <1>30, <1>31
  DEF Next, Collector, Timer, Environment

(* Every step keeps a request's age within the cycle.                      *)
LEMMA AgeStep == TypeOK /\ CountInv /\ AgeInv /\ [Next]_vars => AgeInv'
<1> SUFFICES ASSUME TypeOK, CountInv, AgeInv, [Next]_vars PROVE AgeInv'
  OBVIOUS
<1> USE DEF TypeOK, AgeInv, CycleLength
<1>1. CASE LoadConfig
  BY <1>1 DEF LoadConfig
<1>2. CASE ApplyArgs
  BY <1>2 DEF ApplyArgs
<1>3. CASE ForkTimer
  BY <1>3 DEF ForkTimer
<1>4. CASE ForkFails
  BY <1>4 DEF ForkFails
<1>5. CASE InstallHandlers
  BY <1>5 DEF InstallHandlers
<1>6. CASE InitFlag
  BY <1>6 DEF InitFlag
<1>7. CASE InnerTest
  BY <1>7 DEF InnerTest
<1>8. CASE InnerPoll
  BY <1>8 DEF InnerPoll
<1>9. CASE InnerTick
  BY <1>9 DEF InnerTick, TakeTick, CountInv
<1>10. CASE InnerEof
  BY <1>10 DEF InnerEof
<1>11. CASE OuterPoll
  BY <1>11 DEF OuterPoll
<1>12. CASE OuterTick
  BY <1>12 DEF OuterTick, TakeTick
<1>13. CASE OuterEof
  BY <1>13 DEF OuterEof
<1>14. CASE CheckFlag
  BY <1>14 DEF CheckFlag
<1>15. CASE ReadConfig
  BY <1>15 DEF ReadConfig
<1>16. CASE RunConfig
  BY <1>16 DEF RunConfig
<1>17. CASE ReadFails
  BY <1>17 DEF ReadFails
<1>18. CASE Rearm
  BY <1>18 DEF Rearm
<1>19. CASE Finish
  BY <1>19 DEF Finish
<1>20. CASE TimerCatch
  BY <1>20 DEF TimerCatch
<1>21. CASE TimerIgnore
  BY <1>21 DEF TimerIgnore
<1>22. CASE TimerWake
  BY <1>22 DEF TimerWake
<1>23. CASE TimerWrite
  BY <1>23 DEF TimerWrite
<1>24. CASE handler1
  BY <1>24 DEF handler1
<1>25. CASE handler2
  BY <1>25 DEF handler2
<1>26. CASE handler3
  BY <1>26 DEF handler3
<1>27. CASE EditConfig
  BY <1>27 DEF EditConfig
<1>28. ASSUME NEW sig \in {"USR2", "INT"}, Signal(sig) PROVE AgeInv'
  BY <1>28 DEF Signal
<1>29. CASE CollectorDies
  BY <1>29 DEF CollectorDies
<1>30. CASE TimerDies
  BY <1>30 DEF TimerDies
<1>31. CASE UNCHANGED vars
  BY <1>31
<1> QED
  BY <1>1, <1>2, <1>3, <1>4, <1>5, <1>6, <1>7, <1>8, <1>9, <1>10, <1>11,
     <1>12, <1>13, <1>14, <1>15, <1>16, <1>17, <1>18, <1>19, <1>20,
     <1>21, <1>22, <1>23, <1>24, <1>25, <1>26, <1>27, <1>28, <1>29,
     <1>30, <1>31
  DEF Next, Collector, Timer, Environment

(* Every step keeps the two copies of the ratio equal.                     *)
LEMMA RatioStep == TypeOK /\ RatioInv /\ [Next]_vars => RatioInv'
<1> SUFFICES ASSUME TypeOK, RatioInv, [Next]_vars PROVE RatioInv'
  OBVIOUS
<1> USE DEF TypeOK, RatioInv
<1>1. CASE LoadConfig
  BY <1>1 DEF LoadConfig
<1>2. CASE ApplyArgs
  BY <1>2 DEF ApplyArgs
<1>3. CASE ForkTimer
  BY <1>3 DEF ForkTimer
<1>4. CASE ForkFails
  BY <1>4 DEF ForkFails
<1>5. CASE InstallHandlers
  BY <1>5 DEF InstallHandlers
<1>6. CASE InitFlag
  BY <1>6 DEF InitFlag
<1>7. CASE InnerTest
  BY <1>7 DEF InnerTest
<1>8. CASE InnerPoll
  BY <1>8 DEF InnerPoll
<1>9. CASE InnerTick
  BY <1>9 DEF InnerTick, TakeTick
<1>10. CASE InnerEof
  BY <1>10 DEF InnerEof
<1>11. CASE OuterPoll
  BY <1>11 DEF OuterPoll
<1>12. CASE OuterTick
  BY <1>12 DEF OuterTick, TakeTick
<1>13. CASE OuterEof
  BY <1>13 DEF OuterEof
<1>14. CASE CheckFlag
  BY <1>14 DEF CheckFlag
<1>15. CASE ReadConfig
  BY <1>15 DEF ReadConfig
<1>16. CASE RunConfig
  BY <1>16 DEF RunConfig
<1>17. CASE ReadFails
  BY <1>17 DEF ReadFails
<1>18. CASE Rearm
  BY <1>18 DEF Rearm
<1>19. CASE Finish
  BY <1>19 DEF Finish
<1>20. CASE TimerCatch
  BY <1>20 DEF TimerCatch
<1>21. CASE TimerIgnore
  BY <1>21 DEF TimerIgnore
<1>22. CASE TimerWake
  BY <1>22 DEF TimerWake
<1>23. CASE TimerWrite
  BY <1>23 DEF TimerWrite
<1>24. CASE handler1
  BY <1>24 DEF handler1
<1>25. CASE handler2
  BY <1>25 DEF handler2
<1>26. CASE handler3
  BY <1>26 DEF handler3
<1>27. CASE EditConfig
  BY <1>27 DEF EditConfig
<1>28. ASSUME NEW sig \in {"USR2", "INT"}, Signal(sig) PROVE RatioInv'
  BY <1>28 DEF Signal
<1>29. CASE CollectorDies
  BY <1>29 DEF CollectorDies
<1>30. CASE TimerDies
  BY <1>30 DEF TimerDies
<1>31. CASE UNCHANGED vars
  BY <1>31
<1> QED
  BY <1>1, <1>2, <1>3, <1>4, <1>5, <1>6, <1>7, <1>8, <1>9, <1>10, <1>11,
     <1>12, <1>13, <1>14, <1>15, <1>16, <1>17, <1>18, <1>19, <1>20,
     <1>21, <1>22, <1>23, <1>24, <1>25, <1>26, <1>27, <1>28, <1>29,
     <1>30, <1>31
  DEF Next, Collector, Timer, Environment

-----------------------------------------------------------------------------
(* The daemon starts well typed.                                           *)
LEMMA InitType == Init => TypeOK
<1> SUFFICES ASSUME Init PROVE TypeOK
  OBVIOUS
<1>1. ticks \in 0..PipeCap /\ edits \in 0..MaxEdits
  BY PipeAssumption DEF Init
<1>2. flag \in BOOLEAN /\ tpend \in BOOLEAN
  BY Zenon DEF Init
<1>3. /\ itr \in Nat /\ n2o \in Nat /\ modN \in Nat /\ file \in Ratios
      /\ polls \in Nat /\ age \in Nat
  BY RatioAssumption DEF Init
<1>4. pc \in CollectorPC /\ tpc \in TimerPC /\ objs \subseteq Lists /\ cpend \subseteq {"USR2", "INT"}
  BY DEF Init
<1> QED
  BY <1>1, <1>2, <1>3, <1>4 DEF TypeOK

(* Every variable of the daemon keeps to its range.                        *)
THEOREM TypeCorrect == Spec => []TypeOK
  BY InitType, TypeStep, PTL DEF Spec

(* The counters, ages and ratios stay together throughout.                 *)
THEOREM Inductive == Spec => [](TypeOK /\ CountInv /\ AgeInv /\ RatioInv)
<1>1. Init => TypeOK /\ CountInv /\ AgeInv /\ RatioInv
  BY InitType DEF Init, CountInv, OuterCadence, AgeInv, RatioInv
<1>2. TypeOK /\ CountInv /\ AgeInv /\ RatioInv /\ [Next]_vars
        => (TypeOK /\ CountInv /\ AgeInv /\ RatioInv)'
  BY TypeStep, CountStep, AgeStep, RatioStep
<1> QED
  BY <1>1, <1>2, PTL DEF Spec

(* Every record follows inner2outer polls of the inner modules (lines      *)
(* 283-310), whatever reloads do to inner2outer; only the loss of the      *)
(* timer cuts a cycle short.                                               *)
THEOREM CadenceKept == Spec => []OuterCadence
<1>1. CountInv => OuterCadence
  BY DEF CountInv
<1> QED
  BY <1>1, Inductive, PTL

(* A reload request waits for at most one cycle of ticks (lines 296 and    *)
(* 375-379).                                                               *)
THEOREM LatencyBounded == Spec => []ReloadLatency
<1>1. TypeOK /\ AgeInv => ReloadLatency
  BY DEF TypeOK, AgeInv, ReloadLatency, CycleLength
<1> QED
  BY <1>1, Inductive, PTL

(* netinfo10 divides by the ratio of the loop that polls it, unless -i     *)
(* overrode that ratio behind its back.                                    *)
THEOREM RatioAgrees == Spec => []ModuleAgrees
<1>1. RatioInv => ModuleAgrees
  BY DEF RatioInv, ModuleAgrees
<1> QED
  BY <1>1, Inductive, PTL

(* The two levels stay in step across reloads.                             *)
THEOREM LoopInStep == Spec => []LoopExact
  BY CadenceKept, LatencyBounded, RatioAgrees, PTL DEF LoopExact
-----------------------------------------------------------------------------
(* What the two processes have to do with each other outside the loop: the *)
(* timer is there from the fork on, the collector holds signals only while *)
(* its handlers are installed, and without -S it comes to its end only     *)
(* when the timer is dead.                                                 *)
LifeInv ==
  /\ pc \in {"boot", "ready", "quiet", "astimer"} => tpc = "none"
  /\ pc \notin Handling => cpend = {}
  /\ pc = "cleanup" => OptS \/ tpc = "dead"

(* Every step keeps the two processes together.                            *)
LEMMA LifeStep == TypeOK /\ CountInv /\ LifeInv /\ [Next]_vars => LifeInv'
<1> SUFFICES ASSUME TypeOK, CountInv, LifeInv, [Next]_vars PROVE LifeInv'
  OBVIOUS
<1> USE DEF TypeOK, LifeInv
<1>1. CASE LoadConfig
  BY <1>1 DEF LoadConfig
<1>2. CASE ApplyArgs
  BY <1>2 DEF ApplyArgs
<1>3. CASE ForkTimer
  BY <1>3 DEF ForkTimer
<1>4. CASE ForkFails
  BY <1>4 DEF ForkFails
<1>5. CASE InstallHandlers
  BY <1>5 DEF InstallHandlers
<1>6. CASE InitFlag
  BY <1>6 DEF InitFlag
<1>7. CASE InnerTest
  BY <1>7 DEF InnerTest
<1>8. CASE InnerPoll
  BY <1>8 DEF InnerPoll
<1>9. CASE InnerTick
  BY <1>9 DEF InnerTick, TakeTick
<1>10. CASE InnerEof
  BY <1>10 DEF InnerEof
<1>11. CASE OuterPoll
  BY <1>11 DEF OuterPoll
<1>12. CASE OuterTick
  BY <1>12 DEF OuterTick, TakeTick
<1>13. CASE OuterEof
  BY <1>13 DEF OuterEof, CountInv
<1>14. CASE CheckFlag
  BY <1>14 DEF CheckFlag
<1>15. CASE ReadConfig
  BY <1>15 DEF ReadConfig
<1>16. CASE RunConfig
  BY <1>16 DEF RunConfig
<1>17. CASE ReadFails
  BY <1>17 DEF ReadFails
<1>18. CASE Rearm
  BY <1>18 DEF Rearm
<1>19. CASE Finish
  BY <1>19 DEF Finish
<1>20. CASE TimerCatch
  BY <1>20 DEF TimerCatch
<1>21. CASE TimerIgnore
  BY <1>21 DEF TimerIgnore
<1>22. CASE TimerWake
  BY <1>22 DEF TimerWake
<1>23. CASE TimerWrite
  BY <1>23 DEF TimerWrite
<1>24. CASE handler1
  BY <1>24 DEF handler1
<1>25. CASE handler2
  BY <1>25 DEF handler2
<1>26. CASE handler3
  BY <1>26 DEF handler3
<1>27. CASE EditConfig
  BY <1>27 DEF EditConfig
<1>28. ASSUME NEW sig \in {"USR2", "INT"}, Signal(sig) PROVE LifeInv'
  BY <1>28 DEF Signal
<1>29. CASE CollectorDies
  BY <1>29 DEF CollectorDies
<1>30. CASE TimerDies
  BY <1>30 DEF TimerDies
<1>31. CASE UNCHANGED vars
  BY <1>31
<1> QED
  BY <1>1, <1>2, <1>3, <1>4, <1>5, <1>6, <1>7, <1>8, <1>9, <1>10, <1>11,
     <1>12, <1>13, <1>14, <1>15, <1>16, <1>17, <1>18, <1>19, <1>20,
     <1>21, <1>22, <1>23, <1>24, <1>25, <1>26, <1>27, <1>28, <1>29,
     <1>30, <1>31
  DEF Next, Collector, Timer, Environment

(* The processes stay together throughout.                                 *)
THEOREM LifeKept == Spec => [](TypeOK /\ CountInv /\ LifeInv)
<1>1. Init => TypeOK /\ CountInv /\ LifeInv
  BY InitType DEF Init, CountInv, OuterCadence, LifeInv
<1>2. TypeOK /\ CountInv /\ LifeInv /\ [Next]_vars => (TypeOK /\ CountInv /\ LifeInv)'
  BY TypeStep, CountStep, LifeStep
<1> QED
  BY <1>1, <1>2, PTL DEF Spec

(* The state an outsider sees is always one of Daemon.tla's.               *)
LEMMA LifeType == /\ TypeOK => lifeOf \in DaemonOf!Lives
                  /\ TypeOK' => lifeOf' \in DaemonOf!Lives
<1>1. /\ TypeOK => phaseOf \in DaemonOf!Phases
      /\ TypeOK' => phaseOf' \in DaemonOf!Phases
  BY DEF TypeOK, phaseOf, DaemonOf!Phases
<1> QED
  BY <1>1 DEF lifeOf, DaemonOf!Lives

(* Without -S the two-level daemon lives the life of Daemon.tla, like the  *)
(* daemon of one level: the loops, the records and the reloads cannot be   *)
(* told from outside.  With -S the end of the single cycle (lines 367-371) *)
(* leaves the timer alone, which Daemon.tla rules out.                     *)
THEOREM Implements == ~OptS => (Spec => ImplementsDaemon)
<1> SUFFICES ASSUME ~OptS PROVE Spec => ImplementsDaemon
  OBVIOUS
<1> DEFINE KInv == TypeOK /\ CountInv /\ LifeInv
<1>1. Init => DaemonOf!Init
  BY DEF Init, DaemonOf!Init, DaemonOf!Born, lifeOf, phaseOf
<1>2. KInv /\ KInv' /\ [Next]_vars => [DaemonOf!Next]_lifeOf
  <2> SUFFICES ASSUME KInv, KInv', [Next]_vars PROVE DaemonOf!Next \/ lifeOf' = lifeOf
    OBVIOUS
  <2>0. lifeOf \in DaemonOf!Lives /\ lifeOf' \in DaemonOf!Lives
    BY LifeType
  <2> USE DEF TypeOK, CountInv, LifeInv, lifeOf, phaseOf
  <2>1. ASSUME LoadConfig PROVE lifeOf' = lifeOf
    BY <2>1 DEF LoadConfig
  <2>2. ASSUME ApplyArgs PROVE DaemonOf!Next \/ lifeOf' = lifeOf
    BY <2>0, <2>2 DEF ApplyArgs,
      DaemonOf!Next, DaemonOf!Own, DaemonOf!Mishaps, DaemonOf!OnINT, DaemonOf!OnUSR2,
      DaemonOf!CollectorUp, DaemonOf!TimerUp, DaemonOf!Stopped
  <2>3. ASSUME ForkTimer PROVE DaemonOf!Next \/ lifeOf' = lifeOf
    BY <2>0, <2>3 DEF ForkTimer,
      DaemonOf!Next, DaemonOf!Own, DaemonOf!Mishaps, DaemonOf!OnINT, DaemonOf!OnUSR2,
      DaemonOf!CollectorUp, DaemonOf!TimerUp, DaemonOf!Stopped
  <2>4. ASSUME ForkFails PROVE DaemonOf!Next \/ lifeOf' = lifeOf
    BY <2>0, <2>4 DEF ForkFails,
      DaemonOf!Next, DaemonOf!Own, DaemonOf!Mishaps, DaemonOf!OnINT, DaemonOf!OnUSR2,
      DaemonOf!CollectorUp, DaemonOf!TimerUp, DaemonOf!Stopped
  <2>5. ASSUME InstallHandlers PROVE DaemonOf!Next \/ lifeOf' = lifeOf
    BY <2>0, <2>5 DEF InstallHandlers,
      DaemonOf!Next, DaemonOf!Own, DaemonOf!Mishaps, DaemonOf!OnINT, DaemonOf!OnUSR2,
      DaemonOf!CollectorUp, DaemonOf!TimerUp, DaemonOf!Stopped
  <2>6. ASSUME InitFlag PROVE lifeOf' = lifeOf
    BY <2>6 DEF InitFlag
  <2>7. ASSUME InnerTest PROVE lifeOf' = lifeOf
    BY <2>7 DEF InnerTest
  <2>8. ASSUME InnerPoll PROVE lifeOf' = lifeOf
    BY <2>8 DEF InnerPoll
  <2>9. ASSUME InnerTick PROVE lifeOf' = lifeOf
    BY <2>9 DEF InnerTick, TakeTick
  <2>10. ASSUME InnerEof PROVE lifeOf' = lifeOf
    BY <2>10 DEF InnerEof
  <2>11. ASSUME OuterPoll PROVE lifeOf' = lifeOf
    BY <2>11 DEF OuterPoll
  <2>12. ASSUME OuterTick PROVE lifeOf' = lifeOf
    BY <2>12 DEF OuterTick, TakeTick
  <2>13. ASSUME OuterEof PROVE lifeOf' = lifeOf
    BY <2>13 DEF OuterEof
  <2>14. ASSUME CheckFlag PROVE lifeOf' = lifeOf
    BY <2>14 DEF CheckFlag
  <2>15. ASSUME ReadConfig PROVE lifeOf' = lifeOf
    BY <2>15 DEF ReadConfig
  <2>16. ASSUME RunConfig PROVE lifeOf' = lifeOf
    BY <2>16 DEF RunConfig
  <2>17. ASSUME ReadFails PROVE lifeOf' = lifeOf
    BY <2>17 DEF ReadFails
  <2>18. ASSUME Rearm PROVE lifeOf' = lifeOf
    BY <2>18 DEF Rearm
  <2>19. ASSUME Finish PROVE DaemonOf!Next \/ lifeOf' = lifeOf
    BY <2>0, <2>19 DEF Finish,
      DaemonOf!Next, DaemonOf!Own, DaemonOf!Mishaps, DaemonOf!OnINT, DaemonOf!OnUSR2,
      DaemonOf!CollectorUp, DaemonOf!TimerUp, DaemonOf!Stopped
  <2>20. ASSUME TimerCatch PROVE lifeOf' = lifeOf
    BY <2>20 DEF TimerCatch
  <2>21. ASSUME TimerIgnore PROVE lifeOf' = lifeOf
    BY <2>21 DEF TimerIgnore
  <2>22. ASSUME TimerWake PROVE lifeOf' = lifeOf
    BY <2>22 DEF TimerWake
  <2>23. ASSUME TimerWrite PROVE lifeOf' = lifeOf
    BY <2>23 DEF TimerWrite
  <2>24. ASSUME handler1 PROVE lifeOf' = lifeOf
    BY <2>24 DEF handler1
  <2>25. ASSUME handler2 PROVE lifeOf' = lifeOf
    BY <2>25 DEF handler2
  <2>26. ASSUME handler3 PROVE DaemonOf!Next \/ lifeOf' = lifeOf
    BY <2>0, <2>26 DEF handler3,
      DaemonOf!Next, DaemonOf!Own, DaemonOf!Mishaps, DaemonOf!OnINT, DaemonOf!OnUSR2,
      DaemonOf!CollectorUp, DaemonOf!TimerUp, DaemonOf!Stopped
  <2>27. ASSUME EditConfig PROVE lifeOf' = lifeOf
    BY <2>27 DEF EditConfig
  <2>28. ASSUME NEW sig \in {"USR2", "INT"}, Signal(sig) PROVE DaemonOf!Next \/ lifeOf' = lifeOf
    BY <2>0, <2>28 DEF Signal,
      DaemonOf!Next, DaemonOf!Own, DaemonOf!Mishaps, DaemonOf!OnINT, DaemonOf!OnUSR2,
      DaemonOf!CollectorUp, DaemonOf!TimerUp, DaemonOf!Stopped
  <2>29. ASSUME CollectorDies PROVE DaemonOf!Next \/ lifeOf' = lifeOf
    <3>1. lifeOf' = DaemonOf!Crashed(lifeOf)
      BY <2>29 DEF CollectorDies, DaemonOf!Crashed
    <3>2. DaemonOf!CollectorUp(lifeOf)
      BY <2>29 DEF CollectorDies, DaemonOf!CollectorUp
    <3>3. lifeOf' \in DaemonOf!Mishaps(lifeOf)
      BY <2>0, <3>1, <3>2, Zenon DEF DaemonOf!Mishaps
    <3> QED
      BY <3>3 DEF DaemonOf!Next
  <2>30. ASSUME TimerDies PROVE DaemonOf!Next \/ lifeOf' = lifeOf
    BY <2>0, <2>30 DEF TimerDies,
      DaemonOf!Next, DaemonOf!Own, DaemonOf!Mishaps, DaemonOf!OnINT, DaemonOf!OnUSR2,
      DaemonOf!CollectorUp, DaemonOf!TimerUp, DaemonOf!Stopped
  <2>31. CASE UNCHANGED vars
    BY <2>31
  <2> QED
    BY <2>1, <2>2, <2>3, <2>4, <2>5, <2>6, <2>7, <2>8, <2>9, <2>10, <2>11,
       <2>12, <2>13, <2>14, <2>15, <2>16, <2>17, <2>18, <2>19, <2>20,
       <2>21, <2>22, <2>23, <2>24, <2>25, <2>26, <2>27, <2>28, <2>29,
       <2>30, <2>31
    DEF Next, Collector, Timer, Environment
<1> QED
  BY <1>1, <1>2, LifeKept, PTL DEF Spec, ImplementsDaemon, DaemonOf!Spec
=============================================================================
