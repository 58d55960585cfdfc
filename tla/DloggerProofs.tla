--------------------------- MODULE DloggerProofs ---------------------------
(***************************************************************************)
(* What Dlogger.tla promises, for any set of modules, any pipe and buffer  *)
(* size and any number of edits of the configuration file. *)
(* The promises are not inductive.  Each rests on one of the invariants    *)
(* below, which also say what holds at the control points the promise is   *)
(* silent about: inside reread_cfg, in the clean-up and during start-up.   *)
(***************************************************************************)
EXTENDS Dlogger, TLAPS

(* A timer that runs holds the write end, so an end of file means that it  *)
(* has died; a collector past its fork has had a timer; without -S the     *)
(* clean-up is only reached after the timer's death.                       *)
PipeInv ==
  /\ TimerAlive => "timer" \in writers
  /\ cpc \in Fatal \cup {"quiet"} => tpc = "none"
  /\ cpc \in {"forked"} \cup Handling => tpc # "none"
  /\ cpc = "cleanup" => OptS \/ tpc = "dead"
  /\ NoOrphanTimer

(* The loop variable of each foreach covers exactly the objects that are   *)
(* still to be deleted; while the file is run, at most one object is alive *)
(* and not stored in @objs.                                                *)
ObjInv ==
  /\ cpc \in Fatal \cup Deaf \cup Polling \cup {"inst", "rearm"} => live = objs
  /\ cpc = "collect" => todo \subseteq objs
  /\ cpc \in {"delete", "cleanup"} => live = todo /\ todo \subseteq objs
  /\ cpc = "do" => /\ objs \subseteq live /\ live \subseteq objs \cup todo
                   /\ \A m, n \in live \ objs : m = n
  /\ cpc = "exited" => live \cap objs = {} /\ \A m, n \in live : m = n

(* @objs holds nothing that the configuration in use does not name.        *)
ConfigInv ==
  /\ objs \subseteq loaded.mods
  /\ cpc = "do" => todo \subseteq loaded.mods

(* No request is newer than the file; once the file is read, or while the  *)
(* flag is down in the loop, the configuration in use serves every request *)
(* taken outside LossWindow.                                               *)
ReloadInv ==
  /\ loaded.ver <= cfg.ver /\ req <= cfg.ver
  /\ cpc \in Fatal \cup Deaf \cup {"inst"} => req = 0
  /\ cpc \in {"do", "rearm"} => loaded.ver >= req
  /\ cpc \in Polling /\ ~flag => loaded.ver >= req

USE DEF Fatal, Deaf, Polling, Rereading, Handling, Ended, AsTimer, CollectorPC,
        Catching, TimerPC, TimerAlive, LossWindow, collectorVars, pipeVars,
        historyVars, vars
-----------------------------------------------------------------------------
(* The types are inductive by themselves.                                  *)
LEMMA TypeStep == TypeOK /\ [Next]_vars => TypeOK'
<1> SUFFICES ASSUME TypeOK, [Next]_vars PROVE TypeOK'
  OBVIOUS
<1> USE DEF TypeOK, Config
<1>1. CASE LoadConfig
  BY <1>1 DEF LoadConfig
<1>2. CASE RejectArgs
  BY <1>2 DEF RejectArgs
<1>3. CASE IgnoreSignals
  BY <1>3 DEF IgnoreSignals
<1>4. CASE ForkTimer
  BY <1>4 DEF ForkTimer
<1>5. CASE ForkFails
  BY <1>5 DEF ForkFails
<1>6. CASE InstallHandlers
  BY <1>6 DEF InstallHandlers
<1>7. CASE InitFlag
  BY <1>7 DEF InitFlag
<1>8. ASSUME NEW m \in Mods, GetData(m) PROVE TypeOK'
  BY <1>8 DEF GetData
<1>9. CASE CollectDone
  BY <1>9 DEF CollectDone
<1>10. CASE WriteRecord
  BY <1>10 DEF WriteRecord
<1>11. CASE ReadTick
  BY <1>11, PipeAssumption DEF ReadTick, Fill
<1>12. CASE ReadEof
  BY <1>12 DEF ReadEof
<1>13. CASE CheckFlag
  BY <1>13 DEF CheckFlag
<1>14. ASSUME NEW m \in Mods, DeleteObj(m) PROVE TypeOK'
  BY <1>14 DEF DeleteObj
<1>15. CASE ReadConfig
  BY <1>15 DEF ReadConfig
<1>16. ASSUME NEW m \in Mods, NewObj(m) PROVE TypeOK'
  BY <1>16 DEF NewObj
<1>17. ASSUME NEW m \in Mods, PushObj(m) PROVE TypeOK'
  BY <1>17 DEF PushObj
<1>18. CASE DoDone
  BY <1>18 DEF DoDone
<1>19. CASE DoFails
  BY <1>19 DEF DoFails
<1>20. CASE Rearm
  BY <1>20 DEF Rearm
<1>21. CASE CleanupDone
  BY <1>21 DEF CleanupDone, KillTimerAndExit
<1>22. CASE TimerStart
  BY <1>22 DEF TimerStart
<1>23. CASE TimerSleep
  BY <1>23 DEF TimerSleep
<1>24. CASE TimerWake
  BY <1>24 DEF TimerWake
<1>25. CASE TimerWrite
  BY <1>25, PipeAssumption DEF TimerWrite
<1>26. CASE handler1
  BY <1>26 DEF handler1
<1>27. CASE handler2
  BY <1>27 DEF handler2
<1>28. CASE handler3
  BY <1>28 DEF handler3, KillTimerAndExit
<1>29. CASE EditConfig
  BY <1>29 DEF EditConfig
<1>30. ASSUME NEW sig \in {"USR2", "INT"}, Signal(sig) PROVE TypeOK'
  BY <1>30 DEF Signal
<1>31. CASE CollectorDies
  BY <1>31 DEF CollectorDies
<1>32. CASE TimerDies
  BY <1>32 DEF TimerDies
<1>33. CASE UNCHANGED vars
  BY <1>33
<1> QED
  BY <1>1, <1>2, <1>3, <1>4, <1>5, <1>6, <1>7, <1>8, <1>9, <1>10, <1>11,
     <1>12, <1>13, <1>14, <1>15, <1>16, <1>17, <1>18, <1>19, <1>20,
     <1>21, <1>22, <1>23, <1>24, <1>25, <1>26, <1>27, <1>28, <1>29,
     <1>30, <1>31, <1>32, <1>33
  DEF Next, Collector, Startup, Loop, Reread, Timer, Environment

(* Every step keeps the pipe ends and the two processes in step. *)
LEMMA PipeStep ==
  TypeOK /\ PipeInv /\ [Next]_vars => PipeInv'
<1> SUFFICES ASSUME TypeOK, PipeInv, [Next]_vars PROVE PipeInv'
  OBVIOUS
<1> USE DEF TypeOK, PipeInv, NoOrphanTimer
<1>1. CASE LoadConfig
  BY <1>1 DEF LoadConfig
<1>2. CASE RejectArgs
  BY <1>2 DEF RejectArgs
<1>3. CASE IgnoreSignals
  BY <1>3 DEF IgnoreSignals
<1>4. CASE ForkTimer
  BY <1>4 DEF ForkTimer
<1>5. CASE ForkFails
  BY <1>5 DEF ForkFails
<1>6. CASE InstallHandlers
  BY <1>6 DEF InstallHandlers
<1>7. CASE InitFlag
  BY <1>7 DEF InitFlag
<1>8. ASSUME NEW m \in Mods, GetData(m) PROVE PipeInv'
  BY <1>8 DEF GetData
<1>9. CASE CollectDone
  BY <1>9 DEF CollectDone
<1>10. CASE WriteRecord
  BY <1>10 DEF WriteRecord
<1>11. CASE ReadTick
  BY <1>11 DEF ReadTick, Fill
<1>12. CASE ReadEof
  BY <1>12 DEF ReadEof
<1>13. CASE CheckFlag
  BY <1>13 DEF CheckFlag
<1>14. ASSUME NEW m \in Mods, DeleteObj(m) PROVE PipeInv'
  BY <1>14 DEF DeleteObj
<1>15. CASE ReadConfig
  BY <1>15 DEF ReadConfig
<1>16. ASSUME NEW m \in Mods, NewObj(m) PROVE PipeInv'
  BY <1>16 DEF NewObj
<1>17. ASSUME NEW m \in Mods, PushObj(m) PROVE PipeInv'
  BY <1>17 DEF PushObj
<1>18. CASE DoDone
  BY <1>18 DEF DoDone
<1>19. CASE DoFails
  BY <1>19 DEF DoFails
<1>20. CASE Rearm
  BY <1>20 DEF Rearm
<1>21. CASE CleanupDone
  BY <1>21 DEF CleanupDone, KillTimerAndExit
<1>22. CASE TimerStart
  BY <1>22 DEF TimerStart
<1>23. CASE TimerSleep
  BY <1>23 DEF TimerSleep
<1>24. CASE TimerWake
  BY <1>24 DEF TimerWake
<1>25. CASE TimerWrite
  BY <1>25 DEF TimerWrite
<1>26. CASE handler1
  BY <1>26 DEF handler1
<1>27. CASE handler2
  BY <1>27 DEF handler2
<1>28. CASE handler3
  BY <1>28 DEF handler3, KillTimerAndExit
<1>29. CASE EditConfig
  BY <1>29 DEF EditConfig
<1>30. ASSUME NEW sig \in {"USR2", "INT"}, Signal(sig) PROVE PipeInv'
  BY <1>30 DEF Signal
<1>31. CASE CollectorDies
  BY <1>31 DEF CollectorDies
<1>32. CASE TimerDies
  BY <1>32 DEF TimerDies
<1>33. CASE UNCHANGED vars
  BY <1>33
<1> QED
  BY <1>1, <1>2, <1>3, <1>4, <1>5, <1>6, <1>7, <1>8, <1>9, <1>10, <1>11,
     <1>12, <1>13, <1>14, <1>15, <1>16, <1>17, <1>18, <1>19, <1>20,
     <1>21, <1>22, <1>23, <1>24, <1>25, <1>26, <1>27, <1>28, <1>29,
     <1>30, <1>31, <1>32, <1>33
  DEF Next, Collector, Startup, Loop, Reread, Timer, Environment

(* Every step keeps the objects accounted for. *)
LEMMA ObjStep ==
  TypeOK /\ ObjInv /\ [Next]_vars => ObjInv'
<1> SUFFICES ASSUME TypeOK, ObjInv, [Next]_vars PROVE ObjInv'
  OBVIOUS
<1> USE DEF TypeOK, ObjInv
<1>1. CASE LoadConfig
  BY <1>1 DEF LoadConfig
<1>2. CASE RejectArgs
  BY <1>2 DEF RejectArgs
<1>3. CASE IgnoreSignals
  BY <1>3 DEF IgnoreSignals
<1>4. CASE ForkTimer
  BY <1>4 DEF ForkTimer
<1>5. CASE ForkFails
  BY <1>5 DEF ForkFails
<1>6. CASE InstallHandlers
  BY <1>6 DEF InstallHandlers
<1>7. CASE InitFlag
  BY <1>7 DEF InitFlag
<1>8. ASSUME NEW m \in Mods, GetData(m) PROVE ObjInv'
  BY <1>8 DEF GetData
<1>9. CASE CollectDone
  BY <1>9 DEF CollectDone
<1>10. CASE WriteRecord
  BY <1>10 DEF WriteRecord
<1>11. CASE ReadTick
  BY <1>11 DEF ReadTick, Fill
<1>12. CASE ReadEof
  BY <1>12 DEF ReadEof
<1>13. CASE CheckFlag
  BY <1>13 DEF CheckFlag
<1>14. ASSUME NEW m \in Mods, DeleteObj(m) PROVE ObjInv'
  BY <1>14 DEF DeleteObj
<1>15. CASE ReadConfig
  BY <1>15 DEF ReadConfig
<1>16. ASSUME NEW m \in Mods, NewObj(m) PROVE ObjInv'
  BY <1>16 DEF NewObj
<1>17. ASSUME NEW m \in Mods, PushObj(m) PROVE ObjInv'
  BY <1>17 DEF PushObj
<1>18. CASE DoDone
  BY <1>18 DEF DoDone
<1>19. CASE DoFails
  BY <1>19 DEF DoFails
<1>20. CASE Rearm
  BY <1>20 DEF Rearm
<1>21. CASE CleanupDone
  BY <1>21 DEF CleanupDone, KillTimerAndExit
<1>22. CASE TimerStart
  BY <1>22 DEF TimerStart
<1>23. CASE TimerSleep
  BY <1>23 DEF TimerSleep
<1>24. CASE TimerWake
  BY <1>24 DEF TimerWake
<1>25. CASE TimerWrite
  BY <1>25 DEF TimerWrite
<1>26. CASE handler1
  BY <1>26 DEF handler1
<1>27. CASE handler2
  BY <1>27 DEF handler2
<1>28. CASE handler3
  BY <1>28 DEF handler3, KillTimerAndExit
<1>29. CASE EditConfig
  BY <1>29 DEF EditConfig
<1>30. ASSUME NEW sig \in {"USR2", "INT"}, Signal(sig) PROVE ObjInv'
  BY <1>30 DEF Signal
<1>31. CASE CollectorDies
  BY <1>31 DEF CollectorDies
<1>32. CASE TimerDies
  BY <1>32 DEF TimerDies
<1>33. CASE UNCHANGED vars
  BY <1>33
<1> QED
  BY <1>1, <1>2, <1>3, <1>4, <1>5, <1>6, <1>7, <1>8, <1>9, <1>10, <1>11,
     <1>12, <1>13, <1>14, <1>15, <1>16, <1>17, <1>18, <1>19, <1>20,
     <1>21, <1>22, <1>23, <1>24, <1>25, <1>26, <1>27, <1>28, <1>29,
     <1>30, <1>31, <1>32, <1>33
  DEF Next, Collector, Startup, Loop, Reread, Timer, Environment

(* Every step keeps @objs within the configuration in use. *)
LEMMA ConfigStep ==
  TypeOK /\ ConfigInv /\ [Next]_vars => ConfigInv'
<1> SUFFICES ASSUME TypeOK, ConfigInv, [Next]_vars PROVE ConfigInv'
  OBVIOUS
<1> USE DEF TypeOK, Config, ConfigInv
<1>1. CASE LoadConfig
  BY <1>1 DEF LoadConfig
<1>2. CASE RejectArgs
  BY <1>2 DEF RejectArgs
<1>3. CASE IgnoreSignals
  BY <1>3 DEF IgnoreSignals
<1>4. CASE ForkTimer
  BY <1>4 DEF ForkTimer
<1>5. CASE ForkFails
  BY <1>5 DEF ForkFails
<1>6. CASE InstallHandlers
  BY <1>6 DEF InstallHandlers
<1>7. CASE InitFlag
  BY <1>7 DEF InitFlag
<1>8. ASSUME NEW m \in Mods, GetData(m) PROVE ConfigInv'
  BY <1>8 DEF GetData
<1>9. CASE CollectDone
  BY <1>9 DEF CollectDone
<1>10. CASE WriteRecord
  BY <1>10 DEF WriteRecord
<1>11. CASE ReadTick
  BY <1>11 DEF ReadTick, Fill
<1>12. CASE ReadEof
  BY <1>12 DEF ReadEof
<1>13. CASE CheckFlag
  BY <1>13 DEF CheckFlag
<1>14. ASSUME NEW m \in Mods, DeleteObj(m) PROVE ConfigInv'
  BY <1>14 DEF DeleteObj
<1>15. CASE ReadConfig
  BY <1>15 DEF ReadConfig
<1>16. ASSUME NEW m \in Mods, NewObj(m) PROVE ConfigInv'
  BY <1>16 DEF NewObj
<1>17. ASSUME NEW m \in Mods, PushObj(m) PROVE ConfigInv'
  BY <1>17 DEF PushObj
<1>18. CASE DoDone
  BY <1>18 DEF DoDone
<1>19. CASE DoFails
  BY <1>19 DEF DoFails
<1>20. CASE Rearm
  BY <1>20 DEF Rearm
<1>21. CASE CleanupDone
  BY <1>21 DEF CleanupDone, KillTimerAndExit
<1>22. CASE TimerStart
  BY <1>22 DEF TimerStart
<1>23. CASE TimerSleep
  BY <1>23 DEF TimerSleep
<1>24. CASE TimerWake
  BY <1>24 DEF TimerWake
<1>25. CASE TimerWrite
  BY <1>25 DEF TimerWrite
<1>26. CASE handler1
  BY <1>26 DEF handler1
<1>27. CASE handler2
  BY <1>27 DEF handler2
<1>28. CASE handler3
  BY <1>28 DEF handler3, KillTimerAndExit
<1>29. CASE EditConfig
  BY <1>29 DEF EditConfig
<1>30. ASSUME NEW sig \in {"USR2", "INT"}, Signal(sig) PROVE ConfigInv'
  BY <1>30 DEF Signal
<1>31. CASE CollectorDies
  BY <1>31 DEF CollectorDies
<1>32. CASE TimerDies
  BY <1>32 DEF TimerDies
<1>33. CASE UNCHANGED vars
  BY <1>33
<1> QED
  BY <1>1, <1>2, <1>3, <1>4, <1>5, <1>6, <1>7, <1>8, <1>9, <1>10, <1>11,
     <1>12, <1>13, <1>14, <1>15, <1>16, <1>17, <1>18, <1>19, <1>20,
     <1>21, <1>22, <1>23, <1>24, <1>25, <1>26, <1>27, <1>28, <1>29,
     <1>30, <1>31, <1>32, <1>33
  DEF Next, Collector, Startup, Loop, Reread, Timer, Environment

(* Every step keeps the requests and the configuration in use in step. *)
LEMMA ReloadStep ==
  TypeOK /\ ReloadInv /\ [Next]_vars => ReloadInv'
<1> SUFFICES ASSUME TypeOK, ReloadInv, [Next]_vars PROVE ReloadInv'
  OBVIOUS
<1> USE DEF TypeOK, Config, ReloadInv
<1>1. CASE LoadConfig
  BY <1>1 DEF LoadConfig
<1>2. CASE RejectArgs
  BY <1>2 DEF RejectArgs
<1>3. CASE IgnoreSignals
  BY <1>3 DEF IgnoreSignals
<1>4. CASE ForkTimer
  BY <1>4 DEF ForkTimer
<1>5. CASE ForkFails
  BY <1>5 DEF ForkFails
<1>6. CASE InstallHandlers
  BY <1>6 DEF InstallHandlers
<1>7. CASE InitFlag
  BY <1>7 DEF InitFlag
<1>8. ASSUME NEW m \in Mods, GetData(m) PROVE ReloadInv'
  BY <1>8 DEF GetData
<1>9. CASE CollectDone
  BY <1>9 DEF CollectDone
<1>10. CASE WriteRecord
  BY <1>10 DEF WriteRecord
<1>11. CASE ReadTick
  BY <1>11 DEF ReadTick, Fill
<1>12. CASE ReadEof
  BY <1>12 DEF ReadEof
<1>13. CASE CheckFlag
  BY <1>13 DEF CheckFlag
<1>14. ASSUME NEW m \in Mods, DeleteObj(m) PROVE ReloadInv'
  BY <1>14 DEF DeleteObj
<1>15. CASE ReadConfig
  BY <1>15 DEF ReadConfig
<1>16. ASSUME NEW m \in Mods, NewObj(m) PROVE ReloadInv'
  BY <1>16 DEF NewObj
<1>17. ASSUME NEW m \in Mods, PushObj(m) PROVE ReloadInv'
  BY <1>17 DEF PushObj
<1>18. CASE DoDone
  BY <1>18 DEF DoDone
<1>19. CASE DoFails
  BY <1>19 DEF DoFails
<1>20. CASE Rearm
  BY <1>20 DEF Rearm
<1>21. CASE CleanupDone
  BY <1>21 DEF CleanupDone, KillTimerAndExit
<1>22. CASE TimerStart
  BY <1>22 DEF TimerStart
<1>23. CASE TimerSleep
  BY <1>23 DEF TimerSleep
<1>24. CASE TimerWake
  BY <1>24 DEF TimerWake
<1>25. CASE TimerWrite
  BY <1>25 DEF TimerWrite
<1>26. CASE handler1
  BY <1>26 DEF handler1
<1>27. CASE handler2
  BY <1>27 DEF handler2
<1>28. CASE handler3
  BY <1>28 DEF handler3, KillTimerAndExit
<1>29. CASE EditConfig
  BY <1>29 DEF EditConfig
<1>30. ASSUME NEW sig \in {"USR2", "INT"}, Signal(sig) PROVE ReloadInv'
  BY <1>30 DEF Signal
<1>31. CASE CollectorDies
  BY <1>31 DEF CollectorDies
<1>32. CASE TimerDies
  BY <1>32 DEF TimerDies
<1>33. CASE UNCHANGED vars
  BY <1>33
<1> QED
  BY <1>1, <1>2, <1>3, <1>4, <1>5, <1>6, <1>7, <1>8, <1>9, <1>10, <1>11,
     <1>12, <1>13, <1>14, <1>15, <1>16, <1>17, <1>18, <1>19, <1>20,
     <1>21, <1>22, <1>23, <1>24, <1>25, <1>26, <1>27, <1>28, <1>29,
     <1>30, <1>31, <1>32, <1>33
  DEF Next, Collector, Startup, Loop, Reread, Timer, Environment

-----------------------------------------------------------------------------
(* The daemon starts with well-typed variables.                            *)
LEMMA InitType == Init => TypeOK
<1> SUFFICES ASSUME Init PROVE TypeOK
  OBVIOUS
<1>1. cfg \in Config
  BY DEF Init, Config
<1>2. loaded \in Config
  BY DEF Init, Config
<1>3. kpipe \in 0..PipeCap /\ rbuf \in 0..BufSize /\ req \in Nat /\ reqAny \in Nat
  BY PipeAssumption DEF Init
<1>4. /\ cpc \in CollectorPC /\ tpc \in TimerPC
      /\ todo \subseteq Mods /\ objs \subseteq Mods /\ live \subseteq Mods
      /\ flag \in BOOLEAN /\ cpend = {} /\ tpend = {} /\ readers = {} /\ writers = {}
  BY DEF Init
<1> QED
  BY <1>1, <1>2, <1>3, <1>4 DEF TypeOK

(* Every variable of the daemon keeps to its range, the pipe and the       *)
(* handle's buffer to their capacity (lines 226-249 and 379-386).          *)
THEOREM TypeCorrect == Spec => []TypeOK
  BY InitType, TypeStep, PTL DEF Spec

(* The four invariants hold together with the types.                       *)
IInv == TypeOK /\ PipeInv /\ ObjInv /\ ConfigInv /\ ReloadInv

THEOREM Inductive == Spec => []IInv
<1>1. Init => IInv
  <2>1. Init => TypeOK
    BY InitType
  <2>2. Init => PipeInv /\ ObjInv /\ ConfigInv
    BY DEF Init, PipeInv, NoOrphanTimer, ObjInv, ConfigInv
  <2>3. Init => ReloadInv
    BY DEF Init, ReloadInv
  <2> QED
    BY <2>1, <2>2, <2>3 DEF IInv
<1>2. IInv /\ [Next]_vars => IInv'
  BY TypeStep, PipeStep, ObjStep, ConfigStep, ReloadStep DEF IInv
<1> QED
  BY <1>1, <1>2, PTL DEF Spec

(* However the collector comes to exit - SIGINT anywhere in the loop       *)
(* (handler3), -S, end of file - its timer has been killed.                *)
THEOREM OrphanFree == Spec => []NoOrphanTimer
<1>1. IInv => NoOrphanTimer
  BY DEF IInv, PipeInv
<1> QED
  BY <1>1, Inductive, PTL

(* Reloads neither leak an object nor poll a deleted one, whatever signal  *)
(* arrives at whatever point of reread_cfg.                                *)
THEOREM NoLeak == Spec => []ObjectsAccounted
<1>1. IInv => ObjectsAccounted
  BY DEF IInv, ObjInv, ObjectsAccounted
<1> QED
  BY <1>1, Inductive, PTL

(* The collector polls modules of the configuration it read last only,     *)
(* also after a do that failed half way.                                   *)
THEOREM PollsCurrent == Spec => []PollsLoadedConfig
<1>1. IInv => PollsLoadedConfig
  BY DEF IInv, ConfigInv, PollsLoadedConfig
<1> QED
  BY <1>1, Inductive, PTL

(* A reload request taken outside LossWindow is never dropped.             *)
THEOREM ReloadKept == Spec => []ReloadHonoured
<1>1. IInv => ReloadHonoured
  BY DEF IInv, ReloadInv, ReloadHonoured
<1> QED
  BY <1>1, Inductive, PTL

(* wait_for_timestep ends the loop only after the timer's death, with      *)
(* every tick it had written served.                                       *)
THEOREM EofIsDeath == Spec => EofOnlyWhenTimerGone
<1> DEFINE Leaves == cpc = "wait" /\ cpc' = "cleanup"
           Served == tpc = "dead" /\ kpipe + rbuf = 0
<1>1. IInv /\ [Next]_vars => [Leaves => Served]_vars
  <2> SUFFICES ASSUME IInv, Next, Leaves PROVE Served
    OBVIOUS
  <2>1. ReadEof
    BY DEF Next, Collector, Startup, Loop, Reread, Timer, Environment, LoadConfig,
      RejectArgs, IgnoreSignals, ForkTimer, ForkFails, InstallHandlers, InitFlag,
      GetData, CollectDone, WriteRecord, ReadTick, CheckFlag, DeleteObj, ReadConfig,
      NewObj, PushObj, DoDone, DoFails, Rearm, CleanupDone, KillTimerAndExit, TimerStart,
      TimerSleep, TimerWake, TimerWrite, handler1, handler2, handler3, EditConfig,
      Signal, CollectorDies, TimerDies
  <2>2. ~TimerAlive /\ tpc # "none" /\ tpc \in TimerPC
    BY <2>1 DEF IInv, TypeOK, PipeInv, ReadEof
  <2> QED
    BY <2>1, <2>2 DEF ReadEof
<1> QED
  BY <1>1, Inductive, PTL DEF Spec, EofOnlyWhenTimerGone, EofStep

(* The state an outsider sees is always one of Daemon.tla's.               *)
LEMMA LifeType == /\ TypeOK => lifeOf \in DaemonOf!Lives
                  /\ TypeOK' => lifeOf' \in DaemonOf!Lives
<1>1. /\ TypeOK => phaseOf \in DaemonOf!Phases
      /\ TypeOK' => phaseOf' \in DaemonOf!Phases
  BY DEF TypeOK, phaseOf, DaemonOf!Phases
<1> QED
  BY <1>1 DEF lifeOf, DaemonOf!Lives

(* The daemon lives the life of Daemon.tla: every step is one of its       *)
(* steps or invisible from outside, the pipe, the polls and the reloads    *)
(* included.                                                               *)
THEOREM Implements == Spec => ImplementsDaemon
<1>1. Init => DaemonOf!Init
  BY DEF Init, DaemonOf!Init, DaemonOf!Born, lifeOf, phaseOf
<1>2. IInv /\ IInv' /\ [Next]_vars => [DaemonOf!Next]_lifeOf
  <2> SUFFICES ASSUME IInv, IInv', [Next]_vars PROVE DaemonOf!Next \/ lifeOf' = lifeOf
    OBVIOUS
  <2>0. lifeOf \in DaemonOf!Lives /\ lifeOf' \in DaemonOf!Lives
    BY LifeType DEF IInv
  <2> USE DEF IInv, TypeOK, PipeInv, lifeOf, phaseOf
  <2>1. ASSUME LoadConfig PROVE lifeOf' = lifeOf
    BY <2>1 DEF LoadConfig
  <2>2. ASSUME RejectArgs PROVE DaemonOf!Next \/ lifeOf' = lifeOf
    <3>1. lifeOf' = DaemonOf!Crashed(lifeOf)
      BY <2>2 DEF RejectArgs, DaemonOf!Crashed
    <3>2. DaemonOf!CollectorUp(lifeOf)
      BY <2>2 DEF RejectArgs, DaemonOf!CollectorUp
    <3>3. lifeOf' \in DaemonOf!Mishaps(lifeOf)
      BY <2>0, <3>1, <3>2, Zenon DEF DaemonOf!Mishaps
    <3> QED
      BY <3>3 DEF DaemonOf!Next
  <2>3. ASSUME IgnoreSignals PROVE DaemonOf!Next \/ lifeOf' = lifeOf
    BY <2>0, <2>3 DEF IgnoreSignals,
      DaemonOf!Next, DaemonOf!Own, DaemonOf!Mishaps, DaemonOf!OnINT, DaemonOf!OnUSR2,
      DaemonOf!CollectorUp, DaemonOf!TimerUp, DaemonOf!Stopped
  <2>4. ASSUME ForkTimer PROVE DaemonOf!Next \/ lifeOf' = lifeOf
    BY <2>0, <2>4 DEF ForkTimer,
      DaemonOf!Next, DaemonOf!Own, DaemonOf!Mishaps, DaemonOf!OnINT, DaemonOf!OnUSR2,
      DaemonOf!CollectorUp, DaemonOf!TimerUp, DaemonOf!Stopped
  <2>5. ASSUME ForkFails PROVE DaemonOf!Next \/ lifeOf' = lifeOf
    BY <2>0, <2>5 DEF ForkFails,
      DaemonOf!Next, DaemonOf!Own, DaemonOf!Mishaps, DaemonOf!OnINT, DaemonOf!OnUSR2,
      DaemonOf!CollectorUp, DaemonOf!TimerUp, DaemonOf!Stopped
  <2>6. ASSUME InstallHandlers PROVE DaemonOf!Next \/ lifeOf' = lifeOf
    BY <2>0, <2>6 DEF InstallHandlers,
      DaemonOf!Next, DaemonOf!Own, DaemonOf!Mishaps, DaemonOf!OnINT, DaemonOf!OnUSR2,
      DaemonOf!CollectorUp, DaemonOf!TimerUp, DaemonOf!Stopped
  <2>7. ASSUME InitFlag PROVE lifeOf' = lifeOf
    BY <2>7 DEF InitFlag
  <2>8. ASSUME NEW m \in Mods, GetData(m) PROVE lifeOf' = lifeOf
    BY <2>8 DEF GetData
  <2>9. ASSUME CollectDone PROVE lifeOf' = lifeOf
    BY <2>9 DEF CollectDone
  <2>10. ASSUME WriteRecord PROVE lifeOf' = lifeOf
    BY <2>10 DEF WriteRecord
  <2>11. ASSUME ReadTick PROVE lifeOf' = lifeOf
    BY <2>11 DEF ReadTick
  <2>12. ASSUME ReadEof PROVE lifeOf' = lifeOf
    BY <2>12 DEF ReadEof
  <2>13. ASSUME CheckFlag PROVE lifeOf' = lifeOf
    BY <2>13 DEF CheckFlag
  <2>14. ASSUME NEW m \in Mods, DeleteObj(m) PROVE lifeOf' = lifeOf
    BY <2>14 DEF DeleteObj
  <2>15. ASSUME ReadConfig PROVE lifeOf' = lifeOf
    BY <2>15 DEF ReadConfig
  <2>16. ASSUME NEW m \in Mods, NewObj(m) PROVE lifeOf' = lifeOf
    BY <2>16 DEF NewObj
  <2>17. ASSUME NEW m \in Mods, PushObj(m) PROVE lifeOf' = lifeOf
    BY <2>17 DEF PushObj
  <2>18. ASSUME DoDone PROVE lifeOf' = lifeOf
    BY <2>18 DEF DoDone
  <2>19. ASSUME DoFails PROVE lifeOf' = lifeOf
    BY <2>19 DEF DoFails
  <2>20. ASSUME Rearm PROVE lifeOf' = lifeOf
    BY <2>20 DEF Rearm
  <2>21. ASSUME CleanupDone PROVE DaemonOf!Next \/ lifeOf' = lifeOf
    BY <2>0, <2>21 DEF CleanupDone, KillTimerAndExit,
      DaemonOf!Next, DaemonOf!Own, DaemonOf!Mishaps, DaemonOf!OnINT, DaemonOf!OnUSR2,
      DaemonOf!CollectorUp, DaemonOf!TimerUp, DaemonOf!Stopped
  <2>22. ASSUME TimerStart PROVE lifeOf' = lifeOf
    BY <2>22 DEF TimerStart
  <2>23. ASSUME TimerSleep PROVE lifeOf' = lifeOf
    BY <2>23 DEF TimerSleep
  <2>24. ASSUME TimerWake PROVE lifeOf' = lifeOf
    BY <2>24 DEF TimerWake
  <2>25. ASSUME TimerWrite PROVE lifeOf' = lifeOf
    BY <2>25 DEF TimerWrite
  <2>26. ASSUME handler1 PROVE lifeOf' = lifeOf
    BY <2>26 DEF handler1
  <2>27. ASSUME handler2 PROVE lifeOf' = lifeOf
    BY <2>27 DEF handler2
  <2>28. ASSUME handler3 PROVE DaemonOf!Next \/ lifeOf' = lifeOf
    BY <2>0, <2>28 DEF handler3, KillTimerAndExit,
      DaemonOf!Next, DaemonOf!Own, DaemonOf!Mishaps, DaemonOf!OnINT, DaemonOf!OnUSR2,
      DaemonOf!CollectorUp, DaemonOf!TimerUp, DaemonOf!Stopped
  <2>29. ASSUME EditConfig PROVE lifeOf' = lifeOf
    BY <2>29 DEF EditConfig
  <2>30. ASSUME NEW sig \in {"USR2", "INT"}, Signal(sig) PROVE DaemonOf!Next \/ lifeOf' = lifeOf
    BY <2>0, <2>30 DEF Signal,
      DaemonOf!Next, DaemonOf!Own, DaemonOf!Mishaps, DaemonOf!OnINT, DaemonOf!OnUSR2,
      DaemonOf!CollectorUp, DaemonOf!TimerUp, DaemonOf!Stopped
  <2>31. ASSUME CollectorDies PROVE DaemonOf!Next \/ lifeOf' = lifeOf
    <3>1. lifeOf' = DaemonOf!Crashed(lifeOf)
      BY <2>31 DEF CollectorDies, DaemonOf!Crashed
    <3>2. DaemonOf!CollectorUp(lifeOf)
      BY <2>31 DEF CollectorDies, DaemonOf!CollectorUp
    <3>3. lifeOf' \in DaemonOf!Mishaps(lifeOf)
      BY <2>0, <3>1, <3>2, Zenon DEF DaemonOf!Mishaps
    <3> QED
      BY <3>3 DEF DaemonOf!Next
  <2>32. ASSUME TimerDies PROVE DaemonOf!Next \/ lifeOf' = lifeOf
    BY <2>0, <2>32 DEF TimerDies,
      DaemonOf!Next, DaemonOf!Own, DaemonOf!Mishaps, DaemonOf!OnINT, DaemonOf!OnUSR2,
      DaemonOf!CollectorUp, DaemonOf!TimerUp, DaemonOf!Stopped
  <2>33. CASE UNCHANGED vars
    BY <2>33
  <2> QED
    BY <2>1, <2>2, <2>3, <2>4, <2>5, <2>6, <2>7, <2>8, <2>9, <2>10, <2>11,
       <2>12, <2>13, <2>14, <2>15, <2>16, <2>17, <2>18, <2>19,
       <2>20, <2>21, <2>22, <2>23, <2>24, <2>25, <2>26, <2>27,
       <2>28, <2>29, <2>30, <2>31, <2>32, <2>33
    DEF Next, Collector, Startup, Loop, Reread, Timer, Environment
<1> QED
  BY <1>1, <1>2, Inductive, PTL DEF Spec, ImplementsDaemon, DaemonOf!Spec

(* Collector and timer end together.                                       *)
THEOREM TimerFollows == Spec => TimerSafe
  BY OrphanFree, EofIsDeath, PTL DEF TimerSafe, EofOnlyWhenTimerGone

(* What is polled is alive and of the configuration read last.             *)
THEOREM ConfigFollows == Spec => []ConfigFollowed
  BY NoLeak, PollsCurrent, PTL DEF ConfigFollowed
=============================================================================
