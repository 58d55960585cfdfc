---------------------------- MODULE MemrecProofs ----------------------------
(***************************************************************************)
(* What Memrec.tla promises, for a pipe of any capacity.                   *)
(***************************************************************************)
EXTENDS Memrec, TLAPS

(* The safety promises, strengthened to an inductive invariant: a zombie   *)
(* target is one that ended early or one that child_handler still has to   *)
(* see, wherever the recorder is; the clean-up is entered with a reason;   *)
(* a recorder past its second fork has had a timer.                        *)
RecorderInv ==
  /\ target = "zombie" /\ ~early => rpc \in Catching /\ "CHLD" \in pend
  /\ RecordsToTheEnd
  /\ rpc \in {"timed", "attached"} \cup Handling => timer # "none"
  /\ rpc = "cleanup" => target = "gone" \/ timer \in {"zombie", "gone"}
  /\ rpc \in {"exited", "interrupted"} => ~TimerAlive /\ ~live

USE DEF Startup, Looping, Catching, Handling, Ended, Impostor, RecorderPC, TimerAlive, vars

(* The types are inductive by themselves.                                  *)
LEMMA TypeStep == TypeOK /\ [Next]_vars => TypeOK'
<1> SUFFICES ASSUME TypeOK, [Next]_vars PROVE TypeOK'
  OBVIOUS
<1> USE DEF TypeOK
<1>1. CASE LoadConfig
  BY <1>1 DEF LoadConfig
<1>2. CASE ForkTarget
  BY <1>2 DEF ForkTarget
<1>3. CASE ForkTargetFails
  BY <1>3 DEF ForkTargetFails
<1>4. CASE SetUp
  BY <1>4 DEF SetUp
<1>5. CASE ForkTimer
  BY <1>5 DEF ForkTimer
<1>6. CASE ForkTimerFails
  BY <1>6 DEF ForkTimerFails
<1>7. CASE Attach
  BY <1>7 DEF Attach
<1>8. CASE InitFlag
  BY <1>8 DEF InitFlag
<1>9. CASE InstallChld
  BY <1>9 DEF InstallChld
<1>10. CASE CheckFlag
  BY <1>10 DEF CheckFlag
<1>11. CASE Record
  BY <1>11 DEF Record
<1>12. CASE ReadTick
  BY <1>12, PipeAssumption DEF ReadTick
<1>13. CASE ReadEof
  BY <1>13 DEF ReadEof
<1>14. CASE Finish
  BY <1>14 DEF Finish, Orphaned
<1>15. CASE TimerWake
  BY <1>15 DEF TimerWake
<1>16. CASE TimerWrite
  BY <1>16, PipeAssumption DEF TimerWrite
<1>17. CASE child_handler
  BY <1>17 DEF child_handler, Orphaned
<1>18. CASE handler3
  BY <1>18 DEF handler3, Orphaned
<1>19. CASE TargetExits
  BY <1>19 DEF TargetExits, Dead, RaiseChld
<1>20. CASE TimerDies
  BY <1>20 DEF TimerDies, Dead, RaiseChld
<1>21. CASE Interrupt
  BY <1>21 DEF Interrupt
<1>22. CASE RecorderDies
  BY <1>22 DEF RecorderDies, Orphaned
<1>23. CASE UNCHANGED vars
  BY <1>23
<1> QED
  BY <1>1, <1>2, <1>3, <1>4, <1>5, <1>6, <1>7, <1>8, <1>9, <1>10, <1>11,
     <1>12, <1>13, <1>14, <1>15, <1>16, <1>17, <1>18, <1>19, <1>20,
     <1>21, <1>22, <1>23
  DEF Next, Recorder, Timer, Environment

(* Every step keeps what the recorder knows of its children true.          *)
LEMMA RecorderStep == TypeOK /\ RecorderInv /\ [Next]_vars => RecorderInv'
<1> SUFFICES ASSUME TypeOK, RecorderInv, [Next]_vars PROVE RecorderInv'
  OBVIOUS
<1> USE DEF TypeOK, RecorderInv, RecordsToTheEnd
<1>1. CASE LoadConfig
  BY <1>1 DEF LoadConfig
<1>2. CASE ForkTarget
  BY <1>2 DEF ForkTarget
<1>3. CASE ForkTargetFails
  BY <1>3 DEF ForkTargetFails
<1>4. CASE SetUp
  BY <1>4 DEF SetUp
<1>5. CASE ForkTimer
  BY <1>5 DEF ForkTimer
<1>6. CASE ForkTimerFails
  BY <1>6 DEF ForkTimerFails
<1>7. CASE Attach
  BY <1>7 DEF Attach
<1>8. CASE InitFlag
  BY <1>8 DEF InitFlag
<1>9. CASE InstallChld
  BY <1>9 DEF InstallChld
<1>10. CASE CheckFlag
  BY <1>10 DEF CheckFlag
<1>11. CASE Record
  BY <1>11 DEF Record
<1>12. CASE ReadTick
  BY <1>12 DEF ReadTick
<1>13. CASE ReadEof
  BY <1>13 DEF ReadEof
<1>14. CASE Finish
  BY <1>14 DEF Finish, Orphaned
<1>15. CASE TimerWake
  BY <1>15 DEF TimerWake
<1>16. CASE TimerWrite
  BY <1>16 DEF TimerWrite
<1>17. CASE child_handler
  BY <1>17 DEF child_handler, Orphaned
<1>18. CASE handler3
  BY <1>18 DEF handler3, Orphaned
<1>19. CASE TargetExits
  BY <1>19 DEF TargetExits, Dead, RaiseChld
<1>20. CASE TimerDies
  BY <1>20 DEF TimerDies, Dead, RaiseChld
<1>21. CASE Interrupt
  BY <1>21 DEF Interrupt
<1>22. CASE RecorderDies
  BY <1>22 DEF RecorderDies, Orphaned
<1>23. CASE UNCHANGED vars
  BY <1>23
<1> QED
  BY <1>1, <1>2, <1>3, <1>4, <1>5, <1>6, <1>7, <1>8, <1>9, <1>10, <1>11,
     <1>12, <1>13, <1>14, <1>15, <1>16, <1>17, <1>18, <1>19, <1>20,
     <1>21, <1>22, <1>23
  DEF Next, Recorder, Timer, Environment

-----------------------------------------------------------------------------
(* The recorder starts well typed.                                         *)
LEMMA InitType == Init => TypeOK
<1> SUFFICES ASSUME Init PROVE TypeOK
  OBVIOUS
<1>1. ticks \in 0..PipeCap
  BY PipeAssumption DEF Init
<1>2. flag \in BOOLEAN /\ helpers \in BOOLEAN /\ live \in BOOLEAN /\ early \in BOOLEAN
  BY Zenon DEF Init
<1>3. /\ rpc \in RecorderPC /\ target = "none" /\ timer = "none"
      /\ pend \subseteq {"INT", "CHLD"}
  BY DEF Init
<1> QED
  BY <1>1, <1>2, <1>3 DEF TypeOK

(* Every variable of the recorder keeps to its range (line 145: the pipe). *)
THEOREM TypeCorrect == Spec => []TypeOK
  BY InitType, TypeStep, PTL DEF Spec

(* The strengthened invariant holds throughout.                            *)
THEOREM Inductive == Spec => [](TypeOK /\ RecorderInv)
<1>1. Init => TypeOK /\ RecorderInv
  BY InitType DEF Init, RecorderInv, RecordsToTheEnd
<1>2. TypeOK /\ RecorderInv /\ [Next]_vars => (TypeOK /\ RecorderInv)'
  BY TypeStep, RecorderStep
<1> QED
  BY <1>1, <1>2, PTL DEF Spec

(* However the SIGCHLDs of the target, the timer and module commands       *)
(* merge, child_handler (lines 350-371) does not miss the target's end.    *)
THEOREM ExitsAreSeen == Spec => []NoMissedExit
<1>1. TypeOK /\ RecorderInv => NoMissedExit
  BY DEF RecorderInv, NoMissedExit
<1> QED
  BY <1>1, Inductive, PTL

(* $child_flag (line 363) is cleared for the target only, and only when    *)
(* it is gone.                                                             *)
THEOREM FlagMeansGone == Spec => []RecordsToTheEnd
<1>1. TypeOK /\ RecorderInv => RecordsToTheEnd
  BY DEF RecorderInv
<1> QED
  BY <1>1, Inductive, PTL

(* The recorder exits for one of its two reasons and takes its timer along *)
(* (lines 299-308 and 330-348).                                            *)
THEOREM OrderlyEnd == Spec => EndsWithReason
<1> DEFINE Reason == rpc' = "exited" /\ rpc # "exited"
                       => target = "gone" \/ timer \in {"zombie", "gone"}
           Tidy == rpc' \in {"exited", "interrupted"} => ~TimerAlive' /\ ~live'
<1>1. TypeOK /\ RecorderInv /\ [Next]_vars => [Reason /\ Tidy]_vars
  <2> SUFFICES ASSUME TypeOK, RecorderInv, Next PROVE Reason /\ Tidy
    OBVIOUS
  <2>1. Reason
    <3> SUFFICES ASSUME rpc' = "exited", rpc # "exited"
                 PROVE target = "gone" \/ timer \in {"zombie", "gone"}
      OBVIOUS
    <3>1. rpc = "cleanup"
      BY DEF Next, Recorder, Timer, Environment, LoadConfig, ForkTarget, ForkTargetFails,
        SetUp, ForkTimer, ForkTimerFails, Attach, InitFlag, InstallChld, CheckFlag, Record,
        ReadTick, ReadEof, Finish, TimerWake, TimerWrite, child_handler, handler3,
        TargetExits, TimerDies, Interrupt, RecorderDies
    <3> QED
      BY <3>1 DEF RecorderInv
  <2>2. Tidy
    <3>1. RecorderInv'
      BY RecorderStep
    <3> QED
      BY <3>1 DEF RecorderInv
  <2> QED
    BY <2>1, <2>2
<1> QED
  BY <1>1, Inductive, PTL DEF Spec, EndsWithReason, EndStep

(* The recorder does not give up on a running target, and its end leaves   *)
(* nothing behind.                                                         *)
THEOREM RightEnd == Spec => EndsRight
  BY FlagMeansGone, OrderlyEnd, PTL DEF EndsRight, EndsWithReason
=============================================================================
