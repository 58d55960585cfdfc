------------------------------- MODULE Tools --------------------------------
(***************************************************************************)
(* The C programs a recording runs beside the recorder: wattsup, started   *)
(* by power.pm for each record; turbostat, started by turbostat.pm; and    *)
(* the load generators calcpi, iohog and memhog that are recorded.         *)
(***************************************************************************)
EXTENDS Wattsup, Turbostat, Hogs

VARIABLE toolName   \* the program that was started, "none" before

toolVars == <<toolName, wuVars, tsVars, hogVars>>

ToolInit == toolName = "none" /\ WuInit /\ TsInit /\ HogInit

(* External to these programs: the shell starts one of them.               *)
ToolStart ==
  /\ toolName = "none" /\ toolName' \in {"wattsup", "turbostat", "hog"}
  /\ UNCHANGED <<wuVars, tsVars, hogVars>>

ToolIsWattsup == toolName = "wattsup" /\ UNCHANGED <<toolName, tsVars, hogVars>>
ToolIsTurbostat == toolName = "turbostat" /\ UNCHANGED <<toolName, wuVars, hogVars>>
ToolIsHog == toolName = "hog" /\ UNCHANGED <<toolName, wuVars, tsVars>>

ToolNext ==
  \/ ToolStart
  \/ ToolIsWattsup /\ WuNext
  \/ ToolIsTurbostat /\ TsNext
  \/ ToolIsHog /\ HogNext

(* Programs and threads are scheduled; the meter answers what it is asked  *)
(* while it can be reached, and a child that works comes to its end.       *)
ToolFairness ==
  /\ WF_toolVars((ToolIsWattsup /\ WuStep) \/ (ToolIsHog /\ HogMain))
  /\ WF_toolVars((ToolIsWattsup /\ WuAnswers) \/ (ToolIsHog /\ work("buffer")))
  /\ WF_toolVars(ToolIsHog /\ work("spike"))
  /\ WF_toolVars(ToolIsHog /\ calcpi_int)
  /\ WF_toolVars(ToolIsHog /\ HogChildEnds)
ToolSpec == ToolInit /\ [][ToolNext]_toolVars /\ ToolFairness
-----------------------------------------------------------------------------
(* A row of turbostat is the difference of two readings of its CPU one     *)
(* interval apart, whatever CPUs come and go meanwhile; a CPU that went    *)
(* away spoils one round at most, after which the list is made again.      *)
TsTrue == TsRowsTrue /\ TsGoneOnce

(* A load generator frees its memory when none of its threads works on it  *)
(* any more, and what iohog reports as written is in the file as far as    *)
(* its options promise that.                                               *)
HogSafe == HogMemorySafe /\ HogReported

(* wattsup ends when the meter falls silent, and every load generator ends *)
(* by itself, so that a recording of it ends; unless one could not make a  *)
(* thread and hangs in the join of it.                                     *)
ToolsEnd == (toolName \in {"wattsup", "hog"}) ~> (wuAt = "done" \/ hogAt \in {"exit", "hung"})
=============================================================================
