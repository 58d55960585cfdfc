------------------------------- MODULE Daemon -------------------------------
(***************************************************************************)
(* What the outside - the init script, the administrator - can rely on of  *)
(* a logging daemon: when it starts, hears signals and ends, and what      *)
(* becomes of its timer.  dlogger.pl and duologger.pl implement it; the    *)
(* init script is checked against it.                                      *)
(***************************************************************************)
CONSTANT
  Single   \* TRUE when the daemon was started with -S

VARIABLE life

(* A collector that could not fork its timer is a stray: it serves nobody  *)
(* and ignores every signal of the init script.                            *)
Phases == {"starting", "deaf", "serving", "stray", "ended", "crashed"}
Lives == [phase : Phases, timer : {"none", "on", "off"}, asked : {"no", "yes"}]

Born == [phase |-> "starting", timer |-> "none", asked |-> "no"]

CollectorUp(l) == l.phase \in {"starting", "deaf", "serving", "stray"}
TimerUp(l) == l.timer = "on"

(* The orderly end: no timer stays behind.                                 *)
Stopped == [phase |-> "ended", timer |-> "off", asked |-> "no"]

(* The other end: the timer stays what it was.                             *)
Crashed(l) == [phase |-> "crashed", timer |-> l.timer, asked |-> "no"]

(* What the daemon does by itself.                                         *)
Own(l) ==
  {t \in Lives :
     \/ l.phase = "starting" /\ t = [l EXCEPT !.phase = "deaf"]
     \/ l.phase = "deaf" /\ l.timer = "none" /\ t = [l EXCEPT !.timer = "on"]
     \/ l.phase = "deaf" /\ l.timer = "none" /\ t = [l EXCEPT !.phase = "stray"]
     \/ l.phase = "deaf" /\ l.timer # "none" /\ t = [l EXCEPT !.phase = "serving"]
     \/ l.phase = "serving" /\ (l.asked = "yes" \/ l.timer = "off" \/ Single) /\ t = Stopped}

(* What can befall it: either process ends by itself or is killed.         *)
Mishaps(l) ==
  {t \in Lives :
     \/ CollectorUp(l) /\ t = Crashed(l)
     \/ TimerUp(l) /\ t = [l EXCEPT !.timer = "off"]}

(* SIGINT: fatal, ignored or heard.                                        *)
OnINT(l) ==
  CASE l.phase = "starting" -> [l EXCEPT !.phase = "crashed"]
    [] l.phase = "serving" -> [l EXCEPT !.asked = "yes"]
    [] OTHER -> l

(* SIGUSR2: fatal while the daemon starts, a reload or nothing later.      *)
OnUSR2(l) == IF l.phase = "starting" THEN [l EXCEPT !.phase = "crashed"] ELSE l

Init == life = Born
Next == life' \in Own(life) \cup Mishaps(life) \cup {OnINT(life), OnUSR2(life)}
Spec == Init /\ [][Next]_life
=============================================================================
