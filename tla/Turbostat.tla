----------------------------- MODULE Turbostat -----------------------------
(***************************************************************************)
(* turbostat and dump_tstat, src/tstat/turbostat.c and dump_tstat.c, which *)
(* lib/memrec/turbostat.pm starts: counters of every CPU, read one after   *)
(* the other, turn by turn into cnt_even and cnt_odd, and printed as       *)
(* differences, while CPUs go away and come back.                          *)
(***************************************************************************)
EXTENDS Integers, Sequences, SequencesExt

CONSTANTS
  TsCpus,     \* the CPUs, numbers
  TsTopo,     \* package and core of each
  TsMsrs,     \* how many counters are read of each, the TSC first
  TsModulus,  \* counters wrap at this value: 2^64 in the code
  TsSleeps,   \* how far the counters get in one interval
  TsMaxTime,  \* bound: what the counters get to in all
  TsMaxPlugs  \* bound: CPUs going away or coming back

ASSUME TsNumbers ==
  /\ TsCpus \subseteq Nat /\ TsCpus # {} /\ TsTopo \in [TsCpus -> Nat \X Nat] /\ TsModulus \in Nat \ {0}
  /\ TsMsrs \in Nat \ {0}
  /\ TsSleeps \subseteq 1..(TsModulus - 1) /\ TsMaxTime \in Nat /\ TsMaxPlugs \in Nat

VARIABLES
  tsAt,      \* "new", "scan", "read", "sleep", "print", "exit"
  tsMode,    \* "loop", "fork" (turbostat COMMAND) or "dump" (dump_tstat -d)
  tsScan,    \* for_all_cpus: CPUs of /proc/stat still to look at, and what for
  tsList,    \* the order of the lists of counters
  tsCnt,     \* cnt_even and cnt_odd: the last reading of each CPU
  tsInto,    \* the list a reading goes to, how many CPUs have been read, and how many counters of the next
  tsNum,     \* num_cpus
  tsNeed,    \* need_reinitialize
  tsRows,    \* the table printed last
  tsOnline, tsNow, tsBase, tsGen, tsPlugs,  \* the machine
  tsGone     \* history: tables with a CPU that had gone, since it went

tsMachine == <<tsOnline, tsBase, tsGen, tsPlugs>>
tsProgram == <<tsAt, tsMode, tsScan, tsList, tsCnt, tsInto, tsNum, tsNeed, tsRows>>
tsVars == <<tsProgram, tsMachine, tsNow, tsGone>>

(* A reading of a counter: its value, and of the machine the time and how  *)
(* often the CPU has been away (-2: it is away). calloc leaves counters of *)
(* 0 that were never read (-1).                                            *)
TsUnread == [m \in 1..TsMsrs |-> [v |-> 0, t |-> 0, gen |-> -1]]
TsInit ==
  /\ tsAt = "new" /\ tsMode = "loop" /\ tsScan = [left |-> {}, for |-> "init", n |-> 0]
  /\ tsList = <<>> /\ tsCnt = [h \in {"even", "odd"} |-> [c \in TsCpus |-> TsUnread]]
  /\ tsInto = [list |-> "even", n |-> 0, m |-> 0] /\ tsNum = 0 /\ tsNeed = FALSE /\ tsRows = <<>>
  /\ tsOnline = TsCpus /\ tsNow = 0 /\ tsBase = [c \in TsCpus |-> c] /\ tsGen = [c \in TsCpus |-> 0]
  /\ tsPlugs = 0 /\ tsGone = [c \in TsCpus |-> 0]
-----------------------------------------------------------------------------
(* The machine, external: CPUs go away and come back with counters of 0.   *)
TsPlug ==
  /\ tsAt \notin {"new", "exit"} /\ tsPlugs < TsMaxPlugs /\ tsPlugs' = tsPlugs + 1
  /\ \E c \in TsCpus :
       IF c \in tsOnline
       THEN /\ tsOnline # {c} /\ tsOnline' = tsOnline \ {c} /\ tsGen' = [tsGen EXCEPT ![c] = @ + 1]
            /\ UNCHANGED tsBase /\ tsGone' = [tsGone EXCEPT ![c] = 0]
       ELSE tsOnline' = tsOnline \cup {c} /\ tsBase' = [tsBase EXCEPT ![c] = -tsNow] /\ UNCHANGED <<tsGen, tsGone>>
  /\ UNCHANGED <<tsProgram, tsNow>>
-----------------------------------------------------------------------------
(* insert_counters: where a new CPU goes in a list, by package, core and   *)
(* number: before the head, or behind the CPUs the three loops skip.       *)
TsBefore(a, b) ==
  LET k(c) == TsTopo[c] IN
  \/ k(a)[1] < k(b)[1]
  \/ k(a)[1] = k(b)[1] /\ k(a)[2] < k(b)[2]
  \/ k(a) = k(b) /\ a < b
insert_counters(list, new) ==
  LET n == CHOOSE n \in 0..Len(list) : /\ \A i \in 1..n : TsBefore(list[i], new)
                                       /\ n < Len(list) => ~TsBefore(list[n + 1], new)
  IN InsertAt(list, n + 1, new)

(* for_all_cpus: the CPUs of /proc/stat, in the order of their numbers,    *)
(* and package and core of each from sysfs. A CPU that has gone since then *)
(* ends the tool.                                                          *)
TsBeginScan(for) == tsAt' = "scan" /\ tsScan' = [left |-> tsOnline, for |-> for, n |-> 0]
(* get_physical_package_id and alloc_new_counters, or dummy.               *)
alloc_new_counters(c) ==
  IF tsScan.for = "verify" THEN UNCHANGED <<tsList, tsCnt>>
  ELSE /\ tsList' = insert_counters(tsList, c)
       /\ tsCnt' = [h \in {"even", "odd"} |-> [tsCnt[h] EXCEPT ![c] = TsUnread]]
get_physical_package_id ==
  /\ tsAt = "scan" /\ tsScan.left # {}
  /\ LET c == Min(tsScan.left) IN
     IF c \notin tsOnline THEN tsAt' = "exit" /\ UNCHANGED <<tsScan, tsList, tsCnt>>
     ELSE /\ tsScan' = [tsScan EXCEPT !.left = @ \ {c}, !.n = @ + 1] /\ alloc_new_counters(c) /\ UNCHANGED tsAt
  /\ UNCHANGED <<tsMode, tsInto, tsNum, tsNeed, tsRows, tsMachine, tsNow, tsGone>>

TsRead(into) == tsAt' = "read" /\ tsInto' = [list |-> into, n |-> 0, m |-> 0]
(* Slip: after the topology has changed the loop goes on with cnt_even.    *)
TsGoesOn == tsAt' = "sleep" /\ UNCHANGED tsInto
TsRestart == TsRead("even")
(* re_initialize: the lists are thrown away and made again.                *)
re_initialize == TsBeginScan("init") /\ tsList' = <<>>
(* The end of a scan: that of turbostat_init and re_initialize starts with *)
(* cnt_even; that of verify_num_cpus sees whether the number has changed.  *)
for_all_cpus ==
  /\ tsAt = "scan" /\ tsScan.left = {}
  /\ IF tsScan.for = "init"
     THEN /\ tsNum' = tsScan.n /\ tsNeed' = FALSE /\ (IF tsRows = <<>> THEN TsRead("even") ELSE TsRestart)
          /\ UNCHANGED <<tsScan, tsList>>
     ELSE /\ UNCHANGED tsNum /\ tsNeed' = (tsNeed \/ tsScan.n # tsNum)
          /\ IF tsNeed' THEN re_initialize /\ UNCHANGED tsInto
             ELSE tsAt' = "sleep" /\ UNCHANGED <<tsScan, tsList, tsInto>>
  /\ UNCHANGED <<tsMode, tsCnt, tsRows, tsMachine, tsNow, tsGone>>
-----------------------------------------------------------------------------
(* turbostat_init: the processor, /dev/cpu/0/msr and the user are checked. *)
check_cpuid == tsAt' = "exit" /\ UNCHANGED tsScan
turbostat_init ==
  /\ tsAt = "new" /\ tsMode' \in {"loop", "fork", "dump"}
  /\ TsBeginScan("init") \/ check_cpuid
  /\ UNCHANGED <<tsList, tsCnt, tsInto, tsNum, tsNeed, tsRows, tsMachine, tsNow, tsGone>>

(* get_msr: a counter of a CPU that has gone reads as 0, but a pread that  *)
(* fails, as when the CPU goes after the open, ends the tool: exit(-2).    *)
get_msr(c) ==
  IF c \in tsOnline THEN [v |-> (tsBase[c] + tsNow) % TsModulus, t |-> tsNow, gen |-> tsGen[c]]
  ELSE [v |-> 0, t |-> tsNow, gen |-> -2]
TsNoticed(c) == tsNeed \/ c \notin tsOnline
(* The counters of a CPU, one by one, and then those of the next.          *)
get_counters ==
  /\ tsAt = "read" /\ tsInto.n < Len(tsList)
  /\ LET c == tsList[tsInto.n + 1]
         m == tsInto.m + 1 IN
     \/ /\ tsCnt' = [tsCnt EXCEPT ![tsInto.list][c][m] = get_msr(c)] /\ tsNeed' = TsNoticed(c)
        /\ tsInto' = IF m < TsMsrs THEN [tsInto EXCEPT !.m = m] ELSE [tsInto EXCEPT !.n = @ + 1, !.m = 0]
        /\ UNCHANGED tsAt
     \/ c \in tsOnline /\ tsAt' = "exit" /\ UNCHANGED <<tsCnt, tsNeed, tsInto>>
  /\ UNCHANGED <<tsMode, tsScan, tsList, tsNum, tsRows, tsMachine, tsNow, tsGone>>

(* SUBTRACT_COUNTER for every counter of the lists: after - before, modulo *)
(* the width of the counters.                                              *)
TsOther(h) == IF h = "even" THEN "odd" ELSE "even"
SUBTRACT_COUNTER(c, m) == (tsCnt[tsInto.list][c][m].v - tsCnt[TsOther(tsInto.list)][c][m].v) % TsModulus
compute_delta ==
  [i \in 1..Len(tsList) |->
    LET c == tsList[i] IN
    [cpu |-> c, delta |-> [m \in 1..TsMsrs |-> SUBTRACT_COUNTER(c, m)],
     a |-> tsCnt[tsInto.list][c], b |-> tsCnt[TsOther(tsInto.list)][c]]]
(* A TSC that got on too little, here not at all, ends the tool: exit(-3). *)
TsTscStopped == \E i \in 1..Len(tsList) : SUBTRACT_COUNTER(tsList[i], 1) = 0
print_counters ==
  /\ tsRows' = compute_delta
  /\ tsGone' = [c \in TsCpus |->
       IF \E i \in 1..Len(tsRows'), m \in 1..TsMsrs :
            tsRows'[i].cpu = c /\ -2 \in {tsRows'[i].a[m].gen, tsRows'[i].b[m].gen}
       THEN tsGone[c] + 1 ELSE tsGone[c]]
(* turbostat_loop: after cnt_odd need_reinitialize is looked at, after     *)
(* cnt_even the CPUs are counted first. The first reading has nothing to   *)
(* be compared with.                                                       *)
TsFirst == \A i \in 1..Len(tsList) : tsCnt["odd"][tsList[i]] = TsUnread
turbostat_loop ==
  /\ tsAt = "read" /\ tsInto.n = Len(tsList) /\ tsMode = "loop"
  /\ IF TsFirst \/ TsTscStopped THEN UNCHANGED <<tsRows, tsGone>> ELSE print_counters
  /\ IF ~TsFirst /\ TsTscStopped THEN tsAt' = "exit" /\ UNCHANGED <<tsScan, tsList, tsInto>>
     ELSE IF tsInto.list = "even" THEN TsBeginScan("verify") /\ UNCHANGED <<tsList, tsInto>>
     ELSE IF tsNeed THEN re_initialize /\ UNCHANGED tsInto
     ELSE tsAt' = "sleep" /\ UNCHANGED <<tsScan, tsList, tsInto>>
  /\ UNCHANGED <<tsMode, tsCnt, tsNum, tsNeed, tsMachine, tsNow>>
(* fork_it: the counters before and after a command.                       *)
fork_it ==
  /\ tsAt = "read" /\ tsInto.n = Len(tsList) /\ tsMode = "fork"
  /\ IF tsInto.list = "even" THEN tsAt' = "sleep" /\ UNCHANGED <<tsRows, tsGone>>
     ELSE tsAt' = "exit" /\ (IF TsTscStopped THEN UNCHANGED <<tsRows, tsGone>> ELSE print_counters)
  /\ UNCHANGED <<tsMode, tsScan, tsList, tsCnt, tsInto, tsNum, tsNeed, tsMachine, tsNow>>
(* dump_vals: the values themselves.                                       *)
dump_vals ==
  /\ tsAt = "read" /\ tsInto.n = Len(tsList) /\ tsMode = "dump"
  /\ tsAt' = "exit" /\ UNCHANGED <<tsMode, tsScan, tsList, tsCnt, tsInto, tsNum, tsNeed, tsRows, tsMachine, tsNow, tsGone>>
TsSleep ==
  /\ tsAt = "sleep" /\ \E d \in TsSleeps : tsNow + d <= TsMaxTime /\ tsNow' = tsNow + d
  /\ TsRead(TsOther(tsInto.list))
  /\ UNCHANGED <<tsMode, tsScan, tsList, tsCnt, tsNum, tsNeed, tsRows, tsMachine, tsGone>>

TsStep == turbostat_init \/ get_physical_package_id \/ for_all_cpus \/ get_counters \/ turbostat_loop
       \/ fork_it \/ dump_vals \/ TsSleep
TsNext == TsStep \/ TsPlug
TsFairness == WF_tsVars(TsStep)
TsSpec == TsInit /\ [][TsNext]_tsVars /\ TsFairness
-----------------------------------------------------------------------------
(* Every number printed is the difference of two readings of a counter of  *)
(* its CPU, taken one interval apart, and the counter's wrap-around does   *)
(* not show, unless the CPU was away between the two or at one of them;    *)
(* rows are in the order of package, core and CPU.                         *)
TsRowsTrue ==
  \A i \in 1..Len(tsRows) :
    LET r == tsRows[i] IN
    /\ \A m \in 1..TsMsrs :
         /\ r.a[m].gen # -1 /\ r.b[m].gen # -1
         /\ r.a[m].gen = r.b[m].gen /\ r.a[m].gen # -2 => r.delta[m] = r.a[m].t - r.b[m].t
    /\ \A j \in 1..(i-1) : TsBefore(tsRows[j].cpu, r.cpu)

(* The counters of a CPU that has gone, be it between two of them, read as *)
(* 0: a row with such a counter is in one table only, because              *)
(* need_reinitialize is seen before the next.                              *)
TsGoneOnce == \A c \in TsCpus : tsGone[c] <= 1
=============================================================================
