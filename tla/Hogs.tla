------------------------------- MODULE Hogs --------------------------------
(***************************************************************************)
(* The load generators memrec is tried out with: memhog (and its variants  *)
(* memhog0, memhogS and memhogF), calcpi and iohog. One of them runs.      *)
(***************************************************************************)
EXTENDS Integers, Sequences, FiniteSets

CONSTANTS
  HogThreads,   \* calcpi -t: threads of a round
  HogRounds,    \* calcpi -r: rounds
  HogRecords,   \* iohog -n: records
  HogForks      \* memhogF -f

ASSUME HogNumbers == {HogThreads, HogRounds, HogRecords, HogForks} \subseteq Nat

VARIABLES
  hogName,    \* the program
  hogTodo,    \* its steps still to come
  hogAt,      \* "new", "run", "exit", or "hung" in a join
  hogMem,     \* memhog: buffer and spike: "none", "held" or "freed"
  hogOdd,     \* memhog: buffers a pass of work has incremented and not yet decremented
  hogWork,    \* the worker threads running, and the buffer of each
  hogUnmade,  \* the threads that pthread_create failed to make
  hogFlag,    \* the flags set to 1
  hogSpike,   \* calcpi: the spike thread
  hogFile,    \* iohog: records in stdio's buffer, in the file, reported in stdout's buffer, seen;
              \* -O, -S or -F, whether stdout is a terminal, and whether a write failed
  hogKids     \* memhogF: children alive

hogVars == <<hogName, hogTodo, hogAt, hogMem, hogOdd, hogWork, hogUnmade, hogFlag, hogSpike, hogFile, hogKids>>

HogInit ==
  /\ hogName = "none" /\ hogTodo = <<>> /\ hogAt = "new"
  /\ hogMem = [buffer |-> "none", spike |-> "none"] /\ hogOdd = {} /\ hogWork = {} /\ hogUnmade = {}
  /\ hogFlag = {} /\ hogSpike = "off" /\ hogKids = {}
  /\ hogFile = [buf |-> 0, file |-> 0, said |-> 0, seen |-> 0,
                over |-> FALSE, sync |-> "none", tty |-> FALSE, bad |-> FALSE]
-----------------------------------------------------------------------------
HogDo(do, on, flag) == [do |-> do, on |-> on, flag |-> flag]
HogAlloc(on) == HogDo("malloc", on, "none")
HogFree(on) == HogDo("free", on, "none")
HogBegin(on, flag) == HogDo("start", on, flag)
HogTell(on, flag) == HogDo("stop", on, flag)
HogAwait(on, flag) == HogDo("join", on, flag)
(* main of memhog.c: two threads, each with its own flag.                  *)
HogMemhog ==
  <<HogAlloc("buffer"), HogBegin("buffer", "flag"),
    HogAlloc("spike"), HogBegin("spike", "flag2"), HogTell("spike", "flag2"), HogAwait("spike", "flag2"), HogFree("spike"),
    HogTell("buffer", "flag"), HogAwait("buffer", "flag"), HogFree("buffer")>>
(* main of memhog0.c: one thread at a time, and one flag for all.          *)
HogMemhog0 ==
  <<HogAlloc("buffer"), HogBegin("buffer", "flag"), HogTell("buffer", "flag"), HogAwait("buffer", "flag"),
    HogAlloc("spike"), HogBegin("spike", "flag"), HogTell("spike", "flag"), HogAwait("spike", "flag"), HogFree("spike"),
    HogBegin("buffer", "flag"), HogTell("buffer", "flag"), HogAwait("buffer", "flag"), HogFree("buffer")>>
(* main of memhogS.c: no thread.                                           *)
HogMemhogS == <<HogAlloc("buffer"), HogAlloc("spike"), HogFree("spike"), HogFree("buffer")>>
(* main of memhogF.c: that in every process; the parent waits for its last *)
(* child only.                                                             *)
HogMemhogF == [i \in 1..HogForks |-> HogDo("fork", "none", "none")] \o HogMemhogS \o <<HogDo("wait", "none", "none")>>
(* calcpi: in every round the threads are made and joined one by one.      *)
HogCalcpi ==
  LET each(do) == [t \in 1..HogThreads |-> HogDo(do, t, "none")]
      round == each("thread") \o each("reap") IN
  [i \in 1..(HogRounds * Len(round)) |-> round[((i - 1) % Len(round)) + 1]]
(* iohog: a record written, under -O the file rewound, the record reported *)
(* and, as asked for, synced, and the report flushed.                      *)
HogRecord == <<"fwrite", "fseek", "printf", "sync", "fflush_stdout">>
HogIohog ==
  <<HogDo("fopen", "none", "none")>>
  \o [i \in 1..(HogRecords * 5) |-> HogDo(HogRecord[((i - 1) % 5) + 1], "none", "none")]
  \o <<HogDo("fclose", "none", "none")>>

HogPrograms == [memhog |-> HogMemhog, memhog0 |-> HogMemhog0, memhogS |-> HogMemhogS, memhogF |-> HogMemhogF,
                calcpi |-> HogCalcpi, iohog |-> HogIohog]
HogOptions ==
  \E o, t \in BOOLEAN, s \in {"none", "fsync", "fflush"} : hogFile' = [hogFile EXCEPT !.over = o, !.sync = s, !.tty = t]
HogStart ==
  /\ hogAt = "new" /\ hogAt' = "run" /\ hogName' \in DOMAIN HogPrograms /\ hogTodo' = HogPrograms[hogName']
  /\ IF hogName' = "calcpi" THEN hogSpike' \in {"off", "wait"} ELSE UNCHANGED hogSpike
  /\ IF hogName' = "iohog" THEN HogOptions ELSE UNCHANGED hogFile
  /\ UNCHANGED <<hogMem, hogOdd, hogWork, hogUnmade, hogFlag, hogKids>>
-----------------------------------------------------------------------------
HogIs(do) == hogAt = "run" /\ hogTodo # <<>> /\ Head(hogTodo).do = do
HogOn == Head(hogTodo).on
HogNextStep == hogTodo' = Tail(hogTodo) /\ UNCHANGED <<hogName, hogAt>>
HogExit == hogAt' = "exit" /\ UNCHANGED <<hogName, hogTodo>>
HogThread(on) == [on |-> on, flag |-> Head(hogTodo).flag]

(* malloc may fail, which ends the program: exit(-1), exit(-2).            *)
HogMalloc ==
  /\ HogIs("malloc") /\ UNCHANGED <<hogOdd, hogWork, hogUnmade, hogFlag, hogSpike, hogFile, hogKids>>
  /\ \/ hogMem' = [hogMem EXCEPT ![HogOn] = "held"] /\ HogNextStep
     \/ HogExit /\ UNCHANGED hogMem
HogFreed ==
  /\ HogIs("free") /\ hogMem' = [hogMem EXCEPT ![HogOn] = "freed"] /\ HogNextStep
  /\ UNCHANGED <<hogOdd, hogWork, hogUnmade, hogFlag, hogSpike, hogFile, hogKids>>
(* pthread_create, with the flag cleared first; it may fail, which is      *)
(* reported at most.                                                       *)
HogCreate ==
  /\ HogIs("start") \/ HogIs("thread")
  /\ hogFlag' = hogFlag \ {Head(hogTodo).flag}
  /\ \/ hogWork' = hogWork \cup {HogThread(HogOn)} /\ hogUnmade' = hogUnmade \ {HogThread(HogOn)}
     \/ hogUnmade' = hogUnmade \cup {HogThread(HogOn)} /\ UNCHANGED hogWork
  /\ HogNextStep /\ UNCHANGED <<hogMem, hogOdd, hogSpike, hogFile, hogKids>>
HogSetFlag ==
  /\ HogIs("stop") /\ hogFlag' = hogFlag \cup {Head(hogTodo).flag} /\ HogNextStep
  /\ UNCHANGED <<hogMem, hogOdd, hogWork, hogUnmade, hogSpike, hogFile, hogKids>>
(* pthread_join. Slip: the thread is not waited for. Nobody asks whether   *)
(* the thread was made: if it was not, its pthread_t is not initialised or *)
(* that of a thread already joined, and the call, whose behaviour is then  *)
(* undefined, returns an error, crashes or never returns.                  *)
HogNotJoined == TRUE
HogJoined == HogThread(HogOn) \notin hogWork
HogJoin ==
  /\ HogIs("join") \/ HogIs("reap")
  /\ \/ HogJoined /\ HogNextStep
     \/ HogThread(HogOn) \in hogUnmade /\ (HogExit \/ (hogAt' = "hung" /\ UNCHANGED <<hogName, hogTodo>>))
  /\ UNCHANGED <<hogMem, hogOdd, hogWork, hogUnmade, hogFlag, hogSpike, hogFile, hogKids>>
HogFork ==
  /\ HogIs("fork") /\ hogKids' = hogKids \cup {Cardinality(hogKids) + 1} /\ HogNextStep
  /\ UNCHANGED <<hogMem, hogOdd, hogWork, hogUnmade, hogFlag, hogSpike, hogFile>>
(* waitpid for the last child.                                             *)
HogWait ==
  /\ HogIs("wait") /\ HogForks \notin hogKids /\ HogNextStep
  /\ UNCHANGED <<hogMem, hogOdd, hogWork, hogUnmade, hogFlag, hogSpike, hogFile, hogKids>>
HogChildEnds ==
  /\ ~HogIs("fork") /\ \E k \in hogKids : hogKids' = hogKids \ {k}
  /\ UNCHANGED <<hogName, hogTodo, hogAt, hogMem, hogOdd, hogWork, hogUnmade, hogFlag, hogSpike, hogFile>>
(* iohog opens its file and gets its buffer: a file that cannot be opened  *)
(* makes the first use of it crash, and a failing malloc ends the program. *)
HogOpen ==
  /\ HogIs("fopen") /\ (HogNextStep \/ HogExit)
  /\ UNCHANGED <<hogMem, hogOdd, hogWork, hogUnmade, hogFlag, hogSpike, hogFile, hogKids>>
(* Its main loop: stdio keeps a record until it is flushed, which fseek    *)
(* and fclose do too and fsync does not, or writes it when its buffer is   *)
(* full; a write that fails is not noticed. A line for a terminal is       *)
(* written at once, any other when stdout is flushed.                      *)
HogWritten == {[hogFile EXCEPT !.file = hogFile.buf], [hogFile EXCEPT !.bad = TRUE]}
HogIo ==
  /\ hogAt = "run" /\ hogName = "iohog" /\ hogTodo # <<>> /\ ~HogIs("fopen")
  /\ hogFile' \in CASE HogIs("fwrite") -> {[hogFile EXCEPT !.buf = @ + 1]}
                    [] HogIs("fseek") -> IF hogFile.over THEN HogWritten ELSE {hogFile}
                    [] HogIs("printf") ->
                         {[hogFile EXCEPT !.said = @ + 1, !.seen = IF hogFile.tty THEN hogFile.said + 1 ELSE @]}
                    [] HogIs("sync") -> IF hogFile.sync = "fflush" THEN HogWritten ELSE {hogFile}
                    [] HogIs("fclose") -> HogWritten
                    [] OTHER -> {[hogFile EXCEPT !.seen = hogFile.said]}
  /\ HogNextStep /\ UNCHANGED <<hogMem, hogOdd, hogWork, hogUnmade, hogFlag, hogSpike, hogKids>>
HogFull ==
  /\ hogAt = "run" /\ hogFile.buf > hogFile.file /\ ~hogFile.bad /\ hogFile' \in HogWritten
  /\ UNCHANGED <<hogName, hogTodo, hogAt, hogMem, hogOdd, hogWork, hogUnmade, hogFlag, hogSpike, hogKids>>
(* main returns; every thread ends with it, the spike thread too.          *)
HogReturn ==
  /\ hogAt = "run" /\ hogTodo = <<>> /\ HogExit /\ hogWork' = {} /\ hogSpike' = "off"
  /\ UNCHANGED <<hogMem, hogOdd, hogUnmade, hogFlag, hogFile, hogKids>>
-----------------------------------------------------------------------------
(* work: a pass increments every byte, a pass decrements it, and then the  *)
(* flag is looked at.                                                      *)
work(b) ==
  \E w \in hogWork :
    /\ hogAt = "run" /\ hogName # "calcpi" /\ w.on = b
    /\ IF w.on \in hogOdd
       THEN /\ hogOdd' = hogOdd \ {w.on}
            /\ hogWork' = IF w.flag \in hogFlag THEN hogWork \ {w} ELSE hogWork
       ELSE hogOdd' = hogOdd \cup {w.on} /\ UNCHANGED hogWork
    /\ UNCHANGED <<hogName, hogTodo, hogAt, hogMem, hogUnmade, hogFlag, hogSpike, hogFile, hogKids>>
calcpi_int ==
  /\ hogAt = "run" /\ hogName = "calcpi" /\ \E w \in hogWork : hogWork' = hogWork \ {w}
  /\ UNCHANGED <<hogName, hogTodo, hogAt, hogMem, hogOdd, hogUnmade, hogFlag, hogSpike, hogFile, hogKids>>
(* spike: waits, and then makes and joins threads of its own until its     *)
(* time is over. Nobody waits for it.                                      *)
spike ==
  /\ hogAt = "run" /\ hogSpike \in {"wait", "fire"}
  /\ hogSpike' = IF hogSpike = "wait" THEN "fire" ELSE "done"
  /\ UNCHANGED <<hogName, hogTodo, hogAt, hogMem, hogOdd, hogWork, hogUnmade, hogFlag, hogFile, hogKids>>

HogMain == HogStart \/ HogMalloc \/ HogFreed \/ HogCreate \/ HogSetFlag \/ HogJoin \/ HogFork \/ HogWait
        \/ HogOpen \/ HogIo \/ HogReturn
HogNext == HogMain \/ HogFull \/ HogChildEnds \/ work("buffer") \/ work("spike") \/ calcpi_int \/ spike
HogFairness == WF_hogVars(HogMain) /\ WF_hogVars(work("buffer")) /\ WF_hogVars(work("spike"))
               /\ WF_hogVars(calcpi_int) /\ WF_hogVars(HogChildEnds)
HogSpec == HogInit /\ [][HogNext]_hogVars /\ HogFairness
-----------------------------------------------------------------------------
(* Memory is freed when no thread works on it any more, with its contents  *)
(* as they were; a thread of calcpi works in its own round only.           *)
HogMemorySafe ==
  /\ \A w \in hogWork : hogName # "calcpi" => hogMem[w.on] = "held"
  /\ \A b \in {"buffer", "spike"} : hogMem[b] = "freed" => b \notin hogOdd
  /\ \A w \in hogWork : hogAt = "run" /\ hogName = "calcpi" =>
       \E i \in 1..(2 * HogThreads) : i <= Len(hogTodo) /\ hogTodo[i].do = "reap" /\ hogTodo[i].on = w.on

(* Unless a write failed: a record iohog is seen to have reported has gone *)
(* to the file, whenever the program is killed, if it rewinds the file     *)
(* (-O), or flushes it (-F) and does not report to a terminal, where its   *)
(* last report may come before the flush. With -S, which syncs what stdio  *)
(* has not yet written, or without an option that holds only once it has   *)
(* closed the file, and then for all it reported.                          *)
HogReported ==
  hogName = "iohog" /\ ~hogFile.bad =>
    /\ hogFile.over \/ (hogFile.sync = "fflush" /\ ~hogFile.tty) => hogFile.seen <= hogFile.file
    /\ hogFile.sync = "fflush" => hogFile.seen <= hogFile.file + 1
    /\ hogTodo = <<>> => hogFile.file = hogFile.said
=============================================================================
