------------------------------ MODULE Wattsup ------------------------------
(***************************************************************************)
(* The reader of a Watts Up? power meter, src/wattsup/wattsup.c, which     *)
(* lib/memrec/power.pm starts for every reading. The tool writes requests  *)
(* to the meter's serial line and takes whatever packet it finds there for *)
(* the answer. The line may cut a packet in two, and the meter may be late *)
(* or silent.                                                              *)
(***************************************************************************)
EXTENDS Integers, Sequences, FiniteSets, SequencesExt

CONSTANTS
  WuRetry,       \* wu_max_retry
  WuCommands,    \* the command lines: records like WuNoOptions
  WuMaxRecords,  \* bound: data records the meter sends
  WuMaxFaults    \* bound: packets cut, late answers and failed writes

ASSUME WuNumbers == WuRetry \in Nat \ {0} /\ WuMaxRecords \in Nat /\ WuMaxFaults \in Nat

VARIABLES
  wuAt,      \* "new", "write", "read", "done"
  wuTodo,    \* what main, or wu_read_data, still has to do: [op, strict]
  wuOpt,     \* the options
  wuRetried, \* retry of wu_read_data
  wuRc,      \* "ok" (0), "error" (-1) or "crash"
  wuTty,     \* the line from the meter: pieces of packets
  wuMeter,   \* the meter: requests not yet looked at, logging, records sent,
             \* and whether it was logging when the tool was started
  wuShown,   \* history: the requests whose answer was printed, and the packet
  wuUpset,   \* history: a read failed; a write failed or was cut short
  wuFaults

wuVars == <<wuAt, wuTodo, wuOpt, wuRetried, wuRc, wuTty, wuMeter, wuShown, wuUpset, wuFaults>>

(* Options: those stored (with values or without), those shown, -a, -N,    *)
(* -S, -z and -c, where 0 means no end (a negative number is never met).   *)
WuNoOptions == [set |-> {}, val |-> FALSE, show |-> {}, all |-> FALSE, nodata |-> FALSE,
                setonly |-> FALSE, final |-> FALSE, count |-> 0]
WuInit ==
  /\ wuAt = "new" /\ wuTodo = <<>> /\ wuOpt = WuNoOptions /\ wuRetried = 0 /\ wuRc = "ok"
  /\ wuTty = <<>> /\ wuMeter = [reqs |-> <<>>, logging |-> FALSE, sent |-> 0, was |-> FALSE]
  /\ wuShown = <<>> /\ wuUpset = {} /\ wuFaults = 0
-----------------------------------------------------------------------------
(* wu_options: what has a show and what a store method. parse_args: the    *)
(* short options i, m and u never get a value ("i;" is two options to      *)
(* getopt), the long ones may.                                             *)
WuSettings == {"interval", "mode", "user"}
wu_options == [show |-> WuSettings \cup {"cal", "header"}, store |-> WuSettings]
ASSUME WuLines ==
  WuCommands \subseteq [set : SUBSET STRING, val : BOOLEAN, show : SUBSET STRING, all : BOOLEAN, nodata : BOOLEAN,
                        setonly : BOOLEAN, final : BOOLEAN, count : Int]
parse_args ==
  \E o \in WuCommands : o.set \subseteq wu_options.store /\ wuOpt' = [o EXCEPT !.show = @ \cup o.set]

WuDo(op, strict) == [op |-> op, strict |-> strict]
WuEach(o, in, task) == IF o \in in THEN <<task>> ELSE <<>>
(* main, from wu_clear on: the settings are stored, then shown, then the   *)
(* records are read. A store or the start of the log that fails ends the   *)
(* tool at Close, without stopping the log.                                *)
WuStores(in) ==
  WuEach("interval", in, WuDo("interval=", TRUE)) \o WuEach("mode", in, WuDo("mode=", TRUE))
  \o WuEach("user", in, WuDo("user=", TRUE))
WuShows(in) ==
  WuEach("cal", in, WuDo("cal", FALSE)) \o WuEach("header", in, WuDo("header", FALSE))
  \o WuEach("interval", in, WuDo("interval", FALSE)) \o WuEach("mode", in, WuDo("mode", FALSE))
  \o WuEach("user", in, WuDo("user", FALSE))
WuPlan(o) ==
  <<WuDo("clear", FALSE)>> \o WuStores(o.set)
  \o WuShows(IF o.all THEN wu_options.show ELSE o.show \ (IF o.setonly THEN WuSettings ELSE {}))
  \o (IF o.nodata THEN <<>> ELSE <<WuDo("start", TRUE), WuDo("data", FALSE), WuDo("stop", FALSE)>>)
(* open_device and setup_serial_device may fail. The tool may find a meter *)
(* that logs, left so by one that was killed; what has come from it is     *)
(* discarded, perhaps in the middle of a record.                           *)
setup_serial_device ==
  \E l \in BOOLEAN :
    /\ wuMeter' = [wuMeter EXCEPT !.logging = l, !.was = l]
    /\ wuTty' \in {<<>>} \cup (IF l THEN {<<[kind |-> "data", part |-> "tail"]>>} ELSE {})
open_device ==
  \/ wuAt' = "write" /\ wuTodo' = WuPlan(wuOpt') /\ UNCHANGED wuRc
  \/ wuAt' = "done" /\ wuRc' = "error" /\ UNCHANGED wuTodo
WuMain ==
  /\ wuAt = "new" /\ parse_args /\ open_device /\ setup_serial_device
  /\ UNCHANGED <<wuRetried, wuShown, wuUpset, wuFaults>>
-----------------------------------------------------------------------------
WuTask == Head(wuTodo)
WuGoOn(todo) == wuTodo' = todo /\ wuAt' = (IF todo = <<>> THEN "done" ELSE "write")
WuClose(rc) == wuAt' = "done" /\ wuRc' = rc /\ UNCHANGED wuTodo
(* A request that failed: its caller goes on, or closes the device.        *)
WuFailed == IF WuTask.strict THEN WuClose("error") ELSE WuGoOn(Tail(wuTodo)) /\ UNCHANGED wuRc

(* Without a value wu_store_user reports an error; wu_store_interval and   *)
(* wu_store_mode call strtol(NULL).                                        *)
wu_store_user == "error"
wu_store_interval == "crash"
wu_store_mode == "crash"
wu_store ==
  /\ wuAt = "write" /\ WuTask.op \in {"interval=", "mode=", "user="} /\ ~wuOpt.val
  /\ WuClose(CASE WuTask.op = "user=" -> wu_store_user
               [] WuTask.op = "mode=" -> wu_store_mode
               [] OTHER -> wu_store_interval)
  /\ UNCHANGED <<wuOpt, wuRetried, wuTty, wuMeter, wuShown, wuUpset, wuFaults>>

(* The answers of these requests are read. Slip: not that of wu_clear.     *)
WuNoDummyRead(op) == op \notin {"clear", "start", "interval=", "mode=", "user="}
WuReads(op) == op \notin {"start", "interval=", "mode=", "user="}
(* wu_write and the request on the line: wu_write_user writes the request  *)
(* that reads the user's parameters. A write that is cut short is reported *)
(* and taken for one that succeeded; the meter cannot use such a request.  *)
WuRequest(op) == IF op = "user=" THEN "user" ELSE op
wu_write ==
  /\ wuAt = "write" /\ WuTask.op # "data" /\ (WuTask.op \in {"interval=", "mode=", "user="} => wuOpt.val)
  /\ UNCHANGED <<wuOpt, wuRetried, wuTty, wuShown>>
  /\ \/ /\ \/ /\ wuMeter' = [wuMeter EXCEPT !.reqs = Append(@, WuRequest(WuTask.op))]
              /\ UNCHANGED <<wuUpset, wuFaults>>
           \/ /\ wuFaults < WuMaxFaults /\ wuFaults' = wuFaults + 1 /\ wuUpset' = wuUpset \cup {"write"}
              /\ UNCHANGED wuMeter
        /\ IF WuReads(WuTask.op) THEN wuAt' = "read" /\ UNCHANGED wuTodo ELSE WuGoOn(Tail(wuTodo))
        /\ UNCHANGED wuRc
     \/ /\ wuFaults < WuMaxFaults /\ wuFaults' = wuFaults + 1 /\ wuUpset' = wuUpset \cup {"write"}
        /\ IF WuTask.op = "clear" THEN wuAt' = "read" /\ UNCHANGED <<wuTodo, wuRc>> ELSE WuFailed
        /\ UNCHANGED wuMeter
WuStartData ==
  /\ wuAt = "write" /\ WuTask.op = "data" /\ wuAt' = "read"
  /\ UNCHANGED <<wuTodo, wuOpt, wuRetried, wuRc, wuTty, wuMeter, wuShown, wuUpset, wuFaults>>
-----------------------------------------------------------------------------
(* parse_packet of what a read got: the first packet in it. One cut before *)
(* its last field is refused; one cut in it is taken.                      *)
parse_packet(ps) ==
  LET i == CHOOSE j \in 1..Len(ps) : ps[j].part # "tail" /\ \A h \in 1..(j-1) : ps[h].part = "tail" IN
  IF \A j \in 1..Len(ps) : ps[j].part = "tail" THEN "error"
  ELSE IF ps[i].part = "head" /\ i = Len(ps) THEN "error" ELSE ps[i].kind

(* wu_read_data: after WuRetry bad records in a row the meter is reset,    *)
(* after one more the tool gives up. A read that failed has printed none.  *)
WuReset == <<WuDo("stop", FALSE), WuDo("clear", FALSE), WuDo("start", FALSE)>>
(* Slip: the count of bad records starts again with the reset.             *)
WuRetriesForEver(n) == IF n = WuRetry THEN 0 ELSE n
WuRetries(n) == n
(* Slip: giving up leaves the meter logging.                               *)
WuLeavesLogging == <<>>
WuGiveUp == Tail(wuTodo)
(* The records printed so far, i in wu_read_data, which a reset keeps.     *)
WuPrinted == Cardinality({i \in DOMAIN wuShown : wuShown[i].op = "data"})
wu_read_data(r) ==
  IF r = "error"
  THEN /\ wuRetried' = WuRetries(wuRetried + 1) /\ UNCHANGED wuShown
       /\ CASE wuRetried + 1 < WuRetry -> UNCHANGED <<wuAt, wuTodo>>
            [] wuRetried + 1 = WuRetry -> WuGoOn(WuReset \o wuTodo)
            [] OTHER -> WuGoOn(WuGiveUp)
  ELSE /\ wuRetried' = 0 /\ wuShown' = Append(wuShown, [op |-> "data", kind |-> r])
       /\ IF wuOpt.count # 0 /\ WuPrinted + 1 = wuOpt.count THEN WuGoOn(Tail(wuTodo))
          ELSE UNCHANGED <<wuAt, wuTodo>>

(* wu_show_header and its like, wu_stop_log and the dummy read of wu_clear *)
(* go on whatever they read; wu_stop_log prints it under -z.               *)
wu_final == wuOpt.final
wu_show(r) ==
  /\ wuShown' = IF r # "error" /\ WuTask.op # "clear" /\ (WuTask.op = "stop" => wu_final)
                THEN Append(wuShown, [op |-> WuTask.op, kind |-> r]) ELSE wuShown
  /\ WuGoOn(Tail(wuTodo)) /\ UNCHANGED wuRetried
WuTakes(r) ==
  /\ IF WuTask.op = "data" THEN wu_read_data(r) ELSE wu_show(r)
  /\ wuUpset' = IF r = "error" THEN wuUpset \cup {"read"} ELSE wuUpset

(* wu_read: some of what is on the line, or nothing within two seconds.    *)
wu_read ==
  /\ wuAt = "read" /\ UNCHANGED <<wuOpt, wuRc, wuMeter>>
  /\ \/ \E n \in 1..Len(wuTty) :
          /\ wuTty' = SubSeq(wuTty, n + 1, Len(wuTty)) /\ WuTakes(parse_packet(SubSeq(wuTty, 1, n)))
          /\ UNCHANGED wuFaults
     \/ /\ wuTty = <<>> /\ WuTakes("error") /\ UNCHANGED wuTty
        /\ IF wuMeter.reqs = <<>> THEN UNCHANGED wuFaults
           ELSE wuFaults < WuMaxFaults /\ wuFaults' = wuFaults + 1
WuStep == WuMain \/ wu_store \/ wu_write \/ WuStartData \/ wu_read
-----------------------------------------------------------------------------
(* The meter, external: it answers a request, and sends records while it   *)
(* logs. The line may cut what it sends.                                   *)
WuSends(kind) ==
  \/ wuTty' = Append(wuTty, [kind |-> kind, part |-> "all"]) /\ UNCHANGED wuFaults
  \/ /\ wuFaults < WuMaxFaults /\ wuFaults' = wuFaults + 1
     /\ \E p \in {"head", "short"} :
          wuTty' = wuTty \o <<[kind |-> kind, part |-> p], [kind |-> kind, part |-> "tail"]>>
WuAnswers ==
  /\ wuMeter.reqs # <<>>
  /\ LET q == Head(wuMeter.reqs) IN
     /\ wuMeter' = [wuMeter EXCEPT !.reqs = Tail(@), !.logging = IF q \in {"start", "stop"} THEN q = "start" ELSE @]
     /\ IF q \in {"start", "interval=", "mode="} THEN UNCHANGED <<wuTty, wuFaults>> ELSE WuSends(q)
  /\ UNCHANGED <<wuAt, wuTodo, wuOpt, wuRetried, wuRc, wuShown, wuUpset>>
WuRecords ==
  /\ wuMeter.logging /\ wuMeter.reqs = <<>> /\ wuMeter.sent < WuMaxRecords
  /\ wuMeter' = [wuMeter EXCEPT !.sent = @ + 1] /\ WuSends("data")
  /\ UNCHANGED <<wuAt, wuTodo, wuOpt, wuRetried, wuRc, wuShown, wuUpset>>

WuNext == WuStep \/ WuAnswers \/ WuRecords
WuFairness == WF_wuVars(WuStep) /\ WF_wuVars(WuAnswers)
WuSpec == WuInit /\ [][WuNext]_wuVars /\ WuFairness
-----------------------------------------------------------------------------
(* As long as every read has found a packet and every write went through,  *)
(* what is printed for a request is the answer to it, and what is printed  *)
(* as a record is one: the dummy read of wu_clear keeps requests and       *)
(* answers in step. Two cases upset that from the start: a meter that was  *)
(* logging when the tool came, one of whose records the dummy read may     *)
(* take for its answer, and storing the user's parameters, which asks for  *)
(* them and does not read them. And what -z prints last may be a record    *)
(* that was still on its way.                                              *)
WuAnswerOf(shown) == shown.kind = shown.op \/ (shown.op = "stop" /\ shown.kind = "data")
WuOwnAnswer ==
  wuUpset = {} /\ ~wuMeter.was /\ ("user" \notin wuOpt.set) => \A i \in 1..Len(wuShown) : WuAnswerOf(wuShown[i])

(* The tool ends with the meter told to stop its log, if it ever told it   *)
(* to start one and could write all it wanted to; and if it was logging    *)
(* before, unless the tool was not to read records or ended early with an  *)
(* error. It prints no more records than it was asked for, through any     *)
(* number of resets.                                                       *)
WuLeavesMeter ==
  /\ wuAt = "done" /\ "write" \notin wuUpset /\ (wuMeter.was => ~wuOpt.nodata /\ wuRc = "ok") =>
       IF wuMeter.reqs = <<>> THEN ~wuMeter.logging ELSE "start" \notin {Last(wuMeter.reqs)}
  /\ wuOpt.count > 0 => WuPrinted <= wuOpt.count
=============================================================================
