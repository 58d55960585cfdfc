----------------------------- MODULE LogRecord -----------------------------
(***************************************************************************)
(* One data-collection cycle, as cronlogger.pl runs it and as the loops of *)
(* dlogger.pl, duologger.pl and memrec.pl repeat it: every object of @objs *)
(* writes its keys into %data, then the keys are packed into log lines, in *)
(* whatever order the hash or the sort returns them.                       *)
(***************************************************************************)
EXTENDS Naturals, Sequences

CONSTANTS
  Keys,       \* the keys that modules write, tstamp not among them
  LineSz,     \* $linesz, the number of values per line
  NumObjs,    \* length of @objs
  LongAlone   \* FALSE for memrec.pl, which does not look at lengths

ASSUME SizeAssumption == LineSz \in Nat /\ NumObjs \in Nat
ASSUME LongAssumption == LongAlone \in BOOLEAN

VARIABLES
  pc,       \* "poll", "pack", "delete", "done"
  next,     \* index of the object to visit
  writes,   \* the keys each object writes
  long,     \* the keys whose value is longer than 40 characters
  data,     \* the keys of %data, then those the packing has still to visit
  line,     \* the keys in $txt; $n is its length
  out       \* the lines handed to write_log

vars == <<pc, next, writes, long, data, line, out>>

Objs == 1..NumObjs
isLong(k) == LongAlone /\ k \in long

Init ==
  /\ pc = "poll" /\ next = 1
  /\ writes \in [Objs -> SUBSET Keys] /\ long \in SUBSET Keys
  /\ data = {} /\ line = <<>> /\ out = <<>>

(* $o->getdata( \%data ): a key that was there is written over.            *)
Poll ==
  /\ pc = "poll" /\ next \in Objs
  /\ next' = next + 1
  /\ data' = data \cup writes[next]
  /\ UNCHANGED <<pc, writes, long, line, out>>

PollDone ==
  /\ pc = "poll" /\ next = NumObjs + 1 /\ pc' = "pack"
  /\ next' = 1
  /\ UNCHANGED <<writes, long, data, line, out>>
-----------------------------------------------------------------------------
(* Slip: the line in progress is dropped, not dumped, before a long value. *)
PackLongDrops(k) ==
  /\ pc = "pack" /\ k \in data /\ isLong(k)
  /\ data' = data \ {k}
  /\ out' = Append(out, <<k>>) /\ line' = <<>>
  /\ UNCHANGED <<pc, next, writes, long>>

(* A long value: dump the line in progress, then a line of its own.        *)
PackLong(k) ==
  /\ pc = "pack" /\ k \in data /\ isLong(k)
  /\ data' = data \ {k}
  /\ out' = IF line = <<>> THEN Append(out, <<k>>) ELSE Append(Append(out, line), <<k>>)
  /\ line' = <<>>
  /\ UNCHANGED <<pc, next, writes, long>>

(* Any other value joins the line; $n == $linesz dumps it.                 *)
PackShort(k) ==
  /\ pc = "pack" /\ k \in data /\ ~isLong(k)
  /\ data' = data \ {k}
  /\ IF Len(line) + 1 = LineSz
     THEN out' = Append(out, Append(line, k)) /\ line' = <<>>
     ELSE line' = Append(line, k) /\ UNCHANGED out
  /\ UNCHANGED <<pc, next, writes, long>>

PackDone ==
  /\ pc = "pack" /\ data = {} /\ pc' = "delete"
  /\ out' = IF line = <<>> THEN out ELSE Append(out, line)
  /\ line' = <<>>
  /\ UNCHANGED <<next, writes, long, data>>

Delete ==
  /\ pc = "delete" /\ next \in Objs
  /\ next' = next + 1
  /\ UNCHANGED <<pc, writes, long, data, line, out>>

Exit ==
  /\ pc = "delete" /\ next = NumObjs + 1 /\ pc' = "done"
  /\ UNCHANGED <<next, writes, long, data, line, out>>

Next ==
  \/ Poll \/ PollDone \/ PackDone \/ Delete \/ Exit
  \/ \E k \in Keys : PackLong(k) \/ PackShort(k)

Spec == Init /\ [][Next]_vars
-----------------------------------------------------------------------------
AllKeys == UNION {writes[o] : o \in Objs}

Within(l, k) == \E j \in 1..Len(l) : l[j] = k
InLine(k) == Within(line, k)
InOut(k) == \E i \in 1..Len(out) : Within(out[i], k)

(* Every variable keeps to its range.                                      *)
TypeOK ==
  /\ pc \in {"poll", "pack", "delete", "done"}
  /\ next \in 1..(NumObjs + 1)
  /\ writes \in [Objs -> SUBSET Keys] /\ long \in SUBSET Keys
  /\ data \in SUBSET Keys
  /\ line \in Seq(Keys) /\ out \in Seq(Seq(Keys))

(* No value is lost on the way from the modules to the log: a key that     *)
(* some object wrote is still to be packed, in the line in progress or in  *)
(* a line that was written; at the end it has been written.                *)
NothingLost ==
  /\ pc = "pack" => \A k \in AllKeys : k \in data \/ InLine(k) \/ InOut(k)
  /\ pc \in {"delete", "done"} => \A k \in AllKeys : InOut(k)

(* No value is written twice, not even when a long value or a full line    *)
(* dumps the line in progress.                                             *)
NothingTwice ==
  /\ \A i1, i2 \in 1..Len(out) : \A j1 \in 1..Len(out[i1]), j2 \in 1..Len(out[i2]) :
       out[i1][j1] = out[i2][j2] => i1 = i2 /\ j1 = j2
  /\ \A j1, j2 \in 1..Len(line) : line[j1] = line[j2] => j1 = j2
  /\ \A k \in Keys : ~(InLine(k) /\ InOut(k))
  /\ pc = "pack" => \A k \in data : ~InLine(k) /\ ~InOut(k)

GoodLine(l) ==
  /\ Len(l) > 0
  /\ LineSz > 0 => Len(l) <= LineSz
  /\ \A j \in 1..Len(l) : isLong(l[j]) => Len(l) = 1

(* Lines are never empty, hold at most $linesz values (0 means no limit),  *)
(* and a value longer than 40 characters has a line to itself.             *)
LineShape == \A i \in 1..Len(out) : GoodLine(out[i])

(* The log holds each value the modules wrote, once, in lines of the right *)
(* shape, whatever order the keys come in.                                 *)
LogExact == NothingLost /\ NothingTwice /\ LineShape
=============================================================================
