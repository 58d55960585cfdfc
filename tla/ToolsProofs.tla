---------------------------- MODULE ToolsProofs -----------------------------
(***************************************************************************)
(* Proofs about the C programs beside the recorder: the load generators    *)
(* free no memory a thread works on and, flushing, show no report of a     *)
(* record the file has not got (HogInv); turbostat prints differences of one CPU over one     *)
(* interval (TsInv); wattsup takes no answer for another's and leaves the  *)
(* meter alone (WuInv). And about the init scripts, for any commands and   *)
(* any number of launches: no order of commands, deaths and steps of the   *)
(* daemons makes two collectors log side by side unless a restart's SIGINT *)
(* was ignored, and no command leaves a timer without its collector        *)
(* (ScriptInv).                                                            *)
(***************************************************************************)
EXTENDS Tools, InitScript, FiniteSetTheorems, WellFoundedInduction, TLAPS

-----------------------------------------------------------------------------
(* Numbers and sequences.                                                  *)

LEMMA NatLeast ==
  ASSUME NEW S, S \subseteq Nat, S # {}
  PROVE  \E n \in S : \A m \in S : n <= m
<1>1. IsWellFoundedOn(OpToRel(<, Nat), Nat)
  BY NatLessThanWellFounded
<1>2. PICK n \in S : \A m \in S : ~(<<m, n>> \in OpToRel(<, Nat))
  BY <1>1, WFMin
<1>3. \A a, b \in Nat : a < b => <<a, b>> \in OpToRel(<, Nat)
  BY DEF OpToRel
<1>4. \A m \in S : ~(m < n)
  BY <1>2, <1>3, Zenon
<1> QED  BY <1>4

LEMMA ModUnique ==
  ASSUME NEW L \in Nat \ {0}, NEW q \in Int, NEW r \in 0..(L-1)
  PROVE  (q * L + r) % L = r
OBVIOUS

LEMMA DivMod ==
  ASSUME NEW L \in Nat \ {0}, NEW x \in Int
  PROVE  \E q \in Int, r \in 0..(L-1) : x = q * L + r /\ x % L = r
<1> DEFINE S == {n \in Nat : \E q \in Int : x = q * L + n}
<1>1. S # {}
  <2>1. CASE x >= 0
    <3>1. x = 0 * L + x /\ x \in Nat /\ 0 \in Int  BY <2>1
    <3>2. \E q \in Int : x = q * L + x  BY <3>1, Zenon
    <3> QED  BY <3>1, <3>2, Zenon
  <2>2. CASE x < 0
    <3> DEFINE y == x - x * L
    <3>1. y \in Nat /\ x = x * L + y  BY <2>2
    <3> HIDE DEF y
    <3>2. \E q \in Int : x = q * L + y  BY <3>1, Zenon
    <3> QED  BY <3>1, <3>2, Zenon
  <2>3. x >= 0 \/ x < 0  OBVIOUS
  <2> QED  BY <2>1, <2>2, <2>3, Zenon
<1>2. PICK n \in S : \A m \in S : n <= m
  <2> HIDE DEF S
  <2>1. S \subseteq Nat  BY DEF S
  <2> QED  BY <1>1, <2>1, NatLeast
<1>3. PICK q \in Int : x = q * L + n
  OBVIOUS
<1>4. n \in Nat
  OBVIOUS
<1>5. n < L
  <2> SUFFICES ASSUME n >= L PROVE FALSE  BY <1>4
  <2> DEFINE k == n - L
  <2>1. k \in Nat /\ q + 1 \in Int /\ x = (q + 1) * L + k /\ ~(n <= k)  BY <1>3, <1>4
  <2> HIDE DEF k
  <2>2. \E p \in Int : x = p * L + k  BY <2>1, Zenon
  <2>3. k \in S  BY <2>1, <2>2, Zenon
  <2> QED  BY <1>2, <2>1, <2>3, Zenon
<1>6. n \in 0..(L-1)
  BY <1>4, <1>5
<1>7. x % L = n
  BY <1>3, <1>6, ModUnique
<1> QED  BY <1>3, <1>6, <1>7, Zenon

LEMMA TailFacts ==
  ASSUME NEW S, NEW s \in Seq(S), s # <<>>
  PROVE  /\ Tail(s) \in Seq(S) /\ Len(s) \in Nat /\ Len(s) > 0 /\ Len(Tail(s)) = Len(s) - 1
         /\ Head(s) = s[1] /\ \A i \in 1..Len(Tail(s)) : Tail(s)[i] = s[i + 1]
OBVIOUS

LEMMA ConcatFacts ==
  ASSUME NEW S, NEW s \in Seq(S), NEW t \in Seq(S)
  PROVE  /\ s \o t \in Seq(S) /\ Len(s \o t) = Len(s) + Len(t)
         /\ \A i \in 1..Len(s) : (s \o t)[i] = s[i]
         /\ \A i \in 1..Len(t) : (s \o t)[Len(s) + i] = t[i]
OBVIOUS

LEMMA AppendFacts ==
  ASSUME NEW S, NEW s \in Seq(S), NEW x \in S
  PROVE  /\ Append(s, x) \in Seq(S) /\ Len(s) \in Nat /\ Len(Append(s, x)) = Len(s) + 1 /\ Append(s, x) # <<>>
         /\ (\A i \in 1..Len(s) : Append(s, x)[i] = s[i]) /\ Append(s, x)[Len(s) + 1] = x
OBVIOUS

LEMMA SubSeqFacts ==
  ASSUME NEW S, NEW s \in Seq(S), NEW m \in 1..(Len(s) + 1), NEW n \in 0..Len(s), m <= n + 1
  PROVE  /\ SubSeq(s, m, n) \in Seq(S) /\ Len(SubSeq(s, m, n)) = n - m + 1
         /\ \A i \in 1..(n - m + 1) : SubSeq(s, m, n)[i] = s[m + i - 1]
OBVIOUS

LEMMA ModDiff ==
  ASSUME NEW M \in Nat \ {0}, NEW b \in Int, NEW s \in Int, NEW t \in Int
  PROVE  (((b + s) % M) - ((b + t) % M)) % M = (s - t) % M
<1>1. b + s \in Int /\ b + t \in Int
  OBVIOUS
<1>2. PICK q1 \in Int, r1 \in 0..(M-1) : b + s = q1 * M + r1 /\ (b + s) % M = r1
  BY <1>1, DivMod
<1>3. PICK q2 \in Int, r2 \in 0..(M-1) : b + t = q2 * M + r2 /\ (b + t) % M = r2
  BY <1>1, DivMod
<1>4. r1 - r2 \in Int
  OBVIOUS
<1>5. PICK q \in Int, r \in 0..(M-1) : r1 - r2 = q * M + r /\ (r1 - r2) % M = r
  BY <1>4, DivMod
<1>6. s - t = (q1 - q2 + q) * M + r /\ q1 - q2 + q \in Int
  BY <1>2, <1>3, <1>5
<1>7. (s - t) % M = r
  BY <1>6, ModUnique
<1>8. ((b + s) % M) - ((b + t) % M) = r1 - r2
  BY <1>2, <1>3, Zenon
<1> QED  BY <1>5, <1>7, <1>8, Zenon

LEMMA FunSeq ==
  ASSUME NEW S, NEW n \in Nat, NEW f \in [1..n -> S]
  PROVE  f \in Seq(S) /\ Len(f) = n
OBVIOUS
-----------------------------------------------------------------------------
(* One program runs, and a step of it is a step of its own specification.  *)
LEMMA ToolMoves == [ToolNext]_toolVars => [WuNext]_wuVars /\ [TsNext]_tsVars /\ [HogNext]_hogVars
BY DEF ToolNext, toolVars, ToolStart, ToolIsWattsup, ToolIsTurbostat, ToolIsHog
-----------------------------------------------------------------------------
(* Load generators. The steps still to come are a part of a program from   *)
(* some point to its end, so what holds of every program, that a thread is *)
(* started on memory that is held and joined before that memory is freed,  *)
(* is kept as a statement about the steps still to come.                   *)

HogBuffers == {"buffer", "spike"}
HogMemSteps == {"malloc", "start", "stop", "join", "free", "fork", "wait"}
HogIoSteps == {"fopen", "fwrite", "fseek", "printf", "sync", "fflush_stdout", "fclose"}
HogPiSteps == {"thread", "reap"}

HogFiles == [buf : Nat, file : Nat, said : Nat, seen : Nat,
             over : BOOLEAN, sync : {"none", "fsync", "fflush"}, tty : BOOLEAN, bad : BOOLEAN]
HogSteps == [do : HogMemSteps \cup HogIoSteps \cup HogPiSteps, on : HogBuffers \cup {"none"} \cup Nat,
             flag : {"none", "flag", "flag2"}]

(* The programs' steps, by program.                                        *)
HogTyped ==
  /\ hogTodo \in Seq(HogSteps)
  /\ hogMem \in [HogBuffers -> {"none", "held", "freed"}]
  /\ hogFile \in HogFiles
  /\ \A i \in 1..Len(hogTodo) :
       /\ hogName = "calcpi" => hogTodo[i].do \in HogPiSteps
       /\ hogName = "iohog" => hogTodo[i].do \in HogIoSteps
       /\ hogName \notin {"calcpi", "iohog"} => hogTodo[i].do \in HogMemSteps
       /\ hogTodo[i].do \in {"malloc", "start", "free"} => hogTodo[i].on \in HogBuffers
  /\ hogAt = "new" => /\ hogName = "none" /\ hogWork = {} /\ hogOdd = {} /\ hogTodo = <<>>
                      /\ hogFile.buf = 0 /\ hogFile.file = 0 /\ hogFile.said = 0 /\ hogFile.seen = 0

(* A join of thread w comes before its memory is freed.                    *)
HogJoinAhead(todo, w, from) ==
  \E j \in from..Len(todo) :
    /\ todo[j].do = "join" /\ todo[j].on = w.on /\ todo[j].flag = w.flag
    /\ \A h \in 1..j : ~(todo[h].do = "free" /\ todo[h].on = w.on)
(* A thread is started on memory that is held by then.                     *)
HogStartsSafe(todo, mem) ==
  \A i \in 1..Len(todo) : todo[i].do = "start" =>
    /\ mem[todo[i].on] = "held" \/ \E h \in 1..(i-1) : todo[h].do = "malloc" /\ todo[h].on = todo[i].on
    /\ HogJoinAhead(todo, [on |-> todo[i].on, flag |-> todo[i].flag], i + 1)
HogWorkers ==
  hogName # "calcpi" =>
    /\ \A w \in hogWork : /\ w = [on |-> w.on, flag |-> w.flag] /\ w.on \in HogBuffers
                          /\ hogMem[w.on] = "held" /\ HogJoinAhead(hogTodo, w, 1)
    /\ \A b \in hogOdd : \E w \in hogWork : w.on = b
    /\ HogStartsSafe(hogTodo, hogMem)

(* calcpi reaps a thread HogThreads steps after it made it.                *)
HogReapAhead(todo) ==
  \A i \in 1..Len(todo) : todo[i].do = "thread" =>
    /\ HogThreads > 0 /\ i + HogThreads <= Len(todo)
    /\ todo[i + HogThreads].do = "reap" /\ todo[i + HogThreads].on = todo[i].on
HogReaped ==
  hogName = "calcpi" =>
    /\ hogOdd = {}
    /\ \A i \in 1..Len(hogTodo) : hogTodo[i].flag = "none"
    /\ \A w \in hogWork :
         /\ w = [on |-> w.on, flag |-> "none"]
         /\ \E i \in 1..(2 * HogThreads) : i <= Len(hogTodo) /\ hogTodo[i].do = "reap" /\ hogTodo[i].on = w.on
    /\ HogReapAhead(hogTodo)

(* iohog goes round the calls of its loop.                                 *)
HogAfter(todo, do, next) ==
  \A i \in 1..Len(todo) : todo[i].do = do => i < Len(todo) /\ todo[i + 1].do \in next
HogRound(todo) ==
  /\ HogAfter(todo, "fopen", {"fwrite", "fclose"}) /\ HogAfter(todo, "fwrite", {"fseek"})
  /\ HogAfter(todo, "fseek", {"printf"}) /\ HogAfter(todo, "printf", {"sync"})
  /\ HogAfter(todo, "sync", {"fflush_stdout"}) /\ HogAfter(todo, "fflush_stdout", {"fwrite", "fclose"})
  /\ \A i \in 1..Len(todo) : todo[i].do = "fclose" => i = Len(todo)
(* What has been written, reported and flushed before the call do.         *)
HogCounted(f, do) ==
  /\ do \in {"fopen", "fwrite", "fclose"} => f.said = f.buf /\ f.seen = f.said
  /\ do \in {"fseek", "printf"} => f.said + 1 = f.buf /\ f.seen = f.said
  /\ do \in {"sync", "fflush_stdout"} => f.said = f.buf /\ f.seen = (IF f.tty THEN f.said ELSE f.said - 1)
HogFlushed(f, do) ==
  ~f.bad =>
    /\ f.over => f.buf <= f.file + 1 /\ (do # "fseek" => f.file = f.buf)
    /\ f.sync = "fflush" => /\ f.buf <= f.file + 1
                            /\ do \in {"fopen", "fwrite", "fclose", "fflush_stdout"} => f.file = f.buf
HogClosed(f) == f.said = f.buf /\ f.seen = f.said /\ (~f.bad => f.file = f.buf)
HogFiled ==
  hogName = "iohog" =>
    /\ HogRound(hogTodo) /\ hogFile.file <= hogFile.buf
    /\ hogTodo # <<>> => HogCounted(hogFile, hogTodo[1].do) /\ HogFlushed(hogFile, hogTodo[1].do)
    /\ hogTodo = <<>> => HogClosed(hogFile)

HogInv == HogTyped /\ HogWorkers /\ HogReaped /\ HogFiled

LEMMA HogMemhogText ==
  /\ HogMemhog \in Seq(HogSteps) /\ HogMemhog0 \in Seq(HogSteps) /\ HogMemhogS \in Seq(HogSteps)
  /\ Len(HogMemhog) = 10 /\ Len(HogMemhog0) = 13 /\ Len(HogMemhogS) = 4
<1>1. \A do \in HogMemSteps, on \in HogBuffers \cup {"none"}, flag \in {"none", "flag", "flag2"} : HogDo(do, on, flag) \in HogSteps
  BY DEF HogDo, HogSteps, HogMemSteps, HogIoSteps, HogPiSteps, HogBuffers
<1>2. \A on \in HogBuffers : HogAlloc(on) \in HogSteps /\ HogFree(on) \in HogSteps
  BY <1>1 DEF HogAlloc, HogFree, HogMemSteps
<1>3. \A on \in HogBuffers, flag \in {"flag", "flag2"} :
        HogBegin(on, flag) \in HogSteps /\ HogTell(on, flag) \in HogSteps /\ HogAwait(on, flag) \in HogSteps
  BY <1>1 DEF HogBegin, HogTell, HogAwait, HogMemSteps
<1> QED  BY <1>2, <1>3 DEF HogMemhog, HogMemhog0, HogMemhogS, HogBuffers

LEMMA HogMemhogSteps ==
  ASSUME NEW i \in 1..10
  PROVE  \/ i = 1 /\ HogMemhog[i].do = "malloc" /\ HogMemhog[i].on = "buffer" /\ HogMemhog[i].flag = "none"
         \/ i = 2 /\ HogMemhog[i].do = "start" /\ HogMemhog[i].on = "buffer" /\ HogMemhog[i].flag = "flag"
         \/ i = 3 /\ HogMemhog[i].do = "malloc" /\ HogMemhog[i].on = "spike" /\ HogMemhog[i].flag = "none"
         \/ i = 4 /\ HogMemhog[i].do = "start" /\ HogMemhog[i].on = "spike" /\ HogMemhog[i].flag = "flag2"
         \/ i = 5 /\ HogMemhog[i].do = "stop" /\ HogMemhog[i].on = "spike" /\ HogMemhog[i].flag = "flag2"
         \/ i = 6 /\ HogMemhog[i].do = "join" /\ HogMemhog[i].on = "spike" /\ HogMemhog[i].flag = "flag2"
         \/ i = 7 /\ HogMemhog[i].do = "free" /\ HogMemhog[i].on = "spike" /\ HogMemhog[i].flag = "none"
         \/ i = 8 /\ HogMemhog[i].do = "stop" /\ HogMemhog[i].on = "buffer" /\ HogMemhog[i].flag = "flag"
         \/ i = 9 /\ HogMemhog[i].do = "join" /\ HogMemhog[i].on = "buffer" /\ HogMemhog[i].flag = "flag"
         \/ i = 10 /\ HogMemhog[i].do = "free" /\ HogMemhog[i].on = "buffer" /\ HogMemhog[i].flag = "none"
<1>1. CASE i = 1  BY <1>1 DEF HogMemhog, HogAlloc, HogDo
<1>2. CASE i = 2  BY <1>2 DEF HogMemhog, HogBegin, HogDo
<1>3. CASE i = 3  BY <1>3 DEF HogMemhog, HogAlloc, HogDo
<1>4. CASE i = 4  BY <1>4 DEF HogMemhog, HogBegin, HogDo
<1>5. CASE i = 5  BY <1>5 DEF HogMemhog, HogTell, HogDo
<1>6. CASE i = 6  BY <1>6 DEF HogMemhog, HogAwait, HogDo
<1>7. CASE i = 7  BY <1>7 DEF HogMemhog, HogFree, HogDo
<1>8. CASE i = 8  BY <1>8 DEF HogMemhog, HogTell, HogDo
<1>9. CASE i = 9  BY <1>9 DEF HogMemhog, HogAwait, HogDo
<1>10. CASE i = 10  BY <1>10 DEF HogMemhog, HogFree, HogDo
<1>0. i = 1 \/ i = 2 \/ i = 3 \/ i = 4 \/ i = 5 \/ i = 6 \/ i = 7 \/ i = 8 \/ i = 9 \/ i = 10
  OBVIOUS
<1> QED  BY <1>0, <1>1, <1>2, <1>3, <1>4, <1>5, <1>6, <1>7, <1>8, <1>9, <1>10, Zenon

LEMMA HogMemhog0Steps ==
  ASSUME NEW i \in 1..13
  PROVE  \/ i = 1 /\ HogMemhog0[i].do = "malloc" /\ HogMemhog0[i].on = "buffer" /\ HogMemhog0[i].flag = "none"
         \/ i = 2 /\ HogMemhog0[i].do = "start" /\ HogMemhog0[i].on = "buffer" /\ HogMemhog0[i].flag = "flag"
         \/ i = 3 /\ HogMemhog0[i].do = "stop" /\ HogMemhog0[i].on = "buffer" /\ HogMemhog0[i].flag = "flag"
         \/ i = 4 /\ HogMemhog0[i].do = "join" /\ HogMemhog0[i].on = "buffer" /\ HogMemhog0[i].flag = "flag"
         \/ i = 5 /\ HogMemhog0[i].do = "malloc" /\ HogMemhog0[i].on = "spike" /\ HogMemhog0[i].flag = "none"
         \/ i = 6 /\ HogMemhog0[i].do = "start" /\ HogMemhog0[i].on = "spike" /\ HogMemhog0[i].flag = "flag"
         \/ i = 7 /\ HogMemhog0[i].do = "stop" /\ HogMemhog0[i].on = "spike" /\ HogMemhog0[i].flag = "flag"
         \/ i = 8 /\ HogMemhog0[i].do = "join" /\ HogMemhog0[i].on = "spike" /\ HogMemhog0[i].flag = "flag"
         \/ i = 9 /\ HogMemhog0[i].do = "free" /\ HogMemhog0[i].on = "spike" /\ HogMemhog0[i].flag = "none"
         \/ i = 10 /\ HogMemhog0[i].do = "start" /\ HogMemhog0[i].on = "buffer" /\ HogMemhog0[i].flag = "flag"
         \/ i = 11 /\ HogMemhog0[i].do = "stop" /\ HogMemhog0[i].on = "buffer" /\ HogMemhog0[i].flag = "flag"
         \/ i = 12 /\ HogMemhog0[i].do = "join" /\ HogMemhog0[i].on = "buffer" /\ HogMemhog0[i].flag = "flag"
         \/ i = 13 /\ HogMemhog0[i].do = "free" /\ HogMemhog0[i].on = "buffer" /\ HogMemhog0[i].flag = "none"
<1>1. CASE i = 1  BY <1>1 DEF HogMemhog0, HogAlloc, HogDo
<1>2. CASE i = 2  BY <1>2 DEF HogMemhog0, HogBegin, HogDo
<1>3. CASE i = 3  BY <1>3 DEF HogMemhog0, HogTell, HogDo
<1>4. CASE i = 4  BY <1>4 DEF HogMemhog0, HogAwait, HogDo
<1>5. CASE i = 5  BY <1>5 DEF HogMemhog0, HogAlloc, HogDo
<1>6. CASE i = 6  BY <1>6 DEF HogMemhog0, HogBegin, HogDo
<1>7. CASE i = 7  BY <1>7 DEF HogMemhog0, HogTell, HogDo
<1>8. CASE i = 8  BY <1>8 DEF HogMemhog0, HogAwait, HogDo
<1>9. CASE i = 9  BY <1>9 DEF HogMemhog0, HogFree, HogDo
<1>10. CASE i = 10  BY <1>10 DEF HogMemhog0, HogBegin, HogDo
<1>11. CASE i = 11  BY <1>11 DEF HogMemhog0, HogTell, HogDo
<1>12. CASE i = 12  BY <1>12 DEF HogMemhog0, HogAwait, HogDo
<1>13. CASE i = 13  BY <1>13 DEF HogMemhog0, HogFree, HogDo
<1>0. i = 1 \/ i = 2 \/ i = 3 \/ i = 4 \/ i = 5 \/ i = 6 \/ i = 7 \/ i = 8 \/ i = 9 \/ i = 10 \/ i = 11 \/ i = 12 \/ i = 13
  OBVIOUS
<1> QED  BY <1>0, <1>1, <1>2, <1>3, <1>4, <1>5, <1>6, <1>7, <1>8, <1>9, <1>10, <1>11, <1>12, <1>13, Zenon

LEMMA HogMemhogSSteps ==
  ASSUME NEW i \in 1..4
  PROVE  \/ i = 1 /\ HogMemhogS[i].do = "malloc" /\ HogMemhogS[i].on = "buffer" /\ HogMemhogS[i].flag = "none"
         \/ i = 2 /\ HogMemhogS[i].do = "malloc" /\ HogMemhogS[i].on = "spike" /\ HogMemhogS[i].flag = "none"
         \/ i = 3 /\ HogMemhogS[i].do = "free" /\ HogMemhogS[i].on = "spike" /\ HogMemhogS[i].flag = "none"
         \/ i = 4 /\ HogMemhogS[i].do = "free" /\ HogMemhogS[i].on = "buffer" /\ HogMemhogS[i].flag = "none"
<1>1. CASE i = 1  BY <1>1 DEF HogMemhogS, HogAlloc, HogDo
<1>2. CASE i = 2  BY <1>2 DEF HogMemhogS, HogAlloc, HogDo
<1>3. CASE i = 3  BY <1>3 DEF HogMemhogS, HogFree, HogDo
<1>4. CASE i = 4  BY <1>4 DEF HogMemhogS, HogFree, HogDo
<1>0. i = 1 \/ i = 2 \/ i = 3 \/ i = 4
  OBVIOUS
<1> QED  BY <1>0, <1>1, <1>2, <1>3, <1>4, Zenon

LEMMA HogMemhogSafe ==
  ASSUME NEW mem
  PROVE  HogStartsSafe(HogMemhog, mem) /\ HogStartsSafe(HogMemhog0, mem) /\ HogStartsSafe(HogMemhogS, mem)
<1>1. HogStartsSafe(HogMemhog, mem)
  <2> SUFFICES ASSUME NEW i \in 1..10, HogMemhog[i].do = "start"
      PROVE  /\ \E h \in 1..(i-1) : HogMemhog[h].do = "malloc" /\ HogMemhog[h].on = HogMemhog[i].on
             /\ HogJoinAhead(HogMemhog, [on |-> HogMemhog[i].on, flag |-> HogMemhog[i].flag], i + 1)
    BY HogMemhogText DEF HogStartsSafe
  <2>1. i = 2 \/ i = 4
    BY HogMemhogSteps
  <2>2. CASE i = 2
    <3>1. HogMemhog[i].on = "buffer" /\ HogMemhog[i].flag = "flag"
      BY <2>2, HogMemhogSteps
    <3>2. \A k \in 1..10 : k = 1 => HogMemhog[k].do = "malloc" /\ HogMemhog[k].on = "buffer"
      BY HogMemhogSteps
    <3>3. \A k \in 1..10 : k = 9 => HogMemhog[k].do = "join" /\ HogMemhog[k].on = "buffer" /\ HogMemhog[k].flag = "flag"
      BY HogMemhogSteps
    <3>4. \A k \in 1..10 : k <= 9 => ~(HogMemhog[k].do = "free" /\ HogMemhog[k].on = "buffer")
      BY HogMemhogSteps
    <3>5. \E h \in 1..(i-1) : HogMemhog[h].do = "malloc" /\ HogMemhog[h].on = HogMemhog[i].on
      BY <2>2, <3>1, <3>2
    <3>6. HogJoinAhead(HogMemhog, [on |-> HogMemhog[i].on, flag |-> HogMemhog[i].flag], i + 1)
      BY <2>2, <3>1, <3>3, <3>4, HogMemhogText DEF HogJoinAhead
    <3> QED  BY <3>5, <3>6
  <2>3. CASE i = 4
    <3>1. HogMemhog[i].on = "spike" /\ HogMemhog[i].flag = "flag2"
      BY <2>3, HogMemhogSteps
    <3>2. \A k \in 1..10 : k = 3 => HogMemhog[k].do = "malloc" /\ HogMemhog[k].on = "spike"
      BY HogMemhogSteps
    <3>3. \A k \in 1..10 : k = 6 => HogMemhog[k].do = "join" /\ HogMemhog[k].on = "spike" /\ HogMemhog[k].flag = "flag2"
      BY HogMemhogSteps
    <3>4. \A k \in 1..10 : k <= 6 => ~(HogMemhog[k].do = "free" /\ HogMemhog[k].on = "spike")
      BY HogMemhogSteps
    <3>5. \E h \in 1..(i-1) : HogMemhog[h].do = "malloc" /\ HogMemhog[h].on = HogMemhog[i].on
      BY <2>3, <3>1, <3>2
    <3>6. HogJoinAhead(HogMemhog, [on |-> HogMemhog[i].on, flag |-> HogMemhog[i].flag], i + 1)
      BY <2>3, <3>1, <3>3, <3>4, HogMemhogText DEF HogJoinAhead
    <3> QED  BY <3>5, <3>6
  <2> QED  BY <2>1, <2>2, <2>3
<1>2. HogStartsSafe(HogMemhog0, mem)
  <2> SUFFICES ASSUME NEW i \in 1..13, HogMemhog0[i].do = "start"
      PROVE  /\ \E h \in 1..(i-1) : HogMemhog0[h].do = "malloc" /\ HogMemhog0[h].on = HogMemhog0[i].on
             /\ HogJoinAhead(HogMemhog0, [on |-> HogMemhog0[i].on, flag |-> HogMemhog0[i].flag], i + 1)
    BY HogMemhogText DEF HogStartsSafe
  <2>1. i = 2 \/ i = 6 \/ i = 10
    BY HogMemhog0Steps
  <2>2. CASE i = 2
    <3>1. HogMemhog0[i].on = "buffer" /\ HogMemhog0[i].flag = "flag"
      BY <2>2, HogMemhog0Steps
    <3>2. \A k \in 1..13 : k = 1 => HogMemhog0[k].do = "malloc" /\ HogMemhog0[k].on = "buffer"
      BY HogMemhog0Steps
    <3>3. \A k \in 1..13 : k = 4 => HogMemhog0[k].do = "join" /\ HogMemhog0[k].on = "buffer" /\ HogMemhog0[k].flag = "flag"
      BY HogMemhog0Steps
    <3>4. \A k \in 1..13 : k <= 4 => ~(HogMemhog0[k].do = "free" /\ HogMemhog0[k].on = "buffer")
      BY HogMemhog0Steps
    <3>5. \E h \in 1..(i-1) : HogMemhog0[h].do = "malloc" /\ HogMemhog0[h].on = HogMemhog0[i].on
      BY <2>2, <3>1, <3>2
    <3>6. HogJoinAhead(HogMemhog0, [on |-> HogMemhog0[i].on, flag |-> HogMemhog0[i].flag], i + 1)
      BY <2>2, <3>1, <3>3, <3>4, HogMemhogText DEF HogJoinAhead
    <3> QED  BY <3>5, <3>6
  <2>3. CASE i = 6
    <3>1. HogMemhog0[i].on = "spike" /\ HogMemhog0[i].flag = "flag"
      BY <2>3, HogMemhog0Steps
    <3>2. \A k \in 1..13 : k = 5 => HogMemhog0[k].do = "malloc" /\ HogMemhog0[k].on = "spike"
      BY HogMemhog0Steps
    <3>3. \A k \in 1..13 : k = 8 => HogMemhog0[k].do = "join" /\ HogMemhog0[k].on = "spike" /\ HogMemhog0[k].flag = "flag"
      BY HogMemhog0Steps
    <3>4. \A k \in 1..13 : k <= 8 => ~(HogMemhog0[k].do = "free" /\ HogMemhog0[k].on = "spike")
      BY HogMemhog0Steps
    <3>5. \E h \in 1..(i-1) : HogMemhog0[h].do = "malloc" /\ HogMemhog0[h].on = HogMemhog0[i].on
      BY <2>3, <3>1, <3>2
    <3>6. HogJoinAhead(HogMemhog0, [on |-> HogMemhog0[i].on, flag |-> HogMemhog0[i].flag], i + 1)
      BY <2>3, <3>1, <3>3, <3>4, HogMemhogText DEF HogJoinAhead
    <3> QED  BY <3>5, <3>6
  <2>4. CASE i = 10
    <3>1. HogMemhog0[i].on = "buffer" /\ HogMemhog0[i].flag = "flag"
      BY <2>4, HogMemhog0Steps
    <3>2. \A k \in 1..13 : k = 1 => HogMemhog0[k].do = "malloc" /\ HogMemhog0[k].on = "buffer"
      BY HogMemhog0Steps
    <3>3. \A k \in 1..13 : k = 12 => HogMemhog0[k].do = "join" /\ HogMemhog0[k].on = "buffer" /\ HogMemhog0[k].flag = "flag"
      BY HogMemhog0Steps
    <3>4. \A k \in 1..13 : k <= 12 => ~(HogMemhog0[k].do = "free" /\ HogMemhog0[k].on = "buffer")
      BY HogMemhog0Steps
    <3>5. \E h \in 1..(i-1) : HogMemhog0[h].do = "malloc" /\ HogMemhog0[h].on = HogMemhog0[i].on
      BY <2>4, <3>1, <3>2
    <3>6. HogJoinAhead(HogMemhog0, [on |-> HogMemhog0[i].on, flag |-> HogMemhog0[i].flag], i + 1)
      BY <2>4, <3>1, <3>3, <3>4, HogMemhogText DEF HogJoinAhead
    <3> QED  BY <3>5, <3>6
  <2> QED  BY <2>1, <2>2, <2>3, <2>4
<1>3. HogStartsSafe(HogMemhogS, mem)
  BY HogMemhogText, HogMemhogSSteps DEF HogStartsSafe
<1> QED  BY <1>1, <1>2, <1>3

LEMMA HogDoes ==
  \A do, on, flag : /\ HogDo(do, on, flag).do = do /\ HogDo(do, on, flag).on = on /\ HogDo(do, on, flag).flag = flag
                    /\ do \in HogMemSteps \cup HogIoSteps \cup HogPiSteps /\ on \in HogBuffers \cup {"none"} \cup Nat
                         /\ flag \in {"none", "flag", "flag2"} => HogDo(do, on, flag) \in HogSteps
BY DEF HogDo, HogSteps

LEMMA HogCalcpiText ==
  /\ HogCalcpi \in Seq(HogSteps) /\ HogReapAhead(HogCalcpi)
  /\ \A i \in 1..Len(HogCalcpi) : HogCalcpi[i].do \in HogPiSteps /\ HogCalcpi[i].flag = "none"
<1> DEFINE T == HogThreads
           each(do) == [t \in 1..T |-> HogDo(do, t, "none")]
           round == each("thread") \o each("reap")
           L == 2 * T
           N == HogRounds * L
<1>1. T \in Nat /\ HogRounds \in Nat /\ L \in Nat /\ N \in Nat
  BY HogNumbers
<1>2. \A do \in HogPiSteps : /\ each(do) \in Seq(HogSteps) /\ Len(each(do)) = T
                             /\ \A t \in 1..T : each(do)[t] = HogDo(do, t, "none")
  <2>1. \A do \in HogPiSteps : each(do) \in [1..T -> HogSteps]
    BY <1>1, HogDoes
  <2> QED  BY <1>1, <2>1, FunSeq
<1> HIDE DEF each
<1>3. /\ round \in Seq(HogSteps) /\ Len(round) = L
      /\ \A t \in 1..T : round[t] = HogDo("thread", t, "none") /\ round[T + t] = HogDo("reap", t, "none")
  <2>1. "thread" \in HogPiSteps /\ "reap" \in HogPiSteps
    BY DEF HogPiSteps
  <2> DEFINE a == each("thread")
             b == each("reap")
  <2>2. a \in Seq(HogSteps) /\ Len(a) = T /\ \A t \in 1..T : a[t] = HogDo("thread", t, "none")
    BY <1>2, <2>1
  <2>3. b \in Seq(HogSteps) /\ Len(b) = T /\ \A t \in 1..T : b[t] = HogDo("reap", t, "none")
    BY <1>2, <2>1
  <2>4. round = a \o b
    OBVIOUS
  <2> HIDE DEF a, b, round
  <2>5. /\ round \in Seq(HogSteps) /\ Len(round) = T + T
        /\ \A t \in 1..T : round[t] = a[t] /\ round[T + t] = b[t]
    <3>1. /\ a \o b \in Seq(HogSteps) /\ Len(a \o b) = Len(a) + Len(b)
          /\ \A i \in 1..Len(a) : (a \o b)[i] = a[i]
          /\ \A i \in 1..Len(b) : (a \o b)[Len(a) + i] = b[i]
      <4>1. a \in Seq(HogSteps) /\ b \in Seq(HogSteps)
        BY <2>2, <2>3
      <4> QED  BY <4>1, ConcatFacts
    <3>2. /\ round \in Seq(HogSteps) /\ Len(round) = T + T
          /\ \A i \in 1..T : round[i] = a[i]
          /\ \A i \in 1..T : round[T + i] = b[i]
      BY <2>2, <2>3, <2>4, <3>1, Zenon
    <3> QED  BY <3>2, Zenon
  <2>6. T + T = L
    BY <1>1
  <2> QED  BY <2>2, <2>3, <2>5, <2>6
<1>4. HogCalcpi = [i \in 1..N |-> round[((i - 1) % L) + 1]]
  <2>1. HogCalcpi = [i \in 1..(HogRounds * Len(round)) |-> round[((i - 1) % Len(round)) + 1]]
    BY Zenon DEF HogCalcpi, each
  <2> QED  BY <1>3, <2>1
<1> HIDE DEF round
<1>5. CASE T = 0
  <2>1. N = 0
    BY <1>1, <1>5
  <2>2. HogCalcpi \in [1..0 -> HogSteps]
    BY <1>4, <2>1
  <2> QED  BY <2>2, FunSeq DEF HogReapAhead
<1>6. CASE T # 0
  <2> HIDE DEF N
  <2>1. \A i \in 1..N : ((i - 1) % L) + 1 \in 1..L /\ HogCalcpi[i] = round[((i - 1) % L) + 1]
    BY <1>1, <1>4, <1>6
  <2>2. HogCalcpi \in [1..N -> HogSteps]
    BY <1>3, <1>4, <2>1
  <2>3. HogCalcpi \in Seq(HogSteps) /\ Len(HogCalcpi) = N
    BY <1>1, <2>2, FunSeq
  <2>4. \A k \in 1..L : round[k].do \in HogPiSteps /\ round[k].flag = "none" /\ (round[k].do = "thread" => k \in 1..T)
    <3> SUFFICES ASSUME NEW k \in 1..L
                 PROVE  round[k].do \in HogPiSteps /\ round[k].flag = "none" /\ (round[k].do = "thread" => k \in 1..T)
      OBVIOUS
    <3>1. CASE k <= T
      BY <1>1, <1>3, <3>1, HogDoes DEF HogPiSteps
    <3>2. CASE k > T
      <4>1. k - T \in 1..T /\ k = T + (k - T)
        BY <1>1, <3>2
      <4>2. round[k] = HogDo("reap", k - T, "none")
        BY <1>3, <4>1
      <4> QED  BY <4>2, HogDoes DEF HogPiSteps
    <3> QED  BY <1>1, <3>1, <3>2
  <2>5. HogReapAhead(HogCalcpi)
    <3> SUFFICES ASSUME NEW i \in 1..N, HogCalcpi[i].do = "thread"
                 PROVE  /\ T > 0 /\ i + T <= N
                        /\ HogCalcpi[i + T].do = "reap" /\ HogCalcpi[i + T].on = HogCalcpi[i].on
      BY <2>3 DEF HogReapAhead
    <3>1. PICK q \in Int, r \in 0..(L-1) : i - 1 = q * L + r /\ (i - 1) % L = r
      <4>1. L \in Nat \ {0} /\ i - 1 \in Int
        BY <1>1, <1>6
      <4> HIDE DEF L
      <4> QED  BY <4>1, DivMod
    <3>2. r + 1 \in 1..T /\ HogCalcpi[i] = round[r + 1]
      BY <2>1, <2>4, <3>1
    <3>3. q < HogRounds
      <4> SUFFICES ASSUME q >= HogRounds PROVE FALSE
        BY <1>1, <3>1
      <4>1. q * L >= HogRounds * L
        BY <1>1, <3>1
      <4> QED  BY <1>1, <3>1, <4>1 DEF N
    <3>4. i + T <= N
      <4>1. (q + 1) * L <= HogRounds * L
        BY <1>1, <3>1, <3>3
      <4>2. (q + 1) * L = q * L + L
        BY <1>1, <3>1
      <4> QED  BY <1>1, <3>1, <3>2, <4>1, <4>2 DEF N
    <3>5. PICK k \in 1..N : k = i + T
      BY <1>1, <3>4
    <3>6. (k - 1) % L = r + T
      <4>1. r + T \in 0..(L-1) /\ L \in Nat \ {0}
        BY <1>1, <1>6, <3>1, <3>2
      <4> HIDE DEF L
      <4>2. q * L \in Int
        BY <3>1, <4>1
      <4>3. k - 1 = q * L + (r + T)
        <5> DEFINE m == q * L
        <5>1. m \in Int /\ i - 1 = m + r
          BY <3>1, <4>2
        <5> HIDE DEF m
        <5>2. k - 1 = m + (r + T)
          BY <1>1, <3>1, <3>5, <5>1
        <5> QED  BY <5>2 DEF m
      <4> QED  BY <3>1, <4>1, <4>3, ModUnique
    <3>7. HogCalcpi[k] = round[T + (r + 1)]
      BY <1>1, <2>1, <3>1, <3>6
    <3> QED  BY <1>1, <1>3, <1>6, <3>2, <3>4, <3>5, <3>7, HogDoes
  <2> QED  BY <2>1, <2>3, <2>4, <2>5
<1> QED  BY <1>5, <1>6

LEMMA HogIohogText ==
  /\ HogIohog \in Seq(HogSteps) /\ HogRound(HogIohog) /\ HogIohog # <<>> /\ HogIohog[1].do = "fopen"
  /\ \A i \in 1..Len(HogIohog) : HogIohog[i].do \in HogIoSteps
<1> DEFINE N == HogRecords * 5
           rec == [i \in 1..N |-> HogDo(HogRecord[((i - 1) % 5) + 1], "none", "none")]
           open == <<HogDo("fopen", "none", "none")>>
           close == <<HogDo("fclose", "none", "none")>>
<1>1. N \in Nat
  BY HogNumbers
<1>2. \A i \in 1..N : /\ i % 5 = 1 => HogRecord[((i - 1) % 5) + 1] = "fwrite"
                      /\ i % 5 = 2 => HogRecord[((i - 1) % 5) + 1] = "fseek"
                      /\ i % 5 = 3 => HogRecord[((i - 1) % 5) + 1] = "printf"
                      /\ i % 5 = 4 => HogRecord[((i - 1) % 5) + 1] = "sync"
                      /\ i % 5 = 0 => HogRecord[((i - 1) % 5) + 1] = "fflush_stdout"
                      /\ i % 5 \in 0..4
  BY <1>1 DEF HogRecord
<1>3. rec \in [1..N -> HogSteps] /\ \A i \in 1..N : rec[i].do = HogRecord[((i - 1) % 5) + 1]
  BY <1>2, HogDoes DEF HogIoSteps
<1>4. rec \in Seq(HogSteps) /\ Len(rec) = N
  BY <1>1, <1>3, FunSeq
<1>5. /\ open \in Seq(HogSteps) /\ Len(open) = 1 /\ open[1].do = "fopen"
      /\ close \in Seq(HogSteps) /\ Len(close) = 1 /\ close[1].do = "fclose"
  BY HogDoes DEF HogIoSteps
<1>6. HogIohog = (open \o rec) \o close
  BY DEF HogIohog
<1>7. /\ HogIohog \in Seq(HogSteps) /\ Len(HogIohog) = N + 2 /\ HogIohog[1].do = "fopen"
      /\ \A i \in 1..N : HogIohog[i + 1].do = HogRecord[((i - 1) % 5) + 1]
      /\ HogIohog[N + 2].do = "fclose"
  <2> DEFINE most == open \o rec
  <2> HIDE DEF rec, open, close, N
  <2>1. /\ most \in Seq(HogSteps) /\ Len(most) = N + 1 /\ most[1] = open[1]
        /\ \A i \in 1..N : most[1 + i] = rec[i]
    <3>1. /\ most \in Seq(HogSteps) /\ Len(most) = Len(open) + Len(rec)
          /\ \A i \in 1..Len(open) : most[i] = open[i]
          /\ \A i \in 1..Len(rec) : most[Len(open) + i] = rec[i]
      BY <1>4, <1>5, ConcatFacts
    <3> HIDE DEF most
    <3>2. 1 \in 1..1 /\ 1 + N = N + 1
      BY <1>1
    <3> QED  BY <1>4, <1>5, <3>1, <3>2
  <2> HIDE DEF most
  <2>0. /\ HogIohog \in Seq(HogSteps) /\ Len(HogIohog) = Len(most) + Len(close)
        /\ \A i \in 1..Len(most) : HogIohog[i] = most[i]
        /\ \A i \in 1..Len(close) : HogIohog[Len(most) + i] = close[i]
    <3>1. HogIohog = most \o close
      BY <1>6 DEF most
    <3>2. most \in Seq(HogSteps) /\ close \in Seq(HogSteps)
      BY <1>5, <2>1
    <3>3. /\ most \o close \in Seq(HogSteps) /\ Len(most \o close) = Len(most) + Len(close)
          /\ \A i \in 1..Len(most) : (most \o close)[i] = most[i]
          /\ \A i \in 1..Len(close) : (most \o close)[Len(most) + i] = close[i]
      BY <3>2, ConcatFacts
    <3> QED  BY <3>1, <3>3, Zenon
  <2>2. HogIohog \in Seq(HogSteps) /\ Len(HogIohog) = N + 2
    BY <1>1, <1>5, <2>0, <2>1
  <2>3. \A i \in 1..(N + 1) : HogIohog[i] = most[i]
    BY <2>0, <2>1
  <2>4. HogIohog[(N + 1) + 1] = close[1]
    <3>1. 1 \in 1..1
      OBVIOUS
    <3> QED  BY <1>5, <2>0, <2>1, <3>1
  <2>5. \A i \in 1..N : i + 1 \in 1..(N + 1) /\ i + 1 = 1 + i
    BY <1>1
  <2>6. 1 \in 1..(N + 1) /\ (N + 1) + 1 = N + 2
    BY <1>1
  <2> QED  BY <1>3, <1>5, <2>1, <2>2, <2>3, <2>4, <2>5, <2>6
<1> HIDE DEF rec
<1>8. \A i \in 1..N : /\ i % 5 = 1 => HogIohog[i + 1].do = "fwrite"
                      /\ i % 5 = 2 => HogIohog[i + 1].do = "fseek"
                      /\ i % 5 = 3 => HogIohog[i + 1].do = "printf"
                      /\ i % 5 = 4 => HogIohog[i + 1].do = "sync"
                      /\ i % 5 = 0 => HogIohog[i + 1].do = "fflush_stdout"
                      /\ i % 5 \in 0..4
  BY <1>2, <1>7
<1>9. N % 5 = 0
  BY HogNumbers
<1>10. N = 0 \/ HogIohog[2].do = "fwrite"
  <2>1. CASE N > 0
    <3>1. 1 \in 1..N /\ 1 % 5 = 1 /\ 1 + 1 = 2
      BY <1>1, <2>1
    <3> QED  BY <1>8, <3>1
  <2> QED  BY <1>1, <2>1
<1>11. HogRound(HogIohog)
  <2> SUFFICES ASSUME NEW i \in 1..(N + 2)
      PROVE  /\ HogIohog[i].do = "fopen" => i < N + 2 /\ HogIohog[i + 1].do \in {"fwrite", "fclose"}
             /\ HogIohog[i].do = "fwrite" => i < N + 2 /\ HogIohog[i + 1].do = "fseek"
             /\ HogIohog[i].do = "fseek" => i < N + 2 /\ HogIohog[i + 1].do = "printf"
             /\ HogIohog[i].do = "printf" => i < N + 2 /\ HogIohog[i + 1].do = "sync"
             /\ HogIohog[i].do = "sync" => i < N + 2 /\ HogIohog[i + 1].do = "fflush_stdout"
             /\ HogIohog[i].do = "fflush_stdout" => i < N + 2 /\ HogIohog[i + 1].do \in {"fwrite", "fclose"}
             /\ HogIohog[i].do = "fclose" => i = N + 2
    BY <1>7 DEF HogRound, HogAfter
  <2>1. CASE i = N + 2
    BY <1>7, <2>1
  <2>2. CASE i = 1
    BY <1>1, <1>7, <1>10, <2>2
  <2>3. CASE i = N + 1 /\ N > 0
    <3>1. N \in 1..N
      BY <1>1, <2>3
    <3>2. HogIohog[N + 1].do = "fflush_stdout"
      BY <1>8, <1>9, <3>1
    <3> QED  BY <1>1, <1>7, <2>3, <3>2
  <2>4. CASE i > 1 /\ i < N + 1
    <3>1. PICK k \in 1..N : i = k + 1 /\ k + 1 \in 1..N
      BY <1>1, <2>4
    <3>2. /\ k % 5 = 0 => (k + 1) % 5 = 1
          /\ k % 5 = 1 => (k + 1) % 5 = 2
          /\ k % 5 = 2 => (k + 1) % 5 = 3
          /\ k % 5 = 3 => (k + 1) % 5 = 4
          /\ k % 5 = 4 => (k + 1) % 5 = 0
      BY <3>1
    <3> HIDE DEF N
    <3> QED  BY <1>1, <1>8, <2>4, <3>1, <3>2
  <2> QED  BY <1>1, <2>1, <2>2, <2>3, <2>4
<1>12. \A i \in 1..Len(HogIohog) : HogIohog[i].do \in HogIoSteps
  <2> SUFFICES ASSUME NEW i \in 1..(N + 2) PROVE HogIohog[i].do \in HogIoSteps
    BY <1>7
  <2>1. CASE i = 1 \/ i = N + 2
    BY <1>7, <2>1 DEF HogIoSteps
  <2>2. CASE i > 1 /\ i < N + 2
    <3>1. PICK k \in 1..N : i = k + 1
      BY <1>1, <2>2
    <3> HIDE DEF N
    <3> QED  BY <1>8, <3>1 DEF HogIoSteps
  <2> QED  BY <1>1, <2>1, <2>2
<1> QED  BY <1>1, <1>7, <1>11, <1>12

LEMMA HogMemhogFText ==
  /\ HogMemhogF \in Seq(HogSteps)
  /\ \A i \in 1..Len(HogMemhogF) : /\ HogMemhogF[i].do \in {"fork", "malloc", "free", "wait"}
                                   /\ HogMemhogF[i].do \in {"malloc", "free"} => HogMemhogF[i].on \in HogBuffers
<1> DEFINE forks == [i \in 1..HogForks |-> HogDo("fork", "none", "none")]
           wait == <<HogDo("wait", "none", "none")>>
           P == {x \in HogSteps : x.do \in {"fork", "malloc", "free", "wait"} /\ (x.do \in {"malloc", "free"} => x.on \in HogBuffers)}
<1>1. forks \in Seq(P)
  <2>1. HogForks \in Nat
    BY HogNumbers
  <2>2. HogDo("fork", "none", "none") \in P
    BY HogDoes DEF HogMemSteps
  <2>3. forks \in [1..HogForks -> P]
    BY <2>2
  <2> QED  BY <2>1, <2>3, FunSeq
<1>2. wait \in Seq(P)
  <2>1. HogDo("wait", "none", "none") \in P
    BY HogDoes DEF HogMemSteps
  <2> QED  BY <2>1
<1>3. HogMemhogS \in Seq(P)
  <2>1. \A i \in 1..4 : /\ HogMemhogS[i].do \in {"malloc", "free"} /\ HogMemhogS[i].on \in HogBuffers
    BY HogMemhogSSteps DEF HogBuffers
  <2>2. \A i \in 1..Len(HogMemhogS) : HogMemhogS[i] \in HogSteps
    <3>1. \A q \in Seq(HogSteps) : \A i \in 1..Len(q) : q[i] \in HogSteps
      OBVIOUS
    <3>2. HogMemhogS \in Seq(HogSteps)
      BY HogMemhogText
    <3> QED  BY <3>1, <3>2, Zenon
  <2>3. \A i \in 1..Len(HogMemhogS) : HogMemhogS[i] \in P
    BY <2>1, <2>2, HogMemhogText
  <2>4. \A Q : \A q \in Seq(HogSteps) : (\A i \in 1..Len(q) : q[i] \in Q) => q \in Seq(Q)
    OBVIOUS
  <2> HIDE DEF P
  <2> QED  BY <2>3, <2>4, HogMemhogText
<1>4. HogMemhogF = (forks \o HogMemhogS) \o wait
  BY DEF HogMemhogF
<1>5. HogMemhogF \in Seq(P)
  <2> HIDE DEF forks, wait, P
  <2> QED  BY <1>1, <1>2, <1>3, <1>4, ConcatFacts
<1>6. Seq(P) \subseteq Seq(HogSteps) /\ \A i \in 1..Len(HogMemhogF) : HogMemhogF[i] \in P
  <2> HIDE DEF P
  <2>1. P \subseteq HogSteps
    BY DEF P
  <2> QED  BY <1>5, <2>1
<1> QED  BY <1>5, <1>6

LEMMA HogJoinMoves ==
  ASSUME NEW t \in Seq(HogSteps), t # <<>>, NEW w, NEW from \in Nat \ {0}, HogJoinAhead(t, w, from),
         from > 1 \/ ~(t[1].do = "join" /\ t[1].on = w.on /\ t[1].flag = w.flag)
  PROVE  /\ HogJoinAhead(Tail(t), w, IF from > 1 THEN from - 1 ELSE 1)
         /\ ~(t[1].do = "free" /\ t[1].on = w.on)
<1>1. PICK j \in from..Len(t) :
        /\ t[j].do = "join" /\ t[j].on = w.on /\ t[j].flag = w.flag
        /\ \A h \in 1..j : ~(t[h].do = "free" /\ t[h].on = w.on)
  BY DEF HogJoinAhead
<1>2. j > 1 /\ 1 \in 1..j
  BY <1>1
<1>3. PICK k \in 1..Len(Tail(t)) : k = j - 1
  BY <1>1, <1>2, TailFacts
<1>4. Tail(t)[k] = t[j] /\ \A h \in 1..k : Tail(t)[h] = t[h + 1] /\ h + 1 \in 1..j
  BY <1>3, <1>2, TailFacts
<1>5. k \in (IF from > 1 THEN from - 1 ELSE 1)..Len(Tail(t))
  BY <1>1, <1>2, <1>3, TailFacts
<1> QED  BY <1>1, <1>2, <1>4, <1>5 DEF HogJoinAhead

LEMMA HogStartsMove ==
  ASSUME NEW t \in Seq(HogSteps), t # <<>>, NEW mem, NEW mem2, HogStartsSafe(t, mem),
         \A b : mem[b] = "held" /\ ~(t[1].do = "free" /\ t[1].on = b) => mem2[b] = "held",
         t[1].do = "malloc" => mem2[t[1].on] = "held"
  PROVE  HogStartsSafe(Tail(t), mem2)
<1> DEFINE u == Tail(t)
<1>1. /\ Len(t) \in Nat /\ Len(u) = Len(t) - 1 /\ \A i \in 1..Len(u) : u[i] = t[i + 1]
  BY TailFacts
<1> HIDE DEF u
<1> SUFFICES ASSUME NEW i \in 1..Len(u), u[i].do = "start"
             PROVE  /\ mem2[u[i].on] = "held" \/ \E h \in 1..(i-1) : u[h].do = "malloc" /\ u[h].on = u[i].on
                    /\ HogJoinAhead(u, [on |-> u[i].on, flag |-> u[i].flag], i + 1)
  BY DEF HogStartsSafe, u
<1>2. PICK k \in 1..Len(t) : k = i + 1
  BY <1>1
<1>3. t[k] = u[i]
  BY <1>1, <1>2
<1>4. /\ mem[t[k].on] = "held" \/ \E h \in 1..(k-1) : t[h].do = "malloc" /\ t[h].on = t[k].on
      /\ HogJoinAhead(t, [on |-> t[k].on, flag |-> t[k].flag], k + 1)
  BY <1>3 DEF HogStartsSafe
<1>5. k + 1 \in Nat \ {0} /\ k + 1 > 1 /\ k + 1 - 1 = i + 1
  BY <1>2
<1>6. /\ HogJoinAhead(u, [on |-> t[k].on, flag |-> t[k].flag], i + 1)
      /\ ~(t[1].do = "free" /\ t[1].on = t[k].on)
  BY <1>4, <1>5, HogJoinMoves DEF u
<1>7. CASE mem[t[k].on] = "held"
  BY <1>3, <1>6, <1>7
<1>8. CASE \E h \in 1..(k-1) : t[h].do = "malloc" /\ t[h].on = t[k].on
  <2>1. PICK h \in 1..(k-1) : t[h].do = "malloc" /\ t[h].on = t[k].on
    BY <1>8
  <2>2. CASE h = 1
    BY <1>3, <1>6, <2>1, <2>2
  <2>3. CASE h > 1
    <3>0. h - 1 \in 1..(i-1) /\ h = (h - 1) + 1
      BY <1>1, <1>2, <2>1, <2>3
    <3>1. PICK g \in 1..(i-1) : h = g + 1
      BY <3>0
    <3>2. u[g] = t[h]
      BY <1>1, <3>1
    <3> QED  BY <1>3, <1>6, <2>1, <3>2
  <2> QED  BY <2>2, <2>3
<1> QED  BY <1>4, <1>7, <1>8

(* What a step of main that only moves on leaves.                          *)
LEMMA HogTypedMoves ==
  ASSUME HogTyped, hogTodo # <<>>, hogAt = "run", HogNextStep,
         hogMem' \in [HogBuffers -> {"none", "held", "freed"}],
         hogFile' \in HogFiles
  PROVE  HogTyped'
<1>1. hogTodo' = Tail(hogTodo) /\ hogName' = hogName /\ hogAt' = "run" /\ hogTodo \in Seq(HogSteps)
  BY DEF HogNextStep, HogTyped
<1>2. /\ hogTodo' \in Seq(HogSteps) /\ Len(hogTodo') = Len(hogTodo) - 1 /\ Len(hogTodo) \in Nat
      /\ \A i \in 1..Len(hogTodo') : hogTodo'[i] = hogTodo[i + 1] /\ i + 1 \in 1..Len(hogTodo)
  BY <1>1, TailFacts
<1> QED  BY <1>1, <1>2 DEF HogTyped

LEMMA HogWorkersMove ==
  ASSUME HogTyped, HogWorkers, hogName # "calcpi", hogTodo # <<>>, HogNextStep, hogOdd' = hogOdd, hogWork \subseteq hogWork',
         \A b : hogMem[b] = "held" /\ ~(hogTodo[1].do = "free" /\ hogTodo[1].on = b) => hogMem'[b] = "held",
         hogTodo[1].do = "malloc" => hogMem'[hogTodo[1].on] = "held",
         hogTodo[1].do = "join" => [on |-> hogTodo[1].on, flag |-> hogTodo[1].flag] \notin hogWork,
         \A w \in hogWork' : w \notin hogWork =>
           hogTodo[1].do = "start" /\ w = [on |-> hogTodo[1].on, flag |-> hogTodo[1].flag]
  PROVE  HogWorkers'
<1>1. hogTodo' = Tail(hogTodo) /\ hogName' = hogName /\ hogTodo \in Seq(HogSteps) /\ 1 \in 1..Len(hogTodo)
  BY TailFacts DEF HogNextStep, HogTyped
<1>2. HogStartsSafe(hogTodo', hogMem')
  BY <1>1, HogStartsMove DEF HogWorkers
<1>3. ASSUME NEW w \in hogWork
      PROVE  hogMem'[w.on] = "held" /\ HogJoinAhead(hogTodo', w, 1)
  <2>1. w = [on |-> w.on, flag |-> w.flag] /\ hogMem[w.on] = "held" /\ HogJoinAhead(hogTodo, w, 1)
    BY DEF HogWorkers
  <2>2. ~(hogTodo[1].do = "join" /\ hogTodo[1].on = w.on /\ hogTodo[1].flag = w.flag)
    BY <2>1
  <2>3. HogJoinAhead(Tail(hogTodo), w, 1) /\ ~(hogTodo[1].do = "free" /\ hogTodo[1].on = w.on)
    BY <1>1, <2>1, <2>2, HogJoinMoves
  <2> QED  BY <1>1, <2>1, <2>3
<1>4. ASSUME NEW w \in hogWork', w \notin hogWork
      PROVE  /\ w = [on |-> w.on, flag |-> w.flag] /\ w.on \in HogBuffers
             /\ hogMem'[w.on] = "held" /\ HogJoinAhead(hogTodo', w, 1)
  <2>1. hogTodo[1].do = "start" /\ w = [on |-> hogTodo[1].on, flag |-> hogTodo[1].flag]
    BY <1>4
  <2>2. hogMem[w.on] = "held" /\ HogJoinAhead(hogTodo, w, 2)
    <3>1. ~(\E h \in 1..(1-1) : TRUE) /\ 1 + 1 = 2
      OBVIOUS
    <3> QED  BY <1>1, <2>1, <3>1 DEF HogWorkers, HogStartsSafe
  <2>3. HogJoinAhead(Tail(hogTodo), w, 1)
    BY <1>1, <2>2, HogJoinMoves
  <2>4. w.on \in HogBuffers
    BY <1>1, <2>1 DEF HogTyped
  <2> QED  BY <1>1, <2>1, <2>2, <2>3, <2>4
<1>5. \A b \in hogOdd' : \E w \in hogWork' : w.on = b
  BY DEF HogWorkers
<1>6. \A w \in hogWork : w = [on |-> w.on, flag |-> w.flag] /\ w.on \in HogBuffers
  BY DEF HogWorkers
<1>7. \A w \in hogWork' : /\ w = [on |-> w.on, flag |-> w.flag] /\ w.on \in HogBuffers
                          /\ hogMem'[w.on] = "held" /\ HogJoinAhead(hogTodo', w, 1)
  BY <1>3, <1>4, <1>6
<1> QED  BY <1>2, <1>5, <1>7 DEF HogWorkers

LEMMA HogReapedMoves ==
  ASSUME HogTyped, HogReaped, hogName = "calcpi", hogTodo # <<>>, hogAt = "run", HogNextStep, hogOdd' = hogOdd,
         hogTodo[1].do = "reap" => [on |-> hogTodo[1].on, flag |-> hogTodo[1].flag] \notin hogWork,
         \A w \in hogWork' : w \notin hogWork =>
           hogTodo[1].do = "thread" /\ w = [on |-> hogTodo[1].on, flag |-> hogTodo[1].flag]
  PROVE  HogReaped'
<1>1. /\ hogTodo' = Tail(hogTodo) /\ hogName' = hogName /\ hogAt' = "run" /\ hogTodo \in Seq(HogSteps)
      /\ 1 \in 1..Len(hogTodo) /\ HogThreads \in Nat
  BY TailFacts, HogNumbers DEF HogNextStep, HogTyped
<1>2. /\ Len(hogTodo') = Len(hogTodo) - 1 /\ Len(hogTodo) \in Nat
      /\ \A i \in 1..Len(hogTodo') : hogTodo'[i] = hogTodo[i + 1] /\ i + 1 \in 1..Len(hogTodo)
  BY <1>1, TailFacts
<1>3. HogReapAhead(hogTodo')
  <2> SUFFICES ASSUME NEW i \in 1..Len(hogTodo'), hogTodo'[i].do = "thread"
      PROVE  /\ HogThreads > 0 /\ i + HogThreads <= Len(hogTodo')
             /\ hogTodo'[i + HogThreads].do = "reap" /\ hogTodo'[i + HogThreads].on = hogTodo'[i].on
    BY DEF HogReapAhead
  <2>1. PICK k \in 1..Len(hogTodo) : k = i + 1 /\ hogTodo[k] = hogTodo'[i]
    BY <1>2
  <2>2. /\ HogThreads > 0 /\ k + HogThreads <= Len(hogTodo)
        /\ hogTodo[k + HogThreads].do = "reap" /\ hogTodo[k + HogThreads].on = hogTodo[k].on
    BY <2>1 DEF HogReaped, HogReapAhead
  <2>3. PICK m \in 1..Len(hogTodo') : m = i + HogThreads
    BY <1>1, <1>2, <2>1, <2>2
  <2>4. hogTodo'[m] = hogTodo[k + HogThreads]
    BY <1>1, <1>2, <2>1, <2>3
  <2> QED  BY <2>1, <2>2, <2>3, <2>4
<1>4. ASSUME NEW w \in hogWork'
      PROVE  /\ w = [on |-> w.on, flag |-> "none"]
             /\ \E i \in 1..(2 * HogThreads) : i <= Len(hogTodo') /\ hogTodo'[i].do = "reap" /\ hogTodo'[i].on = w.on
  <2>1. CASE w \in hogWork
    <3>1. PICK i \in 1..(2 * HogThreads) : i <= Len(hogTodo) /\ hogTodo[i].do = "reap" /\ hogTodo[i].on = w.on
      BY <2>1 DEF HogReaped
    <3>2. w = [on |-> w.on, flag |-> "none"] /\ hogTodo[1].flag = "none"
      BY <1>1, <2>1 DEF HogReaped
    <3>3. i # 1
      BY <2>1, <3>1, <3>2
    <3>4. PICK k \in 1..(2 * HogThreads) : k = i - 1 /\ k \in 1..Len(hogTodo')
      BY <1>1, <1>2, <3>1, <3>3
    <3>5. hogTodo'[k] = hogTodo[i]
      BY <1>2, <3>4
    <3> QED  BY <3>1, <3>2, <3>4, <3>5
  <2>2. CASE w \notin hogWork
    <3>1. hogTodo[1].do = "thread" /\ w = [on |-> hogTodo[1].on, flag |-> hogTodo[1].flag] /\ hogTodo[1].flag = "none"
      BY <1>1, <2>2 DEF HogReaped
    <3>2. /\ HogThreads > 0 /\ 1 + HogThreads <= Len(hogTodo)
          /\ hogTodo[1 + HogThreads].do = "reap" /\ hogTodo[1 + HogThreads].on = hogTodo[1].on
      BY <1>1, <3>1 DEF HogReaped, HogReapAhead
    <3>3. PICK k \in 1..(2 * HogThreads) : k = HogThreads /\ k \in 1..Len(hogTodo')
      BY <1>1, <1>2, <3>2
    <3>4. hogTodo'[k] = hogTodo[1 + HogThreads]
      BY <1>1, <1>2, <3>3
    <3> QED  BY <3>1, <3>2, <3>3, <3>4
  <2> QED  BY <2>1, <2>2
<1>5. \A i \in 1..Len(hogTodo') : hogTodo'[i].flag = "none"
  BY <1>1, <1>2 DEF HogReaped
<1> QED  BY <1>1, <1>3, <1>4, <1>5 DEF HogReaped

LEMMA HogFiledMoves ==
  ASSUME HogTyped, HogFiled, hogName = "iohog", hogTodo # <<>>, HogNextStep, HogIo \/ (HogIs("fopen") /\ UNCHANGED hogFile)
  PROVE  HogFiled' /\ hogFile' \in HogFiles
<1>1. /\ hogTodo' = Tail(hogTodo) /\ hogName' = hogName /\ hogTodo \in Seq(HogSteps) /\ hogAt = "run"
  BY DEF HogNextStep, HogTyped, HogIo, HogIs
<1>2. /\ Len(hogTodo') = Len(hogTodo) - 1 /\ Len(hogTodo) \in Nat /\ 1 \in 1..Len(hogTodo) /\ Head(hogTodo) = hogTodo[1]
      /\ hogTodo' \in Seq(HogSteps)
      /\ \A i \in 1..Len(hogTodo') : hogTodo'[i] = hogTodo[i + 1] /\ i + 1 \in 1..Len(hogTodo)
  BY <1>1, TailFacts
<1>3. HogRound(hogTodo')
  <2>1. ASSUME NEW do, NEW next, HogAfter(hogTodo, do, next)
        PROVE  HogAfter(hogTodo', do, next)
    <3> SUFFICES ASSUME NEW i \in 1..Len(hogTodo'), hogTodo'[i].do = do
                 PROVE  i < Len(hogTodo') /\ hogTodo'[i + 1].do \in next
      BY DEF HogAfter
    <3>1. i + 1 < Len(hogTodo) /\ hogTodo[i + 1 + 1].do \in next
      BY <1>2, <2>1 DEF HogAfter
    <3> QED  BY <1>2, <3>1
  <2>2. \A i \in 1..Len(hogTodo') : hogTodo'[i].do = "fclose" => i = Len(hogTodo')
    <3>1. HogRound(hogTodo)
      BY <1>1 DEF HogFiled
    <3>2. \A i \in 1..Len(hogTodo) : hogTodo[i].do = "fclose" => i = Len(hogTodo)
      BY <3>1 DEF HogRound
    <3> QED  BY <1>2, <3>2
  <2> QED  BY <1>1, <2>1, <2>2 DEF HogFiled, HogRound
<1> DEFINE f == hogFile
           g == hogFile'
           do == hogTodo[1].do
<1>4. do \in HogIoSteps
  BY <1>1, <1>2 DEF HogTyped
<1>5. hogTodo' # <<>> =>
        LET d == hogTodo'[1].do IN
        /\ do # "fclose"
        /\ do \in {"fopen", "fflush_stdout"} => d \in {"fwrite", "fclose"}
        /\ do = "fwrite" => d = "fseek"
        /\ do = "fseek" => d = "printf"
        /\ do = "printf" => d = "sync"
        /\ do = "sync" => d = "fflush_stdout"
  <2> SUFFICES ASSUME hogTodo' # <<>>
      PROVE  LET d == hogTodo'[1].do IN
             /\ do # "fclose"
             /\ do \in {"fopen", "fflush_stdout"} => d \in {"fwrite", "fclose"}
             /\ do = "fwrite" => d = "fseek"
             /\ do = "fseek" => d = "printf"
             /\ do = "printf" => d = "sync"
             /\ do = "sync" => d = "fflush_stdout"
    OBVIOUS
  <2>1. Len(hogTodo') > 0
    BY <1>2
  <2>2. hogTodo'[1] = hogTodo[1 + 1] /\ 1 # Len(hogTodo)
    BY <1>2, <2>1
  <2>3. \A d, next : HogAfter(hogTodo, d, next) /\ hogTodo[1].do = d => hogTodo[1 + 1].do \in next
    BY <1>2 DEF HogAfter
  <2>4. hogTodo[1].do = "fclose" => 1 = Len(hogTodo)
    BY <1>1, <1>2 DEF HogFiled, HogRound
  <2>5. HogRound(hogTodo)
    BY <1>1 DEF HogFiled
  <2> QED  BY <2>2, <2>3, <2>4, <2>5 DEF HogRound
<1>6. hogTodo' = <<>> => do = "fclose"
  <2> SUFFICES ASSUME hogTodo' = <<>> PROVE do = "fclose"
    OBVIOUS
  <2>1. Len(hogTodo) = 1
    BY <1>2
  <2>2. \A d, next : HogAfter(hogTodo, d, next) => hogTodo[1].do # d
    BY <1>2, <2>1 DEF HogAfter
  <2>3. HogRound(hogTodo)
    BY <1>1 DEF HogFiled
  <2> QED  BY <1>4, <2>2, <2>3 DEF HogRound, HogIoSteps
<1>7. f \in HogFiles /\ f.file <= f.buf /\ HogCounted(f, do) /\ HogFlushed(f, do)
  BY DEF HogFiled, HogTyped
<1>8. /\ do = "fopen" => g = f
      /\ do = "fwrite" => g = [f EXCEPT !.buf = f.buf + 1]
      /\ do = "fseek" => g \in (IF f.over THEN HogWritten ELSE {f})
      /\ do = "printf" => g = [f EXCEPT !.said = f.said + 1, !.seen = IF f.tty THEN f.said + 1 ELSE f.seen]
      /\ do = "sync" => g \in (IF f.sync = "fflush" THEN HogWritten ELSE {f})
      /\ do = "fflush_stdout" => g = [f EXCEPT !.seen = f.said]
      /\ do = "fclose" => g \in HogWritten
  BY <1>1, <1>2, <1>4 DEF HogIo, HogIs, HogIoSteps
<1>9. HogWritten = {[f EXCEPT !.file = f.buf], [f EXCEPT !.bad = TRUE]}
  BY DEF HogWritten
<1> HIDE DEF f, g, do
<1> DEFINE Good(d) == g \in HogFiles /\ g.file <= g.buf /\ HogCounted(g, d) /\ HogFlushed(g, d)
<1> USE <1>7 DEF HogFiles, HogCounted, HogFlushed
<1>10. do \in {"fopen", "fflush_stdout"} => Good("fwrite") /\ Good("fclose")
  <2>1. CASE do = "fopen"  BY <1>8, <2>1
  <2>2. CASE do = "fflush_stdout"  BY <1>8, <2>2
  <2> QED  BY <2>1, <2>2
<1>11. do = "fwrite" => Good("fseek")
  BY <1>8
<1>12. do = "fseek" => Good("printf")
  <2> SUFFICES ASSUME do = "fseek" PROVE Good("printf")
    OBVIOUS
  <2>1. (g = f /\ ~f.over) \/ g = [f EXCEPT !.file = f.buf] \/ g = [f EXCEPT !.bad = TRUE]
    BY <1>8, <1>9
  <2>2. CASE g = f /\ ~f.over  BY <2>2
  <2>3. CASE g = [f EXCEPT !.file = f.buf]  BY <2>3
  <2>4. CASE g = [f EXCEPT !.bad = TRUE]  BY <2>4
  <2> QED  BY <2>1, <2>2, <2>3, <2>4
<1>13. do = "printf" => Good("sync")
  <2> SUFFICES ASSUME do = "printf" PROVE Good("sync")
    OBVIOUS
  <2>1. CASE f.tty
    <3>1. g = [f EXCEPT !.said = f.said + 1, !.seen = f.said + 1]
      BY <1>8, <2>1
    <3> QED  BY <2>1, <3>1
  <2>2. CASE ~f.tty
    <3>1. g = [f EXCEPT !.said = f.said + 1, !.seen = f.seen]
      BY <1>8, <2>2
    <3>2. /\ g \in HogFiles /\ g.said = f.said + 1 /\ g.seen = f.seen /\ g.buf = f.buf /\ g.file = f.file
          /\ g.tty = f.tty /\ g.bad = f.bad /\ g.over = f.over /\ g.sync = f.sync
      BY <3>1
    <3>3. g.said = g.buf /\ g.seen = g.said - 1
      BY <3>2
    <3> QED  BY <2>2, <3>2, <3>3
  <2> QED  BY <2>1, <2>2
<1>14. do = "sync" => Good("fflush_stdout")
  <2> SUFFICES ASSUME do = "sync" PROVE Good("fflush_stdout")
    OBVIOUS
  <2>1. (g = f /\ f.sync # "fflush") \/ g = [f EXCEPT !.file = f.buf] \/ g = [f EXCEPT !.bad = TRUE]
    BY <1>8, <1>9
  <2>2. CASE g = f /\ f.sync # "fflush"  BY <2>2
  <2>3. CASE g = [f EXCEPT !.file = f.buf]  BY <2>3
  <2>4. CASE g = [f EXCEPT !.bad = TRUE]  BY <2>4
  <2> QED  BY <2>1, <2>2, <2>3, <2>4
<1>15. do = "fclose" => g \in HogFiles /\ g.file <= g.buf /\ HogClosed(g)
  <2> SUFFICES ASSUME do = "fclose" PROVE g \in HogFiles /\ g.file <= g.buf /\ HogClosed(g)
    OBVIOUS
  <2>1. g = [f EXCEPT !.file = f.buf] \/ g = [f EXCEPT !.bad = TRUE]
    BY <1>8, <1>9
  <2>2. CASE g = [f EXCEPT !.file = f.buf]  BY <2>2 DEF HogClosed
  <2>3. CASE g = [f EXCEPT !.bad = TRUE]  BY <2>3 DEF HogClosed
  <2> QED  BY <2>1, <2>2, <2>3
<1> HIDE <1>7 DEF HogFiles, HogCounted, HogFlushed
<1>16. g \in HogFiles /\ g.file <= g.buf
  BY <1>4, <1>10, <1>11, <1>12, <1>13, <1>14, <1>15 DEF HogIoSteps
<1>17. hogTodo' = <<>> => HogClosed(g)
  BY <1>6, <1>15
<1>18. hogTodo' # <<>> => HogCounted(g, hogTodo'[1].do) /\ HogFlushed(g, hogTodo'[1].do)
  BY <1>4, <1>5, <1>10, <1>11, <1>12, <1>13, <1>14 DEF HogIoSteps
<1> QED  BY <1>3, <1>16, <1>17, <1>18 DEF HogFiled, g

LEMMA HogBegins ==
  ASSUME HogInv, HogStart
  PROVE  HogInv'
<1>0. /\ hogFile' \in HogFiles /\ hogFile'.buf = 0 /\ hogFile'.file = 0 /\ hogFile'.said = 0 /\ hogFile'.seen = 0
  <2>1. hogFile \in HogFiles /\ hogFile.buf = 0 /\ hogFile.file = 0 /\ hogFile.said = 0 /\ hogFile.seen = 0
    BY DEF HogStart, HogInv, HogTyped
  <2>2. CASE HogOptions
    <3>1. PICK o, t \in BOOLEAN, y \in {"none", "fsync", "fflush"} :
            hogFile' = [hogFile EXCEPT !.over = o, !.sync = y, !.tty = t]
      BY <2>2 DEF HogOptions
    <3> QED  BY <2>1, <3>1 DEF HogFiles
  <2> QED  BY <2>1, <2>2 DEF HogStart
<1>1. /\ hogName = "none" /\ hogWork = {} /\ hogOdd = {}
      /\ hogMem \in [HogBuffers -> {"none", "held", "freed"}]
      /\ UNCHANGED <<hogMem, hogOdd, hogWork>> /\ hogAt' = "run" /\ hogFile' \in HogFiles
  BY <1>0 DEF HogStart, HogInv, HogTyped
<1>2. \/ hogName' = "memhog" /\ hogTodo' = HogMemhog
      \/ hogName' = "memhog0" /\ hogTodo' = HogMemhog0
      \/ hogName' = "memhogS" /\ hogTodo' = HogMemhogS
      \/ hogName' = "memhogF" /\ hogTodo' = HogMemhogF
      \/ hogName' = "calcpi" /\ hogTodo' = HogCalcpi
      \/ hogName' = "iohog" /\ hogTodo' = HogIohog
  BY DEF HogStart, HogPrograms
<1>3. ASSUME hogName' \notin {"calcpi", "iohog"}, hogTodo' \in Seq(HogSteps), HogStartsSafe(hogTodo', hogMem'),
             \A i \in 1..Len(hogTodo') :
               hogTodo'[i].do \in HogMemSteps /\ (hogTodo'[i].do \in {"malloc", "start", "free"} => hogTodo'[i].on \in HogBuffers)
      PROVE  HogInv'
  BY <1>1, <1>3 DEF HogInv, HogTyped, HogWorkers, HogReaped, HogFiled
<1>4. CASE hogName' = "memhog" /\ hogTodo' = HogMemhog
  <2>1. \A i \in 1..10 : /\ HogMemhog[i].do \in HogMemSteps /\ HogMemhog[i].on \in HogBuffers
    BY HogMemhogSteps DEF HogMemSteps, HogBuffers
  <2> QED  BY <1>3, <1>4, <2>1, HogMemhogText, HogMemhogSafe
<1>5. CASE hogName' = "memhog0" /\ hogTodo' = HogMemhog0
  <2>1. \A i \in 1..13 : /\ HogMemhog0[i].do \in HogMemSteps /\ HogMemhog0[i].on \in HogBuffers
    BY HogMemhog0Steps DEF HogMemSteps, HogBuffers
  <2> QED  BY <1>3, <1>5, <2>1, HogMemhogText, HogMemhogSafe
<1>6. CASE hogName' = "memhogS" /\ hogTodo' = HogMemhogS
  <2>1. \A i \in 1..4 : /\ HogMemhogS[i].do \in HogMemSteps /\ HogMemhogS[i].on \in HogBuffers
    BY HogMemhogSSteps DEF HogMemSteps, HogBuffers
  <2> QED  BY <1>3, <1>6, <2>1, HogMemhogText, HogMemhogSafe
<1>7. CASE hogName' = "memhogF" /\ hogTodo' = HogMemhogF
  <2>1. \A i \in 1..Len(HogMemhogF) : HogMemhogF[i].do \in HogMemSteps /\ HogMemhogF[i].do # "start"
    BY HogMemhogFText DEF HogMemSteps
  <2>2. HogStartsSafe(HogMemhogF, hogMem')
    BY <2>1 DEF HogStartsSafe
  <2> QED  BY <1>3, <1>7, <2>1, <2>2, HogMemhogFText
<1>8. CASE hogName' = "calcpi" /\ hogTodo' = HogCalcpi
  <2>1. \A i \in 1..Len(HogCalcpi) : HogCalcpi[i].do \notin {"malloc", "start", "free"}
    BY HogCalcpiText DEF HogPiSteps
  <2> QED  BY <1>1, <1>8, <2>1, HogCalcpiText DEF HogInv, HogTyped, HogWorkers, HogReaped, HogFiled
<1>9. CASE hogName' = "iohog" /\ hogTodo' = HogIohog
  <2>1. \A i \in 1..Len(HogIohog) : HogIohog[i].do \notin {"malloc", "start", "free"}
    BY HogIohogText DEF HogIoSteps
  <2>2. HogStartsSafe(HogIohog, hogMem')
    BY <2>1 DEF HogStartsSafe
  <2>5. HogFiled'
    BY <1>0, <1>9, HogIohogText DEF HogFiled, HogCounted, HogFlushed
  <2> QED  BY <1>1, <1>9, <2>1, <2>2, <2>5, HogIohogText DEF HogInv, HogTyped, HogWorkers, HogReaped
<1> QED  BY <1>2, <1>4, <1>5, <1>6, <1>7, <1>8, <1>9

LEMMA HogStays ==
  ASSUME HogInv, UNCHANGED <<hogName, hogTodo, hogAt, hogMem, hogOdd, hogWork, hogFile>>
  PROVE  HogInv'
BY DEF HogInv, HogTyped, HogWorkers, HogReaped, HogFiled

LEMMA HogInductive == HogInv /\ [HogNext]_hogVars => HogInv'
<1> SUFFICES ASSUME HogInv, [HogNext]_hogVars PROVE HogInv'
  OBVIOUS
<1> USE DEF HogInv
<1> DEFINE first == [on |-> hogTodo[1].on, flag |-> hogTodo[1].flag]
<1>1. \A d : HogIs(d) => /\ hogAt = "run" /\ hogTodo # <<>> /\ hogTodo[1].do = d /\ Head(hogTodo) = hogTodo[1]
                         /\ HogOn = hogTodo[1].on /\ HogThread(HogOn) = first /\ 1 \in 1..Len(hogTodo)
  BY TailFacts DEF HogIs, HogOn, HogThread, HogTyped
<1>2. ASSUME HogNextStep, hogAt = "run", hogTodo # <<>>, hogOdd' = hogOdd, hogFile' = hogFile, 1 \in 1..Len(hogTodo),
             hogWork' = hogWork \/ (hogTodo[1].do \in {"start", "thread"} /\ hogWork' = hogWork \cup {first}),
             hogMem' \in [HogBuffers -> {"none", "held", "freed"}],
             \A b : hogMem[b] = "held" /\ ~(hogTodo[1].do = "free" /\ hogTodo[1].on = b) => hogMem'[b] = "held",
             hogTodo[1].do = "malloc" => hogMem'[hogTodo[1].on] = "held",
             hogTodo[1].do \in {"join", "reap"} => first \notin hogWork,
             hogTodo[1].do \in HogMemSteps \cup HogPiSteps
      PROVE  HogInv'
  <2>1. HogTyped'
    BY <1>2, HogTypedMoves DEF HogTyped
  <2>2. hogName' = hogName /\ hogName # "iohog"
    BY <1>2 DEF HogNextStep, HogTyped, HogIoSteps, HogMemSteps, HogPiSteps
  <2>3. CASE hogName = "calcpi"
    <3>1. hogTodo[1].do \in HogPiSteps
      BY <1>2, <2>3 DEF HogTyped
    <3>2. HogReaped'
      BY <1>2, <2>3, <3>1, HogReapedMoves DEF HogPiSteps
    <3> QED  BY <2>1, <2>2, <2>3, <3>2 DEF HogWorkers, HogFiled
  <2>4. CASE hogName # "calcpi"
    <3>1. hogTodo[1].do \in HogMemSteps
      BY <1>2, <2>2, <2>4 DEF HogTyped
    <3>2. HogWorkers'
      BY <1>2, <2>4, <3>1, HogWorkersMove DEF HogMemSteps
    <3> QED  BY <2>1, <2>2, <2>4, <3>2 DEF HogReaped, HogFiled
  <2> QED  BY <2>3, <2>4
<1>3. CASE HogStart
  BY <1>3, HogBegins
<1>4. CASE HogMalloc
  <2>1. HogIs("malloc") /\ UNCHANGED <<hogOdd, hogWork, hogFile>>
    BY <1>4 DEF HogMalloc
  <2>2. hogTodo[1].on \in HogBuffers /\ hogName # "calcpi" /\ hogName # "iohog"
    BY <1>1, <2>1 DEF HogTyped, HogPiSteps, HogIoSteps
  <2>3. CASE hogMem' = [hogMem EXCEPT ![HogOn] = "held"] /\ HogNextStep
    <3>1. hogMem' = [hogMem EXCEPT ![hogTodo[1].on] = "held"]
      BY <1>1, <2>1, <2>3
    <3>2. hogMem' \in [HogBuffers -> {"none", "held", "freed"}] /\ hogMem'[hogTodo[1].on] = "held"
      BY <2>2, <3>1 DEF HogTyped
    <3>3. \A b : hogMem[b] = "held" => hogMem'[b] = "held"
      BY <2>2, <3>1 DEF HogTyped
    <3> QED  BY <1>1, <1>2, <2>1, <2>3, <3>2, <3>3 DEF HogMemSteps
  <2>4. CASE HogExit /\ UNCHANGED hogMem
    BY <1>1, <2>1, <2>2, <2>4 DEF HogExit, HogTyped, HogWorkers, HogReaped, HogFiled
  <2> QED  BY <1>4, <2>3, <2>4 DEF HogMalloc
<1>5. CASE HogFreed
  <2>1. HogIs("free") /\ HogNextStep /\ UNCHANGED <<hogOdd, hogWork, hogFile>> /\ hogMem' = [hogMem EXCEPT ![hogTodo[1].on] = "freed"]
    BY <1>1, <1>5 DEF HogFreed
  <2>2. hogTodo[1].on \in HogBuffers
    BY <1>1, <2>1 DEF HogTyped
  <2>3. hogMem' \in [HogBuffers -> {"none", "held", "freed"}]
    BY <2>1, <2>2 DEF HogTyped
  <2>4. \A b : hogMem[b] = "held" /\ hogTodo[1].on # b => hogMem'[b] = "held"
    BY <2>1, <2>2 DEF HogTyped
  <2> QED  BY <1>1, <1>2, <2>1, <2>3, <2>4 DEF HogMemSteps
<1>6. CASE HogCreate
  <2>1. (HogIs("start") \/ HogIs("thread")) /\ HogNextStep /\ UNCHANGED <<hogMem, hogOdd, hogFile>>
    BY <1>6 DEF HogCreate
  <2>2. hogWork' \in {hogWork, hogWork \cup {first}}
    BY <1>1, <1>6 DEF HogCreate
  <2> QED  BY <1>1, <1>2, <2>1, <2>2 DEF HogTyped, HogMemSteps, HogPiSteps
<1>7. CASE HogSetFlag
  BY <1>1, <1>2, <1>7 DEF HogSetFlag, HogTyped, HogMemSteps
<1>8. CASE HogJoin
  <2>1. (HogIs("join") \/ HogIs("reap")) /\ UNCHANGED <<hogMem, hogOdd, hogWork, hogFile>>
    BY <1>8 DEF HogJoin
  <2>2. CASE HogJoined /\ HogNextStep
    BY <1>1, <1>2, <2>1, <2>2 DEF HogJoined, HogTyped, HogMemSteps, HogPiSteps
  <2>3. CASE hogAt' \in {"exit", "hung"} /\ UNCHANGED <<hogName, hogTodo>>
    BY <2>1, <2>3 DEF HogTyped, HogWorkers, HogReaped, HogFiled
  <2> QED  BY <1>8, <2>2, <2>3 DEF HogJoin, HogExit
<1>9. CASE HogFork
  BY <1>1, <1>2, <1>9 DEF HogFork, HogTyped, HogMemSteps
<1>10. CASE HogWait
  BY <1>1, <1>2, <1>10 DEF HogWait, HogTyped, HogMemSteps
<1>11. ASSUME HogIo \/ (HogOpen /\ HogNextStep) PROVE HogInv'
  <2>2. /\ hogName = "iohog" /\ hogAt = "run" /\ hogTodo # <<>> /\ HogNextStep
        /\ UNCHANGED <<hogMem, hogOdd, hogWork>> /\ hogName' = hogName
    <3>1. CASE HogIo
      BY <3>1 DEF HogIo, HogNextStep
    <3>2. CASE HogOpen /\ HogNextStep
      BY <1>1, <3>2 DEF HogOpen, HogNextStep, HogTyped, HogMemSteps, HogPiSteps
    <3> QED  BY <1>11, <3>1, <3>2
  <2>1. HogFiled' /\ hogFile' \in HogFiles
    BY <1>11, <2>2, HogFiledMoves DEF HogOpen
  <2>3. 1 \in 1..Len(hogTodo) /\ hogTodo[1].do \in HogIoSteps
    BY <2>2, TailFacts DEF HogTyped
  <2>4. HogTyped'
    BY <2>1, <2>2, HogTypedMoves DEF HogTyped
  <2>5. HogWorkers'
    BY <2>2, <2>3, HogWorkersMove DEF HogIoSteps
  <2> QED  BY <2>1, <2>2, <2>4, <2>5 DEF HogReaped
<1>19. CASE HogOpen /\ HogExit
  BY <1>1, <1>19 DEF HogOpen, HogExit, HogTyped, HogWorkers, HogReaped, HogFiled
<1>20. CASE HogOpen
  BY <1>11, <1>19, <1>20 DEF HogOpen
<1>12. CASE HogReturn
  <2>1. hogTodo = <<>> /\ hogTodo' = <<>> /\ hogName' = hogName /\ hogAt' = "exit" /\ hogWork' = {} /\ UNCHANGED <<hogMem, hogOdd, hogFile>>
    BY <1>12 DEF HogReturn, HogExit
  <2>2. hogOdd = {}
    BY <2>1 DEF HogWorkers, HogReaped, HogJoinAhead
  <2>3. HogTyped'
    BY <2>1 DEF HogTyped
  <2>4. HogStartsSafe(hogTodo', hogMem') /\ HogReapAhead(hogTodo')
    BY <2>1 DEF HogStartsSafe, HogReapAhead
  <2> QED  BY <2>1, <2>2, <2>3, <2>4 DEF HogWorkers, HogReaped, HogFiled
<1>13. CASE HogFull
  <2>1. /\ hogFile' = [hogFile EXCEPT !.file = hogFile.buf] \/ hogFile' = [hogFile EXCEPT !.bad = TRUE]
        /\ hogFile.buf > hogFile.file /\ ~hogFile.bad /\ hogAt = "run"
        /\ UNCHANGED <<hogName, hogTodo, hogAt, hogMem, hogOdd, hogWork>>
    BY <1>13 DEF HogFull, HogWritten
  <2>2. hogFile \in HogFiles
    BY DEF HogTyped
  <2>3. /\ hogFile' \in HogFiles
        /\ hogFile'.buf = hogFile.buf /\ hogFile'.said = hogFile.said /\ hogFile'.seen = hogFile.seen
        /\ hogFile'.over = hogFile.over /\ hogFile'.sync = hogFile.sync /\ hogFile'.tty = hogFile.tty
        /\ hogFile'.file = hogFile.buf \/ (hogFile'.file = hogFile.file /\ hogFile'.bad)
    <3>1. CASE hogFile' = [hogFile EXCEPT !.file = hogFile.buf]  BY <2>2, <3>1 DEF HogFiles
    <3>2. CASE hogFile' = [hogFile EXCEPT !.bad = TRUE]  BY <2>2, <3>2 DEF HogFiles
    <3> QED  BY <2>1, <3>1, <3>2
  <2>4. HogTyped'
    BY <2>1, <2>3 DEF HogTyped
  <2>5. HogFiled'
    <3> SUFFICES ASSUME hogName = "iohog" PROVE HogFiled'
      BY <2>1 DEF HogFiled
    <3>1. /\ HogRound(hogTodo) /\ hogFile.file <= hogFile.buf
          /\ hogTodo # <<>> => HogCounted(hogFile, hogTodo[1].do)
          /\ hogTodo = <<>> => HogClosed(hogFile)
      BY DEF HogFiled
    <3>2. \A d : HogCounted(hogFile, d) => HogCounted(hogFile', d)
      BY <2>3 DEF HogCounted
    <3>3. \A d : HogFlushed(hogFile', d)
      BY <2>2, <2>3 DEF HogFlushed, HogFiles
    <3>4. HogClosed(hogFile) => HogClosed(hogFile')
      BY <2>3 DEF HogClosed
    <3>5. hogFile'.file <= hogFile'.buf
      BY <2>2, <2>3, <3>1 DEF HogFiles
    <3> QED  BY <2>1, <3>1, <3>2, <3>3, <3>4, <3>5 DEF HogFiled
  <2> QED  BY <2>1, <2>4, <2>5 DEF HogWorkers, HogReaped
<1>14. CASE HogChildEnds
  BY <1>14, HogStays DEF HogChildEnds
<1>15. CASE work("buffer") \/ work("spike")
  <2>1. PICK w \in hogWork :
          /\ hogName # "calcpi"
          /\ IF w.on \in hogOdd
             THEN /\ hogOdd' = hogOdd \ {w.on}
                  /\ hogWork' = IF w.flag \in hogFlag THEN hogWork \ {w} ELSE hogWork
             ELSE hogOdd' = hogOdd \cup {w.on} /\ UNCHANGED hogWork
          /\ UNCHANGED <<hogName, hogTodo, hogAt, hogMem, hogFile>>
    BY <1>15 DEF work
  <2>2. hogWork' \subseteq hogWork /\ \A b \in hogOdd' : \E v \in hogWork' : v.on = b
    BY <2>1 DEF HogWorkers
  <2>3. hogAt # "new"
    BY <2>1 DEF HogTyped
  <2>4. HogTyped' /\ HogFiled'
    BY <2>1, <2>3 DEF HogTyped, HogFiled
  <2>5. HogWorkers'
    BY <2>1, <2>2 DEF HogWorkers
  <2> QED  BY <2>1, <2>4, <2>5 DEF HogReaped
<1>16. CASE calcpi_int
  <2>1. /\ hogName = "calcpi" /\ hogAt = "run" /\ hogWork' \subseteq hogWork
        /\ UNCHANGED <<hogName, hogTodo, hogAt, hogMem, hogOdd, hogFile>>
    BY <1>16 DEF calcpi_int
  <2>2. HogTyped' /\ HogReaped'
    BY <2>1 DEF HogTyped, HogReaped
  <2> QED  BY <2>1, <2>2 DEF HogWorkers, HogFiled
<1>17. CASE spike
  BY <1>17, HogStays DEF spike
<1>18. CASE UNCHANGED hogVars
  BY <1>18, HogStays DEF hogVars
<1> QED
  BY <1>3, <1>4, <1>5, <1>6, <1>7, <1>8, <1>9, <1>10, <1>11, <1>12, <1>13, <1>14, <1>15, <1>16, <1>17, <1>18, <1>19, <1>20
  DEF HogNext, HogMain

LEMMA HogSafety == HogInv => HogSafe
<1> SUFFICES ASSUME HogInv PROVE HogSafe
  OBVIOUS
<1>1. hogMem \in [HogBuffers -> {"none", "held", "freed"}]
  BY DEF HogInv, HogTyped
<1>2. \A w \in hogWork : hogName # "calcpi" => hogMem[w.on] = "held"
  BY DEF HogInv, HogWorkers
<1>3. \A b \in {"buffer", "spike"} : hogMem[b] = "freed" => b \notin hogOdd
  BY <1>2 DEF HogInv, HogWorkers, HogReaped
<1>4. HogMemorySafe
  BY <1>2, <1>3 DEF HogMemorySafe, HogInv, HogReaped
<1>5. HogReported
  <2> SUFFICES ASSUME hogName = "iohog", ~hogFile.bad PROVE HogReported
    BY DEF HogReported
  <2>1. hogFile \in HogFiles /\ hogTodo \in Seq(HogSteps) /\ hogFile.file <= hogFile.buf
    BY DEF HogInv, HogTyped, HogFiled
  <2>2. CASE hogTodo = <<>>
    BY <2>1, <2>2 DEF HogReported, HogInv, HogFiled, HogClosed, HogFiles
  <2>3. CASE hogTodo # <<>>
    <3>1. hogTodo[1].do \in HogIoSteps /\ HogCounted(hogFile, hogTodo[1].do) /\ HogFlushed(hogFile, hogTodo[1].do)
      BY <2>1, <2>3, TailFacts DEF HogInv, HogTyped, HogFiled
    <3> QED  BY <2>1, <2>3, <3>1 DEF HogReported, HogIoSteps, HogCounted, HogFlushed, HogFiles
  <2> QED  BY <2>2, <2>3
<1> QED  BY <1>4, <1>5 DEF HogSafe

LEMMA HogStarts == HogInit => HogInv
<1> SUFFICES ASSUME HogInit PROVE HogInv
  OBVIOUS
<1> USE DEF HogInit
<1>1. HogTyped
  BY DEF HogTyped, HogBuffers, HogFiles
<1>2. HogWorkers
  BY DEF HogWorkers, HogStartsSafe
<1> QED  BY <1>1, <1>2 DEF HogInv, HogReaped, HogFiled

(* For any number of threads, rounds, records and children: memhog and its *)
(* variants free their memory only when no thread works on it any more,    *)
(* every thread of calcpi is reaped in its round, and a record iohog is    *)
(* seen to have reported is in the file if the file is rewound (-O), or is *)
(* flushed (-F) before the report is shown, unless a write failed.         *)
THEOREM GeneratorsSafe == ToolSpec => []HogSafe
<1>1. ToolInit => HogInv
  BY HogStarts DEF ToolInit
<1>2. HogInv /\ [ToolNext]_toolVars => HogInv'
  BY ToolMoves, HogInductive
<1> QED  BY <1>1, <1>2, HogSafety, PTL DEF ToolSpec
-----------------------------------------------------------------------------
(* turbostat. The lists are in order and hold no CPU twice; the readings   *)
(* of a CPU that has not been away differ as the time does; and when a     *)
(* table is made, the readings of the one list are of now, those of the    *)
(* other one interval old.                                                 *)

TsHalves == {"even", "odd"}
TsMs == 1..TsMsrs
TsReading == [v : Nat, t : Nat, gen : Int]
TsReadings == [TsMs -> TsReading]
TsTyped ==
  /\ tsAt \in {"new", "scan", "read", "sleep", "exit"} /\ tsMode \in {"loop", "fork", "dump"}
  /\ tsScan \in [left : SUBSET TsCpus, for : {"init", "verify"}, n : Nat]
  /\ tsList \in Seq(TsCpus) /\ tsCnt \in [TsHalves -> [TsCpus -> TsReadings]]
  /\ tsInto \in [list : TsHalves, n : Nat, m : 0..(TsMsrs - 1)] /\ (tsAt = "read" => tsInto.n <= Len(tsList))
  /\ tsOnline \subseteq TsCpus /\ tsNow \in Nat /\ tsBase \in [TsCpus -> Int] /\ tsGen \in [TsCpus -> Nat]
  /\ tsGone \in [TsCpus -> Nat]

(* insert_counters keeps the list in order.                                *)
TsOrdered(list) == \A i, j \in 1..Len(list) : i < j => TsBefore(list[i], list[j])

(* What a counter is worth: two readings of a CPU that was not away        *)
(* between them differ as the time does, modulo the width of the counters. *)
TsAlike(a, b) == a.gen = b.gen /\ a.gen >= 0 => (a.v - b.v) % TsModulus = (a.t - b.t) % TsModulus
TsWorth(c, m) ==
  /\ \A h \in TsHalves :
       LET r == tsCnt[h][c][m] IN
       /\ r.gen >= -2 /\ r.gen <= tsGen[c]
       /\ r.gen = tsGen[c] => c \in tsOnline /\ r.v = (tsBase[c] + r.t) % TsModulus
  /\ TsAlike(tsCnt["even"][c][m], tsCnt["odd"][c][m]) /\ TsAlike(tsCnt["odd"][c][m], tsCnt["even"][c][m])

(* When the readings of a list were taken.                                 *)
TsTaken(h, c, m) == tsCnt[h][c][m].gen # -1 /\ tsCnt[h][c][m].t = tsNow
TsFresh(h, n) == \A i \in 1..n, m \in TsMs : TsTaken(h, tsList[i], m)
TsPartly(h, n, k) == n < Len(tsList) => \A m \in 1..k : TsTaken(h, tsList[n + 1], m)
TsPrior(h) ==
  \A i \in 1..Len(tsList), m \in TsMs :
    tsCnt[h][tsList[i]][m].gen # -1 /\ tsNow - tsCnt[h][tsList[i]][m].t \in 1..(TsModulus - 1)
TsEmpty(h) == \A i \in 1..Len(tsList) : tsCnt[h][tsList[i]] = TsUnread
TsTimes ==
  /\ tsAt = "read" => /\ TsFresh(tsInto.list, tsInto.n) /\ TsPartly(tsInto.list, tsInto.n, tsInto.m)
                      /\ (tsInto.list = "even" /\ TsEmpty("odd")) \/ TsPrior(TsOther(tsInto.list))
  /\ tsAt = "sleep" => TsFresh(tsInto.list, Len(tsList))
  /\ tsAt = "scan" /\ tsScan.for = "verify" => tsInto.list = "even" /\ TsFresh("even", Len(tsList))
  /\ tsAt = "scan" /\ tsScan.for = "init" =>
       TsEmpty("even") /\ TsEmpty("odd") /\ \A i \in 1..Len(tsList) : tsList[i] \notin tsScan.left
  /\ tsAt = "new" => tsList = <<>>

(* need_reinitialize is set while a reading of a CPU that had gone is in   *)
(* the lists, and such a reading has been in no table yet, except when the *)
(* lists are about to be thrown away.                                      *)
TsLost(c) == \E h \in TsHalves, m \in TsMs : tsCnt[h][c][m].gen = -2
TsNoted ==
  /\ \A i \in 1..Len(tsList) : TsLost(tsList[i]) => tsNeed
  /\ \/ tsAt = "exit"
     \/ tsAt = "scan" /\ tsScan.for = "verify" /\ tsNeed
     \/ \A i \in 1..Len(tsList) : tsList[i] \notin tsOnline \/ TsLost(tsList[i]) => tsGone[tsList[i]] = 0

TsInv == TsTyped /\ TsOrdered(tsList) /\ (\A c \in TsCpus, m \in TsMs : TsWorth(c, m)) /\ TsTimes /\ TsNoted /\ TsTrue

LEMMA TsOrder ==
  ASSUME NEW a \in TsCpus, NEW b \in TsCpus, NEW c \in TsCpus
  PROVE  /\ ~TsBefore(a, a) /\ (TsBefore(a, b) /\ TsBefore(b, c) => TsBefore(a, c))
         /\ a # b => TsBefore(a, b) \/ TsBefore(b, a)
<1>1. /\ a \in Nat /\ b \in Nat /\ c \in Nat
      /\ TsTopo[a] \in Nat \X Nat /\ TsTopo[b] \in Nat \X Nat /\ TsTopo[c] \in Nat \X Nat
  BY TsNumbers
<1>2. \A x, y \in Nat \X Nat : x = y <=> x[1] = y[1] /\ x[2] = y[2]
  OBVIOUS
<1>3. \A x \in Nat \X Nat : x[1] \in Nat /\ x[2] \in Nat
  OBVIOUS
<1> QED  BY <1>1, <1>2, <1>3 DEF TsBefore

LEMMA TsInserted ==
  ASSUME NEW list \in Seq(TsCpus), TsOrdered(list), NEW new \in TsCpus, \A i \in 1..Len(list) : list[i] # new
  PROVE  /\ insert_counters(list, new) \in Seq(TsCpus) /\ TsOrdered(insert_counters(list, new))
         /\ \A i \in 1..Len(insert_counters(list, new)) :
              insert_counters(list, new)[i] = new \/ \E k \in 1..Len(list) : insert_counters(list, new)[i] = list[k]
<1> DEFINE N == Len(list)
           P(n) == (\A i \in 1..n : TsBefore(list[i], new)) /\ (n < N => ~TsBefore(list[n + 1], new))
           n == CHOOSE n \in 0..N : P(n)
           S == {m \in 0..N : m = N \/ ~TsBefore(list[m + 1], new)}
<1>1. N \in Nat
  OBVIOUS
<1>2. \E m \in 0..N : P(m)
  <2>1. S \subseteq Nat /\ N \in S
    BY <1>1
  <2>2. PICK m \in S : \A k \in S : m <= k
    <3> HIDE DEF S
    <3>1. S # {}
      BY <2>1
    <3> QED  BY <2>1, <3>1, NatLeast
  <2>3. ASSUME NEW i \in 1..m PROVE TsBefore(list[i], new)
    <3>1. i - 1 \in 0..N /\ ~(m <= i - 1) /\ i - 1 + 1 = i
      BY <1>1, <2>2
    <3>2. i - 1 \notin S
      BY <2>2, <3>1
    <3> QED  BY <3>1, <3>2
  <2>4. m \in 0..N /\ (m < N => ~TsBefore(list[m + 1], new))
    BY <1>1, <2>2
  <2> QED  BY <2>3, <2>4
<1>3. n \in 0..N /\ P(n)
  BY <1>2
<1> HIDE DEF n, P, S
<1> DEFINE out == insert_counters(list, new)
           low == SubSeq(list, 1, n)
           high == SubSeq(list, n + 1, N)
<1>4. out = (low \o <<new>>) \o high
  <2>1. out = InsertAt(list, n + 1, new)
    BY DEF insert_counters, n, P
  <2>2. (n + 1) - 1 = n
    BY <1>3
  <2>3. InsertAt(list, n + 1, new) = SubSeq(list, 1, (n + 1) - 1) \o <<new>> \o SubSeq(list, n + 1, Len(list))
    BY DEF InsertAt
  <2>4. SubSeq(list, 1, (n + 1) - 1) = low
    BY <2>2
  <2> HIDE DEF out
  <2> QED  BY <2>1, <2>3, <2>4, Zenon
<1>5. low \in Seq(TsCpus) /\ Len(low) = n /\ \A i \in 1..n : low[i] = list[i]
  <2>1. 1 \in 1..(N + 1) /\ 1 <= n + 1 /\ n - 1 + 1 = n /\ \A i \in 1..n : 1 + i - 1 = i
    BY <1>1, <1>3
  <2> QED  BY <1>3, <2>1, SubSeqFacts
<1>6. high \in Seq(TsCpus) /\ Len(high) = N - n /\ \A i \in 1..(N - n) : high[i] = list[n + i]
  <2>1. n + 1 \in 1..(N + 1) /\ n + 1 <= N + 1 /\ N \in 0..N /\ N - (n + 1) + 1 = N - n
    BY <1>1, <1>3
  <2>2. \A i \in 1..(N - n) : (n + 1) + i - 1 = n + i
    BY <1>1, <1>3
  <2> QED  BY <2>1, <2>2, SubSeqFacts
<1>7. <<new>> \in Seq(TsCpus) /\ Len(<<new>>) = 1 /\ <<new>>[1] = new
  OBVIOUS
<1> DEFINE mid == low \o <<new>>
<1> HIDE DEF low, high
<1>8. mid \in Seq(TsCpus) /\ Len(mid) = n + 1 /\ (\A i \in 1..n : mid[i] = list[i]) /\ mid[n + 1] = new
  <2>1. 1 \in 1..Len(<<new>>)
    BY <1>7
  <2> QED  BY <1>5, <1>7, <2>1, ConcatFacts
<1>9. out = mid \o high
  BY <1>4
<1> HIDE DEF mid, out
<1>10. /\ out \in Seq(TsCpus) /\ Len(out) = N + 1
       /\ (\A i \in 1..n : out[i] = list[i]) /\ out[n + 1] = new
       /\ \A i \in 1..(N - n) : out[n + 1 + i] = list[n + i]
  <2>1. \A i \in 1..(n + 1) : out[i] = mid[i]
    BY <1>6, <1>8, <1>9, ConcatFacts
  <2>2. \A i \in 1..(N - n) : out[n + 1 + i] = high[i]
    <3>1. \A i \in 1..Len(high) : out[Len(mid) + i] = high[i]
      <4>1. \A i \in 1..Len(high) : (mid \o high)[Len(mid) + i] = high[i]
        BY <1>6, <1>8, ConcatFacts
      <4> QED  BY <1>9, <4>1, Zenon
    <3> QED  BY <1>6, <1>8, <3>1
  <2>3. out \in Seq(TsCpus) /\ Len(out) = (n + 1) + (N - n)
    <3>1. mid \o high \in Seq(TsCpus) /\ Len(mid \o high) = Len(mid) + Len(high)
      BY <1>6, <1>8, ConcatFacts
    <3> QED  BY <1>6, <1>8, <1>9, <3>1
  <2>4. n + 1 \in 1..(n + 1) /\ \A i \in 1..n : i \in 1..(n + 1)
    BY <1>3
  <2> QED  BY <1>1, <1>3, <1>6, <1>8, <2>1, <2>2, <2>3, <2>4
<1>11. \A i \in 1..(N + 1) : i <= n \/ i = n + 1 \/ (i - n - 1 \in 1..(N - n) /\ i = n + 1 + (i - n - 1))
  BY <1>1, <1>3
<1>12. \A i \in 1..(N + 1) : /\ i <= n => out[i] = list[i]
                             /\ i = n + 1 => out[i] = new
                             /\ i > n + 1 => out[i] = list[i - 1] /\ i - 1 \in 1..N
  <2> SUFFICES ASSUME NEW i \in 1..(N + 1), i > n + 1 PROVE out[i] = list[i - 1] /\ i - 1 \in 1..N
    BY <1>3, <1>10
  <2>1. PICK k \in 1..(N - n) : i = n + 1 + k /\ i - 1 = n + k
    BY <1>1, <1>3, <1>11
  <2>2. out[n + 1 + k] = list[n + k]
    BY <1>10
  <2>3. n + k \in 1..N
    BY <1>1, <1>3
  <2> QED  BY <2>1, <2>2, <2>3
<1>13. \A i \in 1..N : list[i] \in TsCpus /\ (i <= n => TsBefore(list[i], new)) /\ (i > n => TsBefore(new, list[i]))
  <2> SUFFICES ASSUME NEW i \in 1..N
               PROVE  (i <= n => TsBefore(list[i], new)) /\ (i > n => TsBefore(new, list[i]))
    OBVIOUS
  <2>1. i <= n => TsBefore(list[i], new)
    BY <1>3 DEF P
  <2>2. ASSUME i > n PROVE TsBefore(new, list[i])
    <3>1. n + 1 \in 1..N /\ ~TsBefore(list[n + 1], new)
      BY <1>1, <1>3, <2>2 DEF P
    <3>2. TsBefore(new, list[n + 1])
      BY <3>1, TsOrder
    <3>3. n + 1 = i \/ TsBefore(list[n + 1], list[i])
      BY <1>3, <2>2, <3>1 DEF TsOrdered
    <3> QED  BY <3>1, <3>2, <3>3, TsOrder
  <2> QED  BY <2>1, <2>2
<1>14. TsOrdered(out)
  <2> SUFFICES ASSUME NEW i \in 1..(N + 1), NEW j \in 1..(N + 1), i < j PROVE TsBefore(out[i], out[j])
    BY <1>10 DEF TsOrdered
  <2>1. CASE j <= n
    BY <1>1, <1>3, <1>12, <2>1 DEF TsOrdered
  <2>2. CASE j = n + 1
    BY <1>1, <1>3, <1>12, <1>13, <2>2
  <2>3. CASE j > n + 1
    <3>1. j - 1 \in 1..N /\ out[j] = list[j - 1] /\ j - 1 > n
      BY <1>1, <1>3, <1>12, <2>3
    <3>2. CASE i <= n
      BY <1>1, <1>3, <1>12, <3>1, <3>2 DEF TsOrdered
    <3>3. CASE i = n + 1
      BY <1>12, <1>13, <3>1, <3>3
    <3>4. CASE i > n + 1
      BY <1>1, <1>3, <1>12, <3>1, <3>4 DEF TsOrdered
    <3> QED  BY <1>3, <3>2, <3>3, <3>4
  <2> QED  BY <1>3, <2>1, <2>2, <2>3
<1>15. \A i \in 1..(N + 1) : out[i] = new \/ \E k \in 1..N : out[i] = list[k]
  BY <1>1, <1>3, <1>12
<1> QED  BY <1>10, <1>14, <1>15 DEF out

LEMMA TsCounts ==
  /\ TsModulus \in Nat \ {0} /\ \A x \in Int : x % TsModulus \in Nat
  /\ \A x \in 0..(TsModulus - 1) : x % TsModulus = x
<1>1. TsModulus \in Nat \ {0}
  BY TsNumbers
<1>2. \A x \in Int : x % TsModulus \in Nat
  BY <1>1
<1>3. ASSUME NEW x \in 0..(TsModulus - 1) PROVE x % TsModulus = x
  <2>1. 0 * TsModulus + x = x
    BY <1>1
  <2>2. (0 * TsModulus + x) % TsModulus = x
    BY <1>1, ModUnique
  <2> QED  BY <2>1, <2>2
<1> QED  BY <1>1, <1>2, <1>3

(* A table made of a list of now and one of an interval before is true.    *)
LEMMA TsPrinted ==
  ASSUME TsInv, tsAt = "read", tsInto.n = Len(tsList), TsPrior(TsOther(tsInto.list)), ~TsTscStopped, print_counters
  PROVE  /\ TsTrue' /\ tsGone' \in [TsCpus -> Nat]
         /\ \A c \in TsCpus : tsGone'[c] = tsGone[c] \/ (TsLost(c) /\ \E i \in 1..Len(tsList) : tsList[i] = c)
<1> DEFINE N == Len(tsList)
           h == tsInto.list
           a(c) == tsCnt[h][c]
           b(c) == tsCnt[TsOther(h)][c]
           d(c) == [m \in 1..TsMsrs |-> SUBTRACT_COUNTER(c, m)]
           row(c) == [cpu |-> c, delta |-> d(c), a |-> a(c), b |-> b(c)]
<1>1. /\ tsList \in Seq(TsCpus) /\ N \in Nat /\ h \in TsHalves /\ TsOther(h) \in TsHalves /\ tsGone \in [TsCpus -> Nat]
      /\ TsOrdered(tsList) /\ TsFresh(h, N) /\ tsNow \in Nat /\ TsModulus \in Nat \ {0}
      /\ \A i \in 1..N : tsList[i] \in TsCpus
  BY TsNumbers DEF TsInv, TsTyped, TsTimes, TsOther, TsHalves
<1>2. tsRows' = [i \in 1..N |-> row(tsList[i])]
  BY DEF print_counters, compute_delta
<1>3. Len(tsRows') = N /\ \A i \in 1..N : tsRows'[i] = row(tsList[i])
  <2> DEFINE S == {row(tsList[i]) : i \in 1..N}
  <2> HIDE DEF row
  <2>1. tsRows' \in [1..N -> S]
    BY <1>2
  <2> QED  BY <1>1, <1>2, <2>1, FunSeq
<1>0. \A i \in 1..N : /\ tsRows'[i].cpu = tsList[i] /\ tsRows'[i].delta = d(tsList[i])
                       /\ tsRows'[i].a = a(tsList[i]) /\ tsRows'[i].b = b(tsList[i])
  <2> HIDE DEF a, b, d
  <2>1. \A c : row(c).cpu = c /\ row(c).delta = d(c) /\ row(c).a = a(c) /\ row(c).b = b(c)
    OBVIOUS
  <2> HIDE DEF row
  <2> QED  BY <1>3, <2>1
<1>4. ASSUME NEW i \in 1..N, NEW m \in TsMs
      PROVE  LET c == tsList[i] IN
             /\ a(c)[m] \in TsReading /\ b(c)[m] \in TsReading
             /\ a(c)[m].gen # -1 /\ b(c)[m].gen # -1 /\ a(c)[m].t - b(c)[m].t \in 1..(TsModulus - 1)
             /\ d(c)[m] = (a(c)[m].v - b(c)[m].v) % TsModulus
             /\ a(c)[m].gen >= -2 /\ TsAlike(a(c)[m], b(c)[m])
  <2> DEFINE c == tsList[i]
  <2>1. c \in TsCpus
    BY <1>1
  <2>2. a(c)[m] \in TsReading /\ b(c)[m] \in TsReading
    BY <1>1, <2>1 DEF TsInv, TsTyped, TsReadings
  <2>3. a(c)[m].gen # -1 /\ a(c)[m].t = tsNow
    BY <1>1 DEF TsFresh, TsTaken
  <2>4. b(c)[m].gen # -1 /\ tsNow - b(c)[m].t \in 1..(TsModulus - 1)
    BY DEF TsPrior
  <2>5. d(c)[m] = (a(c)[m].v - b(c)[m].v) % TsModulus
    BY DEF SUBTRACT_COUNTER, TsMs
  <2>6. TsWorth(c, m)
    BY <2>1 DEF TsInv
  <2>7. a(c)[m].gen >= -2
    BY <1>1, <2>6 DEF TsWorth
  <2>8. TsAlike(a(c)[m], b(c)[m])
    BY <1>1, <2>6 DEF TsWorth, TsOther, TsHalves
  <2> HIDE DEF d
  <2> QED  BY <2>2, <2>3, <2>4, <2>5, <2>7, <2>8
<1>5. ASSUME NEW i \in 1..N, NEW m \in TsMs
      PROVE  LET c == tsList[i] IN
             a(c)[m].gen = b(c)[m].gen /\ a(c)[m].gen # -2 => d(c)[m] = a(c)[m].t - b(c)[m].t
  <2> DEFINE c == tsList[i]
             p == a(c)[m]
             q == b(c)[m]
  <2> HIDE DEF a, b, c, d
  <2>1. SUFFICES ASSUME p.gen = q.gen, p.gen # -2 PROVE d(c)[m] = p.t - q.t
    BY DEF c
  <2>2. /\ p \in TsReading /\ q \in TsReading
        /\ p.gen # -1 /\ p.t - q.t \in 1..(TsModulus - 1)
        /\ d(c)[m] = (p.v - q.v) % TsModulus
        /\ p.gen >= -2 /\ TsAlike(p, q)
    BY <1>4 DEF c
  <2> HIDE DEF p, q
  <2>4. p.gen >= 0
    BY <2>1, <2>2 DEF TsReading
  <2>5. d(c)[m] = (p.t - q.t) % TsModulus
    BY <2>1, <2>2, <2>4 DEF TsAlike
  <2>6. p.t - q.t \in 0..(TsModulus - 1)
    BY <1>1, <2>2
  <2> QED  BY <2>5, <2>6, TsCounts
<1>6. TsRowsTrue'
  <2> SUFFICES ASSUME NEW i \in 1..N
               PROVE  LET r == tsRows'[i] IN
                      /\ \A m \in 1..TsMsrs :
                           /\ r.a[m].gen # -1 /\ r.b[m].gen # -1
                           /\ r.a[m].gen = r.b[m].gen /\ r.a[m].gen # -2 => r.delta[m] = r.a[m].t - r.b[m].t
                      /\ \A j \in 1..(i-1) : TsBefore(tsRows'[j].cpu, r.cpu)
    BY <1>3 DEF TsRowsTrue
  <2>1. \A k \in 1..N : tsRows'[k].cpu = tsList[k]
    BY <1>0
  <2>2. \A j \in 1..(i-1) : TsBefore(tsRows'[j].cpu, tsRows'[i].cpu)
    BY <1>1, <2>1 DEF TsOrdered
  <2>3. tsRows'[i].a = a(tsList[i]) /\ tsRows'[i].b = b(tsList[i]) /\ tsRows'[i].delta = d(tsList[i])
    BY <1>0
  <2> HIDE DEF a, b, d, row
  <2>4. ASSUME NEW m \in 1..TsMsrs
        PROVE  LET r == tsRows'[i] IN
               /\ r.a[m].gen # -1 /\ r.b[m].gen # -1
               /\ r.a[m].gen = r.b[m].gen /\ r.a[m].gen # -2 => r.delta[m] = r.a[m].t - r.b[m].t
    <3>1. m \in TsMs
      BY DEF TsMs
    <3> QED  BY <1>4, <1>5, <2>3, <3>1
  <2> QED  BY <2>2, <2>4
<1>7. ASSUME NEW c \in TsCpus
      PROVE  \/ tsGone'[c] = tsGone[c]
             \/ tsGone'[c] = tsGone[c] + 1 /\ TsLost(c) /\ \E i \in 1..N : tsList[i] = c
  <2>1. tsGone'[c] = IF \E i \in 1..Len(tsRows'), m \in 1..TsMsrs :
                          tsRows'[i].cpu = c /\ -2 \in {tsRows'[i].a[m].gen, tsRows'[i].b[m].gen}
                     THEN tsGone[c] + 1 ELSE tsGone[c]
    BY DEF print_counters
  <2>2. ASSUME NEW i \in 1..N, NEW m \in 1..TsMsrs,
               tsRows'[i].cpu = c, -2 \in {tsRows'[i].a[m].gen, tsRows'[i].b[m].gen}
        PROVE  tsList[i] = c /\ TsLost(c)
    <3>1. tsList[i] = c /\ m \in TsMs
      BY <1>0, <2>2 DEF TsMs
    <3>2. tsCnt[h][c][m].gen = -2 \/ tsCnt[TsOther(h)][c][m].gen = -2
      BY <1>0, <2>2, <3>1
    <3> QED  BY <1>1, <3>1, <3>2 DEF TsLost
  <2> QED  BY <1>3, <2>1, <2>2
<1>8. tsGone' \in [TsCpus -> Nat]
  <2>1. tsGone' = [c \in TsCpus |->
       IF \E i \in 1..Len(tsRows'), m \in 1..TsMsrs :
            tsRows'[i].cpu = c /\ -2 \in {tsRows'[i].a[m].gen, tsRows'[i].b[m].gen}
       THEN tsGone[c] + 1 ELSE tsGone[c]]
    BY DEF print_counters
  <2> QED  BY <1>1, <2>1
<1>9. TsGoneOnce'
  <2> SUFFICES ASSUME NEW c \in TsCpus PROVE tsGone'[c] <= 1
    BY DEF TsGoneOnce
  <2>1. tsGone[c] <= 1
    BY DEF TsInv, TsTrue, TsGoneOnce
  <2>2. TsLost(c) /\ (\E i \in 1..N : tsList[i] = c) => tsGone[c] = 0
    BY DEF TsInv, TsNoted
  <2> QED  BY <1>1, <1>7, <2>1, <2>2
<1> QED  BY <1>6, <1>7, <1>8, <1>9 DEF TsTrue

LEMMA TsWorthKept ==
  ASSUME TsInv, UNCHANGED <<tsCnt, tsOnline, tsBase, tsGen>>
  PROVE  \A c \in TsCpus, m \in TsMs : TsWorth(c, m)'
BY DEF TsInv, TsWorth

LEMMA TsTrueKept ==
  ASSUME TsInv, UNCHANGED <<tsRows, tsGone>>
  PROVE  TsTrue'
BY DEF TsInv, TsTrue, TsRowsTrue, TsGoneOnce

(* The lists thrown away, or not made yet.                                 *)
LEMMA TsNoLists ==
  ASSUME tsList' = <<>>
  PROVE  /\ TsOrdered(tsList') /\ (\A h : TsEmpty(h)' /\ TsPrior(h)')
         /\ TsNoted' /\ \A i \in 1..Len(tsList') : tsList'[i] \notin tsScan'.left
<1>1. Len(tsList') = 0
  BY DEF TsOrdered
<1> QED  BY <1>1 DEF TsOrdered, TsEmpty, TsPrior, TsNoted

LEMMA TsStarted ==
  ASSUME TsInv, turbostat_init
  PROVE  TsInv'
<1>1. /\ tsAt = "new" /\ tsMode' \in {"loop", "fork", "dump"}
      /\ UNCHANGED <<tsList, tsCnt, tsInto, tsNum, tsNeed, tsRows, tsOnline, tsBase, tsGen, tsPlugs, tsNow, tsGone>>
  BY DEF turbostat_init, tsMachine
<1>2. \/ tsAt' = "scan" /\ tsScan' = [left |-> tsOnline, for |-> "init", n |-> 0]
      \/ tsAt' = "exit" /\ tsScan' = tsScan
  BY DEF turbostat_init, TsBeginScan, check_cpuid
<1>3. tsList' = <<>>
  BY <1>1 DEF TsInv, TsTimes
<1>4. TsTyped'
  BY <1>1, <1>2 DEF TsInv, TsTyped
<1>5. TsTimes'
  BY <1>2, <1>3, TsNoLists DEF TsTimes
<1> QED  BY <1>1, <1>3, <1>4, <1>5, TsNoLists, TsWorthKept, TsTrueKept DEF TsInv

LEMMA TsScanStep ==
  ASSUME TsInv, NEW c, tsScan' = [tsScan EXCEPT !.left = @ \ {c}, !.n = @ + 1]
  PROVE  /\ tsScan' \in [left : SUBSET TsCpus, for : {"init", "verify"}, n : Nat]
         /\ tsScan'.for = tsScan.for /\ tsScan'.left = tsScan.left \ {c}
<1>1. tsScan \in [left : SUBSET TsCpus, for : {"init", "verify"}, n : Nat]
  BY DEF TsInv, TsTyped
<1>2. PICK l \in SUBSET TsCpus, f \in {"init", "verify"}, n \in Nat : tsScan = [left |-> l, for |-> f, n |-> n]
  BY <1>1
<1>3. tsScan' = [left |-> l \ {c}, for |-> f, n |-> n + 1]
  BY <1>2
<1>4. l \ {c} \in SUBSET TsCpus /\ n + 1 \in Nat
  OBVIOUS
<1> QED  BY <1>2, <1>3, <1>4

LEMMA TsScanned ==
  ASSUME TsInv, get_physical_package_id
  PROVE  TsInv'
<1> DEFINE c == Min(tsScan.left)
<1>1. /\ tsAt = "scan" /\ tsScan.left # {}
      /\ UNCHANGED <<tsMode, tsInto, tsNum, tsNeed, tsRows, tsOnline, tsBase, tsGen, tsPlugs, tsNow, tsGone>>
  BY DEF get_physical_package_id, tsMachine
<1>2. c \in tsScan.left /\ c \in TsCpus
  <2>1. tsScan.left \subseteq TsCpus /\ tsScan.left \subseteq Nat
    BY TsNumbers DEF TsInv, TsTyped
  <2>2. \E x \in tsScan.left : \A y \in tsScan.left : x <= y
    BY <1>1, <2>1, NatLeast
  <2> QED  BY <2>1, <2>2 DEF Min
<1>3. CASE c \notin tsOnline
  <2>1. tsAt' = "exit" /\ UNCHANGED <<tsScan, tsList, tsCnt>>
    BY <1>3 DEF get_physical_package_id
  <2>2. TsTyped' /\ TsTimes'
    BY <1>1, <2>1 DEF TsInv, TsTyped, TsTimes
  <2>3. TsNoted' /\ TsOrdered(tsList')
    BY <1>1, <2>1 DEF TsInv, TsNoted, TsLost
  <2> QED  BY <1>1, <2>1, <2>2, <2>3, TsWorthKept, TsTrueKept DEF TsInv
<1>4. CASE c \in tsOnline /\ tsScan.for = "verify"
  <2>1. tsAt' = "scan" /\ tsScan' = [tsScan EXCEPT !.left = @ \ {c}, !.n = @ + 1] /\ UNCHANGED <<tsList, tsCnt>>
    BY <1>1, <1>4 DEF get_physical_package_id, alloc_new_counters
  <2>2. tsScan' \in [left : SUBSET TsCpus, for : {"init", "verify"}, n : Nat] /\ tsScan'.for = "verify"
    BY <1>4, <2>1, TsScanStep
  <2>3. TsTyped' /\ TsTimes'
    BY <1>1, <1>4, <2>1, <2>2 DEF TsInv, TsTyped, TsTimes, TsFresh, TsTaken
  <2>4. TsNoted' /\ TsOrdered(tsList')
    BY <1>1, <1>4, <2>1, <2>2 DEF TsInv, TsNoted, TsLost
  <2> QED  BY <1>1, <2>1, <2>3, <2>4, TsWorthKept, TsTrueKept DEF TsInv
<1>5. CASE c \in tsOnline /\ tsScan.for = "init"
  <2>1. /\ tsAt' = "scan" /\ tsScan' = [tsScan EXCEPT !.left = @ \ {c}, !.n = @ + 1]
        /\ tsList' = insert_counters(tsList, c) /\ tsCnt' = [h \in TsHalves |-> [tsCnt[h] EXCEPT ![c] = TsUnread]]
    BY <1>1, <1>5 DEF get_physical_package_id, alloc_new_counters, TsHalves
  <2>2. tsScan' \in [left : SUBSET TsCpus, for : {"init", "verify"}, n : Nat] /\ tsScan'.for = "init" /\ tsScan'.left = tsScan.left \ {c}
    BY <1>5, <2>1, TsScanStep
  <2>3. /\ tsList \in Seq(TsCpus) /\ TsOrdered(tsList) /\ TsEmpty("even") /\ TsEmpty("odd")
        /\ \A i \in 1..Len(tsList) : tsList[i] \notin tsScan.left /\ tsList[i] \in TsCpus
    BY <1>1, <1>5, SMTT(30) DEF TsInv, TsTyped, TsTimes
  <2>4. /\ tsList' \in Seq(TsCpus) /\ TsOrdered(tsList')
        /\ \A i \in 1..Len(tsList') : tsList'[i] = c \/ \E k \in 1..Len(tsList) : tsList'[i] = tsList[k]
    BY <1>2, <2>1, <2>3, TsInserted
  <2>5. TsUnread \in TsReadings /\ \A m \in TsMs : TsUnread[m].gen = -1
    BY DEF TsUnread, TsReading, TsReadings, TsMs
  <2>6. /\ tsCnt' \in [TsHalves -> [TsCpus -> TsReadings]]
        /\ \A h \in TsHalves : tsCnt'[h][c] = TsUnread /\ \A d \in TsCpus : d # c => tsCnt'[h][d] = tsCnt[h][d]
    <3>1. tsCnt \in [TsHalves -> [TsCpus -> TsReadings]]
      BY DEF TsInv, TsTyped
    <3> QED  BY <1>2, <2>1, <2>5, <3>1
  <2>7. TsTyped'
    BY <1>1, <2>1, <2>2, <2>4, <2>6 DEF TsInv, TsTyped
  <2>8. \A i \in 1..Len(tsList') : \A h \in TsHalves : tsCnt'[h][tsList'[i]] = TsUnread
    <3> TAKE i \in 1..Len(tsList')
    <3> TAKE h \in TsHalves
    <3>1. CASE tsList'[i] = c
      BY <2>6, <3>1
    <3>2. CASE tsList'[i] # c
      <4>1. PICK k \in 1..Len(tsList) : tsList'[i] = tsList[k]
        BY <2>4, <3>2
      <4>2. tsList[k] \in TsCpus /\ tsCnt[h][tsList[k]] = TsUnread
        BY <2>3 DEF TsEmpty, TsHalves
      <4> HIDE DEF c
      <4> QED  BY <2>6, <3>2, <4>1, <4>2
    <3> QED  BY <3>1, <3>2
  <2>9. TsTimes'
    <3>1. TsEmpty("even")' /\ TsEmpty("odd")'
      BY <2>8 DEF TsEmpty, TsHalves
    <3>2. \A i \in 1..Len(tsList') : tsList'[i] \notin tsScan'.left
      BY <2>2, <2>3, <2>4
    <3> QED  BY <2>1, <2>2, <3>1, <3>2 DEF TsTimes
  <2>10. ASSUME NEW d \in TsCpus, NEW m \in TsMs PROVE TsWorth(d, m)'
    <3>1. TsWorth(d, m) /\ tsGen[d] \in Nat
      BY DEF TsInv, TsTyped
    <3>2. CASE d # c
      BY <1>1, <2>6, <3>1, <3>2 DEF TsWorth, TsHalves
    <3>3. CASE d = c
      BY <1>1, <2>5, <2>6, <3>1, <3>3 DEF TsWorth, TsHalves, TsAlike
    <3> QED  BY <3>2, <3>3
  <2>11. TsNoted'
    <3>1. \A d : (\E i \in 1..Len(tsList') : tsList'[i] = d) => ~TsLost(d)'
      BY <2>5, <2>8 DEF TsLost
    <3>2. \A i \in 1..Len(tsList) : tsList[i] \notin tsOnline => tsGone[tsList[i]] = 0
      BY <1>1, <1>5 DEF TsInv, TsNoted
    <3>3. \A i \in 1..Len(tsList') : tsList'[i] \notin tsOnline' => tsGone'[tsList'[i]] = 0
      BY <1>1, <1>5, <2>4, <3>2
    <3> QED  BY <3>1, <3>3 DEF TsNoted
  <2> QED  BY <1>1, <2>4, <2>7, <2>9, <2>10, <2>11, TsTrueKept DEF TsInv
<1>6. tsScan.for \in {"init", "verify"}
  BY DEF TsInv, TsTyped
<1> QED  BY <1>3, <1>4, <1>5, <1>6

LEMMA TsScanEnds ==
  ASSUME TsInv, for_all_cpus
  PROVE  TsInv'
<1>1. /\ tsAt = "scan" /\ tsScan.left = {}
      /\ UNCHANGED <<tsMode, tsCnt, tsRows, tsOnline, tsBase, tsGen, tsPlugs, tsNow, tsGone>>
  BY DEF for_all_cpus, tsMachine
<1>2. CASE tsScan.for = "init"
  <2>1. tsNeed' = FALSE /\ tsAt' = "read" /\ tsInto' = [list |-> "even", n |-> 0, m |-> 0] /\ UNCHANGED <<tsScan, tsList>>
    BY <1>2 DEF for_all_cpus, TsRead, TsRestart
  <2>2. TsEmpty("even") /\ TsEmpty("odd") /\ tsList \in Seq(TsCpus)
    BY <1>1, <1>2 DEF TsInv, TsTimes, TsTyped
  <2>3. TsTyped'
    <3>1. tsInto' \in [list : TsHalves, n : Nat, m : 0..(TsMsrs - 1)] /\ tsInto'.n <= Len(tsList')
      BY <2>1, <2>2, TsNumbers DEF TsHalves
    <3> QED  BY <1>1, <2>1, <3>1 DEF TsInv, TsTyped
  <2>4. TsTimes'
    <3>1. TsEmpty("odd")' /\ tsInto'.list = "even" /\ tsInto'.n = 0 /\ tsInto'.m = 0
      BY <1>1, <2>1, <2>2 DEF TsEmpty
    <3> QED  BY <2>1, <3>1 DEF TsTimes, TsFresh, TsPartly
  <2>5. TsNoted'
    <3>1. \A i \in 1..Len(tsList) : ~TsLost(tsList[i])
      <4>1. \A m \in TsMs : TsUnread[m].gen # -2
        BY DEF TsUnread, TsMs
      <4> QED  BY <2>2, <4>1 DEF TsEmpty, TsLost, TsHalves
    <3>2. \A i \in 1..Len(tsList) : tsList[i] \notin tsOnline => tsGone[tsList[i]] = 0
      BY <1>1, <1>2 DEF TsInv, TsNoted
    <3> QED  BY <1>1, <2>1, <3>1, <3>2 DEF TsNoted, TsLost
  <2> QED  BY <1>1, <2>1, <2>3, <2>4, <2>5, TsWorthKept, TsTrueKept DEF TsInv
<1>3. CASE tsScan.for = "verify" /\ tsNeed'
  <2>1. tsAt' = "scan" /\ tsScan' = [left |-> tsOnline, for |-> "init", n |-> 0] /\ tsList' = <<>> /\ UNCHANGED tsInto
    BY <1>3 DEF for_all_cpus, re_initialize, TsBeginScan
  <2>2. TsTyped'
    BY <1>1, <2>1 DEF TsInv, TsTyped
  <2>3. TsTimes'
    BY <2>1, TsNoLists DEF TsTimes
  <2> QED  BY <1>1, <2>1, <2>2, <2>3, TsNoLists, TsWorthKept, TsTrueKept DEF TsInv
<1>4. CASE tsScan.for = "verify" /\ ~tsNeed'
  <2>1. tsAt' = "sleep" /\ UNCHANGED <<tsScan, tsList, tsInto>>
    BY <1>4 DEF for_all_cpus
  <2>2. ~tsNeed
    <3>1. tsNeed' = (tsNeed \/ tsScan.n # tsNum)
      BY <1>4, Zenon DEF for_all_cpus
    <3> QED  BY <1>4, <3>1, Zenon
  <2>3. TsTyped'
    BY <1>1, <2>1 DEF TsInv, TsTyped
  <2>4. TsTimes'
    BY <1>1, <1>4, <2>1 DEF TsInv, TsTimes, TsFresh, TsTaken
  <2>5. TsNoted'
    BY <1>1, <1>4, <2>1, <2>2 DEF TsInv, TsNoted, TsLost
  <2> QED  BY <1>1, <2>1, <2>3, <2>4, <2>5, TsWorthKept, TsTrueKept DEF TsInv
<1>5. tsScan.for \in {"init", "verify"}
  BY DEF TsInv, TsTyped
<1> QED  BY <1>2, <1>3, <1>4, <1>5

(* A reading: of a CPU that is there it is worth the time it was taken.    *)
LEMMA TsCounted ==
  ASSUME TsInv, get_counters
  PROVE  TsInv'
<1> DEFINE c == tsList[tsInto.n + 1]
           e == tsInto.m + 1
           h == tsInto.list
           o == TsOther(h)
           r == get_msr(c)
           N == Len(tsList)
<1>0. /\ tsAt = "read" /\ tsInto.n < N
      /\ UNCHANGED <<tsMode, tsScan, tsList, tsNum, tsRows, tsOnline, tsBase, tsGen, tsPlugs, tsNow, tsGone>>
  BY DEF get_counters, tsMachine
<1>a. CASE tsAt' = "exit" /\ UNCHANGED <<tsCnt, tsNeed, tsInto>>
  <2>1. TsTyped' /\ TsOrdered(tsList') /\ TsTimes'
    BY <1>0, <1>a DEF TsInv, TsTyped, TsTimes
  <2>2. TsNoted'
    BY <1>0, <1>a DEF TsInv, TsNoted, TsLost
  <2> QED  BY <1>0, <1>a, <2>1, <2>2, TsWorthKept, TsTrueKept DEF TsInv
<1>b. ASSUME tsCnt' = [tsCnt EXCEPT ![h][c][e] = r], tsNeed' = TsNoticed(c), UNCHANGED tsAt,
             tsInto' = IF e < TsMsrs THEN [tsInto EXCEPT !.m = e] ELSE [tsInto EXCEPT !.n = @ + 1, !.m = 0]
      PROVE  TsInv'
  <2>1. /\ tsAt = "read" /\ tsInto.n < N
        /\ UNCHANGED <<tsAt, tsMode, tsScan, tsList, tsNum, tsRows, tsOnline, tsBase, tsGen, tsPlugs, tsNow, tsGone>>
    BY <1>0, <1>b
  <2>2. /\ tsList \in Seq(TsCpus) /\ N \in Nat /\ tsInto.n \in Nat /\ h \in TsHalves /\ o \in TsHalves /\ o # h
        /\ TsHalves = {h, o} /\ tsCnt \in [TsHalves -> [TsCpus -> TsReadings]] /\ tsNow \in Nat /\ tsOnline \subseteq TsCpus
        /\ tsBase \in [TsCpus -> Int] /\ tsGen \in [TsCpus -> Nat] /\ TsModulus \in Nat \ {0}
        /\ TsMsrs \in Nat \ {0} /\ tsInto.m \in 0..(TsMsrs - 1)
    BY TsNumbers DEF TsInv, TsTyped, TsOther, TsHalves
  <2>3. c \in TsCpus /\ e \in TsMs
    <3>1. c \in TsCpus
      BY <2>1, <2>2
    <3>2. e \in TsMs
      BY <2>2 DEF TsMs
    <3> QED  BY <3>1, <3>2
  <2>4. /\ r \in TsReading /\ r.t = tsNow /\ r.gen # -1 /\ r.gen >= -2 /\ r.gen <= tsGen[c]
        /\ (r.gen = -2 <=> c \notin tsOnline)
        /\ c \in tsOnline => r.gen = tsGen[c] /\ r.v = (tsBase[c] + r.t) % TsModulus
    <3> HIDE DEF c
    <3>0. tsGen[c] \in Nat /\ tsBase[c] \in Int /\ tsNow \in Nat
      BY <2>2, <2>3
    <3>1. tsGen[c] \in Nat /\ tsBase[c] + tsNow \in Int /\ (tsBase[c] + tsNow) % TsModulus \in Nat
      <4>1. tsBase[c] + tsNow \in Int
        BY <3>0
      <4> QED  BY <3>0, <4>1, TsCounts
    <3> DEFINE w == (tsBase[c] + tsNow) % TsModulus
    <3>w. w \in Nat
      BY <3>1
    <3>2. CASE c \in tsOnline
      <4>1. r = [v |-> w, t |-> tsNow, gen |-> tsGen[c]]
        BY <3>2 DEF get_msr
      <4> HIDE DEF r, w
      <4>2. r.v = w /\ r.t = tsNow /\ r.gen = tsGen[c] /\ r \in TsReading
        BY <3>0, <3>w, <4>1 DEF TsReading
      <4>3. w = (tsBase[c] + r.t) % TsModulus
        BY <4>2 DEF w
      <4> QED  BY <3>0, <3>2, <4>2, <4>3
    <3>3. CASE c \notin tsOnline
      <4>1. r = [v |-> 0, t |-> tsNow, gen |-> -2]
        BY <3>3 DEF get_msr
      <4> HIDE DEF r
      <4> QED  BY <3>0, <3>3, <4>1 DEF TsReading
    <3> QED  BY <3>2, <3>3
  <2> HIDE DEF r
  <2>5. /\ tsCnt' \in [TsHalves -> [TsCpus -> TsReadings]] /\ tsCnt'[h][c][e] = r
        /\ \A d \in TsCpus, m \in TsMs : d # c \/ m # e => tsCnt'[h][d][m] = tsCnt[h][d][m]
        /\ \A d \in TsCpus : tsCnt'[o][d] = tsCnt[o][d]
    <3> HIDE DEF c, e, h, o
    <3> DEFINE old == tsCnt[h][c]
               new == [old EXCEPT ![e] = r]
    <3>1. old \in TsReadings
      BY <2>2, <2>3
    <3>2. new \in TsReadings /\ new[e] = r /\ \A m \in TsMs : m # e => new[m] = old[m]
      BY <2>3, <2>4, <3>1 DEF TsReadings
    <3>3. tsCnt' = [tsCnt EXCEPT ![h] = [tsCnt[h] EXCEPT ![c] = new]]
      BY <1>b
    <3> HIDE DEF new
    <3>4. /\ tsCnt' \in [TsHalves -> [TsCpus -> TsReadings]] /\ tsCnt'[h][c] = new
          /\ \A d \in TsCpus : d # c => tsCnt'[h][d] = tsCnt[h][d]
          /\ \A d \in TsCpus : tsCnt'[o][d] = tsCnt[o][d]
      BY <2>2, <2>3, <3>2, <3>3
    <3> QED  BY <3>2, <3>4
  <2>6. /\ tsInto' \in [list : TsHalves, n : Nat, m : 0..(TsMsrs - 1)] /\ tsInto'.list = h /\ tsInto'.n <= N
        /\ \/ e < TsMsrs /\ tsInto'.n = tsInto.n /\ tsInto'.m = e
           \/ e = TsMsrs /\ tsInto'.n = tsInto.n + 1 /\ tsInto'.m = 0
    <3>1. tsInto \in [list : TsHalves, n : Nat, m : 0..(TsMsrs - 1)]
      BY DEF TsInv, TsTyped
    <3>2. PICK k \in TsHalves, n \in Nat, m \in 0..(TsMsrs - 1) : tsInto = [list |-> k, n |-> n, m |-> m]
      BY <3>1
    <3>e. e = m + 1 /\ tsInto.n = n /\ h = k
      BY <3>2
    <3>3. CASE e < TsMsrs
      <4>0. tsInto' = [tsInto EXCEPT !.m = m + 1]
        BY <1>b, <3>3, <3>e
      <4>a. m + 1 \in 0..(TsMsrs - 1)
        <5> HIDE DEF e
        <5> QED  BY <2>2, <3>3, <3>e
      <4>b. tsInto' = [list |-> k, n |-> n, m |-> m + 1]
        BY <3>2, <4>0
      <4>1. tsInto' = [list |-> k, n |-> n, m |-> m + 1] /\ m + 1 \in 0..(TsMsrs - 1)
        BY <4>a, <4>b
      <4> QED  BY <2>1, <2>2, <3>2, <3>3, <4>1
    <3>4. CASE ~(e < TsMsrs)
      <4>0. tsInto' = [tsInto EXCEPT !.n = n + 1, !.m = 0]
        BY <1>b, <3>2, <3>4
      <4>1. tsInto' = [list |-> k, n |-> n + 1, m |-> 0] /\ n + 1 \in Nat /\ 0 \in 0..(TsMsrs - 1) /\ e = TsMsrs
        <5>1. tsInto' = [list |-> k, n |-> n + 1, m |-> 0]
          BY <3>2, <4>0
        <5>2. n + 1 \in Nat /\ 0 \in 0..(TsMsrs - 1) /\ e = TsMsrs
          <6> HIDE DEF e
          <6> QED  BY <2>2, <3>4, <3>e
        <5> QED  BY <5>1, <5>2
      <4> QED  BY <2>1, <2>2, <3>2, <4>1
    <3> QED  BY <3>3, <3>4
  <2>7. (c \notin tsOnline => tsNeed') /\ (tsNeed => tsNeed')
    <3>1. tsNeed' = (tsNeed \/ c \notin tsOnline)
      BY <1>b, Zenon DEF TsNoticed
    <3> QED  BY <3>1, Zenon
  <2>8. TsTyped'
    BY <2>1, <2>5, <2>6 DEF TsInv, TsTyped
  <2>9. ASSUME NEW d \in TsCpus, NEW m \in TsMs PROVE TsWorth(d, m)'
    <3>1. TsWorth(d, m)
      BY DEF TsInv
    <3>2. CASE d # c \/ m # e
      <4>1. \A k \in TsHalves : tsCnt'[k][d][m] = tsCnt[k][d][m]
        BY <2>2, <2>5, <3>2
      <4> QED  BY <2>1, <3>1, <4>1 DEF TsWorth, TsHalves
    <3>3. CASE d = c /\ m = e
      <4> DEFINE q == tsCnt[o][c][e]
      <4>1. q \in TsReading /\ q.gen <= tsGen[c] /\ (q.gen = tsGen[c] => q.v = (tsBase[c] + q.t) % TsModulus)
        <5>1. q \in TsReading
          <6> HIDE DEF c, e, h, o
          <6> QED  BY <2>2, <2>3 DEF TsReadings
        <5>2. TsWorth(c, e)
          BY <3>1, <3>3
        <5> HIDE DEF c, e, h, o
        <5> QED  BY <2>2, <5>1, <5>2 DEF TsWorth
      <4>2. TsAlike(r, q) /\ TsAlike(q, r)
        <5>1. SUFFICES ASSUME r.gen = q.gen, r.gen >= 0
                       PROVE  /\ (r.v - q.v) % TsModulus = (r.t - q.t) % TsModulus
                              /\ (q.v - r.v) % TsModulus = (q.t - r.t) % TsModulus
          BY DEF TsAlike
        <5>2. r.v = (tsBase[c] + r.t) % TsModulus /\ q.v = (tsBase[c] + q.t) % TsModulus
          BY <2>4, <4>1, <5>1
        <5>3. tsBase[c] \in Int /\ r.t \in Int /\ q.t \in Int
          <6> HIDE DEF q, c
          <6> QED  BY <2>2, <2>3, <2>4, <4>1 DEF TsReading
        <5> HIDE DEF q, c
        <5>4. /\ (((tsBase[c] + r.t) % TsModulus) - ((tsBase[c] + q.t) % TsModulus)) % TsModulus = (r.t - q.t) % TsModulus
              /\ (((tsBase[c] + q.t) % TsModulus) - ((tsBase[c] + r.t) % TsModulus)) % TsModulus = (q.t - r.t) % TsModulus
          <6>1. \A b, x, y \in Int : (((b + x) % TsModulus) - ((b + y) % TsModulus)) % TsModulus = (x - y) % TsModulus
            BY <2>2, ModDiff
          <6> QED  BY <5>3, <6>1, Zenon
        <5> QED  BY <5>2, <5>4, Zenon
      <4>3. ASSUME NEW k \in TsHalves
            PROVE  LET x == tsCnt'[k][c][e] IN
               /\ x.gen >= -2 /\ x.gen <= tsGen[c]
               /\ x.gen = tsGen[c] => c \in tsOnline /\ x.v = (tsBase[c] + x.t) % TsModulus
        <5>1. r.gen = tsGen[c] => c \in tsOnline
          BY <2>2, <2>3, <2>4
        <5>2. TsWorth(c, e)
          BY <3>1, <3>3
        <5>3. tsCnt'[h][c][e] = r /\ tsCnt'[o][c][e] = tsCnt[o][c][e]
          BY <2>3, <2>5
        <5> HIDE DEF c, e, h, o
        <5>4. CASE k = h
          BY <2>4, <5>1, <5>3, <5>4
        <5>5. CASE k = o
          BY <5>2, <5>3, <5>5 DEF TsWorth
        <5> QED  BY <2>2, <5>4, <5>5
      <4>4. TsAlike(tsCnt'["even"][c][e], tsCnt'["odd"][c][e]) /\ TsAlike(tsCnt'["odd"][c][e], tsCnt'["even"][c][e])
        <5>1. tsCnt'[h][c][e] = r /\ tsCnt'[o][c][e] = q
          BY <2>3, <2>5
        <5>2. (h = "even" /\ o = "odd") \/ (h = "odd" /\ o = "even")
          BY <2>2 DEF TsHalves
        <5> HIDE DEF q, h, o, c, e
        <5> QED  BY <4>2, <5>1, <5>2
      <4> HIDE DEF c, e
      <4> QED  BY <2>1, <3>3, <4>3, <4>4 DEF TsWorth, TsAlike
    <3> QED  BY <3>2, <3>3
  <2>10. TsTimes'
    <3>1. TsFresh(h, tsInto.n) /\ TsPartly(h, tsInto.n, tsInto.m) /\ ((h = "even" /\ TsEmpty("odd")) \/ TsPrior(o))
      BY <2>1 DEF TsInv, TsTimes
    <3>2. \A i \in 1..N : tsList[i] \in TsCpus
      BY <2>2
    <3> DEFINE Now(d, m) == tsCnt'[h][d][m].gen # -1 /\ tsCnt'[h][d][m].t = tsNow
    <3>3. \A m \in 1..e : Now(c, m)
      <4> TAKE m \in 1..e
      <4>1. m \in TsMs /\ (m = e \/ m \in 1..tsInto.m)
        BY <2>2, <2>3 DEF TsMs
      <4>2. m # e => TsTaken(h, c, m)
        BY <2>1, <3>1, <4>1 DEF TsPartly
      <4> HIDE DEF c, h, e
      <4> QED  BY <2>3, <2>4, <2>5, <4>1, <4>2 DEF TsTaken
    <3>4. \A i \in 1..tsInto.n, m \in TsMs : Now(tsList[i], m)
      <4> TAKE i \in 1..tsInto.n, m \in TsMs
      <4>1. i \in 1..N /\ TsTaken(h, tsList[i], m)
        BY <2>1, <2>2, <3>1 DEF TsFresh
      <4> HIDE DEF c, h, e
      <4> QED  BY <2>3, <2>4, <2>5, <3>2, <4>1 DEF TsTaken
    <3>5. h = "even" => o = "odd"
      BY DEF TsOther
    <3>6. TsFresh(tsInto.list, tsInto.n)' /\ TsPartly(tsInto.list, tsInto.n, tsInto.m)'
      <4> HIDE DEF Now
      <4>0. \A d, m : Now(d, m) => tsCnt'[tsInto'.list][d][m].gen # -1 /\ tsCnt'[tsInto'.list][d][m].t = tsNow'
        BY <2>1, <2>6 DEF Now
      <4>1. CASE e < TsMsrs /\ tsInto'.n = tsInto.n /\ tsInto'.m = e
        BY <2>1, <3>3, <3>4, <4>0, <4>1 DEF TsFresh, TsPartly, TsTaken
      <4>2. CASE e = TsMsrs /\ tsInto'.n = tsInto.n + 1 /\ tsInto'.m = 0
        <5>1. \A i \in 1..(tsInto.n + 1) : i \in 1..tsInto.n \/ tsList[i] = c
          BY <2>2
        <5>2. \A m \in TsMs : Now(c, m)
          BY <3>3, <4>2 DEF TsMs
        <5>3. \A i \in 1..(tsInto.n + 1), m \in TsMs : Now(tsList[i], m)
          <6> HIDE DEF c
          <6> QED  BY <3>4, <5>1, <5>2
        <5> QED  BY <2>1, <4>0, <4>2, <5>3 DEF TsFresh, TsPartly, TsTaken
      <4> QED  BY <2>6, <4>1, <4>2
    <3> HIDE DEF c, e, o
    <3>7. h = "even" /\ TsEmpty("odd") => TsEmpty("odd")'
      BY <2>1, <2>5, <3>2, <3>5 DEF TsEmpty
    <3>8. TsPrior(o) => TsPrior(o)'
      <4> SUFFICES ASSUME TsPrior(o), NEW i \in 1..N, NEW m \in TsMs
                   PROVE  tsCnt'[o][tsList[i]][m].gen # -1 /\ tsNow - tsCnt'[o][tsList[i]][m].t \in 1..(TsModulus - 1)
        BY <2>1, <2>6 DEF TsPrior, o
      <4> QED  BY <2>5, <3>2 DEF TsPrior
    <3>9. o' = o
      BY <2>6 DEF o
    <3> QED  BY <2>1, <2>6, <3>1, <3>6, <3>7, <3>8, <3>9 DEF TsTimes, o
  <2>11. TsNoted'
    <3>1. ASSUME NEW i \in 1..N, TsLost(tsList[i])' PROVE TsLost(tsList[i]) \/ (tsList[i] = c /\ c \notin tsOnline)
      <4>1. PICK k \in TsHalves, m \in TsMs : tsCnt'[k][tsList[i]][m].gen = -2
        BY <2>1, <3>1 DEF TsLost
      <4>2. tsList[i] \in TsCpus
        BY <2>2
      <4>3. CASE k = h /\ tsList[i] = c /\ m = e
        BY <2>4, <2>5, <4>1, <4>3
      <4>4. CASE ~(k = h /\ tsList[i] = c /\ m = e)
        <5> HIDE DEF c, e, h, o
        <5>1. tsCnt'[k][tsList[i]][m] = tsCnt[k][tsList[i]][m]
          BY <2>2, <2>5, <4>2, <4>4
        <5> QED  BY <4>1, <5>1 DEF TsLost
      <4> QED  BY <4>3, <4>4
    <3>2. \A i \in 1..N : /\ TsLost(tsList[i]) => tsNeed
                          /\ tsList[i] \notin tsOnline \/ TsLost(tsList[i]) => tsGone[tsList[i]] = 0
      BY <2>1 DEF TsInv, TsNoted
    <3> QED  BY <2>1, <2>7, <3>1, <3>2 DEF TsNoted
  <2> QED  BY <2>1, <2>8, <2>9, <2>10, <2>11, TsTrueKept DEF TsInv
<1> QED  BY <1>a, <1>b DEF get_counters

(* A round of turbostat_loop: its table is true, and lists with a reading  *)
(* of a CPU that had gone are thrown away before there is another table.   *)
LEMMA TsLooped ==
  ASSUME TsInv, turbostat_loop
  PROVE  TsInv'
<1> DEFINE N == Len(tsList)
           h == tsInto.list
<1>1. /\ tsAt = "read" /\ tsInto.n = N
      /\ UNCHANGED <<tsMode, tsCnt, tsNum, tsNeed, tsOnline, tsBase, tsGen, tsPlugs, tsNow>>
  BY DEF turbostat_loop, tsMachine
<1>2. h \in TsHalves /\ TsFresh(h, N) /\ ((h = "even" /\ TsEmpty("odd")) \/ TsPrior(TsOther(h)))
  BY <1>1 DEF TsInv, TsTyped, TsTimes
<1>3. CASE ~TsFirst /\ TsTscStopped
  <2>1. tsAt' = "exit" /\ UNCHANGED <<tsRows, tsGone, tsScan, tsList, tsInto>>
    BY <1>3 DEF turbostat_loop
  <2>2. TsTyped' /\ TsTimes'
    BY <1>1, <2>1 DEF TsInv, TsTyped, TsTimes
  <2>3. TsNoted' /\ TsOrdered(tsList')
    BY <1>1, <2>1 DEF TsInv, TsNoted, TsLost
  <2> QED  BY <1>1, <2>1, <2>2, <2>3, TsWorthKept, TsTrueKept DEF TsInv
<1>4. CASE TsFirst \/ ~TsTscStopped
  <2>1. /\ TsTrue' /\ tsGone' \in [TsCpus -> Nat]
        /\ \A c \in TsCpus : tsGone'[c] = tsGone[c] \/ (TsLost(c) /\ \E i \in 1..N : tsList[i] = c)
    <3>1. CASE TsFirst
      <4>1. UNCHANGED <<tsRows, tsGone>>
        BY <3>1 DEF turbostat_loop
      <4> QED  BY <4>1, TsTrueKept DEF TsInv, TsTyped
    <3>2. CASE ~TsFirst
      <4>1. ~TsTscStopped
        BY <1>4, <3>2
      <4>2. print_counters
        BY <3>2, <4>1 DEF turbostat_loop
      <4>3. TsPrior(TsOther(h))
        BY <1>2, <3>2 DEF TsFirst, TsEmpty
      <4> QED  BY <1>1, <4>1, <4>2, <4>3, TsPrinted
    <3> QED  BY <3>1, <3>2
  <2>2. ~tsNeed => \A i \in 1..N : tsList[i] \notin tsOnline \/ TsLost(tsList[i]) => tsGone'[tsList[i]] = 0
    <3> SUFFICES ASSUME ~tsNeed, NEW i \in 1..N, tsList[i] \notin tsOnline \/ TsLost(tsList[i])
                 PROVE  tsGone'[tsList[i]] = 0
      OBVIOUS
    <3>1. tsList[i] \in TsCpus /\ ~TsLost(tsList[i])
      BY DEF TsInv, TsNoted, TsTyped
    <3>2. tsGone[tsList[i]] = 0
      BY <1>1 DEF TsInv, TsNoted
    <3> QED  BY <2>1, <3>1, <3>2
  <2>3. CASE h = "even"
    <3>1. tsAt' = "scan" /\ tsScan' = [left |-> tsOnline, for |-> "verify", n |-> 0] /\ UNCHANGED <<tsList, tsInto>>
      BY <1>4, <2>3 DEF turbostat_loop, TsBeginScan
    <3>2. TsTyped'
      BY <1>1, <2>1, <3>1 DEF TsInv, TsTyped
    <3>3. TsTimes'
      BY <1>1, <1>2, <2>3, <3>1 DEF TsTimes, TsFresh, TsTaken
    <3>4. TsNoted' /\ TsOrdered(tsList')
      BY <1>1, <2>2, <3>1 DEF TsInv, TsNoted, TsLost
    <3> QED  BY <1>1, <2>1, <3>1, <3>2, <3>3, <3>4, TsWorthKept DEF TsInv
  <2>4. CASE h = "odd" /\ tsNeed
    <3>1. tsAt' = "scan" /\ tsScan' = [left |-> tsOnline, for |-> "init", n |-> 0] /\ tsList' = <<>> /\ UNCHANGED tsInto
      BY <1>4, <2>4 DEF turbostat_loop, TsBeginScan, re_initialize
    <3>2. TsTyped'
      BY <1>1, <2>1, <3>1 DEF TsInv, TsTyped
    <3>3. TsTimes'
      BY <3>1, TsNoLists DEF TsTimes
    <3> QED  BY <1>1, <2>1, <3>1, <3>2, <3>3, TsNoLists, TsWorthKept DEF TsInv
  <2>5. CASE h = "odd" /\ ~tsNeed
    <3>1. tsAt' = "sleep" /\ UNCHANGED <<tsScan, tsList, tsInto>>
      BY <1>4, <2>5 DEF turbostat_loop
    <3>2. TsTyped'
      BY <1>1, <2>1, <3>1 DEF TsInv, TsTyped
    <3>3. TsTimes'
      BY <1>1, <1>2, <3>1 DEF TsTimes, TsFresh, TsTaken
    <3>4. TsNoted' /\ TsOrdered(tsList')
      BY <1>1, <2>2, <2>5, <3>1 DEF TsInv, TsNoted, TsLost
    <3> QED  BY <1>1, <2>1, <3>1, <3>2, <3>3, <3>4, TsWorthKept DEF TsInv
  <2> QED  BY <1>2, <2>3, <2>4, <2>5 DEF TsHalves
<1> QED  BY <1>3, <1>4

(* fork_it: the readings before the command, then those after it.          *)
LEMMA TsForked ==
  ASSUME TsInv, fork_it
  PROVE  TsInv'
<1> DEFINE N == Len(tsList)
           h == tsInto.list
<1>1. /\ tsAt = "read" /\ tsInto.n = N
      /\ UNCHANGED <<tsMode, tsScan, tsList, tsCnt, tsInto, tsNum, tsNeed, tsOnline, tsBase, tsGen, tsPlugs, tsNow>>
  BY DEF fork_it, tsMachine
<1>2. h \in TsHalves /\ TsFresh(h, N) /\ ((h = "even" /\ TsEmpty("odd")) \/ TsPrior(TsOther(h)))
  BY <1>1 DEF TsInv, TsTyped, TsTimes
<1>3. CASE h = "even"
  <2>1. tsAt' = "sleep" /\ UNCHANGED <<tsRows, tsGone>>
    BY <1>3 DEF fork_it
  <2>2. TsTyped' /\ TsOrdered(tsList')
    BY <1>1, <2>1 DEF TsInv, TsTyped
  <2>3. TsTimes'
    BY <1>1, <1>2, <2>1 DEF TsTimes, TsFresh, TsTaken
  <2>4. TsNoted'
    BY <1>1, <2>1 DEF TsInv, TsNoted, TsLost
  <2> QED  BY <1>1, <2>1, <2>2, <2>3, <2>4, TsWorthKept, TsTrueKept DEF TsInv
<1>4. CASE h = "odd"
  <2>1. tsAt' = "exit"
    BY <1>4 DEF fork_it
  <2>2. TsTrue' /\ tsGone' \in [TsCpus -> Nat]
    <3>1. CASE TsTscStopped
      <4>1. UNCHANGED <<tsRows, tsGone>>
        BY <1>4, <3>1 DEF fork_it
      <4> QED  BY <4>1, TsTrueKept DEF TsInv, TsTyped
    <3>2. CASE ~TsTscStopped
      <4>1. print_counters
        BY <1>4, <3>2 DEF fork_it
      <4> QED  BY <1>1, <1>2, <1>4, <3>2, <4>1, TsPrinted
    <3> QED  BY <3>1, <3>2
  <2>3. TsTyped' /\ TsOrdered(tsList') /\ TsTimes'
    BY <1>1, <2>1, <2>2 DEF TsInv, TsTyped, TsTimes
  <2>4. TsNoted'
    BY <1>1, <2>1 DEF TsInv, TsNoted, TsLost
  <2> QED  BY <1>1, <2>1, <2>2, <2>3, <2>4, TsWorthKept DEF TsInv
<1> QED  BY <1>2, <1>3, <1>4 DEF TsHalves

LEMMA TsDumped ==
  ASSUME TsInv, dump_vals
  PROVE  TsInv'
<1>1. tsAt' = "exit" /\ UNCHANGED <<tsMode, tsScan, tsList, tsCnt, tsInto, tsNum, tsNeed, tsRows, tsNow, tsGone>>
  BY DEF dump_vals
<1>2. UNCHANGED <<tsOnline, tsBase, tsGen, tsPlugs>>
  BY DEF dump_vals, tsMachine
<1>3. TsTyped' /\ TsOrdered(tsList') /\ TsTimes'
  BY <1>1, <1>2 DEF TsInv, TsTyped, TsTimes
<1>4. TsNoted'
  BY <1>1, <1>2 DEF TsInv, TsNoted, TsLost
<1> QED  BY <1>1, <1>2, <1>3, <1>4, TsWorthKept, TsTrueKept DEF TsInv

(* An interval: the readings just taken are the ones to compare with.      *)
LEMMA TsSlept ==
  ASSUME TsInv, TsSleep
  PROVE  TsInv'
<1> DEFINE N == Len(tsList)
           h == tsInto.list
<1>1. /\ tsAt = "sleep" /\ tsAt' = "read" /\ tsInto' = [list |-> TsOther(h), n |-> 0, m |-> 0]
      /\ UNCHANGED <<tsMode, tsScan, tsList, tsCnt, tsNum, tsNeed, tsRows, tsOnline, tsBase, tsGen, tsPlugs, tsGone>>
  BY DEF TsSleep, TsRead, tsMachine
<1>2. PICK d \in TsSleeps : tsNow' = tsNow + d
  BY DEF TsSleep
<1>3. d \in 1..(TsModulus - 1) /\ tsNow \in Nat /\ tsNow' \in Nat /\ N \in Nat
  <2>1. d \in 1..(TsModulus - 1) /\ TsModulus \in Nat
    BY TsNumbers
  <2>2. tsNow \in Nat /\ N \in Nat
    BY DEF TsInv, TsTyped
  <2> QED  BY <1>2, <2>1, <2>2
<1>4. h \in TsHalves /\ TsOther(h) \in TsHalves /\ TsOther(TsOther(h)) = h
  BY DEF TsInv, TsTyped, TsHalves, TsOther
<1>5. TsTyped' /\ TsOrdered(tsList')
  <2>1. tsInto' \in [list : TsHalves, n : Nat, m : 0..(TsMsrs - 1)] /\ tsInto'.n = 0
    BY <1>1, <1>4, TsNumbers
  <2> QED  BY <1>1, <1>3, <2>1 DEF TsInv, TsTyped
<1>6. TsFresh(h, N)
  BY <1>1 DEF TsInv, TsTimes
<1>7. \A i \in 1..N, m \in TsMs :
        tsCnt[h][tsList[i]][m].gen # -1 /\ tsNow' - tsCnt[h][tsList[i]][m].t \in 1..(TsModulus - 1)
  <2> TAKE i \in 1..N, m \in TsMs
  <2>1. tsCnt[h][tsList[i]][m].gen # -1 /\ tsCnt[h][tsList[i]][m].t = tsNow
    BY <1>6 DEF TsFresh, TsTaken
  <2>2. (tsNow + d) - tsNow = d
    BY <1>3
  <2> QED  BY <1>2, <1>3, <2>1, <2>2
<1>8. TsTimes'
  <2>1. tsInto'.list = TsOther(h) /\ tsInto'.n = 0 /\ tsInto'.m = 0 /\ TsOther(tsInto'.list) = h
    BY <1>1, <1>4
  <2> HIDE DEF h
  <2> QED  BY <1>1, <1>7, <2>1 DEF TsTimes, TsFresh, TsPartly, TsPrior
<1>9. TsNoted'
  BY <1>1 DEF TsInv, TsNoted, TsLost
<1> QED  BY <1>1, <1>5, <1>8, <1>9, TsWorthKept, TsTrueKept DEF TsInv

(* A CPU goes away, so that its earlier readings are of an earlier life of *)
(* it, or comes back, when no reading is of its present life.              *)
LEMMA TsPlugged ==
  ASSUME TsInv, TsPlug
  PROVE  TsInv'
<1>1. /\ tsAt \notin {"new", "exit"}
      /\ UNCHANGED <<tsAt, tsMode, tsScan, tsList, tsCnt, tsInto, tsNum, tsNeed, tsRows, tsNow>>
  BY DEF TsPlug, tsProgram
<1>2. PICK c \in TsCpus :
        \/ /\ c \in tsOnline /\ tsOnline' = tsOnline \ {c} /\ tsGen' = [tsGen EXCEPT ![c] = @ + 1]
           /\ UNCHANGED tsBase /\ tsGone' = [tsGone EXCEPT ![c] = 0]
        \/ c \notin tsOnline /\ tsOnline' = tsOnline \cup {c} /\ tsBase' = [tsBase EXCEPT ![c] = -tsNow] /\ UNCHANGED <<tsGen, tsGone>>
  BY DEF TsPlug
<1>3. /\ tsOnline \subseteq TsCpus /\ tsNow \in Nat /\ tsBase \in [TsCpus -> Int] /\ tsGen \in [TsCpus -> Nat]
      /\ tsGone \in [TsCpus -> Nat] /\ tsList \in Seq(TsCpus) /\ tsCnt \in [TsHalves -> [TsCpus -> TsReadings]]
  BY DEF TsInv, TsTyped
<1>4. /\ tsOnline' \subseteq TsCpus /\ tsBase' \in [TsCpus -> Int] /\ tsGen' \in [TsCpus -> Nat] /\ tsGone' \in [TsCpus -> Nat]
      /\ \A d \in TsCpus : d # c => /\ tsBase'[d] = tsBase[d] /\ tsGen'[d] = tsGen[d] /\ tsGone'[d] = tsGone[d]
                                    /\ d \in tsOnline' <=> d \in tsOnline
  <2>1. -tsNow \in Int /\ tsGen[c] + 1 \in Nat
    BY <1>3
  <2>2. CASE c \in tsOnline
    <3>1. /\ tsOnline' = tsOnline \ {c} /\ tsGen' = [tsGen EXCEPT ![c] = @ + 1]
          /\ UNCHANGED tsBase /\ tsGone' = [tsGone EXCEPT ![c] = 0]
      BY <1>2, <2>2
    <3>2. tsOnline' \subseteq TsCpus /\ \A d \in TsCpus : d # c => (d \in tsOnline' <=> d \in tsOnline)
      BY <1>3, <3>1
    <3>3. tsGen' \in [TsCpus -> Nat] /\ \A d \in TsCpus : d # c => tsGen'[d] = tsGen[d]
      BY <1>3, <2>1, <3>1
    <3>4. tsGone' \in [TsCpus -> Nat] /\ \A d \in TsCpus : d # c => tsGone'[d] = tsGone[d]
      BY <1>3, <3>1
    <3> QED  BY <1>3, <3>1, <3>2, <3>3, <3>4
  <2>3. CASE c \notin tsOnline
    <3>1. tsBase' = [tsBase EXCEPT ![c] = -tsNow] /\ tsOnline' = tsOnline \cup {c} /\ UNCHANGED <<tsGen, tsGone>>
      BY <1>2, <2>3
    <3> DEFINE m == -tsNow
    <3>2. m \in Int
      BY <2>1
    <3> HIDE DEF m
    <3>3. tsBase' = [tsBase EXCEPT ![c] = m]
      BY <3>1 DEF m
    <3> QED  BY <1>3, <3>1, <3>2, <3>3
  <2> QED  BY <2>2, <2>3
<1>5. \/ c \in tsOnline /\ tsGen'[c] = tsGen[c] + 1 /\ tsGone'[c] = 0
      \/ c \notin tsOnline /\ c \in tsOnline' /\ tsGen'[c] = tsGen[c] /\ tsGone'[c] = tsGone[c]
  BY <1>2, <1>3
<1>6. TsTyped' /\ TsOrdered(tsList')
  BY <1>1, <1>3, <1>4 DEF TsInv, TsTyped
<1>7. TsTimes'
  BY <1>1 DEF TsInv, TsTimes, TsFresh, TsTaken, TsPartly, TsPrior, TsEmpty
<1>8. ASSUME NEW d \in TsCpus, NEW m \in TsMs PROVE TsWorth(d, m)'
  <2>1. TsWorth(d, m) /\ \A h \in TsHalves : tsCnt[h][d][m] \in TsReading
    BY <1>3 DEF TsInv, TsReadings
  <2>2. CASE d # c
    BY <1>1, <1>4, <2>1, <2>2 DEF TsWorth, TsHalves, TsAlike
  <2>3. CASE d = c
    <3>1. tsGen[c] \in Nat /\ \A h \in TsHalves : tsCnt[h][c][m].gen \in Int
      BY <1>3, <2>1, <2>3 DEF TsReading
    <3>2. \A h \in TsHalves : LET r == tsCnt[h][c][m] IN
            r.gen >= -2 /\ r.gen <= tsGen'[c] /\ r.gen # tsGen'[c]
      BY <1>5, <2>1, <2>3, <3>1 DEF TsWorth
    <3> QED  BY <1>1, <2>1, <2>3, <3>2 DEF TsWorth, TsHalves, TsAlike
  <2> QED  BY <2>2, <2>3
<1>9. TsNoted'
  <2>1. \A d : TsLost(d)' <=> TsLost(d)
    BY <1>1 DEF TsLost
  <2>2. \A i \in 1..Len(tsList) : tsList[i] \in TsCpus
    BY <1>3
  <2>3. ASSUME NEW i \in 1..Len(tsList), tsList[i] \notin tsOnline \/ TsLost(tsList[i]) => tsGone[tsList[i]] = 0
        PROVE  tsList[i] \notin tsOnline' \/ TsLost(tsList[i]) => tsGone'[tsList[i]] = 0
    BY <1>4, <1>5, <2>2, <2>3
  <2> QED  BY <1>1, <2>1, <2>3 DEF TsInv, TsNoted
<1>10. TsTrue'
  <2>1. TsRowsTrue'
    BY <1>1 DEF TsInv, TsTrue, TsRowsTrue
  <2>2. \A d \in TsCpus : tsGone[d] <= 1
    BY DEF TsInv, TsTrue, TsGoneOnce
  <2>3. \A d \in TsCpus : tsGone'[d] <= 1
    BY <1>4, <1>5, <2>2
  <2> QED  BY <2>1, <2>3 DEF TsTrue, TsGoneOnce
<1> QED  BY <1>6, <1>7, <1>8, <1>9, <1>10 DEF TsInv

LEMMA TsInductive == TsInv /\ [TsNext]_tsVars => TsInv'
<1> SUFFICES ASSUME TsInv, [TsNext]_tsVars PROVE TsInv'
  OBVIOUS
<1>1. CASE UNCHANGED tsVars
  <2>1. UNCHANGED <<tsAt, tsMode, tsScan, tsList, tsCnt, tsInto, tsNum, tsNeed, tsRows, tsOnline, tsBase, tsGen, tsPlugs, tsNow, tsGone>>
    BY <1>1 DEF tsVars, tsProgram, tsMachine
  <2>2. TsTyped' /\ TsOrdered(tsList')
    BY <2>1 DEF TsInv, TsTyped
  <2>3. TsTimes'
    BY <2>1 DEF TsInv, TsTimes, TsFresh, TsTaken, TsPartly, TsPrior, TsEmpty
  <2>4. TsNoted'
    BY <2>1 DEF TsInv, TsNoted, TsLost
  <2> QED  BY <2>1, <2>2, <2>3, <2>4, TsWorthKept, TsTrueKept DEF TsInv
<1> QED  BY <1>1, TsStarted, TsScanned, TsScanEnds, TsCounted, TsLooped, TsForked, TsDumped, TsSlept, TsPlugged
         DEF TsNext, TsStep

LEMMA TsBegins == TsInit => TsInv
<1> SUFFICES ASSUME TsInit PROVE TsInv
  OBVIOUS
<1>1. /\ tsAt = "new" /\ tsMode = "loop" /\ tsScan = [left |-> {}, for |-> "init", n |-> 0] /\ tsList = <<>>
      /\ tsCnt = [h \in TsHalves |-> [c \in TsCpus |-> TsUnread]] /\ tsInto = [list |-> "even", n |-> 0, m |-> 0] /\ tsRows = <<>>
      /\ tsOnline = TsCpus /\ tsNow = 0 /\ tsBase = [c \in TsCpus |-> c] /\ tsGen = [c \in TsCpus |-> 0]
      /\ tsGone = [c \in TsCpus |-> 0]
  BY DEF TsInit, TsHalves
<1>2. TsUnread \in TsReadings /\ \A m \in TsMs : TsUnread[m].gen = -1
  BY DEF TsUnread, TsReading, TsReadings, TsMs
<1>3. TsTyped
  BY <1>1, <1>2, TsNumbers DEF TsTyped, TsHalves
<1>4. Len(tsList) = 0 /\ Len(tsRows) = 0
  BY <1>1
<1>5. TsOrdered(tsList) /\ TsTimes /\ TsNoted /\ TsTrue
  BY <1>1, <1>4 DEF TsOrdered, TsTimes, TsNoted, TsTrue, TsRowsTrue, TsGoneOnce
<1>6. ASSUME NEW c \in TsCpus, NEW m \in TsMs PROVE TsWorth(c, m)
  BY <1>1, <1>2 DEF TsWorth, TsHalves, TsAlike
<1> QED  BY <1>3, <1>5, <1>6 DEF TsInv

(* For any CPUs, any topology, any width of the counters and any intervals *)
(* shorter than a wrap-around: every number turbostat prints of a CPU that *)
(* was not away is the difference of two readings one interval apart, the  *)
(* rows are in order, and a CPU that has gone, be it between two of its    *)
(* counters, is in one table at most.                                      *)
THEOREM TablesTrue == ToolSpec => []TsTrue
<1>1. ToolInit => TsInv
  BY TsBegins DEF ToolInit
<1>2. TsInv /\ [ToolNext]_toolVars => TsInv'
  BY ToolMoves, TsInductive
<1>3. TsInv => TsTrue
  BY DEF TsInv
<1> QED  BY <1>1, <1>2, <1>3, PTL DEF ToolSpec
-----------------------------------------------------------------------------

(* wattsup. What is still to do ends with the request to stop the log, or  *)
(* no log is ever started; and as long as no read has failed, what is on   *)
(* the line and what the meter was asked is about the request being made.  *)

WuStoreOps == {"interval=", "mode=", "user="}
WuOps == WuStoreOps \cup {"clear", "cal", "header", "interval", "mode", "user", "start", "data", "stop"}
WuOptions == [set : SUBSET STRING, val : BOOLEAN, show : SUBSET STRING, all : BOOLEAN, nodata : BOOLEAN,
              setonly : BOOLEAN, final : BOOLEAN, count : Int]
WuTasks == [op : WuOps, strict : BOOLEAN]
WuPieces == [kind : WuOps, part : {"all", "head", "short", "tail"}]
WuTyped ==
  /\ wuAt \in {"new", "write", "read", "done"} /\ wuTodo \in Seq(WuTasks) /\ wuOpt \in WuOptions
  /\ wuRetried \in Nat /\ wuTty \in Seq(WuPieces)
  /\ wuMeter \in [reqs : Seq(WuOps), logging : BOOLEAN, sent : Nat, was : BOOLEAN] /\ wuShown \in Seq([op : WuOps, kind : WuOps])
  /\ wuAt = "new" => /\ wuTodo = <<>> /\ wuTty = <<>> /\ wuMeter.reqs = <<>> /\ ~wuMeter.logging
                     /\ wuShown = <<>> /\ wuUpset = {}
  /\ wuAt \in {"write", "read"} => wuTodo # <<>>
  /\ wuAt = "read" => wuTodo[1].op \notin WuStoreOps \cup {"start"}

(* The order of what is to do: settings, then the log, then its end.       *)
WuAfter(a, b) == (a \in {"start", "data"} => b \in {"data", "stop"}) /\ (a = "data" => b = "stop")
WuOrder ==
  /\ \A i, j \in 1..Len(wuTodo) : i < j => /\ WuAfter(wuTodo[i].op, wuTodo[j].op)
                                           /\ wuUpset = {} => wuTodo[i].op # "stop"
  /\ "user" \notin wuOpt.set => \A i \in 1..Len(wuTodo) : wuTodo[i].op # "user="

(* The meter does not log once it has looked at all it was asked.          *)
WuQuiet ==
  LET reqs == wuMeter.reqs IN
  \/ ~wuMeter.logging /\ \A j \in 1..Len(reqs) : reqs[j] # "start"
  \/ \E i \in 1..Len(reqs) : reqs[i] = "stop" /\ \A j \in 1..Len(reqs) : j > i => reqs[j] # "start"
(* It may also log as it did before, when no records were asked for.       *)
WuCalm == WuQuiet \/ (wuMeter.was /\ wuOpt.nodata)
WuNoLog == WuCalm /\ \A i \in 1..Len(wuTodo) : wuTodo[i].op \notin {"start", "data"}
WuStops ==
  /\ wuAt \in {"write", "read"} /\ (\E i \in 1..Len(wuTodo) : wuTodo[i].op \in WuStoreOps) => WuQuiet \/ wuMeter.was
  /\ "write" \notin wuUpset =>
       /\ wuAt = "done" => WuCalm \/ (wuMeter.was /\ wuRc # "ok")
       /\ wuAt = "write" => wuTodo[Len(wuTodo)].op = "stop" \/ WuNoLog
       /\ wuAt = "read" => (wuTodo[Len(wuTodo)].op = "stop" /\ (Len(wuTodo) = 1 => WuQuiet)) \/ WuNoLog

(* While records are still to be read, there are fewer than asked for.     *)
WuCounts ==
  wuOpt.count > 0 =>
    /\ WuPrinted <= wuOpt.count
    /\ wuAt \in {"write", "read"} /\ (\E i \in 1..Len(wuTodo) : wuTodo[i].op = "data") => WuPrinted < wuOpt.count

(* Requests and answers are in step.                                       *)
WuOnlyTails == \A i \in 1..Len(wuTty) : wuTty[i].part = "tail"
WuAsking ==
  LET reqs == wuMeter.reqs  op == wuTodo[1].op IN
  CASE op = "stop" -> /\ \A i \in 1..Len(reqs) : reqs[i] \in {"interval=", "mode=", "start", "stop"}
                      /\ \A i \in 1..Len(wuTty) : wuTty[i].part # "tail" => wuTty[i].kind \in {"data", "stop"}
    [] op = "data" -> /\ \A i \in 1..Len(reqs) : reqs[i] \in {"interval=", "mode=", "start"}
                      /\ \A i \in 1..Len(wuTty) : wuTty[i].part # "tail" => wuTty[i].kind = "data"
    [] OTHER -> /\ ~wuMeter.logging
                /\ wuAt = "write" => WuOnlyTails /\ \A i \in 1..Len(reqs) : reqs[i] \in {"interval=", "mode="}
                /\ wuAt = "read" =>
                     \/ /\ reqs # <<>> /\ reqs[Len(reqs)] = op /\ WuOnlyTails
                        /\ \A i \in 1..(Len(reqs) - 1) : reqs[i] \in {"interval=", "mode="}
                     \/ /\ reqs = <<>> 
                        /\ \E k \in 1..Len(wuTty) :
                             wuTty[k].kind = op /\ \A i \in 1..Len(wuTty) : i # k => wuTty[i].part = "tail"
WuInStep ==
  wuUpset = {} /\ ~wuMeter.was /\ "user" \notin wuOpt.set =>
    /\ wuAt \in {"write", "read"} => WuAsking
    /\ \A i \in 1..Len(wuShown) : WuAnswerOf(wuShown[i])

WuInv == WuTyped /\ WuOrder /\ WuStops /\ WuCounts /\ WuInStep

(* What is to do is taken from the front.                                  *)
LEMMA WuPopped ==
  ASSUME WuTyped, WuOrder, wuAt \in {"write", "read"}, WuGoOn(Tail(wuTodo)), wuOpt' = wuOpt, wuUpset' = {} => wuUpset = {}
  PROVE  /\ wuTodo' \in Seq(WuTasks) /\ Len(wuTodo) \in Nat /\ Len(wuTodo') = Len(wuTodo) - 1 /\ WuOrder'
         /\ \A i \in 1..Len(wuTodo') : wuTodo'[i] = wuTodo[i + 1]
         /\ \/ wuAt' = "done" /\ Len(wuTodo) = 1 /\ wuTodo' = <<>>
            \/ wuAt' = "write" /\ Len(wuTodo) > 1 /\ wuTodo' # <<>> /\ wuTodo'[Len(wuTodo')] = wuTodo[Len(wuTodo)]
<1> DEFINE N == Len(wuTodo)
<1>1. wuTodo \in Seq(WuTasks) /\ wuTodo # <<>>
  BY DEF WuTyped, WuTasks
<1>2. wuTodo' = Tail(wuTodo) /\ wuAt' = (IF Tail(wuTodo) = <<>> THEN "done" ELSE "write")
  BY DEF WuGoOn
<1>3. /\ wuTodo' \in Seq(WuTasks) /\ N \in Nat /\ N > 0 /\ Len(wuTodo') = N - 1
      /\ \A i \in 1..(N - 1) : wuTodo'[i] = wuTodo[i + 1]
  <2> HIDE DEF WuTasks
  <2> QED  BY <1>1, <1>2, TailFacts
<1>4. wuTodo' = <<>> <=> N = 1
  BY <1>3
<1>5. N > 1 => wuTodo'[N - 1] = wuTodo[N]
  <2>1. N > 1 => N - 1 \in 1..(N - 1) /\ (N - 1) + 1 = N
    BY <1>3
  <2> QED  BY <1>3, <2>1
<1>6. WuOrder'
  <2>1. \A i, j \in 1..N : i < j => /\ WuAfter(wuTodo[i].op, wuTodo[j].op)
                                    /\ wuUpset = {} => wuTodo[i].op # "stop"
    BY DEF WuOrder
  <2>2. "user" \notin wuOpt.set => \A i \in 1..N : wuTodo[i].op # "user="
    BY DEF WuOrder
  <2>3. \A i \in 1..(N - 1) : i + 1 \in 1..N
    BY <1>3
  <2>4. \A i, j \in 1..(N - 1) : i < j => i + 1 < j + 1
    BY <1>3
  <2>5. \A i, j \in 1..Len(wuTodo') : i < j => /\ WuAfter(wuTodo'[i].op, wuTodo'[j].op)
                                               /\ wuUpset' = {} => wuTodo'[i].op # "stop"
    BY <1>3, <2>1, <2>3, <2>4
  <2>6. "user" \notin wuOpt'.set => \A i \in 1..Len(wuTodo') : wuTodo'[i].op # "user="
    BY <1>3, <2>2, <2>3
  <2> QED  BY <2>5, <2>6 DEF WuOrder, WuAfter
<1> QED  BY <1>2, <1>3, <1>4, <1>5, <1>6

(* A packet is taken from the first piece that is not the rest of one.     *)
LEMMA WuParsed ==
  ASSUME NEW ps \in Seq(WuPieces)
  PROVE  \/ parse_packet(ps) = "error"
         \/ \E k \in 1..Len(ps) : ps[k].part # "tail" /\ ps[k].kind = parse_packet(ps)
<1> DEFINE N == Len(ps)
           First(j) == ps[j].part # "tail" /\ \A h \in 1..(j-1) : ps[h].part = "tail"
           k == CHOOSE j \in 1..N : First(j)
           S == {j \in 1..N : ps[j].part # "tail"}
<1>1. CASE \A j \in 1..N : ps[j].part = "tail"
  BY <1>1 DEF parse_packet
<1>2. CASE \E j \in 1..N : ps[j].part # "tail"
  <2>1. N \in Nat /\ S \subseteq Nat /\ S # {}
    BY <1>2
  <2>2. PICK m \in S : \A j \in S : m <= j
    <3> HIDE DEF S
    <3> QED  BY <2>1, NatLeast
  <2>3. m \in 1..N /\ First(m)
    BY <2>1, <2>2
  <2>4. k \in 1..N /\ First(k)
    <3> HIDE DEF First
    <3> QED  BY <2>3
  <2>5. parse_packet(ps) = IF ps[k].part = "head" /\ k = N THEN "error" ELSE ps[k].kind
    BY <1>2 DEF parse_packet
  <2> HIDE DEF k
  <2> QED  BY <2>4, <2>5
<1> QED  BY <1>1, <1>2

(* How many records have been printed.                                     *)
LEMMA WuMore ==
  ASSUME WuTyped, NEW x \in [op : WuOps, kind : WuOps], wuShown' = Append(wuShown, x)
  PROVE  /\ WuPrinted \in Nat /\ wuShown' \in Seq([op : WuOps, kind : WuOps])
         /\ WuPrinted' = IF x.op = "data" THEN WuPrinted + 1 ELSE WuPrinted
         /\ Len(wuShown') = Len(wuShown) + 1 /\ wuShown'[Len(wuShown) + 1] = x
         /\ \A i \in 1..Len(wuShown) : wuShown'[i] = wuShown[i]
<1> DEFINE N == Len(wuShown)
           R == [op : WuOps, kind : WuOps]
           A == {i \in DOMAIN wuShown : wuShown[i].op = "data"}
           B == {i \in DOMAIN wuShown' : wuShown'[i].op = "data"}
<1>1. wuShown \in Seq(R) /\ N \in Nat /\ DOMAIN wuShown = 1..N
  BY DEF WuTyped
<1>2. /\ wuShown' \in Seq(R) /\ Len(wuShown') = N + 1 /\ wuShown'[N + 1] = x
      /\ \A i \in 1..N : wuShown'[i] = wuShown[i]
  <2> HIDE DEF R
  <2>1. x \in R
    BY DEF R
  <2> QED  BY <1>1, <2>1, AppendFacts
<1>3. DOMAIN wuShown' = 1..(N + 1)
  BY <1>1, <1>2
<1>4. IsFiniteSet(A) /\ N + 1 \notin A
  <2>1. IsFiniteSet(1..N)
    BY <1>1, FS_Interval
  <2>2. A \subseteq 1..N
    BY <1>1
  <2>3. N + 1 \notin 1..N
    BY <1>1
  <2> HIDE DEF A
  <2> QED  BY <2>1, <2>2, <2>3, FS_Subset
<1>5. Cardinality(A) \in Nat /\ Cardinality(A \cup {N + 1}) = Cardinality(A) + 1
  <2> HIDE DEF A
  <2>1. Cardinality(A) \in Nat
    BY <1>4, FS_CardinalityType
  <2>2. Cardinality(A \cup {N + 1}) = Cardinality(A) + 1
    BY <1>4, FS_AddElement
  <2> QED  BY <2>1, <2>2
<1>6. \A i \in 1..(N + 1) : i \in 1..N \/ i = N + 1
  BY <1>1
<1>7. x.op = "data" => B = A \cup {N + 1}
  BY <1>1, <1>2, <1>3, <1>6
<1>8. x.op # "data" => B = A
  BY <1>1, <1>2, <1>3, <1>6
<1>9. WuPrinted = Cardinality(A) /\ WuPrinted' = Cardinality(B)
  BY DEF WuPrinted
<1> HIDE DEF A, B
<1>10. CASE x.op = "data"
  BY <1>2, <1>5, <1>7, <1>9, <1>10
<1>11. CASE x.op # "data"
  BY <1>2, <1>5, <1>8, <1>9, <1>11
<1> QED  BY <1>10, <1>11

LEMMA WuNumber == WuTyped => WuPrinted \in Nat
<1> SUFFICES ASSUME WuTyped PROVE WuPrinted \in Nat
  OBVIOUS
<1> DEFINE A == {i \in DOMAIN wuShown : wuShown[i].op = "data"}
<1>1. Len(wuShown) \in Nat /\ A \subseteq 1..Len(wuShown)
  BY DEF WuTyped
<1>2. IsFiniteSet(A)
  <2> HIDE DEF A
  <2>1. IsFiniteSet(1..Len(wuShown))
    BY <1>1, FS_Interval
  <2> QED  BY <1>1, <2>1, FS_Subset
<1> HIDE DEF A
<1>3. WuPrinted = Cardinality(A)
  BY DEF WuPrinted, A
<1> QED  BY <1>2, <1>3, FS_CardinalityType

LEMMA WuMeterFields ==
  ASSUME WuTyped
  PROVE  wuMeter.reqs \in Seq(WuOps) /\ Len(wuMeter.reqs) \in Nat /\ wuMeter.logging \in BOOLEAN /\ wuMeter.sent \in Nat
         /\ wuMeter.was \in BOOLEAN
BY DEF WuTyped

(* What the meter is asked besides the start of its log leaves it as quiet *)
(* as it was, and the request to stop makes it so.                         *)
LEMMA WuAsked ==
  ASSUME WuTyped, NEW q \in WuOps, wuMeter' = [wuMeter EXCEPT !.reqs = Append(@, q)]
  PROVE  /\ wuMeter' \in [reqs : Seq(WuOps), logging : BOOLEAN, sent : Nat, was : BOOLEAN]
         /\ wuMeter'.logging = wuMeter.logging /\ wuMeter'.was = wuMeter.was /\ wuMeter'.reqs # <<>>
         /\ Len(wuMeter'.reqs) = Len(wuMeter.reqs) + 1 /\ wuMeter'.reqs[Len(wuMeter.reqs) + 1] = q
         /\ \A i \in 1..Len(wuMeter.reqs) : wuMeter'.reqs[i] = wuMeter.reqs[i]
         /\ WuQuiet /\ q # "start" => WuQuiet'
         /\ q = "stop" => WuQuiet'
<1> DEFINE N == Len(wuMeter.reqs)
<1>1. PICK r \in Seq(WuOps), l \in BOOLEAN, n \in Nat, w \in BOOLEAN : wuMeter = [reqs |-> r, logging |-> l, sent |-> n, was |-> w]
  BY DEF WuTyped
<1>2. wuMeter.reqs = r /\ wuMeter.logging = l /\ wuMeter.was = w /\ N \in Nat
  BY <1>1
<1>3. wuMeter' = [reqs |-> Append(r, q), logging |-> l, sent |-> n, was |-> w]
  BY <1>1
<1>4. /\ Append(r, q) \in Seq(WuOps) /\ Len(Append(r, q)) = N + 1 /\ Append(r, q) # <<>>
      /\ (\A i \in 1..N : Append(r, q)[i] = r[i]) /\ Append(r, q)[N + 1] = q
  <2> HIDE DEF WuOps
  <2> QED  BY <1>2, AppendFacts
<1> DEFINE s == Append(r, q)
<1>5. s \in Seq(WuOps) /\ Len(s) = N + 1 /\ s # <<>> /\ (\A i \in 1..N : s[i] = r[i]) /\ s[N + 1] = q
  BY <1>4
<1> HIDE DEF s
<1>6. wuMeter' = [reqs |-> s, logging |-> l, sent |-> n, was |-> w]
  BY <1>3 DEF s
<1>7. wuMeter'.reqs = s /\ wuMeter'.logging = l /\ wuMeter'.was = w /\ wuMeter' \in [reqs : Seq(WuOps), logging : BOOLEAN, sent : Nat, was : BOOLEAN]
  <2>1. wuMeter'.reqs = s /\ wuMeter'.logging = l /\ wuMeter'.was = w
    BY <1>6
  <2> HIDE DEF WuOps
  <2>2. s \in Seq(WuOps)
    BY <1>5
  <2>3. \A a \in Seq(WuOps), b \in BOOLEAN, c \in Nat, d \in BOOLEAN :
          [reqs |-> a, logging |-> b, sent |-> c, was |-> d] \in [reqs : Seq(WuOps), logging : BOOLEAN, sent : Nat, was : BOOLEAN]
    OBVIOUS
  <2>4. wuMeter' \in [reqs : Seq(WuOps), logging : BOOLEAN, sent : Nat, was : BOOLEAN]
    <3>1. [reqs |-> s, logging |-> l, sent |-> n, was |-> w] \in [reqs : Seq(WuOps), logging : BOOLEAN, sent : Nat, was : BOOLEAN]
      BY <2>2, <2>3
    <3> QED  BY <1>6, <3>1, Zenon
  <2> QED  BY <2>1, <2>4
<1>8. \A i \in 1..(N + 1) : i \in 1..N \/ i = N + 1
  BY <1>2
<1>9. ASSUME WuQuiet, q # "start" PROVE WuQuiet'
  <2>1. CASE ~l /\ \A j \in 1..N : r[j] # "start"
    BY <1>2, <1>5, <1>7, <1>8, <1>9, <2>1 DEF WuQuiet
  <2>2. CASE \E i \in 1..N : r[i] = "stop" /\ \A j \in 1..N : j > i => r[j] # "start"
    <3>1. PICK i \in 1..N : r[i] = "stop" /\ \A j \in 1..N : j > i => r[j] # "start"
      BY <2>2
    <3>2. i \in 1..(N + 1) /\ s[i] = "stop" /\ \A j \in 1..(N + 1) : j > i => s[j] # "start"
      BY <1>2, <1>5, <1>8, <1>9, <3>1
    <3>3. Len(wuMeter'.reqs) = N + 1
      BY <1>5, <1>7
    <3> QED  BY <1>7, <3>2, <3>3 DEF WuQuiet
  <2> QED  BY <1>2, <1>9, <2>1, <2>2 DEF WuQuiet
<1>10. ASSUME q = "stop" PROVE WuQuiet'
  <2>1. N + 1 \in 1..(N + 1) /\ \A j \in 1..(N + 1) : ~(j > N + 1)
    BY <1>2
  <2> QED  BY <1>5, <1>7, <1>10, <2>1 DEF WuQuiet
<1> QED  BY <1>2, <1>5, <1>7, <1>9, <1>10

(* A quiet meter stays so, and the request it answers is the first one.    *)
LEMMA WuAnswered ==
  ASSUME WuTyped, WuAnswers
  PROVE  LET q == wuMeter.reqs[1]  N == Len(wuMeter.reqs) IN
         /\ N \in Nat /\ N > 0 /\ q \in WuOps
         /\ wuMeter' \in [reqs : Seq(WuOps), logging : BOOLEAN, sent : Nat, was : BOOLEAN] /\ Len(wuMeter'.reqs) = N - 1
         /\ \A i \in 1..(N - 1) : wuMeter'.reqs[i] = wuMeter.reqs[i + 1]
         /\ wuMeter'.was = wuMeter.was
         /\ q \notin {"start", "stop"} => wuMeter'.logging = wuMeter.logging
         /\ WuQuiet => WuQuiet'
         /\ IF q \in {"start", "interval=", "mode="} THEN UNCHANGED <<wuTty, wuFaults>> ELSE WuSends(q)
<1> DEFINE q == wuMeter.reqs[1]
           N == Len(wuMeter.reqs)
<1>1. PICK r \in Seq(WuOps), l \in BOOLEAN, n \in Nat, w \in BOOLEAN : wuMeter = [reqs |-> r, logging |-> l, sent |-> n, was |-> w]
  BY DEF WuTyped
<1>2. wuMeter.reqs = r /\ wuMeter.logging = l /\ wuMeter.was = w /\ N \in Nat /\ r # <<>>
  BY <1>1 DEF WuAnswers
<1> DEFINE t == Tail(r)
<1>3. t \in Seq(WuOps) /\ N > 0 /\ Len(t) = N - 1 /\ Head(r) = r[1] /\ \A i \in 1..(N - 1) : t[i] = r[i + 1]
  <2> HIDE DEF WuOps
  <2> QED  BY <1>2, TailFacts
<1>4. q = r[1] /\ q \in WuOps /\ Head(wuMeter.reqs) = q
  BY <1>2, <1>3
<1>5. /\ wuMeter' = [wuMeter EXCEPT !.reqs = Tail(@), !.logging = IF q \in {"start", "stop"} THEN q = "start" ELSE @]
      /\ IF q \in {"start", "interval=", "mode="} THEN UNCHANGED <<wuTty, wuFaults>> ELSE WuSends(q)
  BY <1>4, Zenon DEF WuAnswers
<1> HIDE DEF q, N, t
<1>6. PICK m \in BOOLEAN : /\ wuMeter' = [reqs |-> t, logging |-> m, sent |-> n, was |-> w]
                           /\ q = "start" => m = TRUE
                           /\ q = "stop" => m = FALSE
                           /\ q \notin {"start", "stop"} => m = l
  <2>1. CASE q = "start"
    <3>1. wuMeter' = [wuMeter EXCEPT !.reqs = Tail(@), !.logging = TRUE]
      BY <1>5, <2>1
    <3> QED  BY <1>1, <2>1, <3>1 DEF t
  <2>2. CASE q = "stop"
    <3>1. wuMeter' = [wuMeter EXCEPT !.reqs = Tail(@), !.logging = FALSE]
      BY <1>5, <2>2
    <3> QED  BY <1>1, <2>2, <3>1 DEF t
  <2>3. CASE q \notin {"start", "stop"}
    <3>1. wuMeter' = [wuMeter EXCEPT !.reqs = Tail(@), !.logging = @]
      BY <1>5, <2>3
    <3> QED  BY <1>1, <2>3, <3>1 DEF t
  <2> QED  BY <2>1, <2>2, <2>3
<1>7. wuMeter'.reqs = t /\ wuMeter'.logging = m /\ wuMeter'.was = w /\ wuMeter' \in [reqs : Seq(WuOps), logging : BOOLEAN, sent : Nat, was : BOOLEAN]
  BY <1>3, <1>6
<1>8. ASSUME WuQuiet PROVE WuQuiet'
  <2>1. CASE ~l /\ \A j \in 1..N : r[j] # "start"
    <3>1. q # "start" /\ \A j \in 1..(N - 1) : t[j] # "start"
      BY <1>2, <1>3, <1>4, <2>1
    <3>2. ~m
      BY <1>6, <2>1, <3>1
    <3> QED  BY <1>3, <1>7, <3>1, <3>2 DEF WuQuiet
  <2>2. CASE \E i \in 1..N : r[i] = "stop" /\ \A j \in 1..N : j > i => r[j] # "start"
    <3>1. PICK i \in 1..N : r[i] = "stop" /\ \A j \in 1..N : j > i => r[j] # "start"
      BY <2>2
    <3>2. CASE i = 1
      <4>0. \A j \in 1..(N - 1) : j + 1 \in 1..N /\ j + 1 > i
        BY <1>2, <3>2
      <4>1. ~m /\ \A j \in 1..(N - 1) : t[j] # "start"
        <5>1. q = "stop"
          BY <1>4, <3>1, <3>2
        <5>2. \A j \in 1..(N - 1) : t[j] # "start"
          BY <1>3, <3>1, <4>0
        <5> QED  BY <1>6, <5>1, <5>2
      <4> QED  BY <1>3, <1>7, <4>1 DEF WuQuiet
    <3>3. CASE i > 1
      <4>1. i - 1 \in 1..(N - 1) /\ (i - 1) + 1 = i
        BY <1>2, <3>3
      <4>2. t[i - 1] = "stop"
        BY <1>3, <3>1, <4>1
      <4>3. \A j \in 1..(N - 1) : j > i - 1 => t[j] # "start"
        <5>1. \A j \in 1..(N - 1) : j > i - 1 => j + 1 \in 1..N /\ j + 1 > i
          BY <1>2
        <5> QED  BY <1>3, <3>1, <5>1
      <4> QED  BY <1>3, <1>7, <4>1, <4>2, <4>3 DEF WuQuiet
    <3> QED  BY <1>2, <3>2, <3>3
  <2> QED  BY <1>2, <1>8, <2>1, <2>2 DEF WuQuiet, N
<1> QED  BY <1>2, <1>3, <1>4, <1>5, <1>6, <1>7, <1>8 DEF q, N

(* Pieces of one packet.                                                   *)
LEMMA WuSent ==
  ASSUME WuTyped, NEW q \in WuOps, WuSends(q)
  PROVE  /\ wuTty' \in Seq(WuPieces)
         /\ \E k \in 1..Len(wuTty') : /\ wuTty'[k].kind = q /\ k = Len(wuTty) + 1
                                     /\ \A i \in 1..Len(wuTty') : i > k => wuTty'[i].part = "tail"
         /\ \A i \in 1..Len(wuTty) : wuTty'[i] = wuTty[i]
         /\ \A i \in 1..Len(wuTty') : i > Len(wuTty) => wuTty'[i].kind = q
<1> DEFINE N == Len(wuTty)
<1>1. wuTty \in Seq(WuPieces) /\ N \in Nat
  BY DEF WuTyped, WuPieces
<1>2. \A p \in {"all", "head", "short", "tail"} :
        [kind |-> q, part |-> p] \in WuPieces /\ [kind |-> q, part |-> p].kind = q /\ [kind |-> q, part |-> p].part = p
  BY DEF WuPieces
<1>3. CASE wuTty' = Append(wuTty, [kind |-> q, part |-> "all"])
  <2> DEFINE x == [kind |-> q, part |-> "all"]
  <2>1. x \in WuPieces /\ x.kind = q
    BY <1>2
  <2> HIDE DEF x, WuPieces
  <2>2. wuTty' \in Seq(WuPieces) /\ Len(wuTty') = N + 1 /\ wuTty'[N + 1] = x /\ \A i \in 1..N : wuTty'[i] = wuTty[i]
    BY <1>1, <1>3, <2>1, AppendFacts DEF x
  <2>3. N + 1 \in 1..(N + 1) /\ \A i \in 1..(N + 1) : i > N => i = N + 1
    BY <1>1
  <2> QED  BY <1>1, <2>1, <2>2, <2>3
<1>4. CASE \E p \in {"head", "short"} : wuTty' = wuTty \o <<[kind |-> q, part |-> p], [kind |-> q, part |-> "tail"]>>
  <2>1. PICK p \in {"head", "short"} : wuTty' = wuTty \o <<[kind |-> q, part |-> p], [kind |-> q, part |-> "tail"]>>
    BY <1>4
  <2> DEFINE x == [kind |-> q, part |-> p]
             y == [kind |-> q, part |-> "tail"]
  <2>2. x \in WuPieces /\ x.kind = q /\ y \in WuPieces /\ y.kind = q /\ y.part = "tail"
    BY <1>2
  <2> HIDE DEF x, y, WuPieces
  <2>3. <<x, y>> \in Seq(WuPieces) /\ Len(<<x, y>>) = 2 /\ <<x, y>>[1] = x /\ <<x, y>>[2] = y
    BY <2>2
  <2> DEFINE z == <<x, y>>
  <2>4. z \in Seq(WuPieces) /\ Len(z) = 2 /\ z[1] = x /\ z[2] = y /\ wuTty' = wuTty \o z
    BY <2>1, <2>3 DEF x, y
  <2> HIDE DEF z
  <2>5. /\ wuTty' \in Seq(WuPieces) /\ Len(wuTty') = N + 2
        /\ \A i \in 1..N : wuTty'[i] = wuTty[i]
        /\ \A i \in 1..2 : wuTty'[N + i] = z[i]
    <3>1. /\ wuTty \o z \in Seq(WuPieces) /\ Len(wuTty \o z) = N + Len(z)
          /\ \A i \in 1..N : (wuTty \o z)[i] = wuTty[i]
          /\ \A i \in 1..Len(z) : (wuTty \o z)[N + i] = z[i]
      <4>1. wuTty \in Seq(WuPieces) /\ z \in Seq(WuPieces)
        BY <1>1, <2>4
      <4>2. wuTty \o z \in Seq(WuPieces) /\ Len(wuTty \o z) = N + Len(z)
        BY <4>1, ConcatFacts
      <4>3. \A i \in 1..N : (wuTty \o z)[i] = wuTty[i]
        BY <4>1, ConcatFacts
      <4>4. \A i \in 1..Len(z) : (wuTty \o z)[N + i] = z[i]
        BY <4>1, ConcatFacts
      <4> QED  BY <4>2, <4>3, <4>4
    <3>2. wuTty' \in Seq(WuPieces) /\ Len(wuTty') = N + 2
      BY <2>4, <3>1
    <3>3. \A i \in 1..N : wuTty'[i] = wuTty[i]
      BY <2>4, <3>1, Zenon
    <3>4. \A i \in 1..2 : wuTty'[N + i] = z[i]
      BY <2>4, <3>1, Zenon
    <3> QED  BY <3>2, <3>3, <3>4
  <2>6. wuTty'[N + 1] = x /\ wuTty'[N + 2] = y
    BY <2>4, <2>5
  <2>7. N + 1 \in 1..(N + 2) /\ \A i \in 1..(N + 2) : /\ i > N => i = N + 1 \/ i = N + 2
                                                    /\ i > N + 1 => i = N + 2
    BY <1>1
  <2> QED  BY <1>1, <2>2, <2>5, <2>6, <2>7
<1> QED  BY <1>3, <1>4 DEF WuSends

LEMMA WuEachIn ==
  ASSUME NEW S, NEW o, NEW in, NEW t, o \in in => t \in S
  PROVE  WuEach(o, in, t) \in Seq(S)
<1>1. CASE o \in in
  <2>1. WuEach(o, in, t) = <<t>> /\ t \in S
    BY <1>1 DEF WuEach
  <2> QED  BY <2>1
<1>2. CASE o \notin in
  <2>1. WuEach(o, in, t) = <<>>
    BY <1>2 DEF WuEach
  <2> QED  BY <2>1
<1> QED  BY <1>1, <1>2

LEMMA ConcatIn ==
  ASSUME NEW S, NEW s \in Seq(S), NEW t \in Seq(S)
  PROVE  s \o t \in Seq(S)
OBVIOUS

(* The plan of main: the log, if there is one, at its end.                 *)
LEMMA WuPlanned ==
  ASSUME NEW o
  PROVE  LET p == WuPlan(o) IN
         /\ p \in Seq(WuTasks) /\ p # <<>> /\ p[1].op = "clear"
         /\ \A i, j \in 1..Len(p) : i < j => WuAfter(p[i].op, p[j].op) /\ p[i].op # "stop"
         /\ "user" \notin o.set => \A i \in 1..Len(p) : p[i].op # "user="
         /\ p[Len(p)].op = "stop" \/ (o.nodata /\ \A i \in 1..Len(p) : p[i].op \notin {"start", "data"})
<1> DEFINE S == {t \in WuTasks : t.op \notin {"start", "data", "stop"} /\ ("user" \notin o.set => t.op # "user=")}
           in == IF o.all THEN wu_options.show ELSE o.show \ (IF o.setonly THEN WuSettings ELSE {})
           c0 == WuDo("clear", FALSE)
           clear == <<c0>>
           pre == clear \o WuStores(o.set) \o WuShows(in)
           log == IF o.nodata THEN <<>> ELSE <<WuDo("start", TRUE), WuDo("data", FALSE), WuDo("stop", FALSE)>>
           p == WuPlan(o)
<1>1. p = pre \o log
  BY DEF WuPlan
<1>2. \A x \in WuOps, b \in BOOLEAN : WuDo(x, b) \in WuTasks /\ WuDo(x, b).op = x
  BY DEF WuDo, WuTasks
<1>3. /\ WuDo("clear", FALSE) \in S /\ WuDo("cal", FALSE) \in S /\ WuDo("header", FALSE) \in S
      /\ WuDo("interval", FALSE) \in S /\ WuDo("mode", FALSE) \in S /\ WuDo("user", FALSE) \in S
      /\ WuDo("interval=", TRUE) \in S /\ WuDo("mode=", TRUE) \in S /\ ("user" \in o.set => WuDo("user=", TRUE) \in S)
  <2>1. \A x \in WuOps, b \in BOOLEAN : x \notin {"start", "data", "stop"} /\ ("user" \notin o.set => x # "user=") => WuDo(x, b) \in S
    BY <1>2
  <2> HIDE DEF S
  <2>2. /\ WuDo("clear", FALSE) \in S /\ WuDo("cal", FALSE) \in S /\ WuDo("header", FALSE) \in S
        /\ WuDo("interval", FALSE) \in S /\ WuDo("mode", FALSE) \in S /\ WuDo("user", FALSE) \in S
    BY <2>1 DEF WuOps
  <2>3. WuDo("interval=", TRUE) \in S /\ WuDo("mode=", TRUE) \in S /\ ("user" \in o.set => WuDo("user=", TRUE) \in S)
    BY <2>1 DEF WuOps, WuStoreOps
  <2> QED  BY <2>2, <2>3
<1>c. c0 \in S /\ c0.op = "clear"
  <2>1. c0.op = "clear"
    BY <1>2 DEF WuOps
  <2> HIDE DEF c0
  <2> QED  BY <1>3, <2>1 DEF c0
<1> HIDE DEF S, in, c0
<1>4. WuStores(o.set) \in Seq(S)
  <2>1. /\ WuEach("interval", o.set, WuDo("interval=", TRUE)) \in Seq(S)
        /\ WuEach("mode", o.set, WuDo("mode=", TRUE)) \in Seq(S)
        /\ WuEach("user", o.set, WuDo("user=", TRUE)) \in Seq(S)
    BY <1>3, WuEachIn
  <2> QED  BY <2>1, ConcatIn DEF WuStores
<1>5. WuShows(in) \in Seq(S)
  <2>1. /\ WuEach("cal", in, WuDo("cal", FALSE)) \in Seq(S) /\ WuEach("header", in, WuDo("header", FALSE)) \in Seq(S)
        /\ WuEach("interval", in, WuDo("interval", FALSE)) \in Seq(S) /\ WuEach("mode", in, WuDo("mode", FALSE)) \in Seq(S)
        /\ WuEach("user", in, WuDo("user", FALSE)) \in Seq(S)
    BY <1>3, WuEachIn
  <2> QED  BY <2>1, ConcatIn DEF WuShows
<1>6. clear \in Seq(S) /\ Len(clear) = 1 /\ clear[1] = c0
  BY <1>c
<1> DEFINE one == clear \o WuStores(o.set)
<1>7. one \in Seq(S) /\ Len(one) \in Nat /\ Len(one) >= 1 /\ one[1] = c0
  <2> HIDE DEF clear
  <2> DEFINE b == WuStores(o.set)
  <2>1. b \in Seq(S) /\ Len(b) \in Nat
    BY <1>4
  <2> HIDE DEF b
  <2>2. clear \o b \in Seq(S) /\ Len(clear \o b) = Len(clear) + Len(b) /\ \A i \in 1..Len(clear) : (clear \o b)[i] = clear[i]
    BY <1>6, <2>1, ConcatFacts
  <2>3. one = clear \o b
    BY DEF b
  <2> HIDE DEF one
  <2> QED  BY <1>6, <2>1, <2>2, <2>3
<1> HIDE DEF one
<1>8. pre \in Seq(S) /\ Len(pre) \in Nat /\ Len(pre) >= 1 /\ pre[1] = c0
  <2> DEFINE b == WuShows(in)
  <2>1. b \in Seq(S) /\ Len(b) \in Nat
    BY <1>5
  <2>2. pre = one \o b
    BY DEF one
  <2> HIDE DEF b, pre
  <2>3. one \o b \in Seq(S) /\ Len(one \o b) = Len(one) + Len(b) /\ \A i \in 1..Len(one) : (one \o b)[i] = one[i]
    BY <1>7, <2>1, ConcatFacts
  <2> QED  BY <1>7, <2>1, <2>2, <2>3
<1> HIDE DEF pre
<1>9. /\ log \in Seq(WuTasks)
      /\ \/ Len(log) = 0 /\ o.nodata
         \/ Len(log) = 3 /\ log[1].op = "start" /\ log[2].op = "data" /\ log[3].op = "stop"
  <2>1. CASE o.nodata
    BY <2>1
  <2>2. CASE ~o.nodata
    <3> DEFINE a == WuDo("start", TRUE)
               b == WuDo("data", FALSE)
               c == WuDo("stop", FALSE)
    <3>1. a \in WuTasks /\ b \in WuTasks /\ c \in WuTasks /\ a.op = "start" /\ b.op = "data" /\ c.op = "stop"
      BY <1>2 DEF WuOps
    <3>2. log = <<a, b, c>>
      BY <2>2
    <3> HIDE DEF WuTasks, a, b, c, log
    <3>3. log \in Seq(WuTasks) /\ Len(log) = 3 /\ log[1] = a /\ log[2] = b /\ log[3] = c
      BY <3>1, <3>2
    <3> QED  BY <3>1, <3>3
  <2> QED  BY <2>1, <2>2
<1> HIDE DEF log
<1>10. pre \in Seq(WuTasks) /\ \A i \in 1..Len(pre) : pre[i] \in S
  BY <1>8 DEF S
<1> DEFINE N == Len(pre)
<1>11. /\ p \in Seq(WuTasks) /\ Len(p) = N + Len(log)
       /\ \A i \in 1..N : p[i] = pre[i]
       /\ \A i \in 1..Len(log) : p[N + i] = log[i]
  <2> HIDE DEF WuTasks, p
  <2>1. pre \o log \in Seq(WuTasks) /\ Len(pre \o log) = N + Len(log)
    BY <1>9, <1>10, ConcatFacts
  <2>2. \A i \in 1..N : (pre \o log)[i] = pre[i]
    BY <1>9, <1>10, ConcatFacts
  <2>3. \A i \in 1..Len(log) : (pre \o log)[N + i] = log[i]
    BY <1>9, <1>10, ConcatFacts
  <2> QED  BY <1>1, <2>1, <2>2, <2>3
<1> HIDE DEF p, N
<1>12. N \in Nat /\ N >= 1 /\ pre[1].op = "clear"
  BY <1>c, <1>8 DEF N
<1>13. \A i \in 1..N : p[i].op \notin {"start", "data", "stop"} /\ ("user" \notin o.set => p[i].op # "user=")
  BY <1>10, <1>11 DEF S, N
<1>14. p # <<>> /\ p[1].op = "clear"
  BY <1>9, <1>11, <1>12
<1> HIDE DEF WuTasks
<1>15. CASE Len(log) = 0 /\ o.nodata
  <2>1. Len(p) = N
    BY <1>11, <1>12, <1>15
  <2>2. \A i, j \in 1..N : i < j => WuAfter(p[i].op, p[j].op) /\ p[i].op # "stop"
    BY <1>13 DEF WuAfter
  <2>3. p \in Seq(WuTasks)
    BY <1>11
  <2> QED  BY <1>13, <1>14, <1>15, <2>1, <2>2, <2>3 DEF p
<1>16. CASE Len(log) = 3 /\ log[1].op = "start" /\ log[2].op = "data" /\ log[3].op = "stop"
  <2>1. Len(p) = N + 3 /\ p[N + 1].op = "start" /\ p[N + 2].op = "data" /\ p[N + 3].op = "stop"
    BY <1>11, <1>16
  <2>2. \A i \in 1..(N + 3) : i \in 1..N \/ i = N + 1 \/ i = N + 2 \/ i = N + 3
    BY <1>12
  <2>3. ASSUME NEW i \in 1..(N + 3), NEW j \in 1..(N + 3), i < j
        PROVE  WuAfter(p[i].op, p[j].op) /\ p[i].op # "stop"
    <3>1. CASE i \in 1..N
      BY <1>13, <3>1 DEF WuAfter
    <3>2. CASE i = N + 1
      <4>1. j = N + 2 \/ j = N + 3
        BY <1>12, <2>3, <3>2
      <4> QED  BY <2>1, <3>2, <4>1 DEF WuAfter
    <3>3. CASE i = N + 2
      <4>1. j = N + 3
        BY <1>12, <2>3, <3>3
      <4> QED  BY <2>1, <3>3, <4>1 DEF WuAfter
    <3> QED  BY <1>12, <2>2, <2>3, <3>1, <3>2, <3>3
  <2>4. "user" \notin o.set => \A i \in 1..(N + 3) : p[i].op # "user="
    BY <1>13, <2>1, <2>2
  <2>5. p \in Seq(WuTasks)
    BY <1>11
  <2> QED  BY <1>14, <2>1, <2>3, <2>4, <2>5 DEF p
<1> QED  BY <1>9, <1>15, <1>16 DEF p

LEMMA WuBegun ==
  ASSUME WuInv, WuMain
  PROVE  WuInv'
<1>1. /\ wuAt = "new" /\ UNCHANGED <<wuRetried, wuShown, wuUpset, wuFaults>>
      /\ wuTodo = <<>> /\ wuMeter.reqs = <<>> /\ ~wuMeter.logging /\ wuShown = <<>> /\ wuUpset = {}
  BY DEF WuMain, WuInv, WuTyped
<1>2. wuOpt' \in WuOptions
  <2>1. PICK o \in WuCommands : wuOpt' = [o EXCEPT !.show = @ \cup o.set]
    BY DEF WuMain, parse_args
  <2>2. o \in WuOptions
    BY WuLines DEF WuOptions
  <2>3. o.show \cup o.set \in SUBSET STRING
    BY <2>2 DEF WuOptions
  <2> DEFINE w == o.show \cup o.set
  <2>4. wuOpt' = [o EXCEPT !.show = w]
    BY <2>1
  <2> HIDE DEF w
  <2> QED  BY <2>2, <2>3, <2>4 DEF w, WuOptions
<1>3. /\ wuMeter' \in [reqs : Seq(WuOps), logging : BOOLEAN, sent : Nat, was : BOOLEAN]
      /\ wuMeter'.reqs = <<>> /\ wuMeter'.was = wuMeter'.logging
      /\ wuTty' \in Seq(WuPieces) /\ WuOnlyTails'
  <2>1. PICK l \in BOOLEAN :
          /\ wuMeter' = [wuMeter EXCEPT !.logging = l, !.was = l]
          /\ wuTty' \in {<<>>} \cup (IF l THEN {<<[kind |-> "data", part |-> "tail"]>>} ELSE {})
    BY DEF WuMain, setup_serial_device
  <2>2. wuMeter \in [reqs : Seq(WuOps), logging : BOOLEAN, sent : Nat, was : BOOLEAN]
    BY DEF WuInv, WuTyped
  <2>3. /\ wuMeter' \in [reqs : Seq(WuOps), logging : BOOLEAN, sent : Nat, was : BOOLEAN]
        /\ wuMeter'.reqs = <<>> /\ wuMeter'.was = l /\ wuMeter'.logging = l
    <3> HIDE DEF WuOps
    <3> QED  BY <1>1, <2>1, <2>2
  <2>4. CASE wuTty' = <<>>
    <3>1. wuTty' \in Seq(WuPieces) /\ Len(wuTty') = 0
      BY <2>4
    <3> QED  BY <2>3, <3>1 DEF WuOnlyTails
  <2>5. CASE wuTty' = <<[kind |-> "data", part |-> "tail"]>>
    <3> DEFINE x == [kind |-> "data", part |-> "tail"]
    <3>1. x \in WuPieces /\ x.part = "tail"
      BY DEF WuPieces, WuOps
    <3>2. wuTty' = <<x>>
      BY <2>5
    <3> HIDE DEF x, WuPieces
    <3>3. wuTty' \in Seq(WuPieces) /\ Len(wuTty') = 1 /\ wuTty'[1] = x
      BY <3>1, <3>2
    <3> QED  BY <2>3, <3>1, <3>3 DEF WuOnlyTails
  <2> QED  BY <2>1, <2>4, <2>5
<1>9. WuQuiet' \/ wuMeter'.was
  BY <1>3 DEF WuQuiet
<1>4. WuPrinted' = 0
  <2>1. DOMAIN wuShown' = {}
    BY <1>1
  <2>2. {i \in DOMAIN wuShown' : wuShown'[i].op = "data"} = {}
    BY <2>1
  <2> QED  BY <2>2, FS_EmptySet DEF WuPrinted
<1>5. wuOpt'.count \in Int
  BY <1>2 DEF WuOptions
<1>6. WuCounts'
  BY <1>4, <1>5 DEF WuCounts
<1>7. CASE wuAt' = "done" /\ UNCHANGED wuTodo /\ wuRc' = "error"
  <2>1. WuTyped'
    BY <1>1, <1>2, <1>3, <1>7 DEF WuInv, WuTyped
  <2>2. WuOrder' /\ WuInStep' /\ WuStops'
    BY <1>1, <1>7, <1>9 DEF WuOrder, WuInStep, WuStops, WuCalm
  <2> QED  BY <1>6, <2>1, <2>2 DEF WuInv
<1>8. CASE wuAt' = "write" /\ wuTodo' = WuPlan(wuOpt')
  <2> DEFINE N == Len(wuTodo')
  <2>1. /\ wuTodo' \in Seq(WuTasks) /\ wuTodo' # <<>> /\ wuTodo'[1].op = "clear"
        /\ \A i, j \in 1..N : i < j => WuAfter(wuTodo'[i].op, wuTodo'[j].op) /\ wuTodo'[i].op # "stop"
        /\ "user" \notin wuOpt'.set => \A i \in 1..N : wuTodo'[i].op # "user="
        /\ wuTodo'[N].op = "stop" \/ (wuOpt'.nodata /\ \A i \in 1..N : wuTodo'[i].op \notin {"start", "data"})
    BY <1>8, WuPlanned
  <2>2. WuTyped'
    BY <1>1, <1>2, <1>3, <1>8, <2>1 DEF WuInv, WuTyped
  <2>3. WuOrder'
    BY <2>1 DEF WuOrder, WuAfter
  <2>4. WuStops'
    BY <1>8, <1>9, <2>1 DEF WuStops, WuNoLog, WuCalm
  <2>5. WuInStep'
    <3>1. ~wuMeter'.was => ~wuMeter'.logging
      BY <1>3
    <3>2. ~wuMeter'.was => WuAsking'
      BY <1>3, <1>8, <2>1, <3>1 DEF WuAsking
    <3> QED  BY <1>1, <3>2 DEF WuInStep
  <2> QED  BY <1>6, <2>2, <2>3, <2>4, <2>5 DEF WuInv
<1> QED  BY <1>7, <1>8 DEF WuMain, open_device

LEMMA WuStored ==
  ASSUME WuInv, wu_store
  PROVE  WuInv'
<1>1. /\ wuAt = "write" /\ wuAt' = "done" /\ WuTask.op \in WuStoreOps /\ wuRc' # "ok"
      /\ UNCHANGED <<wuTodo, wuOpt, wuRetried, wuTty, wuMeter, wuShown, wuUpset, wuFaults>>
  BY DEF wu_store, WuClose, WuStoreOps, wu_store_user, wu_store_mode, wu_store_interval
<1>2. wuTodo \in Seq(WuTasks) /\ wuTodo # <<>>
  BY <1>1 DEF WuInv, WuTyped
<1>3. wuTodo[1].op \in WuStoreOps /\ 1 \in 1..Len(wuTodo)
  <2> HIDE DEF WuTasks
  <2> QED  BY <1>1, <1>2 DEF WuTask
<1>4. WuQuiet' \/ wuMeter'.was
  <2>1. WuQuiet \/ wuMeter.was
    BY <1>1, <1>3 DEF WuInv, WuStops
  <2> QED  BY <1>1, <2>1 DEF WuQuiet
<1>5. WuTyped' /\ WuOrder'
  BY <1>1 DEF WuInv, WuTyped, WuOrder
<1>6. WuStops'
  BY <1>1, <1>4 DEF WuStops, WuCalm
<1>7. WuInStep'
  BY <1>1 DEF WuInv, WuInStep
<1>8. WuCounts'
  BY <1>1 DEF WuInv, WuCounts, WuPrinted
<1> QED  BY <1>5, <1>6, <1>7, <1>8 DEF WuInv

LEMMA WuDataBegun ==
  ASSUME WuInv, WuStartData
  PROVE  WuInv'
<1>1. /\ wuAt = "write" /\ wuAt' = "read" /\ WuTask.op = "data"
      /\ UNCHANGED <<wuTodo, wuOpt, wuRetried, wuTty, wuMeter, wuShown, wuUpset, wuFaults>>
  BY DEF WuStartData
<1>2. wuTodo \in Seq(WuTasks) /\ wuTodo # <<>>
  BY <1>1 DEF WuInv, WuTyped
<1>3. wuTodo[1].op = "data" /\ 1 \in 1..Len(wuTodo)
  <2> HIDE DEF WuTasks
  <2> QED  BY <1>1, <1>2 DEF WuTask
<1>4. WuTyped' /\ WuOrder'
  BY <1>1, <1>3 DEF WuInv, WuTyped, WuOrder, WuStoreOps
<1>5. WuStops'
  <2>1. "write" \notin wuUpset => wuTodo[Len(wuTodo)].op = "stop" /\ Len(wuTodo) # 1
    BY <1>1, <1>3 DEF WuInv, WuStops, WuNoLog
  <2>2. (\E i \in 1..Len(wuTodo) : wuTodo[i].op \in WuStoreOps) => WuQuiet' \/ wuMeter'.was
    BY <1>1 DEF WuInv, WuStops, WuQuiet
  <2> QED  BY <1>1, <2>1, <2>2 DEF WuStops
<1>6. WuInStep'
  BY <1>1, <1>3 DEF WuInv, WuInStep, WuAsking
<1>7. WuCounts'
  BY <1>1 DEF WuInv, WuCounts, WuPrinted
<1> QED  BY <1>4, <1>5, <1>6, <1>7 DEF WuInv

(* A request that is taken off the list, whatever becomes of it: nothing   *)
(* is put on the list that was not there.                                  *)
LEMMA WuDropped ==
  ASSUME WuInv, wuAt \in {"write", "read"}, WuGoOn(Tail(wuTodo)), wuOpt' = wuOpt, wuShown' = wuShown
  PROVE  /\ \A i \in 1..Len(wuTodo') : wuTodo'[i] = wuTodo[i + 1] /\ i + 1 \in 1..Len(wuTodo)
         /\ WuCounts'
<1> DEFINE N == Len(wuTodo)
<1>1. wuTodo \in Seq(WuTasks) /\ wuTodo # <<>> /\ wuTodo' = Tail(wuTodo)
  BY DEF WuInv, WuTyped, WuGoOn
<1>2. N \in Nat /\ Len(wuTodo') = N - 1 /\ \A i \in 1..(N - 1) : wuTodo'[i] = wuTodo[i + 1]
  <2> HIDE DEF WuTasks
  <2> QED  BY <1>1, TailFacts
<1>3. \A i \in 1..(N - 1) : i + 1 \in 1..N
  BY <1>2
<1>4. WuCounts'
  BY <1>2, <1>3 DEF WuInv, WuCounts, WuPrinted
<1> QED  BY <1>2, <1>3, <1>4

LEMMA WuWritten ==
  ASSUME WuInv, wu_write
  PROVE  WuInv'
<1> DEFINE N == Len(wuTodo)
           op == wuTodo[1].op
           q == WuRequest(op)
<1>1. wuAt = "write" /\ UNCHANGED <<wuOpt, wuRetried, wuTty, wuShown>>
  BY DEF wu_write
<1>2. wuTodo \in Seq(WuTasks) /\ wuTodo # <<>>
  BY <1>1 DEF WuInv, WuTyped
<1>3. N \in Nat /\ N >= 1 /\ WuTask = wuTodo[1] /\ 1 \in 1..N /\ wuTodo[1] \in WuTasks /\ N \in 1..N
  <2> HIDE DEF WuTasks
  <2> QED  BY <1>2 DEF WuTask
<1>4. op \in WuOps /\ op # "data" /\ q \in WuOps /\ (op # "user=" => q = op) /\ (op = "user=" => q = "user")
  <2>1. op \in WuOps /\ op # "data"
    BY <1>3 DEF wu_write, WuTasks
  <2> QED  BY <2>1 DEF WuRequest, WuOps
<1>5. /\ WuTyped /\ WuOrder /\ WuStops /\ WuCounts /\ WuInStep
      /\ \A i, j \in 1..N : i < j => WuAfter(wuTodo[i].op, wuTodo[j].op)
      /\ "user" \notin wuOpt.set => \A i \in 1..N : wuTodo[i].op # "user="
      /\ (\E i \in 1..N : wuTodo[i].op \in WuStoreOps) => WuQuiet \/ wuMeter.was
      /\ "write" \notin wuUpset => wuTodo[N].op = "stop" \/ WuNoLog
  BY <1>1 DEF WuInv, WuOrder, WuStops
<1>6. CASE /\ wuMeter' = [wuMeter EXCEPT !.reqs = Append(@, q)] /\ WuReads(op) /\ wuAt' = "read"
           /\ UNCHANGED <<wuTodo, wuRc, wuUpset, wuFaults>>
  <2> DEFINE K == Len(wuMeter.reqs)
  <2>1. /\ wuMeter' \in [reqs : Seq(WuOps), logging : BOOLEAN, sent : Nat, was : BOOLEAN]
        /\ wuMeter'.logging = wuMeter.logging /\ wuMeter'.was = wuMeter.was /\ wuMeter'.reqs # <<>>
        /\ Len(wuMeter'.reqs) = K + 1 /\ wuMeter'.reqs[K + 1] = q
        /\ \A i \in 1..K : wuMeter'.reqs[i] = wuMeter.reqs[i]
        /\ WuQuiet /\ q # "start" => WuQuiet'
        /\ q = "stop" => WuQuiet'
    BY <1>4, <1>5, <1>6, WuAsked
  <2>2. op \notin WuStoreOps \cup {"start"} /\ q = op /\ K \in Nat
    BY <1>4, <1>5, <1>6, WuMeterFields DEF WuReads, WuStoreOps
  <2>3. WuTyped'
    BY <1>1, <1>5, <1>6, <2>1, <2>2 DEF WuTyped
  <2>4. WuOrder'
    BY <1>1, <1>5, <1>6 DEF WuOrder
  <2>5. WuStops'
    <3>1. (\E i \in 1..N : wuTodo[i].op \in WuStoreOps) => WuQuiet' \/ wuMeter'.was
      BY <1>5, <2>1, <2>2
    <3>2. N = 1 /\ wuTodo[N].op = "stop" => WuQuiet'
      BY <2>1, <2>2
    <3>3. WuNoLog => WuNoLog'
      BY <1>1, <1>6, <2>1, <2>2 DEF WuNoLog, WuCalm
    <3> QED  BY <1>5, <1>6, <3>1, <3>2, <3>3 DEF WuStops
  <2>6. WuInStep'
    <3> SUFFICES ASSUME wuUpset = {}, ~wuMeter.was, "user" \notin wuOpt.set
                 PROVE  WuAsking' /\ \A i \in 1..Len(wuShown) : WuAnswerOf(wuShown[i])
      BY <1>1, <1>6, <2>1 DEF WuInStep
    <3>1. WuAsking /\ \A i \in 1..Len(wuShown) : WuAnswerOf(wuShown[i])
      BY <1>1, <1>5 DEF WuInStep
    <3>2. CASE op = "stop"
      <4>1. \A i \in 1..(K + 1) : i \in 1..K \/ i = K + 1
        BY <2>2
      <4>2. /\ \A i \in 1..K : wuMeter.reqs[i] \in {"interval=", "mode=", "start", "stop"}
            /\ \A i \in 1..Len(wuTty) : wuTty[i].part # "tail" => wuTty[i].kind \in {"data", "stop"}
        BY <3>1, <3>2 DEF WuAsking
      <4>3. \A i \in 1..Len(wuMeter'.reqs) : wuMeter'.reqs[i] \in {"interval=", "mode=", "start", "stop"}
        BY <2>1, <2>2, <3>2, <4>1, <4>2
      <4> QED  BY <1>1, <1>6, <3>1, <3>2, <4>2, <4>3 DEF WuAsking
    <3>3. CASE op # "stop"
      <4>1. ~wuMeter.logging /\ WuOnlyTails /\ \A i \in 1..K : wuMeter.reqs[i] \in {"interval=", "mode="}
        BY <1>1, <1>4, <3>1, <3>3 DEF WuAsking
      <4>2. WuOnlyTails' /\ \A i \in 1..K : wuMeter'.reqs[i] \in {"interval=", "mode="}
        BY <1>1, <2>1, <4>1 DEF WuOnlyTails
      <4>3. Len(wuMeter'.reqs) - 1 = K /\ wuMeter'.reqs[Len(wuMeter'.reqs)] = op
        BY <2>1, <2>2
      <4> QED  BY <1>4, <1>6, <2>1, <3>1, <3>3, <4>1, <4>2, <4>3 DEF WuAsking
    <3> QED  BY <3>2, <3>3
  <2>7. WuCounts'
    BY <1>1, <1>5, <1>6 DEF WuCounts, WuPrinted
  <2> QED  BY <2>3, <2>4, <2>5, <2>6, <2>7 DEF WuInv
<1>7. CASE /\ wuMeter' = [wuMeter EXCEPT !.reqs = Append(@, q)] /\ ~WuReads(op) /\ WuGoOn(Tail(wuTodo))
           /\ UNCHANGED <<wuRc, wuUpset, wuFaults>>
  <2> DEFINE K == Len(wuMeter.reqs)
  <2>1. /\ wuMeter' \in [reqs : Seq(WuOps), logging : BOOLEAN, sent : Nat, was : BOOLEAN]
        /\ wuMeter'.logging = wuMeter.logging /\ wuMeter'.was = wuMeter.was
        /\ Len(wuMeter'.reqs) = K + 1 /\ wuMeter'.reqs[K + 1] = q
        /\ \A i \in 1..K : wuMeter'.reqs[i] = wuMeter.reqs[i]
        /\ WuQuiet /\ q # "start" => WuQuiet'
    BY <1>4, <1>5, <1>7, WuAsked
  <2>2. op \in WuStoreOps \cup {"start"} /\ K \in Nat /\ (op # "start" => q # "start")
    BY <1>4, <1>5, <1>7, WuMeterFields DEF WuReads, WuStoreOps
  <2>3. /\ wuTodo' \in Seq(WuTasks) /\ Len(wuTodo') = N - 1 /\ WuOrder'
        /\ \/ wuAt' = "done" /\ N = 1 /\ wuTodo' = <<>>
           \/ wuAt' = "write" /\ N > 1 /\ wuTodo' # <<>> /\ wuTodo'[Len(wuTodo')] = wuTodo[N]
    <3>1. wuUpset' = {} => wuUpset = {}
      BY <1>7
    <3> QED  BY <1>1, <1>5, <1>7, <3>1, WuPopped
  <2>4. WuCounts' /\ \A i \in 1..Len(wuTodo') : wuTodo'[i] = wuTodo[i + 1] /\ i + 1 \in 1..N
    BY <1>1, <1>7, WuDropped
  <2>5. WuTyped'
    BY <1>1, <1>5, <1>7, <2>1, <2>3 DEF WuTyped
  <2>6. WuStops'
    <3>1. (\E i \in 1..Len(wuTodo') : wuTodo'[i].op \in WuStoreOps) => WuQuiet' \/ wuMeter'.was
      <4> SUFFICES ASSUME NEW i \in 1..Len(wuTodo'), wuTodo'[i].op \in WuStoreOps PROVE WuQuiet' \/ wuMeter'.was
        OBVIOUS
      <4>1. i + 1 \in 1..N /\ wuTodo[i + 1].op \in WuStoreOps /\ 1 < i + 1
        BY <1>3, <2>3, <2>4
      <4>2. WuAfter(op, wuTodo[i + 1].op)
        BY <1>3, <1>5, <4>1
      <4>3. op # "start"
        BY <4>1, <4>2 DEF WuAfter, WuStoreOps
      <4> QED  BY <1>5, <2>1, <2>2, <4>1, <4>3
    <3>2. ASSUME WuNoLog PROVE WuNoLog'
      <4>1. WuCalm /\ \A i \in 1..N : wuTodo[i].op \notin {"start", "data"}
        BY <3>2 DEF WuNoLog
      <4>2. WuCalm'
        BY <1>1, <1>3, <2>1, <2>2, <4>1 DEF WuCalm
      <4> QED  BY <2>4, <4>1, <4>2 DEF WuNoLog
    <3>3. ASSUME "write" \notin wuUpset, N = 1 PROVE WuCalm'
      <4>1. wuTodo[N].op # "stop"
        BY <2>2, <3>3 DEF WuStoreOps
      <4>2. WuNoLog'
        BY <1>5, <3>2, <3>3, <4>1
      <4> QED  BY <4>2 DEF WuNoLog
    <3>4. "write" \notin wuUpset /\ wuAt' = "write" => wuTodo'[Len(wuTodo')].op = "stop" \/ WuNoLog'
      BY <1>5, <2>3, <3>2
    <3> QED  BY <1>7, <2>3, <3>1, <3>3, <3>4 DEF WuStops
  <2>7. WuInStep'
    <3> SUFFICES ASSUME wuUpset = {}, ~wuMeter.was, "user" \notin wuOpt.set
                 PROVE  (wuAt' = "write" => WuAsking') /\ \A i \in 1..Len(wuShown) : WuAnswerOf(wuShown[i])
      BY <1>1, <1>7, <2>1, <2>3 DEF WuInStep
    <3>1. WuAsking /\ \A i \in 1..Len(wuShown) : WuAnswerOf(wuShown[i])
      BY <1>1, <1>5 DEF WuInStep
    <3>2. ~wuMeter.logging /\ WuOnlyTails /\ \A i \in 1..K : wuMeter.reqs[i] \in {"interval=", "mode="}
      BY <1>1, <2>2, <3>1 DEF WuAsking, WuStoreOps
    <3>3. op # "user=" /\ q = op
      BY <1>3, <1>4, <1>5
    <3>4. \A i \in 1..(K + 1) : i \in 1..K \/ i = K + 1
      BY <2>2
    <3>5. WuOnlyTails' /\ ~wuMeter'.logging
      BY <1>1, <2>1, <3>2 DEF WuOnlyTails
    <3>6. \A i \in 1..Len(wuMeter'.reqs) : wuMeter'.reqs[i] \in {"interval=", "mode=", "start"}
      BY <2>1, <2>2, <3>2, <3>3, <3>4 DEF WuStoreOps
    <3>7. op # "start" => \A i \in 1..Len(wuMeter'.reqs) : wuMeter'.reqs[i] \in {"interval=", "mode="}
      BY <2>1, <2>2, <3>2, <3>3, <3>4 DEF WuStoreOps
    <3>8. ASSUME wuAt' = "write" PROVE WuAsking'
      <4>1. N > 1 /\ 1 \in 1..Len(wuTodo')
        BY <1>3, <2>3, <3>8
      <4>2. wuTodo'[1] = wuTodo[2] /\ 2 \in 1..N
        BY <2>4, <4>1
      <4>3. WuAfter(op, wuTodo'[1].op)
        BY <1>3, <1>5, <4>2
      <4>4. CASE op = "start"
        <5>1. wuTodo'[1].op \in {"data", "stop"}
          BY <4>3, <4>4 DEF WuAfter
        <5> QED  BY <3>5, <3>6, <5>1 DEF WuAsking, WuOnlyTails
      <4>5. CASE op # "start"
        <5>1. CASE wuTodo'[1].op = "stop"
          BY <3>5, <3>6, <5>1 DEF WuAsking, WuOnlyTails
        <5>2. CASE wuTodo'[1].op = "data"
          BY <3>5, <3>6, <5>2 DEF WuAsking, WuOnlyTails
        <5>3. CASE wuTodo'[1].op \notin {"stop", "data"}
          BY <3>5, <3>7, <3>8, <4>5, <5>3 DEF WuAsking
        <5> QED  BY <5>1, <5>2, <5>3
      <4> QED  BY <4>4, <4>5
    <3> QED  BY <3>1, <3>8
  <2> QED  BY <2>3, <2>4, <2>5, <2>6, <2>7 DEF WuInv
<1>8. CASE /\ wuUpset' = wuUpset \cup {"write"} /\ UNCHANGED wuMeter
           /\ \/ wuAt' = "read" /\ UNCHANGED wuTodo /\ WuReads(op)
              \/ WuGoOn(Tail(wuTodo))
              \/ wuAt' = "done" /\ UNCHANGED wuTodo
  <2>1. wuUpset' # {} /\ "write" \in wuUpset' /\ WuInStep' /\ (WuQuiet => WuQuiet')
    BY <1>8 DEF WuInStep, WuQuiet
  <2>2. CASE WuGoOn(Tail(wuTodo))
    <3>1. /\ wuTodo' \in Seq(WuTasks) /\ WuOrder'
          /\ (wuAt' = "done" /\ wuTodo' = <<>>) \/ (wuAt' = "write" /\ wuTodo' # <<>>)
      BY <1>1, <1>5, <2>1, <2>2, WuPopped
    <3>2. WuCounts' /\ \A i \in 1..Len(wuTodo') : wuTodo'[i] = wuTodo[i + 1] /\ i + 1 \in 1..N
      BY <1>1, <2>2, WuDropped
    <3>3. WuTyped'
      BY <1>1, <1>5, <1>8, <3>1 DEF WuTyped
    <3>4. (\E i \in 1..Len(wuTodo') : wuTodo'[i].op \in WuStoreOps) => WuQuiet' \/ wuMeter'.was
      BY <1>5, <1>8, <2>1, <3>2
    <3>5. WuStops'
      BY <2>1, <3>4 DEF WuStops
    <3> QED  BY <2>1, <3>1, <3>2, <3>3, <3>5 DEF WuInv
  <2>3. CASE (wuAt' = "done" \/ (wuAt' = "read" /\ WuReads(op))) /\ UNCHANGED wuTodo
    <3>1. WuTyped'
      BY <1>1, <1>5, <1>8, <2>3 DEF WuTyped, WuStoreOps, WuReads
    <3>2. WuOrder' /\ WuStops'
      BY <1>1, <1>5, <1>8, <2>1, <2>3 DEF WuOrder, WuStops
    <3>3. WuCounts'
      BY <1>1, <1>5, <2>3 DEF WuCounts, WuPrinted
    <3> QED  BY <2>1, <3>1, <3>2, <3>3 DEF WuInv
  <2> QED  BY <1>8, <2>2, <2>3
<1>9. CASE /\ wuMeter' = [wuMeter EXCEPT !.reqs = Append(@, q)] /\ UNCHANGED <<wuRc, wuUpset, wuFaults>>
           /\ IF WuReads(op) THEN wuAt' = "read" /\ UNCHANGED wuTodo ELSE WuGoOn(Tail(wuTodo))
  BY <1>6, <1>7, <1>9
<1>10. CASE /\ wuUpset' = wuUpset \cup {"write"} /\ UNCHANGED wuMeter
            /\ IF WuReads(op) THEN wuAt' = "read" /\ UNCHANGED wuTodo ELSE WuGoOn(Tail(wuTodo))
  BY <1>8, <1>10
<1>11. CASE /\ wuUpset' = wuUpset \cup {"write"} /\ UNCHANGED wuMeter
            /\ IF op = "clear" THEN wuAt' = "read" /\ UNCHANGED <<wuTodo, wuRc>> ELSE WuFailed
  <2>1. op = "clear" => WuReads(op)
    BY DEF WuReads
  <2> QED  BY <1>8, <1>11, <2>1 DEF WuFailed, WuClose
<1>12. \/ /\ \/ wuMeter' = [wuMeter EXCEPT !.reqs = Append(@, q)] /\ UNCHANGED <<wuUpset, wuFaults>>
             \/ wuUpset' = wuUpset \cup {"write"} /\ UNCHANGED wuMeter
          /\ IF WuReads(op) THEN wuAt' = "read" /\ UNCHANGED wuTodo ELSE WuGoOn(Tail(wuTodo))
          /\ UNCHANGED wuRc
       \/ /\ wuUpset' = wuUpset \cup {"write"} /\ UNCHANGED wuMeter
          /\ IF op = "clear" THEN wuAt' = "read" /\ UNCHANGED <<wuTodo, wuRc>> ELSE WuFailed
  BY <1>3 DEF wu_write
<1> QED  BY <1>9, <1>10, <1>11, <1>12

(* A read: the first pieces of the line are gone, and what was understood  *)
(* is the kind of one of them.                                             *)
LEMMA WuGot ==
  ASSUME WuTyped, wu_read
  PROVE  \E r : /\ WuTakes(r) /\ wuTty' \in Seq(WuPieces)
                /\ \/ r = "error"
                   \/ /\ r \in WuOps /\ r # "error"
                      /\ \E k \in 1..Len(wuTty) :
                           /\ wuTty[k].part # "tail" /\ wuTty[k].kind = r
                           /\ \A i \in 1..Len(wuTty') : \E j \in 1..Len(wuTty) : j > k /\ wuTty'[i] = wuTty[j]
<1> DEFINE N == Len(wuTty)
<1>1. wuTty \in Seq(WuPieces) /\ N \in Nat
  BY DEF WuTyped
<1>2. CASE WuTakes("error") /\ UNCHANGED wuTty
  BY <1>1, <1>2
<1>3. ASSUME NEW n \in 1..N, wuTty' = SubSeq(wuTty, n + 1, N), WuTakes(parse_packet(SubSeq(wuTty, 1, n)))
      PROVE  \E r : /\ WuTakes(r) /\ wuTty' \in Seq(WuPieces)
                    /\ \/ r = "error"
                       \/ /\ r \in WuOps /\ r # "error"
                          /\ \E k \in 1..Len(wuTty) :
                               /\ wuTty[k].part # "tail" /\ wuTty[k].kind = r
                               /\ \A i \in 1..Len(wuTty') : \E j \in 1..Len(wuTty) : j > k /\ wuTty'[i] = wuTty[j]
  <2> DEFINE ps == SubSeq(wuTty, 1, n)
             r == parse_packet(ps)
  <2>1. ps \in Seq(WuPieces) /\ Len(ps) = n /\ \A i \in 1..n : ps[i] = wuTty[i]
    <3> HIDE DEF WuPieces
    <3>1. 1 \in 1..(N + 1) /\ n \in 0..N /\ 1 <= n + 1 /\ n - 1 + 1 = n /\ \A i \in 1..n : 1 + i - 1 = i
      BY <1>1
    <3> QED  BY <1>1, <3>1, SubSeqFacts
  <2>2. wuTty' \in Seq(WuPieces) /\ Len(wuTty') = N - n /\ \A i \in 1..(N - n) : wuTty'[i] = wuTty[n + i]
    <3> HIDE DEF WuPieces
    <3>1. n + 1 \in 1..(N + 1) /\ N \in 0..N /\ n + 1 <= N + 1 /\ N - (n + 1) + 1 = N - n
      BY <1>1
    <3>2. \A i \in 1..(N - n) : (n + 1) + i - 1 = n + i
      BY <1>1
    <3> DEFINE t == SubSeq(wuTty, n + 1, N)
    <3>3. t \in Seq(WuPieces) /\ Len(t) = N - n /\ \A i \in 1..(N - n) : t[i] = wuTty[n + i]
      <4>1. t \in Seq(WuPieces) /\ Len(t) = N - (n + 1) + 1
        BY <1>1, <3>1, SubSeqFacts
      <4>2. \A i \in 1..(N - (n + 1) + 1) : t[i] = wuTty[(n + 1) + i - 1]
        BY <1>1, <3>1, SubSeqFacts
      <4> HIDE DEF t
      <4> QED  BY <3>1, <3>2, <4>1, <4>2
    <3> HIDE DEF t
    <3>4. wuTty' = t
      BY <1>3 DEF t
    <3> QED  BY <3>3, <3>4
  <2> HIDE DEF ps
  <2>3. r = "error" \/ \E k \in 1..n : ps[k].part # "tail" /\ ps[k].kind = r
    BY <2>1, WuParsed
  <2>4. WuTakes(r)
    BY <1>3 DEF ps
  <2> HIDE DEF r
  <2>5. CASE r # "error"
    <3>1. PICK k \in 1..n : ps[k].part # "tail" /\ ps[k].kind = r
      BY <2>3, <2>5
    <3>2. k \in 1..N /\ wuTty[k].part # "tail" /\ wuTty[k].kind = r /\ wuTty[k] \in WuPieces
      <4>1. k \in 1..N
        BY <1>1
      <4> HIDE DEF WuPieces
      <4> QED  BY <1>1, <2>1, <3>1, <4>1
    <3>3. r \in WuOps
      BY <3>2 DEF WuPieces
    <3>4. ASSUME NEW i \in 1..Len(wuTty') PROVE \E j \in 1..N : j > k /\ wuTty'[i] = wuTty[j]
      <4>1. n + i \in 1..N /\ n + i > k
        BY <1>1, <2>2
      <4> QED  BY <2>2, <4>1
    <3> QED  BY <2>2, <2>4, <2>5, <3>2, <3>3, <3>4
  <2> QED  BY <2>2, <2>4, <2>5
<1> QED  BY <1>2, <1>3 DEF wu_read

(* The reset of wu_read_data in front of what was to do.                   *)
LEMMA WuResets ==
  ASSUME WuInv, wuAt = "read", wuTodo[1].op = "data", WuGoOn(WuReset \o wuTodo), wuOpt' = wuOpt, wuUpset' # {}
  PROVE  /\ wuTodo' \in Seq(WuTasks) /\ wuTodo' # <<>> /\ wuAt' = "write" /\ WuOrder'
         /\ wuTodo'[Len(wuTodo')] = wuTodo[Len(wuTodo)]
         /\ \A i \in 1..Len(wuTodo') : \/ wuTodo'[i].op \in {"stop", "clear", "start"}
                                       \/ \E j \in 1..Len(wuTodo) : wuTodo'[i] = wuTodo[j]
<1> DEFINE N == Len(wuTodo)
           a == WuDo("stop", FALSE)
           b == WuDo("clear", FALSE)
           c == WuDo("start", FALSE)
<1>1. wuTodo \in Seq(WuTasks) /\ wuTodo # <<>> /\ N \in Nat /\ N >= 1
  BY DEF WuInv, WuTyped
<1>2. a \in WuTasks /\ b \in WuTasks /\ c \in WuTasks /\ a.op = "stop" /\ b.op = "clear" /\ c.op = "start"
  BY DEF WuDo, WuTasks, WuOps
<1>3. wuTodo' = WuReset \o wuTodo /\ wuAt' = (IF WuReset \o wuTodo = <<>> THEN "done" ELSE "write")
  BY DEF WuGoOn
<1>4. WuReset = <<a, b, c>>
  BY DEF WuReset
<1> HIDE DEF a, b, c, WuTasks
<1>5. WuReset \in Seq(WuTasks) /\ Len(WuReset) = 3 /\ WuReset[1] = a /\ WuReset[2] = b /\ WuReset[3] = c
  BY <1>2, <1>4
<1>6. /\ wuTodo' \in Seq(WuTasks) /\ Len(wuTodo') = 3 + N
      /\ \A i \in 1..3 : wuTodo'[i] = WuReset[i]
      /\ \A i \in 1..N : wuTodo'[3 + i] = wuTodo[i]
  <2>1. WuReset \in Seq(WuTasks) /\ wuTodo \in Seq(WuTasks)
    BY <1>1, <1>5
  <2>2. WuReset \o wuTodo \in Seq(WuTasks) /\ Len(WuReset \o wuTodo) = Len(WuReset) + N
    BY <2>1, ConcatFacts
  <2>3. \A i \in 1..Len(WuReset) : (WuReset \o wuTodo)[i] = WuReset[i]
    BY <2>1, ConcatFacts
  <2>4. \A i \in 1..N : (WuReset \o wuTodo)[Len(WuReset) + i] = wuTodo[i]
    BY <2>1, ConcatFacts
  <2>5. \A i \in 1..3 : wuTodo'[i] = WuReset[i]
    BY <1>3, <1>5, <2>3
  <2>6. \A i \in 1..N : wuTodo'[3 + i] = wuTodo[i]
    BY <1>3, <1>5, <2>4
  <2> QED  BY <1>3, <1>5, <2>2, <2>5, <2>6
<1>7. wuTodo'[1].op = "stop" /\ wuTodo'[2].op = "clear" /\ wuTodo'[3].op = "start"
  BY <1>2, <1>5, <1>6
<1>8. wuTodo' # <<>> /\ wuAt' = "write"
  <2>1. wuTodo' # <<>>
    BY <1>1, <1>6
  <2> QED  BY <1>3, <2>1
<1>9. \A i \in 1..(3 + N) : i = 1 \/ i = 2 \/ i = 3 \/ (i - 3 \in 1..N /\ i = 3 + (i - 3))
  BY <1>1
<1>10. \A i \in 1..(3 + N) : i \in 1..3 \/ (i - 3 \in 1..N /\ wuTodo'[i] = wuTodo[i - 3])
  <2> TAKE i \in 1..(3 + N)
  <2>1. CASE i - 3 \in 1..N /\ i = 3 + (i - 3)
    <3> DEFINE m == i - 3
    <3>1. m \in 1..N /\ i = 3 + m
      BY <2>1
    <3> HIDE DEF m
    <3>2. wuTodo'[i] = wuTodo[m]
      BY <1>6, <3>1
    <3> QED  BY <3>1, <3>2 DEF m
  <2> QED  BY <1>9, <2>1
<1>11. WuOrder'
  <2>1. ASSUME NEW i \in 1..(3 + N), NEW j \in 1..(3 + N), i < j PROVE WuAfter(wuTodo'[i].op, wuTodo'[j].op)
    <3>1. CASE i = 1 \/ i = 2
      BY <1>7, <3>1 DEF WuAfter
    <3>2. CASE i = 3
      <4>1. j - 3 \in 1..N /\ wuTodo'[j] = wuTodo[j - 3]
        BY <1>1, <1>10, <2>1, <3>2
      <4>2. j - 3 = 1 \/ WuAfter(wuTodo[1].op, wuTodo[j - 3].op)
        BY <1>1, <4>1 DEF WuInv, WuOrder
      <4>3. wuTodo[j - 3].op \in {"data", "stop"}
        BY <4>2 DEF WuAfter
      <4> QED  BY <1>7, <3>2, <4>1, <4>3 DEF WuAfter
    <3>3. CASE i \notin 1..3
      <4>1. i - 3 \in 1..N /\ wuTodo'[i] = wuTodo[i - 3] /\ j - 3 \in 1..N /\ wuTodo'[j] = wuTodo[j - 3] /\ i - 3 < j - 3
        BY <1>1, <1>10, <2>1, <3>3
      <4>2. WuAfter(wuTodo[i - 3].op, wuTodo[j - 3].op)
        BY <4>1 DEF WuInv, WuOrder
      <4> QED  BY <4>1, <4>2
    <3> QED  BY <3>1, <3>2, <3>3
  <2>2. ASSUME "user" \notin wuOpt.set, NEW i \in 1..(3 + N) PROVE wuTodo'[i].op # "user="
    <3>1. CASE i \in 1..3
      BY <1>7, <3>1
    <3>2. CASE i - 3 \in 1..N /\ wuTodo'[i] = wuTodo[i - 3]
      <4>1. wuTodo[i - 3].op # "user="
        BY <2>2, <3>2 DEF WuInv, WuOrder
      <4> QED  BY <3>2, <4>1
    <3> QED  BY <1>10, <3>1, <3>2
  <2> QED  BY <1>6, <2>1, <2>2 DEF WuOrder, WuAfter
<1>12. wuTodo'[Len(wuTodo')] = wuTodo[N]
  BY <1>1, <1>6
<1>13. \A i \in 1..(3 + N) : wuTodo'[i].op \in {"stop", "clear", "start"} \/ \E j \in 1..N : wuTodo'[i] = wuTodo[j]
  <2> TAKE i \in 1..(3 + N)
  <2>1. CASE i \in 1..3
    BY <1>7, <2>1
  <2>2. CASE i - 3 \in 1..N /\ wuTodo'[i] = wuTodo[i - 3]
    BY <2>2
  <2> QED  BY <1>10, <2>1, <2>2
<1> QED  BY <1>6, <1>8, <1>11, <1>12, <1>13

(* A read of wu_show_header and its like, of wu_stop_log and of wu_clear.  *)
LEMMA WuShowed ==
  ASSUME WuInv, wuAt = "read", UNCHANGED <<wuOpt, wuRc, wuMeter>>, wuTodo[1].op # "data", wuTty' \in Seq(WuPieces),
         NEW r, wu_show(r), WuTask = wuTodo[1], wuUpset' = IF r = "error" THEN wuUpset \cup {"read"} ELSE wuUpset,
         \/ r = "error"
         \/ /\ r \in WuOps /\ r # "error"
            /\ \E k \in 1..Len(wuTty) :
                 /\ wuTty[k].part # "tail" /\ wuTty[k].kind = r
                 /\ \A i \in 1..Len(wuTty') : \E j \in 1..Len(wuTty) : j > k /\ wuTty'[i] = wuTty[j]
  PROVE  WuInv'
<1> DEFINE N == Len(wuTodo)
           op == wuTodo[1].op
           x == [op |-> op, kind |-> r]
<1>1. /\ WuTyped /\ WuOrder /\ WuStops /\ WuCounts /\ WuInStep /\ WuGoOn(Tail(wuTodo)) /\ UNCHANGED wuRetried
      /\ wuTodo \in Seq(WuTasks) /\ wuTodo # <<>> /\ wuOpt.count \in Int
  BY DEF WuInv, wu_show, WuTyped, WuOptions
<1>2. op \in WuOps /\ 1 \in 1..N /\ op \notin WuStoreOps \cup {"start"}
  <2>1. wuTodo[1] \in WuTasks /\ 1 \in 1..N
    <3> HIDE DEF WuTasks
    <3> QED  BY <1>1
  <2> QED  BY <1>1, <2>1 DEF WuTasks, WuTyped
<1>3. "write" \in wuUpset' <=> "write" \in wuUpset
  OBVIOUS
<1>4. wuUpset' = {} => wuUpset = {} /\ r # "error"
  OBVIOUS
<1>5. /\ wuTodo' \in Seq(WuTasks) /\ N \in Nat /\ Len(wuTodo') = N - 1 /\ WuOrder'
      /\ \A i \in 1..Len(wuTodo') : wuTodo'[i] = wuTodo[i + 1]
      /\ \/ wuAt' = "done" /\ N = 1 /\ wuTodo' = <<>>
         \/ wuAt' = "write" /\ N > 1 /\ wuTodo' # <<>> /\ wuTodo'[Len(wuTodo')] = wuTodo[N]
  BY <1>1, <1>4, WuPopped
<1>6. \A i \in 1..Len(wuTodo') : wuTodo'[i] = wuTodo[i + 1] /\ i + 1 \in 1..N
  BY <1>5
<1>7. \/ wuShown' = wuShown
      \/ wuShown' = Append(wuShown, x) /\ r # "error"
  BY DEF wu_show
<1>8. WuPrinted' = WuPrinted /\ wuShown' \in Seq([op : WuOps, kind : WuOps])
  <2>1. CASE wuShown' = wuShown
    BY <1>1, <2>1 DEF WuPrinted, WuTyped
  <2>2. CASE wuShown' = Append(wuShown, x) /\ r # "error"
    <3>1. x \in [op : WuOps, kind : WuOps] /\ x.op # "data"
      BY <1>2, <2>2
    <3> HIDE DEF x
    <3> QED  BY <1>1, <2>2, <3>1, WuMore
  <2> QED  BY <1>7, <2>1, <2>2
<1>9. WuTyped'
  BY <1>1, <1>5, <1>8 DEF WuTyped
<1>10. WuQuiet' <=> WuQuiet
  BY DEF WuQuiet
<1>11. WuNoLog => WuNoLog'
  BY <1>6, <1>10 DEF WuNoLog, WuCalm
<1>12. WuStops'
  <2>1. (\E i \in 1..Len(wuTodo') : wuTodo'[i].op \in WuStoreOps) => WuQuiet' \/ wuMeter'.was
    BY <1>1, <1>6, <1>10 DEF WuStops
  <2>2. "write" \notin wuUpset => (wuTodo[N].op = "stop" /\ (N = 1 => WuQuiet)) \/ WuNoLog
    BY <1>1 DEF WuStops
  <2>3. WuQuiet \/ WuNoLog => WuCalm'
    BY <1>10 DEF WuNoLog, WuCalm
  <2> QED  BY <1>3, <1>5, <1>10, <1>11, <2>1, <2>2, <2>3 DEF WuStops
<1>13. WuCounts'
  BY <1>1, <1>6, <1>8 DEF WuCounts
<1>14. WuInStep'
  <2> SUFFICES ASSUME wuUpset' = {}, ~wuMeter.was, "user" \notin wuOpt.set
               PROVE  (wuAt' = "write" => WuAsking') /\ \A i \in 1..Len(wuShown') : WuAnswerOf(wuShown'[i])
    BY <1>5 DEF WuInStep
  <2>1. WuAsking /\ \A i \in 1..Len(wuShown) : WuAnswerOf(wuShown[i])
    BY <1>1, <1>4 DEF WuInStep
  <2>4. ASSUME WuAnswerOf(x), r # "error" PROVE \A i \in 1..Len(wuShown') : WuAnswerOf(wuShown'[i])
    <3>1. CASE wuShown' = wuShown
      BY <2>1, <3>1
    <3>2. CASE wuShown' = Append(wuShown, x)
      <4>1. x \in [op : WuOps, kind : WuOps]
        BY <1>2, <2>4
      <4> HIDE DEF x
      <4>2. /\ Len(wuShown') = Len(wuShown) + 1 /\ wuShown'[Len(wuShown) + 1] = x
            /\ \A i \in 1..Len(wuShown) : wuShown'[i] = wuShown[i]
        BY <1>1, <3>2, <4>1, WuMore
      <4>3. Len(wuShown) \in Nat
        BY <1>1 DEF WuTyped
      <4>4. \A i \in 1..(Len(wuShown) + 1) : i \in 1..Len(wuShown) \/ i = Len(wuShown) + 1
        BY <4>3
      <4> QED  BY <2>1, <2>4, <4>2, <4>4
    <3> QED  BY <1>7, <3>1, <3>2
  <2>5. PICK k \in 1..Len(wuTty) :
          /\ wuTty[k].part # "tail" /\ wuTty[k].kind = r
          /\ \A i \in 1..Len(wuTty') : \E j \in 1..Len(wuTty) : j > k /\ wuTty'[i] = wuTty[j]
    BY <1>4
  <2>2. CASE op = "stop"
    <3>1. N = 1
      BY <1>1, <1>2, <1>4, <1>5, <2>2 DEF WuOrder
    <3>2. r \in {"data", "stop"}
      BY <2>1, <2>2, <2>5 DEF WuAsking
    <3>3. WuAnswerOf(x)
      BY <2>2, <3>2 DEF WuAnswerOf
    <3> QED  BY <1>4, <1>5, <2>4, <3>1, <3>3
  <2>3. CASE op # "stop"
    <3>2. ~WuOnlyTails
      BY <2>5 DEF WuOnlyTails
    <3>3. /\ ~wuMeter.logging /\ wuMeter.reqs = <<>>
          /\ \E m \in 1..Len(wuTty) : wuTty[m].kind = op /\ \A i \in 1..Len(wuTty) : i # m => wuTty[i].part = "tail"
      BY <2>1, <2>3, <3>2 DEF WuAsking
    <3>4. r = op /\ \A i \in 1..Len(wuTty) : i # k => wuTty[i].part = "tail"
      BY <2>5, <3>3
    <3>5. WuOnlyTails'
      BY <2>5, <3>4 DEF WuOnlyTails
    <3>6. ASSUME wuAt' = "write" PROVE WuAsking'
      <4>1. Len(wuMeter'.reqs) = 0 /\ ~wuMeter'.logging
        BY <3>3
      <4>2. CASE wuTodo'[1].op = "stop"
        BY <3>5, <4>1, <4>2 DEF WuAsking, WuOnlyTails
      <4>3. CASE wuTodo'[1].op = "data"
        BY <3>5, <4>1, <4>3 DEF WuAsking, WuOnlyTails
      <4>4. CASE wuTodo'[1].op \notin {"stop", "data"}
        BY <3>5, <3>6, <4>1, <4>4 DEF WuAsking
      <4> QED  BY <4>2, <4>3, <4>4
    <3>7. WuAnswerOf(x)
      BY <3>4 DEF WuAnswerOf
    <3> QED  BY <1>4, <2>4, <3>6, <3>7
  <2> QED  BY <2>2, <2>3
<1> QED  BY <1>5, <1>9, <1>12, <1>13, <1>14 DEF WuInv

(* wu_read_data: a record or a bad one.                                    *)
LEMMA WuRecorded ==
  ASSUME WuInv, wuAt = "read", UNCHANGED <<wuOpt, wuRc, wuMeter>>, wuTodo[1].op = "data", wuTty' \in Seq(WuPieces),
         NEW r, wu_read_data(r), wuUpset' = IF r = "error" THEN wuUpset \cup {"read"} ELSE wuUpset,
         \/ r = "error"
         \/ /\ r \in WuOps /\ r # "error"
            /\ \E k \in 1..Len(wuTty) :
                 /\ wuTty[k].part # "tail" /\ wuTty[k].kind = r
                 /\ \A i \in 1..Len(wuTty') : \E j \in 1..Len(wuTty) : j > k /\ wuTty'[i] = wuTty[j]
  PROVE  WuInv'
<1> DEFINE N == Len(wuTodo)
<1>1. /\ WuTyped /\ WuOrder /\ WuStops /\ WuCounts /\ WuInStep
      /\ wuTodo \in Seq(WuTasks) /\ wuTodo # <<>> /\ wuOpt.count \in Int /\ wuRetried \in Nat
  BY DEF WuInv, WuTyped, WuOptions
<1>2. 1 \in 1..N /\ N \in Nat /\ WuPrinted \in Nat
  <2> HIDE DEF WuTasks
  <2> QED  BY <1>1, WuNumber
<1>3. /\ "write" \in wuUpset' <=> "write" \in wuUpset
      /\ wuUpset' = {} => wuUpset = {} /\ r # "error"
  OBVIOUS
<1>4. WuQuiet' <=> WuQuiet
  BY DEF WuQuiet
<1>5. /\ \A i \in 1..N : i > 1 => wuTodo[i].op = "stop"
      /\ (\E i \in 1..N : wuTodo[i].op \in WuStoreOps) => WuQuiet \/ wuMeter.was
      /\ wuOpt.count > 0 => WuPrinted < wuOpt.count
  BY <1>1, <1>2 DEF WuOrder, WuAfter, WuStops, WuCounts
<1>6. "write" \notin wuUpset => wuTodo[N].op = "stop" /\ N # 1
  BY <1>1, <1>2 DEF WuStops, WuNoLog
<1>7. \/ r = "error" /\ wuShown' = wuShown /\ wuRetried' \in Nat /\ WuPrinted' = WuPrinted
      \/ /\ r # "error" /\ wuRetried' \in Nat /\ WuPrinted' = WuPrinted + 1
         /\ wuShown' \in Seq([op : WuOps, kind : WuOps]) /\ Len(wuShown') = Len(wuShown) + 1
         /\ wuShown'[Len(wuShown) + 1].op = "data" /\ wuShown'[Len(wuShown) + 1].kind = r
         /\ \A i \in 1..Len(wuShown) : wuShown'[i] = wuShown[i]
  <2>1. CASE r = "error"
    <3>1. wuShown' = wuShown /\ wuRetried' = wuRetried + 1
      BY <2>1 DEF wu_read_data, WuRetries
    <3> QED  BY <1>1, <2>1, <3>1 DEF WuPrinted
  <2>2. CASE r # "error"
    <3> DEFINE x == [op |-> "data", kind |-> r]
    <3>1. x \in [op : WuOps, kind : WuOps] /\ x.op = "data" /\ x.kind = r
      BY <2>2 DEF WuOps
    <3>2. wuShown' = Append(wuShown, x) /\ wuRetried' = 0
      BY <2>2 DEF wu_read_data
    <3> HIDE DEF x
    <3>3. /\ wuShown' \in Seq([op : WuOps, kind : WuOps]) /\ WuPrinted' = WuPrinted + 1
          /\ Len(wuShown') = Len(wuShown) + 1 /\ wuShown'[Len(wuShown) + 1] = x
          /\ \A i \in 1..Len(wuShown) : wuShown'[i] = wuShown[i]
      BY <1>1, <3>1, <3>2, WuMore
    <3> QED  BY <2>2, <3>1, <3>2, <3>3
  <2> QED  BY <2>1, <2>2
<1>8. wuShown' \in Seq([op : WuOps, kind : WuOps]) /\ wuRetried' \in Nat
  BY <1>1, <1>7 DEF WuTyped
<1>9. ASSUME wuUpset' = {}, ~wuMeter.was, "user" \notin wuOpt.set
      PROVE  /\ \A i \in 1..Len(wuShown') : WuAnswerOf(wuShown'[i])
             /\ \A i \in 1..Len(wuMeter.reqs) : wuMeter.reqs[i] \in {"interval=", "mode=", "start"}
             /\ \A i \in 1..Len(wuTty') : wuTty'[i].part # "tail" => wuTty'[i].kind = "data"
  <2>1. WuAsking /\ \A i \in 1..Len(wuShown) : WuAnswerOf(wuShown[i])
    BY <1>1, <1>3, <1>9 DEF WuInStep
  <2>2. /\ \A i \in 1..Len(wuMeter.reqs) : wuMeter.reqs[i] \in {"interval=", "mode=", "start"}
        /\ \A i \in 1..Len(wuTty) : wuTty[i].part # "tail" => wuTty[i].kind = "data"
    BY <2>1 DEF WuAsking
  <2>3. PICK k \in 1..Len(wuTty) :
          /\ wuTty[k].part # "tail" /\ wuTty[k].kind = r
          /\ \A i \in 1..Len(wuTty') : \E j \in 1..Len(wuTty) : j > k /\ wuTty'[i] = wuTty[j]
    BY <1>3, <1>9
  <2>4. r = "data" /\ \A i \in 1..Len(wuTty') : wuTty'[i].part # "tail" => wuTty'[i].kind = "data"
    BY <2>2, <2>3
  <2>5. Len(wuShown) \in Nat
    BY <1>1 DEF WuTyped
  <2>6. \A i \in 1..(Len(wuShown) + 1) : i \in 1..Len(wuShown) \/ i = Len(wuShown) + 1
    BY <2>5
  <2>7. \A i \in 1..Len(wuShown') : WuAnswerOf(wuShown'[i])
    BY <1>3, <1>7, <1>9, <2>1, <2>4, <2>6 DEF WuAnswerOf
  <2> QED  BY <2>2, <2>4, <2>7
<1>10. CASE WuGoOn(Tail(wuTodo))
  <2>1. /\ wuTodo' \in Seq(WuTasks) /\ WuOrder' /\ Len(wuTodo') = N - 1
        /\ \A i \in 1..Len(wuTodo') : wuTodo'[i] = wuTodo[i + 1]
        /\ \/ wuAt' = "done" /\ N = 1 /\ wuTodo' = <<>>
           \/ wuAt' = "write" /\ N > 1 /\ wuTodo' # <<>> /\ wuTodo'[Len(wuTodo')] = wuTodo[N]
    BY <1>1, <1>3, <1>10, WuPopped
  <2>2. \A i \in 1..Len(wuTodo') : i + 1 \in 1..N /\ i + 1 > 1 /\ wuTodo'[i].op = "stop"
    BY <1>2, <1>5, <2>1
  <2>3. WuStops'
    BY <1>3, <1>6, <2>1, <2>2 DEF WuStops, WuStoreOps
  <2>4. WuTyped'
    BY <1>1, <1>8, <2>1 DEF WuTyped
  <2>5. WuCounts'
    BY <1>1, <1>2, <1>5, <1>7, <2>2 DEF WuCounts
  <2>6. WuInStep'
    <3>1. ASSUME wuUpset' = {}, ~wuMeter.was, "user" \notin wuOpt.set, wuAt' \in {"write", "read"} PROVE WuAsking'
      <4>1. 1 \in 1..Len(wuTodo')
        BY <1>2, <2>1, <3>1
      <4> QED  BY <1>9, <2>2, <3>1, <4>1 DEF WuAsking
    <3> QED  BY <1>9, <3>1 DEF WuInStep
  <2> QED  BY <2>1, <2>3, <2>4, <2>5, <2>6 DEF WuInv
<1>11. CASE UNCHANGED <<wuAt, wuTodo>> /\ (r # "error" /\ wuOpt.count > 0 => WuPrinted + 1 # wuOpt.count)
  <2>1. WuTyped'
    BY <1>1, <1>8, <1>11 DEF WuTyped
  <2>2. WuOrder'
    BY <1>1, <1>3, <1>11 DEF WuOrder
  <2>3. WuStops'
    BY <1>3, <1>4, <1>5, <1>6, <1>11 DEF WuStops
  <2>4. WuCounts'
    BY <1>1, <1>2, <1>5, <1>7, <1>11 DEF WuCounts
  <2>5. WuInStep'
    BY <1>9, <1>11 DEF WuInStep, WuAsking
  <2> QED  BY <2>1, <2>2, <2>3, <2>4, <2>5 DEF WuInv
<1>12. CASE WuGoOn(WuReset \o wuTodo) /\ r = "error"
  <2>1. wuUpset' # {}
    BY <1>12
  <2>2. /\ wuTodo' \in Seq(WuTasks) /\ wuTodo' # <<>> /\ wuAt' = "write" /\ WuOrder'
        /\ wuTodo'[Len(wuTodo')] = wuTodo[N]
        /\ \A i \in 1..Len(wuTodo') : \/ wuTodo'[i].op \in {"stop", "clear", "start"}
                                      \/ \E j \in 1..N : wuTodo'[i] = wuTodo[j]
    BY <1>12, <2>1, WuResets
  <2>3. WuTyped'
    BY <1>1, <1>8, <2>2 DEF WuTyped
  <2>4. (\E i \in 1..Len(wuTodo') : wuTodo'[i].op \in WuStoreOps) => WuQuiet' \/ wuMeter'.was
    BY <1>4, <1>5, <2>2 DEF WuStoreOps
  <2>5. WuStops'
    BY <1>3, <1>6, <2>2, <2>4 DEF WuStops
  <2>6. WuCounts'
    BY <1>1, <1>2, <1>5, <1>7, <1>12 DEF WuCounts
  <2>7. WuInStep'
    BY <2>1 DEF WuInStep
  <2> QED  BY <2>2, <2>3, <2>5, <2>6, <2>7 DEF WuInv
<1>13. CASE r = "error"
  <2>1. wuRetried + 1 < WuRetry \/ wuRetried + 1 = WuRetry \/ (~(wuRetried + 1 < WuRetry) /\ wuRetried + 1 # WuRetry)
    OBVIOUS
  <2>2. CASE wuRetried + 1 < WuRetry
    <3>1. wuRetried + 1 # WuRetry
      BY <1>1, <2>2, WuNumbers
    <3> QED  BY <1>11, <1>13, <2>2, <3>1 DEF wu_read_data
  <2>3. CASE wuRetried + 1 = WuRetry
    <3>1. ~(wuRetried + 1 < WuRetry)
      BY <1>1, <2>3, WuNumbers
    <3> QED  BY <1>12, <1>13, <2>3, <3>1 DEF wu_read_data
  <2>4. CASE ~(wuRetried + 1 < WuRetry) /\ wuRetried + 1 # WuRetry
    BY <1>10, <1>13, <2>4 DEF wu_read_data, WuGiveUp
  <2> QED  BY <2>1, <2>2, <2>3, <2>4
<1>14. CASE r # "error"
  BY <1>1, <1>10, <1>11, <1>14 DEF wu_read_data
<1> QED  BY <1>13, <1>14

LEMMA WuReadOn ==
  ASSUME WuInv, wu_read
  PROVE  WuInv'
<1>1. wuAt = "read" /\ UNCHANGED <<wuOpt, wuRc, wuMeter>> /\ WuTyped /\ wuTodo \in Seq(WuTasks) /\ wuTodo # <<>>
  BY DEF wu_read, WuInv, WuTyped
<1>2. WuTask = wuTodo[1]
  <2> HIDE DEF WuTasks
  <2> QED  BY <1>1 DEF WuTask
<1>3. PICK r : /\ WuTakes(r) /\ wuTty' \in Seq(WuPieces)
               /\ \/ r = "error"
                  \/ /\ r \in WuOps /\ r # "error"
                     /\ \E k \in 1..Len(wuTty) :
                          /\ wuTty[k].part # "tail" /\ wuTty[k].kind = r
                          /\ \A i \in 1..Len(wuTty') : \E j \in 1..Len(wuTty) : j > k /\ wuTty'[i] = wuTty[j]
  BY <1>1, WuGot
<1>4. wuUpset' = IF r = "error" THEN wuUpset \cup {"read"} ELSE wuUpset
  BY <1>3 DEF WuTakes
<1>5. CASE wuTodo[1].op = "data"
  <2>1. wu_read_data(r)
    BY <1>2, <1>3, <1>5 DEF WuTakes
  <2> QED  BY <1>1, <1>3, <1>4, <1>5, <2>1, WuRecorded
<1>6. CASE wuTodo[1].op # "data"
  <2>1. wu_show(r)
    BY <1>2, <1>3, <1>6 DEF WuTakes
  <2> QED  BY <1>1, <1>2, <1>3, <1>4, <1>6, <2>1, WuShowed
<1> QED  BY <1>5, <1>6

(* The meter answers the requests in turn, the one being waited for last.  *)
LEMMA WuReplied ==
  ASSUME WuInv, WuAnswers
  PROVE  WuInv'
<1> DEFINE q == wuMeter.reqs[1]
           N == Len(wuMeter.reqs)
           op == wuTodo[1].op
<1>1. /\ UNCHANGED <<wuAt, wuTodo, wuOpt, wuRetried, wuRc, wuShown, wuUpset>> /\ wuMeter.reqs # <<>>
      /\ WuTyped /\ WuOrder /\ WuStops /\ WuCounts /\ WuInStep
  BY DEF WuAnswers, WuInv
<1>2. /\ N \in Nat /\ N > 0 /\ q \in WuOps
      /\ wuMeter' \in [reqs : Seq(WuOps), logging : BOOLEAN, sent : Nat, was : BOOLEAN] /\ Len(wuMeter'.reqs) = N - 1
      /\ \A i \in 1..(N - 1) : wuMeter'.reqs[i] = wuMeter.reqs[i + 1]
      /\ wuMeter'.was = wuMeter.was
      /\ q \notin {"start", "stop"} => wuMeter'.logging = wuMeter.logging
      /\ WuQuiet => WuQuiet'
      /\ IF q \in {"start", "interval=", "mode="} THEN UNCHANGED <<wuTty, wuFaults>> ELSE WuSends(q)
  BY <1>1, WuAnswered
<1> HIDE DEF q, N
<1>3. wuTty' \in Seq(WuPieces)
  BY <1>1, <1>2, WuSent DEF WuTyped
<1>4. wuAt # "new"
  BY <1>1 DEF WuTyped
<1>5. WuTyped'
  BY <1>1, <1>2, <1>3, <1>4 DEF WuTyped
<1>6. WuOrder' /\ WuCounts'
  BY <1>1 DEF WuOrder, WuCounts, WuPrinted
<1>7. WuStops'
  <2>1. (WuNoLog => WuNoLog') /\ (WuCalm => WuCalm')
    BY <1>1, <1>2 DEF WuNoLog, WuCalm
  <2> QED  BY <1>1, <1>2, <2>1 DEF WuStops
<1>8. WuInStep'
  <2> SUFFICES ASSUME wuUpset = {}, ~wuMeter.was, "user" \notin wuOpt.set, wuAt \in {"write", "read"} PROVE WuAsking'
    BY <1>1, <1>2 DEF WuInStep
  <2>1. WuAsking
    BY <1>1 DEF WuInStep
  <2>2. \A i \in 1..(N - 1) : i + 1 \in 1..N
    BY <1>2
  <2>3. 1 \in 1..N
    BY <1>2
  <2>4. CASE op = "stop"
    <3>1. /\ \A i \in 1..N : wuMeter.reqs[i] \in {"interval=", "mode=", "start", "stop"}
          /\ \A i \in 1..Len(wuTty) : wuTty[i].part # "tail" => wuTty[i].kind \in {"data", "stop"}
      BY <2>1, <2>4 DEF WuAsking, N
    <3>2. \A i \in 1..Len(wuMeter'.reqs) : wuMeter'.reqs[i] \in {"interval=", "mode=", "start", "stop"}
      BY <1>2, <2>2, <3>1
    <3>3. CASE wuTty' = wuTty
      BY <1>1, <2>4, <3>1, <3>2, <3>3 DEF WuAsking
    <3>4. CASE q = "stop" /\ WuSends(q)
      <4>1. /\ \A i \in 1..Len(wuTty) : wuTty'[i] = wuTty[i]
            /\ \A i \in 1..Len(wuTty') : i > Len(wuTty) => wuTty'[i].kind = q
        BY <1>1, <1>2, <3>4, WuSent
      <4>2. Len(wuTty) \in Nat /\ Len(wuTty') \in Nat
        BY <1>1, <1>3 DEF WuTyped
      <4>3. \A i \in 1..Len(wuTty') : i > Len(wuTty) \/ i \in 1..Len(wuTty)
        BY <4>2
      <4>4. \A i \in 1..Len(wuTty') : wuTty'[i].part # "tail" => wuTty'[i].kind \in {"data", "stop"}
        BY <3>1, <3>4, <4>1, <4>3
      <4> QED  BY <1>1, <2>4, <3>2, <4>4 DEF WuAsking
    <3>5. q \in {"interval=", "mode=", "start", "stop"}
      BY <2>3, <3>1 DEF q
    <3> QED  BY <1>2, <3>3, <3>4, <3>5
  <2>5. CASE op = "data"
    <3>1. /\ \A i \in 1..N : wuMeter.reqs[i] \in {"interval=", "mode=", "start"}
          /\ \A i \in 1..Len(wuTty) : wuTty[i].part # "tail" => wuTty[i].kind = "data"
      BY <2>1, <2>5 DEF WuAsking, N
    <3>2. wuTty' = wuTty
      BY <1>2, <2>3, <3>1 DEF q
    <3> QED  BY <1>1, <1>2, <2>2, <2>5, <3>1, <3>2 DEF WuAsking
  <2>6. CASE op \notin {"stop", "data"} /\ wuAt = "write"
    <3>1. /\ ~wuMeter.logging /\ WuOnlyTails
          /\ \A i \in 1..N : wuMeter.reqs[i] \in {"interval=", "mode="}
      BY <2>1, <2>6 DEF WuAsking, N
    <3>2. wuTty' = wuTty /\ ~wuMeter'.logging
      BY <1>2, <2>3, <3>1 DEF q
    <3>3. WuOnlyTails' /\ \A i \in 1..Len(wuMeter'.reqs) : wuMeter'.reqs[i] \in {"interval=", "mode="}
      BY <1>2, <2>2, <3>1, <3>2 DEF WuOnlyTails
    <3> QED  BY <1>1, <2>6, <3>2, <3>3 DEF WuAsking
  <2>7. CASE op \notin {"stop", "data"} /\ wuAt = "read"
    <3>1. /\ ~wuMeter.logging /\ WuOnlyTails /\ wuMeter.reqs[N] = op
          /\ \A i \in 1..(N - 1) : wuMeter.reqs[i] \in {"interval=", "mode="}
      BY <1>1, <2>1, <2>7 DEF WuAsking, N
    <3>2. op \notin WuStoreOps \cup {"start"}
      BY <1>1, <2>7 DEF WuTyped
    <3>3. CASE N > 1
      <4>1. q \in {"interval=", "mode="}
        BY <1>2, <3>1, <3>3 DEF q
      <4>2. wuTty' = wuTty /\ ~wuMeter'.logging
        BY <1>2, <3>1, <4>1
      <4>3. Len(wuMeter'.reqs) = N - 1 /\ wuMeter'.reqs[N - 1] = op /\ wuMeter'.reqs # <<>>
        <5>1. N - 1 \in 1..(N - 1) /\ (N - 1) + 1 = N
          BY <1>2, <3>3
        <5>2. wuMeter'.reqs[N - 1] = wuMeter.reqs[(N - 1) + 1]
          BY <1>2, <5>1
        <5> QED  BY <1>2, <3>1, <5>1, <5>2
      <4>4. \A i \in 1..((N - 1) - 1) : wuMeter'.reqs[i] \in {"interval=", "mode="}
        <5>1. \A i \in 1..((N - 1) - 1) : i \in 1..(N - 1) /\ i + 1 \in 1..(N - 1)
          BY <1>2
        <5> QED  BY <1>2, <3>1, <5>1
      <4>5. WuOnlyTails'
        BY <3>1, <4>2 DEF WuOnlyTails
      <4> QED  BY <1>1, <2>7, <4>2, <4>3, <4>4, <4>5 DEF WuAsking
    <3>4. CASE N = 1
      <4>1. q = op /\ q \notin {"start", "stop", "interval=", "mode="}
        BY <2>7, <3>1, <3>2, <3>4 DEF q, WuStoreOps
      <4>2. WuSends(q) /\ ~wuMeter'.logging
        BY <1>2, <3>1, <4>1
      <4>3. wuMeter'.reqs = <<>>
        BY <1>2, <3>4
      <4>4. /\ \A i \in 1..Len(wuTty) : wuTty'[i] = wuTty[i]
            /\ \E k \in 1..Len(wuTty') : /\ wuTty'[k].kind = q /\ k = Len(wuTty) + 1
                                        /\ \A i \in 1..Len(wuTty') : i > k => wuTty'[i].part = "tail"
        BY <1>1, <1>2, <4>2, WuSent
      <4>5. PICK k \in 1..Len(wuTty') : /\ wuTty'[k].kind = q /\ k = Len(wuTty) + 1
                                       /\ \A i \in 1..Len(wuTty') : i > k => wuTty'[i].part = "tail"
        BY <4>4
      <4>6. Len(wuTty) \in Nat /\ Len(wuTty') \in Nat
        BY <1>1, <1>3 DEF WuTyped
      <4>7. \A i \in 1..Len(wuTty') : i # k => wuTty'[i].part = "tail"
        <5>1. \A i \in 1..Len(wuTty') : i # k => i > k \/ i \in 1..Len(wuTty)
          BY <4>5, <4>6
        <5> QED  BY <3>1, <4>4, <4>5, <5>1 DEF WuOnlyTails
      <4>8. \E m \in 1..Len(wuTty') : wuTty'[m].kind = op /\ \A i \in 1..Len(wuTty') : i # m => wuTty'[i].part = "tail"
        BY <4>1, <4>5, <4>7
      <4> QED  BY <1>1, <2>7, <4>2, <4>3, <4>8 DEF WuAsking
    <3> QED  BY <1>2, <3>3, <3>4
  <2> QED  BY <2>4, <2>5, <2>6, <2>7
<1> QED  BY <1>5, <1>6, <1>7, <1>8 DEF WuInv

LEMMA WuLogged ==
  ASSUME WuInv, WuRecords
  PROVE  WuInv'
<1>1. /\ UNCHANGED <<wuAt, wuTodo, wuOpt, wuRetried, wuRc, wuShown, wuUpset>>
      /\ wuMeter.logging /\ wuMeter.reqs = <<>> /\ wuMeter' = [wuMeter EXCEPT !.sent = @ + 1] /\ WuSends("data")
      /\ WuTyped /\ WuOrder /\ WuStops /\ WuCounts /\ WuInStep
  BY DEF WuRecords, WuInv
<1>2. /\ wuMeter' \in [reqs : Seq(WuOps), logging : BOOLEAN, sent : Nat, was : BOOLEAN]
      /\ wuMeter'.reqs = wuMeter.reqs /\ wuMeter'.logging = wuMeter.logging /\ wuMeter'.was = wuMeter.was
  <2>1. PICK r \in Seq(WuOps), l \in BOOLEAN, n \in Nat, w \in BOOLEAN : wuMeter = [reqs |-> r, logging |-> l, sent |-> n, was |-> w]
    BY <1>1 DEF WuTyped
  <2>2. wuMeter' = [reqs |-> r, logging |-> l, sent |-> n + 1, was |-> w] /\ n + 1 \in Nat
    <3>1. [[reqs |-> r, logging |-> l, sent |-> n, was |-> w] EXCEPT !.sent = @ + 1] = [reqs |-> r, logging |-> l, sent |-> n + 1, was |-> w]
      OBVIOUS
    <3>2. wuMeter' = [[reqs |-> r, logging |-> l, sent |-> n, was |-> w] EXCEPT !.sent = @ + 1]
      BY <1>1, <2>1
    <3>3. n + 1 \in Nat
      OBVIOUS
    <3> QED  BY <3>1, <3>2, <3>3
  <2>3. \A a \in Seq(WuOps), b \in BOOLEAN, c \in Nat, d \in BOOLEAN :
          [reqs |-> a, logging |-> b, sent |-> c, was |-> d] \in [reqs : Seq(WuOps), logging : BOOLEAN, sent : Nat, was : BOOLEAN]
    OBVIOUS
  <2>4. [reqs |-> r, logging |-> l, sent |-> n + 1, was |-> w] \in [reqs : Seq(WuOps), logging : BOOLEAN, sent : Nat, was : BOOLEAN]
    BY <2>2, <2>3
  <2>5. wuMeter'.reqs = wuMeter.reqs /\ wuMeter'.logging = wuMeter.logging /\ wuMeter'.was = wuMeter.was
    BY <2>1, <2>2
  <2> QED  BY <2>2, <2>4, <2>5, Zenon
<1>3. "data" \in WuOps
  BY DEF WuOps
<1>4. /\ wuTty' \in Seq(WuPieces) /\ \A i \in 1..Len(wuTty) : wuTty'[i] = wuTty[i]
      /\ \A i \in 1..Len(wuTty') : i > Len(wuTty) => wuTty'[i].kind = "data"
  BY <1>1, <1>3, WuSent
<1>5. wuAt # "new"
  BY <1>1 DEF WuTyped
<1>6. WuTyped'
  BY <1>1, <1>2, <1>4, <1>5 DEF WuTyped
<1>7. WuOrder' /\ WuCounts'
  BY <1>1 DEF WuOrder, WuCounts, WuPrinted
<1>8. WuQuiet' <=> WuQuiet
  BY <1>2 DEF WuQuiet
<1>9. WuStops'
  BY <1>1, <1>2, <1>8 DEF WuStops, WuNoLog, WuCalm
<1>10. WuInStep'
  <2> SUFFICES ASSUME wuUpset = {}, ~wuMeter.was, "user" \notin wuOpt.set, wuAt \in {"write", "read"} PROVE WuAsking'
    BY <1>1, <1>2 DEF WuInStep
  <2>1. WuAsking
    BY <1>1 DEF WuInStep
  <2>2. wuTodo[1].op \in {"stop", "data"}
    BY <1>1, <2>1 DEF WuAsking
  <2>5. Len(wuTty) \in Nat /\ Len(wuTty') \in Nat
    BY <1>1, <1>4 DEF WuTyped
  <2>6. \A i \in 1..Len(wuTty') : i > Len(wuTty) \/ i \in 1..Len(wuTty)
    BY <2>5
  <2>7. Len(wuMeter'.reqs) = 0
    BY <1>1, <1>2
  <2>3. CASE wuTodo[1].op = "stop"
    <3>1. \A i \in 1..Len(wuTty) : wuTty[i].part # "tail" => wuTty[i].kind \in {"data", "stop"}
      BY <2>1, <2>3 DEF WuAsking
    <3>2. \A i \in 1..Len(wuTty') : wuTty'[i].part # "tail" => wuTty'[i].kind \in {"data", "stop"}
      BY <1>4, <2>6, <3>1
    <3> QED  BY <1>1, <2>3, <2>7, <3>2 DEF WuAsking
  <2>4. CASE wuTodo[1].op = "data"
    <3>1. \A i \in 1..Len(wuTty) : wuTty[i].part # "tail" => wuTty[i].kind = "data"
      BY <2>1, <2>4 DEF WuAsking
    <3>2. \A i \in 1..Len(wuTty') : wuTty'[i].part # "tail" => wuTty'[i].kind = "data"
      BY <1>4, <2>6, <3>1
    <3> QED  BY <1>1, <2>4, <2>7, <3>2 DEF WuAsking
  <2> QED  BY <2>2, <2>3, <2>4
<1> QED  BY <1>6, <1>7, <1>9, <1>10 DEF WuInv

LEMMA WuInductive == WuInv /\ [WuNext]_wuVars => WuInv'
<1> SUFFICES ASSUME WuInv, [WuNext]_wuVars PROVE WuInv'
  OBVIOUS
<1>1. CASE UNCHANGED wuVars
  <2>1. UNCHANGED <<wuAt, wuTodo, wuOpt, wuRetried, wuRc, wuTty, wuMeter, wuShown, wuUpset, wuFaults>>
    BY <1>1 DEF wuVars
  <2>2. WuTyped' /\ WuOrder' /\ WuCounts'
    BY <2>1 DEF WuInv, WuTyped, WuOrder, WuCounts, WuPrinted
  <2>3. (WuQuiet' <=> WuQuiet) /\ (WuCalm' <=> WuCalm) /\ (WuNoLog' <=> WuNoLog)
    BY <2>1 DEF WuQuiet, WuCalm, WuNoLog
  <2>4. WuStops'
    BY <2>1, <2>3 DEF WuInv, WuStops
  <2>5. WuAsking' <=> WuAsking
    BY <2>1 DEF WuAsking, WuOnlyTails
  <2>6. WuInStep'
    BY <2>1, <2>5 DEF WuInv, WuInStep
  <2> QED  BY <2>2, <2>4, <2>6 DEF WuInv
<1> QED  BY <1>1, WuBegun, WuStored, WuWritten, WuDataBegun, WuReadOn, WuReplied, WuLogged DEF WuNext, WuStep

LEMMA WuOpens == WuInit => WuInv
<1> SUFFICES ASSUME WuInit PROVE WuInv
  OBVIOUS
<1>1. /\ wuAt = "new" /\ wuTodo = <<>> /\ wuOpt = WuNoOptions /\ wuRetried = 0 /\ wuTty = <<>> /\ wuShown = <<>> /\ wuUpset = {}
      /\ wuMeter = [reqs |-> <<>>, logging |-> FALSE, sent |-> 0, was |-> FALSE]
  BY DEF WuInit
<1>2. wuOpt \in WuOptions /\ ~(wuOpt.count > 0)
  BY <1>1 DEF WuNoOptions, WuOptions
<1>3. wuMeter.reqs = <<>> /\ ~wuMeter.logging /\ wuMeter \in [reqs : Seq(WuOps), logging : BOOLEAN, sent : Nat, was : BOOLEAN]
  BY <1>1
<1>4. WuTyped
  BY <1>1, <1>2, <1>3 DEF WuTyped
<1>5. WuQuiet
  BY <1>3 DEF WuQuiet
<1> QED  BY <1>1, <1>2, <1>4, <1>5 DEF WuInv, WuOrder, WuStops, WuCounts, WuInStep

LEMMA WuInvariant == ToolSpec => []WuInv
<1>1. ToolInit => WuInv
  BY WuOpens DEF ToolInit
<1>2. WuInv /\ [ToolNext]_toolVars => WuInv'
  BY ToolMoves, WuInductive
<1> QED  BY <1>1, <1>2, PTL DEF ToolSpec

(* For any command lines, any number of records, faults and resets: as     *)
(* long as no read or write has failed, wattsup, started with a meter that *)
(* does not log and not to store the user's parameters, prints under every *)
(* request the packet that answers it, or under -z at its end a record.    *)
THEOREM OwnAnswers == ToolSpec => []WuOwnAnswer
<1>1. WuInv => WuOwnAnswer
  BY DEF WuInv, WuInStep, WuOwnAnswer
<1> QED  BY <1>1, WuInvariant, PTL

(* However it ends, wattsup leaves a meter it could write to with its log  *)
(* stopped, or told to, unless the meter logged before and no records were *)
(* to be read or an error ended the tool; and it prints no more records    *)
(* than -c asks for.                                                       *)
THEOREM MeterLeft == ToolSpec => []WuLeavesMeter
<1>1. WuInv => WuLeavesMeter
  <2> SUFFICES ASSUME WuInv PROVE WuLeavesMeter
    OBVIOUS
  <2>1. wuMeter.reqs \in Seq(WuOps) /\ Len(wuMeter.reqs) \in Nat
    BY WuMeterFields DEF WuInv
  <2>2. ASSUME wuAt = "done", "write" \notin wuUpset, wuMeter.was => ~wuOpt.nodata /\ wuRc = "ok"
        PROVE  IF wuMeter.reqs = <<>> THEN ~wuMeter.logging ELSE "start" \notin {Last(wuMeter.reqs)}
    <3>1. WuQuiet
      BY <2>2 DEF WuInv, WuStops, WuCalm
    <3>2. CASE wuMeter.reqs = <<>>
      BY <3>1, <3>2 DEF WuQuiet
    <3>3. CASE wuMeter.reqs # <<>>
      <4> DEFINE n == Len(wuMeter.reqs)
      <4>1. n \in 1..n
        BY <2>1, <3>3
      <4>2. wuMeter.reqs[n] # "start"
        BY <3>1, <4>1 DEF WuQuiet
      <4> QED  BY <3>3, <4>2 DEF Last
    <3> QED  BY <3>2, <3>3
  <2>3. wuOpt.count > 0 => WuPrinted <= wuOpt.count
    BY DEF WuInv, WuCounts
  <2> QED  BY <2>2, <2>3 DEF WuLeavesMeter
<1> QED  BY <1>1, WuInvariant, PTL
-----------------------------------------------------------------------------
(* The init scripts.                                                       *)

(* A collector that nobody has asked to stop.                              *)
Unasked(l) == Life!CollectorUp(l) /\ l.asked = "no"

(* Launches find no such collector: the status was looked at, or a restart *)
(* has signalled all of them. Until then one at most is there.             *)
LaunchAlone ==
  ~missed /\ script = "launch" => \A i \in DOMAIN daemons : ~Unasked(daemons[i])

(* A collector that starts has no timer yet; one that was asked serves, so *)
(* it ends only together with its timer.                                   *)
TimerLate ==
  /\ \A i \in DOMAIN daemons : daemons[i].phase = "starting" => daemons[i].timer = "none"
  /\ \A i \in DOMAIN daemons : daemons[i].phase = "stray" => daemons[i].timer = "none"

ScriptInv == TypeOK /\ LaunchAlone /\ OneDaemon /\ TimerLate /\ NoStuckTimer
-----------------------------------------------------------------------------
(* What the daemons' own steps, accidents and signals do to one life.      *)
LEMMA OwnStep ==
  ASSUME NEW l \in Life!Lives, NEW t \in Life!Own(l)
  PROVE  /\ t \in Life!Lives
         /\ Unasked(t) => Unasked(l)
         /\ t.phase # "starting"
         /\ t.phase = "stray" => t.timer = "none"
         /\ Life!TimerUp(t) => Life!CollectorUp(t)
BY DEF Life!Lives, Life!Phases, Life!Own, Life!Stopped, Unasked, Life!CollectorUp, Life!TimerUp

LEMMA AccidentStep ==
  ASSUME NEW l \in Life!Lives, NEW t \in Life!Mishaps(l)
  PROVE  /\ t \in Life!Lives
         /\ Unasked(t) => Unasked(l)
         /\ t.phase = "starting" => l.phase = "starting" /\ l.timer = "on"
         /\ t.phase = "stray" => l.phase = "stray" /\ l.timer = "on"
BY DEF Life!Lives, Life!Phases, Life!Mishaps, Life!Crashed, Unasked, Life!CollectorUp, Life!TimerUp

LEMMA InterruptStep ==
  ASSUME NEW l \in Life!Lives
  PROVE  /\ Life!OnINT(l) \in Life!Lives
         /\ Life!OnINT(l).timer = l.timer
         /\ Unasked(Life!OnINT(l)) => Unasked(l) /\ IgnoresINT(l)
         /\ Life!OnINT(l).phase # "starting"
         /\ Life!OnINT(l).phase = "stray" => l.phase = "stray"
         /\ Life!CollectorUp(l) /\ l.phase # "starting" => Life!CollectorUp(Life!OnINT(l))
BY DEF Life!Lives, Life!Phases, Life!OnINT, Unasked, IgnoresINT, Life!CollectorUp

LEMMA ReloadStep ==
  ASSUME NEW l \in Life!Lives
  PROVE  /\ Life!OnUSR2(l) \in Life!Lives
         /\ Life!OnUSR2(l).timer = l.timer
         /\ Unasked(Life!OnUSR2(l)) => Unasked(l)
         /\ Life!OnUSR2(l).phase # "starting"
         /\ Life!OnUSR2(l).phase = "stray" => l.phase = "stray"
         /\ Life!CollectorUp(l) /\ l.phase # "starting" => Life!CollectorUp(Life!OnUSR2(l))
BY DEF Life!Lives, Life!Phases, Life!OnUSR2, Unasked, Life!CollectorUp

LEMMA BornUnasked ==
  /\ Life!Born \in Life!Lives /\ Life!Born.phase = "starting" /\ Life!Born.timer = "none"
  /\ ~Life!TimerUp(Life!Born)
BY DEF Life!Lives, Life!Phases, Life!Born, Life!TimerUp
-----------------------------------------------------------------------------
LEMMA InitInv == Init => ScriptInv
<1> SUFFICES ASSUME Init PROVE ScriptInv
  OBVIOUS
<1>1. daemons \in Seq(Life!Lives) /\ Len(daemons) = 0 /\ DOMAIN daemons = {}
  BY DEF Init
<1>2. missed \in BOOLEAN /\ script \in Steps /\ hurt = {}
  BY DEF Init, Steps
<1>3. TypeOK
  BY <1>1, <1>2, StartsAssumption DEF TypeOK
<1> QED
  BY <1>1, <1>2, <1>3 DEF Init, ScriptInv, LaunchAlone, OneDaemon, TimerLate, NoStuckTimer

(* The commands that look at the status: a launch follows only when no     *)
(* process was found.                                                      *)
LEMMA CommandInv ==
  ASSUME ScriptInv, Command
  PROVE  ScriptInv'
<1>1. UNCHANGED <<daemons, hurt, missed>> /\ script' \in Steps
  BY DEF Command, start, stop, reload, restart, condrestart, historyVars, Steps
<1>2. script' = "launch" => \A i \in DOMAIN daemons : ~Unasked(daemons[i])
  BY DEF Command, start, stop, reload, restart, condrestart, rh_status, HasProcess, Unasked
<1> QED
  BY <1>1, <1>2 DEF ScriptInv, TypeOK, LaunchAlone, OneDaemon, TimerLate, NoStuckTimer

LEMMA LaunchInv ==
  ASSUME ScriptInv, DoLaunch
  PROVE  ScriptInv'
<1>1. /\ daemons \in Seq(Life!Lives) /\ daemons' \in Seq(Life!Lives)
      /\ Len(daemons') = Len(daemons) + 1 /\ Len(daemons) \in Nat
      /\ \A i \in DOMAIN daemons : i \in DOMAIN daemons' /\ daemons'[i] = daemons[i]
      /\ \A i \in DOMAIN daemons' : i \in DOMAIN daemons \/ (i = Len(daemons) + 1 /\ daemons'[i] = Life!Born)
  BY BornUnasked DEF ScriptInv, TypeOK, DoLaunch
<1>2. TypeOK'
  BY <1>1, StartsAssumption DEF ScriptInv, TypeOK, DoLaunch, historyVars, Steps
<1>3. LaunchAlone'
  BY DEF LaunchAlone, DoLaunch
<1>4. ~missed' => \A i \in DOMAIN daemons' : Unasked(daemons'[i]) => i = Len(daemons) + 1
  BY <1>1 DEF ScriptInv, LaunchAlone, DoLaunch, historyVars
<1>5. OneDaemon'
  BY <1>4 DEF OneDaemon, Unasked
<1>6. TimerLate' /\ NoStuckTimer'
  BY <1>1, BornUnasked DEF ScriptInv, TimerLate, NoStuckTimer, DoLaunch, historyVars
<1> QED
  BY <1>2, <1>3, <1>5, <1>6 DEF ScriptInv

(* killall with SIGINT or SIGUSR2: every life changes by the same rule.    *)
LEMMA KillallInv ==
  ASSUME ScriptInv, DoStop \/ DoRestart \/ DoReload
  PROVE  ScriptInv'
<1>1. daemons \in Seq(Life!Lives) /\ \A i \in DOMAIN daemons : daemons[i] \in Life!Lives
  BY DEF ScriptInv, TypeOK
<1>2. KillallINT \/ KillallUSR2
  BY DEF DoStop, DoRestart, DoReload
<1>3. /\ DOMAIN daemons' = DOMAIN daemons
      /\ \A i \in DOMAIN daemons :
           /\ daemons'[i] \in Life!Lives
           /\ daemons'[i].timer = daemons[i].timer
           /\ Unasked(daemons'[i]) => Unasked(daemons[i])
           /\ daemons'[i].phase # "starting"
           /\ daemons'[i].phase = "stray" => daemons[i].phase = "stray"
           /\ Life!CollectorUp(daemons[i]) /\ daemons[i].phase # "starting" => Life!CollectorUp(daemons'[i])
  BY <1>1, <1>2, InterruptStep, ReloadStep DEF KillallINT, KillallUSR2
<1>4. daemons' \in Seq(Life!Lives) /\ Len(daemons') = Len(daemons)
  <2>1. /\ daemons' = [i \in 1..Len(daemons) |-> daemons'[i]]
        /\ DOMAIN daemons = 1..Len(daemons) /\ Len(daemons) \in Nat
    BY <1>1, <1>2 DEF KillallINT, KillallUSR2
  <2> QED
    BY <1>3, <2>1
<1>5. script' \in Steps /\ hurt' = hurt /\ missed' \in BOOLEAN /\ (missed => missed')
  BY DEF DoStop, DoRestart, DoReload, historyVars, Steps, ScriptInv, TypeOK
<1>6. TypeOK'
  BY <1>3, <1>4, <1>5 DEF ScriptInv, TypeOK
<1>7. OneDaemon'
  BY <1>3, <1>5 DEF ScriptInv, OneDaemon, Unasked
<1>8. LaunchAlone'
  <2>1. CASE DoRestart
    BY <2>1, <1>1, InterruptStep DEF DoRestart, KillallINT, LaunchAlone
  <2>2. CASE DoStop \/ DoReload
    BY <2>2 DEF DoStop, DoReload, LaunchAlone
  <2> QED
    BY <2>1, <2>2
<1>9. TimerLate'
  BY <1>3 DEF ScriptInv, TimerLate
<1>10. NoStuckTimer'
  BY <1>3, <1>5 DEF ScriptInv, TimerLate, NoStuckTimer, Life!TimerUp
<1> QED
  BY <1>6, <1>7, <1>8, <1>9, <1>10 DEF ScriptInv

(* One daemon moves, by itself or by accident.                             *)
LEMMA DaemonInv ==
  ASSUME ScriptInv, NEW d \in DOMAIN daemons, DaemonStep(d) \/ Accident(d)
  PROVE  ScriptInv'
<1>0. /\ daemons \in Seq(Life!Lives) /\ daemons[d] \in Life!Lives
      /\ \A i \in DOMAIN daemons : daemons[i] \in Life!Lives
  BY DEF ScriptInv, TypeOK
<1>1. PICK t \in Life!Own(daemons[d]) \cup Life!Mishaps(daemons[d]) :
        /\ daemons' = [daemons EXCEPT ![d] = t]
        /\ t \in Life!Own(daemons[d]) \/ hurt' = hurt \cup {d}
  BY DEF DaemonStep, Accident
<1>2. /\ t \in Life!Lives /\ (Unasked(t) => Unasked(daemons[d]))
      /\ t.phase = "starting" => t.timer = "none"
      /\ t.phase = "stray" => t.timer = "none"
      /\ Life!TimerUp(t) /\ d \notin hurt' => Life!CollectorUp(t)
  BY <1>0, <1>1, OwnStep, AccidentStep DEF ScriptInv, TimerLate
<1>3. /\ script' = script /\ missed' = missed /\ hurt \subseteq hurt' /\ hurt' \subseteq hurt \cup {d}
  BY DEF DaemonStep, Accident, historyVars
<1>4. /\ daemons' \in Seq(Life!Lives) /\ Len(daemons') = Len(daemons) /\ DOMAIN daemons' = DOMAIN daemons
      /\ daemons'[d] = t /\ \A i \in DOMAIN daemons : i # d => daemons'[i] = daemons[i]
  BY <1>0, <1>1, <1>2
<1>5. TypeOK'
  BY <1>3, <1>4 DEF ScriptInv, TypeOK
<1>6. \A i \in DOMAIN daemons : Unasked(daemons'[i]) => Unasked(daemons[i])
  BY <1>2, <1>4
<1>7. LaunchAlone' /\ OneDaemon'
  BY <1>3, <1>4, <1>6 DEF ScriptInv, LaunchAlone, OneDaemon, Unasked
<1>8. TimerLate' /\ NoStuckTimer'
  BY <1>2, <1>3, <1>4 DEF ScriptInv, TimerLate, NoStuckTimer
<1> QED
  BY <1>5, <1>7, <1>8 DEF ScriptInv

(* The invariant holds in every state of the script and its daemons.       *)
THEOREM ScriptInductive == Spec => []ScriptInv
<1>1. ScriptInv /\ [Next]_vars => ScriptInv'
  <2> SUFFICES ASSUME ScriptInv, [Next]_vars PROVE ScriptInv'
    OBVIOUS
  <2>1. CASE Command
    BY <2>1, CommandInv
  <2>2. CASE Body
    BY <2>2, LaunchInv, KillallInv DEF Body
  <2>3. CASE \E i \in DOMAIN daemons : DaemonStep(i) \/ Accident(i)
    BY <2>3, DaemonInv
  <2>4. CASE UNCHANGED vars
    BY <2>4 DEF vars, ScriptInv, TypeOK, LaunchAlone, OneDaemon, TimerLate, NoStuckTimer
  <2> QED
    BY <2>1, <2>2, <2>3, <2>4 DEF Next
<1> QED
  BY InitInv, <1>1, PTL DEF Spec

(* The script's commands, in any order and over any number of daemons that *)
(* lose processes, neither start a second collector nor strand a timer.    *)
THEOREM ScriptsAreSafe == Spec => []ScriptSafe
<1>1. ScriptInv => ScriptSafe
  BY DEF ScriptInv, ScriptSafe
<1> QED
  BY ScriptInductive, <1>1, PTL
=============================================================================
