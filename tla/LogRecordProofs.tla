-------------------------- MODULE LogRecordProofs --------------------------
(***************************************************************************)
(* The packing of log lines, for any keys, any number of objects and any   *)
(* $linesz, with and without the rule on long values.                      *)
(***************************************************************************)
EXTENDS LogRecord, TLAPS

(* What makes the shape of the lines inductive: the line in progress has   *)
(* room for one more value and holds no long one.                          *)
ShapeInv ==
  /\ LineShape
  /\ LineSz > 0 => Len(line) < LineSz
  /\ \A j \in 1..Len(line) : ~isLong(line[j])

(* Nothing is lost; before the packing, every key of a polled object is in *)
(* %data, and after it nothing is left in the line in progress.            *)
LossInv ==
  /\ pc = "poll" => \A o \in Objs : o < next => writes[o] \subseteq data
  /\ NothingLost

USE DEF Objs, vars

(* Appending to a sequence keeps what it holds and adds one place.         *)
LEMMA AppendFacts ==
  ASSUME NEW S, NEW s \in Seq(S), NEW e \in S
  PROVE  /\ Append(s, e) \in Seq(S)
         /\ Len(Append(s, e)) = Len(s) + 1 /\ Len(s) \in Nat
         /\ \A j \in 1..Len(s) : Append(s, e)[j] = s[j]
         /\ Append(s, e)[Len(s) + 1] = e
  OBVIOUS

(* Every place of a longer sequence is the new one or an old one.          *)
LEMMA AppendPlaces ==
  ASSUME NEW S, NEW s \in Seq(S), NEW e \in S, NEW i \in 1..Len(Append(s, e))
  PROVE  Append(s, e)[i] = e \/ (i \in 1..Len(s) /\ Append(s, e)[i] = s[i])
  OBVIOUS

(* A line of one value.                                                    *)
LEMMA OneLine ==
  ASSUME NEW S, NEW e \in S
  PROVE  <<e>> \in Seq(S) /\ Len(<<e>>) = 1 /\ <<e>>[1] = e
  OBVIOUS

(* What PackLong hands to write_log are lines.                             *)
LEMMA LongLines ==
  ASSUME NEW k \in Keys, line \in Seq(Keys), out \in Seq(Seq(Keys))
  PROVE  /\ Append(out, <<k>>) \in Seq(Seq(Keys))
         /\ Append(out, line) \in Seq(Seq(Keys))
         /\ Append(Append(out, line), <<k>>) \in Seq(Seq(Keys))
<1> DEFINE L == Seq(Keys)
<1>1. <<k>> \in L /\ line \in L /\ out \in Seq(L)
  BY OneLine
<1> HIDE DEF L
<1>2. Append(out, <<k>>) \in Seq(L) /\ Append(out, line) \in Seq(L)
  BY <1>1, AppendFacts
<1>3. Append(Append(out, line), <<k>>) \in Seq(L)
  BY <1>1, <1>2, AppendFacts
<1> QED
  BY <1>2, <1>3 DEF L

(* So is what PackShort hands to write_log.                                *)
LEMMA ShortLines ==
  ASSUME NEW k \in Keys, line \in Seq(Keys), out \in Seq(Seq(Keys))
  PROVE  Append(line, k) \in Seq(Keys) /\ Append(out, Append(line, k)) \in Seq(Seq(Keys))
<1> DEFINE L == Seq(Keys)
<1>1. Append(line, k) \in L /\ out \in Seq(L)
  BY AppendFacts
<1> HIDE DEF L
<1>2. Append(out, Append(line, k)) \in Seq(L)
  BY <1>1, AppendFacts
<1> QED
  BY <1>1, <1>2 DEF L

(* The types are inductive by themselves.                                  *)
LEMMA TypeStep == TypeOK /\ [Next]_vars => TypeOK'
<1> SUFFICES ASSUME TypeOK, [Next]_vars PROVE TypeOK'
  OBVIOUS
<1> USE SizeAssumption DEF TypeOK
<1>1. CASE Poll
  BY <1>1 DEF Poll
<1>2. CASE PollDone
  BY <1>2 DEF PollDone
<1>3. ASSUME NEW k \in Keys, PackLong(k) PROVE TypeOK'
  <2>1. out' \in Seq(Seq(Keys))
    BY <1>3, LongLines DEF PackLong
  <2>2. line' \in Seq(Keys) /\ data' \in SUBSET Keys
    BY <1>3 DEF PackLong
  <2> QED
    BY <1>3, <2>1, <2>2 DEF PackLong
<1>4. ASSUME NEW k \in Keys, PackShort(k) PROVE TypeOK'
  <2>1. out' \in Seq(Seq(Keys)) /\ line' \in Seq(Keys)
    <3>1. Append(line, k) \in Seq(Keys) /\ Append(out, Append(line, k)) \in Seq(Seq(Keys))
      BY ShortLines
    <3>2. CASE Len(line) + 1 = LineSz
      <4>1. out' = Append(out, Append(line, k)) /\ line' = <<>>
        BY <1>4, <3>2 DEF PackShort
      <4>2. out' \in Seq(Seq(Keys))
        BY <3>1, <4>1, Zenon
      <4> QED
        BY <4>1, <4>2
    <3>3. CASE Len(line) + 1 # LineSz
      BY <1>4, <3>1, <3>3 DEF PackShort
    <3> QED
      BY <3>2, <3>3
  <2>2. data' \in SUBSET Keys
    BY <1>4 DEF PackShort
  <2> QED
    BY <1>4, <2>1, <2>2 DEF PackShort
<1>5. CASE PackDone
  BY <1>5 DEF PackDone
<1>6. CASE Delete
  BY <1>6 DEF Delete
<1>7. CASE Exit
  BY <1>7 DEF Exit
<1>8. CASE UNCHANGED vars
  BY <1>8
<1> QED
  BY <1>1, <1>2, <1>3, <1>4, <1>5, <1>6, <1>7, <1>8 DEF Next

(* A new line of good shape keeps the shape of all lines.                  *)
LEMMA ShapeAppend ==
  ASSUME NEW lines \in Seq(Seq(Keys)), NEW l \in Seq(Keys),
         \A i \in 1..Len(lines) : GoodLine(lines[i]), GoodLine(l)
  PROVE  \A i \in 1..Len(Append(lines, l)) : GoodLine(Append(lines, l)[i])
<1> DEFINE L == Seq(Keys)
<1> SUFFICES ASSUME NEW i \in 1..Len(Append(lines, l))
             PROVE  GoodLine(Append(lines, l)[i])
  OBVIOUS
<1>1. lines \in Seq(L) /\ l \in L
  OBVIOUS
<1> HIDE DEF L
<1>2. Append(lines, l)[i] = l \/ (i \in 1..Len(lines) /\ Append(lines, l)[i] = lines[i])
  BY <1>1, AppendPlaces
<1>3. CASE Append(lines, l)[i] = l
  BY <1>3
<1>4. CASE i \in 1..Len(lines) /\ Append(lines, l)[i] = lines[i]
  BY <1>4
<1> QED
  BY <1>2, <1>3, <1>4

(* As long as nobody changes which values are long, a good line stays one. *)
LEMMA GoodStays ==
  ASSUME UNCHANGED long, NEW l, GoodLine(l)
  PROVE  GoodLine(l)'
  BY DEF GoodLine, isLong

(* The line in progress is good as soon as it holds something, and the     *)
(* step of each action dumps only such lines.                              *)
LEMMA ShapeStep == TypeOK /\ ShapeInv /\ [Next]_vars => ShapeInv'
<1> SUFFICES ASSUME TypeOK, ShapeInv, [Next]_vars PROVE ShapeInv'
  OBVIOUS
<1>0. LineSz \in Nat /\ line \in Seq(Keys) /\ out \in Seq(Seq(Keys)) /\ Len(line) \in Nat
  BY SizeAssumption DEF TypeOK
<1>1. line # <<>> => GoodLine(line)
  BY <1>0 DEF ShapeInv, GoodLine
<1>2. ASSUME UNCHANGED <<line, out, long>> PROVE ShapeInv'
  BY <1>2 DEF ShapeInv, LineShape, GoodLine, isLong
<1>3. ASSUME UNCHANGED long, line' = <<>>, \A i \in 1..Len(out') : GoodLine(out'[i])
      PROVE  ShapeInv'
  <2>1. LineShape'
    BY <1>3, GoodStays DEF LineShape, GoodLine, isLong
  <2> QED
    BY <1>0, <1>3, <2>1 DEF ShapeInv
<1>4. ASSUME NEW k \in Keys, PackLong(k) PROVE ShapeInv'
  <2>1. <<k>> \in Seq(Keys) /\ GoodLine(<<k>>)
    BY <1>0, OneLine DEF GoodLine
  <2>2. \A i \in 1..Len(Append(out, <<k>>)) : GoodLine(Append(out, <<k>>)[i])
    BY <1>0, <2>1, ShapeAppend DEF ShapeInv, LineShape
  <2>3. CASE line = <<>>
    BY <1>3, <1>4, <2>2, <2>3 DEF PackLong
  <2>4. CASE line # <<>>
    <3>1. \A i \in 1..Len(Append(out, line)) : GoodLine(Append(out, line)[i])
      BY <1>0, <1>1, <2>4, ShapeAppend DEF ShapeInv, LineShape
    <3>2. Append(out, line) \in Seq(Seq(Keys))
      BY <1>0, LongLines
    <3>3. \A i \in 1..Len(Append(Append(out, line), <<k>>)) :
            GoodLine(Append(Append(out, line), <<k>>)[i])
      BY <2>1, <3>1, <3>2, ShapeAppend
    <3> QED
      BY <1>3, <1>4, <2>4, <3>3 DEF PackLong
  <2> QED
    BY <2>3, <2>4
<1>5. ASSUME NEW k \in Keys, PackShort(k) PROVE ShapeInv'
  <2> DEFINE l == Append(line, k)
  <2>1. /\ l \in Seq(Keys) /\ Len(l) = Len(line) + 1
        /\ \A j \in 1..Len(l) : ~isLong(l[j])
    <3>1. l \in Seq(Keys) /\ Len(l) = Len(line) + 1
      BY <1>0, AppendFacts
    <3>2. ASSUME NEW j \in 1..Len(l) PROVE ~isLong(l[j])
      <4>1. l[j] = k \/ (j \in 1..Len(line) /\ l[j] = line[j])
        BY <1>0, AppendPlaces
      <4> QED
        BY <1>5, <4>1 DEF PackShort, ShapeInv
    <3> QED
      BY <3>1, <3>2
  <2> HIDE DEF l
  <2>2. CASE Len(line) + 1 = LineSz
    <3>1. GoodLine(l)
      BY <1>0, <2>1, <2>2 DEF GoodLine
    <3>2. \A i \in 1..Len(Append(out, l)) : GoodLine(Append(out, l)[i])
      BY <1>0, <2>1, <3>1, ShapeAppend DEF ShapeInv, LineShape
    <3> QED
      BY <1>3, <1>5, <2>2, <3>2 DEF PackShort, l
  <2>3. CASE Len(line) + 1 # LineSz
    <3>1. line' = l /\ out' = out /\ long' = long
      BY <1>5, <2>3 DEF PackShort, l
    <3>2. LineSz > 0 => Len(l) < LineSz
      BY <1>0, <2>1, <2>3 DEF ShapeInv
    <3>3. LineShape'
      BY <3>1 DEF ShapeInv, LineShape, GoodLine, isLong
    <3>4. (\A j \in 1..Len(line) : ~isLong(line[j]))'
      BY <2>1, <3>1 DEF isLong
    <3> QED
      BY <3>1, <3>2, <3>3, <3>4 DEF ShapeInv
  <2> QED
    BY <2>2, <2>3
<1>6. CASE PackDone
  <2>1. CASE line = <<>>
    BY <1>2, <1>6, <2>1 DEF PackDone
  <2>2. CASE line # <<>>
    <3>1. \A i \in 1..Len(Append(out, line)) : GoodLine(Append(out, line)[i])
      BY <1>0, <1>1, <2>2, ShapeAppend DEF ShapeInv, LineShape
    <3> QED
      BY <1>3, <1>6, <2>2, <3>1 DEF PackDone
  <2> QED
    BY <2>1, <2>2
<1>7. CASE Poll \/ PollDone \/ Delete \/ Exit \/ UNCHANGED vars
  BY <1>2, <1>7 DEF Poll, PollDone, Delete, Exit
<1> QED
  BY <1>4, <1>5, <1>6, <1>7 DEF Next

(* A longer log holds what the shorter one held, and the new line.         *)
Held(lines, k) == \E i \in 1..Len(lines) : Within(lines[i], k)

LEMMA HeldAppend ==
  ASSUME NEW lines \in Seq(Seq(Keys)), NEW l \in Seq(Keys), NEW k,
         Held(lines, k) \/ Within(l, k)
  PROVE  Held(Append(lines, l), k)
<1> DEFINE L == Seq(Keys)
<1>1. lines \in Seq(L) /\ l \in L
  OBVIOUS
<1> HIDE DEF L
<1>2. /\ Len(Append(lines, l)) = Len(lines) + 1 /\ Len(lines) \in Nat
      /\ \A i \in 1..Len(lines) : Append(lines, l)[i] = lines[i]
      /\ Append(lines, l)[Len(lines) + 1] = l
  BY <1>1, AppendFacts
<1>3. CASE Held(lines, k)
  <2>1. PICK i \in 1..Len(lines) : Within(lines[i], k)
    BY <1>3 DEF Held
  <2>2. i \in 1..Len(Append(lines, l)) /\ Within(Append(lines, l)[i], k)
    BY <1>2, <2>1
  <2> QED
    BY <2>2 DEF Held
<1>4. CASE Within(l, k)
  <2>1. Len(lines) + 1 \in 1..Len(Append(lines, l))
    BY <1>2
  <2> QED
    BY <1>2, <1>4, <2>1 DEF Held
<1> QED
  BY <1>3, <1>4

(* A value that joins the line in progress is in it, with the others.      *)
LEMMA WithinAppend ==
  ASSUME NEW l \in Seq(Keys), NEW k \in Keys, NEW q, Within(l, q) \/ q = k
  PROVE  Within(Append(l, k), q)
<1>1. /\ Len(Append(l, k)) = Len(l) + 1 /\ Len(l) \in Nat
      /\ \A j \in 1..Len(l) : Append(l, k)[j] = l[j]
      /\ Append(l, k)[Len(l) + 1] = k
  BY AppendFacts
<1>2. Len(l) + 1 \in 1..Len(Append(l, k)) /\ \A j \in 1..Len(l) : j \in 1..Len(Append(l, k))
  BY <1>1
<1> HIDE DEF Within
<1> QED
  BY <1>1, <1>2, Zenon DEF Within

(* No key gets lost in a step.                                             *)
LEMMA LossStep == TypeOK /\ LossInv /\ [Next]_vars => LossInv'
<1> SUFFICES ASSUME TypeOK, LossInv, [Next]_vars PROVE LossInv'
  OBVIOUS
<1>0. line \in Seq(Keys) /\ out \in Seq(Seq(Keys))
  BY DEF TypeOK
<1>1. CASE Poll
  <2>1. pc = "poll" /\ pc' = "poll" /\ next' = next + 1 /\ writes' = writes
        /\ data' = data \cup writes[next] /\ next \in Objs
    BY <1>1 DEF Poll
  <2>2. ASSUME NEW o \in Objs, o < next' PROVE writes'[o] \subseteq data'
    <3>1. o < next \/ o = next
      BY <2>1, <2>2, SizeAssumption
    <3> QED
      BY <2>1, <3>1 DEF LossInv
  <2> QED
    BY <2>1, <2>2 DEF LossInv, NothingLost
<1>2. CASE PollDone
  <2>1. pc = "poll" /\ pc' = "pack" /\ next = NumObjs + 1 /\ UNCHANGED <<writes, data>>
    BY <1>2 DEF PollDone
  <2>2. ASSUME NEW o \in Objs PROVE writes[o] \subseteq data
    BY <2>1, SizeAssumption DEF LossInv
  <2>3. \A k \in AllKeys' : k \in data'
    BY <2>1, <2>2 DEF AllKeys
  <2> QED
    BY <2>1, <2>3 DEF LossInv, NothingLost
<1>3. ASSUME NEW k \in Keys, PackLong(k) PROVE LossInv'
  <2>1. /\ pc = "pack" /\ pc' = "pack" /\ AllKeys' = AllKeys /\ data' = data \ {k}
        /\ out' = IF line = <<>> THEN Append(out, <<k>>) ELSE Append(Append(out, line), <<k>>)
    BY <1>3 DEF PackLong, AllKeys
  <2>2. ASSUME NEW q \in AllKeys, q \notin data' PROVE InOut(q)'
    <3>1. q = k \/ InLine(q) \/ InOut(q)
      BY <2>1, <2>2 DEF LossInv, NothingLost
    <3>2. <<k>> \in Seq(Keys) /\ Within(<<k>>, k)
      BY OneLine DEF Within
    <3>3. CASE line = <<>>
      <4>1. ~InLine(q)
        BY <3>3 DEF InLine, Within
      <4>2. Held(Append(out, <<k>>), q)
        BY <1>0, <3>1, <3>2, <4>1, HeldAppend DEF InOut, Held
      <4> QED
        BY <2>1, <3>3, <4>2 DEF InOut, Held, Within
    <3>4. CASE line # <<>>
      <4>1. Append(out, line) \in Seq(Seq(Keys))
        BY <1>0, LongLines
      <4>2. q = k \/ Held(Append(out, line), q)
        BY <1>0, <3>1, HeldAppend DEF InLine, InOut, Held
      <4>3. Held(Append(Append(out, line), <<k>>), q)
        BY <3>2, <4>1, <4>2, HeldAppend
      <4> QED
        BY <2>1, <3>4, <4>3 DEF InOut, Held, Within
    <3> QED
      BY <3>3, <3>4
  <2> QED
    BY <2>1, <2>2 DEF LossInv, NothingLost
<1>4. ASSUME NEW k \in Keys, PackShort(k) PROVE LossInv'
  <2> DEFINE l == Append(line, k)
  <2>1. pc = "pack" /\ pc' = "pack" /\ AllKeys' = AllKeys /\ data' = data \ {k}
    BY <1>4 DEF PackShort, AllKeys
  <2>2. l \in Seq(Keys)
    BY <1>0, ShortLines
  <2>3. ASSUME NEW q \in AllKeys, q \notin data' PROVE InLine(q)' \/ InOut(q)'
    <3>1. q = k \/ InLine(q) \/ InOut(q)
      BY <2>1, <2>3 DEF LossInv, NothingLost
    <3>2. Within(l, q) \/ InOut(q)
      BY <1>0, <3>1, WithinAppend DEF InLine
    <3>3. CASE Len(line) + 1 = LineSz
      <4>1. out' = Append(out, l)
        BY <1>4, <3>3 DEF PackShort
      <4> HIDE DEF l
      <4>2. Held(Append(out, l), q)
        BY <1>0, <2>2, <3>2, HeldAppend DEF InOut, Held
      <4> QED
        BY <4>1, <4>2 DEF InOut, Held, Within
    <3>4. CASE Len(line) + 1 # LineSz
      <4>1. line' = l /\ out' = out
        BY <1>4, <3>4 DEF PackShort
      <4> HIDE DEF l
      <4> QED
        BY <3>2, <4>1 DEF InOut, InLine, Within
    <3> QED
      BY <3>3, <3>4
  <2> QED
    BY <2>1, <2>3 DEF LossInv, NothingLost
<1>5. CASE PackDone
  <2>1. /\ pc = "pack" /\ pc' = "delete" /\ AllKeys' = AllKeys /\ data = {}
        /\ out' = IF line = <<>> THEN out ELSE Append(out, line)
    BY <1>5 DEF PackDone, AllKeys
  <2>2. ASSUME NEW q \in AllKeys PROVE InOut(q)'
    <3>1. InLine(q) \/ InOut(q)
      BY <2>1 DEF LossInv, NothingLost
    <3>2. CASE line = <<>>
      BY <2>1, <3>1, <3>2 DEF InOut, InLine, Within
    <3>3. CASE line # <<>>
      <4>1. Held(Append(out, line), q)
        BY <1>0, <3>1, HeldAppend DEF InLine, InOut, Held
      <4> QED
        BY <2>1, <3>3, <4>1 DEF InOut, Held, Within
    <3> QED
      BY <3>2, <3>3
  <2> QED
    BY <2>1, <2>2 DEF LossInv, NothingLost
<1>6. CASE Delete \/ Exit
  BY <1>6 DEF Delete, Exit, LossInv, NothingLost, AllKeys, InOut, Within
<1>7. CASE UNCHANGED vars
  BY <1>7 DEF LossInv, NothingLost, AllKeys, InOut, InLine, Within
<1> QED
  BY <1>1, <1>2, <1>3, <1>4, <1>5, <1>6, <1>7 DEF Next

(* No value twice in a log, and none twice in a line.                      *)
Distinct(lines) ==
  \A i1, i2 \in 1..Len(lines) : \A j1 \in 1..Len(lines[i1]), j2 \in 1..Len(lines[i2]) :
    lines[i1][j1] = lines[i2][j2] => i1 = i2 /\ j1 = j2
Simple(l) == \A j1, j2 \in 1..Len(l) : l[j1] = l[j2] => j1 = j2

(* A longer log holds nothing but what the shorter one and the line held.  *)
LEMMA HeldOnly ==
  ASSUME NEW lines \in Seq(Seq(Keys)), NEW l \in Seq(Keys), NEW k, Held(Append(lines, l), k)
  PROVE  Held(lines, k) \/ Within(l, k)
<1> DEFINE L == Seq(Keys)
<1>1. lines \in Seq(L) /\ l \in L
  OBVIOUS
<1> HIDE DEF L
<1>2. PICK i \in 1..Len(Append(lines, l)) : Within(Append(lines, l)[i], k)
  BY DEF Held
<1>3. Append(lines, l)[i] = l \/ (i \in 1..Len(lines) /\ Append(lines, l)[i] = lines[i])
  BY <1>1, AppendPlaces
<1>4. CASE Append(lines, l)[i] = l
  BY <1>2, <1>4
<1>5. CASE i \in 1..Len(lines) /\ Append(lines, l)[i] = lines[i]
  BY <1>2, <1>5 DEF Held
<1> QED
  BY <1>3, <1>4, <1>5

(* A line of values that the log does not hold keeps it without repeats.   *)
LEMMA DistinctAppend ==
  ASSUME NEW lines \in Seq(Seq(Keys)), NEW l \in Seq(Keys), Distinct(lines), Simple(l),
         \A k \in Keys : ~(Within(l, k) /\ Held(lines, k))
  PROVE  Distinct(Append(lines, l))
<1> DEFINE L == Seq(Keys)
           m == Append(lines, l)
           n == Len(lines)
<1>1. lines \in Seq(L) /\ l \in L
  OBVIOUS
<1>2. \A i \in 1..n : lines[i] \in Seq(Keys)
  OBVIOUS
<1>3. \A x \in Seq(Keys) : \A j \in 1..Len(x) : x[j] \in Keys
  OBVIOUS
<1> HIDE DEF L
<1>4. Len(m) = n + 1 /\ n \in Nat /\ m[n + 1] = l /\ \A i \in 1..n : m[i] = lines[i]
  BY <1>1, AppendFacts
<1> HIDE DEF m, n
<1>5. ASSUME NEW i \in 1..n, NEW j \in 1..Len(lines[i]), NEW p \in 1..Len(l), lines[i][j] = l[p] PROVE FALSE
  <2>1. l[p] \in Keys /\ Within(l, l[p])
    BY <1>3 DEF Within
  <2>2. Held(lines, l[p])
    BY <1>5 DEF Held, Within, n
  <2> QED
    BY <2>1, <2>2
<1>6. SUFFICES ASSUME NEW i1 \in 1..(n + 1), NEW i2 \in 1..(n + 1), NEW j1 \in 1..Len(m[i1]), NEW j2 \in 1..Len(m[i2]),
                      m[i1][j1] = m[i2][j2]
               PROVE  i1 = i2 /\ j1 = j2
  BY <1>4 DEF Distinct, m
<1>7. (i1 \in 1..n \/ i1 = n + 1) /\ (i2 \in 1..n \/ i2 = n + 1)
  BY <1>4
<1>8. CASE i1 \in 1..n /\ i2 \in 1..n
  <2>1. m[i1] = lines[i1] /\ m[i2] = lines[i2]
    BY <1>4, <1>8
  <2>2. i1 \in 1..n /\ i2 \in 1..n
    BY <1>8
  <2>3. j1 \in 1..Len(lines[i1]) /\ j2 \in 1..Len(lines[i2]) /\ lines[i1][j1] = lines[i2][j2]
    BY <1>6, <2>1
  <2> QED
    BY <2>2, <2>3, ZenonT(60) DEF Distinct, n
<1>9. CASE i1 \in 1..n /\ i2 = n + 1
  <2>1. m[i1] = lines[i1] /\ m[i2] = l
    BY <1>4, <1>9
  <2> QED
    BY <1>5, <1>6, <1>9, <2>1
<1>10. CASE i1 = n + 1 /\ i2 \in 1..n
  <2>1. m[i1] = l /\ m[i2] = lines[i2]
    BY <1>4, <1>10
  <2> QED
    BY <1>5, <1>6, <1>10, <2>1
<1>11. CASE i1 = n + 1 /\ i2 = n + 1
  <2>1. m[i1] = l /\ m[i2] = l
    BY <1>4, <1>11
  <2> QED
    BY <1>6, <1>11, <2>1 DEF Simple
<1> QED
  BY <1>7, <1>8, <1>9, <1>10, <1>11

(* So does a new value in a line.                                          *)
LEMMA SimpleAppend ==
  ASSUME NEW l \in Seq(Keys), NEW k \in Keys, Simple(l), ~Within(l, k)
  PROVE  /\ Simple(Append(l, k))
         /\ \A q : Within(Append(l, k), q) => Within(l, q) \/ q = k
<1>1. /\ Len(Append(l, k)) = Len(l) + 1 /\ Len(l) \in Nat
      /\ \A j \in 1..Len(l) : Append(l, k)[j] = l[j]
      /\ Append(l, k)[Len(l) + 1] = k
  BY AppendFacts
<1>2. \A j \in 1..Len(Append(l, k)) : j \in 1..Len(l) \/ j = Len(l) + 1
  BY <1>1
<1>3. \A j \in 1..Len(l) : l[j] # k
  BY DEF Within
<1>4. Simple(Append(l, k))
  BY <1>1, <1>2, <1>3 DEF Simple
<1>5. ASSUME NEW q, Within(Append(l, k), q) PROVE Within(l, q) \/ q = k
  <2>1. PICK j \in 1..Len(Append(l, k)) : Append(l, k)[j] = q
    BY <1>5 DEF Within
  <2> QED
    BY <1>1, <1>2, <2>1 DEF Within
<1> QED
  BY <1>4, <1>5

(* What makes NothingTwice inductive: nothing is written before the        *)
(* packing begins.                                                         *)
TwiceInv ==
  /\ pc = "poll" => line = <<>> /\ out = <<>>
  /\ NothingTwice

(* The parts of NothingTwice by name.                                      *)
LEMMA TwiceParts ==
  NothingTwice <=> /\ Distinct(out) /\ Simple(line)
                   /\ \A k \in Keys : ~(Within(line, k) /\ Held(out, k))
                   /\ pc = "pack" => \A k \in data : ~Within(line, k) /\ ~Held(out, k)
  BY DEF NothingTwice, Distinct, Simple, InLine, InOut, Held, Within

LEMMA TwicePartsNext ==
  NothingTwice' <=> /\ Distinct(out') /\ Simple(line')
                    /\ \A k \in Keys : ~(Within(line', k) /\ Held(out', k))
                    /\ pc' = "pack" => \A k \in data' : ~Within(line', k) /\ ~Held(out', k)
  BY DEF NothingTwice, Distinct, Simple, InLine, InOut, Held, Within

LEMMA EmptyLine == Simple(<<>>) /\ \A k : ~Within(<<>>, k)
  BY DEF Simple, Within

(* No key gets into the log a second time.                                 *)
LEMMA TwiceStep == TypeOK /\ TwiceInv /\ [Next]_vars => TwiceInv'
<1> SUFFICES ASSUME TypeOK, TwiceInv, [Next]_vars PROVE TwiceInv'
  OBVIOUS
<1>0. line \in Seq(Keys) /\ out \in Seq(Seq(Keys)) /\ data \in SUBSET Keys
  BY DEF TypeOK
<1>1. /\ Distinct(out) /\ Simple(line)
      /\ \A k \in Keys : ~(Within(line, k) /\ Held(out, k))
      /\ pc = "pack" => \A k \in data : ~Within(line, k) /\ ~Held(out, k)
  BY TwiceParts DEF TwiceInv
<1>2. ASSUME pc' # "poll", line' = <<>>, Distinct(out'), pc' = "pack" => \A q \in data' : ~Held(out', q)
      PROVE  TwiceInv'
  BY <1>2, TwicePartsNext, EmptyLine DEF TwiceInv
<1>3. CASE Poll
  BY <1>3 DEF Poll, TwiceInv, NothingTwice, InLine, InOut, Within
<1>4. CASE PollDone
  BY <1>4 DEF PollDone, TwiceInv, NothingTwice, InLine, InOut, Within
<1>5. Distinct(Append(out, line)) /\ \A q : Held(Append(out, line), q) => Held(out, q) \/ Within(line, q)
  BY <1>0, <1>1, DistinctAppend, HeldOnly
<1>6. ASSUME NEW k \in Keys, PackLong(k) PROVE TwiceInv'
  <2>1. /\ pc = "pack" /\ pc' = "pack" /\ k \in data /\ data' = data \ {k} /\ line' = <<>>
        /\ out' = IF line = <<>> THEN Append(out, <<k>>) ELSE Append(Append(out, line), <<k>>)
    BY <1>6 DEF PackLong
  <2>2. <<k>> \in Seq(Keys) /\ Simple(<<k>>) /\ \A q : Within(<<k>>, q) => q = k
    BY OneLine DEF Simple, Within
  <2>3. ASSUME NEW lines \in Seq(Seq(Keys)), Distinct(lines), \A q \in data : ~Held(lines, q),
               out' = Append(lines, <<k>>)
        PROVE  TwiceInv'
    <3>1. Distinct(out')
      BY <2>1, <2>2, <2>3, DistinctAppend
    <3>2. ASSUME NEW q \in data' PROVE ~Held(out', q)
      BY <2>1, <2>2, <2>3, <3>2, HeldOnly
    <3> QED
      BY <1>2, <2>1, <3>1, <3>2
  <2>4. CASE line = <<>>
    BY <1>0, <1>1, <2>1, <2>3, <2>4
  <2>5. CASE line # <<>>
    <3>1. Append(out, line) \in Seq(Seq(Keys))
      BY <1>0, LongLines
    <3> QED
      BY <1>1, <1>5, <2>1, <2>3, <2>5, <3>1
  <2> QED
    BY <2>4, <2>5
<1>7. ASSUME NEW k \in Keys, PackShort(k) PROVE TwiceInv'
  <2> DEFINE l == Append(line, k)
  <2>1. pc = "pack" /\ pc' = "pack" /\ k \in data /\ data' = data \ {k}
    BY <1>7 DEF PackShort
  <2>2. l \in Seq(Keys) /\ Simple(l) /\ \A q : Within(l, q) => Within(line, q) \/ q = k
    BY <1>0, <1>1, <2>1, ShortLines, SimpleAppend
  <2>3. CASE Len(line) + 1 = LineSz
    <3>1. out' = Append(out, l) /\ line' = <<>>
      BY <1>7, <2>3 DEF PackShort
    <3> HIDE DEF l
    <3>2. Distinct(out')
      BY <1>0, <1>1, <2>1, <2>2, <3>1, DistinctAppend
    <3>3. ASSUME NEW q \in data' PROVE ~Held(out', q)
      BY <1>0, <1>1, <2>1, <2>2, <3>1, <3>3, HeldOnly
    <3> QED
      BY <1>2, <2>1, <3>1, <3>2, <3>3
  <2>4. CASE Len(line) + 1 # LineSz
    <3>1. out' = out /\ line' = l
      BY <1>7, <2>4 DEF PackShort
    <3> HIDE DEF l
    <3> QED
      BY <1>0, <1>1, <2>1, <2>2, <3>1, TwicePartsNext DEF TwiceInv
  <2> QED
    BY <2>3, <2>4
<1>8. CASE PackDone
  <2>1. pc' = "delete" /\ line' = <<>> /\ out' = IF line = <<>> THEN out ELSE Append(out, line)
    BY <1>8 DEF PackDone
  <2> QED
    BY <1>1, <1>2, <1>5, <2>1
<1>9. CASE Delete \/ Exit \/ UNCHANGED vars
  <2>1. UNCHANGED <<line, out, data>> /\ ((pc # "poll" /\ pc' \notin {"poll", "pack"}) \/ UNCHANGED pc)
    BY <1>9 DEF Delete, Exit
  <2> QED
    BY <1>1, <2>1, TwicePartsNext DEF TwiceInv
<1> QED
  BY <1>3, <1>4, <1>6, <1>7, <1>8, <1>9 DEF Next

(* Type correctness of the cycle: no object is polled or deleted beyond    *)
(* the end of @objs.                                                       *)
THEOREM TypeCorrect == Spec => []TypeOK
<1>1. Init => TypeOK
  BY SizeAssumption DEF Init, TypeOK
<1> QED
  BY <1>1, TypeStep, PTL DEF Spec

(* Every line that write_log gets is non-empty, within $linesz, and shares *)
(* a long value with nothing, for any $linesz and any keys.                *)
THEOREM LinesInShape == Spec => []LineShape
<1>1. Init => ShapeInv
  BY SizeAssumption DEF Init, ShapeInv, LineShape
<1>2. ShapeInv => LineShape
  BY DEF ShapeInv
<1> QED
  BY <1>1, <1>2, ShapeStep, TypeCorrect, PTL DEF Spec

(* Every value a module wrote reaches the log, whatever the order of the   *)
(* keys, the length of the values and $linesz.                             *)
THEOREM Complete == Spec => []NothingLost
<1>1. Init => LossInv
  BY DEF Init, LossInv, NothingLost
<1>2. LossInv => NothingLost
  BY DEF LossInv
<1> QED
  BY <1>1, <1>2, LossStep, TypeCorrect, PTL DEF Spec

(* No value reaches the log twice: dumping the line in progress, when it   *)
(* is full or a long value comes, empties it.                              *)
THEOREM Unrepeated == Spec => []NothingTwice
<1>1. Init => TwiceInv
  BY DEF Init, TwiceInv, NothingTwice, InLine, InOut, Within
<1>2. TwiceInv => NothingTwice
  BY DEF TwiceInv
<1> QED
  BY <1>1, <1>2, TwiceStep, TypeCorrect, PTL DEF Spec

(* The log is exact: complete, without repetition and in shape.            *)
THEOREM Exact == Spec => []LogExact
  BY LinesInShape, Complete, Unrepeated, PTL DEF LogExact
=============================================================================
