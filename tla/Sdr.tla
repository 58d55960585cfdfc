-------------------------------- MODULE Sdr --------------------------------
(***************************************************************************)
(* The Sensor Data Records: lib/ipmi_sdr.c, which "ipmitool sdr list" (the *)
(* command of power.pm) and the sensor commands go through. A process runs *)
(* one command, or several from the shell or a file; all of them share one *)
(* list of the records read so far and one iterator behind its end. The    *)
(* BMC's repository may be changed by others, which cancels reservations.  *)
(* Every request is a step.                                                *)
(***************************************************************************)
EXTENDS Integers, Sequences, FiniteSets, SequencesExt

CONSTANTS
  SdrRecords,      \* the repository at the start: id, type, sensor type, entity, len
  SdrEnd,          \* the id behind the last record, 0xffff
  SdrLimits,       \* the largest read a BMC may support
  SdrMaxRaw,       \* bound: entries of a dump when it takes errors for headers
  SdrMaxCommands,  \* bound: commands of one process
  SdrMaxFaults     \* bound: changes by others, requests without an answer or with an error

SdrKept == {"full", "compact", "event", "fruloc"}   \* types the list keeps; "oem" is another
SdrTypes == SdrKept \cup {"oem"}
SdrStypes == {SdrRecords[j].stype : j \in DOMAIN SdrRecords}
SdrEntities == {SdrRecords[j].entity : j \in DOMAIN SdrRecords}
ASSUME SdrNumbers ==
  /\ SdrMaxRaw \in Nat /\ SdrMaxCommands \in Nat /\ SdrMaxFaults \in Nat
  /\ SdrEnd \in Nat \ {0} /\ SdrLimits \subseteq Nat \ {0}
  /\ SdrRecords \in Seq([id : 1..(SdrEnd - 1), type : SdrTypes, len : Nat \ {0}, stype : SdrStypes, entity : SdrEntities])
  /\ \A i, j \in DOMAIN SdrRecords : SdrRecords[i].id = SdrRecords[j].id => i = j

VARIABLES
  sdrRepo,     \* the repository: records with id, type, len and version
  sdrHeld,     \* whether the reservation of the iterator still holds
  sdrLimit,    \* the largest read of this BMC
  sdrBmc,      \* "up"; "silent" and "busy" stay: no answers, only errors
  sdrCap,      \* sdr_max_read_len
  sdrItr,      \* the iterator in use: whether there is one, and its next
  sdrShared,   \* sdr_list_itr while a dump uses an iterator of its own
  sdrList,     \* sdr_list_head: id, type and the record
  sdrRaw,      \* the entries of dumps, and how many of sdrList are before each
  sdrAt,       \* where the program is
  sdrCmd,      \* the command: what it does, and for which types or id
  sdrHdr,      \* the header in hand, and how often it was tried
  sdrBuf,      \* the bytes of the record so far: the record and version each is of
  sdrPos,      \* the entry of the list, or record of the file, that is next; 0 behind the list
  sdrTodo,     \* entries still to print
  sdrOut,      \* ids printed or found, each with what is shown
  sdrRc,
  sdrUsed,     \* commands and faults so far
  sdrHist      \* history: what disturbed the commands

sdrVars == <<sdrRepo, sdrHeld, sdrLimit, sdrBmc, sdrCap, sdrItr, sdrShared, sdrList, sdrRaw, sdrAt, sdrCmd, sdrHdr,
             sdrBuf, sdrPos, sdrTodo, sdrOut, sdrRc, sdrUsed, sdrHist>>
sdrBmcVars == <<sdrRepo, sdrLimit, sdrBmc>>
sdrDumpVars == <<sdrShared, sdrRaw>>

SdrSensors == {"full", "compact"}
SdrNumbered == SdrSensors \cup {"event"}
SdrOf(id) == SdrRecords[CHOOSE j \in DOMAIN SdrRecords : SdrRecords[j].id = id]
SdrIds == {SdrRecords[j].id : j \in DOMAIN SdrRecords}
(* An entry of the list: the id its header had, and what its record says.  *)
SdrEntry(r, id, rec) ==
  [id |-> id, name |-> r.id, type |-> r.type, stype |-> r.stype, entity |-> r.entity, len |-> r.len, rec |-> rec]
SdrNoRecord == [vers |-> <<>>, renewed |-> FALSE]
SdrNoItr == [on |-> FALSE, next |-> 0]
SdrNoHeader == [id |-> 0, next |-> 0, type |-> "oem", len |-> 0, try |-> 0]

SdrInit ==
  /\ sdrRepo = [i \in DOMAIN SdrRecords |->
                 [id |-> SdrRecords[i].id, type |-> SdrRecords[i].type, len |-> SdrRecords[i].len,
                  stype |-> SdrRecords[i].stype, entity |-> SdrRecords[i].entity, ver |-> 1]]
  /\ sdrHeld = FALSE /\ sdrLimit = 255 /\ sdrBmc = "up" /\ sdrCap = 255
  /\ sdrItr = SdrNoItr /\ sdrShared = SdrNoItr /\ sdrList = <<>> /\ sdrRaw = <<>> /\ sdrAt = "new"
  /\ sdrCmd = [op |-> "none", by |-> "none", arg |-> 0, ext |-> FALSE, show |-> FALSE]
  /\ sdrHdr = SdrNoHeader /\ sdrBuf = SdrNoRecord /\ sdrPos = 0 /\ sdrTodo = <<>> /\ sdrOut = <<>> /\ sdrRc = 0
  /\ sdrUsed = [commands |-> 0, faults |-> 0] /\ sdrHist = {}
-----------------------------------------------------------------------------
(* The BMC, and others who change the repository.                          *)
SdrBmcIs ==
  /\ sdrAt = "new" /\ sdrAt' = "idle" /\ sdrLimit' \in SdrLimits
  /\ UNCHANGED <<sdrDumpVars, sdrRepo, sdrHeld, sdrBmc, sdrCap, sdrItr, sdrList, sdrCmd, sdrHdr, sdrBuf, sdrPos, sdrTodo,
                 sdrOut, sdrRc, sdrUsed, sdrHist>>
SdrChange ==
  /\ sdrUsed.faults < SdrMaxFaults /\ sdrAt \notin {"new", "crashed"} /\ sdrHeld' = FALSE
  /\ sdrUsed' = [sdrUsed EXCEPT !.faults = @ + 1]
  /\ \E i \in DOMAIN sdrRepo :
       \/ sdrRepo' = [sdrRepo EXCEPT ![i].ver = @ + 1] /\ sdrHist' = sdrHist \cup {"changed"}
       \/ sdrRepo' = RemoveAt(sdrRepo, i) /\ sdrHist' = sdrHist \cup {"deleted"}
  /\ UNCHANGED <<sdrDumpVars, sdrLimit, sdrBmc, sdrCap, sdrItr, sdrList, sdrAt, sdrCmd, sdrHdr, sdrBuf, sdrPos, sdrTodo,
                 sdrOut, sdrRc>>
SdrBmcFails ==
  /\ sdrUsed.faults < SdrMaxFaults /\ sdrBmc = "up" /\ sdrAt \notin {"new", "crashed"}
  /\ sdrBmc' \in {"silent", "busy"} /\ sdrUsed' = [sdrUsed EXCEPT !.faults = @ + 1]
  /\ sdrHist' = sdrHist \cup {sdrBmc'}
  /\ UNCHANGED <<sdrDumpVars, sdrRepo, sdrHeld, sdrLimit, sdrCap, sdrItr, sdrList, sdrAt, sdrCmd, sdrHdr, sdrBuf,
                 sdrPos, sdrTodo, sdrOut, sdrRc>>
(* What a request can come back with: what the BMC does when it is up, no  *)
(* answer, or an error of another kind.                                    *)
SdrReplies(good) ==
  CASE sdrBmc = "silent" -> {"none"}
    [] sdrBmc = "busy" -> {"error"}
    [] OTHER -> {good} \cup (IF sdrUsed.faults < SdrMaxFaults THEN {"none", "error"} ELSE {})
SdrCount(r) ==
  LET fault == sdrBmc = "up" /\ r \in {"none", "error"} IN
  /\ sdrUsed' = IF fault THEN [sdrUsed EXCEPT !.faults = @ + 1] ELSE sdrUsed
  /\ sdrHist' = IF fault THEN sdrHist \cup {"fault"} ELSE sdrHist
(* Id 0 names the first record.                                            *)
SdrIndex(id) ==
  IF id = 0 THEN 1..(IF sdrRepo = <<>> THEN 0 ELSE 1) ELSE {i \in DOMAIN sdrRepo : sdrRepo[i].id = id}
SdrGet(id, n) ==
  IF SdrIndex(id) = {} THEN "missing" ELSE IF ~sdrHeld THEN "cancelled"
  ELSE IF n > sdrLimit THEN "too long" ELSE "ok"
SdrThe(id) == sdrRepo[CHOOSE i \in SdrIndex(id) : TRUE]
SdrAfter(id) ==
  LET i == CHOOSE j \in SdrIndex(id) : TRUE IN IF i = Len(sdrRepo) THEN SdrEnd ELSE sdrRepo[i + 1].id
-----------------------------------------------------------------------------
(* The end of a command: the next one may follow.                          *)
SdrEnds(rc) == sdrAt' = "idle" /\ sdrRc' = rc
(* A dump is over: the commands after it use sdr_list_itr again.           *)
SdrOldItr == IF sdrCmd.op = "dump" THEN sdrShared ELSE sdrItr
SdrDumping == sdrCmd.op = "dump"

(* A command: the reservation is taken for the first one only; the others  *)
(* go on with the iterator.                                                *)
SdrBegins(cmd) ==
  /\ sdrAt = "idle" /\ sdrUsed.commands < SdrMaxCommands
  /\ sdrUsed' = [sdrUsed EXCEPT !.commands = @ + 1] /\ sdrCmd' = cmd
  /\ sdrOut' = <<>> /\ sdrRc' = 0 /\ sdrTodo' = <<>> /\ sdrPos' = 1 /\ sdrHdr' = SdrNoHeader
  /\ sdrAt' = IF sdrItr.on THEN "listed" ELSE "devid"
  /\ UNCHANGED <<sdrBmcVars, sdrDumpVars, sdrHeld, sdrCap, sdrItr, sdrList, sdrBuf, sdrHist>>
SdrCmd(op, by, arg, ext, shown) == [op |-> op, by |-> by, arg |-> arg, ext |-> ext, show |-> shown]
(* ipmi_sdr_print_sdr prints the records of a type, of all types or of     *)
(* both kinds of sensors as it goes along.                                 *)
ipmi_sdr_print_sdr(types, ext) == SdrBegins(SdrCmd("print", "type", types, ext, TRUE))
(* The functions that look for one record stop at it; those that look for  *)
(* all of a kind go to the end. A name is unique in this repository, and   *)
(* it stands for the number of the sensor too.                             *)
ipmi_sdr_find_sdr_bynumtype(num, type) == SdrBegins(SdrCmd("find", "num", <<num, type>>, FALSE, FALSE))
ipmi_sdr_find_sdr_bytype(type) == SdrBegins(SdrCmd("collect", "type", {type}, FALSE, FALSE))
ipmi_sdr_find_sdr_bysensortype(type, shown) == SdrBegins(SdrCmd("collect", "stype", type, TRUE, shown))
ipmi_sdr_find_sdr_byentity(entity, shown) == SdrBegins(SdrCmd("collect", "entity", entity, TRUE, shown))
ipmi_sdr_find_sdr_byid(name, shown) == SdrBegins(SdrCmd("find", "id", name, FALSE, shown))
ipmi_sdr_list_cache == SdrBegins(SdrCmd("collect", "none", 0, FALSE, FALSE))
ipmi_sdr_print_type == \E t \in SdrStypes : ipmi_sdr_find_sdr_bysensortype(t, TRUE)
ipmi_sdr_print_entity == \E e \in SdrEntities : ipmi_sdr_find_sdr_byentity(e, TRUE)
ipmi_sdr_print_entry_byid == \E n \in SdrIds : ipmi_sdr_find_sdr_byid(n, TRUE)
(* ipmi_sdr_dump_bin takes an iterator and a reservation of its own, which *)
(* ends the one of sdr_list_itr, and does not look at the list first.      *)
ipmi_sdr_dump_bin ==
  /\ sdrAt = "idle" /\ sdrUsed.commands < SdrMaxCommands
  /\ sdrUsed' = [sdrUsed EXCEPT !.commands = @ + 1] /\ sdrCmd' = SdrCmd("dump", "none", 0, FALSE, FALSE)
  /\ sdrOut' = <<>> /\ sdrRc' = 0 /\ sdrTodo' = <<>> /\ sdrPos' = 1 /\ sdrHdr' = SdrNoHeader
  /\ sdrShared' = sdrItr /\ sdrItr' = SdrNoItr /\ sdrAt' = "devid" /\ sdrHist' = sdrHist \cup {"dumped"}
  /\ UNCHANGED <<sdrBmcVars, sdrRaw, sdrHeld, sdrCap, sdrList, sdrBuf>>
ipmi_sdr_main ==
  \/ \E e \in BOOLEAN : ipmi_sdr_print_sdr(SdrSensors, e)
  \/ ipmi_sdr_print_sdr(SdrKept, FALSE)
  \/ ipmi_sdr_print_type \/ ipmi_sdr_print_entity \/ ipmi_sdr_print_entry_byid \/ ipmi_sdr_dump_bin
(* Commands of other files that look for records.                          *)
SdrCallers ==
  \/ \E j \in DOMAIN SdrRecords : ipmi_sdr_find_sdr_bynumtype(SdrRecords[j].id, SdrRecords[j].stype)
  \/ ipmi_sdr_find_sdr_bytype("compact") \/ ipmi_sdr_list_cache

(* Option -S: the list comes from a file a dump wrote, record by record up *)
(* to where the file is cut off. Then the iterator is at its end: nothing  *)
(* more is read.                                                           *)
ipmi_sdr_list_cache_fromfile ==
  /\ sdrAt = "idle" /\ sdrUsed.commands = 0 /\ ~sdrItr.on /\ sdrAt' = "file" /\ sdrPos' = 1
  /\ UNCHANGED <<sdrBmcVars, sdrDumpVars, sdrHeld, sdrCap, sdrItr, sdrList, sdrCmd, sdrHdr, sdrBuf, sdrTodo, sdrOut, sdrRc, sdrUsed, sdrHist>>
SdrFromFile(r) == SdrEntry(r, r.id, [vers |-> [j \in 1..r.len |-> <<r.id, 0>>], renewed |-> FALSE])
SdrFileRecord ==
  /\ sdrAt = "file" /\ sdrPos <= Len(SdrRecords) /\ sdrPos' = sdrPos + 1
  /\ LET r == SdrRecords[sdrPos] IN
     sdrList' = IF r.type \in SdrKept THEN Append(sdrList, SdrFromFile(r)) ELSE sdrList
  /\ UNCHANGED <<sdrBmcVars, sdrDumpVars, sdrHeld, sdrCap, sdrItr, sdrAt, sdrCmd, sdrHdr, sdrBuf, sdrTodo, sdrOut, sdrRc, sdrUsed, sdrHist>>
SdrFileEnd ==
  /\ sdrAt = "file" /\ sdrAt' = "idle" /\ sdrItr' = [on |-> TRUE, next |-> SdrEnd]
  /\ sdrHist' = IF sdrPos <= Len(SdrRecords) THEN sdrHist \cup {"cut"} ELSE sdrHist
  /\ UNCHANGED <<sdrBmcVars, sdrDumpVars, sdrHeld, sdrCap, sdrList, sdrCmd, sdrHdr, sdrBuf, sdrPos, sdrTodo, sdrOut, sdrRc, sdrUsed>>

(* ipmi_sdr_start: Get Device ID, Get Repository Info, then a reservation; *)
(* the device may have no repository. The code of the first answer is not  *)
(* looked at.                                                              *)
ipmi_sdr_start ==
  /\ sdrAt \in {"devid", "info"}
  /\ \E r \in SdrReplies("ok") :
     /\ SdrCount(r)
     /\ IF sdrAt = "devid" /\ r # "none" THEN sdrAt' = "info" /\ UNCHANGED sdrRc
        ELSE IF r = "ok" THEN sdrAt' = "reserve" /\ UNCHANGED sdrRc
        ELSE SdrEnds(-1)
     /\ sdrItr' = IF sdrAt' = "idle" THEN SdrOldItr ELSE sdrItr
  /\ UNCHANGED <<sdrBmcVars, sdrDumpVars, sdrHeld, sdrCap, sdrList, sdrCmd, sdrHdr, sdrBuf, sdrPos, sdrTodo, sdrOut>>

(* ipmi_sdr_get_reservation, at the start and after one was cancelled. In  *)
(* the middle of a record the reading goes on where it was; a header is    *)
(* counted as tried.                                                       *)
ipmi_sdr_get_reservation ==
  /\ sdrAt \in {"reserve", "renew_header", "renew_record"}
  /\ \E r \in SdrReplies("ok") :
     /\ SdrCount(r)
     /\ sdrHeld' = (r = "ok" \/ sdrHeld)
     /\ CASE sdrAt = "reserve" /\ r = "ok" ->
               /\ sdrItr' = [on |-> TRUE, next |-> 0]
               /\ sdrAt' = (IF SdrDumping THEN "header" ELSE "listed") /\ UNCHANGED <<sdrRc, sdrHdr, sdrBuf>>
          [] sdrAt = "reserve" /\ r # "ok" -> SdrEnds(-1) /\ sdrItr' = SdrOldItr /\ UNCHANGED <<sdrHdr, sdrBuf>>
          [] sdrAt = "renew_header" ->
               /\ sdrAt' = IF r # "ok" THEN "walked" ELSE IF sdrHdr.try = 5 THEN "garbage" ELSE "header"
               /\ UNCHANGED <<sdrItr, sdrHdr, sdrRc, sdrBuf>>
          [] OTHER ->
               /\ sdrAt' = IF r = "ok" THEN "record" ELSE "norecord"
               /\ sdrBuf' = [sdrBuf EXCEPT !.renewed = TRUE]
               /\ UNCHANGED <<sdrItr, sdrHdr, sdrRc>>
  /\ UNCHANGED <<sdrBmcVars, sdrDumpVars, sdrCap, sdrList, sdrCmd, sdrPos, sdrTodo, sdrOut>>

(* A command first goes through the list. "print" prints from it as it     *)
(* goes, "collect" remembers what to print, "find" stops at the first.     *)
SdrAbout(cmd, e) ==
  CASE cmd.by = "type" -> e.type \in cmd.arg
    [] cmd.by = "num" -> e.type \in SdrNumbered /\ <<e.name, e.stype>> = cmd.arg
    [] cmd.by = "stype" -> e.type \in SdrNumbered /\ e.stype = cmd.arg
    [] cmd.by = "entity" -> e.entity = cmd.arg
    [] cmd.by = "id" -> e.name = cmd.arg
    [] OTHER -> FALSE
SdrTakes(e, otherwise) ==
  LET hit == SdrAbout(sdrCmd, e) IN
  /\ sdrTodo' = IF hit THEN Append(sdrTodo, e) ELSE sdrTodo
  /\ sdrAt' = IF hit /\ sdrCmd.op # "collect" THEN "print" ELSE otherwise
(* Of the entries a dump left, which have no record, those that look into  *)
(* the record die, printing the locator of a FRU too; printing the others  *)
(* is an error. They are met before the entry that comes after them.       *)
SdrMet == {j \in DOMAIN sdrRaw : sdrRaw[j].after = sdrPos - 1}
SdrReadsNull(type) ==
  CASE sdrCmd.op = "print" -> type = "fruloc" /\ type \in sdrCmd.arg
    [] sdrCmd.by = "type" -> type \in sdrCmd.arg
    [] sdrCmd.by \in {"num", "stype"} -> type \in SdrNumbered
    [] sdrCmd.by \in {"entity", "id"} -> type \in SdrKept
    [] OTHER -> FALSE
SdrPrintsNull(type) == sdrCmd.op = "print" /\ (type \in sdrCmd.arg \/ sdrCmd.arg = SdrKept)
SdrListed ==
  /\ sdrAt = "listed"
  /\ IF \E j \in SdrMet : SdrReadsNull(sdrRaw[j].type)
     THEN sdrAt' = "crashed" /\ UNCHANGED <<sdrPos, sdrTodo, sdrRc>>
     ELSE /\ IF sdrPos <= Len(sdrList) THEN SdrTakes(sdrList[sdrPos], "listed") /\ sdrPos' = sdrPos + 1
             ELSE sdrAt' = "header" /\ sdrPos' = 0 /\ UNCHANGED sdrTodo
          /\ sdrRc' = IF \E j \in SdrMet : SdrPrintsNull(sdrRaw[j].type) THEN -1 ELSE sdrRc
  /\ UNCHANGED <<sdrBmcVars, sdrDumpVars, sdrHeld, sdrCap, sdrItr, sdrList, sdrCmd, sdrHdr, sdrBuf, sdrOut, sdrUsed, sdrHist>>

(* ipmi_sdr_get_next_header and ipmi_sdr_get_header: the id becomes the    *)
(* one that was asked for, the iterator moves on. Five tries; if the last  *)
(* one brought an error its answer is taken for a header all the same.     *)
SdrHeader(h) ==
  /\ sdrHdr' = [id |-> sdrItr.next, next |-> h.next, type |-> h.type, len |-> h.len, try |-> 0]
  /\ sdrItr' = [sdrItr EXCEPT !.next = h.next]
  /\ sdrBuf' = SdrNoRecord /\ sdrAt' = "record"
ipmi_sdr_get_header ==
  /\ sdrAt = "header"
  /\ IF sdrItr.next = SdrEnd
     THEN sdrAt' = "walked" /\ UNCHANGED <<sdrHdr, sdrItr, sdrBuf, sdrUsed, sdrHist>>
     ELSE \E r \in SdrReplies(SdrGet(sdrItr.next, 5)) :
          /\ SdrCount(r)
          /\ IF r = "ok"
             THEN SdrHeader([next |-> SdrAfter(sdrItr.next), type |-> SdrThe(sdrItr.next).type,
                             len |-> SdrThe(sdrItr.next).len])
             ELSE /\ sdrHdr' = [sdrHdr EXCEPT !.try = @ + 1]
                  /\ sdrAt' = IF r = "cancelled" THEN "renew_header"
                              ELSE IF sdrHdr.try < 4 THEN "header"
                              ELSE IF r = "none" THEN "walked" ELSE "garbage"
                  /\ UNCHANGED <<sdrItr, sdrBuf>>
  /\ UNCHANGED <<sdrBmcVars, sdrDumpVars, sdrHeld, sdrCap, sdrList, sdrCmd, sdrPos, sdrTodo, sdrOut, sdrRc>>
(* What the answer with the error holds is left of earlier answers.        *)
SdrGarbage ==
  /\ sdrAt = "garbage" /\ sdrHist' = sdrHist \cup {"garbage"}
  /\ \/ sdrAt' = "walked" /\ UNCHANGED <<sdrHdr, sdrItr, sdrBuf>>
     \/ (SdrDumping => Len(sdrRaw) < SdrMaxRaw) /\ \E n \in {SdrEnd} \cup SdrIds :
          SdrHeader([next |-> n, type |-> "oem", len |-> 1])
  /\ UNCHANGED <<sdrBmcVars, sdrDumpVars, sdrHeld, sdrCap, sdrList, sdrCmd, sdrPos, sdrTodo, sdrOut, sdrRc, sdrUsed>>

(* ipmi_sdr_get_record: the record in pieces of at most sdr_max_read_len,  *)
(* which gets smaller when the BMC finds a piece too long.                 *)
SdrAsk == IF sdrHdr.len - Len(sdrBuf.vers) < sdrCap THEN sdrHdr.len - Len(sdrBuf.vers) ELSE sdrCap
SdrByte == <<SdrThe(sdrHdr.id).id, SdrThe(sdrHdr.id).ver>>
SdrFilled(n) == sdrBuf.vers \o [j \in 1..n |-> SdrByte]
SdrPiece == SdrGet(sdrHdr.id, SdrAsk)
ipmi_sdr_get_record ==
  /\ sdrAt = "record"
  /\ \E r \in SdrReplies(SdrPiece) :
     /\ SdrCount(r)
     /\ sdrCap' = IF r = "too long" THEN (sdrCap \div 2) - 1 ELSE sdrCap
     /\ sdrBuf' = IF r = "ok" THEN [sdrBuf EXCEPT !.vers = SdrFilled(SdrAsk)] ELSE sdrBuf
     /\ sdrAt' = CASE r = "ok" -> IF Len(sdrBuf'.vers) < sdrHdr.len THEN "record" ELSE "got"
                   [] r = "too long" -> "record"
                   [] r = "cancelled" -> "renew_record"
                   [] OTHER -> "norecord"
  /\ UNCHANGED <<sdrBmcVars, sdrDumpVars, sdrHeld, sdrItr, sdrList, sdrCmd, sdrHdr, sdrPos, sdrTodo, sdrOut, sdrRc>>
(* A dump appends an entry for every header, with the raw record if there  *)
(* is one.                                                                 *)
SdrRawEntry(rec) == [id |-> sdrHdr.id, type |-> sdrHdr.type, len |-> sdrHdr.len, rec |-> rec, after |-> Len(sdrList)]
(* Slip: only the types that the other commands keep.                      *)
SdrDumpsKept(rec) == IF sdrHdr.type \in SdrKept THEN Append(sdrRaw, SdrRawEntry(rec)) ELSE sdrRaw
SdrDumps(rec) == Append(sdrRaw, SdrRawEntry(rec))
(* Without the record the walk goes on; "sdr list" gives -1 in the end.    *)
SdrNoRec ==
  /\ sdrAt = "norecord" /\ sdrAt' = "header"
  /\ sdrRc' = IF sdrCmd.op = "print" THEN -1 ELSE sdrRc
  /\ sdrRaw' = IF SdrDumping THEN SdrDumps(SdrNoRecord) ELSE sdrRaw
  /\ UNCHANGED <<sdrBmcVars, sdrShared, sdrHeld, sdrCap, sdrItr, sdrList, sdrCmd, sdrHdr, sdrBuf, sdrPos, sdrTodo, sdrOut,
                 sdrUsed, sdrHist>>
(* The record goes to the end of the list, unless its type is not kept,    *)
(* and is printed or remembered if the command is about it.                *)
SdrRead ==
  SdrEntry([SdrOf(sdrBuf.vers[1][1]) EXCEPT !.type = sdrHdr.type, !.len = sdrHdr.len], sdrHdr.id, sdrBuf)
(* Slip: the record that was looked for is not kept.                       *)
SdrForgetsFound(hit) == IF hit THEN sdrList ELSE Append(sdrList, SdrRead)
SdrKeep(hit) == Append(sdrList, SdrRead)
SdrGot ==
  /\ sdrAt = "got"
  /\ sdrRaw' = IF SdrDumping THEN SdrDumps(sdrBuf) ELSE sdrRaw
  /\ IF SdrDumping \/ sdrHdr.type \notin SdrKept THEN sdrAt' = "header" /\ UNCHANGED <<sdrList, sdrTodo>>
     ELSE SdrTakes(SdrRead, "header") /\ sdrList' = SdrKeep(SdrAbout(sdrCmd, SdrRead))
  /\ UNCHANGED <<sdrBmcVars, sdrShared, sdrHeld, sdrCap, sdrItr, sdrCmd, sdrHdr, sdrBuf, sdrPos, sdrOut, sdrRc, sdrUsed, sdrHist>>
(* The end of the walk: what was collected is printed now.                 *)
SdrWalked ==
  /\ sdrAt = "walked" /\ ~SdrDumping
  /\ IF sdrTodo # <<>> THEN sdrAt' = "print" /\ UNCHANGED sdrRc ELSE SdrEnds(sdrRc)
  /\ UNCHANGED <<sdrBmcVars, sdrDumpVars, sdrHeld, sdrCap, sdrItr, sdrList, sdrCmd, sdrHdr, sdrBuf, sdrPos, sdrTodo, sdrOut,
                 sdrUsed, sdrHist>>
(* A dump writes every entry of the list, those of other commands without  *)
(* bytes: the file may not open, or a write fail; an entry that has no raw *)
(* record is read all the same and the program dies.                       *)
SdrWrite ==
  /\ sdrAt = "walked" /\ SdrDumping
  /\ \/ SdrEnds(-1) /\ sdrHeld' = FALSE /\ sdrItr' = SdrOldItr
     \/ /\ \A j \in DOMAIN sdrRaw : sdrRaw[j].rec # SdrNoRecord
        /\ SdrEnds(0) /\ sdrHeld' = FALSE /\ sdrItr' = SdrOldItr
     \/ /\ \E j \in DOMAIN sdrRaw : sdrRaw[j].rec = SdrNoRecord
        /\ sdrAt' = "crashed" /\ UNCHANGED <<sdrRc, sdrHeld, sdrItr>>
  /\ UNCHANGED <<sdrBmcVars, sdrDumpVars, sdrCap, sdrList, sdrCmd, sdrHdr, sdrBuf, sdrPos, sdrTodo, sdrOut,
                 sdrUsed, sdrHist>>

(* ipmi_sdr_print_listentry and ipmi_sdr_print_rawentry: of a sensor the   *)
(* reading is asked for. What is shown comes from this answer; without an  *)
(* answer there is "ns", but the compact sensor's line of "elist" reads    *)
(* the answer that is not there (line 1748) and the program dies.          *)
SdrShown(r) == IF r = "ok" THEN "value" ELSE "ns"
SdrDies(type, r) == type = "compact" /\ r = "none" /\ sdrCmd.ext
SdrPrint ==
  /\ sdrAt = "print"
  /\ LET e == sdrTodo[1]
         sensor == e.type \in SdrSensors /\ sdrCmd.show IN
     \E r \in IF sensor THEN SdrReplies("ok") \cup {"unavailable", "disabled"} ELSE {"ok"} :
     /\ SdrCount(r)
     /\ sdrOut' = Append(sdrOut, [id |-> e.name, shown |-> SdrShown(r)])
     /\ sdrTodo' = Tail(sdrTodo)
     /\ IF SdrDies(e.type, r) /\ sensor THEN sdrAt' = "crashed" /\ UNCHANGED sdrRc
        ELSE IF sdrTodo' # <<>> THEN sdrAt' = "print" /\ UNCHANGED sdrRc
        ELSE IF sdrCmd.op = "print" THEN sdrAt' = (IF sdrPos > 0 THEN "listed" ELSE "header") /\ UNCHANGED sdrRc
        ELSE SdrEnds(sdrRc)
  /\ UNCHANGED <<sdrBmcVars, sdrDumpVars, sdrHeld, sdrCap, sdrItr, sdrList, sdrCmd, sdrHdr, sdrBuf, sdrPos>>
-----------------------------------------------------------------------------
SdrStep == SdrFileRecord \/ SdrFileEnd \/ ipmi_sdr_start \/ ipmi_sdr_get_reservation \/ SdrListed
        \/ ipmi_sdr_get_header \/ SdrGarbage
        \/ ipmi_sdr_get_record \/ SdrNoRec \/ SdrGot \/ SdrWalked \/ SdrWrite \/ SdrPrint
SdrNext == SdrBmcIs \/ ipmi_sdr_main \/ SdrCallers \/ ipmi_sdr_list_cache_fromfile \/ SdrStep \/ SdrChange \/ SdrBmcFails
SdrFairness == WF_sdrVars(SdrStep)
SdrSpec == SdrInit /\ [][SdrNext]_sdrVars /\ SdrFairness
-----------------------------------------------------------------------------
SdrMatches(r) == r.type \in SdrKept /\ SdrAbout(sdrCmd, SdrEntry(r, r.id, SdrNoRecord))
(* Whatever came before it in the process but a dump, a command that is    *)
(* done has shown exactly the records it is about, each once and in order, *)
(* whether they were in the list or had to be read, when nothing disturbs  *)
(* it.                                                                     *)
SdrShownRight ==
  /\ \A n \in DOMAIN sdrOut : \E i \in DOMAIN sdrRepo : SdrMatches(sdrRepo[i]) /\ sdrOut[n].id = sdrRepo[i].id
  /\ \A i \in DOMAIN sdrRepo : SdrMatches(sdrRepo[i]) => \E n \in DOMAIN sdrOut : sdrOut[n].id = sdrRepo[i].id
  /\ \A n1, n2 \in DOMAIN sdrOut, i1, i2 \in DOMAIN sdrRepo :
       n1 < n2 /\ sdrOut[n1].id = sdrRepo[i1].id /\ sdrOut[n2].id = sdrRepo[i2].id => i1 < i2
SdrOutputComplete == sdrAt = "idle" /\ sdrHist = {} /\ sdrUsed.commands > 0 => SdrShownRight

(* A record of the list, or of a dump, was read to its last byte, and all  *)
(* of it is of one version of the record, unless the reservation had to be *)
(* renewed while it was read; an entry of a dump may have no record.       *)
SdrWhole(e) == Len(e.rec.vers) = e.len /\ (~e.rec.renewed => Cardinality(ToSet(e.rec.vers)) = 1)
SdrRecordWhole ==
  /\ \A i \in DOMAIN sdrList : SdrWhole(sdrList[i])
  /\ \A i \in DOMAIN sdrRaw : sdrRaw[i].rec = SdrNoRecord \/ SdrWhole(sdrRaw[i])

(* When nothing disturbs them: a dump that reports success has written the *)
(* whole repository in order, behind what earlier dumps of the process     *)
(* wrote, and a command after a dump that does not die on the entries the  *)
(* dump left shows what it would have shown without it.                    *)
SdrDumpTrue ==
  sdrAt = "idle" /\ sdrHist = {"dumped"} =>
    IF ~SdrDumping THEN SdrShownRight
    ELSE sdrRc = 0 =>
      /\ Len(sdrRaw) >= Len(sdrRepo) /\ (sdrRepo # <<>> => Len(sdrRaw) % Len(sdrRepo) = 0)
      /\ \A j \in DOMAIN sdrRaw :
           LET r == sdrRepo[((j - 1) % Len(sdrRepo)) + 1] IN
           sdrRaw[j].type = r.type /\ sdrRaw[j].rec.vers = [k \in 1..r.len |-> <<r.id, r.ver>>]
=============================================================================
