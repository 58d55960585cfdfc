-------------------------------- MODULE Fru --------------------------------
(***************************************************************************)
(* Inventory data of field replaceable units: lib/ipmi_fru.c, whose        *)
(* "fru list" memrec's ipmiinfo.pm starts. The device is read and written  *)
(* in pieces; it may refuse a piece that is too long, hold less than it    *)
(* says, count in words, give an error or no answer.                       *)
(***************************************************************************)
EXTENDS Integers, Sequences, FiniteSets

CONSTANTS
  FruSize,      \* size the device reports, in bytes
  FruAreas,     \* chassis, board and product area: [off, len]
  FruMulti,     \* offset of the multi record area
  FruRecs,      \* lengths of the multi records, without their headers
  FruHdr,       \* sizeof(struct fru_multirec_header)
  FruChunk,     \* FRU_MULTIREC_CHUNK_SIZE
  FruRq,        \* fru_data_rqst_size at the start: 20
  FruRqWords,   \* and at most this for a device that counts in words: 16
  FruRqMin,     \* and more than this, or a refusal is an error: 8
  FruWr,        \* bytes written in one request: 16
  FruLens,      \* the length that bytes which are no header may stand for
  FruHeap,      \* bytes behind the buffer that can be read
  FruDevices,   \* kinds of devices: [words, limit, real], real being the bytes there are
  FruMaxFaults  \* bound: errors and lost answers

ASSUME FruNumbers ==
  /\ {FruSize, FruMulti, FruHdr, FruChunk, FruRq, FruRqWords, FruRqMin, FruWr, FruHeap, FruMaxFaults}
       \subseteq Nat
  /\ FruLens \subseteq Nat
  /\ FruWr > 0 /\ FruHdr > 0
  /\ \A n \in DOMAIN FruRecs : FruChunk >= FruHdr + FruRecs[n]
(* Areas start at multiples of 8, 260 bytes are read for a multi record    *)
(* and 16 written at a time; a device that counts in words holds words.    *)
ASSUME FruShapes ==
  /\ FruAreas \in Seq([off : Nat, len : Nat]) /\ FruRecs \in Seq(Nat)
  /\ FruDevices \subseteq [words : BOOLEAN, limit : Nat, real : 0..FruSize]
  /\ FruMulti % 2 = 0 /\ FruChunk % 2 = 0 /\ FruWr % 2 = 0 /\ \A n \in DOMAIN FruAreas : FruAreas[n].off % 2 = 0
  /\ \A k \in FruDevices : k.words => k.real % 2 = 0

VARIABLES
  fruAt,     \* "new", "info", "header", "again", "area", "read", "walk", "record", "write", "done", "crashed"
  fruCmd,
  fruDev,    \* the device: its kind and its bytes
  fruBuf,    \* fru_data, pFruBuf or buf
  fruRd,     \* read_fru_area: where from, where it is, where to, and what for
  fruWrt,    \* write_fru_area: destination and bytes done, and to do
  fruRqSize, \* fru_data_rqst_size of read_fru_area: static
  fruTodo,   \* areas still to print
  fruRec,    \* the walk through the multi records: the number of the record, 0 if it is none, where
             \* the walk began, offset, last_off, and whether the record before was the last one
  fruOut,    \* what was printed or written to the file: offset and bytes
  fruFaults,
  fruHist    \* history: "fault", "short" (no bytes where some should be), "torn" (see FruTorn)

fruVars == <<fruAt, fruCmd, fruDev, fruBuf, fruRd, fruWrt, fruRqSize, fruTodo, fruRec, fruOut, fruFaults, fruHist>>

FruInit ==
  /\ fruAt = "new" /\ fruCmd = "none" /\ fruDev = [kind |-> [words |-> FALSE, limit |-> 255, real |-> FruSize],
                                                   data |-> [p \in 1..FruSize |-> p]]
  /\ fruBuf = [p \in 1..FruSize |-> 0] /\ fruRd = [from |-> 0, off |-> 0, finish |-> 0, for |-> "none"]
  /\ fruWrt = [at |-> 0, off |-> 0, len |-> 0] /\ fruRqSize = FruRq /\ fruTodo = <<>>
  /\ fruRec = [n |-> 0, from |-> 0, i |-> 0, last |-> 0, final |-> FALSE] /\ fruOut = {} /\ fruFaults = 0 /\ fruHist = {}
-----------------------------------------------------------------------------
FruKind == fruDev.kind
FruLess(a, b) == IF a < b THEN a ELSE b
(* ipmi_fru_main, for one of the kinds of devices.                         *)
ipmi_fru_main ==
  /\ fruAt = "new" /\ fruAt' = "info" /\ fruCmd' \in {"print", "read", "write", "edit", "upgEkey"}
  /\ \E k \in FruDevices : fruDev' = [fruDev EXCEPT !.kind = k]
  /\ UNCHANGED <<fruBuf, fruRd, fruWrt, fruRqSize, fruTodo, fruRec, fruOut, fruFaults, fruHist>>

(* read_fru_area is called. Slip: every piece goes to where the first did. *)
FruPlaceFirst(p) == p + (fruRd.off - fruRd.from)
FruPlace(p) == p
FruRead(from, len, for) ==
  /\ fruAt' = "read" /\ fruRd' = [from |-> from, off |-> from, finish |-> FruLess(from + len, FruSize), for |-> for]
  /\ fruRqSize' = IF FruKind.words THEN FruLess(fruRqSize, FruRqWords) ELSE fruRqSize
(* write_fru_area is called: what would end behind the device is refused.  *)
(* No caller looks at what it returns.                                     *)
FruWritten == fruAt' = IF fruCmd = "edit" THEN "walk" ELSE "done"
FruWrite(at, len) ==
  IF at + len > FruSize THEN FruWritten /\ UNCHANGED fruWrt
  ELSE fruAt' = "write" /\ fruWrt' = [at |-> at, off |-> 0, len |-> len]
FruWalk(n, off) == fruRec' = [n |-> n, from |-> off, i |-> off, last |-> off, final |-> FALSE]
(* A request for info or header that fails, or a header that is none, ends *)
(* the command, but not "edit", which goes on with offset 0.               *)
FruNone ==
  /\ UNCHANGED <<fruBuf, fruRd, fruWrt, fruRqSize, fruTodo>>
  /\ IF fruCmd = "edit" THEN fruAt' = "again" /\ FruWalk(0, 0) ELSE fruAt' = "done" /\ UNCHANGED fruRec

(* Get FRU Inventory Area Info, and for the file commands what follows it: *)
(* the whole device is read, or written from a file (bytes here negative). *)
FruFile == [p \in 1..FruSize |-> -p]
FruInfo ==
  /\ fruAt = "info" /\ UNCHANGED <<fruCmd, fruDev, fruOut, fruFaults, fruHist>>
  /\ \/ FruNone
     \/ /\ fruCmd = "read" /\ FruRead(0, FruSize, "file") /\ UNCHANGED <<fruBuf, fruWrt, fruTodo, fruRec>>
     \/ /\ fruCmd = "write" /\ fruBuf' = FruFile /\ \E len \in 1..FruSize : FruWrite(0, len)
        /\ UNCHANGED <<fruRd, fruRqSize, fruTodo, fruRec>>
     \/ /\ fruCmd \notin {"read", "write"} /\ fruAt' = "header"
        /\ UNCHANGED <<fruBuf, fruRd, fruWrt, fruRqSize, fruTodo, fruRec>>
(* __ipmi_fru_print and ipmi_fru_get_multirec_location_from_fru: the       *)
(* header of 8 bytes, asked for in one piece. ipmi_fru_upg_ekeying writes  *)
(* the records of a file to where the header says, ipmi_fru_edit_multirec  *)
(* walks through those of the device.                                      *)
FruHeader ==
  /\ fruAt = "header" /\ UNCHANGED <<fruCmd, fruDev, fruOut, fruFaults, fruHist, fruRd, fruRqSize>>
  /\ \/ FruNone
     \/ fruCmd = "print" /\ fruTodo' = FruAreas /\ fruAt' = "area" /\ FruWalk(1, FruMulti) /\ UNCHANGED <<fruBuf, fruWrt>>
     \/ fruCmd = "edit" /\ fruAt' = "again" /\ FruWalk(1, FruMulti) /\ UNCHANGED <<fruBuf, fruWrt, fruTodo>>
     \/ /\ fruCmd = "upgEkey" /\ fruBuf' = FruFile /\ \E len \in 1..FruSize : FruWrite(FruMulti, len)
        /\ UNCHANGED <<fruTodo, fruRec>>
(* "edit" asks for the info once more.                                     *)
FruAgain ==
  /\ fruAt = "again" /\ fruAt' \in {"walk", "done"}
  /\ UNCHANGED <<fruCmd, fruDev, fruBuf, fruRd, fruWrt, fruRqSize, fruTodo, fruRec, fruOut, fruFaults, fruHist>>
-----------------------------------------------------------------------------
(* fru_area_print_chassis, fru_area_print_board, fru_area_print_product: a *)
(* buffer of zeros, the two bytes that hold the length, then the area.     *)
FruArea ==
  /\ fruAt = "area" /\ UNCHANGED <<fruCmd, fruDev, fruWrt, fruTodo, fruRec, fruOut, fruFaults, fruHist>>
  /\ fruBuf' = [p \in 1..FruSize |-> 0]
  /\ IF fruTodo = <<>> THEN fruAt' = "walk" /\ UNCHANGED <<fruRd, fruRqSize>>
     ELSE FruRead(Head(fruTodo).off, 2, "length")

(* What a read is for decides what follows it. ipmi_fru_read_to_bin does   *)
(* not look at its result, and its buffer is what malloc gave.             *)
FruPrints(off, len) == fruOut' = fruOut \cup {[off |-> off, bytes |-> SubSeq(fruBuf', off + 1, FruLess(off + len, FruSize))]}
FruNextArea == fruTodo' = Tail(fruTodo) /\ fruAt' = "area"
FruReadDone(ok) ==
  CASE fruRd.for = "length" ->
         /\ UNCHANGED <<fruRec, fruOut>>
         /\ IF ok /\ fruBuf'[fruRd.from + 2] # 0
            THEN /\ fruAt' = "read" /\ UNCHANGED fruTodo
                 /\ fruRd' = [fruRd EXCEPT !.off = @ - (fruRd.off - fruRd.from), !.for = "area",
                                           !.finish = FruLess(fruRd.from + Head(fruTodo).len, FruSize)]
            ELSE FruNextArea /\ UNCHANGED fruRd
    [] fruRd.for = "area" ->
         /\ UNCHANGED <<fruRd, fruRec>> /\ FruNextArea
         /\ IF ok THEN FruPrints(fruRd.from, Head(fruTodo).len) ELSE UNCHANGED fruOut
    [] fruRd.for = "file" ->
         FruPrints(0, FruSize) /\ fruAt' = "done" /\ UNCHANGED <<fruRd, fruTodo, fruRec>>
    [] OTHER ->
         /\ UNCHANGED <<fruRd, fruTodo, fruOut>>
         /\ IF ok THEN fruAt' = "record" /\ fruRec' = [fruRec EXCEPT !.last = fruRd.finish]
            ELSE fruAt' = "done" /\ UNCHANGED fruRec

(* One round of read_fru_area's loop. A device that counts in words takes  *)
(* offset and count in words.                                              *)
FruAsked == FruLess(fruRd.finish - fruRd.off, fruRqSize)
FruGets ==
  LET from == IF FruKind.words THEN (fruRd.off \div 2) * 2 ELSE fruRd.off
      n == FruLess(IF FruKind.words THEN 2 * FruAsked ELSE FruAsked, FruKind.real - from) IN
  [from |-> from, n |-> IF n > 0 THEN n ELSE 0]
(* The size asked for after a refusal. Slip: it stays.                     *)
FruSameSize == fruRqSize
FruSmaller == fruRqSize - 1
FruUnchangedRead == UNCHANGED <<fruCmd, fruDev, fruWrt>>
read_fru_area ==
  /\ fruAt = "read" /\ FruUnchangedRead
  /\ \/ /\ FruAsked <= FruKind.limit /\ UNCHANGED <<fruRqSize, fruFaults>>
        /\ LET g == FruGets  end == fruRd.off + g.n IN
           /\ fruBuf' = [p \in 1..FruSize |->
                LET q == FruPlace(p) IN
                IF q \in (fruRd.off + 1)..end THEN fruDev.data[g.from + q - fruRd.off] ELSE fruBuf[p]]
           /\ IF end >= fruRd.finish \/ g.n = 0
              THEN FruReadDone(TRUE) /\ fruHist' = IF end < fruRd.finish THEN fruHist \cup {"short"} ELSE fruHist
              ELSE fruRd' = [fruRd EXCEPT !.off = end] /\ UNCHANGED <<fruAt, fruTodo, fruRec, fruOut, fruHist>>
     \/ /\ FruAsked > FruKind.limit /\ fruRqSize > 0 /\ fruRqSize' = FruSmaller /\ UNCHANGED <<fruBuf, fruFaults>>
        /\ IF fruRqSize' > FruRqMin THEN UNCHANGED <<fruAt, fruRd, fruTodo, fruRec, fruOut, fruHist>>
           ELSE FruReadDone(FALSE) /\ fruHist' = fruHist \cup {"fault"}
     \/ /\ fruFaults < FruMaxFaults /\ fruFaults' = fruFaults + 1 /\ UNCHANGED <<fruBuf, fruRqSize>>
        /\ FruReadDone(fruRd.off >= fruRd.finish) /\ fruHist' = fruHist \cup {"fault"}
-----------------------------------------------------------------------------
(* fru_area_print_multirec and ipmi_fru_edit_multirec. A header is what    *)
(* the buffer holds: missing (zeros) it has no length and no flag for the  *)
(* last one; where no record begins, or behind the buffer, it is anything. *)
FruKnown ==
  /\ fruRec.n \in 1..Len(FruRecs) /\ fruRec.i + FruHdr <= FruSize
  /\ \A k \in 1..FruHdr : fruBuf[fruRec.i + k] # 0
FruMissing == fruRec.i + FruHdr <= FruSize /\ \A k \in 1..FruHdr : fruBuf[fruRec.i + k] = 0
FruHeaders ==
  IF FruKnown THEN {[len |-> FruRecs[fruRec.n], final |-> fruRec.n = Len(FruRecs)]}
  ELSE IF FruMissing THEN {[len |-> 0, final |-> FALSE]} ELSE [len : FruLens, final : BOOLEAN]
FruRecEnd(h) == fruRec.i + FruHdr + h.len
(* Another chunk, longer than any record, is read unless the header is     *)
(* there and i + h->len has been reached, which leaves out up to FruHdr    *)
(* bytes at the end of the record.                                         *)
FruEnough(h) == fruRec.last >= fruRec.i + FruHdr /\ fruRec.last >= fruRec.i + h.len
FruTorn(h) == IF FruRecEnd(h) > fruRec.last THEN {"torn"} ELSE {}
FruReadRecord ==
  /\ fruAt = "walk" /\ ~fruRec.final /\ \E h \in FruHeaders : ~FruEnough(h)
  /\ IF fruRec.last > FruSize THEN fruAt' = "done" /\ UNCHANGED <<fruRd, fruRqSize>>
     ELSE FruRead(fruRec.last, FruLess(FruSize - fruRec.last, FruChunk), "multi")
  /\ UNCHANGED <<fruCmd, fruDev, fruBuf, fruWrt, fruTodo, fruRec, fruOut, fruFaults, fruHist>>
FruNextRecord(h) ==
  fruRec' = [fruRec EXCEPT !.n = IF FruKnown THEN @ + 1 ELSE 0, !.i = FruRecEnd(h), !.final = h.final]
FruRecord(h) ==
  /\ fruAt = "record" \/ (fruAt = "walk" /\ ~fruRec.final /\ FruEnough(h))
  /\ fruRec.i + FruHdr <= FruSize + FruHeap
  /\ FruNextRecord(h) /\ fruHist' = fruHist \cup FruTorn(h)
  /\ UNCHANGED <<fruCmd, fruDev, fruRd, fruRqSize, fruTodo, fruFaults>>
fru_area_print_multirec ==
  /\ fruCmd = "print" /\ fruAt' = "walk" /\ UNCHANGED <<fruBuf, fruWrt>>
  /\ \E h \in FruHeaders : FruRecord(h) /\ FruPrints(fruRec.i, FruHdr + h.len)
(* ipmi_fru_picmg_ext_edit changes a byte, here to 100, and the checksums  *)
(* in the header, here 200; the whole record is written back.              *)
ipmi_fru_edit_multirec ==
  /\ fruCmd = "edit" /\ UNCHANGED fruOut
  /\ \E h \in FruHeaders :
       /\ FruRecord(h)
       /\ \/ fruAt' = "walk" /\ UNCHANGED <<fruBuf, fruWrt>>
          \/ /\ fruBuf' = [p \in 1..FruSize |-> CASE p = fruRec.i + 1 -> 200
                                                  [] p = fruRec.i + FruHdr + 1 -> 100
                                                  [] OTHER -> fruBuf[p]]
             /\ FruWrite(fruRec.i, FruHdr + h.len)
(* The last record ends the walk; behind the buffer the program may crash. *)
FruWalked ==
  /\ \/ fruAt = "walk" /\ fruRec.final /\ fruAt' = "done"
     \/ fruAt = "record" /\ fruRec.i + FruHdr > FruSize /\ fruAt' = "crashed"
  /\ UNCHANGED <<fruCmd, fruDev, fruBuf, fruRd, fruWrt, fruRqSize, fruTodo, fruRec, fruOut, fruFaults, fruHist>>

(* One round of write_fru_area's loop: pieces of at most FruWr bytes. Any  *)
(* error ends it. upgEkey and write take the buffer from its start, edit   *)
(* takes the record's place in it.                                         *)
FruSource(k) == fruBuf[IF fruCmd = "edit" THEN fruWrt.at + k ELSE k]
FruPiece == FruLess(fruWrt.len - fruWrt.off, FruWr)
write_fru_area ==
  /\ fruAt = "write" /\ UNCHANGED <<fruCmd, fruBuf, fruRd, fruRqSize, fruTodo, fruRec, fruOut>>
  /\ \/ /\ FruPiece <= FruKind.limit /\ UNCHANGED <<fruFaults, fruHist>>
        /\ LET to == fruWrt.at + fruWrt.off
               at == IF FruKind.words THEN (to \div 2) * 2 ELSE to IN
           fruDev' = [fruDev EXCEPT !.data = [p \in 1..FruSize |->
             IF p \in (at + 1)..(at + FruPiece) THEN FruSource(p - at + fruWrt.off) ELSE @[p]]]
        /\ fruWrt' = [fruWrt EXCEPT !.off = @ + FruPiece]
        /\ IF fruWrt.off + FruPiece >= fruWrt.len THEN FruWritten ELSE UNCHANGED fruAt
     \/ /\ FruPiece > FruKind.limit /\ FruWritten /\ fruHist' = fruHist \cup {"fault"}
        /\ UNCHANGED <<fruDev, fruWrt, fruFaults>>
     \/ /\ fruFaults < FruMaxFaults /\ fruFaults' = fruFaults + 1 /\ FruWritten
        /\ fruHist' = fruHist \cup {"fault"} /\ UNCHANGED <<fruDev, fruWrt>>

FruNext == ipmi_fru_main \/ FruInfo \/ FruHeader \/ FruAgain \/ FruArea \/ read_fru_area \/ FruReadRecord
        \/ fru_area_print_multirec \/ ipmi_fru_edit_multirec \/ FruWalked \/ write_fru_area
FruFairness == WF_fruVars(FruNext)
FruSpec == FruInit /\ [][FruNext]_fruVars /\ FruFairness
-----------------------------------------------------------------------------
(* Whatever pieces the data came in, a byte that is printed or stored in   *)
(* the file is that of the device. It is missing (0 here) only             *)
(* after an error, from a device that holds less than it says, or at the   *)
(* end of a multi record that crosses the end of a chunk.                  *)
FruBytesTrue ==
  \A o \in fruOut : \A k \in 1..Len(o.bytes) :
    o.bytes[k] = o.off + k \/ (o.bytes[k] = 0 /\ fruHist # {})

(* Writing changes no byte of the device outside the range it was called   *)
(* for, and puts each byte of the source in its place, whatever piece      *)
(* failed; "edit" changes nothing before the offset it took for that of    *)
(* the multi records, which is 0 if it could not be had. Edited records    *)
(* that start at an odd offset of a device that counts in words are        *)
(* written one byte too early, and those whose end had not been read lose  *)
(* it.                                                                     *)
FruWriteExact ==
  \A p \in 1..FruSize :
    LET d == fruDev.data[p] IN
    \/ d = p
    \/ fruCmd = "write" /\ d = -p
    \/ fruCmd = "upgEkey" /\ p > FruMulti /\ d = -(p - FruMulti)
    \/ fruCmd = "edit" /\ p > fruRec.from /\ (d \in {100, 200} \/ FruKind.words \/ fruHist # {})
=============================================================================
