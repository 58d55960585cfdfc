-------------------------------- MODULE Fwum --------------------------------
(***************************************************************************)
(* The Kontron firmware update of lib/ipmi_fwum.c: a file is sent to the   *)
(* board in pieces that are numbered or carry their address, with retries  *)
(* on two levels, and then put into service.                               *)
(***************************************************************************)
EXTENDS Integers, Sequences

CONSTANTS
  FwTotal,      \* size of the firmware file
  FwBuffer,     \* KFWUM_SMALL_BUFFER less the overhead: 26 or 28
  FwPage,       \* KFWUM_PAGE_SIZE
  FwSeqs,       \* sequence numbers, 256 in the code
  FwLimits,     \* longest pieces the boards take
  FwNoResponse, \* FWUM_SAVE_FIRMWARE_NO_RESPONSE_LIMIT
  FwRetry,      \* FWUM_MAX_UPLOAD_RETRY
  FwModulus,    \* of the checksum, 2^16 in the code
  FwMaxFaults   \* bound: lost requests and answers, errors; not those of FwRepeats

ASSUME FwNumbers ==
  /\ {FwTotal, FwBuffer, FwPage, FwSeqs, FwNoResponse, FwRetry, FwModulus, FwMaxFaults} \subseteq Nat
  /\ FwSeqs > 2 /\ FwModulus > 0 /\ FwPage > 0 /\ FwLimits \subseteq Nat \ {0}

VARIABLES
  fwTask,    \* the command
  fwTodo,    \* steps of KfwumMain still to do; the first one is under way
  fwInfo,    \* saveFirmwareInfo: sequence numbers or addresses, and bufferSize
  fwUp,      \* KfwumUploadFirmware: address, lastAddress, sequenceNumber, retry
  fwSave,    \* KfwumSaveFirmwareImage: length of the piece, as it was, retry, noResponse
  fwBoard,   \* the board: sequences, lan, limit, image so far, number expected, started, upgraded
  fwEnd,     \* "none", "ok", "error"; "undefined" after a NULL or a length below zero; "repeating"
             \* when the board never lets the program out of a loop (FwRepeating)
  fwFaults

fwVars == <<fwTask, fwTodo, fwInfo, fwUp, fwSave, fwBoard, fwEnd, fwFaults>>

FwFile == [i \in 1..FwTotal |-> i]

FwInit ==
  /\ fwTask = "none" /\ fwTodo = <<>> /\ fwEnd = "none" /\ fwFaults = 0
  /\ fwInfo = [seq |-> FALSE, buffer |-> 0]
  /\ fwUp = [address |-> 0, last |-> 0, seq |-> 0, retry |-> FwRetry]
  /\ fwSave = [n |-> -1, old |-> 0, retry |-> FALSE, silent |-> 0]
  /\ fwBoard = [seq |-> FALSE, lan |-> FALSE, limit |-> 1, image |-> <<>>, next |-> 0, sum |-> 0, upgraded |-> FALSE]
-----------------------------------------------------------------------------
FwUpload == <<"file", "devid", "info", "start", "save", "finish", "info", "bank", "bank">>
(* The steps of KfwumMain for each task.                                   *)
KfwumMain(task) ==
  CASE task = "download" -> FwUpload
    [] task = "upgrade" -> Append(FwUpload, "upgrade")
    [] task = "startupgrade" -> <<"upgrade">>
    [] task = "info" -> <<"devid", "info">>
    [] task = "status" -> <<"info", "bank", "bank">>
    [] task = "rollback" -> <<"rollback">>
    [] OTHER -> <<"trace", "trace">>
ipmi_fwum_main ==
  /\ fwTask = "none" /\ fwEnd = "none" /\ UNCHANGED <<fwInfo, fwUp, fwSave, fwEnd, fwFaults>>
  /\ fwTask' \in {"download", "upgrade", "startupgrade", "info", "status", "rollback", "tracelog"}
  /\ fwTodo' = KfwumMain(fwTask')
  /\ \E s, lan \in BOOLEAN, l \in FwLimits : fwBoard' = [fwBoard EXCEPT !.seq = s, !.lan = lan, !.limit = l]

FwAt(step) == fwTodo # <<>> /\ fwEnd = "none" /\ Head(fwTodo) = step
(* A step that fails ends the command: no later step is taken.             *)
FwThen(ok) ==
  /\ fwTodo' = IF ok THEN Tail(fwTodo) ELSE <<>>
  /\ fwEnd' = IF ~ok THEN "error" ELSE IF Tail(fwTodo) = <<>> THEN "ok" ELSE "none"
FwFault == fwFaults < FwMaxFaults /\ fwFaults' = fwFaults + 1
FwOneRequest ==
  \/ FwThen(TRUE) /\ UNCHANGED fwFaults
  \/ FwFault /\ FwThen(FALSE)

(* KfwumGetFileSize, KfwumSetupBuffersFromFile (which never fails) and     *)
(* KfwumGetInfoFromFirmware: only a file that is missing, empty or too     *)
(* short for its information is refused.                                   *)
FwReadFile ==
  /\ FwAt("file") /\ \E ok \in BOOLEAN : FwThen(ok)
  /\ UNCHANGED <<fwTask, fwInfo, fwUp, fwSave, fwBoard, fwFaults>>
(* KfwumGetDeviceInfo and, for an upload, KfwumValidFirmwareForBoard; the  *)
(* command "info" ignores the result.                                      *)
KfwumGetDeviceInfo ==
  /\ FwAt("devid") /\ UNCHANGED <<fwTask, fwInfo, fwUp, fwSave, fwBoard>>
  /\ IF fwTask = "info" THEN FwThen(TRUE) /\ UNCHANGED fwFaults ELSE FwOneRequest
(* KfwumGetInfo: saveFirmwareInfo is set from the answer. Before an upload *)
(* and in "info" a failure is ignored, in KfwumGetStatus it is not.        *)
KfwumGetInfo ==
  /\ FwAt("info") /\ UNCHANGED <<fwTask, fwUp, fwSave, fwBoard>>
  /\ \/ fwInfo' = [seq |-> fwBoard.seq, buffer |-> FwBuffer] /\ FwThen(TRUE) /\ UNCHANGED fwFaults
     \/ FwFault /\ FwThen(Tail(fwTodo) = <<>> \/ fwTodo[2] = "start") /\ UNCHANGED fwInfo
KfwumGetStatus ==
  /\ FwAt("bank") /\ FwOneRequest /\ UNCHANGED <<fwTask, fwInfo, fwUp, fwSave, fwBoard>>
KfwumManualRollback ==
  /\ FwAt("rollback") /\ FwOneRequest /\ UNCHANGED <<fwTask, fwInfo, fwUp, fwSave, fwBoard>>
KfwumGetTraceLog ==
  /\ FwAt("trace") /\ FwOneRequest /\ UNCHANGED <<fwTask, fwInfo, fwUp, fwSave, fwBoard>>
KfwumStartFirmwareUpgrade ==
  /\ FwAt("upgrade") /\ UNCHANGED <<fwTask, fwInfo, fwUp, fwSave>>
  /\ \/ FwThen(TRUE) /\ fwBoard' = [fwBoard EXCEPT !.upgraded = TRUE] /\ UNCHANGED fwFaults
     \/ FwFault /\ FwThen(FALSE) /\ \E got \in BOOLEAN : fwBoard' = [fwBoard EXCEPT !.upgraded = got]

FwSum(bytes) == LET sum[n \in 0..Len(bytes)] == IF n = 0 THEN 0 ELSE (sum[n - 1] + bytes[n]) % FwModulus
                IN sum[Len(bytes)]
KfwumCalculateChecksumPadding == (FwModulus - FwSum(FwFile)) % FwModulus
KfwumStartFirmwareImage ==
  /\ FwAt("start") /\ UNCHANGED <<fwTask, fwInfo, fwUp, fwSave>>
  /\ \/ FwThen(TRUE) /\ UNCHANGED fwFaults
        /\ fwBoard' = [fwBoard EXCEPT !.image = <<>>, !.next = 0, !.sum = KfwumCalculateChecksumPadding]
     \/ FwFault /\ FwThen(FALSE) /\ UNCHANGED fwBoard
-----------------------------------------------------------------------------
(* The loop of KfwumUploadFirmware: a piece ends with the file or a page.  *)
FwLess(a, b) == IF a < b THEN a ELSE b
FwPiece ==
  /\ FwAt("save") /\ fwSave.n = -1
  /\ LET n == IF fwUp.address + fwInfo.buffer > FwTotal THEN FwTotal - fwUp.address
              ELSE FwLess(fwInfo.buffer, FwPage - (fwUp.address % FwPage)) IN
     fwSave' = [n |-> n, old |-> n, retry |-> FALSE, silent |-> 0]
  /\ UNCHANGED <<fwTask, fwTodo, fwInfo, fwUp, fwBoard, fwEnd, fwFaults>>

(* What KfwumUploadFirmware makes of the result: after an error it goes    *)
(* back to the piece before, with a new number. Slip: it goes on behind    *)
(* the piece that failed.                                                  *)
FwNextSeq == (fwUp.seq + 1) % FwSeqs
FwSkipFailed(n) == [fwUp EXCEPT !.address = @ + n, !.retry = @ - 1, !.seq = FwNextSeq]
FwBack(n) == [fwUp EXCEPT !.address = fwUp.last, !.retry = @ - 1, !.seq = FwNextSeq]
KfwumUploadFirmware(ok, n) ==
  /\ fwSave' = [fwSave EXCEPT !.n = -1]
  /\ IF ~ok /\ fwUp.retry > 0
     THEN fwUp' = FwBack(n) /\ UNCHANGED <<fwTodo, fwEnd, fwInfo>>
     ELSE IF ~ok \/ n = 0
     THEN FwThen(FALSE) /\ UNCHANGED <<fwUp, fwInfo>>
     ELSE /\ fwInfo' = [fwInfo EXCEPT !.buffer = @ - (fwSave.old - n)]
          /\ fwUp' = [address |-> fwUp.address + n, last |-> fwUp.address, seq |-> FwNextSeq, retry |-> FwRetry]
          /\ IF fwUp'.address < FwTotal THEN UNCHANGED <<fwTodo, fwEnd>> ELSE FwThen(TRUE)
(* A piece is sent again, a byte shorter or as it is. A length of -1 is    *)
(* 255 in the code, more than its buffer holds.                            *)
FwAgain(s) ==
  /\ fwSave' = s /\ UNCHANGED <<fwUp, fwInfo>>
  /\ IF s.n < 0 THEN fwEnd' = "undefined" /\ fwTodo' = <<>> ELSE UNCHANGED <<fwEnd, fwTodo>>
FwShorter == [fwSave EXCEPT !.n = @ - 1, !.retry = TRUE]
FwRetryOnce == IF fwSave.retry THEN KfwumUploadFirmware(FALSE, fwSave.n)
               ELSE FwAgain([fwSave EXCEPT !.retry = TRUE])
(* KfwumSaveFirmwareImage, by the answer.                                  *)
FwAnswered(cc) ==
  CASE cc \in {"ok", "82"} -> KfwumUploadFirmware(TRUE, fwSave.n)
    [] cc = "none" ->
         IF ~fwBoard.lan THEN FwAgain(fwSave)
         ELSE IF fwSave.silent + 1 < FwNoResponse THEN FwAgain([fwSave EXCEPT !.n = @ - 1, !.silent = @ + 1])
         ELSE KfwumUploadFirmware(TRUE, 0)
    [] cc = "c0" -> FwAgain(fwSave)
    [] cc = "cf" -> FwAgain([fwSave EXCEPT !.retry = TRUE])
    [] cc = "c7" \/ (cc = "c3" /\ fwUp.seq = 0) -> FwAgain(FwShorter)
    [] cc = "83" \/ (cc = "c3" /\ fwUp.seq # 0) -> FwRetryOnce
    [] OTHER -> KfwumUploadFirmware(FALSE, fwSave.n)

(* The board. It stores a piece at its address, or behind the others if it *)
(* has the number expected; it says "82" to the number before, "c3" to     *)
(* another and "c7" to a piece that is too long.                           *)
FwBytes == [k \in 1..fwSave.n |-> fwUp.address + k]
FwPut(image, at, bytes) ==
  [p \in 1..(IF at + Len(bytes) > Len(image) THEN at + Len(bytes) ELSE Len(image)) |->
     IF p \in (at + 1)..(at + Len(bytes)) THEN bytes[p - at] ELSE IF p <= Len(image) THEN image[p] ELSE 0]
FwStored ==
  [fwBoard EXCEPT !.image = FwPut(@, IF fwInfo.seq THEN Len(@) ELSE fwUp.address, FwBytes),
                    !.next = IF fwInfo.seq THEN (@ + 1) % FwSeqs ELSE @]
FwVerdict ==
  IF fwSave.n > fwBoard.limit THEN "c7"
  ELSE IF ~fwInfo.seq \/ fwUp.seq = fwBoard.next THEN "ok"
  ELSE IF (fwUp.seq + 1) % FwSeqs = fwBoard.next THEN "82"
  ELSE "c3"
(* What only makes the program send the same piece again, without limit.   *)
FwRepeats == {"c0", "cf"} \cup IF fwBoard.lan THEN {} ELSE {"none"}
FwCosts(cc) == IF cc \in FwRepeats THEN UNCHANGED fwFaults ELSE FwFault
KfwumSaveFirmwareImage ==
  /\ FwAt("save") /\ fwSave.n >= 0 /\ UNCHANGED fwTask
  /\ \/ FwAnswered(FwVerdict) /\ fwBoard' = (IF FwVerdict = "ok" THEN FwStored ELSE fwBoard) /\ UNCHANGED fwFaults
     \/ \E cc \in {"none", "c0", "cf", "83", "ff"} : FwCosts(cc) /\ FwAnswered(cc) /\ UNCHANGED fwBoard
     \/ FwVerdict = "ok" /\ fwBoard' = FwStored /\ \E cc \in {"none", "ff"} : FwCosts(cc) /\ FwAnswered(cc)
(* KfwumFinishFirmwareImage: "busy" is asked again, without limit; without *)
(* an answer the NULL is followed. The board checks length and checksum.   *)
FwChecked == Len(fwBoard.image) = FwTotal /\ (FwSum(fwBoard.image) + fwBoard.sum) % FwModulus = 0
KfwumFinishFirmwareImage ==
  /\ FwAt("finish") /\ UNCHANGED <<fwTask, fwInfo, fwUp, fwSave, fwBoard>>
  /\ \/ FwThen(FwChecked) /\ UNCHANGED fwFaults
     \/ UNCHANGED <<fwTodo, fwEnd, fwFaults>>
     \/ FwFault /\ FwThen(FALSE)
     \/ FwFault /\ fwTodo' = <<>> /\ fwEnd' = "undefined"
(* From some moment on the board gives nothing but such answers.           *)
FwRepeating ==
  /\ FwAt("finish") \/ (FwAt("save") /\ fwSave.n >= 0)
  /\ fwEnd' = "repeating" /\ UNCHANGED <<fwTask, fwTodo, fwInfo, fwUp, fwSave, fwBoard, fwFaults>>

FwNext ==
  \/ ipmi_fwum_main \/ FwReadFile \/ KfwumGetDeviceInfo \/ KfwumGetInfo \/ KfwumGetStatus \/ KfwumManualRollback
  \/ KfwumGetTraceLog \/ KfwumStartFirmwareUpgrade \/ KfwumStartFirmwareImage \/ FwPiece
  \/ KfwumSaveFirmwareImage \/ KfwumFinishFirmwareImage \/ FwRepeating
FwFairness == WF_fwVars(FwNext)
FwSpec == FwInit /\ [][FwNext]_fwVars /\ FwFairness
-----------------------------------------------------------------------------
(* When the upload has ended well, the board has the file, whatever was    *)
(* lost, refused or sent twice: exactly, when pieces carry addresses; with *)
(* numbers, a piece or a byte may be there twice, but then the image is    *)
(* longer than the file, which the board finds out at the end. So "upgrade"*)
(* puts nothing but the file into service.                                 *)
FwImageSafe ==
  /\ FwAt("finish") =>
       \/ fwBoard.image = FwFile
       \/ fwInfo.seq /\ Len(fwBoard.image) > FwTotal
  /\ fwTask = "upgrade" /\ fwBoard.upgraded => fwBoard.image = FwFile
=============================================================================
