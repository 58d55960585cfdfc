-------------------------------- MODULE Hpm --------------------------------
(***************************************************************************)
(* Firmware upgrade by HPM.1: lib/ipmi_hpmfwupg.c. An image holds actions, *)
(* carried out one after the other; an upload is sent block by block. The  *)
(* target may lose requests or answers, answer "in progress" and succeed   *)
(* or fail later, refuse any request, be busy, or find blocks too long.    *)
(* One request, with what HpmfwupgSendCmd makes of its answer, is one      *)
(* step; what the caller makes of it is another.                           *)
(***************************************************************************)
EXTENDS Integers, Sequences, FiniteSets

CONSTANTS
  HpmImages,     \* the actions of the images there are
  HpmComponents, \* components a prepare action is for
  HpmLength,     \* bytes of the firmware an upload action holds
  HpmBuf,        \* bufLength at the start
  HpmLimits,     \* how long a block may be for a target
  HpmInaccess,   \* inaccessTimeout, in requests without an answer
  HpmPolls,      \* upgradeTimeout, in status requests
  HpmResize,     \* HPM_LAN_PACKET_RESIZE_LIMIT
  HpmMaxFaults   \* bound: lost requests and answers, and times of being busy

ASSUME HpmNumbers ==
  /\ HpmImages \subseteq Seq({"prepare", "upload", "other"}) /\ HpmComponents \in Nat \ {0}
  /\ HpmLength \in Nat \ {0} /\ HpmBuf \in 1..255 /\ HpmLimits \subseteq 1..255 /\ HpmInaccess \in Nat
  /\ HpmPolls \in Nat \ {0} /\ HpmResize \in Nat /\ HpmMaxFaults \in Nat

VARIABLES
  hpmIntf,    \* "lan" or "open"
  hpmCmd,     \* the command: "upgrade", "activate", "rollback"; whether to activate; the actions
  hpmAt,      \* "new", "check", "send", "answer", "done"
  hpmReq,     \* the request under way
  hpmAnswer,  \* the answer HpmfwupgSendCmd returned
  hpmUp,      \* the action; prepare: componentId; upload: offset of pData, bufLength, block number
  hpmWait,    \* inaccessTimeoutCounter; status requests so far; what is waited for
  hpmErr,     \* errorCount of HpmfwupgSendCmd: static, never reset
  hpmRc,
  hpmTarget,  \* the target: see HpmInit
  hpmFaults,
  hpmHist     \* history: "sent" (the target has got an upgrade request), "unread", "lost"

hpmVars == <<hpmIntf, hpmCmd, hpmAt, hpmReq, hpmAnswer, hpmUp, hpmWait, hpmErr, hpmRc, hpmTarget,
             hpmFaults, hpmHist>>

(* The target: its state of the upgrade, the bytes of the upload it has    *)
(* got, the block it expects, the code of the last command, how long a     *)
(* block may be, whether it is busy, whether the image is good for it, and *)
(* what it has been given in full, by action.                              *)
HpmInit ==
  /\ hpmIntf = "open" /\ hpmCmd = [name |-> "none", activate |-> FALSE, actions |-> <<>>] /\ hpmAt = "new"
  /\ hpmReq = "none" /\ hpmAnswer = "none"
  /\ hpmUp = [act |-> 0, comp |-> 0, pos |-> 0, buf |-> HpmBuf, block |-> 0]
  /\ hpmWait = [inacc |-> 0, polls |-> 0, for |-> "none"] /\ hpmErr = 0 /\ hpmRc = 0
  /\ hpmTarget = [stage |-> "idle", got |-> <<>>, next |-> 0, last |-> "ok", limit |-> 255,
                  busy |-> FALSE, good |-> TRUE, images |-> {}]
  /\ hpmFaults = 0 /\ hpmHist = {}
-----------------------------------------------------------------------------
HpmBytes == [i \in 1..(IF hpmUp.pos + hpmUp.buf <= HpmLength THEN hpmUp.buf ELSE HpmLength - hpmUp.pos) |->
              hpmUp.pos + i]

(* The target does what a request says at once (o is "ok"), begins to do   *)
(* it ("progress"), or refuses.                                            *)
HpmQueries == {"devid", "cap", "prop", "selftest", "status", "rollstat"}
HpmTakes(t, o) ==
  IF Len(HpmBytes) > t.limit THEN <<t, "c7">>
  ELSE IF t.stage = "loading" /\ hpmUp.block # t.next THEN <<t, "cc">>
  ELSE <<[t EXCEPT !.stage = "loading", !.last = o, !.next = (hpmUp.block + 1) % 256,
                   !.got = IF t.stage = "loading" THEN @ \o HpmBytes ELSE HpmBytes], o>>
HpmDoes(t, o) ==
  LET to(s) == [t EXCEPT !.stage = s, !.last = o] IN
  CASE hpmReq \in HpmQueries -> <<t, o>>
    [] hpmReq = "prepare" /\ o # "error" -> <<to("prepared"), o>>
    [] hpmReq = "block" /\ o # "error" /\ (t.stage = "loading" \/ hpmUp.block = 0) -> HpmTakes(t, o)
    [] hpmReq = "finish" /\ o # "error" /\ t.stage = "loading" /\ Len(t.got) = HpmLength ->
         <<[to("uploaded") EXCEPT !.images = @ \cup {<<hpmUp.act, t.got>>}], o>>
    [] hpmReq = "activate" /\ o # "error" /\ t.stage = "uploaded" -> <<to("activated"), o>>
    [] hpmReq = "rollback" /\ o # "error" -> <<to("rolledback"), o>>
    [] OTHER -> <<[t EXCEPT !.last = "error"], "error">>
(* What was in progress is done, or has failed; a failed activation makes  *)
(* the target take its old firmware back.                                  *)
HpmTargetFinishes ==
  /\ hpmTarget.last = "progress"
  /\ \/ hpmTarget' = [hpmTarget EXCEPT !.last = "ok"]
     \/ hpmTarget' = [hpmTarget EXCEPT !.last = "error", !.stage = IF @ = "activated" THEN "rolledback" ELSE @]
  /\ UNCHANGED <<hpmIntf, hpmCmd, hpmAt, hpmReq, hpmAnswer, hpmUp, hpmWait, hpmErr, hpmRc, hpmFaults, hpmHist>>
HpmTargetBusy ==
  /\ hpmAt \in {"send", "answer"}
  /\ \/ ~hpmTarget.busy /\ hpmFaults < HpmMaxFaults /\ hpmFaults' = hpmFaults + 1
     \/ hpmTarget.busy /\ UNCHANGED hpmFaults
  /\ hpmTarget' = [hpmTarget EXCEPT !.busy = ~@]
  /\ UNCHANGED <<hpmIntf, hpmCmd, hpmAt, hpmReq, hpmAnswer, hpmUp, hpmWait, hpmErr, hpmRc, hpmHist>>
-----------------------------------------------------------------------------
(* Send a request, for the first time or to ask again about the same.      *)
HpmAsk(req) ==
  hpmAt' = "send" /\ hpmReq' = req /\ hpmWait' = [hpmWait EXCEPT !.polls = 0] /\ UNCHANGED hpmRc
HpmPoll(req) ==
  hpmAt' = "send" /\ hpmReq' = req /\ hpmWait' = [hpmWait EXCEPT !.polls = @ + 1] /\ UNCHANGED hpmRc
HpmEnd(rc) == hpmAt' = "done" /\ hpmRc' = rc /\ UNCHANGED <<hpmReq, hpmWait>>

(* ipmi_hpmfwupg_main, over one of the interfaces to one of the targets.   *)
ipmi_hpmfwupg_main ==
  /\ hpmAt = "new" /\ hpmIntf' \in {"lan", "open"}
  /\ \E l \in HpmLimits, g \in BOOLEAN : hpmTarget' = [hpmTarget EXCEPT !.limit = l, !.good = g]
  /\ \/ /\ \E a \in BOOLEAN, i \in HpmImages : hpmCmd' = [name |-> "upgrade", activate |-> a, actions |-> i]
        /\ hpmAt' = "check" /\ hpmReq' = "none"
     \/ /\ hpmCmd' = [name |-> "activate", activate |-> TRUE, actions |-> <<>>]
        /\ hpmAt' = "send" /\ hpmReq' = "activate"
     \/ /\ hpmCmd' = [name |-> "rollback", activate |-> FALSE, actions |-> <<>>]
        /\ hpmAt' = "send" /\ hpmReq' = "rollback"
  /\ UNCHANGED <<hpmAnswer, hpmUp, hpmWait, hpmErr, hpmRc, hpmFaults, hpmHist>>

(* HpmfwupgGetBufferFromFile and HpmfwupgValidateImageIntegrity: the MD5   *)
(* sum, the signature, the version and the checksum of the header.         *)
HpmfwupgValidateImageIntegrity ==
  /\ hpmAt = "check"
  /\ \/ HpmAsk("devid")
     \/ HpmEnd(-1)
  /\ UNCHANGED <<hpmIntf, hpmCmd, hpmAnswer, hpmUp, hpmErr, hpmTarget, hpmFaults, hpmHist>>

(* HpmfwupgSendCmd: an answer, or none, over the LAN turned into one: for  *)
(* a block "too long", up to a limit; for an activation or a rollback "in  *)
(* progress". A status request opens the session again, which takes the    *)
(* rest of the time. No answer is retried until the time of inaccess is    *)
(* over; "busy" is retried, and the time that takes is never counted: the  *)
(* counter is increased by the difference of two equal times (2211-2212).  *)
HpmFakes(r) ==
  IF r # "none" \/ hpmIntf # "lan" THEN r
  ELSE IF hpmReq = "block" /\ hpmErr < HpmResize THEN "c7"
  ELSE IF hpmReq \in {"activate", "rollback"} THEN "progress" ELSE r
HpmfwupgSendCmd(r) ==
  LET a == HpmFakes(r)
      slept == hpmIntf = "lan" /\ hpmReq \in {"status", "rollstat"} IN
  /\ hpmErr' = IF r = "none" /\ a = "c7" THEN hpmErr + 1 ELSE hpmErr
  /\ IF a = "none" /\ hpmWait.inacc < HpmInaccess
     THEN /\ hpmWait' = [hpmWait EXCEPT !.inacc = IF slept THEN HpmInaccess ELSE @ + 1]
          /\ UNCHANGED <<hpmAt, hpmAnswer>>
     ELSE IF a = "busy" THEN UNCHANGED <<hpmAt, hpmAnswer, hpmWait>>
     ELSE hpmAt' = "answer" /\ hpmAnswer' = a /\ hpmWait' = [hpmWait EXCEPT !.inacc = 0]
HpmSend ==
  /\ hpmAt = "send"
  /\ \/ /\ hpmTarget.busy /\ HpmfwupgSendCmd("busy") /\ UNCHANGED <<hpmTarget, hpmFaults, hpmHist>>
     \/ /\ hpmFaults < HpmMaxFaults /\ hpmFaults' = hpmFaults + 1 /\ HpmfwupgSendCmd("none")
        /\ hpmTarget' = hpmTarget /\ hpmHist' = hpmHist \cup (IF hpmReq = "activate" THEN {"lost"} ELSE {})
     \/ /\ ~hpmTarget.busy
        /\ \E o \in {"ok", "progress", "error"} :
             LET d == HpmDoes(hpmTarget, o) IN
             /\ hpmTarget' = d[1]
             /\ hpmHist' = IF d[1] # hpmTarget THEN hpmHist \cup {"sent"} ELSE hpmHist
             /\ \/ HpmfwupgSendCmd(d[2]) /\ UNCHANGED hpmFaults
                \/ hpmFaults < HpmMaxFaults /\ hpmFaults' = hpmFaults + 1 /\ HpmfwupgSendCmd("none")
  /\ UNCHANGED <<hpmIntf, hpmCmd, hpmReq, hpmUp, hpmRc>>
-----------------------------------------------------------------------------
HpmGot(req) ==
  /\ hpmAt = "answer" /\ hpmReq = req
  /\ UNCHANGED <<hpmIntf, hpmCmd, hpmAnswer, hpmErr, hpmTarget, hpmFaults>>

(* HpmfwupgUpgradeStage: the action at k. One that asks for a backup, is   *)
(* of no known type or has a wrong checksum ends it; with none left the    *)
(* firmware is activated if that was asked for.                            *)
HpmfwupgUpgradeStage(k) ==
  IF k > Len(hpmCmd.actions)
  THEN /\ hpmUp' = [hpmUp EXCEPT !.act = k]
       /\ IF hpmCmd.activate THEN HpmAsk("activate") ELSE HpmEnd(0)
  ELSE CASE hpmCmd.actions[k] = "prepare" -> hpmUp' = [hpmUp EXCEPT !.act = k, !.comp = 1] /\ HpmAsk("prop")
         [] hpmCmd.actions[k] = "upload" ->
              /\ hpmUp' = [act |-> k, comp |-> 0, pos |-> 0, buf |-> HpmBuf, block |-> 0]
              /\ HpmAsk("block")
         [] OTHER -> UNCHANGED hpmUp /\ HpmEnd(-1)

(* HpmfwupgPreparationStage: the device, its capabilities and the revision *)
(* of the image must fit.                                                  *)
HpmfwupgPreparationStage ==
  \/ /\ HpmGot("devid") /\ UNCHANGED <<hpmUp, hpmHist>>
     /\ IF hpmAnswer = "ok" THEN HpmAsk("cap") ELSE HpmEnd(-1)
  \/ /\ HpmGot("cap") /\ UNCHANGED hpmHist
     /\ IF hpmAnswer = "ok" /\ hpmTarget.good THEN HpmfwupgUpgradeStage(1) ELSE HpmEnd(-1) /\ UNCHANGED hpmUp

(* A command that is in progress is waited for.                            *)
HpmWaits(for) ==
  /\ hpmAt' = "send" /\ hpmReq' = "status"
  /\ hpmWait' = [hpmWait EXCEPT !.polls = 0, !.for = for] /\ UNCHANGED <<hpmRc, hpmUp>>
(* What follows a request that succeeded: the next block, the next action, *)
(* the self test if target and image have one.                             *)
HpmSentBlock == hpmUp' = [hpmUp EXCEPT !.pos = @ + Len(HpmBytes), !.block = (@ + 1) % 256]
HpmAfter(req) ==
  CASE req = "block" -> HpmSentBlock /\ HpmAsk(IF hpmUp'.pos < HpmLength THEN "block" ELSE "finish")
    [] req \in {"prepare", "finish"} -> HpmfwupgUpgradeStage(hpmUp.act + 1)
    [] req = "activate" /\ hpmCmd.name = "upgrade" -> UNCHANGED hpmUp /\ (HpmAsk("selftest") \/ HpmEnd(0))
    [] OTHER -> UNCHANGED hpmUp /\ HpmEnd(0)
(* HpmfwupgActivationStage: after a failure the rollback is asked about,   *)
(* if the target does it by itself, and its success is the result.         *)
HpmFails(req) ==
  /\ UNCHANGED hpmUp
  /\ \/ req \in {"activate", "selftest"} /\ hpmCmd.name = "upgrade" /\ HpmAsk("rollstat")
     \/ HpmEnd(-1)
HpmAnswered(req) ==
  CASE hpmAnswer = "progress" -> HpmWaits(req)
    [] hpmAnswer = "ok" -> HpmAfter(req)
    [] OTHER -> HpmFails(req)

(* The prepare action: every component must allow it, but of the requests  *)
(* for their properties only the last one has to succeed.                  *)
HpmPrepareAction ==
  /\ HpmGot("prop") /\ UNCHANGED hpmHist
  /\ \/ /\ hpmUp' = [hpmUp EXCEPT !.comp = @ + 1]
        /\ IF hpmUp.comp < HpmComponents THEN HpmAsk("prop")
           ELSE IF hpmAnswer = "ok" THEN HpmAsk("prepare") ELSE HpmEnd(-1)
     \/ hpmAnswer = "ok" /\ HpmEnd(-1) /\ UNCHANGED hpmUp
HpmfwupgPrepareComponents == HpmGot("prepare") /\ UNCHANGED hpmHist /\ HpmAnswered("prepare")
(* HpmfwupgUploadFirmwareBlock: "cc" is taken for a block sent twice, a    *)
(* block that is too long is sent again with one byte less.                *)
HpmfwupgUploadFirmwareBlock ==
  /\ HpmGot("block") /\ UNCHANGED hpmHist
  /\ CASE hpmAnswer = "cc" -> HpmAfter("block")
       [] hpmAnswer = "c7" -> hpmUp' = [hpmUp EXCEPT !.buf = (@ - 1) % 256] /\ HpmAsk("block")
       [] OTHER -> HpmAnswered("block")
(* Slip: the answer to the end of the upload is not looked at.             *)
HpmFinishIgnored == HpmGot("finish") /\ UNCHANGED hpmHist /\ HpmAfter("finish")
HpmfwupgFinishFirmwareUpload == HpmGot("finish") /\ UNCHANGED hpmHist /\ HpmAnswered("finish")
HpmfwupgActivateFirmware == HpmGot("activate") /\ UNCHANGED hpmHist /\ HpmAnswered("activate")
(* The self test, polled for until it is over, and its result.             *)
HpmfwupgQuerySelftestResult ==
  /\ HpmGot("selftest") /\ UNCHANGED hpmHist
  /\ IF hpmAnswer = "progress" /\ hpmWait.polls < HpmPolls THEN HpmPoll("selftest") /\ UNCHANGED hpmUp
     ELSE HpmFails("selftest") \/ (hpmAnswer = "ok" /\ HpmEnd(0) /\ UNCHANGED hpmUp)
HpmfwupgManualFirmwareRollback ==
  /\ HpmGot("rollback") /\ UNCHANGED <<hpmUp, hpmHist>>
  /\ CASE hpmAnswer = "progress" -> HpmAsk("rollstat")
       [] hpmAnswer = "ok" -> HpmEnd(0)
       [] OTHER -> HpmEnd(-1)
HpmfwupgQueryRollbackStatus ==
  /\ HpmGot("rollstat") /\ UNCHANGED <<hpmUp, hpmHist>>
  /\ IF hpmAnswer = "progress" /\ hpmWait.polls < HpmPolls
     THEN HpmPoll("rollstat") ELSE HpmEnd(IF hpmAnswer = "ok" THEN 0 ELSE -1)

(* HpmfwupgWaitLongDurationCmd: ask for the status until the command is no *)
(* longer in progress or the time is over. When the status could not be    *)
(* had, HpmfwupgGetUpgradeStatus returns success all the same unless the   *)
(* program is verbose, and the status looked at is what was there before,  *)
(* the first time anything.                                                *)
HpmStatus == IF hpmAnswer = "ok" THEN {hpmTarget.last} ELSE {"ok", "progress", "error"}
HpmPollsOn(s) == s = "progress" /\ hpmWait.polls < HpmPolls
HpmfwupgWaitLongDurationCmd ==
  /\ HpmGot("status")
  /\ hpmHist' = IF hpmAnswer = "ok" THEN hpmHist ELSE hpmHist \cup {"unread"}
  /\ \E s \in HpmStatus :
       IF HpmPollsOn(s) THEN HpmPoll("status") /\ UNCHANGED hpmUp
       ELSE IF s = "ok" THEN HpmAfter(hpmWait.for) ELSE HpmFails(hpmWait.for)
-----------------------------------------------------------------------------
HpmStep == ipmi_hpmfwupg_main \/ HpmfwupgValidateImageIntegrity \/ HpmSend \/ HpmfwupgPreparationStage
        \/ HpmPrepareAction \/ HpmfwupgPrepareComponents \/ HpmfwupgUploadFirmwareBlock \/ HpmfwupgFinishFirmwareUpload
        \/ HpmfwupgActivateFirmware \/ HpmfwupgQuerySelftestResult \/ HpmfwupgManualFirmwareRollback
        \/ HpmfwupgQueryRollbackStatus \/ HpmfwupgWaitLongDurationCmd
HpmNext == HpmStep \/ HpmTargetFinishes \/ HpmTargetBusy
HpmFairness == WF_hpmVars(HpmStep)
HpmSpec == HpmInit /\ [][HpmNext]_hpmVars /\ HpmFairness
-----------------------------------------------------------------------------
(* An upgrade that ends without an error has left the bytes of every       *)
(* upload action of the file on the target, each once and in order,        *)
(* whatever requests and answers were lost or refused and however the      *)
(* blocks were cut, and activated them if asked to, unless the activation  *)
(* itself got lost on the LAN, the status of a command could not be had,   *)
(* or the success is that of the question about the rollback.              *)
HpmFile == [i \in 1..HpmLength |-> i]
HpmUploads(n) == {<<k, HpmFile>> : k \in {k \in 1..n : hpmCmd.actions[k] = "upload"}}
HpmSuccess == hpmAt = "done" /\ hpmCmd.name = "upgrade" /\ hpmRc = 0 /\ "unread" \notin hpmHist
HpmSuccessTrue ==
  HpmSuccess =>
    /\ hpmTarget.images = HpmUploads(Len(hpmCmd.actions))
    /\ hpmCmd.activate /\ hpmReq # "rollstat" => hpmTarget.stage = "activated" \/ "lost" \in hpmHist

(* "Firmware upgrade procedure successful" (HpmfwupgUpgrade, line 816) is  *)
(* only said of an upgrade whose firmware the target has activated, if it  *)
(* was told to and got the request. The code says it of a refused or       *)
(* failed activation as well, when the rollback could be asked about.      *)
HpmReportTrue ==
  HpmSuccess /\ hpmCmd.activate /\ "lost" \notin hpmHist => hpmTarget.stage = "activated"

(* A target the image does not fit gets no request that changes it.        *)
HpmUntouched == "sent" \in hpmHist /\ hpmCmd.name = "upgrade" => hpmTarget.good
=============================================================================
