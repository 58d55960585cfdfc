--------------------------- MODULE InterfacesProofs ---------------------------
(***************************************************************************)
(* Theorems about the interfaces, for any retries, numbers, calls and      *)
(* faults. Lanplus: each payload of the handshake is answered by the one   *)
(* that answers it, and a session that is active was opened with a BMC     *)
(* that knows the user's key. Lan: the answer of a call is its own, and    *)
(* session sequence numbers advance. OpenIpmi: the answer of a call is its *)
(* own. The console: characters go through in order and once, either way.  *)
(* All: what is opened is closed.                                          *)
(***************************************************************************)
EXTENDS Interfaces, TLAPS

(* Lanplus: what its variables hold.                                       *)
LpOthers == LpUser \cup {"privlvl", "close"}
LpCommands == LpAuthcap \cup LpHandshake \cup LpOthers
LpCalls == [at : {"new", "send", "recv", "idle"} \cup LpDead, cmd : LpCommands, n : Nat, try : Nat, xmit : BOOLEAN]
LpFlags == [opened : BOOLEAN, abort : BOOLEAN, bridge : BOOLEAN, behind : BOOLEAN]
LpStates == {"presession", "open_sent", "open_received", "rakp1_sent", "rakp2_received", "rakp3_sent", "active"}
LpV2s == [state : LpStates, suite : Int, auth : {"none", "sha1", "md5"}, rakp2 : BOOLEAN]
LpCodes == {"authcap"} \cup LpHandshake \cup LpOthers
LpRequests == [cmd : LpCodes, seq : Int, bridged : BOOLEAN, suite : Int, rakp2 : BOOLEAN, signed : BOOLEAN]
(* What a BMC sends that knows the user's key (k), or does not.            *)
LpOpenRsps == [kind : {"open_rsp"}, ok : BOOLEAN, algs : {lanplus_get_requested_ciphers(s) : s \in Int}]
LpResponses(k) ==
  LpOpenRsps \cup [kind : {"rakp2", "rakp4"}, ok : BOOLEAN, keyed : {k}]
    \cup [kind : {"ipmi"}, cmd : LpCodes \cup {"sendmsg"}, seq : Int, ok : BOOLEAN, keyed : {k}]
LpNets(k) == [req : Seq(LpRequests), rsp : Seq(LpResponses(k)), faults : Nat]

LpTypes ==
  /\ lpCall \in LpCalls /\ lpV2 \in LpV2s /\ lpIntf \in LpFlags /\ lpCurr \in Int
  /\ lpBmc \in [state : {"none", "active"}, knows : BOOLEAN]
  /\ lpNet \in LpNets(lpBmc.knows)

(* How far the negotiation is, with what that means for the list: only     *)
(* entries of Get Channel Auth Cap. before it, and none during it.         *)
LpV15 == {[seq |-> 0, cmd |-> "authcap", target |-> "authcap"]}
LpCalling(c) == lpCall.at \in {"send", "recv"} /\ lpCall.cmd \in c
LpPhase ==
  /\ lpCall.at = "new" => lpV2.state = "presession" /\ lpNet.req = <<>> /\ lpNet.rsp = <<>> /\ lpList = <<>>
  /\ LpCalling(LpAuthcap) => lpV2.state = "presession" /\ lpList \in Seq(LpV15)
  /\ LpCalling(LpHandshake) => lpList = <<>>
  /\ lpCall.at = "recv" /\ lpCall.cmd \in LpHandshake => lpV2.state = LpSentState(lpCall.cmd)
  /\ lpCall.at = "idle" \/ LpCalling(LpOthers) => LpActive
(* Past Open Session the algorithm is that of the suite.                   *)
LpAgreed == LpCalling({"rakp1", "rakp3"}) => lpV2.auth = LpAlgs.auth

LpCore == lpCall \in LpCalls /\ lpV2 \in LpV2s /\ lpIntf \in LpFlags /\ LpPhase /\ LpAgreed /\ LpAuthentic
LpInv == LpTypes /\ LpCore /\ LpHandshakeAnswer

(* The suites' algorithms; only suite 0 has no authentication.             *)
LEMMA SuiteAuth ==
  ASSUME NEW s \in Int
  PROVE  /\ lanplus_get_requested_ciphers(s).auth \in {"none", "sha1", "md5"}
         /\ lanplus_get_requested_ciphers(s).auth = "none" <=> s = 0
BY DEF lanplus_get_requested_ciphers

(* What the ways to go on do to a call.                                    *)
LEMMA BeginCall ==
  ASSUME lpCall \in LpCalls, NEW c \in LpCommands, LpBegin(c)
  PROVE  lpCall' \in LpCalls /\ lpCall'.at = "send" /\ lpCall'.cmd = c
BY DEF LpBegin, LpCalls

LEMMA MoveCall ==
  ASSUME lpCall \in LpCalls, NEW a \in {"send", "recv", "idle"} \cup LpDead, LpAt(a)
  PROVE  lpCall' \in LpCalls /\ lpCall'.at = a /\ lpCall'.cmd = lpCall.cmd
BY DEF LpAt, LpCalls

LEMMA CloseCall ==
  ASSUME lpCall \in LpCalls, lpIntf \in LpFlags, LpCloseSocket
  PROVE  lpCall' \in LpCalls /\ lpIntf' \in LpFlags /\ lpCall'.at = "closed"
<1>1. lpCall' \in LpCalls /\ lpCall'.at = "closed"
  BY MoveCall DEF LpCloseSocket, LpDead
<1>2. lpIntf' \in LpFlags
  BY DEF LpCloseSocket, LpFlags
<1> QED
  BY <1>1, <1>2

(* A call that is over, without a change of the session.                   *)
LEMMA DeadCore ==
  ASSUME LpCore, UNCHANGED lpBmc, lpCall' \in LpCalls, lpIntf' \in LpFlags, lpCall'.at \in LpDead,
         lpV2' \in LpV2s, lpV2'.suite = lpV2.suite, lpV2'.state = "active" => LpActive
  PROVE  LpCore'
BY DEF LpCore, LpPhase, LpCalling, LpAgreed, LpAuthentic, LpActive, LpDead

(* The caller that gets the answer to its payload, or none, goes on in a   *)
(* state in which an active session is authentic.                          *)
LEMMA ReturnCore ==
  ASSUME LpInv, lpCall.at \in {"send", "recv"}, UNCHANGED lpBmc,
         NEW r, r = LpNone \/ (r \in LpResponses(lpBmc.knows) /\ r.kind = LpReply(lpCall.cmd)),
         lpCall.cmd \in LpAuthcap => lpList' \in Seq(LpV15) /\ (r # LpNone => lpList' = <<>>),
         lpCall.cmd \in LpHandshake => lpList' = <<>>,
         LpReturn(r)
  PROVE  LpCore'
<1> USE DEF LpInv
<1>0. lpCall \in LpCalls /\ lpV2 \in LpV2s /\ lpIntf \in LpFlags
  BY DEF LpCore
<1>1. ASSUME LpFail PROVE LpCore'
  BY <1>0, <1>1, CloseCall, DeadCore DEF LpFail, LpDead, LpActive
<1>2. CASE lpCall.cmd \in LpAuthcap /\ LpGetAuthCapabilities(r)
  <2>1. CASE LpFail
    BY <2>1, <1>1
  <2>2. CASE LpOk(r) /\ LpBegin("open") /\ UNCHANGED <<lpIntf, lpV2>>
    <3>1. lpCall' \in LpCalls /\ lpCall'.at = "send" /\ lpCall'.cmd = "open"
      BY <1>0, <2>2, BeginCall DEF LpCommands, LpHandshake
    <3>2. lpList' = <<>>
      BY <1>2, <2>2 DEF LpOk, LpNone
    <3> QED
      BY <1>0, <2>2, <3>1, <3>2 DEF LpCore, LpPhase, LpCalling, LpAgreed, LpAuthentic, LpActive, LpAuthcap,
         LpHandshake, LpOthers, LpUser
  <2>3. CASE UNCHANGED <<lpIntf, lpV2>> /\ \E c \in LpAuthcap : LpBegin(c)
    <3>1. lpCall' \in LpCalls /\ lpCall'.at = "send" /\ lpCall'.cmd \in LpAuthcap
      BY <1>0, <2>3, BeginCall DEF LpCommands
    <3>2. lpV2.state = "presession" /\ lpV2'.state = "presession"
      BY <1>2, <2>3 DEF LpCore, LpPhase, LpCalling
    <3> QED
      BY <1>0, <1>2, <2>3, <3>1, <3>2 DEF LpCore, LpPhase, LpCalling, LpAgreed, LpAuthentic, LpActive, LpAuthcap,
         LpHandshake, LpOthers, LpUser
  <2> QED
    BY <1>2, <2>1, <2>2, <2>3 DEF LpGetAuthCapabilities, LpAuthcap
<1>3. CASE lpCall.cmd = "open" /\ ipmi_lanplus_open_session(r)
  <2>1. CASE LpAt("crashed") /\ UNCHANGED <<lpIntf, lpV2>>
    BY <1>0, <2>1, MoveCall, DeadCore DEF LpDead, LpActive
  <2>2. CASE LpFail
    BY <2>2, <1>1
  <2>3. CASE LpOk(r) /\ lpV2' = [lpV2 EXCEPT !.state = "open_received", !.auth = r.algs.auth]
             /\ IF r.algs = LpAlgs THEN LpBegin("rakp1") /\ UNCHANGED lpIntf ELSE LpCloseSocket
    <3>1. r \in LpOpenRsps
      BY <1>3, <2>3 DEF LpReply, LpOk, LpNone, LpResponses, LpOpenRsps
    <3>2. r.algs.auth \in {"none", "sha1", "md5"}
      BY <3>1, SuiteAuth DEF LpOpenRsps
    <3>3. lpV2' \in LpV2s /\ lpV2'.suite = lpV2.suite /\ lpV2'.state = "open_received" /\ lpV2'.auth = r.algs.auth
      BY <1>0, <2>3, <3>2 DEF LpV2s, LpStates
    <3>4. CASE LpCloseSocket
      BY <1>0, <3>3, <3>4, CloseCall, DeadCore DEF LpDead
    <3>5. CASE r.algs = LpAlgs /\ LpBegin("rakp1") /\ UNCHANGED lpIntf
      <4>1. lpCall' \in LpCalls /\ lpCall'.at = "send" /\ lpCall'.cmd = "rakp1"
        BY <1>0, <3>5, BeginCall DEF LpCommands, LpHandshake
      <4>2. lpList' = <<>>
        BY <1>3 DEF LpHandshake
      <4>3. lpV2'.auth = LpAlgs'.auth
        BY <3>3, <3>5 DEF LpAlgs
      <4> QED
        BY <1>0, <3>3, <3>5, <4>1, <4>2, <4>3 DEF LpCore, LpPhase, LpCalling, LpAgreed, LpAuthentic, LpActive,
           LpAuthcap, LpHandshake, LpOthers, LpUser
    <3> QED
      BY <2>3, <3>4, <3>5
  <2> QED
    BY <1>3, <2>1, <2>2, <2>3 DEF ipmi_lanplus_open_session
<1>4. CASE lpCall.cmd = "rakp1" /\ ipmi_lanplus_rakp1(r)
  <2>1. CASE LpFail
    BY <2>1, <1>1
  <2>2. CASE LpCloseSocket /\ lpV2' = [lpV2 EXCEPT !.state = "rakp2_received"]
    <3>1. lpV2' \in LpV2s /\ lpV2'.suite = lpV2.suite /\ lpV2'.state = "rakp2_received"
      BY <1>0, <2>2 DEF LpV2s, LpStates
    <3> QED
      BY <1>0, <2>2, <3>1, CloseCall, DeadCore DEF LpDead
  <2>3. CASE LpBegin("rakp3") /\ UNCHANGED lpIntf
             /\ lpV2' = [lpV2 EXCEPT !.state = "rakp2_received", !.rakp2 = lanplus_rakp2_hmac_matches(r)]
    <3>1. lanplus_rakp2_hmac_matches(r) \in BOOLEAN
      BY DEF lanplus_rakp2_hmac_matches
    <3>2. lpV2' \in LpV2s /\ lpV2'.suite = lpV2.suite /\ lpV2'.state = "rakp2_received" /\ lpV2'.auth = lpV2.auth
      BY <1>0, <2>3, <3>1 DEF LpV2s, LpStates
    <3>3. lpCall' \in LpCalls /\ lpCall'.at = "send" /\ lpCall'.cmd = "rakp3"
      BY <1>0, <2>3, BeginCall DEF LpCommands, LpHandshake
    <3>4. lpList' = <<>>
      BY <1>4 DEF LpHandshake
    <3>5. lpV2'.auth = LpAlgs'.auth
      BY <1>4, <3>2 DEF LpCore, LpAgreed, LpAlgs, LpCalling
    <3> QED
      BY <1>0, <2>3, <3>2, <3>3, <3>4, <3>5 DEF LpCore, LpPhase, LpCalling, LpAgreed, LpAuthentic, LpActive,
         LpAuthcap, LpHandshake, LpOthers, LpUser
  <2> QED
    BY <1>4, <2>1, <2>2, <2>3 DEF ipmi_lanplus_rakp1
<1>5. CASE lpCall.cmd = "rakp3" /\ ipmi_lanplus_rakp3(r)
  <2>1. CASE LpFail
    BY <2>1, <1>1
  <2>2. CASE /\ LpOk(r) /\ lanplus_rakp4_hmac_matches(r)
             /\ lpV2' = [lpV2 EXCEPT !.state = "active"]
             /\ \/ LpAt("idle") /\ lpIntf' = [lpIntf EXCEPT !.abort = FALSE, !.bridge = TRUE]
                \/ LpBegin("privlvl") /\ lpIntf' = [lpIntf EXCEPT !.abort = FALSE]
    <3>1. lpV2' \in LpV2s /\ lpV2'.suite = lpV2.suite /\ lpV2'.state = "active"
      BY <1>0, <2>2 DEF LpV2s, LpStates
    <3>2. lpV2.auth = "none" => lpV2.suite = 0
      BY <1>0, <1>5, SuiteAuth DEF LpCore, LpAgreed, LpAlgs, LpCalling, LpV2s
    <3>3. r.kind = "rakp4" => r.keyed = lpBmc.knows
      BY <2>2 DEF LpResponses, LpOk, LpNone, LpOpenRsps
    <3>4. lpV2.suite # 0 => lpBmc.knows
      BY <2>2, <3>2, <3>3 DEF lanplus_rakp4_hmac_matches
    <3>5. lpCall' \in LpCalls /\ (lpCall'.at = "idle" \/ (lpCall'.at = "send" /\ lpCall'.cmd = "privlvl"))
      BY <1>0, <2>2, BeginCall, MoveCall DEF LpCommands, LpOthers
    <3>6. lpIntf' \in LpFlags
      BY <1>0, <2>2 DEF LpFlags
    <3> QED
      BY <3>1, <3>4, <3>5, <3>6 DEF LpCore, LpPhase, LpCalling, LpAgreed, LpAuthentic, LpActive,
         LpAuthcap, LpHandshake
  <2> QED
    BY <1>5, <2>1, <2>2 DEF ipmi_lanplus_rakp3
<1>6. CASE lpCall.cmd = "privlvl" /\ LpSetPrivlvl(r)
  <2>1. CASE LpCloseSocket /\ UNCHANGED lpV2
    BY <1>0, <2>1, CloseCall, DeadCore DEF LpDead, LpActive
  <2>2. CASE LpAt("idle") /\ lpIntf' = [lpIntf EXCEPT !.bridge = TRUE] /\ UNCHANGED lpV2
    <3>1. lpCall' \in LpCalls /\ lpCall'.at = "idle" /\ lpIntf' \in LpFlags
      BY <1>0, <2>2, MoveCall DEF LpFlags
    <3>2. LpActive
      BY <1>6 DEF LpCore, LpPhase, LpCalling, LpOthers
    <3> QED
      BY <1>0, <2>2, <3>1, <3>2 DEF LpCore, LpPhase, LpCalling, LpAgreed, LpAuthentic, LpActive
  <2> QED
    BY <1>6, <2>1, <2>2 DEF LpSetPrivlvl
<1>7. CASE lpCall.cmd \in LpUser /\ LpAt("idle") /\ UNCHANGED <<lpIntf, lpV2, lpHist>>
  <2>1. lpCall' \in LpCalls /\ lpCall'.at = "idle"
    BY <1>0, <1>7, MoveCall
  <2>2. LpActive
    BY <1>7 DEF LpCore, LpPhase, LpCalling, LpOthers
  <2> QED
    BY <1>0, <1>7, <2>1, <2>2 DEF LpCore, LpPhase, LpCalling, LpAgreed, LpAuthentic, LpActive
<1>8. CASE lpCall.cmd = "close" /\ LpFail
  BY <1>8, <1>1
<1> QED
  BY <1>2, <1>3, <1>4, <1>5, <1>6, <1>7, <1>8 DEF LpReturn

LEMMA InitInv == LpInit => LpInv
<1> SUFFICES ASSUME LpInit PROVE LpInv
  OBVIOUS
<1>1. LpTypes
  BY DEF LpInit, LpTypes, LpCalls, LpV2s, LpStates, LpFlags, LpNets, LpCommands, LpAuthcap
<1>2. LpPhase /\ LpAgreed /\ LpAuthentic
  BY DEF LpInit, LpPhase, LpCalling, LpAgreed, LpAuthentic, LpActive
<1> QED
  BY <1>1, <1>2 DEF LpInit, LpInv, LpTypes, LpCore, LpHandshakeAnswer, LpReply

LEMMA OpenInv == ASSUME LpInv, ipmi_lanplus_open PROVE LpInv'
<1> USE DEF LpInv
<1>0. lpCall \in LpCalls /\ lpV2 \in LpV2s /\ lpIntf \in LpFlags /\ lpNet \in LpNets(lpBmc.knows)
  BY DEF LpTypes
<1>1. /\ lpCall.at = "new" /\ lpV2.state = "presession" /\ lpNet.req = <<>> /\ lpNet.rsp = <<>> /\ lpList = <<>>
      /\ UNCHANGED <<lpList, lpCurr, lpNet, lpGot, lpHist>>
  BY DEF ipmi_lanplus_open, LpCore, LpPhase
<1>2. lpHist' = lpHist /\ LpHandshakeAnswer'
  BY <1>1 DEF LpHandshakeAnswer
<1>3. \A k \in BOOLEAN : lpNet' \in LpNets(k)
  BY <1>0, <1>1 DEF LpNets
<1>4. CASE LpAt("closed") /\ lpIntf' = [lpIntf EXCEPT !.abort = TRUE] /\ UNCHANGED <<lpV2, lpBmc>>
  <2>1. lpCall' \in LpCalls /\ lpCall'.at = "closed" /\ lpIntf' \in LpFlags
    BY <1>0, <1>4, MoveCall DEF LpFlags, LpDead
  <2>2. LpCore'
    BY <1>0, <1>4, <2>1, DeadCore DEF LpDead, LpActive
  <2> QED
    BY <1>1, <1>2, <1>3, <1>4, <2>1, <2>2 DEF LpTypes, LpCore
<1>5. ASSUME NEW b \in BOOLEAN, NEW k \in BOOLEAN, NEW s \in LpSuites,
             lpIntf' = [lpIntf EXCEPT !.abort = TRUE, !.opened = TRUE, !.behind = b],
             lpV2' = [lpV2 EXCEPT !.suite = s], lpBmc' = [lpBmc EXCEPT !.knows = k], LpBegin("authcap1")
      PROVE  LpInv'
  <2>1. lpCall' \in LpCalls /\ lpCall'.at = "send" /\ lpCall'.cmd = "authcap1"
    BY <1>0, <1>5, BeginCall DEF LpCommands, LpAuthcap
  <2>2. lpIntf' \in LpFlags
    BY <1>0, <1>5 DEF LpFlags
  <2>3. lpV2' \in LpV2s /\ lpV2'.state = "presession"
    BY <1>0, <1>1, <1>5, LpNumbers DEF LpV2s
  <2>4. lpBmc' \in [state : {"none", "active"}, knows : BOOLEAN]
    BY <1>5 DEF LpTypes
  <2>5. LpCore'
    BY <1>1, <2>1, <2>2, <2>3 DEF LpCore, LpPhase, LpCalling, LpAgreed, LpAuthentic, LpActive, LpAuthcap, LpHandshake,
       LpOthers, LpUser
  <2>6. lpNet' \in LpNets(lpBmc'.knows)
    BY <1>3, <2>4
  <2> QED
    BY <1>1, <1>2, <2>1, <2>2, <2>3, <2>4, <2>5, <2>6 DEF LpTypes
<1> QED
  BY <1>4, <1>5 DEF ipmi_lanplus_open

(* The invariant from its parts, when the BMC is the same.                 *)
LEMMA CoreIsInv ==
  ASSUME LpInv, LpCore', UNCHANGED lpBmc, lpCurr' \in Int, lpNet' \in LpNets(lpBmc.knows), LpHandshakeAnswer'
  PROVE  LpInv'
BY DEF LpInv, LpTypes, LpCore

LEMMA TransmitInv == ASSUME LpInv, LpTransmit PROVE LpInv'
<1> USE DEF LpInv
<1>0. lpCall \in LpCalls /\ lpV2 \in LpV2s /\ lpIntf \in LpFlags /\ lpNet \in LpNets(lpBmc.knows) /\ lpCurr \in Int
  BY DEF LpTypes
<1>1. lpCall.at = "send" /\ UNCHANGED <<lpBmc, lpGot>> /\ LpHandshakeAnswer'
  BY DEF LpTransmit, LpHandshakeAnswer
<1>2. CASE LpAt("aborted") /\ UNCHANGED <<lpList, lpCurr, lpNet, lpV2, lpIntf, lpHist>>
  <2>1. lpCall' \in LpCalls /\ lpCall'.at = "aborted"
    BY <1>0, <1>2, MoveCall DEF LpDead
  <2>2. LpCore'
    BY <1>0, <1>1, <1>2, <2>1, DeadCore DEF LpDead, LpActive
  <2> QED
    BY <1>0, <1>1, <1>2, <2>2, CoreIsInv
<1>3. CASE /\ lpV2.state = LpSendState(lpCall.cmd)
           /\ IF lpCall.cmd \in LpHandshake THEN UNCHANGED <<lpList, lpCurr>>
              ELSE IF lpCall.cmd \in LpAuthcap THEN ipmi_lanplus_build_v15_ipmi_cmd
              ELSE ipmi_lanplus_build_v2x_ipmi_cmd
           /\ \/ lpNet' = [lpNet EXCEPT !.faults = @ + 1] /\ LpReturn(LpNone)
              \/ /\ lpNet' = [lpNet EXCEPT !.req = Append(@, ipmi_lanplus_build_v2x_msg(
                                 IF lpCall.cmd \in LpAuthcap THEN 0 ELSE lpCurr'))]
                 /\ LpAt(IF lpCall.cmd = "reset" THEN "idle" ELSE "recv")
                 /\ lpV2' = [lpV2 EXCEPT !.state = LpSentState(lpCall.cmd)]
                 /\ lpIntf' = [lpIntf EXCEPT !.abort = @ \/ lpCall.cmd = "reset"]
  <2>1. lpCurr' \in Int
    BY <1>0, <1>3, LpNumbers DEF ipmi_lanplus_build_v15_ipmi_cmd, ipmi_lanplus_build_v2x_ipmi_cmd
  <2>2. lpCall.cmd \in LpAuthcap => lpList' \in Seq(LpV15)
    BY <1>1, <1>3 DEF ipmi_lanplus_build_v15_ipmi_cmd, LpAddEntry, LpV15, LpCore, LpPhase, LpCalling, LpAuthcap,
       LpHandshake
  <2>3. lpCall.cmd \in LpHandshake => lpList' = <<>>
    BY <1>1, <1>3 DEF LpCore, LpPhase, LpCalling
  <2>4. CASE lpNet' = [lpNet EXCEPT !.faults = @ + 1] /\ LpReturn(LpNone)
    <3>1. lpNet' \in LpNets(lpBmc.knows)
      BY <1>0, <2>4 DEF LpNets
    <3>2. LpCore'
      BY <1>1, <2>2, <2>3, <2>4, ReturnCore
    <3> QED
      BY <1>1, <2>1, <3>1, <3>2, CoreIsInv
  <2>5. CASE /\ lpNet' = [lpNet EXCEPT !.req = Append(@, ipmi_lanplus_build_v2x_msg(
                               IF lpCall.cmd \in LpAuthcap THEN 0 ELSE lpCurr'))]
             /\ LpAt(IF lpCall.cmd = "reset" THEN "idle" ELSE "recv")
             /\ lpV2' = [lpV2 EXCEPT !.state = LpSentState(lpCall.cmd)]
             /\ lpIntf' = [lpIntf EXCEPT !.abort = @ \/ lpCall.cmd = "reset"]
    <3>1. ipmi_lanplus_build_v2x_msg(IF lpCall.cmd \in LpAuthcap THEN 0 ELSE lpCurr') \in LpRequests
      <4>1. LpCode(lpCall.cmd) \in LpCodes
        BY <1>0 DEF LpCalls, LpCode, LpCodes, LpCommands
      <4>2. LpBridged \in BOOLEAN /\ (LpActive /\ LpAlgs.integrity # "none") \in BOOLEAN
        BY <1>0 DEF LpBridged, LpFlags
      <4> QED
        BY <1>0, <2>1, <4>1, <4>2 DEF ipmi_lanplus_build_v2x_msg, LpRequests, LpV2s
    <3>2. lpNet' \in LpNets(lpBmc.knows)
      <4>1. lpNet.req \in Seq(LpRequests) /\ lpNet.rsp \in Seq(LpResponses(lpBmc.knows)) /\ lpNet.faults \in Nat
        BY <1>0 DEF LpNets
      <4>2. Append(lpNet.req, ipmi_lanplus_build_v2x_msg(
              IF lpCall.cmd \in LpAuthcap THEN 0 ELSE lpCurr')) \in Seq(LpRequests)
        BY <3>1, <4>1
      <4> QED
        BY <1>0, <2>5, <4>1, <4>2 DEF LpNets
    <3>3. LpSentState(lpCall.cmd) \in LpStates /\ (LpSentState(lpCall.cmd) = "active" => LpActive)
      BY <1>0 DEF LpSentState, LpV2s, LpStates, LpActive
    <3>4. lpV2' \in LpV2s /\ lpV2'.state = LpSentState(lpCall.cmd) /\ lpV2'.suite = lpV2.suite /\ lpV2'.auth = lpV2.auth
      BY <1>0, <2>5, <3>3 DEF LpV2s
    <3>5. lpCall' \in LpCalls /\ lpCall'.cmd = lpCall.cmd /\ lpCall'.at = IF lpCall.cmd = "reset" THEN "idle" ELSE "recv"
      BY <1>0, <2>5, MoveCall
    <3>6. lpIntf' \in LpFlags
      BY <1>0, <2>5 DEF LpFlags
    <3>7. LpPhase'
      BY <1>1, <2>2, <2>3, <3>4, <3>5 DEF LpPhase, LpCore, LpCalling, LpActive, LpSentState, LpAuthcap, LpHandshake,
         LpOthers, LpUser
    <3>8. LpAgreed' /\ LpAuthentic'
      BY <1>1, <3>3, <3>4, <3>5 DEF LpCore, LpAgreed, LpAuthentic, LpActive, LpCalling, LpAlgs
    <3> QED
      BY <1>1, <2>1, <3>2, <3>4, <3>5, <3>6, <3>7, <3>8, CoreIsInv DEF LpCore
  <2> QED
    BY <1>3, <2>4, <2>5
<1> QED
  BY <1>2, <1>3 DEF LpTransmit

(* An answer to Get Channel Auth Cap. empties the list: all its entries    *)
(* are alike, so that the first one matches, and with it all are removed.  *)
LEMMA EmptiesList ==
  ASSUME lpList \in Seq(LpV15), NEW r, LpMatches(r) # {}
  PROVE  LpRemove(LpLookup(r)) = <<>> /\ r.cmd = "authcap"
<1>1. PICK i \in LpMatches(r) : TRUE
  OBVIOUS
<1>2. \A j \in DOMAIN lpList : lpList[j] = [seq |-> 0, cmd |-> "authcap", target |-> "authcap"]
  BY DEF LpV15
<1>3. i \in 1..Len(lpList) /\ r.seq = 0 /\ r.cmd = "authcap"
  BY <1>1, <1>2 DEF LpMatches
<1>4. LpMatches(r) = 1..Len(lpList)
  BY <1>2, <1>3 DEF LpMatches
<1>5. 1 \in LpMatches(r) /\ \A j \in LpMatches(r) : 1 <= j
  BY <1>3, <1>4
<1>6. LpLookup(r) = 1
  <2>1. LpLookup(r) \in LpMatches(r) /\ \A j \in LpMatches(r) : LpLookup(r) <= j
    BY <1>5 DEF LpLookup
  <2> QED
    BY <1>4, <1>5, <2>1
<1> QED
  BY <1>3, <1>6 DEF LpRemove

LEMMA PollInv == ASSUME LpInv, LpPollRecv PROVE LpInv'
<1> DEFINE r == Head(lpNet.rsp)
<1> USE DEF LpInv
<1>0. lpCall \in LpCalls /\ lpV2 \in LpV2s /\ lpIntf \in LpFlags /\ lpNet \in LpNets(lpBmc.knows) /\ lpCurr \in Int
  BY DEF LpTypes
<1>1. lpCall.at = "recv" /\ lpNet.rsp # <<>> /\ lpNet' = [lpNet EXCEPT !.rsp = Tail(@)] /\ UNCHANGED <<lpCurr, lpBmc>>
  BY DEF LpPollRecv
<1>2. r \in LpResponses(lpBmc.knows) /\ Tail(lpNet.rsp) \in Seq(LpResponses(lpBmc.knows))
  BY <1>0, <1>1 DEF LpNets
<1>3. lpNet' \in LpNets(lpBmc.knows)
  BY <1>0, <1>1, <1>2 DEF LpNets
<1>4. r.kind \in {"open_rsp", "rakp2", "rakp4", "ipmi"}
  BY <1>2 DEF LpResponses, LpOpenRsps
<1> HIDE DEF r
<1>5. CASE LpAt("aborted") /\ UNCHANGED <<lpV2, lpIntf, lpGot>>
  <2>1. lpCall' \in LpCalls /\ lpCall'.at = "aborted"
    BY <1>0, <1>5, MoveCall DEF LpDead
  <2>2. LpCore'
    BY <1>0, <1>1, <1>5, <2>1, DeadCore DEF LpDead, LpActive
  <2> QED
    BY <1>0, <1>1, <1>3, <1>5, <2>2, CoreIsInv DEF LpHandshakeAnswer
<1>6. CASE UNCHANGED <<lpCall, lpList, lpV2, lpIntf, lpGot>>
  <2>1. LpCore'
    BY <1>1, <1>6 DEF LpCore, LpPhase, LpCalling, LpAgreed, LpAuthentic, LpActive, LpAlgs, LpSentState
  <2> QED
    BY <1>0, <1>1, <1>3, <1>6, <2>1, CoreIsInv DEF LpHandshakeAnswer
<1>7. CASE ~LpAsserts(r) /\ r.kind # "ipmi" /\ ~LpUnexpected(r) /\ LpTake(r) /\ UNCHANGED lpList
  <2>1. lpCall.cmd \in LpHandshake /\ r.kind = LpReply(lpCall.cmd)
    <3>1. ~LpActive /\ lpV2.state \in {"open_sent", "rakp1_sent", "rakp3_sent"}
          /\ (r.kind = "open_rsp" => lpV2.state = "open_sent") /\ (r.kind = "rakp2" => lpV2.state = "rakp1_sent")
          /\ (r.kind = "rakp4" => lpV2.state = "rakp3_sent")
      BY <1>4, <1>7 DEF LpAsserts, LpUnexpected, LpSentState
    <3>2. lpCall.cmd \in LpHandshake
      BY <1>0, <1>1, <3>1 DEF LpCore, LpPhase, LpCalling, LpCalls, LpCommands
    <3>3. lpV2.state = LpSentState(lpCall.cmd)
      BY <1>1, <3>2 DEF LpCore, LpPhase
    <3> QED
      BY <1>4, <1>7, <3>1, <3>2, <3>3 DEF LpHandshake, LpSentState, LpReply
  <2>2. LpReturn(r) /\ lpGot'.kind = r.kind /\ lpGot'.cmd = lpCall.cmd
    BY <1>7 DEF LpTake
  <2>3. lpList' = <<>>
    BY <1>1, <1>7, <2>1 DEF LpCore, LpPhase, LpCalling
  <2>4. LpCore'
    BY <1>1, <1>2, <2>1, <2>2, <2>3, ReturnCore DEF LpHandshake, LpAuthcap
  <2>5. LpHandshakeAnswer'
    BY <2>1, <2>2 DEF LpHandshakeAnswer, LpReply
  <2> QED
    BY <1>0, <1>1, <1>3, <2>4, <2>5, CoreIsInv
<1>8. CASE ~LpAsserts(r) /\ r.kind = "ipmi" /\ LpMatches(r) # {} /\ lpList' = LpRemove(LpLookup(r)) /\ LpTake(r)
  <2>1. lpCall.cmd \notin LpHandshake
    BY <1>1, <1>8 DEF LpCore, LpPhase, LpCalling, LpMatches
  <2>2. r.kind = LpReply(lpCall.cmd)
    BY <1>8, <2>1 DEF LpReply, LpHandshake
  <2>3. lpCall.cmd \in LpAuthcap => lpList' = <<>> /\ lpList' \in Seq(LpV15)
    <3>1. lpCall.cmd \in LpAuthcap => lpList \in Seq(LpV15)
      BY <1>1 DEF LpCore, LpPhase, LpCalling
    <3>2. << >> \in Seq(LpV15)
      OBVIOUS
    <3> QED
      BY <1>8, <3>1, <3>2, EmptiesList
  <2>4. LpReturn(r) /\ lpGot'.kind = r.kind /\ lpGot'.cmd = lpCall.cmd
    BY <1>8 DEF LpTake
  <2>5. LpCore'
    BY <1>1, <1>2, <2>1, <2>2, <2>3, <2>4, ReturnCore
  <2>6. LpHandshakeAnswer'
    BY <2>2, <2>4 DEF LpHandshakeAnswer, LpReply
  <2> QED
    BY <1>0, <1>1, <1>3, <2>5, <2>6, CoreIsInv
<1>9. CASE ~LpAsserts(r) /\ r.kind = "ipmi" /\ LpMatches(r) # {} /\ r.cmd = "sendmsg"
           /\ UNCHANGED <<lpCall, lpV2, lpIntf, lpGot>>
  <2>1. lpCall.cmd \notin LpHandshake \cup LpAuthcap
    BY <1>1, <1>9, EmptiesList DEF LpCore, LpPhase, LpCalling, LpMatches
  <2>2. LpCore'
    BY <1>1, <1>9, <2>1 DEF LpCore, LpPhase, LpCalling, LpAgreed, LpAuthentic, LpActive, LpAlgs, LpSentState
  <2> QED
    BY <1>0, <1>1, <1>3, <1>9, <2>2, CoreIsInv DEF LpHandshakeAnswer
<1> QED
  BY <1>5, <1>6, <1>7, <1>8, <1>9, Zenon DEF LpPollRecv, r

LEMMA NoAnswerInv == ASSUME LpInv, LpNoAnswer PROVE LpInv'
<1> USE DEF LpInv
<1>0. lpCall \in LpCalls /\ lpV2 \in LpV2s /\ lpIntf \in LpFlags /\ lpNet \in LpNets(lpBmc.knows) /\ lpCurr \in Int
  BY DEF LpTypes
<1>1. lpCall.at = "recv" /\ UNCHANGED <<lpList, lpCurr, lpBmc, lpGot>>
  BY DEF LpNoAnswer
<1>2. PICK slow \in BOOLEAN, xmit \in BOOLEAN :
        /\ lpNet' = [lpNet EXCEPT !.faults = @ + IF slow \/ ~xmit THEN 1 ELSE 0]
        /\ \/ LpReturn(LpNone)
           \/ /\ lpCall' = [lpCall EXCEPT !.try = @ + 1, !.xmit = xmit, !.at = IF xmit THEN "send" ELSE "recv"]
              /\ UNCHANGED <<lpV2, lpIntf, lpHist>>
  BY DEF LpNoAnswer
<1>3. lpNet' \in LpNets(lpBmc.knows)
  BY <1>0, <1>2 DEF LpNets
<1>4. LpCore'
  <2>1. CASE LpReturn(LpNone)
    BY <1>1, <2>1, ReturnCore DEF LpCore, LpPhase, LpCalling
  <2>2. CASE /\ lpCall' = [lpCall EXCEPT !.try = @ + 1, !.xmit = xmit, !.at = IF xmit THEN "send" ELSE "recv"]
             /\ UNCHANGED <<lpV2, lpIntf, lpHist>>
    <3>1. lpCall' \in LpCalls /\ lpCall'.at \in {"send", "recv"} /\ lpCall'.cmd = lpCall.cmd
      <4> DEFINE next == IF xmit THEN "send" ELSE "recv"
                 tried == [lpCall EXCEPT !.try = lpCall.try + 1]
                 timed == [tried EXCEPT !.xmit = xmit]
      <4>1. tried \in LpCalls /\ tried.cmd = lpCall.cmd
        BY <1>0 DEF LpCalls
      <4>2. timed \in LpCalls /\ timed.cmd = tried.cmd
        <5> HIDE DEF tried
        <5> QED
          BY <4>1 DEF LpCalls
      <4>3. lpCall' = [timed EXCEPT !.at = next]
        BY <2>2
      <4> HIDE DEF timed
      <4> QED
        BY <4>1, <4>2, <4>3 DEF LpCalls
    <3> QED
      BY <1>1, <2>2, <3>1 DEF LpCore, LpPhase, LpCalling, LpAgreed, LpAuthentic, LpActive, LpAlgs, LpSentState
  <2> QED
    BY <1>2, <2>1, <2>2
<1> QED
  BY <1>0, <1>1, <1>3, <1>4, CoreIsInv DEF LpHandshakeAnswer

LEMMA ProgramInv == ASSUME LpInv, LpProgram PROVE LpInv'
<1> USE DEF LpInv
<1>0. lpCall \in LpCalls /\ lpV2 \in LpV2s /\ lpIntf \in LpFlags /\ lpNet \in LpNets(lpBmc.knows) /\ lpCurr \in Int
  BY DEF LpTypes
<1>1. lpCall.at = "idle" /\ UNCHANGED <<lpV2, lpList, lpCurr, lpNet, lpBmc, lpGot>> /\ LpActive
  BY DEF LpProgram, LpCore, LpPhase
<1>2. CASE LpCloseSocket
  BY <1>0, <1>1, <1>2, CloseCall, DeadCore, CoreIsInv DEF LpDead, LpActive, LpHandshakeAnswer
<1>3. CASE \E c \in LpOthers : LpBegin(c) /\ lpIntf' \in LpFlags
  <2>1. lpCall' \in LpCalls /\ lpCall'.at = "send" /\ lpCall'.cmd \in LpOthers
    BY <1>0, <1>3, BeginCall DEF LpCommands
  <2>2. LpCore'
    BY <1>1, <1>3, <2>1 DEF LpCore, LpPhase, LpCalling, LpAgreed, LpAuthentic, LpActive, LpAuthcap, LpHandshake,
       LpOthers, LpUser
  <2> QED
    BY <1>0, <1>1, <2>2, CoreIsInv DEF LpHandshakeAnswer
<1>4. lpIntf' = [lpIntf EXCEPT !.bridge = FALSE] => lpIntf' \in LpFlags
  BY <1>0 DEF LpFlags
<1> QED
  BY <1>0, <1>2, <1>3, <1>4 DEF LpProgram, ipmi_lanplus_close, LpOthers

(* A BMC answers with the key it has.                                      *)
LEMMA AnswersKeyed ==
  ASSUME lpBmc.knows \in BOOLEAN, NEW q \in LpRequests, NEW ok \in BOOLEAN, NEW a \in LpBmcAnswers(q, ok)
  PROVE  a \in Seq(LpResponses(lpBmc.knows))
<1>1. CASE q.cmd = "open"
  <2>1. PICK s \in Int : a = <<[kind |-> "open_rsp", ok |-> ok, algs |-> lanplus_get_requested_ciphers(s)]>>
    BY <1>1 DEF LpBmcAnswers, LpRequests
  <2>2. [kind |-> "open_rsp", ok |-> ok, algs |-> lanplus_get_requested_ciphers(s)] \in LpResponses(lpBmc.knows)
    BY DEF LpResponses, LpOpenRsps
  <2> QED
    BY <2>1, <2>2
<1>2. CASE q.cmd \in {"rakp1", "rakp3"}
  <2>1. LpReply(q.cmd) \in {"rakp2", "rakp4"}
    BY <1>2 DEF LpReply
  <2>2. [kind |-> LpReply(q.cmd), ok |-> ok, keyed |-> lpBmc.knows] \in LpResponses(lpBmc.knows)
    BY <2>1 DEF LpResponses
  <2>3. a = << >> \/ a = <<[kind |-> LpReply(q.cmd), ok |-> ok, keyed |-> lpBmc.knows]>>
    BY <1>2 DEF LpBmcAnswers
  <2>4. << >> \in Seq(LpResponses(lpBmc.knows))
        /\ <<[kind |-> LpReply(q.cmd), ok |-> ok, keyed |-> lpBmc.knows]>> \in Seq(LpResponses(lpBmc.knows))
    BY <2>2
  <2> QED
    BY <1>2, <2>3, <2>4
<1>3. \A c \in LpCodes \cup {"sendmsg"} : LpAnswer(q, c, ok) \in LpResponses(lpBmc.knows)
  BY DEF LpAnswer, LpResponses, LpRequests
<1>4. CASE q.cmd = "authcap"
  <2>1. a = <<LpAnswer(q, "authcap", ok)>>
    BY <1>4 DEF LpBmcAnswers
  <2>2. LpAnswer(q, "authcap", ok) \in LpResponses(lpBmc.knows)
    BY <1>3 DEF LpCodes
  <2> QED
    BY <2>1, <2>2
<1>5. CASE q.cmd \notin {"open", "rakp1", "rakp3", "authcap"}
  <2>1. /\ <<LpAnswer(q, "sendmsg", ok)>> \in Seq(LpResponses(lpBmc.knows))
        /\ <<LpAnswer(q, q.cmd, ok)>> \in Seq(LpResponses(lpBmc.knows))
        /\ << >> \in Seq(LpResponses(lpBmc.knows))
    BY <1>3 DEF LpRequests
  <2>2. \/ a = << >>
        \/ a = (IF q.bridged THEN <<LpAnswer(q, "sendmsg", ok)>> ELSE <<>>) \o
               (IF q.bridged /\ ~ok THEN <<>> ELSE <<LpAnswer(q, q.cmd, ok)>>)
    BY <1>5 DEF LpBmcAnswers
  <2>3. \A x, y \in Seq(LpResponses(lpBmc.knows)) : x \o y \in Seq(LpResponses(lpBmc.knows))
    OBVIOUS
  <2> QED
    BY <2>1, <2>2, <2>3
<1> QED
  BY <1>1, <1>2, <1>4, <1>5

LEMMA BmcInv == ASSUME LpInv, LpBmcStep PROVE LpInv'
<1> DEFINE q == Head(lpNet.req)
<1> USE DEF LpInv
<1>0. lpNet \in LpNets(lpBmc.knows) /\ lpBmc \in [state : {"none", "active"}, knows : BOOLEAN]
  BY DEF LpTypes
<1>1. lpNet.req # <<>> /\ UNCHANGED <<lpCall, lpV2, lpIntf, lpList, lpCurr, lpGot>> /\ lpCall.at # "new"
  BY DEF LpBmcStep, LpCore, LpPhase
<1>2. q \in LpRequests /\ Tail(lpNet.req) \in Seq(LpRequests)
  BY <1>0, <1>1 DEF LpNets
<1>3. PICK ok \in BOOLEAN : \E a \in LpBmcAnswers(q, ok) :
        /\ lpNet' = [lpNet EXCEPT !.req = Tail(@), !.rsp = @ \o a]
        /\ \E s \in {"none", "active", lpBmc.state} : lpBmc' = [lpBmc EXCEPT !.state = s]
  BY DEF LpBmcStep
<1>4. PICK a \in LpBmcAnswers(q, ok) : lpNet' = [lpNet EXCEPT !.req = Tail(@), !.rsp = @ \o a]
  BY <1>3
<1>5. a \in Seq(LpResponses(lpBmc.knows))
  BY <1>0, <1>2, AnswersKeyed
<1>6. lpNet.rsp \o a \in Seq(LpResponses(lpBmc.knows))
  BY <1>0, <1>5 DEF LpNets
<1>7. lpNet' \in LpNets(lpBmc.knows)
  BY <1>0, <1>2, <1>4, <1>6 DEF LpNets
<1>8. lpBmc' \in [state : {"none", "active"}, knows : BOOLEAN] /\ lpBmc'.knows = lpBmc.knows
  BY <1>0, <1>3
<1>9. LpCore'
  BY <1>1, <1>8 DEF LpCore, LpPhase, LpCalling, LpAgreed, LpAuthentic, LpActive, LpAlgs, LpSentState
<1> QED
  BY <1>1, <1>7, <1>8, <1>9 DEF LpTypes, LpHandshakeAnswer

LEMMA NetworkInv == ASSUME LpInv, LpNetwork PROVE LpInv'
<1> USE DEF LpInv
<1>0. lpNet \in LpNets(lpBmc.knows) /\ lpCurr \in Int
  BY DEF LpTypes
<1>1. UNCHANGED <<lpCall, lpV2, lpIntf, lpList, lpCurr, lpBmc, lpGot>> /\ lpCall.at # "new"
  BY DEF LpNetwork, LpCore, LpPhase
<1>2. lpNet' \in LpNets(lpBmc.knows)
  <2>1. lpNet.req \in Seq(LpRequests) /\ lpNet.rsp \in Seq(LpResponses(lpBmc.knows)) /\ lpNet.faults + 1 \in Nat
    BY <1>0 DEF LpNets
  <2>2. lpNet.req # <<>> => Tail(lpNet.req) \in Seq(LpRequests)
    BY <2>1
  <2>3. lpNet.rsp # <<>> => /\ Tail(lpNet.rsp) \in Seq(LpResponses(lpBmc.knows))
                           /\ <<Head(lpNet.rsp)>> \o lpNet.rsp \in Seq(LpResponses(lpBmc.knows))
    <3>1. lpNet.rsp # <<>> => Tail(lpNet.rsp) \in Seq(LpResponses(lpBmc.knows))
                             /\ Head(lpNet.rsp) \in LpResponses(lpBmc.knows)
      <4>1. ASSUME NEW S, NEW x \in Seq(S), x # <<>> PROVE Tail(x) \in Seq(S) /\ Head(x) \in S
        BY <4>1
      <4> QED
        BY <2>1, <4>1
    <3>2. \A x \in LpResponses(lpBmc.knows), y \in Seq(LpResponses(lpBmc.knows)) :
            <<x>> \o y \in Seq(LpResponses(lpBmc.knows))
      OBVIOUS
    <3> QED
      BY <2>1, <3>1, <3>2
  <2> QED
    BY <1>0, <2>1, <2>2, <2>3 DEF LpNetwork, LpNets
<1>3. LpCore'
  BY <1>1 DEF LpCore, LpPhase, LpCalling, LpAgreed, LpAuthentic, LpActive, LpAlgs, LpSentState
<1> QED
  BY <1>0, <1>1, <1>2, <1>3, CoreIsInv DEF LpHandshakeAnswer

LEMMA RecvErrorInv == ASSUME LpInv, LpRecvError PROVE LpInv'
<1> USE DEF LpInv
<1>0. lpCall \in LpCalls /\ lpV2 \in LpV2s /\ lpIntf \in LpFlags /\ lpNet \in LpNets(lpBmc.knows) /\ lpCurr \in Int
  BY DEF LpTypes
<1>1. lpCall.at = "recv" /\ lpNet' = [lpNet EXCEPT !.faults = @ + 1] /\ UNCHANGED <<lpList, lpCurr, lpBmc>>
  BY DEF LpRecvError
<1>2. lpNet' \in LpNets(lpBmc.knows)
  BY <1>0, <1>1 DEF LpNets
<1>3. CASE UNCHANGED <<lpCall, lpV2, lpIntf, lpGot>>
  <2>1. LpCore'
    BY <1>1, <1>3 DEF LpCore, LpPhase, LpCalling, LpAgreed, LpAuthentic, LpActive, LpAlgs, LpSentState
  <2> QED
    BY <1>0, <1>1, <1>2, <1>3, <2>1, CoreIsInv DEF LpHandshakeAnswer
<1>4. CASE LpAt("aborted") /\ UNCHANGED <<lpV2, lpIntf, lpGot>>
  <2>1. lpCall' \in LpCalls /\ lpCall'.at = "aborted"
    BY <1>0, <1>4, MoveCall DEF LpDead
  <2>2. LpCore'
    BY <1>0, <1>1, <1>4, <2>1, DeadCore DEF LpDead, LpActive
  <2> QED
    BY <1>0, <1>1, <1>2, <1>4, <2>2, CoreIsInv DEF LpHandshakeAnswer
<1>5. CASE lpCall.cmd \in LpUser \cup {"close"} /\ LpTake([kind |-> "rest"])
  <2>1. lpGot'.kind = "rest" /\ lpGot'.cmd = lpCall.cmd
    BY <1>5 DEF LpTake
  <2>2. LpReturn([kind |-> "rest"])
    BY <1>5 DEF LpTake
  <2>3. lpCall.cmd \notin LpAuthcap \cup LpHandshake \cup {"privlvl"}
    BY <1>5 DEF LpUser, LpAuthcap, LpHandshake
  <2>4. LpReturn(LpNone)
    BY <1>5, <2>2, <2>3 DEF LpReturn, LpHandshake
  <2>5. LpCore'
    BY <1>1, <2>3, <2>4, ReturnCore
  <2> QED
    BY <1>0, <1>1, <1>2, <1>5, <2>1, <2>5, CoreIsInv DEF LpHandshakeAnswer
<1> QED
  BY <1>3, <1>4, <1>5 DEF LpRecvError

LEMMA StepInv == LpInv /\ [LpNext]_lpVars => LpInv'
<1>1. ASSUME LpInv, LpNext PROVE LpInv'
  BY <1>1, OpenInv, TransmitInv, PollInv, RecvErrorInv, NoAnswerInv, ProgramInv, BmcInv, NetworkInv DEF LpNext, LpProgramStep
<1>2. ASSUME LpInv, UNCHANGED lpVars PROVE LpInv'
  BY <1>2 DEF lpVars, LpInv, LpTypes, LpCore, LpPhase, LpCalling, LpAgreed, LpAuthentic, LpActive, LpAlgs,
     LpSentState, LpHandshakeAnswer
<1> QED
  BY <1>1, <1>2

(* A session becomes active only with a BMC that knows the user's key,     *)
(* unless the user asked for suite 0: ipmi_lanplus_open_session ends when  *)
(* the BMC changed an algorithm, so that the codes of RAKP 4 are compared  *)
(* for every other suite, however packets are lost, repeated or late.      *)
THEOREM OnlyAuthentic == LpSpec => []LpAuthentic
<1>1. LpInv => LpAuthentic
  BY DEF LpInv, LpCore
<1> QED
  BY <1>1, InitInv, StepInv, PTL DEF LpSpec

(* What ipmi_lanplus_send_payload returns for a payload of the handshake   *)
(* is the payload that answers it, and for a command the answer to some    *)
(* command: the first answer to Get Channel Auth Cap. empties the list.    *)
THEOREM HandshakeAnswered == LpSpec => []LpHandshakeAnswer
<1>1. LpInv => LpHandshakeAnswer
  BY DEF LpInv
<1> QED
  BY <1>1, InitInv, StepInv, PTL DEF LpSpec
-----------------------------------------------------------------------------
(* Over the driver: before a select fails and before a cold reset there is *)
(* no request under way and no message to read except for the request a    *)
(* call waits for; after a cold reset no call waits.                       *)
OiTypes == /\ oiFd \in [req : Seq(Nat), msg : Seq(Nat)] /\ oiCall \in Nat
           /\ oiIntf \in [opened : BOOLEAN, noanswer : BOOLEAN]
OiQuiet ==
  /\ oiIntf.noanswer => oiAt # "wait"
  /\ ~oiSelect /\ ~oiIntf.noanswer =>
       \/ oiAt # "wait" /\ oiFd.req = <<>> /\ oiFd.msg = <<>>
       \/ oiAt = "wait" /\ oiFd.req = <<oiCall>> /\ oiFd.msg = <<>>
       \/ oiAt = "wait" /\ oiFd.req = <<>> /\ oiFd.msg = <<oiCall>>
OiInv == OiTypes /\ OiQuiet /\ OiRightAnswer

(* The answers in the driver keep their types.                             *)
LEMMA OiTypeStep == ASSUME OiTypes, OiNext PROVE OiTypes'
<1> USE DEF OiTypes
<1>1. CASE ipmi_main
  BY <1>1 DEF ipmi_main
<1>0. <<oiCall + 1>> \in Seq(Nat) /\ <<>> \in Seq(Nat) /\ oiCall + 1 \in Nat
  OBVIOUS
<1>a. ASSUME NEW b \in BOOLEAN, ipmi_openipmi_open(b), oiCall' = oiCall + 1 PROVE OiTypes'
  <2>1. oiIntf' \in [opened : BOOLEAN, noanswer : BOOLEAN]
    BY <1>a, Zenon DEF ipmi_openipmi_open
  <2>2. oiFd' = [req |-> <<oiCall + 1>>, msg |-> <<>>]
    BY <1>a DEF ipmi_openipmi_open, OiFresh
  <2> QED
    BY <1>0, <1>a, <2>1, <2>2
<1>2. CASE ipmi_openipmi_send_cmd
  <2>1. CASE UNCHANGED <<oiIntf, oiFd, oiCall>>
    BY <2>1
  <2>2. CASE oiCall' = oiCall + 1 /\ ipmi_openipmi_open(oiIntf.noanswer)
    BY <1>a, <2>2
  <2>3. CASE oiCall' = oiCall + 1 /\ oiFd' = [oiFd EXCEPT !.req = Append(@, oiCall + 1)] /\ UNCHANGED oiIntf
    <3>1. Append(oiFd.req, oiCall + 1) \in Seq(Nat)
      BY <1>0
    <3> QED
      BY <1>0, <2>3, <3>1
  <2> QED
    BY <1>2, <2>1, <2>2, <2>3 DEF ipmi_openipmi_send_cmd
<1>3. CASE ipmi_mc_reset
  BY <1>3, <1>a DEF ipmi_mc_reset
<1>4. CASE OiReceive
  <2>1. Tail(oiFd.msg) \in Seq(Nat)
    BY <1>4 DEF OiReceive
  <2> QED
    BY <1>4, <2>1 DEF OiReceive
<1>5. CASE OiSelectFails
  BY <1>5 DEF OiSelectFails
<1>6. CASE OiClose
  <2>1. oiIntf' \in [opened : BOOLEAN, noanswer : BOOLEAN]
    BY <1>6 DEF OiClose
  <2> QED
    BY <1>0, <1>6, <2>1 DEF OiClose, OiFresh
<1>7. CASE OiDriver
  <2>1. Head(oiFd.req) \in Nat /\ Tail(oiFd.req) \in Seq(Nat)
    BY <1>7 DEF OiDriver
  <2>2. Append(oiFd.msg, Head(oiFd.req)) \in Seq(Nat)
    BY <2>1
  <2> QED
    BY <1>7, <2>1, <2>2 DEF OiDriver
<1> QED
  BY <1>1, <1>2, <1>3, <1>4, <1>5, <1>6, <1>7 DEF OiNext

(* Every step of the driver and of the program keeps requests and messages *)
(* in step.                                                                *)
LEMMA OiStepInv == OiInv /\ [OiNext]_oiVars => OiInv'
<1>1. ASSUME OiInv, OiNext PROVE OiQuiet' /\ OiRightAnswer'
  <2> USE <1>1 DEF OiInv, OiTypes, OiQuiet, OiRightAnswer
  <2>1. CASE ipmi_main
    BY <2>1 DEF ipmi_main
  <2>2. CASE ipmi_openipmi_send_cmd
    <3>1. CASE UNCHANGED <<oiAt, oiIntf, oiFd, oiOld, oiCall>>
      BY <2>2, <3>1 DEF ipmi_openipmi_send_cmd
    <3>2. CASE oiCall' = oiCall + 1
      <4>1. oiIntf'.noanswer = oiIntf.noanswer
        BY <2>2, <3>2 DEF ipmi_openipmi_send_cmd, ipmi_openipmi_open
      <4>2. oiFd.req = <<>> /\ oiFd.msg = <<>> => oiFd'.req = <<oiCall + 1>> /\ oiFd'.msg = <<>>
        BY <2>2, <3>2 DEF ipmi_openipmi_send_cmd, ipmi_openipmi_open, OiFresh
      <4>3. oiAt' = IF oiIntf.noanswer THEN "run" ELSE "wait"
        BY <2>2, <3>2 DEF ipmi_openipmi_send_cmd, OiNoanswer
      <4> QED
        BY <2>2, <3>2, <4>1, <4>2, <4>3 DEF ipmi_openipmi_send_cmd
    <3> QED
      BY <2>2, <3>1, <3>2 DEF ipmi_openipmi_send_cmd
  <2>3. CASE ipmi_mc_reset
    BY <2>3 DEF ipmi_mc_reset, ipmi_openipmi_open
  <2>4. CASE OiReceive
    <3>1. oiAt = "wait" /\ ~oiIntf.noanswer /\ oiFd.msg # <<>> /\ oiAt' = "run"
      BY <2>4 DEF OiReceive
    <3>2. ~oiSelect => oiFd.req = <<>> /\ oiFd.msg = <<oiCall>>
      BY <3>1
    <3>3. oiFd'.req = oiFd.req /\ oiFd'.msg = Tail(oiFd.msg) /\ oiGot'.of = Head(oiFd.msg) /\ oiGot'.by = oiCall
      BY <2>4 DEF OiReceive
    <3> QED
      BY <2>4, <3>1, <3>2, <3>3, SMTT(30) DEF OiReceive
  <2>5. CASE OiSelectFails
    BY <2>5 DEF OiSelectFails
  <2>6. CASE OiClose
    BY <2>6 DEF OiClose, OiFresh
  <2>7. CASE OiDriver
    <3>1. oiFd'.req = Tail(oiFd.req) /\ oiFd'.msg = Append(oiFd.msg, Head(oiFd.req)) /\ oiFd.req # <<>>
      BY <2>7 DEF OiDriver
    <3>2. oiFd.req = <<oiCall>> /\ oiFd.msg = <<>> => oiFd'.req = <<>> /\ oiFd'.msg = <<oiCall>>
      BY <3>1
    <3> QED
      BY <2>7, <3>1, <3>2 DEF OiDriver
  <2> QED
    BY <2>1, <2>2, <2>3, <2>4, <2>5, <2>6, <2>7 DEF OiNext
<1>2. ASSUME OiInv, UNCHANGED oiVars PROVE OiInv'
  BY <1>2 DEF oiVars, OiInv, OiTypes, OiQuiet, OiRightAnswer
<1> QED
  BY <1>1, <1>2, OiTypeStep DEF OiInv

LEMMA OiInitInv == OiInit => OiInv
<1> SUFFICES ASSUME OiInit PROVE OiInv
  OBVIOUS
<1>1. oiIntf \in [opened : BOOLEAN, noanswer : BOOLEAN]
  BY Zenon DEF OiInit
<1>2. oiFd \in [req : Seq(Nat), msg : Seq(Nat)] /\ oiFd.req = <<>> /\ oiFd.msg = <<>>
  BY DEF OiInit, OiFresh
<1> QED
  BY <1>1, <1>2 DEF OiInit, OiInv, OiTypes, OiQuiet, OiRightAnswer
-----------------------------------------------------------------------------
(* Close Session over lanplus: nothing is activated before the handshake   *)
(* ends, and Close Session is on record while its answer is waited for.    *)
LpEnd ==
  /\ lpCall.at = "new" \/ LpCalling(LpAuthcap \cup LpHandshake) => "activated" \notin lpHist
  /\ LpCalling({"close"}) => "closing" \in lpHist
  /\ LpClosesSession

(* The caller that gets an answer, or none, ends the session if it ends.   *)
LEMMA ReturnEnd ==
  ASSUME LpInv, LpEnd, lpCall.at \in {"send", "recv"}, NEW r, LpReturn(r)
  PROVE  LpEnd'
<1>0. lpCall \in LpCalls /\ lpIntf \in LpFlags
  BY DEF LpInv, LpCore
<1> USE DEF LpEnd, LpCalling, LpClosesSession
<1>1. ASSUME LpCloseSocket, UNCHANGED lpHist, lpCall.cmd \in LpAuthcap \cup LpHandshake \cup {"close"} PROVE LpEnd'
  BY <1>0, <1>1, CloseCall
<1>2. ASSUME NEW c \in LpAuthcap \cup LpHandshake, LpBegin(c), UNCHANGED lpHist,
             lpCall.cmd \in LpAuthcap \cup LpHandshake
      PROVE  LpEnd'
  BY <1>0, <1>2, BeginCall DEF LpCommands, LpAuthcap, LpHandshake
<1>3. ASSUME NEW a \in {"idle", "crashed"}, LpAt(a) PROVE LpEnd'
  BY <1>0, <1>3, MoveCall DEF LpDead
<1>4. CASE lpCall.cmd \in LpAuthcap /\ LpGetAuthCapabilities(r)
  BY <1>1, <1>2, <1>4 DEF LpGetAuthCapabilities, LpFail, LpAuthcap, LpHandshake
<1>5. CASE lpCall.cmd = "open" /\ ipmi_lanplus_open_session(r)
  BY <1>1, <1>2, <1>3, <1>5 DEF ipmi_lanplus_open_session, LpFail, LpHandshake
<1>6. CASE lpCall.cmd = "rakp1" /\ ipmi_lanplus_rakp1(r)
  BY <1>1, <1>2, <1>6 DEF ipmi_lanplus_rakp1, LpFail, LpHandshake
<1>7. CASE lpCall.cmd = "rakp3" /\ ipmi_lanplus_rakp3(r)
  <2>1. CASE LpFail
    BY <1>1, <1>7, <2>1 DEF LpFail, LpHandshake
  <2>2. CASE LpAt("idle")
    BY <1>3, <2>2
  <2>3. CASE LpBegin("privlvl")
    BY <1>0, <2>3, BeginCall DEF LpCommands, LpOthers, LpAuthcap, LpHandshake
  <2> QED
    BY <1>7, <2>1, <2>2, <2>3 DEF ipmi_lanplus_rakp3
<1>8. CASE lpCall.cmd = "privlvl" /\ LpSetPrivlvl(r)
  <2>1. CASE LpAt("idle")
    BY <1>3, <2>1
  <2>2. CASE LpCloseSocket /\ lpHist' = lpHist \cup {"refused"}
    BY <1>0, <2>2, CloseCall
  <2> QED
    BY <1>8, <2>1, <2>2 DEF LpSetPrivlvl
<1>9. CASE lpCall.cmd \in LpUser /\ LpAt("idle")
  BY <1>3, <1>9
<1>10. CASE lpCall.cmd = "close" /\ LpFail
  BY <1>1, <1>10 DEF LpFail
<1> QED
  BY <1>4, <1>5, <1>6, <1>7, <1>8, <1>9, <1>10 DEF LpReturn

LEMMA LpEndStep == ASSUME LpInv, LpEnd, LpNext PROVE LpEnd'
<1>0. lpCall \in LpCalls /\ lpIntf \in LpFlags
  BY DEF LpInv, LpCore
<1> USE DEF LpEnd, LpCalling, LpClosesSession
<1>1. CASE ipmi_lanplus_open
  <2>1. CASE LpAt("closed")
    <3>1. lpCall'.at = "closed"
      BY <1>0, <2>1, MoveCall DEF LpDead
    <3> QED
      BY <1>1, <3>1 DEF ipmi_lanplus_open
  <2>2. CASE LpBegin("authcap1")
    <3>1. lpCall'.at = "send" /\ lpCall'.cmd = "authcap1"
      BY <1>0, <2>2, BeginCall DEF LpCommands, LpAuthcap
    <3> QED
      BY <1>1, <3>1 DEF ipmi_lanplus_open
  <2> QED
    BY <1>1, <2>1, <2>2 DEF ipmi_lanplus_open
<1>2. CASE LpTransmit
  <2>1. CASE LpAt("aborted")
    BY <1>0, <2>1, MoveCall DEF LpDead
  <2>2. CASE LpReturn(LpNone)
    BY <1>2, <2>2, ReturnEnd DEF LpTransmit
  <2>3. CASE LpAt(IF lpCall.cmd = "reset" THEN "idle" ELSE "recv") /\ UNCHANGED lpHist
    <3>1. lpCall'.at \in {"idle", "recv"} /\ lpCall'.cmd = lpCall.cmd
      BY <1>0, <2>3, MoveCall
    <3> QED
      BY <1>2, <2>3, <3>1 DEF LpTransmit
  <2> QED
    BY <1>2, <2>1, <2>2, <2>3 DEF LpTransmit
<1>3. CASE LpPollRecv
  <2>1. CASE LpAt("aborted")
    BY <1>0, <2>1, MoveCall DEF LpDead
  <2>2. CASE UNCHANGED <<lpCall, lpIntf, lpHist>>
    BY <2>2
  <2>3. CASE \E r : LpReturn(r)
    BY <1>3, <2>3, ReturnEnd DEF LpPollRecv
  <2> QED
    BY <1>3, <2>1, <2>2, <2>3 DEF LpPollRecv, LpTake
<1>4. CASE LpNoAnswer
  <2>1. CASE LpReturn(LpNone)
    BY <1>4, <2>1, ReturnEnd DEF LpNoAnswer
  <2>2. CASE UNCHANGED <<lpIntf, lpHist>> /\ lpCall'.at \in {"send", "recv"} /\ lpCall'.cmd = lpCall.cmd
    BY <1>4, <2>2 DEF LpNoAnswer
  <2> QED
    BY <1>0, <1>4, <2>1, <2>2 DEF LpNoAnswer, LpCalls
<1>5. CASE LpProgram
  <2>1. CASE LpCloseSocket /\ lpIntf.abort
    <3>1. lpCall'.at = "closed" /\ lpIntf'.abort
      BY <1>0, <2>1, CloseCall DEF LpCloseSocket, LpFlags
    <3> QED
      BY <3>1
  <2>2. ASSUME NEW c \in LpUser, LpBegin(c) PROVE LpEnd'
    BY <1>0, <2>2, BeginCall DEF LpCommands, LpOthers, LpUser, LpAuthcap, LpHandshake
  <2>3. CASE LpBegin("close") /\ "closing" \in lpHist'
    BY <1>0, <2>3, BeginCall DEF LpCommands, LpOthers, LpAuthcap, LpHandshake
  <2> QED
    BY <1>5, <2>1, <2>2, <2>3 DEF LpProgram, ipmi_lanplus_close
<1>6. CASE LpBmcStep
  BY <1>6 DEF LpBmcStep
<1>7. CASE LpNetwork
  BY <1>7 DEF LpNetwork
<1>8. CASE LpRecvError
  <2>1. CASE LpAt("aborted")
    BY <1>0, <2>1, MoveCall DEF LpDead
  <2>2. CASE UNCHANGED <<lpCall, lpIntf, lpHist>>
    BY <2>2
  <2>3. CASE \E r : LpReturn(r)
    BY <1>8, <2>3, ReturnEnd DEF LpRecvError
  <2> QED
    BY <1>8, <2>1, <2>2, <2>3 DEF LpRecvError, LpTake
<1> QED
  BY <1>1, <1>2, <1>3, <1>4, <1>5, <1>6, <1>7, <1>8 DEF LpNext, LpProgramStep

LEMMA LpEndInit == LpInit => LpEnd
BY DEF LpInit, LpEnd, LpCalling, LpClosesSession
-----------------------------------------------------------------------------
(* The console that ends has put the terminal back and deactivated the     *)
(* payload, or met the error of select.                                    *)
SolEnd == (solAt = "off" => solHist = {}) /\ SolLeavesClean

LEMMA SolEndStep == SolEnd /\ [SolNextStep]_solVars => SolEnd'
<1> SUFFICES ASSUME SolEnd, [SolNextStep]_solVars PROVE SolEnd'
  OBVIOUS
<1> USE DEF SolEnd, SolLeavesClean
<1>a. ASSUME NEW h, SolLeave(h), h \cap {"deactivated", "closed"} # {} PROVE SolEnd'
  BY <1>a DEF SolLeave
<1>b. ASSUME NEW h, SolDone(h) PROVE SolEnd'
  BY <1>a, <1>b DEF SolDone
<1>c. ASSUME NEW h, SolAnswered(h) PROVE SolEnd'
  BY <1>b, <1>c DEF SolAnswered, SolSendSol
<1>1. CASE ipmi_sol_activate
  BY <1>1 DEF ipmi_sol_activate
<1>2. CASE processSolUserInput
  BY <1>a, <1>2 DEF processSolUserInput, SolSendSol
<1>3. CASE SolStdinEnds
  BY <1>a, <1>3 DEF SolStdinEnds
<1>4. CASE SolConsole
  BY <1>4 DEF SolConsole
<1>5. CASE SolBroken
  BY <1>a, <1>5 DEF SolBroken
<1>6. CASE ipmi_sol_keepalive_using_sol
  BY <1>6 DEF ipmi_sol_keepalive_using_sol, SolSendSol
<1>7. CASE SolTransmit
  BY <1>7 DEF SolTransmit
<1>8. CASE SolReceive
  <2>1. CASE \E h : SolAnswered(h)
    BY <1>c, <2>1
  <2>2. CASE \E k, b, c, o : SolSendSol(k, b, c, o)
    BY <2>2 DEF SolSendSol
  <2>3. CASE UNCHANGED <<solAt, solRaw, solHist>>
    BY <2>3
  <2> QED
    BY <1>8, <2>1, <2>2, <2>3 DEF SolReceive
<1>9. CASE SolTimeout
  <2>1. CASE solAt' = "send"
    BY <2>1
  <2>2. CASE SolUnanswered
    BY <1>a, <1>c, <2>2 DEF SolUnanswered, SolSendSol
  <2> QED
    BY <1>9, <2>1, <2>2 DEF SolTimeout
<1>10. CASE SolBmcTakes
  BY <1>10 DEF SolBmcTakes
<1>11. CASE SolBmcPrints
  BY <1>11 DEF SolBmcPrints
<1>12. CASE SolNetwork
  BY <1>12 DEF SolNetwork
<1>13. CASE UNCHANGED solVars
  BY <1>13 DEF solVars
<1> QED
  BY <1>1, <1>2, <1>3, <1>4, <1>5, <1>6, <1>7, <1>8, <1>9, <1>10, <1>11, <1>12, <1>13
  DEF SolNextStep, SolSendStep

LEMMA SolEndInit == SolInit => SolEnd
BY DEF SolInit, SolEnd, SolLeavesClean
-----------------------------------------------------------------------------
(* The lan interface: types of its state and of its packets.               *)
LanOpening == {"ping", "authcap1", "authcap2", "challenge", "activate"}
LanCmds == LanOpening \cup {"privlvl", "user", "reset", "keepalive", "close"}
LanNumber == 0..(LanInSeqs - 1)
LanFlags == [opened : BOOLEAN, abort : BOOLEAN, bridge : BOOLEAN, behind : BOOLEAN]
LanSessions == [active : BOOLEAN, auth : BOOLEAN, in_seq : LanNumber, per_msg : BOOLEAN]
LanRequests == [cmd : {"ping"}, call : Nat] \cup
               [cmd : LanCmds \ {"ping"}, call : Nat, seq : Nat, bridged : BOOLEAN, in_seq : LanNumber, signed : BOOLEAN]
LanReplies == [kind : {"pong"}, call : Nat] \cup
              [kind : {"ipmi"}, cmd : LanCmds \cup {"sendmsg"}, call : Nat, seq : Nat, ok : BOOLEAN,
               signed : BOOLEAN, in_seq : LanNumber]
LanCallTypes ==
  /\ lanAt \in {"new", "send", "recv", "idle", "closed", "failing"} /\ lanCmd \in LanCmds
  /\ lanCall \in Nat /\ lanTry \in Nat /\ lanSess \in LanSessions /\ lanIntf \in LanFlags
LanTypes == LanCallTypes /\ lanCurr \in Nat /\ lanFaults \in 0..LanMaxFaults /\ lanReq \in Seq(LanRequests) /\ lanRsp \in Seq(LanReplies)

(* Until the session is activated there is no sequence number and abort is *)
(* set; Close Session is on record while its answer is waited for.         *)
LanControl ==
  /\ lanAt = "recv" => lanCmd # "reset"
  /\ lanAt \in {"send", "recv"} /\ lanCmd \in LanOpening => lanSess.in_seq = 0 /\ lanIntf.abort
  /\ lanAt = "new" => lanSess.in_seq = 0 /\ lanReq = <<>> /\ lanHist = {}
  /\ lanAt = "send" /\ lanCmd = "ping" => lanReq = <<>>
  /\ lanAt = "recv" /\ lanCmd = "close" => "closing" \in lanHist
  /\ LanClosesSession

(* A session without number has numbered no packet. The number of the next *)
(* packet is one more than that of the last, and one more for each send    *)
(* that failed since: LanAhead counts on the circle 1..LanInSeqs - 1, and  *)
(* LanFew says that the failures do not lead once around it.               *)
LanUnnumbered(p) == p.cmd = "ping" \/ p.in_seq = 0
LanAhead(p, n) == IF n > p THEN n - p ELSE (n + LanInSeqs) - (p + 1)
LanFew == LanMaxFaults + 2 < LanInSeqs
LanNumbered ==
  LanFew =>
    /\ lanSess.in_seq = 0 => \A i \in 1..Len(lanReq) : LanUnnumbered(lanReq[i])
    /\ lanReq # <<>> => LET p == lanReq[Len(lanReq)] IN
         p.cmd # "ping" /\ p.in_seq # 0 =>
           lanSess.in_seq # 0 /\ LanAhead(p.in_seq, lanSess.in_seq) \in 1..(lanFaults + 1)
    /\ LanSeqAdvances
LanInv == LanTypes /\ LanControl /\ LanNumbered

(* LanNextSeq goes once around the circle and never returns to 0.          *)
LEMMA NextNumber ==
  ASSUME NEW n \in LanNumber
  PROVE  /\ LanNextSeq(n) \in LanNumber /\ (n = 0 <=> LanNextSeq(n) = 0)
         /\ n # 0 => LanAhead(n, LanNextSeq(n)) = 1
         /\ \A p \in LanNumber : n # 0 /\ p # 0 /\ LanAhead(p, n) < LanInSeqs - 1 =>
              p # n /\ LanAhead(p, LanNextSeq(n)) = LanAhead(p, n) + 1
<1>1. n + 1 < LanInSeqs => (n + 1) % LanInSeqs = n + 1
  BY LanNumbers DEF LanNumber
<1>2. n + 1 = LanInSeqs => (n + 1) % LanInSeqs = 0
  BY LanNumbers DEF LanNumber
<1> QED
  BY <1>1, <1>2, LanNumbers DEF LanNumber, LanNextSeq, LanAhead

LEMMA MoreFaults ==
  ASSUME LanTypes, lanFaults' \in {lanFaults, lanFaults + 1}
  PROVE  1..(lanFaults + 1) \subseteq 1..(lanFaults' + 1)
<1>1. lanFaults \in Nat
  BY LanNumbers DEF LanTypes
<1>2. ASSUME NEW i \in 1..(lanFaults + 1) PROVE i \in 1..(lanFaults' + 1)
  <2>1. CASE lanFaults' = lanFaults
    BY <1>2, <2>1
  <2>2. CASE lanFaults' = lanFaults + 1
    BY <1>1, <1>2, <2>2
  <2> QED
    BY <2>1, <2>2
<1> QED
  BY <1>2

(* What the ways to go on do to a call over lan.                           *)
LEMMA LanBeginCall ==
  ASSUME LanCallTypes, NEW c \in LanCmds, LanBegin(c)
  PROVE  lanAt' = "send" /\ lanCmd' = c /\ lanCall' = lanCall + 1 /\ lanCall' \in Nat /\ lanTry' \in Nat
BY DEF LanCallTypes, LanBegin

LEMMA LanCloseCall ==
  ASSUME LanCallTypes, NEW b \in BOOLEAN, ipmi_lan_close(b)
  PROVE  /\ lanIntf' \in LanFlags /\ lanCmd' \in LanCmds /\ lanCall' \in Nat /\ lanTry' \in Nat
         /\ b => lanAt' = "closed" /\ lanIntf'.abort
         /\ ~b => lanAt' = "send" /\ lanCmd' = "close"
<1>1. CASE b
  BY <1>1 DEF ipmi_lan_close, LanCallTypes, LanFlags
<1>2. CASE ~b
  <2>1. LanBegin("close") /\ lanIntf' = [lanIntf EXCEPT !.abort = FALSE, !.bridge = FALSE, !.behind = FALSE]
    BY <1>2 DEF ipmi_lan_close
  <2>2. lanIntf' \in LanFlags
    BY <2>1 DEF LanCallTypes, LanFlags
  <2> QED
    BY <1>2, <2>1, <2>2, LanBeginCall DEF LanCmds
<1> QED
  BY <1>1, <1>2

(* The caller that gets an answer, or none, keeps to the order of opening, *)
(* use and close, and gives the session its first number at most once.     *)
LEMMA LanReturnInv ==
  ASSUME LanInv, lanAt = "recv", UNCHANGED <<lanReq, lanCurr>>, lanFaults' \in {lanFaults, lanFaults + 1},
         NEW r, r = LanNone \/ (r.kind = "ipmi" /\ r.ok \in BOOLEAN /\ r.in_seq \in LanNumber),
         ipmi_lan_activate_session(r)
  PROVE  LanCallTypes' /\ LanControl' /\ LanNumbered'
<1> USE DEF LanInv, LanTypes
<1>0. /\ lanIntf.abort \in BOOLEAN /\ lanSess.in_seq \in LanNumber /\ lanCmd \in LanCmds \ {"reset"}
      /\ lanCmd \in LanOpening => lanSess.in_seq = 0 /\ lanIntf.abort
      /\ lanCmd = "close" => "closing" \in lanHist
  BY DEF LanCallTypes, LanFlags, LanSessions, LanControl
<1>1. ASSUME lanSess'.in_seq = lanSess.in_seq PROVE LanNumbered'
  <2>1. 1..(lanFaults + 1) \subseteq 1..(lanFaults' + 1)
    BY MoreFaults
  <2> QED
    BY <1>1, <2>1 DEF LanNumbered, LanUnnumbered, LanSeqAdvances
<1>2. ASSUME lanSess.in_seq = 0 PROVE LanNumbered'
  <2> SUFFICES ASSUME LanFew PROVE LanNumbered'
    BY DEF LanNumbered
  <2>1. \A i \in 1..Len(lanReq) : LanUnnumbered(lanReq[i])
    BY <1>2 DEF LanNumbered
  <2>2. lanReq # <<>> => Len(lanReq) \in 1..Len(lanReq)
    OBVIOUS
  <2> QED
    BY <2>1, <2>2 DEF LanNumbered, LanUnnumbered, LanSeqAdvances
<1>3. ASSUME NEW c \in LanCmds, LanBegin(c), lanSess' \in LanSessions, lanIntf' \in LanFlags,
             c \in LanOpening => c # "ping" /\ lanSess'.in_seq = 0 /\ lanIntf'.abort, c # "reset"
      PROVE  LanCallTypes' /\ LanControl'
  <2>1. lanAt' = "send" /\ lanCmd' = c /\ lanCall' \in Nat /\ lanTry' \in Nat
    BY <1>3, LanBeginCall
  <2>2. LanCallTypes'
    BY <1>3, <2>1 DEF LanCallTypes
  <2> QED
    BY <1>3, <2>1, <2>2 DEF LanControl, LanClosesSession, LanOpening
<1>4. ASSUME ipmi_lan_close(lanIntf.abort), lanSess' \in LanSessions PROVE LanCallTypes' /\ LanControl'
  <2>1. /\ lanIntf' \in LanFlags /\ lanCmd' \in LanCmds /\ lanCall' \in Nat /\ lanTry' \in Nat
        /\ \/ lanAt' = "closed" /\ lanIntf'.abort
           \/ lanAt' = "send" /\ lanCmd' = "close"
    BY <1>0, <1>4, LanCloseCall
  <2>2. LanCallTypes'
    BY <1>4, <2>1 DEF LanCallTypes
  <2> QED
    BY <2>1, <2>2 DEF LanControl, LanClosesSession, LanOpening
<1>5. ASSUME lanAt' = "idle", UNCHANGED <<lanCmd, lanCall, lanTry>>, lanSess' \in LanSessions, lanIntf' \in LanFlags
      PROVE  LanCallTypes' /\ LanControl'
  BY <1>5 DEF LanCallTypes, LanControl, LanClosesSession
<1>6. CASE lanCmd = "ping"
  <2>1. LanBegin("authcap1") /\ UNCHANGED <<lanIntf, lanSess, lanHist>>
    BY <1>6 DEF ipmi_lan_activate_session
  <2> QED
    BY <1>0, <1>1, <1>3, <1>6, <2>1 DEF LanCmds, LanOpening, LanCallTypes
<1>7. CASE lanCmd \in {"authcap1", "authcap2"}
  <2>1. ipmi_get_auth_capabilities_cmd(r)
    BY <1>7 DEF ipmi_lan_activate_session
  <2>2. CASE LanBegin("challenge") /\ UNCHANGED lanIntf
             /\ \E x, p \in BOOLEAN : lanSess' = [lanSess EXCEPT !.auth = x, !.per_msg = p]
    <3>1. lanSess' \in LanSessions /\ lanSess'.in_seq = lanSess.in_seq
      BY <2>2 DEF LanSessions, LanCallTypes
    <3> QED
      BY <1>0, <1>1, <1>3, <1>7, <2>2, <3>1 DEF LanCmds, LanOpening, LanCallTypes
  <2>3. CASE LanBegin("authcap2") /\ UNCHANGED <<lanIntf, lanSess>>
    BY <1>0, <1>1, <1>3, <1>7, <2>3 DEF LanCmds, LanOpening, LanCallTypes
  <2>4. CASE ipmi_lan_close(lanIntf.abort) /\ UNCHANGED lanSess
    BY <1>1, <1>4, <2>4 DEF LanCallTypes
  <2> QED
    BY <2>1, <2>2, <2>3, <2>4 DEF ipmi_get_auth_capabilities_cmd
<1>8. CASE lanCmd = "challenge"
  <2>1. ipmi_get_session_challenge_cmd(r)
    BY <1>8 DEF ipmi_lan_activate_session
  <2>2. CASE LanBegin("activate") /\ lanSess' = [lanSess EXCEPT !.active = TRUE] /\ UNCHANGED lanIntf
    <3>1. lanSess' \in LanSessions /\ lanSess'.in_seq = lanSess.in_seq
      BY <2>2 DEF LanSessions, LanCallTypes
    <3> QED
      BY <1>0, <1>1, <1>3, <1>8, <2>2, <3>1 DEF LanCmds, LanOpening, LanCallTypes
  <2>3. CASE ipmi_lan_close(lanIntf.abort) /\ UNCHANGED lanSess
    BY <1>1, <1>4, <2>3 DEF LanCallTypes
  <2> QED
    BY <2>1, <2>2, <2>3 DEF ipmi_get_session_challenge_cmd
<1>9. CASE lanCmd = "activate"
  <2>0. lanSess.in_seq = 0
    BY <1>0, <1>9 DEF LanOpening
  <2>1. ipmi_activate_session_cmd(r)
    BY <1>9 DEF ipmi_lan_activate_session
  <2>2. CASE ipmi_lan_close(lanIntf.abort) /\ lanSess' \in LanSessions
    BY <1>2, <1>4, <2>0, <2>2
  <2>3. CASE /\ LanOk(r)
             /\ lanSess' = [lanSess EXCEPT !.in_seq = IF r.in_seq = 0 THEN 1 ELSE r.in_seq, !.auth = @ /\ lanSess.per_msg]
             /\ \/ LanBegin("privlvl") /\ lanIntf' = [lanIntf EXCEPT !.abort = FALSE]
                \/ /\ lanAt' = "idle" /\ lanIntf' = [lanIntf EXCEPT !.abort = FALSE, !.bridge = TRUE]
                   /\ UNCHANGED <<lanCmd, lanCall, lanTry>>
    <3>1. 1 \in LanNumber /\ (IF r.in_seq = 0 THEN 1 ELSE r.in_seq) \in LanNumber
      BY <2>3, LanNumbers DEF LanNumber, LanOk, LanNone
    <3>2. (lanSess.auth /\ lanSess.per_msg) \in BOOLEAN
      OBVIOUS
    <3>3. lanSess' \in LanSessions
      BY <2>3, <3>1, <3>2 DEF LanSessions, LanCallTypes
    <3>4. lanIntf' \in LanFlags
      BY <2>3 DEF LanFlags, LanCallTypes
    <3> QED
      BY <1>2, <1>3, <1>5, <2>0, <2>3, <3>3, <3>4 DEF LanCmds, LanOpening
  <2>4. lanSess' = [lanSess EXCEPT !.active = FALSE] => lanSess' \in LanSessions
    BY DEF LanSessions, LanCallTypes
  <2>5. LanOk(r) /\ lanSess' = [lanSess EXCEPT !.in_seq = r.in_seq] => lanSess' \in LanSessions
    BY SMTT(30) DEF LanSessions, LanCallTypes, LanOk, LanNone
  <2>6. UNCHANGED lanSess => lanSess' \in LanSessions
    BY DEF LanCallTypes
  <2> QED
    BY <2>1, <2>2, <2>3, <2>4, <2>5, <2>6 DEF ipmi_activate_session_cmd
<1>10. CASE lanCmd = "privlvl"
  <2>1. ipmi_set_session_privlvl_cmd(r)
    BY <1>10 DEF ipmi_lan_activate_session
  <2>2. lanIntf' = [lanIntf EXCEPT !.bridge = TRUE] => lanIntf' \in LanFlags
    BY DEF LanFlags, LanCallTypes
  <2> QED
    BY <1>1, <1>4, <1>5, <2>1, <2>2 DEF ipmi_set_session_privlvl_cmd, LanCallTypes
<1>11. CASE lanCmd \in {"user", "keepalive"}
  <2>1. LanReport
    BY <1>11 DEF ipmi_lan_activate_session
  <2> QED
    BY <1>1, <1>5, <2>1 DEF LanReport, LanCallTypes
<1>12. CASE lanCmd = "close"
  <2>1. ipmi_close_session_cmd
    BY <1>12 DEF ipmi_lan_activate_session
  <2>2. lanIntf' \in LanFlags
    BY <2>1 DEF ipmi_close_session_cmd, LanFlags, LanCallTypes
  <2>3. LanControl'
    BY <1>0, <1>12, <2>1 DEF ipmi_close_session_cmd, LanControl, LanClosesSession
  <2> QED
    BY <1>1, <2>1, <2>2, <2>3 DEF ipmi_close_session_cmd, LanCallTypes
<1> QED
  BY <1>0, <1>6, <1>7, <1>8, <1>9, <1>10, <1>11, <1>12 DEF LanCmds, LanOpening

LEMMA LanOpenInv == ASSUME LanInv, ipmi_lan_open PROVE LanInv'
<1> USE DEF LanInv, LanTypes
<1>1. CASE lanAt' = "closed" /\ lanIntf' = [lanIntf EXCEPT !.abort = TRUE] /\ UNCHANGED <<lanCmd, lanCall, lanTry>>
  <2>1. lanIntf' \in LanFlags /\ lanIntf'.abort
    BY <1>1 DEF LanCallTypes, LanFlags
  <2> QED
    BY <1>1, <2>1 DEF ipmi_lan_open, LanCallTypes, LanControl, LanClosesSession, LanNumbered, LanUnnumbered, LanSeqAdvances
<1>2. CASE LanBegin("ping") /\ \E b \in BOOLEAN : lanIntf' = [lanIntf EXCEPT !.abort = TRUE, !.opened = TRUE, !.behind = b]
  <2>1. lanIntf' \in LanFlags /\ lanIntf'.abort
    BY <1>2 DEF LanCallTypes, LanFlags
  <2>2. lanAt' = "send" /\ lanCmd' = "ping" /\ lanCall' \in Nat /\ lanTry' \in Nat
    BY <1>2, LanBeginCall DEF LanCmds, LanOpening
  <2> QED
    BY <2>1, <2>2 DEF ipmi_lan_open, LanCallTypes, LanCmds, LanOpening, LanControl, LanClosesSession, LanNumbered,
       LanUnnumbered, LanSeqAdvances
<1> QED
  BY <1>1, <1>2 DEF ipmi_lan_open

(* A packet with the session's number behind the others.                   *)
LEMMA LanAppendNumbered ==
  ASSUME LanInv, UNCHANGED lanFaults, NEW p \in LanRequests, p.cmd # "ping", p.in_seq = lanSess.in_seq,
         lanReq' = Append(lanReq, p), lanSess' = [lanSess EXCEPT !.in_seq = LanNextSeq(@)]
  PROVE  LanNumbered'
<1> USE DEF LanInv, LanTypes
<1> SUFFICES ASSUME LanFew PROVE LanNumbered'
  BY DEF LanNumbered
<1>1. lanSess.in_seq \in LanNumber /\ lanSess'.in_seq = LanNextSeq(lanSess.in_seq)
  BY DEF LanCallTypes, LanSessions
<1>2. /\ Len(lanReq') = Len(lanReq) + 1 /\ lanReq'[Len(lanReq) + 1] = p
      /\ \A i \in 1..Len(lanReq) : lanReq'[i] = lanReq[i]
  OBVIOUS
<1>3. ASSUME lanSess'.in_seq = 0 PROVE \A i \in 1..Len(lanReq') : LanUnnumbered(lanReq'[i])
  <2>1. lanSess.in_seq = 0
    BY <1>1, <1>3, NextNumber
  <2> QED
    BY <1>2, <2>1 DEF LanNumbered, LanUnnumbered
<1>4. p.in_seq # 0 => lanSess'.in_seq # 0 /\ LanAhead(p.in_seq, lanSess'.in_seq) \in 1..(lanFaults' + 1)
  BY <1>1, NextNumber
<1>5. ASSUME NEW i \in 2..Len(lanReq'), lanReq'[i - 1].cmd # "ping", lanReq'[i - 1].in_seq # 0
      PROVE  lanReq'[i].in_seq # 0 /\ lanReq'[i].in_seq # lanReq'[i - 1].in_seq
  <2>1. CASE i \in 2..Len(lanReq)
    BY <1>2, <1>5, <2>1 DEF LanNumbered, LanSeqAdvances
  <2>2. CASE i = Len(lanReq) + 1
    <3>1. lanReq # <<>> /\ lanReq'[i - 1] = lanReq[Len(lanReq)]
      BY <1>2, <1>5, <2>2
    <3>2. lanReq[Len(lanReq)] \in LanRequests
      BY <3>1
    <3>3. lanReq[Len(lanReq)].in_seq \in LanNumber
      BY <1>5, <3>1, <3>2 DEF LanRequests
    <3>4. LanAhead(lanReq[Len(lanReq)].in_seq, lanSess.in_seq) < LanInSeqs - 1 /\ lanSess.in_seq # 0
      BY <1>5, <3>1, LanNumbers DEF LanNumbered, LanFew
    <3>5. lanReq[Len(lanReq)].in_seq # lanSess.in_seq
      BY <1>1, <1>5, <3>1, <3>3, <3>4, NextNumber
    <3> QED
      BY <1>2, <2>2, <3>1, <3>4, <3>5
  <2> QED
    BY <1>2, <2>1, <2>2
<1> QED
  BY <1>2, <1>3, <1>4, <1>5 DEF LanNumbered, LanSeqAdvances

LEMMA LanPingInv == ASSUME LanInv, ipmi_lan_ping PROVE LanInv'
<1> USE DEF LanInv, LanTypes
<1>1. /\ lanReq = <<>> /\ lanCmd = "ping" /\ lanAt = "send"
      /\ UNCHANGED <<lanCurr, lanSess, lanIntf, lanRsp, lanHist>>
  BY DEF ipmi_lan_ping, LanControl
<1>2. CASE lanAt' = "recv" /\ lanReq' = Append(lanReq, [cmd |-> "ping", call |-> lanCall])
           /\ UNCHANGED <<lanCmd, lanCall, lanTry, lanFaults>>
  <2>1. [cmd |-> "ping", call |-> lanCall] \in LanRequests
    BY DEF LanRequests, LanCallTypes
  <2>2. lanReq' = <<[cmd |-> "ping", call |-> lanCall]>>
    BY <1>1, <1>2
  <2>3. lanReq' \in Seq(LanRequests) /\ Len(lanReq') = 1 /\ lanReq'[1].cmd = "ping"
    BY <2>1, <2>2
  <2>4. LanNumbered'
    BY <2>3 DEF LanNumbered, LanUnnumbered, LanSeqAdvances
  <2> QED
    BY <1>1, <1>2, <2>3, <2>4 DEF LanCallTypes, LanControl, LanClosesSession, LanOpening
<1>3. CASE lanFaults < LanMaxFaults /\ lanFaults' = lanFaults + 1 /\ LanBegin("authcap1") /\ UNCHANGED lanReq
  <2>1. lanFaults' \in 0..LanMaxFaults
    BY <1>3, LanNumbers
  <2>2. LanNumbered'
    BY <1>1, <1>3 DEF LanNumbered, LanUnnumbered, LanSeqAdvances
  <2>3. lanAt' = "send" /\ lanCmd' = "authcap1" /\ lanCall' \in Nat /\ lanTry' \in Nat
    BY <1>3, LanBeginCall DEF LanCmds, LanOpening
  <2> QED
    BY <1>1, <1>3, <2>1, <2>2, <2>3 DEF LanCallTypes, LanControl, LanClosesSession, LanOpening, LanCmds
<1> QED
  BY <1>2, <1>3 DEF ipmi_lan_ping

LEMMA LanSendInv == ASSUME LanInv, ipmi_lan_send_cmd PROVE LanInv'
<1> USE DEF LanInv, LanTypes
<1> DEFINE seq == IF lanCurr >= LanSeqs THEN 0 ELSE lanCurr
<1>0. /\ lanAt = "send" /\ lanCmd # "ping" /\ lanCmd \in LanCmds
      /\ UNCHANGED <<lanCmd, lanCall, lanRsp>> /\ ipmi_lan_build_cmd(seq)
  BY DEF ipmi_lan_send_cmd, LanCallTypes
<1>1. seq \in Nat /\ lanCurr' \in Nat
  BY <1>0 DEF ipmi_lan_build_cmd
<1>2. lanSess.in_seq \in LanNumber /\ lanSess' = [lanSess EXCEPT !.in_seq = LanNextSeq(@)]
  BY <1>0 DEF ipmi_lan_build_cmd, LanCallTypes, LanSessions
<1>3. LanNextSeq(lanSess.in_seq) \in LanNumber /\ (lanSess.in_seq = 0 => LanNextSeq(lanSess.in_seq) = 0)
  BY <1>2, NextNumber
<1>4. lanSess' \in LanSessions /\ lanSess'.in_seq = LanNextSeq(lanSess.in_seq)
  BY <1>2, <1>3 DEF LanCallTypes, LanSessions
<1>5. CASE /\ UNCHANGED <<lanReq, lanIntf, lanGaveUp, lanHist>> /\ lanTry' = lanTry + 1 /\ lanAt' \in {"send", "failing"}
           /\ lanFaults < LanMaxFaults /\ lanFaults' = lanFaults + 1
  <2>1. LanNumbered'
    <3> SUFFICES ASSUME LanFew PROVE LanNumbered'
      BY DEF LanNumbered
    <3>1. lanReq # <<>> => Len(lanReq) \in 1..Len(lanReq)
      OBVIOUS
    <3>2. CASE lanSess.in_seq = 0
      BY <1>3, <1>4, <1>5, <3>1, <3>2 DEF LanNumbered, LanUnnumbered, LanSeqAdvances
    <3>3. CASE lanSess.in_seq # 0
      <4>1. lanSess'.in_seq # 0
        BY <1>2, <1>4, <3>3, NextNumber
      <4>2. ASSUME lanReq # <<>>, lanReq[Len(lanReq)].cmd # "ping", lanReq[Len(lanReq)].in_seq # 0
            PROVE  LanAhead(lanReq[Len(lanReq)].in_seq, lanSess'.in_seq) \in 1..(lanFaults' + 1)
        <5>1. lanReq[Len(lanReq)] \in LanRequests
          BY <3>1, <4>2
        <5>2. lanReq[Len(lanReq)].in_seq \in LanNumber
          BY <4>2, <5>1 DEF LanRequests
        <5>3. LanAhead(lanReq[Len(lanReq)].in_seq, lanSess.in_seq) \in 1..(lanFaults + 1)
          BY <4>2 DEF LanNumbered
        <5>4. LanAhead(lanReq[Len(lanReq)].in_seq, lanSess.in_seq) < LanInSeqs - 1
          BY <5>3, LanNumbers DEF LanFew
        <5> QED
          BY <1>2, <1>4, <1>5, <3>3, <4>2, <5>2, <5>3, <5>4, NextNumber
      <4> QED
        BY <1>5, <4>1, <4>2 DEF LanNumbered, LanSeqAdvances
    <3> QED
      BY <3>2, <3>3
  <2> QED
    BY <1>0, <1>1, <1>3, <1>4, <1>5, <2>1, LanNumbers DEF LanCallTypes, LanControl, LanClosesSession
<1>6. CASE /\ lanReq' = Append(lanReq, LanPacket(seq)) /\ UNCHANGED <<lanTry, lanFaults>>
           /\ lanAt' = IF lanCmd = "reset" THEN "idle" ELSE "recv"
           /\ lanIntf' = [lanIntf EXCEPT !.abort = @ \/ lanCmd = "reset"]
           /\ lanHist' = lanHist \cup (IF lanCmd = "close" THEN {"closing"} ELSE {})
  <2>1. LanPacket(seq) \in LanRequests /\ LanPacket(seq).cmd # "ping" /\ LanPacket(seq).in_seq = lanSess.in_seq
    <3>1. LanCode(lanCmd) \in LanCmds \ {"ping"}
      BY <1>0 DEF LanCode, LanCmds, LanOpening
    <3>2. LanBridged \in BOOLEAN /\ (lanSess.active /\ lanSess.auth) \in BOOLEAN
      BY DEF LanBridged
    <3>3. lanCall \in Nat
      BY DEF LanCallTypes
    <3> QED
      BY <1>1, <1>2, <3>1, <3>2, <3>3 DEF LanPacket, LanRequests
  <2>2. LanNumbered'
    BY <1>2, <1>6, <2>1, LanAppendNumbered
  <2>3. lanIntf' \in LanFlags /\ (lanIntf.abort => lanIntf'.abort)
    BY <1>6 DEF LanCallTypes, LanFlags
  <2>4. LanCallTypes' /\ LanControl'
    BY <1>0, <1>3, <1>4, <1>6, <2>3 DEF LanCallTypes, LanControl, LanClosesSession, LanOpening
  <2>5. lanReq' \in Seq(LanRequests)
    BY <1>6, <2>1
  <2> QED
    BY <1>0, <1>1, <1>6, <2>2, <2>4, <2>5
<1> QED
  BY <1>5, <1>6 DEF ipmi_lan_send_cmd

LEMMA LanReceiveInv == ASSUME LanInv, ipmi_lan_poll_recv \/ LanRecvError \/ ipmi_lan_recv_packet PROVE LanInv'
<1> USE DEF LanInv, LanTypes
<1>0. ASSUME lanAt = "recv", UNCHANGED <<lanCurr, lanReq, lanRsp>>, lanFaults' \in {lanFaults, lanFaults + 1},
             lanFaults' \in 0..LanMaxFaults, LanUnanswered
      PROVE  LanInv'
  <2>0. 1..(lanFaults + 1) \subseteq 1..(lanFaults' + 1)
    BY <1>0, MoreFaults
  <2>2. CASE lanCmd # "ping" /\ lanTry' = lanTry + 1 /\ lanAt' = "send" /\ UNCHANGED <<lanCmd, lanCall, lanIntf, lanSess, lanHist>>
    BY <1>0, <2>0, <2>2 DEF LanCallTypes, LanControl, LanClosesSession, LanNumbered, LanUnnumbered, LanSeqAdvances
  <2>3. CASE ipmi_lan_activate_session(LanNone)
    BY <1>0, <2>3, LanReturnInv
  <2> QED
    BY <1>0, <2>2, <2>3 DEF LanUnanswered
<1>1. CASE ipmi_lan_poll_recv
  <2> DEFINE r == Head(lanRsp)
  <2>1. /\ r \in LanReplies /\ lanRsp' \in Seq(LanReplies) /\ lanAt = "recv"
        /\ UNCHANGED <<lanCurr, lanReq, lanFaults>>
    BY <1>1 DEF ipmi_lan_poll_recv
  <2>2. CASE \E ok \in BOOLEAN : ipmi_lan_activate_session([kind |-> "ipmi", ok |-> ok, in_seq |-> 0])
    <3>1. 0 \in LanNumber
      BY LanNumbers DEF LanNumber
    <3> QED
      BY <2>1, <2>2, <3>1, LanReturnInv
  <2>3. CASE r.kind = "ipmi" /\ ipmi_lan_activate_session(r)
    <3>1. r.ok \in BOOLEAN /\ r.in_seq \in LanNumber
      BY <2>1, <2>3 DEF LanReplies
    <3> QED
      BY <2>1, <2>3, <3>1, LanReturnInv
  <2>4. CASE UNCHANGED <<lanAt, lanCmd, lanCall, lanTry, lanIntf, lanSess, lanHist>>
    BY <2>1, <2>4 DEF LanCallTypes, LanControl, LanClosesSession, LanNumbered, LanUnnumbered, LanSeqAdvances
  <2> QED
    BY <1>1, <2>2, <2>3, <2>4 DEF ipmi_lan_poll_recv, LanPong
<1>2. CASE ipmi_lan_recv_packet
  <2>1. /\ lanAt = "recv" /\ UNCHANGED <<lanCurr, lanReq, lanRsp>>
        /\ lanFaults' \in {lanFaults, lanFaults + 1} /\ lanFaults' \in 0..LanMaxFaults
    BY <1>2, LanNumbers DEF ipmi_lan_recv_packet
  <2> QED
    BY <1>0, <1>2, <2>1 DEF ipmi_lan_recv_packet
<1>3. CASE LanRecvError
  <2>1. /\ lanAt = "recv" /\ UNCHANGED <<lanCurr, lanReq, lanRsp>>
        /\ lanFaults' \in {lanFaults, lanFaults + 1} /\ lanFaults' \in 0..LanMaxFaults
    BY <1>3, LanNumbers DEF LanRecvError
  <2>2. CASE LanUnanswered
    BY <1>0, <2>1, <2>2
  <2>3. CASE \E ok \in BOOLEAN : ipmi_lan_activate_session([kind |-> "ipmi", ok |-> ok, in_seq |-> 0])
    <3>1. 0 \in LanNumber
      BY LanNumbers DEF LanNumber
    <3> QED
      BY <2>1, <2>3, <3>1, LanReturnInv
  <2>4. CASE UNCHANGED <<lanAt, lanCmd, lanCall, lanTry, lanIntf, lanSess, lanHist>>
    <3>1. 1..(lanFaults + 1) \subseteq 1..(lanFaults' + 1)
      BY <2>1, MoreFaults
    <3> QED
      BY <2>1, <2>4, <3>1 DEF LanCallTypes, LanControl, LanClosesSession, LanNumbered, LanUnnumbered, LanSeqAdvances
  <2> QED
    BY <1>3, <2>2, <2>3, <2>4 DEF LanRecvError, LanPong
<1> QED
  BY <1>1, <1>2, <1>3

LEMMA LanProgramInv == ASSUME LanInv, LanProgram PROVE LanInv'
<1> USE DEF LanInv, LanTypes
<1>0. lanAt = "idle" /\ UNCHANGED <<lanCurr, lanSess, lanReq, lanRsp, lanHist, lanFaults>> /\ lanIntf.abort \in BOOLEAN
      /\ lanSess \in LanSessions
  BY DEF LanProgram, LanCallTypes, LanFlags
<1>1. LanNumbered'
  BY <1>0 DEF LanNumbered, LanUnnumbered, LanSeqAdvances
<1>2. ASSUME NEW c \in {"user", "reset", "keepalive"}, LanBegin(c), UNCHANGED lanIntf PROVE LanCallTypes' /\ LanControl'
  <2>1. lanAt' = "send" /\ lanCmd' = c /\ lanCall' \in Nat /\ lanTry' \in Nat
    BY <1>2, LanBeginCall DEF LanCmds
  <2>2. c \in LanCmds \ LanOpening /\ c # "close"
    BY DEF LanCmds, LanOpening
  <2> QED
    BY <1>0, <1>2, <2>1, <2>2 DEF LanCallTypes, LanControl, LanClosesSession, LanOpening
<1>3. ASSUME ipmi_lan_close(lanIntf.abort) PROVE LanCallTypes' /\ LanControl'
  <2>1. /\ lanIntf' \in LanFlags /\ lanCmd' \in LanCmds /\ lanCall' \in Nat /\ lanTry' \in Nat
        /\ \/ lanAt' = "closed" /\ lanIntf'.abort
           \/ lanAt' = "send" /\ lanCmd' = "close"
    BY <1>0, <1>3, LanCloseCall
  <2>2. LanCallTypes'
    BY <1>0, <2>1 DEF LanCallTypes
  <2> QED
    BY <2>1, <2>2 DEF LanControl, LanClosesSession, LanOpening
<1> QED
  BY <1>0, <1>1, <1>2, <1>3 DEF LanProgram

(* A packet less at the head of the queue, or none.                        *)
LEMMA LanTailNumbered ==
  ASSUME LanInv, lanReq # <<>>, lanReq' = Tail(lanReq), UNCHANGED lanSess, lanFaults' \in {lanFaults, lanFaults + 1}
  PROVE  LanNumbered'
<1> USE DEF LanInv, LanTypes
<1> SUFFICES ASSUME LanFew PROVE LanNumbered'
  BY DEF LanNumbered
<1>1. Len(lanReq') = Len(lanReq) - 1 /\ \A i \in 1..Len(lanReq') : lanReq'[i] = lanReq[i + 1]
  OBVIOUS
<1>2. lanReq' # <<>> => lanReq'[Len(lanReq')] = lanReq[Len(lanReq)]
  BY <1>1
<1>3. LanSeqAdvances'
  <2> SUFFICES ASSUME NEW i \in 2..Len(lanReq'), lanReq'[i - 1].cmd # "ping", lanReq'[i - 1].in_seq # 0
               PROVE  lanReq'[i].in_seq # 0 /\ lanReq'[i].in_seq # lanReq'[i - 1].in_seq
    BY DEF LanSeqAdvances
  <2>1. lanReq'[i] = lanReq[i + 1] /\ lanReq'[i - 1] = lanReq[i] /\ i + 1 \in 2..Len(lanReq) /\ (i + 1) - 1 = i
    BY <1>1
  <2> QED
    BY <2>1 DEF LanNumbered, LanSeqAdvances
<1>4. lanSess'.in_seq = 0 => \A i \in 1..Len(lanReq') : LanUnnumbered(lanReq'[i])
  BY <1>1 DEF LanNumbered, LanUnnumbered
<1>5. 1..(lanFaults + 1) \subseteq 1..(lanFaults' + 1)
  BY MoreFaults
<1> QED
  BY <1>2, <1>3, <1>4, <1>5 DEF LanNumbered

LEMMA LanBmcInv == ASSUME LanInv, LanBmcStep PROVE LanInv'
<1> USE DEF LanInv, LanTypes
<1> DEFINE q == Head(lanReq)
<1>0. /\ lanReq # <<>> /\ lanReq' = Tail(lanReq) /\ q \in LanRequests /\ lanReq' \in Seq(LanRequests)
      /\ UNCHANGED <<lanAt, lanCmd, lanCall, lanTry, lanCurr, lanSess, lanIntf, lanFaults, lanHist>>
  BY DEF LanBmcStep
<1>1. LanNumbered'
  BY <1>0, LanTailNumbered
<1>2. lanRsp' \in Seq(LanReplies)
  <2>1. CASE q.cmd = "ping" /\ lanRsp' = Append(lanRsp, [kind |-> "pong", call |-> q.call])
    <3>1. [kind |-> "pong", call |-> q.call] \in LanReplies
      BY <1>0 DEF LanRequests, LanReplies
    <3> QED
      BY <2>1, <3>1
  <2>2. CASE UNCHANGED lanRsp
    BY <2>2
  <2>3. ASSUME q.cmd # "ping", NEW ok \in BOOLEAN, NEW n \in {0, LanInSeqs - 1},
               lanRsp' = lanRsp \o (IF q.bridged THEN <<LanAnswer(q, "sendmsg", ok, n)>> ELSE <<>>) \o
                           (IF q.bridged /\ ~ok THEN <<>> ELSE <<LanAnswer(q, q.cmd, ok, n)>>)
        PROVE  lanRsp' \in Seq(LanReplies)
    <3>1. n \in LanNumber
      BY LanNumbers DEF LanNumber
    <3>2. LanAnswer(q, "sendmsg", ok, n) \in LanReplies /\ LanAnswer(q, q.cmd, ok, n) \in LanReplies
      BY <1>0, <2>3, <3>1 DEF LanRequests, LanReplies, LanAnswer
    <3>3. /\ (IF q.bridged THEN <<LanAnswer(q, "sendmsg", ok, n)>> ELSE <<>>) \in Seq(LanReplies)
          /\ (IF q.bridged /\ ~ok THEN <<>> ELSE <<LanAnswer(q, q.cmd, ok, n)>>) \in Seq(LanReplies)
      BY <3>2
    <3> QED
      BY <2>3, <3>3
  <2> QED
    BY <2>1, <2>2, <2>3 DEF LanBmcStep
<1> QED
  BY <1>0, <1>1, <1>2 DEF LanCallTypes, LanControl, LanClosesSession

LEMMA LanNetworkInv == ASSUME LanInv, LanNetwork PROVE LanInv'
<1> USE DEF LanInv, LanTypes
<1>0. /\ lanFaults' = lanFaults + 1 /\ lanFaults' \in 0..LanMaxFaults /\ lanFaults' \in {lanFaults, lanFaults + 1}
      /\ UNCHANGED <<lanAt, lanCmd, lanCall, lanTry, lanCurr, lanSess, lanIntf, lanHist>>
  BY LanNumbers DEF LanNetwork
<1>1. 1..(lanFaults + 1) \subseteq 1..(lanFaults' + 1)
  BY <1>0, MoreFaults
<1>2. CASE lanReq # <<>> /\ lanReq' = Tail(lanReq) /\ UNCHANGED lanRsp
  <2>1. LanNumbered'
    BY <1>0, <1>2, LanTailNumbered
  <2>2. lanReq' \in Seq(LanRequests)
    BY <1>2
  <2> QED
    BY <1>0, <1>2, <2>1, <2>2 DEF LanCallTypes, LanControl, LanClosesSession
<1>3. CASE lanRsp # <<>> /\ lanRsp' \in {Tail(lanRsp), <<Head(lanRsp)>> \o lanRsp} /\ UNCHANGED lanReq
  <2>1. lanRsp' \in Seq(LanReplies)
    <3>1. Tail(lanRsp) \in Seq(LanReplies) /\ Head(lanRsp) \in LanReplies
      BY <1>3
    <3>2. <<Head(lanRsp)>> \o lanRsp \in Seq(LanReplies)
      BY <3>1
    <3> QED
      BY <1>3, <3>1, <3>2
  <2>2. LanNumbered'
    BY <1>0, <1>1, <1>3 DEF LanNumbered, LanUnnumbered, LanSeqAdvances
  <2> QED
    BY <1>0, <1>3, <2>1, <2>2 DEF LanCallTypes, LanControl, LanClosesSession
<1> QED
  BY <1>2, <1>3 DEF LanNetwork

LEMMA LanInvStep == LanInv /\ [LanNext]_lanVars => LanInv'
<1>1. ASSUME LanInv, LanNext PROVE LanInv'
  BY <1>1, LanOpenInv, LanPingInv, LanSendInv, LanReceiveInv, LanProgramInv, LanBmcInv, LanNetworkInv
     DEF LanNext, LanProgramStep
<1>2. ASSUME LanInv, UNCHANGED lanVars PROVE LanInv'
  BY <1>2 DEF lanVars, LanInv, LanTypes, LanCallTypes, LanControl, LanClosesSession, LanNumbered, LanUnnumbered,
     LanSeqAdvances
<1> QED
  BY <1>1, <1>2

LEMMA LanInvInit == LanInit => LanInv
<1> SUFFICES ASSUME LanInit PROVE LanInv
  OBVIOUS
<1>1. 0 \in LanNumber /\ lanFaults \in 0..LanMaxFaults
  BY LanNumbers DEF LanNumber, LanInit
<1>2. lanIntf \in LanFlags
  BY Zenon DEF LanInit, LanFlags
<1>3. lanSess \in LanSessions /\ lanSess.in_seq = 0
  BY <1>1, Zenon DEF LanInit, LanSessions
<1> QED
  BY <1>1, <1>2, <1>3 DEF LanInit, LanInv, LanTypes, LanCallTypes, LanCmds, LanOpening, LanControl, LanClosesSession,
     LanNumbered, LanSeqAdvances
-----------------------------------------------------------------------------
(* Which answer a call over lan gets. LanRoom: the request numbers of two  *)
(* calls are different. LanSince counts the requests built since the one   *)
(* with number s; those of the call in progress are in the list, so that   *)
(* a packet belongs to this call if it is no further back.                 *)
LanRoom == 2 * LanRetry <= LanSeqs
LanSeqNo == 0..(LanSeqs - 1)
LanSince(s) == IF lanCurr > s THEN lanCurr - s ELSE (lanCurr + LanSeqs) - s
LanSent == Len(lanList)
LanSigned == lanSess.active /\ lanSess.auth
LanListed == [seq : LanSeqNo, target : LanCmds, call : Nat, cmd : LanCmds \cup {"sendmsg"}]
LanFirstCmd == IF LanBridged THEN "sendmsg" ELSE LanCode(lanCmd)

(* The list: the requests of the call in progress, in order.               *)
LanEntries ==
  /\ lanCurr \in 0..LanSeqs /\ lanTry < LanRetry
  /\ lanAt = "new" => lanCmd = "ping"
  /\ IF lanAt = "idle" THEN lanCmd # "ping" ELSE lanCmd \in LanOpening => ~lanIntf.bridge
  /\ lanList \in Seq(LanListed)
  /\ LanSent = IF lanAt \in {"new", "idle"} \/ lanCmd = "ping" THEN 0
               ELSE IF lanAt = "send" THEN lanTry ELSE lanTry + 1
  /\ \A j \in 1..LanSent : /\ LanSince(lanList[j].seq) = (LanSent - j) + 1
                           /\ lanList[j].target = LanCode(lanCmd)
                           /\ lanList[j].cmd = LanFirstCmd \/ (j = 1 /\ lanList[j].cmd = LanCode(lanCmd))

(* The packets on their way, of this call and of the one before.           *)
LanOfCall(x) == /\ x.seq \in LanSeqNo /\ LanSince(x.seq) <= LanSent + LanRetry
                /\ LanSince(x.seq) <= LanSent => x.call = lanCall /\ x.signed = LanSigned
LanRequestOk(q) ==
  /\ q.cmd # "ping" /\ LanOfCall(q)
  /\ LanSince(q.seq) <= LanSent => q.cmd = LanCode(lanCmd) /\ q.bridged = LanBridged
  /\ q.cmd = "close" => LanSince(q.seq) <= LanSent
LanReplyOk(r) ==
  /\ r.kind = "ipmi" /\ LanOfCall(r)
  /\ LanSince(r.seq) <= LanSent => /\ r.cmd \in {LanCode(lanCmd), LanFirstCmd}
                                   /\ r.cmd = "challenge" /\ r.ok => lanBmc # "none"
LanPackets ==
  IF lanAt = "new" \/ lanCmd = "ping"
  THEN \/ lanReq = <<>> /\ lanRsp = <<>>
       \/ lanAt = "recv" /\ lanReq = <<[cmd |-> "ping", call |-> lanCall]>> /\ lanRsp = <<>>
       \/ lanAt = "recv" /\ lanReq = <<>> /\ lanRsp = <<[kind |-> "pong", call |-> lanCall]>>
  ELSE /\ \A i \in 1..Len(lanReq) : LanRequestOk(lanReq[i])
       /\ \A i \in 1..Len(lanRsp) : LanReplyOk(lanRsp[i])

(* They are in the order they were sent, an acknowledgement of Send        *)
(* Message before the answer behind it.                                    *)
LanOrdered ==
  lanCmd # "ping" =>
    /\ \A i, j \in 1..Len(lanReq) : i < j => LanSince(lanReq[i].seq) > LanSince(lanReq[j].seq)
    /\ \A i, j \in 1..Len(lanRsp) : i < j => LanSince(lanRsp[i].seq) >= LanSince(lanRsp[j].seq)
    /\ \A i \in 1..Len(lanRsp), j \in 1..Len(lanReq) : LanSince(lanRsp[i].seq) > LanSince(lanReq[j].seq)
    /\ \A i \in 1..Len(lanRsp) : lanRsp[i].cmd = "sendmsg" /\ lanRsp[i].ok =>
         \E j \in (i + 1)..Len(lanRsp) : lanRsp[j].seq = lanRsp[i].seq /\ lanRsp[j].cmd # "sendmsg"

(* The first request of the call is on its way to a BMC that answers it,   *)
(* or what answers its entry is on its way back.                           *)
LanAnswers == lanCmd \in {"authcap1", "authcap2", "challenge"} \/ lanBmc # "none"
LanFirst ==
  /\ LanSent > 0 =>
       \/ /\ LanAnswers /\ lanList[1].cmd = LanFirstCmd
          /\ \E i \in 1..Len(lanReq) : LanSince(lanReq[i].seq) = LanSent
       \/ \E i \in 1..Len(lanRsp) : LanSince(lanRsp[i].seq) = LanSent /\ lanRsp[i].cmd = lanList[1].cmd
  /\ lanCmd # "ping" /\ (LanSent = 0 \/ lanCmd # "close") => LanAnswers
  /\ lanAt = "idle" => lanBmc # "none"

LanTidy == LanEntries /\ LanPackets /\ LanOrdered /\ LanFirst
LanMatched ==
  /\ LanRightAnswer /\ (lanAt = "failing" => lanLost)
  /\ ~lanLost /\ ~lanGaveUp /\ lanAt # "closed" => LanTidy

(* Counting back to a request.                                             *)
LEMMA SinceRange ==
  ASSUME lanCurr \in 0..LanSeqs, NEW s \in LanSeqNo, NEW t \in LanSeqNo
  PROVE  LanSince(s) \in 1..LanSeqs /\ (LanSince(s) = LanSince(t) => s = t)
BY LanNumbers DEF LanSince, LanSeqNo

LEMMA SinceNext ==
  ASSUME lanCurr \in 0..LanSeqs, NEW c, c = (IF lanCurr >= LanSeqs THEN 0 ELSE lanCurr), lanCurr' = c + 1
  PROVE  /\ c \in LanSeqNo /\ lanCurr' \in 0..LanSeqs /\ LanSince(c)' = 1
         /\ \A s \in LanSeqNo : LanSince(s) < LanSeqs => LanSince(s)' = LanSince(s) + 1
BY LanNumbers DEF LanSince, LanSeqNo

(* The answer that is next matches the first entry or none: what is behind *)
(* it in the queue is no older, and something on its way is as old as the  *)
(* first entry.                                                            *)
LEMMA HeadIsFirst ==
  ASSUME LanInv, LanTidy, lanAt = "recv", lanCmd # "ping", lanRsp # <<>>, NEW r, r = Head(lanRsp),
         LanMatches(r.seq, r.cmd) # {}
  PROVE  /\ ipmi_req_lookup_entry(r.seq, r.cmd) = 1 /\ LanSent >= 1 /\ LanSince(r.seq) = LanSent
         /\ r.seq = lanList[1].seq /\ r.cmd = lanList[1].cmd /\ r.call = lanCall
<1> USE DEF LanTidy, LanSent
<1>0. lanRsp \in Seq(LanReplies) /\ lanReq \in Seq(LanRequests) /\ Len(lanList) \in Nat /\ DOMAIN lanList = 1..Len(lanList)
  BY DEF LanInv, LanTypes, LanEntries
<1>1. 1 \in 1..Len(lanRsp) /\ r = lanRsp[1]
  BY <1>0
<1>2. LanReplyOk(r)
  BY <1>1 DEF LanPackets
<1>3. r.seq \in LanSeqNo /\ LanSince(r.seq) \in Nat
  BY <1>2, SinceRange DEF LanReplyOk, LanOfCall, LanEntries
<1>4. ASSUME NEW i \in LanMatches(r.seq, r.cmd) PROVE i = 1 /\ Len(lanList) >= 1 /\ LanSince(r.seq) = Len(lanList)
  <2>1. i \in 1..Len(lanList) /\ lanList[i].seq = r.seq /\ LanSince(r.seq) = (Len(lanList) - i) + 1
    BY <1>0, <1>4 DEF LanMatches, LanEntries
  <2>2. ASSUME NEW k \in 1..Len(lanReq), LanSince(lanReq[k].seq) = Len(lanList) PROVE FALSE
    BY <1>0, <1>1, <2>1, <2>2 DEF LanOrdered
  <2>3. ASSUME NEW k \in 1..Len(lanRsp), LanSince(lanRsp[k].seq) = Len(lanList) PROVE i = 1
    <3>1. LanSince(lanRsp[1].seq) >= LanSince(lanRsp[k].seq)
      BY <1>0, <1>1, <1>3, <2>3 DEF LanOrdered
    <3> QED
      BY <1>0, <1>1, <2>1, <2>3, <3>1
  <2>4. Len(lanList) > 0
    BY <1>0, <2>1
  <2>5. i = 1
    BY <2>2, <2>3, <2>4 DEF LanFirst
  <2> QED
    BY <1>0, <2>1, <2>5
<1>5. LanMatches(r.seq, r.cmd) = {1}
  BY <1>4
<1>6. ipmi_req_lookup_entry(r.seq, r.cmd) = 1
  BY <1>5 DEF ipmi_req_lookup_entry
<1>7. r.call = lanCall
  BY <1>2, <1>4, <1>5 DEF LanReplyOk, LanOfCall
<1>8. r.seq = lanList[1].seq /\ r.cmd = lanList[1].cmd
  BY <1>5 DEF LanMatches
<1> QED
  BY <1>4, <1>5, <1>6, <1>7, <1>8

(* Where a caller goes on with an answer, for what comes next.             *)
LEMMA LanReturnTo ==
  ASSUME LanInv, lanAt = "recv", NEW r, r.kind = "ipmi", ipmi_lan_activate_session(r), lanAt' # "closed"
  PROVE  /\ lanCmd # "close" /\ lanCmd' # "ping" /\ lanCmd' \in LanCmds
         /\ \/ lanAt' = "send" /\ lanTry' = 0
            \/ lanAt' = "idle" /\ lanTry' = lanTry /\ lanCmd \notin {"ping", "authcap1", "authcap2", "challenge"}
         /\ \/ lanCmd' \in {"authcap1", "authcap2", "challenge"}
            \/ lanCmd \notin {"ping", "authcap1", "authcap2", "challenge"}
            \/ lanCmd = "challenge" /\ r.ok
         /\ lanAt' = "send" /\ lanCmd' \in LanOpening => lanCmd \in LanOpening /\ UNCHANGED lanIntf
<1>0. lanCmd \in LanCmds \ {"reset"} /\ LanCallTypes /\ lanIntf.abort \in BOOLEAN
  BY DEF LanInv, LanTypes, LanCallTypes, LanControl, LanFlags
<1>1. ASSUME ipmi_lan_close(lanIntf.abort) PROVE lanAt' = "send" /\ lanCmd' = "close" /\ lanTry' = 0
  BY <1>0, <1>1 DEF ipmi_lan_close, LanBegin
<1> USE DEF LanBegin, LanCmds, LanOpening
<1>2. CASE lanCmd = "ping"
  BY <1>2 DEF ipmi_lan_activate_session
<1>3. CASE lanCmd \in {"authcap1", "authcap2"}
  <2>1. ipmi_get_auth_capabilities_cmd(r)
    BY <1>3 DEF ipmi_lan_activate_session
  <2>2. lanIntf.abort
    BY <1>3 DEF LanInv, LanControl
  <2>3. ~ipmi_lan_close(lanIntf.abort)
    BY <2>2 DEF ipmi_lan_close
  <2> QED
    BY <1>3, <2>1, <2>3 DEF ipmi_get_auth_capabilities_cmd
<1>4. CASE lanCmd = "challenge"
  <2>1. ipmi_get_session_challenge_cmd(r)
    BY <1>4 DEF ipmi_lan_activate_session
  <2>2. lanIntf.abort
    BY <1>4 DEF LanInv, LanControl
  <2>3. ~ipmi_lan_close(lanIntf.abort)
    BY <2>2 DEF ipmi_lan_close
  <2> QED
    BY <1>4, <2>1, <2>3 DEF ipmi_get_session_challenge_cmd, LanOk
<1>5. CASE lanCmd = "activate"
  <2>1. ipmi_activate_session_cmd(r)
    BY <1>5 DEF ipmi_lan_activate_session
  <2> QED
    BY <1>1, <1>5, <2>1 DEF ipmi_activate_session_cmd
<1>6. CASE lanCmd = "privlvl"
  <2>1. ipmi_set_session_privlvl_cmd(r)
    BY <1>6 DEF ipmi_lan_activate_session
  <2> QED
    BY <1>1, <1>6, <2>1 DEF ipmi_set_session_privlvl_cmd
<1>7. CASE lanCmd \in {"user", "keepalive"}
  BY <1>7 DEF ipmi_lan_activate_session, LanReport
<1>8. CASE lanCmd = "close"
  BY <1>8 DEF ipmi_lan_activate_session, ipmi_close_session_cmd
<1> QED
  BY <1>0, <1>2, <1>3, <1>4, <1>5, <1>6, <1>7, <1>8

(* The answer to the first entry is taken: the list is empty, and what is  *)
(* left on the way is of the call that ends here.                          *)
LEMMA TakeTidy ==
  ASSUME LanInv, LanTidy, LanRoom, lanAt = "recv", lanCmd # "ping", lanRsp # <<>>, NEW r, r = Head(lanRsp),
         r.kind = "ipmi", LanMatches(r.seq, r.cmd) # {}, lanList' = <<>>, lanRsp' = Tail(lanRsp),
         UNCHANGED <<lanReq, lanCurr, lanBmc>>, ipmi_lan_activate_session(r), lanAt' # "closed"
  PROVE  LanTidy'
<1> USE DEF LanSent
<1>0. /\ lanRsp \in Seq(LanReplies) /\ lanReq \in Seq(LanRequests) /\ lanCurr \in 0..LanSeqs
      /\ Len(lanList) \in Nat /\ lanTry \in Nat /\ lanTry < LanRetry /\ Len(lanList) = lanTry + 1
  BY DEF LanInv, LanTypes, LanCallTypes, LanTidy, LanEntries
<1>1. /\ lanCmd # "close" /\ lanCmd' # "ping" /\ lanCmd' \in LanCmds
      /\ \/ lanAt' = "send" /\ lanTry' = 0
         \/ lanAt' = "idle" /\ lanTry' = lanTry /\ lanCmd \notin {"ping", "authcap1", "authcap2", "challenge"}
      /\ \/ lanCmd' \in {"authcap1", "authcap2", "challenge"}
         \/ lanCmd \notin {"ping", "authcap1", "authcap2", "challenge"}
         \/ lanCmd = "challenge" /\ r.ok
      /\ lanAt' = "send" /\ lanCmd' \in LanOpening => lanCmd \in LanOpening /\ UNCHANGED lanIntf
  BY LanReturnTo
<1>2. LanSince(r.seq) = Len(lanList) /\ r.cmd = lanList[1].cmd /\ Len(lanList) >= 1
  BY HeadIsFirst
<1>3. /\ Len(lanRsp') = Len(lanRsp) - 1 /\ Len(lanRsp) >= 1 /\ r = lanRsp[1]
      /\ \A i \in 1..Len(lanRsp') : lanRsp'[i] = lanRsp[i + 1] /\ i + 1 \in 1..Len(lanRsp)
  BY <1>0
<1>4. \A s : LanSince(s)' = LanSince(s)
  BY DEF LanSince
<1>5. LanEntries'
  BY <1>0, <1>1, LanNumbers DEF LanTidy, LanEntries
<1>6. LanPackets'
  <2>1. ASSUME NEW i \in 1..Len(lanReq) PROVE LanRequestOk(lanReq[i])'
    <3>1. LanRequestOk(lanReq[i])
      BY <1>0, <2>1 DEF LanTidy, LanPackets
    <3>2. LanSince(lanReq[i].seq) <= Len(lanList) /\ LanSince(lanReq[i].seq) \in 1..LanSeqs
      BY <1>0, <1>2, <1>3, <2>1, <3>1, SinceRange, LanNumbers DEF LanTidy, LanOrdered, LanRequestOk, LanOfCall
    <3>3. lanReq[i].cmd # "close"
      BY <1>1, <3>1, <3>2 DEF LanRequestOk, LanCode
    <3>4. LanSince(lanReq[i].seq)' = LanSince(lanReq[i].seq) /\ lanReq'[i] = lanReq[i]
      BY DEF LanSince
    <3> QED
      BY <1>0, <3>1, <3>2, <3>3, <3>4, LanNumbers DEF LanRequestOk, LanOfCall, LanSeqNo
  <2>2. ASSUME NEW i \in 1..Len(lanRsp') PROVE LanReplyOk(lanRsp[i])'
    <3>1. LanReplyOk(lanRsp[i + 1])
      BY <1>0, <1>3, <2>2 DEF LanTidy, LanPackets
    <3>2. LanSince(lanRsp[i + 1].seq) <= LanSince(lanRsp[1].seq) /\ LanSince(lanRsp[i + 1].seq) \in 1..LanSeqs
      BY <1>0, <1>3, <2>2, <3>1, SinceRange DEF LanTidy, LanOrdered, LanReplyOk, LanOfCall
    <3>3. LanSince(lanRsp[i].seq)' = LanSince(lanRsp[i + 1].seq) /\ lanRsp'[i] = lanRsp[i + 1]
      BY <1>3, <2>2 DEF LanSince
    <3> QED
      BY <1>0, <1>2, <1>3, <2>2, <3>1, <3>2, <3>3, LanNumbers DEF LanReplyOk, LanOfCall, LanSeqNo
  <2> QED
    BY <1>1, <2>1, <2>2 DEF LanPackets
<1>7. LanOrdered'
  <2>1. ASSUME NEW i \in 1..Len(lanRsp'), lanRsp'[i].cmd = "sendmsg", lanRsp'[i].ok
        PROVE  \E j \in (i + 1)..Len(lanRsp') : lanRsp'[j].seq = lanRsp'[i].seq /\ lanRsp'[j].cmd # "sendmsg"
    <3>0. i \in Nat /\ i + 1 \in 1..Len(lanRsp) /\ lanRsp'[i] = lanRsp[i + 1] /\ Len(lanRsp) \in Nat
      BY <1>0, <1>3, <2>1
    <3>1. PICK j \in ((i + 1) + 1)..Len(lanRsp) : lanRsp[j].seq = lanRsp[i + 1].seq /\ lanRsp[j].cmd # "sendmsg"
      BY <2>1, <3>0 DEF LanTidy, LanOrdered
    <3>2. j - 1 \in (i + 1)..Len(lanRsp') /\ j - 1 \in 1..Len(lanRsp') /\ (j - 1) + 1 = j
      BY <1>3, <3>0
    <3>3. lanRsp'[j - 1] = lanRsp[j]
      BY <1>3, <3>2
    <3> QED
      BY <3>0, <3>1, <3>2, <3>3
  <2>2. \A i, j \in 1..Len(lanRsp') : i < j => LanSince(lanRsp'[i].seq) >= LanSince(lanRsp'[j].seq)
    <3> TAKE i, j \in 1..Len(lanRsp')
    <3>1. i + 1 \in 1..Len(lanRsp) /\ j + 1 \in 1..Len(lanRsp) /\ (i < j => i + 1 < j + 1)
      BY <1>3
    <3>2. lanRsp'[i] = lanRsp[i + 1] /\ lanRsp'[j] = lanRsp[j + 1]
      BY <1>3
    <3> QED
      BY <3>1, <3>2 DEF LanTidy, LanOrdered
  <2>3. \A i \in 1..Len(lanRsp'), j \in 1..Len(lanReq) : LanSince(lanRsp'[i].seq) > LanSince(lanReq[j].seq)
    BY <1>3 DEF LanTidy, LanOrdered
  <2> QED
    BY <1>4, <2>1, <2>2, <2>3 DEF LanTidy, LanOrdered
<1>8. LanFirst'
  <2>1. lanCmd = "challenge" /\ r.ok => lanBmc # "none"
    <3>1. LanReplyOk(r)
      BY <1>3 DEF LanTidy, LanPackets
    <3>2. lanCmd = "challenge" => ~LanBridged
      BY DEF LanTidy, LanEntries, LanBridged, LanOpening
    <3>3. lanCmd = "challenge" => r.cmd = "challenge"
      BY <1>2, <3>1, <3>2 DEF LanReplyOk, LanFirstCmd, LanCode
    <3> QED
      BY <1>2, <3>1, <3>3 DEF LanReplyOk
  <2>2. lanCmd \notin {"ping", "authcap1", "authcap2", "challenge"} => lanBmc # "none"
    BY <1>1 DEF LanTidy, LanFirst, LanAnswers
  <2> QED
    BY <1>1, <2>1, <2>2 DEF LanFirst, LanAnswers
<1> QED
  BY <1>5, <1>6, <1>7, <1>8 DEF LanTidy

(* A transmission: everything on its way is one request further back.      *)
LEMMA SendTidy ==
  ASSUME LanInv, LanTidy, LanRoom, ipmi_lan_send_cmd, ~lanLost', ~lanGaveUp'
  PROVE  LanTidy'
<1>a. PICK c : c = (IF lanCurr >= LanSeqs THEN 0 ELSE lanCurr)
  OBVIOUS
<1>b. PICK n : n = Len(lanReq)
  OBVIOUS
<1> DEFINE e == [seq |-> c, target |-> LanCode(lanCmd), call |-> lanCall, cmd |-> LanFirstCmd]
<1> USE DEF LanSent
<1>0. /\ lanRsp \in Seq(LanReplies) /\ lanReq \in Seq(LanRequests) /\ lanCurr \in 0..LanSeqs
      /\ Len(lanList) \in Nat /\ lanTry \in Nat /\ lanTry < LanRetry /\ Len(lanList) = lanTry
      /\ lanAt = "send" /\ lanCmd # "ping" /\ lanCmd \in LanCmds /\ lanIntf \in LanFlags /\ lanSess \in LanSessions
      /\ lanList \in Seq(LanListed)
      /\ lanCall \in Nat /\ LanRetry \in Nat /\ LanSeqs \in Nat
  BY LanNumbers DEF LanInv, LanTypes, LanCallTypes, LanTidy, LanEntries, ipmi_lan_send_cmd
<1>1. /\ lanCurr' = c + 1 /\ lanList' = Append(lanList, e) /\ lanSess' = [lanSess EXCEPT !.in_seq = LanNextSeq(@)]
      /\ lanReq' = Append(lanReq, LanPacket(c)) /\ lanAt' = "recv" /\ lanCmd # "reset"
      /\ lanIntf' = [lanIntf EXCEPT !.abort = @ \/ lanCmd = "reset"]
      /\ UNCHANGED <<lanTry, lanCmd, lanCall, lanRsp, lanBmc>>
  BY <1>0, <1>a DEF ipmi_lan_send_cmd, ipmi_lan_build_cmd, ipmi_req_add_entry, LanFirstCmd
<1>2. LanBridged' = LanBridged /\ LanSigned' = LanSigned /\ lanIntf'.bridge = lanIntf.bridge
  BY <1>0, <1>1 DEF LanBridged, LanSigned, LanFlags, LanSessions
<1>3. /\ c \in LanSeqNo /\ lanCurr' \in 0..LanSeqs /\ LanSince(c)' = 1
      /\ \A s \in LanSeqNo : LanSince(s) < LanSeqs => LanSince(s)' = LanSince(s) + 1
  BY <1>0, <1>1, <1>a, SinceNext
<1>4. LanFirstCmd' = LanFirstCmd /\ LanCode(lanCmd)' = LanCode(lanCmd) /\ LanCode(lanCmd) \in LanCmds
      /\ LanFirstCmd \in LanCmds \cup {"sendmsg"}
  BY <1>0, <1>1, <1>2 DEF LanFirstCmd, LanCode, LanCmds, LanOpening
<1>5. e \in LanListed
  BY <1>0, <1>3, <1>4 DEF LanListed
<1>6. /\ Len(lanList') = Len(lanList) + 1 /\ lanList'[Len(lanList) + 1] = e
      /\ lanList' \in Seq(LanListed)
      /\ \A j \in 1..Len(lanList) : lanList'[j] = lanList[j]
  BY <1>0, <1>1, <1>5
<1>7. /\ Len(lanReq') = n + 1 /\ lanReq'[n + 1] = LanPacket(c) /\ n \in Nat /\ n = Len(lanReq)
      /\ \A j \in 1..n : lanReq'[j] = lanReq[j]
  BY <1>0, <1>1, <1>b
<1>8. /\ LanPacket(c).cmd = LanCode(lanCmd) /\ LanPacket(c).call = lanCall /\ LanPacket(c).seq = c
      /\ LanPacket(c).bridged = LanBridged /\ LanPacket(c).signed = LanSigned
  BY DEF LanPacket, LanSigned
<1>c. /\ Len(lanList') = Len(lanList) + 1 /\ Len(lanList) \in Nat /\ LanRetry \in Nat
      /\ UNCHANGED <<lanCmd, lanCall, lanBmc>> /\ LanBridged' = LanBridged /\ LanSigned' = LanSigned
      /\ LanFirstCmd' = LanFirstCmd /\ LanCode(lanCmd)' = LanCode(lanCmd)
  BY <1>0, <1>1, <1>2, <1>4, <1>6
<1>9. \A s \in LanSeqNo : LanSince(s) \in Nat /\ LanSince(s) >= 1
  BY <1>0, SinceRange DEF LanSince, LanSeqNo
<1>10. \A s \in LanSeqNo : LanSince(s) <= Len(lanList) + LanRetry => LanSince(s)' = LanSince(s) + 1
  BY <1>0, <1>3, <1>9 DEF LanRoom
<1>11. ASSUME NEW i \in 1..n
       PROVE  /\ LanRequestOk(lanReq[i]) /\ LanSince(lanReq[i].seq)' = LanSince(lanReq[i].seq) + 1
              /\ LanSince(lanReq[i].seq) \in Nat /\ LanSince(lanReq[i].seq) >= 1 /\ lanReq[i].seq \in LanSeqNo
  <2>1. LanRequestOk(lanReq[i])
    BY <1>0, <1>7, <1>11 DEF LanTidy, LanPackets
  <2>2. lanReq'[i] = lanReq[i]
    BY <1>7, <1>11
  <2> QED
    BY <2>1, <2>2, <1>9, <1>10 DEF LanRequestOk, LanOfCall
<1>12. ASSUME NEW i \in 1..Len(lanRsp)
       PROVE  /\ LanReplyOk(lanRsp[i]) /\ LanSince(lanRsp[i].seq)' = LanSince(lanRsp[i].seq) + 1
              /\ LanSince(lanRsp[i].seq) \in Nat /\ LanSince(lanRsp[i].seq) >= 1 /\ lanRsp[i].seq \in LanSeqNo
  <2>1. LanReplyOk(lanRsp[i])
    BY <1>0, <1>12 DEF LanTidy, LanPackets
  <2> QED
    BY <1>1, <2>1, <1>9, <1>10 DEF LanReplyOk, LanOfCall
<1>13. LanEntries'
  <2>1. ASSUME NEW j \in 1..(Len(lanList) + 1)
        PROVE  /\ LanSince(lanList[j].seq)' = ((Len(lanList) + 1) - j) + 1
               /\ lanList'[j].target = LanCode(lanCmd)
               /\ lanList'[j].cmd = LanFirstCmd \/ (j = 1 /\ lanList'[j].cmd = LanCode(lanCmd))
    <3>1. CASE j = Len(lanList) + 1
      BY <1>0, <1>3, <1>6, <3>1
    <3>2. CASE j \in 1..Len(lanList)
      <4>1. LanSince(lanList[j].seq) = (Len(lanList) - j) + 1 /\ lanList[j].target = LanCode(lanCmd)
            /\ (lanList[j].cmd = LanFirstCmd \/ (j = 1 /\ lanList[j].cmd = LanCode(lanCmd)))
        BY <3>2 DEF LanTidy, LanEntries
      <4>2. lanList[j].seq \in LanSeqNo /\ lanList'[j] = lanList[j]
        <5>0. lanList \in Seq(LanListed)
          BY <1>0
        <5>1. lanList[j] \in LanListed
          BY <3>2, <5>0
        <5> QED
          BY <1>6, <3>2, <5>1 DEF LanListed
      <4> QED
        BY <1>0, <1>10, <3>2, <4>1, <4>2
    <3> QED
      BY <1>0, <2>1, <3>1, <3>2
  <2> QED
    BY <1>0, <1>1, <1>2, <1>3, <1>4, <1>6, <2>1 DEF LanTidy, LanEntries, LanSeqNo
<1>14. LanPackets'
  <2>1. ASSUME NEW i \in 1..Len(lanReq') PROVE LanRequestOk(lanReq[i])'
    <3>1. CASE i = n + 1
      <4>1. lanReq'[i] = LanPacket(c) /\ LanSince(lanReq[i].seq)' = 1 /\ c \in LanSeqNo /\ LanCode(lanCmd) # "ping"
        BY <1>0, <1>3, <1>7, <1>8, <3>1 DEF LanCode
      <4> QED
        BY <1>c, <1>8, <4>1 DEF LanRequestOk, LanOfCall, LanSeqNo
    <3>2. CASE i \in 1..n
      <4>1. /\ lanReq'[i] = lanReq[i] /\ LanRequestOk(lanReq[i]) /\ LanSince(lanReq[i].seq) \in Nat
            /\ LanSince(lanReq[i].seq)' = LanSince(lanReq[i].seq) + 1
        BY <1>7, <1>11, <3>2
      <4> QED
        BY <1>c, <4>1 DEF LanRequestOk, LanOfCall, LanSeqNo
    <3> QED
      BY <1>7, <2>1, <3>1, <3>2
  <2>2. ASSUME NEW i \in 1..Len(lanRsp') PROVE LanReplyOk(lanRsp[i])'
    <3>1. /\ lanRsp'[i] = lanRsp[i] /\ LanReplyOk(lanRsp[i]) /\ LanSince(lanRsp[i].seq) \in Nat
          /\ LanSince(lanRsp[i].seq)' = LanSince(lanRsp[i].seq) + 1
      BY <1>1, <1>12, <2>2
    <3> QED
      BY <1>c, <3>1 DEF LanReplyOk, LanOfCall, LanSeqNo
  <2> QED
    BY <1>0, <1>1, <2>1, <2>2 DEF LanPackets
<1>15. LanOrdered'
  <2>1. \A i, j \in 1..Len(lanReq') : i < j => LanSince(lanReq[i].seq)' > LanSince(lanReq[j].seq)'
    <3> SUFFICES ASSUME NEW i \in 1..Len(lanReq'), NEW j \in 1..Len(lanReq'), i < j
                 PROVE  LanSince(lanReq[i].seq)' > LanSince(lanReq[j].seq)'
      OBVIOUS
    <3>1. i \in 1..n
      BY <1>7
    <3>2. CASE j = n + 1
      BY <1>3, <1>7, <1>8, <1>11, <3>1, <3>2
    <3>3. CASE j \in 1..n
      BY <1>0, <1>7, <1>11, <3>1, <3>3 DEF LanTidy, LanOrdered
    <3> QED
      BY <1>7, <3>2, <3>3
  <2>2. \A i, j \in 1..Len(lanRsp') : i < j => LanSince(lanRsp[i].seq)' >= LanSince(lanRsp[j].seq)'
    BY <1>0, <1>1, <1>12 DEF LanTidy, LanOrdered
  <2>3. \A i \in 1..Len(lanRsp'), j \in 1..Len(lanReq') : LanSince(lanRsp[i].seq)' > LanSince(lanReq[j].seq)'
    <3> SUFFICES ASSUME NEW i \in 1..Len(lanRsp), NEW j \in 1..Len(lanReq')
                 PROVE  LanSince(lanRsp[i].seq)' > LanSince(lanReq[j].seq)'
      BY <1>1
    <3>2. CASE j = n + 1
      BY <1>3, <1>7, <1>8, <1>12, <3>2
    <3>3. CASE j \in 1..n
      BY <1>0, <1>7, <1>11, <1>12, <3>3 DEF LanTidy, LanOrdered
    <3> QED
      BY <1>7, <3>2, <3>3
  <2> QED
    BY <1>0, <1>1, <2>1, <2>2, <2>3 DEF LanTidy, LanOrdered
<1>16. LanFirst'
  <2>1. CASE Len(lanList) = 0
    <3>1. n + 1 \in 1..Len(lanReq') /\ LanSince(lanReq[n + 1].seq)' = 1
      BY <1>3, <1>7, <1>8
    <3>2. LanAnswers /\ LanAnswers'
      BY <1>0, <1>1, <2>1 DEF LanTidy, LanFirst, LanAnswers
    <3> QED
      BY <1>0, <1>1, <1>4, <1>6, <2>1, <3>1, <3>2 DEF LanFirst
  <2>2. CASE Len(lanList) > 0
    <3>1. lanList'[1] = lanList[1] /\ 1 \in 1..Len(lanList)
      BY <1>0, <1>6, <2>2
    <3>2. \A i \in 1..n : LanSince(lanReq[i].seq) = Len(lanList) => LanSince(lanReq[i].seq)' = Len(lanList')
      BY <1>6, <1>11
    <3>3. \A i \in 1..Len(lanRsp) : LanSince(lanRsp[i].seq) = Len(lanList) => LanSince(lanRsp[i].seq)' = Len(lanList')
      BY <1>6, <1>12
    <3>4. \A i \in 1..n : i \in 1..Len(lanReq')
      BY <1>7
    <3>5. LanAnswers => LanAnswers'
      BY <1>1 DEF LanAnswers
    <3>6. \/ /\ LanAnswers' /\ lanList'[1].cmd = LanFirstCmd'
             /\ \E i \in 1..Len(lanReq') : LanSince(lanReq[i].seq)' = Len(lanList')
          \/ \E i \in 1..Len(lanRsp') : LanSince(lanRsp[i].seq)' = Len(lanList') /\ lanRsp'[i].cmd = lanList'[1].cmd
      BY <1>1, <1>4, <1>7, <2>2, <3>1, <3>2, <3>3, <3>4, <3>5 DEF LanTidy, LanFirst
    <3>7. lanCmd # "close" => LanAnswers
      BY <1>0 DEF LanTidy, LanFirst
    <3>8. Len(lanList') # 0 /\ lanAt' # "idle" /\ lanCmd' = lanCmd
      BY <1>0, <1>1, <1>6
    <3> QED
      BY <3>5, <3>6, <3>7, <3>8 DEF LanFirst
  <2> QED
    BY <1>0, <2>1, <2>2
<1> QED
  BY <1>13, <1>14, <1>15, <1>16 DEF LanTidy

(* The next answer is taken from the queue, whatever becomes of it.        *)
LEMMA TailTidy ==
  ASSUME LanInv, LanEntries, LanPackets, LanOrdered, lanAt = "recv", lanCmd # "ping", lanRsp # <<>>,
         lanRsp' = Tail(lanRsp), Len(lanList') = Len(lanList),
         UNCHANGED <<lanAt, lanCmd, lanCall, lanTry, lanIntf, lanSess, lanCurr, lanReq, lanBmc>>
  PROVE  LanPackets' /\ LanOrdered'
<1> USE DEF LanSent
<1>0. lanRsp \in Seq(LanReplies) /\ Len(lanRsp) \in Nat /\ LanSigned' = LanSigned /\ LanFirstCmd' = LanFirstCmd
      /\ LanBridged' = LanBridged
  BY DEF LanInv, LanTypes, LanSigned, LanFirstCmd, LanBridged
<1>1. /\ Len(lanRsp') = Len(lanRsp) - 1 /\ Len(lanRsp) >= 1
      /\ \A i \in 1..Len(lanRsp') : lanRsp'[i] = lanRsp[i + 1] /\ i + 1 \in 1..Len(lanRsp)
  BY <1>0
<1>2. \A s : LanSince(s)' = LanSince(s)
  BY DEF LanSince
<1>3. LanPackets'
  <2>1. ASSUME NEW i \in 1..Len(lanReq') PROVE LanRequestOk(lanReq[i])'
    <3>1. LanRequestOk(lanReq[i])
      BY <2>1 DEF LanPackets
    <3> QED
      BY <1>0, <1>2, <3>1 DEF LanRequestOk, LanOfCall, LanSeqNo, LanCode
  <2>2. ASSUME NEW i \in 1..Len(lanRsp') PROVE LanReplyOk(lanRsp[i])'
    <3>1. LanReplyOk(lanRsp[i + 1]) /\ lanRsp'[i] = lanRsp[i + 1]
      BY <1>1, <2>2 DEF LanPackets
    <3> QED
      BY <1>0, <1>2, <3>1 DEF LanReplyOk, LanOfCall, LanSeqNo, LanCode
  <2> QED
    BY <2>1, <2>2 DEF LanPackets
<1>4. LanOrdered'
  <2>1. ASSUME NEW i \in 1..Len(lanRsp'), lanRsp'[i].cmd = "sendmsg", lanRsp'[i].ok
        PROVE  \E j \in (i + 1)..Len(lanRsp') : lanRsp'[j].seq = lanRsp'[i].seq /\ lanRsp'[j].cmd # "sendmsg"
    <3>0. i \in Nat /\ i + 1 \in 1..Len(lanRsp) /\ lanRsp'[i] = lanRsp[i + 1] /\ Len(lanRsp) \in Nat
      BY <1>0, <1>1, <2>1
    <3>1. PICK j \in ((i + 1) + 1)..Len(lanRsp) : lanRsp[j].seq = lanRsp[i + 1].seq /\ lanRsp[j].cmd # "sendmsg"
      BY <2>1, <3>0 DEF LanOrdered
    <3>2. j - 1 \in (i + 1)..Len(lanRsp') /\ j - 1 \in 1..Len(lanRsp') /\ (j - 1) + 1 = j
      BY <1>1, <3>0
    <3>3. lanRsp'[j - 1] = lanRsp[j]
      BY <1>1, <3>2
    <3> QED
      BY <3>0, <3>1, <3>2, <3>3
  <2>2. \A i, j \in 1..Len(lanRsp') : i < j => LanSince(lanRsp'[i].seq) >= LanSince(lanRsp'[j].seq)
    <3> TAKE i, j \in 1..Len(lanRsp')
    <3>1. i + 1 \in 1..Len(lanRsp) /\ j + 1 \in 1..Len(lanRsp) /\ (i < j => i + 1 < j + 1)
      BY <1>1
    <3>2. lanRsp'[i] = lanRsp[i + 1] /\ lanRsp'[j] = lanRsp[j + 1]
      BY <1>1
    <3> QED
      BY <3>1, <3>2 DEF LanOrdered
  <2>3. \A i \in 1..Len(lanRsp'), j \in 1..Len(lanReq) : LanSince(lanRsp'[i].seq) > LanSince(lanReq[j].seq)
    BY <1>1 DEF LanOrdered
  <2> QED
    BY <1>2, <2>1, <2>2, <2>3 DEF LanOrdered
<1> QED
  BY <1>3, <1>4

(* An answer that no entry waits for, or that cannot be read, is dropped:  *)
(* it is not the one that answers the first entry.                         *)
LEMMA DropTidy ==
  ASSUME LanInv, LanTidy, lanAt = "recv", lanCmd # "ping", lanRsp # <<>>, NEW r, r = Head(lanRsp),
         LanMatches(r.seq, r.cmd) = {} \/ ~LanReadable(r), lanRsp' = Tail(lanRsp),
         UNCHANGED <<lanAt, lanCmd, lanCall, lanTry, lanList, lanIntf, lanSess, lanCurr, lanReq, lanBmc>>
  PROVE  LanTidy'
<1> USE DEF LanSent
<1>0. lanRsp \in Seq(LanReplies) /\ Len(lanRsp) \in Nat /\ Len(lanList) \in Nat /\ DOMAIN lanList = 1..Len(lanList)
      /\ lanList \in Seq(LanListed) /\ lanCurr \in 0..LanSeqs
  BY DEF LanInv, LanTypes, LanTidy, LanEntries
<1>1. /\ Len(lanRsp') = Len(lanRsp) - 1 /\ Len(lanRsp) >= 1 /\ r = lanRsp[1]
      /\ \A i \in 1..Len(lanRsp') : lanRsp'[i] = lanRsp[i + 1] /\ i + 1 \in 1..Len(lanRsp)
  BY <1>0
<1>2. LanReplyOk(r)
  BY <1>1 DEF LanTidy, LanPackets
<1>3. LanEntries'
  BY DEF LanTidy, LanEntries, LanSince, LanFirstCmd, LanBridged
<1>4. LanPackets' /\ LanOrdered'
  BY TailTidy DEF LanTidy
<1>5. ASSUME Len(lanList) > 0, LanSince(r.seq) = Len(lanList), r.cmd = lanList[1].cmd PROVE FALSE
  <2>1. 1 \in DOMAIN lanList /\ LanSince(lanList[1].seq) = Len(lanList)
    BY <1>0, <1>5 DEF LanTidy, LanEntries
  <2>2. lanList[1] \in LanListed
    BY <1>0, <2>1
  <2>3. r.seq = lanList[1].seq
    BY <1>0, <1>2, <1>5, <2>1, <2>2, SinceRange DEF LanListed, LanReplyOk, LanOfCall
  <2>4. LanMatches(r.seq, r.cmd) # {}
    BY <1>5, <2>1, <2>3 DEF LanMatches
  <2>5. LanReadable(r)
    <3>1. r.signed = LanSigned
      BY <1>0, <1>2, <1>5 DEF LanReplyOk, LanOfCall
    <3> QED
      BY <3>1, Zenon DEF LanReadable, LanSigned
  <2> QED
    BY <2>4, <2>5
<1>6. LanFirst'
  <2>1. \A s : LanSince(s)' = LanSince(s)
    BY DEF LanSince
  <2>2. ASSUME NEW i \in 1..Len(lanRsp), i # 1 PROVE i - 1 \in 1..Len(lanRsp') /\ lanRsp'[i - 1] = lanRsp[i]
    BY <1>0, <1>1, <2>2
  <2>3. Len(lanList) > 0 =>
          \/ /\ LanAnswers /\ lanList[1].cmd = LanFirstCmd
             /\ \E i \in 1..Len(lanReq) : LanSince(lanReq[i].seq) = Len(lanList)
          \/ \E i \in 1..Len(lanRsp') : LanSince(lanRsp'[i].seq) = Len(lanList) /\ lanRsp'[i].cmd = lanList[1].cmd
    <3> SUFFICES ASSUME Len(lanList) > 0,
                        NEW i \in 1..Len(lanRsp), LanSince(lanRsp[i].seq) = Len(lanList), lanRsp[i].cmd = lanList[1].cmd
                 PROVE  \E k \in 1..Len(lanRsp') : LanSince(lanRsp'[k].seq) = Len(lanList) /\ lanRsp'[k].cmd = lanList[1].cmd
      BY DEF LanTidy, LanFirst
    <3>1. i # 1
      BY <1>1, <1>5
    <3>2. i - 1 \in 1..Len(lanRsp') /\ lanRsp'[i - 1] = lanRsp[i]
      BY <2>2, <3>1
    <3> QED
      BY <3>2
  <2> QED
    BY <2>1, <2>3 DEF LanTidy, LanFirst, LanAnswers, LanFirstCmd, LanBridged, LanCode
<1> QED
  BY <1>3, <1>4, <1>6 DEF LanTidy

(* The acknowledgement of Send Message: the first entry waits for the      *)
(* command behind it, whose answer follows.                                *)
LEMMA AckTidy ==
  ASSUME LanInv, LanTidy, lanAt = "recv", lanCmd # "ping", lanRsp # <<>>, NEW r, r = Head(lanRsp),
         LanMatches(r.seq, r.cmd) # {}, LanBridged, r.cmd = "sendmsg", r.ok, lanRsp' = Tail(lanRsp),
         lanList' = [lanList EXCEPT ![1].cmd = lanList[1].target],
         UNCHANGED <<lanAt, lanCmd, lanCall, lanTry, lanIntf, lanSess, lanCurr, lanReq, lanBmc>>
  PROVE  LanTidy'
<1> USE DEF LanSent
<1>0. lanRsp \in Seq(LanReplies) /\ Len(lanRsp) \in Nat /\ Len(lanList) \in Nat /\ DOMAIN lanList = 1..Len(lanList)
      /\ lanList \in Seq(LanListed) /\ lanCurr \in 0..LanSeqs
  BY DEF LanInv, LanTypes, LanTidy, LanEntries
<1>1. /\ Len(lanRsp') = Len(lanRsp) - 1 /\ Len(lanRsp) >= 1 /\ r = lanRsp[1] /\ 1 \in 1..Len(lanRsp)
      /\ \A i \in 1..Len(lanRsp') : lanRsp'[i] = lanRsp[i + 1] /\ i + 1 \in 1..Len(lanRsp)
  BY <1>0
<1>2. Len(lanList) >= 1 /\ LanSince(r.seq) = Len(lanList)
  BY HeadIsFirst
<1>3. 1 \in 1..Len(lanList) /\ lanList[1] \in LanListed /\ lanList[1].target = LanCode(lanCmd)
  BY <1>0, <1>2 DEF LanTidy, LanEntries
<1>4. [lanList[1] EXCEPT !.cmd = lanList[1].target] \in LanListed
  BY <1>3 DEF LanListed
<1>5. /\ lanList' \in Seq(LanListed) /\ Len(lanList') = Len(lanList)
      /\ lanList'[1] = [lanList[1] EXCEPT !.cmd = lanList[1].target]
      /\ \A j \in 1..Len(lanList) : j # 1 => lanList'[j] = lanList[j]
  BY <1>0, <1>3, <1>4
<1>6. lanList'[1].cmd = LanCode(lanCmd) /\ lanList'[1].target = lanList[1].target /\ lanList'[1].seq = lanList[1].seq
  BY <1>3, <1>5 DEF LanListed
<1>7. LanEntries'
  <2>1. \A j \in 1..Len(lanList) : lanList'[j].seq = lanList[j].seq /\ lanList'[j].target = lanList[j].target
    BY <1>5, <1>6
  <2>2. \A j \in 1..Len(lanList) : lanList'[j].cmd = LanFirstCmd \/ (j = 1 /\ lanList'[j].cmd = LanCode(lanCmd))
    BY <1>5, <1>6 DEF LanTidy, LanEntries
  <2>3. \A s : LanSince(s)' = LanSince(s)
    BY DEF LanSince
  <2>4. LanFirstCmd' = LanFirstCmd
    BY DEF LanFirstCmd, LanBridged
  <2>5. \A j \in 1..Len(lanList) : LanSince(lanList[j].seq)' = (Len(lanList) - j) + 1
    BY <2>1, <2>3 DEF LanTidy, LanEntries
  <2>6. \A j \in 1..Len(lanList) : lanList'[j].target = LanCode(lanCmd)
    BY <2>1 DEF LanTidy, LanEntries
  <2> QED
    BY <1>5, <2>2, <2>4, <2>5, <2>6 DEF LanTidy, LanEntries
<1>8. LanPackets' /\ LanOrdered'
  BY <1>5, TailTidy DEF LanTidy
<1>9. LanFirst'
  <2>1. PICK j \in (1 + 1)..Len(lanRsp) : lanRsp[j].seq = r.seq /\ lanRsp[j].cmd # "sendmsg"
    BY <1>1 DEF LanTidy, LanOrdered
  <2>2. j \in 1..Len(lanRsp) /\ j - 1 \in 1..Len(lanRsp') /\ lanRsp'[j - 1] = lanRsp[j]
    BY <1>0, <1>1
  <2>3. LanReplyOk(lanRsp[j])
    BY <2>2 DEF LanTidy, LanPackets
  <2>4. lanRsp[j].cmd = LanCode(lanCmd)
    BY <1>0, <1>2, <2>1, <2>3 DEF LanReplyOk, LanFirstCmd
  <2>5. \A s : LanSince(s)' = LanSince(s)
    BY DEF LanSince
  <2>6. \E i \in 1..Len(lanRsp') : LanSince(lanRsp'[i].seq) = Len(lanList') /\ lanRsp'[i].cmd = lanList'[1].cmd
    <3>1. LanSince(lanRsp'[j - 1].seq) = Len(lanList') /\ lanRsp'[j - 1].cmd = lanList'[1].cmd
      BY <1>2, <1>5, <1>6, <2>1, <2>2, <2>4
    <3> QED
      BY <2>2, <3>1
  <2> QED
    BY <1>2, <1>5, <2>5, <2>6 DEF LanTidy, LanFirst, LanAnswers
<1> QED
  BY <1>7, <1>8, <1>9 DEF LanTidy

(* The BMC takes the next request. Nothing on its way is further back than *)
(* its answers, and if the first request of the call is still on its way   *)
(* it is this one.                                                         *)
LEMMA BmcTidy ==
  ASSUME LanInv, LanTidy, LanBmcStep, lanCmd # "ping"
  PROVE  LanTidy'
<1> USE DEF LanSent
<1>a. PICK n : n = Len(lanRsp)
  OBVIOUS
<1>b. PICK q : q = Head(lanReq)
  OBVIOUS
<1>0. /\ lanRsp \in Seq(LanReplies) /\ lanReq \in Seq(LanRequests) /\ lanCurr \in 0..LanSeqs /\ Len(lanList) \in Nat
      /\ n \in Nat /\ lanReq # <<>> /\ lanReq' = Tail(lanReq)
      /\ UNCHANGED <<lanAt, lanCmd, lanCall, lanTry, lanList, lanCurr, lanSess, lanIntf>>
  BY <1>a DEF LanInv, LanTypes, LanTidy, LanEntries, LanBmcStep
<1>1. /\ Len(lanReq') = Len(lanReq) - 1 /\ Len(lanReq) >= 1 /\ q = lanReq[1] /\ 1 \in 1..Len(lanReq)
      /\ \A i \in 1..Len(lanReq') : lanReq'[i] = lanReq[i + 1] /\ i + 1 \in 1..Len(lanReq)
      /\ \A i \in 1..Len(lanReq) : i # 1 => i - 1 \in 1..Len(lanReq') /\ lanReq'[i - 1] = lanReq[i]
  BY <1>0, <1>b
<1>2. LanRequestOk(q) /\ q.seq \in LanSeqNo /\ lanAt # "new"
  BY <1>0, <1>1 DEF LanTidy, LanPackets, LanRequestOk, LanOfCall
<1>3. q \in LanRequests
  BY <1>0, <1>1
<1>4. q.cmd # "ping" /\ q.cmd # "sendmsg"
  BY <1>2, <1>3 DEF LanRequests, LanRequestOk, LanCmds, LanOpening
<1>5. LanSince(q.seq) \in Nat /\ LanSince(q.seq) >= 1
  BY <1>0, <1>2, SinceRange DEF LanSince, LanSeqNo
<1>6. /\ LanSigned' = LanSigned /\ LanFirstCmd' = LanFirstCmd /\ LanBridged' = LanBridged
      /\ \A s : LanSince(s)' = LanSince(s)
  BY <1>0 DEF LanSigned, LanFirstCmd, LanBridged, LanSince, LanCode
<1>7. LanEntries'
  BY <1>0, <1>6 DEF LanTidy, LanEntries
<1>8. ASSUME NEW i \in 1..Len(lanReq') PROVE LanRequestOk(lanReq[i])'
  <2>1. LanRequestOk(lanReq[i + 1]) /\ lanReq'[i] = lanReq[i + 1]
    BY <1>1, <1>2, <1>8 DEF LanTidy, LanPackets
  <2> QED
    BY <1>0, <1>6, <2>1 DEF LanRequestOk, LanOfCall, LanSeqNo, LanCode
<1>9. /\ \A i, j \in 1..Len(lanReq') : i < j => LanSince(lanReq'[i].seq) > LanSince(lanReq'[j].seq)
      /\ \A j \in 1..Len(lanReq') : LanSince(q.seq) > LanSince(lanReq'[j].seq)
  <2>1. ASSUME NEW i \in 1..Len(lanReq'), NEW j \in 1..Len(lanReq'), i < j
        PROVE  LanSince(lanReq'[i].seq) > LanSince(lanReq'[j].seq)
    <3>1. i + 1 \in 1..Len(lanReq) /\ j + 1 \in 1..Len(lanReq) /\ i + 1 < j + 1
      BY <1>1, <2>1
    <3>2. lanReq'[i] = lanReq[i + 1] /\ lanReq'[j] = lanReq[j + 1]
      BY <1>1, <2>1
    <3> QED
      BY <3>1, <3>2 DEF LanTidy, LanOrdered
  <2>2. ASSUME NEW j \in 1..Len(lanReq') PROVE LanSince(q.seq) > LanSince(lanReq'[j].seq)
    <3>1. j + 1 \in 1..Len(lanReq) /\ 1 < j + 1 /\ lanReq'[j] = lanReq[j + 1]
      BY <1>1, <2>2
    <3> QED
      BY <1>1, <3>1 DEF LanTidy, LanOrdered
  <2> QED
    BY <2>1, <2>2
<1>10. \A i \in 1..Len(lanRsp) : LanSince(lanRsp[i].seq) > LanSince(q.seq) /\ LanReplyOk(lanRsp[i])
  BY <1>1, <1>2 DEF LanTidy, LanOrdered, LanPackets
<1>11. ASSUME NEW i \in 1..Len(lanReq), i # 1, LanSince(lanReq[i].seq) = Len(lanList)
       PROVE  LanSince(q.seq) > Len(lanList) /\ \E k \in 1..Len(lanReq') : LanSince(lanReq'[k].seq) = Len(lanList)
  <2>1. i - 1 \in 1..Len(lanReq') /\ lanReq'[i - 1] = lanReq[i]
    BY <1>1, <1>11
  <2> QED
    BY <1>9, <1>11, <2>1
<1>12. CASE q.cmd \notin {"authcap1", "challenge"} /\ lanBmc = "none" /\ UNCHANGED <<lanRsp, lanBmc>>
  <2>1. LanPackets'
    <3>1. ASSUME NEW i \in 1..Len(lanRsp') PROVE LanReplyOk(lanRsp[i])'
      <4>1. LanReplyOk(lanRsp[i]) /\ lanRsp'[i] = lanRsp[i]
        BY <1>10, <1>12, <3>1
      <4> QED
        BY <1>0, <1>6, <1>12, <4>1 DEF LanReplyOk, LanOfCall, LanSeqNo, LanCode
    <3> QED
      BY <1>0, <1>2, <1>8, <3>1 DEF LanPackets
  <2>2. LanOrdered'
    <3>1. \A i \in 1..Len(lanRsp), j \in 1..Len(lanReq') : LanSince(lanRsp[i].seq) > LanSince(lanReq'[j].seq)
      <4> TAKE i \in 1..Len(lanRsp), j \in 1..Len(lanReq')
      <4>1. lanReq'[j] = lanReq[j + 1] /\ j + 1 \in 1..Len(lanReq)
        BY <1>1
      <4> QED
        BY <4>1 DEF LanTidy, LanOrdered
    <3> QED
      BY <1>6, <1>9, <1>12, <3>1 DEF LanTidy, LanOrdered
  <2>3. LanFirst'
    <3>1. ASSUME LanAnswers, LanSince(q.seq) = Len(lanList) PROVE FALSE
      BY <1>0, <1>2, <1>12, <3>1 DEF LanAnswers, LanRequestOk, LanCode
    <3>2. LanAnswers' = LanAnswers
      BY <1>0, <1>12 DEF LanAnswers
    <3>3. Len(lanList) > 0 =>
            \/ /\ LanAnswers /\ lanList[1].cmd = LanFirstCmd
               /\ \E i \in 1..Len(lanReq') : LanSince(lanReq'[i].seq) = Len(lanList)
            \/ \E i \in 1..Len(lanRsp') : LanSince(lanRsp'[i].seq) = Len(lanList) /\ lanRsp'[i].cmd = lanList[1].cmd
      BY <1>1, <1>11, <1>12, <3>1 DEF LanTidy, LanFirst
    <3> QED
      BY <1>0, <1>6, <1>12, <3>2, <3>3 DEF LanTidy, LanFirst
  <2> QED
    BY <1>7, <2>1, <2>2, <2>3 DEF LanTidy
<1>13. ASSUME NEW ok \in BOOLEAN, NEW k,
              q.cmd \in {"authcap1", "challenge"} \/ lanBmc # "none",
              lanBmc' = (CASE q.cmd = "challenge" /\ ok /\ lanBmc = "none" -> "challenged"
                           [] q.cmd = "activate" /\ ok -> "active"
                           [] q.cmd = "close" /\ ok -> "none"
                           [] OTHER -> lanBmc),
              lanRsp' = (lanRsp \o (IF q.bridged THEN <<LanAnswer(q, "sendmsg", ok, k)>> ELSE <<>>)) \o
                        (IF q.bridged /\ ~ok THEN <<>> ELSE <<LanAnswer(q, q.cmd, ok, k)>>)
       PROVE  LanTidy'
  <2>1. /\ lanBmc' = "none" => lanBmc = "none" \/ q.cmd = "close"
        /\ q.cmd = "challenge" /\ ok => lanBmc' # "none"
    BY <1>13
  <2>2. lanCmd = "close" \/ q.cmd # "close"
    BY <1>0, <1>2 DEF LanRequestOk, LanCode
  <2>3. /\ Len(lanRsp') \in {n + 1, n + 2} /\ \A i \in 1..n : lanRsp'[i] = lanRsp[i]
        /\ lanRsp'[n + 1] = LanAnswer(q, IF q.bridged THEN "sendmsg" ELSE q.cmd, ok, k)
        /\ q.bridged /\ ok => Len(lanRsp') = n + 2
        /\ Len(lanRsp') = n + 2 => q.bridged /\ lanRsp'[n + 2] = LanAnswer(q, q.cmd, ok, k)
    <3> DEFINE a == LanAnswer(q, "sendmsg", ok, k)
               b == LanAnswer(q, q.cmd, ok, k)
    <3> HIDE DEF a, b
    <3>1. CASE q.bridged /\ ok
      <4>1. lanRsp' = (lanRsp \o <<a>>) \o <<b>>
        BY <1>13, <3>1 DEF a, b
      <4>2. Len(lanRsp') = n + 2 /\ lanRsp'[n + 1] = a /\ lanRsp'[n + 2] = b /\ \A i \in 1..n : lanRsp'[i] = lanRsp[i]
        BY <1>0, <1>a, <4>1
      <4> QED
        BY <1>0, <3>1, <4>2 DEF a, b
    <3>2. CASE q.bridged /\ ~ok
      <4>1. lanRsp' = (lanRsp \o <<a>>) \o << >>
        BY <1>13, <3>2 DEF a, b
      <4>2. Len(lanRsp') = n + 1 /\ lanRsp'[n + 1] = a /\ \A i \in 1..n : lanRsp'[i] = lanRsp[i]
        BY <1>0, <1>a, <4>1
      <4> QED
        BY <1>0, <3>2, <4>2 DEF a, b
    <3>3. CASE ~q.bridged
      <4>1. lanRsp' = (lanRsp \o << >>) \o <<b>>
        BY <1>13, <3>3 DEF a, b
      <4>2. Len(lanRsp') = n + 1 /\ lanRsp'[n + 1] = b /\ \A i \in 1..n : lanRsp'[i] = lanRsp[i]
        BY <1>0, <1>a, <4>1
      <4> QED
        BY <1>0, <3>3, <4>2 DEF a, b
    <3> QED
      BY <1>13, <3>1, <3>2, <3>3
  <2>4. ASSUME NEW i \in 1..Len(lanRsp'), i \notin 1..n
        PROVE  /\ lanRsp'[i].kind = "ipmi" /\ lanRsp'[i].call = q.call /\ lanRsp'[i].seq = q.seq
               /\ lanRsp'[i].ok = ok /\ lanRsp'[i].signed = q.signed
               /\ lanRsp'[i].cmd = q.cmd \/ (q.bridged /\ lanRsp'[i].cmd = "sendmsg")
               /\ lanRsp'[i].cmd = "sendmsg" => i = n + 1 /\ q.bridged
    <3>1. i = n + 1 \/ (i = n + 2 /\ Len(lanRsp') = n + 2)
      BY <1>0, <2>3, <2>4
    <3>2. CASE i = n + 1
      BY <1>0, <1>4, <2>3, <3>2 DEF LanAnswer
    <3>3. CASE i = n + 2 /\ Len(lanRsp') = n + 2
      BY <1>0, <1>4, <2>3, <3>3 DEF LanAnswer
    <3> QED
      BY <3>1, <3>2, <3>3
  <2>5. \A i \in 1..n : i \in 1..Len(lanRsp') /\ i \in 1..Len(lanRsp)
    BY <1>0, <1>a, <2>3
  <2>6. LanPackets'
    <3>1. ASSUME NEW i \in 1..Len(lanRsp') PROVE LanReplyOk(lanRsp[i])'
      <4>1. CASE i \in 1..n
        <5>1. LanReplyOk(lanRsp[i]) /\ lanRsp'[i] = lanRsp[i]
          BY <1>10, <2>3, <2>5, <4>1
        <5>2. lanRsp[i].cmd = "challenge" /\ LanSince(lanRsp[i].seq) <= Len(lanList) => lanCmd # "close"
          BY <5>1 DEF LanReplyOk, LanFirstCmd, LanCode
        <5> QED
          BY <1>0, <1>6, <2>1, <2>2, <5>1, <5>2 DEF LanReplyOk, LanOfCall, LanSeqNo, LanCode
      <4>2. CASE i \notin 1..n
        BY <1>0, <1>2, <1>6, <2>1, <2>4, <4>2 DEF LanReplyOk, LanRequestOk, LanOfCall, LanSeqNo, LanFirstCmd, LanCode
      <4> QED
        BY <4>1, <4>2
    <3> QED
      BY <1>0, <1>2, <1>8, <3>1 DEF LanPackets
  <2>7. LanOrdered'
    <3>1. ASSUME NEW i \in 1..Len(lanRsp'), lanRsp'[i].cmd = "sendmsg", lanRsp'[i].ok
          PROVE  \E j \in (i + 1)..Len(lanRsp') : lanRsp'[j].seq = lanRsp'[i].seq /\ lanRsp'[j].cmd # "sendmsg"
      <4>1. CASE i \in 1..n
        <5>1. PICK j \in (i + 1)..Len(lanRsp) : lanRsp[j].seq = lanRsp[i].seq /\ lanRsp[j].cmd # "sendmsg"
          BY <1>a, <2>3, <3>1, <4>1 DEF LanTidy, LanOrdered
        <5>2. j \in 1..n /\ j \in (i + 1)..Len(lanRsp')
          BY <1>0, <1>a, <2>3, <4>1
        <5> QED
          BY <2>3, <4>1, <5>1, <5>2
      <4>2. CASE i \notin 1..n
        <5>1. i = n + 1 /\ q.bridged /\ ok /\ lanRsp'[i].seq = q.seq
          BY <2>4, <3>1, <4>2
        <5>2. Len(lanRsp') = n + 2 /\ lanRsp'[n + 2] = LanAnswer(q, q.cmd, ok, k)
          BY <2>3, <5>1
        <5>3. n + 2 \in (i + 1)..Len(lanRsp')
          BY <1>0, <5>1, <5>2
        <5>4. lanRsp'[n + 2].seq = q.seq /\ lanRsp'[n + 2].cmd # "sendmsg"
          BY <1>4, <5>2 DEF LanAnswer
        <5> QED
          BY <5>1, <5>3, <5>4
      <4> QED
        BY <4>1, <4>2
    <3>2. \A i \in 1..Len(lanRsp') : /\ i \in 1..n => lanRsp'[i] = lanRsp[i] /\ LanSince(lanRsp'[i].seq) > LanSince(q.seq)
                                     /\ i \notin 1..n => LanSince(lanRsp'[i].seq) = LanSince(q.seq)
      BY <1>10, <2>3, <2>4, <2>5
    <3>3. ASSUME NEW i \in 1..Len(lanRsp'), NEW j \in 1..Len(lanRsp'), i < j
          PROVE  LanSince(lanRsp'[i].seq) >= LanSince(lanRsp'[j].seq)
      <4>1. CASE j \in 1..n
        <5>1. i \in 1..n /\ lanRsp'[i] = lanRsp[i] /\ lanRsp'[j] = lanRsp[j]
          BY <1>0, <2>3, <3>3, <4>1
        <5> QED
          BY <1>a, <3>3, <4>1, <5>1 DEF LanTidy, LanOrdered
      <4>2. CASE j \notin 1..n /\ i \in 1..n
        <5>1. LanSince(lanRsp'[i].seq) > LanSince(q.seq) /\ LanSince(lanRsp'[j].seq) = LanSince(q.seq)
          BY <3>2, <4>2
        <5>2. LanSince(lanRsp'[i].seq) \in Nat
          BY <1>0, <1>a, <1>10, <3>2, <4>2, SinceRange, LanNumbers DEF LanReplyOk, LanOfCall
        <5> QED
          BY <1>5, <5>1, <5>2
      <4>3. CASE j \notin 1..n /\ i \notin 1..n
        BY <1>5, <3>2, <4>3
      <4> QED
        BY <4>1, <4>2, <4>3
    <3>4. ASSUME NEW i \in 1..Len(lanRsp'), NEW j \in 1..Len(lanReq')
          PROVE  LanSince(lanRsp'[i].seq) > LanSince(lanReq'[j].seq)
      <4>1. CASE i \in 1..n
        <5>1. lanReq'[j] = lanReq[j + 1] /\ j + 1 \in 1..Len(lanReq) /\ lanRsp'[i] = lanRsp[i]
          BY <1>1, <2>3, <4>1, <3>4
        <5> QED
          BY <1>a, <4>1, <5>1 DEF LanTidy, LanOrdered
      <4>2. CASE i \notin 1..n
        BY <1>9, <3>2, <4>2
      <4> QED
        BY <4>1, <4>2
    <3> QED
      BY <1>6, <1>9, <3>1, <3>3, <3>4 DEF LanOrdered
  <2>8. LanFirst'
    <3>1. LanAnswers /\ lanCmd # "close" => LanAnswers'
      BY <1>0, <2>1, <2>2 DEF LanAnswers
    <3>2. LanSince(q.seq) > Len(lanList) => q.cmd # "close"
      BY <1>0, <1>2, <1>5 DEF LanRequestOk
    <3>3. ASSUME Len(lanList) > 0
          PROVE  \/ /\ LanAnswers' /\ lanList[1].cmd = LanFirstCmd
                    /\ \E i \in 1..Len(lanReq') : LanSince(lanReq'[i].seq) = Len(lanList)
                 \/ \E i \in 1..Len(lanRsp') : LanSince(lanRsp'[i].seq) = Len(lanList) /\ lanRsp'[i].cmd = lanList[1].cmd
      <4>1. CASE \E i \in 1..Len(lanRsp) : LanSince(lanRsp[i].seq) = Len(lanList) /\ lanRsp[i].cmd = lanList[1].cmd
        BY <1>a, <2>3, <2>5, <4>1
      <4>2. CASE /\ LanAnswers /\ lanList[1].cmd = LanFirstCmd /\ LanSince(q.seq) = Len(lanList)
        <5>1. n + 1 \in 1..Len(lanRsp') /\ lanRsp'[n + 1].seq = q.seq
              /\ lanRsp'[n + 1].cmd = (IF q.bridged THEN "sendmsg" ELSE q.cmd)
          BY <1>0, <2>3 DEF LanAnswer
        <5>2. (IF q.bridged THEN "sendmsg" ELSE q.cmd) = LanFirstCmd
          BY <1>0, <1>2, <4>2 DEF LanRequestOk, LanFirstCmd
        <5> QED
          BY <4>2, <5>1, <5>2
      <4>3. ASSUME LanAnswers, lanList[1].cmd = LanFirstCmd,
                   NEW i \in 1..Len(lanReq), i # 1, LanSince(lanReq[i].seq) = Len(lanList)
            PROVE  LanAnswers' /\ \E j \in 1..Len(lanReq') : LanSince(lanReq'[j].seq) = Len(lanList)
        BY <1>0, <1>11, <2>1, <3>2, <4>3 DEF LanAnswers
      <4> QED
        BY <1>1, <3>3, <4>1, <4>2, <4>3 DEF LanTidy, LanFirst
    <3>4. Len(lanList) = 0 => q.cmd # "close"
      BY <1>2, <1>5 DEF LanRequestOk
    <3>5. lanAt = "idle" => Len(lanList) = 0
      BY DEF LanTidy, LanEntries
    <3>6. Len(lanList) = 0 \/ lanCmd # "close" => LanAnswers'
      BY <1>0, <2>1, <2>2, <3>1, <3>4 DEF LanTidy, LanFirst, LanAnswers
    <3>7. lanAt = "idle" => lanBmc' # "none"
      BY <2>1, <3>4, <3>5 DEF LanTidy, LanFirst
    <3> QED
      BY <1>0, <1>6, <3>3, <3>6, <3>7 DEF LanFirst
  <2> QED
    BY <1>7, <2>6, <2>7, <2>8 DEF LanTidy
<1> QED
  BY <1>4, <1>12, <1>13, <1>b DEF LanBmcStep

(* An answer is delivered twice.                                           *)
LEMMA TwiceTidy ==
  ASSUME LanInv, LanTidy, lanRsp # <<>>, lanCmd # "ping", lanAt # "new", lanRsp' = <<Head(lanRsp)>> \o lanRsp,
         UNCHANGED <<lanReq, lanAt, lanCmd, lanCall, lanTry, lanList, lanCurr, lanSess, lanIntf, lanBmc>>
  PROVE  LanTidy'
<1> USE DEF LanSent
<1> DEFINE old(i) == IF i = 1 THEN 1 ELSE i - 1
<1>0. lanRsp \in Seq(LanReplies) /\ Len(lanRsp) \in Nat
  BY DEF LanInv, LanTypes
<1>1. /\ Len(lanRsp') = Len(lanRsp) + 1 /\ Len(lanRsp) >= 1
      /\ \A i \in 1..Len(lanRsp') : lanRsp'[i] = lanRsp[old(i)] /\ old(i) \in 1..Len(lanRsp)
      /\ \A i \in 1..Len(lanRsp) : i + 1 \in 1..Len(lanRsp') /\ lanRsp'[i + 1] = lanRsp[i]
  BY <1>0
<1>2. /\ LanSigned' = LanSigned /\ LanFirstCmd' = LanFirstCmd /\ LanBridged' = LanBridged
      /\ \A s : LanSince(s)' = LanSince(s)
  BY DEF LanSigned, LanFirstCmd, LanBridged, LanSince, LanCode
<1>3. LanEntries'
  BY <1>2 DEF LanTidy, LanEntries
<1>4. LanPackets'
  <2>1. ASSUME NEW i \in 1..Len(lanReq') PROVE LanRequestOk(lanReq[i])'
    <3>1. LanRequestOk(lanReq[i])
      BY <2>1 DEF LanTidy, LanPackets
    <3> QED
      BY <1>2, <3>1 DEF LanRequestOk, LanOfCall, LanSeqNo, LanCode
  <2>2. ASSUME NEW i \in 1..Len(lanRsp') PROVE LanReplyOk(lanRsp[i])'
    <3>1. PICK j \in 1..Len(lanRsp) : lanRsp'[i] = lanRsp[j]
      BY <1>1, <2>2
    <3>2. LanReplyOk(lanRsp[j])
      BY DEF LanTidy, LanPackets
    <3> QED
      BY <1>2, <3>1, <3>2 DEF LanReplyOk, LanOfCall, LanSeqNo, LanCode
  <2> QED
    BY <2>1, <2>2 DEF LanPackets
<1>5. LanOrdered'
  <2>1. ASSUME NEW i \in 1..Len(lanRsp'), lanRsp'[i].cmd = "sendmsg", lanRsp'[i].ok
        PROVE  \E j \in (i + 1)..Len(lanRsp') : lanRsp'[j].seq = lanRsp'[i].seq /\ lanRsp'[j].cmd # "sendmsg"
    <3>1. lanRsp'[i] = lanRsp[old(i)] /\ old(i) \in 1..Len(lanRsp)
      BY <1>1, <2>1
    <3>2. PICK j \in (old(i) + 1)..Len(lanRsp) : lanRsp[j].seq = lanRsp[old(i)].seq /\ lanRsp[j].cmd # "sendmsg"
      BY <2>1, <3>1 DEF LanTidy, LanOrdered
    <3>3. j \in 1..Len(lanRsp) /\ j + 1 \in (i + 1)..Len(lanRsp')
      BY <1>0, <1>1, <2>1, <3>1
    <3>4. lanRsp'[j + 1] = lanRsp[j]
      BY <1>1, <3>3
    <3> QED
      BY <3>1, <3>2, <3>3, <3>4
  <2>2. ASSUME NEW i \in 1..Len(lanRsp'), NEW j \in 1..Len(lanRsp'), i < j
        PROVE  LanSince(lanRsp'[i].seq) >= LanSince(lanRsp'[j].seq)
    <3>1. lanRsp'[i] = lanRsp[old(i)] /\ lanRsp'[j] = lanRsp[old(j)] /\ old(i) \in 1..Len(lanRsp) /\ old(j) \in 1..Len(lanRsp)
      BY <1>1, <2>2
    <3>2. old(i) < old(j) \/ old(i) = old(j)
      BY <1>0, <1>1, <2>2
    <3>3. LanReplyOk(lanRsp[old(i)])
      BY <3>1 DEF LanTidy, LanPackets
    <3>4. LanSince(lanRsp[old(i)].seq) \in 1..LanSeqs
      BY <3>3, SinceRange DEF LanReplyOk, LanOfCall, LanTidy, LanEntries
    <3>5. CASE old(i) = old(j)
      BY <3>1, <3>4, <3>5
    <3>6. CASE old(i) < old(j)
      BY <3>1, <3>6 DEF LanTidy, LanOrdered
    <3> QED
      BY <3>2, <3>5, <3>6
  <2>3. \A i \in 1..Len(lanRsp'), j \in 1..Len(lanReq) : LanSince(lanRsp'[i].seq) > LanSince(lanReq[j].seq)
    BY <1>1 DEF LanTidy, LanOrdered
  <2> QED
    BY <1>2, <2>1, <2>2, <2>3 DEF LanTidy, LanOrdered
<1>6. LanFirst'
  <2>1. Len(lanList) > 0 =>
          \/ /\ LanAnswers /\ lanList[1].cmd = LanFirstCmd
             /\ \E i \in 1..Len(lanReq) : LanSince(lanReq[i].seq) = Len(lanList)
          \/ \E i \in 1..Len(lanRsp') : LanSince(lanRsp'[i].seq) = Len(lanList) /\ lanRsp'[i].cmd = lanList[1].cmd
    <3> SUFFICES ASSUME Len(lanList) > 0,
                        NEW i \in 1..Len(lanRsp), LanSince(lanRsp[i].seq) = Len(lanList), lanRsp[i].cmd = lanList[1].cmd
                 PROVE  \E j \in 1..Len(lanRsp') : LanSince(lanRsp'[j].seq) = Len(lanList) /\ lanRsp'[j].cmd = lanList[1].cmd
      BY DEF LanTidy, LanFirst
    <3>1. i + 1 \in 1..Len(lanRsp') /\ lanRsp'[i + 1] = lanRsp[i]
      BY <1>1
    <3> QED
      BY <3>1
  <2> QED
    BY <1>2, <2>1 DEF LanTidy, LanFirst, LanAnswers
<1> QED
  BY <1>3, <1>4, <1>5, <1>6 DEF LanTidy

(* Opening and the presence ping, where nothing else is on its way.        *)
LEMMA PingTidy ==
  ASSUME LanInv, LanTidy, lanAt \notin {"closed", "failing"}, lanCmd = "ping", ~lanGaveUp', ~lanLost',
         \/ ipmi_lan_open \/ ipmi_lan_ping \/ ipmi_lan_poll_recv \/ ipmi_lan_recv_packet \/ LanBmcStep \/ LanNetwork
  PROVE  /\ lanAt' # "closed" => LanTidy'
         /\ lanGot' = lanGot \/ (lanGot'.of = lanGot'.call /\ ~(lanGot'.ack /\ lanGot'.signed))
<1> USE DEF LanSent
<1>0. /\ lanCurr \in 0..LanSeqs /\ LanRetry \in Nat \ {0} /\ lanIntf \in LanFlags
      /\ lanAt \in {"new", "send", "recv"} /\ lanTry \in Nat /\ lanTry < LanRetry
      /\ lanList = <<>> /\ ~lanIntf.bridge
  <2>1. lanIntf \in LanFlags /\ lanTry \in Nat /\ lanAt \in {"new", "send", "recv", "idle", "closed", "failing"}
    BY DEF LanInv, LanTypes, LanCallTypes
  <2>2. LanEntries /\ lanAt \notin {"idle", "closed", "failing"}
    BY DEF LanTidy, LanEntries
  <2>3. Len(lanList) = 0 /\ lanList \in Seq(LanListed)
    BY <2>2 DEF LanEntries
  <2>4. lanList = <<>>
    BY <2>3
  <2> QED
    BY <2>1, <2>2, <2>4, LanNumbers DEF LanEntries, LanOpening
<1>1. \/ lanReq = <<>> /\ lanRsp = <<>>
      \/ lanAt = "recv" /\ lanReq = <<[cmd |-> "ping", call |-> lanCall]>> /\ lanRsp = <<>>
      \/ lanAt = "recv" /\ lanReq = <<>> /\ lanRsp = <<[kind |-> "pong", call |-> lanCall]>>
  BY DEF LanTidy, LanPackets
<1>2. ASSUME lanCmd' = "ping", lanAt' \in {"send", "recv"}, lanList' = <<>>, lanCurr' = lanCurr, lanTry' \in Nat,
             lanTry' < LanRetry, lanIntf'.bridge = FALSE,
             \/ lanReq' = <<>> /\ lanRsp' = <<>>
             \/ lanAt' = "recv" /\ lanReq' = <<[cmd |-> "ping", call |-> lanCall']>> /\ lanRsp' = <<>>
             \/ lanAt' = "recv" /\ lanReq' = <<>> /\ lanRsp' = <<[kind |-> "pong", call |-> lanCall']>>
      PROVE  LanTidy'
  <2>1. LanEntries'
    BY <1>0, <1>2 DEF LanEntries
  <2>2. LanPackets'
    BY <1>2 DEF LanPackets
  <2>3. LanOrdered' /\ LanFirst'
    BY <1>2 DEF LanOrdered, LanFirst
  <2> QED
    BY <2>1, <2>2, <2>3 DEF LanTidy
<1>3. CASE ipmi_lan_open
  <2>0. lanGot' = lanGot /\ lanAt = "new"
    BY <1>3 DEF ipmi_lan_open
  <2> SUFFICES ASSUME lanAt' # "closed" PROVE LanTidy'
    BY <2>0
  <2>1. /\ lanCmd' = "ping" /\ lanAt' = "send" /\ lanTry' = 0 /\ lanIntf'.bridge = FALSE
        /\ UNCHANGED <<lanList, lanCurr, lanReq, lanRsp>>
    BY <1>0, <1>3 DEF ipmi_lan_open, LanBegin, LanFlags
  <2>2. lanReq' = <<>> /\ lanRsp' = <<>>
    BY <1>1, <2>0, <2>1
  <2>3. lanTry' \in Nat /\ lanTry' < LanRetry
    BY <1>0, <2>1
  <2> QED
    BY <1>0, <1>2, <2>1, <2>2, <2>3
<1>4. CASE ipmi_lan_ping
  <2>1. /\ lanReq = <<>> /\ lanRsp = <<>>
    BY <1>1, <1>4 DEF ipmi_lan_ping
  <2>2. /\ lanReq' = <<[cmd |-> "ping", call |-> lanCall]>> /\ lanRsp' = <<>>
        /\ UNCHANGED <<lanCmd, lanCall, lanTry, lanList, lanCurr, lanIntf, lanGot>> /\ lanAt' = "recv"
    BY <1>4, <2>1 DEF ipmi_lan_ping
  <2> QED
    BY <1>0, <1>2, <2>2 DEF LanFlags
<1>5. CASE ipmi_lan_poll_recv
  <2>1. lanReq = <<>> /\ lanRsp = <<[kind |-> "pong", call |-> lanCall]>>
    BY <1>1, <1>5 DEF ipmi_lan_poll_recv
  <2>2. Head(lanRsp) = [kind |-> "pong", call |-> lanCall] /\ Tail(lanRsp) = <<>>
    BY <2>1
  <2>3. /\ lanGot' = [call |-> lanCall, of |-> lanCall, ack |-> FALSE, signed |-> FALSE]
        /\ lanRsp' = <<>> /\ UNCHANGED <<lanList, lanCurr, lanReq>>
        /\ LanBegin("authcap1") /\ UNCHANGED lanIntf
    BY <1>5, <2>2 DEF ipmi_lan_poll_recv, LanPong, ipmi_lan_activate_session
  <2>4. LanEntries'
    BY <1>0, <2>3 DEF LanEntries, LanBegin
  <2>5. LanPackets' /\ LanOrdered' /\ LanFirst'
    BY <1>0, <2>1, <2>3 DEF LanPackets, LanOrdered, LanFirst, LanBegin, LanAnswers
  <2> QED
    BY <2>3, <2>4, <2>5 DEF LanTidy
<1>6. CASE ipmi_lan_recv_packet
  BY <1>6 DEF ipmi_lan_recv_packet, LanUnanswered
<1>7. CASE LanBmcStep
  <2>1. lanReq = <<[cmd |-> "ping", call |-> lanCall]>> /\ lanRsp = <<>> /\ lanAt = "recv"
    BY <1>1, <1>7 DEF LanBmcStep
  <2>2. Head(lanReq).cmd = "ping" /\ Head(lanReq).call = lanCall /\ Tail(lanReq) = <<>>
    BY <2>1
  <2>3. /\ lanReq' = <<>> /\ lanRsp' = Append(lanRsp, [kind |-> "pong", call |-> lanCall])
        /\ UNCHANGED <<lanAt, lanCmd, lanCall, lanTry, lanList, lanCurr, lanIntf, lanGot>>
    BY <1>7, <2>2 DEF LanBmcStep
  <2>4. lanRsp' = <<[kind |-> "pong", call |-> lanCall]>>
    BY <2>1, <2>3
  <2> QED
    BY <1>0, <1>2, <2>1, <2>3, <2>4 DEF LanFlags
<1>8. CASE LanNetwork
  <2>1. lanRsp # <<>> /\ (lanLost' = TRUE \/ lanLost' = (lanLost \/ Head(lanRsp).kind = "pong"))
    BY <1>1, <1>8 DEF LanNetwork
  <2>2. Head(lanRsp).kind # "pong"
    BY <2>1, Zenon
  <2> QED
    BY <1>1, <2>1, <2>2
<1> QED
  BY <1>3, <1>4, <1>5, <1>6, <1>7, <1>8

(* What the history says stays said.                                       *)
LEMMA LanHistory == [LanNext]_lanVars => (lanLost => lanLost') /\ (lanGaveUp => lanGaveUp')
<1> SUFFICES ASSUME [LanNext]_lanVars PROVE (lanLost => lanLost') /\ (lanGaveUp => lanGaveUp')
  OBVIOUS
<1>1. CASE UNCHANGED lanVars
  BY <1>1 DEF lanVars
<1>2. CASE ipmi_lan_open
  BY <1>2 DEF ipmi_lan_open
<1>3. CASE ipmi_lan_ping
  BY <1>3 DEF ipmi_lan_ping
<1>4. CASE LanProgram
  BY <1>4 DEF LanProgram
<1>5. CASE LanBmcStep
  BY <1>5 DEF LanBmcStep
<1>6. CASE ipmi_lan_send_cmd
  <2>1. (lanLost' = TRUE /\ lanGaveUp' = lanGaveUp) \/ (lanLost' = lanLost /\ lanGaveUp' = (lanGaveUp \/ lanCmd = "reset"))
    BY <1>6 DEF ipmi_lan_send_cmd
  <2>2. CASE lanLost' = TRUE /\ lanGaveUp' = lanGaveUp
    BY <2>2
  <2>3. CASE lanLost' = lanLost /\ lanGaveUp' = (lanGaveUp \/ lanCmd = "reset")
    <3>1. lanLost => lanLost'
      BY <2>3
    <3>2. lanGaveUp => lanGaveUp'
      BY <2>3
    <3> QED
      BY <3>1, <3>2
  <2> QED
    BY <2>1, <2>2, <2>3
<1>7. CASE ipmi_lan_poll_recv
  <2>1. lanGaveUp' = lanGaveUp /\ \E b : lanLost' = (lanLost \/ b)
    BY <1>7, Zenon DEF ipmi_lan_poll_recv
  <2> QED
    BY <2>1, Zenon
<1>8. CASE ipmi_lan_recv_packet \/ LanRecvError
  BY <1>8 DEF ipmi_lan_recv_packet, LanRecvError, LanUnanswered
<1>9. CASE LanNetwork
  <2>1. lanGaveUp' = lanGaveUp /\ (lanLost' = TRUE \/ lanLost' = (lanLost \/ Head(lanRsp).kind = "pong"))
    BY <1>9 DEF LanNetwork
  <2> QED
    BY <2>1, Zenon
<1> QED
  BY <1>1, <1>2, <1>3, <1>4, <1>5, <1>6, <1>7, <1>8, <1>9 DEF LanNext, LanProgramStep

(* Only a send that fails leads to the loop without end.                   *)
LEMMA LanFailing == ASSUME LanInv, [LanNext]_lanVars, lanAt' = "failing", lanAt # "failing" PROVE lanLost'
<1>0. ASSUME NEW c \in BOOLEAN, ipmi_lan_close(c) PROVE FALSE
  BY <1>0 DEF ipmi_lan_close, LanBegin
<1>1. lanIntf.abort \in BOOLEAN /\ lanCmd \in LanCmds
  BY DEF LanInv, LanTypes, LanCallTypes, LanFlags
<1>2. ASSUME NEW r, lanAt = "recv", ipmi_lan_activate_session(r) PROVE FALSE
  <2>1. lanCmd # "reset"
    BY <1>2 DEF LanInv, LanControl
  <2>2. CASE lanCmd \in {"ping", "user", "keepalive", "close"}
    BY <1>2, <2>2 DEF ipmi_lan_activate_session, LanBegin, LanReport, ipmi_close_session_cmd
  <2>3. CASE lanCmd \in {"authcap1", "authcap2"}
    BY <1>0, <1>1, <1>2, <2>3 DEF ipmi_lan_activate_session, ipmi_get_auth_capabilities_cmd, LanBegin
  <2>4. CASE lanCmd = "challenge"
    BY <1>0, <1>1, <1>2, <2>4 DEF ipmi_lan_activate_session, ipmi_get_session_challenge_cmd, LanBegin
  <2>5. CASE lanCmd = "activate"
    BY <1>0, <1>1, <1>2, <2>5 DEF ipmi_lan_activate_session, ipmi_activate_session_cmd, LanBegin
  <2>6. CASE lanCmd = "privlvl"
    BY <1>0, <1>1, <1>2, <2>6 DEF ipmi_lan_activate_session, ipmi_set_session_privlvl_cmd
  <2> QED
    BY <1>1, <2>1, <2>2, <2>3, <2>4, <2>5, <2>6 DEF LanCmds, LanOpening
<1>3. CASE ipmi_lan_poll_recv
  BY <1>2, <1>3 DEF ipmi_lan_poll_recv, LanPong
<1>4. CASE ipmi_lan_recv_packet \/ LanRecvError
  BY <1>2, <1>4 DEF ipmi_lan_recv_packet, LanRecvError, LanUnanswered, LanPong
<1>5. CASE LanProgram
  BY <1>0, <1>1, <1>5 DEF LanProgram, LanBegin
<1>6. CASE ipmi_lan_open \/ ipmi_lan_ping \/ LanBmcStep \/ LanNetwork \/ UNCHANGED lanVars
  BY <1>6 DEF ipmi_lan_open, ipmi_lan_ping, LanBmcStep, LanNetwork, lanVars, LanBegin
<1>7. CASE ipmi_lan_send_cmd
  BY <1>7 DEF ipmi_lan_send_cmd
<1> QED
  BY <1>3, <1>4, <1>5, <1>6, <1>7 DEF LanNext, LanProgramStep

(* Every step keeps the answer of a call its own.                          *)
LEMMA LanMatchedStep == LanRoom /\ LanInv /\ LanMatched /\ [LanNext]_lanVars => LanMatched'
<1> SUFFICES ASSUME LanRoom, LanInv, LanMatched, [LanNext]_lanVars, ~lanLost', ~lanGaveUp'
             PROVE  /\ lanGot' = lanGot \/ (lanGot'.of = lanGot'.call /\ ~(lanGot'.ack /\ lanGot'.signed))
                    /\ lanAt' # "closed" => LanTidy'
  BY LanHistory, LanFailing DEF LanMatched, LanRightAnswer
<1>1. ~lanLost /\ ~lanGaveUp
  BY LanHistory
<1>2. CASE UNCHANGED lanVars
  BY <1>1, <1>2 DEF lanVars, LanMatched, LanTidy, LanEntries, LanPackets, LanOrdered, LanFirst, LanRequestOk, LanReplyOk,
     LanOfCall, LanSent, LanSince, LanSigned, LanFirstCmd, LanBridged, LanAnswers, LanCode
<1>3. CASE LanNext
  <2>0. lanAt \notin {"closed", "failing"} /\ LanTidy /\ ~LanRecvError
    BY <1>1, <1>3 DEF LanMatched, LanNext, LanProgramStep, ipmi_lan_open, ipmi_lan_ping, ipmi_lan_send_cmd,
       ipmi_lan_poll_recv, LanRecvError, ipmi_lan_recv_packet, LanProgram, LanBmcStep, LanNetwork
  <2>1. CASE lanCmd = "ping"
    <3>1. ~ipmi_lan_send_cmd /\ ~LanProgram
      BY <2>0, <2>1 DEF LanTidy, LanEntries, ipmi_lan_send_cmd, LanProgram
    <3> QED
      BY <1>3, <2>0, <2>1, <3>1, PingTidy DEF LanNext, LanProgramStep
  <2>2. CASE lanCmd # "ping"
    <3>0. lanAt # "new"
      BY <2>0, <2>2 DEF LanTidy, LanEntries
    <3>1. ~ipmi_lan_open /\ ~ipmi_lan_ping
      BY <2>2, <3>0 DEF ipmi_lan_open, ipmi_lan_ping
    <3>2. CASE ipmi_lan_send_cmd
      BY <2>0, <3>2, SendTidy DEF ipmi_lan_send_cmd
    <3>3. CASE ipmi_lan_poll_recv
      <4> DEFINE r == Head(lanRsp)
      <4>0. lanRsp # <<>> /\ lanAt = "recv" /\ lanRsp \in Seq(LanReplies)
        BY <3>3 DEF ipmi_lan_poll_recv, LanInv, LanTypes
      <4>1. r.kind = "ipmi"
        <5>1. 1 \in 1..Len(lanRsp) /\ r = lanRsp[1]
          BY <4>0
        <5> QED
          BY <2>0, <2>2, <3>0, <5>1 DEF LanTidy, LanPackets, LanReplyOk
      <4>2. lanRsp' = Tail(lanRsp) /\ UNCHANGED <<lanCurr, lanReq, lanBmc>>
        BY <3>3 DEF ipmi_lan_poll_recv
      <4>3. CASE LanMatches(r.seq, r.cmd) = {} \/ ~LanReadable(r)
        <5>1. UNCHANGED <<lanAt, lanCmd, lanCall, lanTry, lanList, lanIntf, lanSess, lanGot>>
          BY <3>3, <4>1, <4>3 DEF ipmi_lan_poll_recv
        <5> QED
          BY <2>0, <2>2, <4>0, <4>2, <4>3, <5>1, DropTidy
      <4>4. CASE LanMatches(r.seq, r.cmd) # {} /\ LanReadable(r)
        <5>1. ipmi_req_lookup_entry(r.seq, r.cmd) = 1 /\ r.call = lanCall
          BY <2>0, <2>2, <4>0, <4>4, HeadIsFirst
        <5>0. /\ r.signed \in BOOLEAN /\ r.ok \in BOOLEAN /\ r.cmd = lanList[1].cmd
              /\ r.signed => LanAckLen(r) = 38
              /\ ~r.signed => LanAckLen(r) = 22
          <6>1. r \in LanReplies
            BY <4>0
          <6> QED
            BY <2>0, <2>2, <4>0, <4>1, <4>4, <6>1, HeadIsFirst DEF LanReplies, LanAckLen
        <5>4. LanBridged /\ r.cmd = "sendmsg" /\ LanAckLen(r) = 38 => r.ok
          <6>1. \E b : lanLost' = (b \/ (r.kind = "ipmi" /\ r.cmd = "sendmsg" /\ r.signed /\ ~r.ok))
            BY <3>3, Zenon DEF ipmi_lan_poll_recv
          <6>2. ~(r.kind = "ipmi" /\ r.cmd = "sendmsg" /\ r.signed /\ ~r.ok)
            BY <6>1, Zenon
          <6> QED
            BY <4>1, <5>0, <6>2
        <5>5. r.cmd = "sendmsg" => LanBridged
          <6>1. lanCmd \in LanCmds /\ LanCode(lanCmd) # "sendmsg"
            BY DEF LanInv, LanTypes, LanCallTypes, LanCode, LanCmds, LanOpening
          <6>2. LanSent >= 1 /\ LanSent \in Nat
            BY <2>0, <2>2, <4>0, <4>4, HeadIsFirst DEF LanSent, LanTidy, LanEntries
          <6>3. lanList[1].cmd = LanFirstCmd \/ lanList[1].cmd = LanCode(lanCmd)
            BY <2>0, <6>2 DEF LanTidy, LanEntries
          <6> QED
            BY <5>0, <6>1, <6>3 DEF LanFirstCmd
        <5>2. CASE LanBridged /\ r.cmd = "sendmsg" /\ LanAckLen(r) = 38
          <6>1. /\ lanList' = [lanList EXCEPT ![1].cmd = lanList[1].target]
                /\ UNCHANGED <<lanAt, lanCmd, lanCall, lanTry, lanIntf, lanSess, lanGot>>
            BY <3>3, <4>1, <4>4, <5>1, <5>2 DEF ipmi_lan_poll_recv
          <6> QED
            BY <2>0, <2>2, <4>0, <4>2, <4>4, <5>2, <5>4, <6>1, AckTidy
        <5>3. CASE ~(LanBridged /\ r.cmd = "sendmsg" /\ LanAckLen(r) = 38)
          <6>1. /\ lanList' = ipmi_req_remove_entry(1)
                /\ lanGot' = [call |-> lanCall, of |-> r.call, ack |-> r.cmd = "sendmsg", signed |-> r.signed]
                /\ ipmi_lan_activate_session(r)
            BY <3>3, <4>1, <4>4, <5>1, <5>3 DEF ipmi_lan_poll_recv
          <6>2. lanList' = <<>>
            BY <6>1 DEF ipmi_req_remove_entry
          <6>3. lanGot'.of = lanGot'.call /\ ~(lanGot'.ack /\ lanGot'.signed)
            <7>1. ~(r.cmd = "sendmsg" /\ r.signed)
              BY <5>0, <5>3, <5>5
            <7>2. lanGot'.of = r.call /\ lanGot'.call = lanCall /\ lanGot'.ack = (r.cmd = "sendmsg") /\ lanGot'.signed = r.signed
              BY <6>1
            <7> QED
              BY <5>1, <7>1, <7>2, Zenon
          <6> QED
            BY <2>0, <2>2, <4>0, <4>1, <4>2, <4>4, <6>1, <6>2, <6>3, TakeTidy
        <5> QED
          BY <5>2, <5>3
      <4> QED
        BY <4>3, <4>4
    <3>4. CASE ipmi_lan_recv_packet
      <4>1. /\ lanAt = "recv" /\ lanAt' = "send" /\ lanTry' = lanTry + 1 /\ lanTry + 1 < LanRetry
            /\ UNCHANGED <<lanCmd, lanCall, lanIntf, lanSess, lanList, lanCurr, lanReq, lanRsp, lanBmc, lanGot>>
        BY <2>2, <3>4 DEF ipmi_lan_recv_packet, LanUnanswered
      <4> QED
        BY <2>0, <2>2, <4>1 DEF LanTidy, LanEntries, LanPackets, LanOrdered, LanFirst, LanRequestOk, LanReplyOk,
           LanOfCall, LanSent, LanSince, LanSigned, LanFirstCmd, LanBridged, LanAnswers, LanCode
    <3>5. CASE LanProgram
      <4>1. /\ lanAt = "idle" /\ lanAt' \in {"send", "closed"}
            /\ UNCHANGED <<lanList, lanCurr, lanReq, lanRsp, lanBmc, lanGot>>
            /\ lanAt' = "send" => /\ lanTry' = 0 /\ lanCmd' \in {"user", "reset", "keepalive", "close"}
        BY <3>5 DEF LanProgram, LanBegin, ipmi_lan_close
      <4>2. lanAt' # "closed" => LanEntries'
        BY <2>0, <4>1, LanNumbers DEF LanTidy, LanEntries, LanSent, LanOpening
      <4>3. lanAt' # "closed" => LanPackets'
        <5>1. Len(lanList) = 0 /\ Len(lanList') = 0
          BY <2>0, <4>1 DEF LanTidy, LanEntries, LanSent
        <5>2. \A s \in LanSeqNo : LanSince(s) \in 1..LanSeqs /\ LanSince(s)' = LanSince(s)
          BY <2>0, <4>1, SinceRange DEF LanSince, LanTidy, LanEntries
        <5>3. ASSUME NEW i \in 1..Len(lanReq') PROVE LanRequestOk(lanReq[i])'
          <6>1. LanRequestOk(lanReq[i]) /\ lanReq'[i] = lanReq[i]
            BY <2>0, <2>2, <4>1, <5>3 DEF LanTidy, LanPackets
          <6> QED
            BY <4>1, <5>1, <5>2, <6>1 DEF LanRequestOk, LanOfCall, LanSent, LanSeqNo
        <5>4. ASSUME NEW i \in 1..Len(lanRsp') PROVE LanReplyOk(lanRsp[i])'
          <6>1. LanReplyOk(lanRsp[i]) /\ lanRsp'[i] = lanRsp[i]
            BY <2>0, <2>2, <4>1, <5>4 DEF LanTidy, LanPackets
          <6> QED
            BY <4>1, <5>1, <5>2, <6>1 DEF LanReplyOk, LanOfCall, LanSent, LanSeqNo
        <5> QED
          BY <4>1, <5>3, <5>4 DEF LanPackets
      <4>4. lanAt' # "closed" => LanOrdered' /\ LanFirst'
        <5>1. \A s : LanSince(s)' = LanSince(s)
          BY <4>1 DEF LanSince
        <5>2. Len(lanList') = 0 /\ lanBmc' # "none" /\ (lanAt' # "closed" => lanCmd' # "ping" /\ lanAt' # "idle")
          BY <2>0, <4>1 DEF LanTidy, LanEntries, LanFirst, LanSent
        <5>3. LanOrdered'
          BY <2>0, <2>2, <4>1, <5>1 DEF LanTidy, LanOrdered
        <5> QED
          BY <5>2, <5>3 DEF LanFirst, LanSent, LanAnswers
      <4> QED
        BY <4>1, <4>2, <4>3, <4>4 DEF LanTidy
    <3>6. CASE LanBmcStep
      BY <2>0, <2>2, <3>6, BmcTidy DEF LanBmcStep
    <3>7. CASE LanNetwork
      <4>1. /\ lanRsp # <<>> /\ lanRsp' = <<Head(lanRsp)>> \o lanRsp
            /\ UNCHANGED <<lanReq, lanAt, lanCmd, lanCall, lanTry, lanList, lanCurr, lanSess, lanIntf, lanBmc, lanGot>>
        BY <3>7 DEF LanNetwork
      <4> QED
        BY <2>0, <2>2, <3>0, <4>1, TwiceTidy
    <3> QED
      BY <1>3, <2>0, <3>1, <3>2, <3>3, <3>4, <3>5, <3>6, <3>7 DEF LanNext, LanProgramStep
  <2> QED
    BY <2>1, <2>2
<1> QED
  BY <1>2, <1>3

LEMMA LanMatchedInit == LanInit => LanMatched
BY LanNumbers DEF LanInit, LanMatched, LanRightAnswer, LanTidy, LanEntries, LanPackets, LanOrdered, LanFirst, LanSent
-----------------------------------------------------------------------------
(* The console. Requests to the BMC and its answers; seq 0 marks packets   *)
(* that only acknowledge.                                                  *)
SolNo == 0..SolSeqs
SolReqs == [seq : SolNo, data : Seq(Nat), acks : SolNo, accepted : Nat]
SolRsps == [seq : SolNo, data : Seq(Nat), acks : SolNo, accepted : Nat, nack : BOOLEAN]
SolPays == [kind : {"none", "input", "break", "keepalive"}, seq : SolNo, buf : Seq(Nat), count : Nat, try : Nat, outer : Nat]
SolBmcs == [last : SolNo, accepted : Nat, got : Seq(Nat), seq : SolNo, first : Nat \ {0}, upto : Nat]
SolKeyboards == [pending : BOOLEAN, cr : BOOLEAN, typed : Nat, data : Seq(Nat), quit : BOOLEAN]
SolCalling == solAt \in {"send", "recv"}
SolPayTyped == solPay \in SolPays /\ solPay.count <= Len(solPay.buf) /\ solNext = solPay.seq + 1 /\ (SolCalling => solPay.seq # 0)
SolSeenTyped == solLast \in [seq : SolNo, count : Nat] /\ solKeys \in SolKeyboards /\ solOut \in Seq(Nat)
SolNetTyped == solNet \in [req : Seq(SolReqs), rsp : Seq(SolRsps), faults : Nat]
SolBmcOk(b) == b \in SolBmcs /\ b.first <= b.upto + 1 /\ (b.upto >= b.first => b.seq # 0)
SolBmcTyped == SolBmcOk(solBmc)
SolTypes == SolPayTyped /\ SolSeenTyped /\ SolNetTyped /\ SolBmcTyped

(* Console output, for requests and answers under way, number and length   *)
(* of the packet the program had last, and number and characters of the    *)
(* BMC's. While that is open (not all of it is acknowledged), what is      *)
(* under way is that packet, not shorter than the program has it, behind   *)
(* copies of the one before, which the program has in full; SolSeen is the *)
(* last character that arrived.                                            *)
SolNew(ls, lc, n, f, u, p) ==
  /\ Len(p.data) <= u - f + 1 /\ (ls = n => Len(p.data) >= lc)
  /\ \A i \in 1..Len(p.data) : p.data[i] = f + i - 1
SolOld(ls, lc, p) == p.seq = ls /\ Len(p.data) = lc
SolOutput(rsp, ls, lc, n, f, u) ==
  /\ u < f => ls = n
  /\ u >= f /\ ls = n => lc <= u - f + 1
  /\ \A i \in 1..Len(rsp) : IF rsp[i].seq = 0 THEN rsp[i].data = <<>>
                            ELSE IF rsp[i].seq = n /\ u >= f THEN SolNew(ls, lc, n, f, u, rsp[i]) ELSE SolOld(ls, lc, rsp[i])
  /\ \A i, j \in 1..Len(rsp) :
       i < j /\ rsp[i].seq = n /\ n # 0 => rsp[j].seq = 0 \/ (rsp[j].seq = n /\ Len(rsp[i].data) <= Len(rsp[j].data))
SolAcks(req, ls, lc, n, f, u) ==
  /\ \A i \in 1..Len(req) :
       req[i].seq = 0 => (u < f => req[i].acks = n) /\ (u >= f /\ req[i].acks = n => ls = n /\ req[i].accepted <= lc)
  /\ \A i, j \in 1..Len(req) : i < j /\ req[i].seq = 0 /\ req[j].seq = 0 /\ req[i].acks = n => req[j].acks = n
SolFlow(req, rsp, ls, lc, n, f, u) == SolOutput(rsp, ls, lc, n, f, u) /\ SolAcks(req, ls, lc, n, f, u)
SolSeen(ls, lc, n, f, u) == IF u >= f /\ ls = n THEN f + lc - 1 ELSE f - 1
SolPrinted(out, all, seen) ==
  /\ \A i \in 1..Len(out) : out[i] <= seen
  /\ \A i \in 1..(Len(out) - 1) : out[i] < out[i + 1]
  /\ all => \A c \in 1..seen : \E i \in 1..Len(out) : out[i] = c
SolUnderWay == SolFlow(solNet.req, solNet.rsp, solLast.seq, solLast.count, solBmc.seq, solBmc.first, solBmc.upto)
SolArrived == SolPrinted(solOut, "dropped" \notin solHist, SolSeen(solLast.seq, solLast.count, solBmc.seq, solBmc.first, solBmc.upto))

(* Input, for the payload's number and data and what the BMC took last:    *)
(* under way to the BMC is the payload, behind copies of the one before;   *)
(* the answers likewise, and nothing else once the payload is acknowledged.*)
SolPath(req, rsp, cur, data, last, acc) ==
  /\ \A i \in 1..Len(req) : req[i].seq \in {0, last, cur} /\ (req[i].seq = cur /\ cur # 0 => req[i].data = data)
  /\ \A i, j \in 1..Len(req) : i < j /\ req[i].seq = cur /\ cur # 0 => req[j].seq \in {0, cur}
  /\ \A i \in 1..Len(rsp) : rsp[i].acks = cur /\ cur # 0 => last = cur /\ rsp[i].accepted = acc
  /\ \A i, j \in 1..Len(rsp) : i < j /\ rsp[i].acks = cur /\ cur # 0 => rsp[j].acks \in {0, cur}
SolSettled(rsp, cur, last) == last = cur /\ \A i \in 1..Len(rsp) : rsp[i].acks \in {0, cur}
SolData == SubSeq(solPay.buf, 1, solPay.count)
SolTaken == solBmc.last = solPay.seq
SolLeft ==
  IF ~SolCalling THEN 0 ELSE IF solPay.kind = "input" THEN solPay.count ELSE IF solPay.kind = "break" THEN Len(solKeys.data) ELSE 0
SolLasts(s, n, t) == \A i \in 1..n : s[i] = t - n + i
SolCounted ==
  /\ Len(solBmc.got) + SolLeft = solKeys.typed + (IF SolCalling /\ SolTaken THEN solBmc.accepted ELSE 0)
  /\ SolCalling =>
       /\ SolTaken => solBmc.accepted <= solPay.count
       /\ IF solPay.kind = "input" THEN SolLasts(solPay.buf, solPay.count, solKeys.typed) ELSE solPay.count = 0
       /\ solPay.kind = "break" => SolLasts(solKeys.data, Len(solKeys.data), solKeys.typed)
SolSending ==
  /\ SolPath(solNet.req, solNet.rsp, solPay.seq, SolData, solBmc.last, solBmc.accepted)
  /\ ~SolCalling => SolSettled(solNet.rsp, solPay.seq, solBmc.last)
  /\ SolCounted
SolTyping == "gave_up" \notin solHist => (\A i \in 1..Len(solBmc.got) : solBmc.got[i] = i) /\ (solAt # "exit" => SolSending)
SolBegins == solAt = "off" => solHist = {}
SolInv == SolBegins /\ SolTypes /\ SolUnderWay /\ SolArrived /\ SolTyping

(* A queue that lost its head or not, and got elements of E or not.        *)
SolBecomes(q, r, E) == \E a \in 0..1 : \A i \in 1..Len(r) : IF i + a <= Len(q) THEN r[i] = q[i + a] ELSE r[i] \in E

LEMMA SolQueue ==
  ASSUME NEW S, NEW q \in Seq(S), NEW e \in S
  PROVE  /\ SolBecomes(q, q, {}) /\ SolBecomes(q, Append(q, e), {e}) /\ Append(q, e) \in Seq(S)
         /\ q # <<>> => SolBecomes(q, Tail(q), {}) /\ SolBecomes(q, Append(Tail(q), e), {e}) /\ Tail(q) \in Seq(S) /\ Append(Tail(q), e) \in Seq(S)
<1>1. SolBecomes(q, q, {})
  <2>1. \A i \in 1..Len(q) : i + 0 <= Len(q) /\ q[i] = q[i + 0]
    OBVIOUS
  <2> QED
    BY <2>1 DEF SolBecomes
<1>2. SolBecomes(q, Append(q, e), {e})
  <2>1. \A i \in 1..Len(Append(q, e)) : IF i + 0 <= Len(q) THEN Append(q, e)[i] = q[i + 0] ELSE Append(q, e)[i] \in {e}
    OBVIOUS
  <2> QED
    BY <2>1 DEF SolBecomes
<1>3. ASSUME q # <<>> PROVE SolBecomes(q, Tail(q), {}) /\ SolBecomes(q, Append(Tail(q), e), {e}) /\ Tail(q) \in Seq(S) /\ Append(Tail(q), e) \in Seq(S)
  <2>1. Tail(q) \in Seq(S) /\ Len(Tail(q)) = Len(q) - 1 /\ Len(q) \in Nat \ {0} /\ \A i \in 1..(Len(q) - 1) : Tail(q)[i] = q[i + 1]
    BY <1>3
  <2> DEFINE t == Tail(q)
  <2>2. t \in Seq(S) /\ Len(t) = Len(q) - 1 /\ \A i \in 1..(Len(q) - 1) : t[i] = q[i + 1]
    BY <2>1
  <2> HIDE DEF t
  <2>3. \A i \in 1..Len(t) : i + 1 <= Len(q) /\ t[i] = q[i + 1]
    BY <2>1, <2>2
  <2>4. \A i \in 1..Len(Append(t, e)) : IF i + 1 <= Len(q) THEN Append(t, e)[i] = q[i + 1] ELSE Append(t, e)[i] \in {e}
    BY <2>1, <2>2
  <2>5. SolBecomes(q, t, {}) /\ SolBecomes(q, Append(t, e), {e})
    BY <2>3, <2>4 DEF SolBecomes
  <2> QED
    BY <2>2, <2>5 DEF t
<1> QED
  BY <1>1, <1>2, <1>3

(* Loss, transmission, and answers with the packet that is open or none.   *)
SolFlows(req, rsp, req1, rsp1, ls, lc, n, f, u, A, B) ==
  /\ Len(req) \in Nat /\ Len(rsp) \in Nat /\ Len(req1) \in Nat /\ Len(rsp1) \in Nat
  /\ ls \in Nat /\ lc \in Nat /\ n \in Nat /\ f \in Nat /\ u \in Nat /\ \A i \in 1..Len(rsp) : Len(rsp[i].data) \in Nat
  /\ SolBecomes(req, req1, A) /\ SolBecomes(rsp, rsp1, B)
  /\ \A q \in A : q.seq # 0
  /\ \A p \in B : \/ p.seq = 0 /\ p.data = <<>>
                  \/ u >= f /\ p.seq = n /\ n # 0 /\ Len(p.data) = u - f + 1 /\ \A i \in 1..Len(p.data) : p.data[i] = f + i - 1
LEMMA SolFlowMoves ==
  ASSUME NEW req, NEW rsp, NEW req1, NEW rsp1, NEW ls, NEW lc, NEW n, NEW f, NEW u, NEW A, NEW B,
         SolFlow(req, rsp, ls, lc, n, f, u), SolFlows(req, rsp, req1, rsp1, ls, lc, n, f, u, A, B)
  PROVE  SolFlow(req1, rsp1, ls, lc, n, f, u)
<1> USE DEF SolFlows
<1>1. PICK a \in 0..1 : \A i \in 1..Len(req1) : IF i + a <= Len(req) THEN req1[i] = req[i + a] ELSE req1[i] \in A
  BY DEF SolBecomes
<1>2. SolAcks(req1, ls, lc, n, f, u)
  <2>1. SolAcks(req, ls, lc, n, f, u)
    BY DEF SolFlow
  <2>2. ASSUME NEW i \in 1..Len(req1), req1[i].seq = 0
        PROVE  i + a \in 1..Len(req) /\ req1[i] = req[i + a]
    BY <1>1, <2>2
  <2>3. ASSUME NEW i \in 1..Len(req1), req1[i].seq = 0
        PROVE  (u < f => req1[i].acks = n) /\ (u >= f /\ req1[i].acks = n => ls = n /\ req1[i].accepted <= lc)
    <3>1. i + a \in 1..Len(req) /\ req1[i] = req[i + a]
      BY <2>2, <2>3
    <3> QED
      BY <2>1, <2>3, <3>1 DEF SolAcks
  <2>4. ASSUME NEW i \in 1..Len(req1), NEW j \in 1..Len(req1), i < j, req1[i].seq = 0, req1[j].seq = 0, req1[i].acks = n
        PROVE  req1[j].acks = n
    <3>1. i + a \in 1..Len(req) /\ req1[i] = req[i + a] /\ j + a \in 1..Len(req) /\ req1[j] = req[j + a]
      BY <2>2, <2>4
    <3>2. i + a < j + a
      BY <2>4
    <3> QED
      BY <2>1, <2>4, <3>1, <3>2 DEF SolAcks
  <2> QED
    BY <2>3, <2>4 DEF SolAcks
<1>3. PICK b \in 0..1 : \A i \in 1..Len(rsp1) : IF i + b <= Len(rsp) THEN rsp1[i] = rsp[i + b] ELSE rsp1[i] \in B
  BY DEF SolBecomes
<1>4. SolOutput(rsp1, ls, lc, n, f, u)
  <2>1. SolOutput(rsp, ls, lc, n, f, u)
    BY DEF SolFlow
  <2>2. ASSUME NEW i \in 1..Len(rsp1)
        PROVE  (i + b \in 1..Len(rsp) /\ rsp1[i] = rsp[i + b]) \/ (i + b > Len(rsp) /\ rsp1[i] \in B)
    BY <1>3
  <2>3. ASSUME NEW i \in 1..Len(rsp1)
        PROVE  IF rsp1[i].seq = 0 THEN rsp1[i].data = <<>>
               ELSE IF rsp1[i].seq = n /\ u >= f THEN SolNew(ls, lc, n, f, u, rsp1[i]) ELSE SolOld(ls, lc, rsp1[i])
    <3>1. CASE i + b \in 1..Len(rsp) /\ rsp1[i] = rsp[i + b]
      BY <2>1, <3>1 DEF SolOutput
    <3>2. CASE rsp1[i] \in B
      BY <2>1, <3>2 DEF SolOutput, SolNew
    <3> QED
      BY <2>2, <3>1, <3>2
  <2>4. ASSUME NEW i \in 1..Len(rsp1), NEW j \in 1..Len(rsp1), i < j, rsp1[i].seq = n, n # 0
        PROVE  rsp1[j].seq = 0 \/ (rsp1[j].seq = n /\ Len(rsp1[i].data) <= Len(rsp1[j].data))
    <3>1. CASE j + b \in 1..Len(rsp) /\ rsp1[j] = rsp[j + b]
      <4>1. i + b \in 1..Len(rsp) /\ i + b < j + b /\ rsp1[i] = rsp[i + b]
        BY <1>3, <2>4, <3>1
      <4> QED
        BY <2>1, <2>4, <3>1, <4>1 DEF SolOutput
    <3>2. CASE rsp1[j] \in B /\ j + b > Len(rsp)
      <4>1. CASE rsp1[j].seq = 0
        BY <4>1
      <4>2. CASE u >= f /\ rsp1[j].seq = n /\ Len(rsp1[j].data) = u - f + 1
        <5>1. CASE rsp1[i] \in B
          BY <2>4, <4>2, <5>1, SMTT(30)
        <5>2. CASE i + b \in 1..Len(rsp) /\ rsp1[i] = rsp[i + b]
          <6>1. SolNew(ls, lc, n, f, u, rsp1[i])
            BY <2>1, <2>4, <4>2, <5>2 DEF SolOutput
          <6> QED
            BY <4>2, <6>1 DEF SolNew
        <5> QED
          BY <2>2, <5>1, <5>2
      <4> QED
        BY <3>2, <4>1, <4>2
    <3> QED
      BY <2>2, <3>1, <3>2
  <2> QED
    BY <2>1, <2>3, <2>4 DEF SolOutput
<1> QED
  BY <1>2, <1>4 DEF SolFlow

(* The BMC looks at an acknowledgement.                                    *)
SolAcked(req, rsp, ls, lc, n, f, u) ==
  /\ Len(req) \in Nat \ {0} /\ Len(rsp) \in Nat /\ ls \in Nat /\ lc \in Nat /\ n \in Nat /\ f \in Nat /\ u \in Nat
  /\ \A i \in 1..Len(rsp) : Len(rsp[i].data) \in Nat
  /\ \A i \in 1..Len(req) : req[i].accepted \in Nat
  /\ f <= u + 1 /\ SolFlow(req, rsp, ls, lc, n, f, u) /\ req[1].seq = 0 /\ req[1].acks = n /\ req[1].accepted = u - f + 1
LEMMA SolFlowAcked ==
  ASSUME NEW req, NEW rsp, NEW ls, NEW lc, NEW n, NEW f, NEW u, SolAcked(req, rsp, ls, lc, n, f, u)
  PROVE  SolFlow(req, rsp, ls, lc, n, u + 1, u) /\ SolSeen(ls, lc, n, u + 1, u) = SolSeen(ls, lc, n, f, u)
<1> USE DEF SolAcked
<1>0. SolAcks(req, ls, lc, n, f, u) /\ SolOutput(rsp, ls, lc, n, f, u) /\ ~(u >= u + 1) /\ u < u + 1 /\ u + 1 \in Nat
  BY DEF SolFlow
<1>1. ls = n /\ (u >= f => lc = u - f + 1)
  BY <1>0 DEF SolAcks, SolOutput
<1>2. \A i \in 1..Len(req) : req[i].seq = 0 => req[i].acks = n
  <2>1. ASSUME NEW i \in 1..Len(req), req[i].seq = 0 PROVE req[i].acks = n
    <3>1. i = 1 \/ 1 < i
      OBVIOUS
    <3> QED
      BY <1>0, <2>1, <3>1, SMTT(30) DEF SolAcks
  <2> QED
    BY <2>1
<1>3. SolAcks(req, ls, lc, n, u + 1, u)
  BY <1>0, <1>2 DEF SolAcks
<1>4. ASSUME NEW i \in 1..Len(rsp) PROVE IF rsp[i].seq = 0 THEN rsp[i].data = <<>> ELSE SolOld(ls, lc, rsp[i])
  <2>1. CASE rsp[i].seq # 0 /\ rsp[i].seq = n /\ u >= f
    BY <1>0, <1>1, <2>1 DEF SolOutput, SolNew, SolOld
  <2>2. CASE ~(rsp[i].seq # 0 /\ rsp[i].seq = n /\ u >= f)
    BY <1>0, <2>2 DEF SolOutput
  <2> QED
    BY <2>1, <2>2
<1>5. SolOutput(rsp, ls, lc, n, u + 1, u)
  BY <1>0, <1>1, <1>4 DEF SolOutput
<1>6. SolSeen(ls, lc, n, u + 1, u) = SolSeen(ls, lc, n, f, u)
  BY <1>0, <1>1 DEF SolSeen
<1> QED
  BY <1>3, <1>5, <1>6 DEF SolFlow

(* The BMC begins a packet, with one character.                            *)
SolOpens(req, rsp, ls, lc, n, f, u, m) ==
  /\ Len(req) \in Nat /\ Len(rsp) \in Nat /\ ls \in Nat /\ lc \in Nat /\ n \in Nat /\ f \in Nat \ {0} /\ u \in Nat /\ m \in Nat
  /\ \A i \in 1..Len(rsp) : Len(rsp[i].data) \in Nat
  /\ f <= u + 1 /\ u < f /\ m # n /\ m # 0 /\ SolFlow(req, rsp, ls, lc, n, f, u)
LEMMA SolFlowOpens ==
  ASSUME NEW req, NEW rsp, NEW ls, NEW lc, NEW n, NEW f, NEW u, NEW m, SolOpens(req, rsp, ls, lc, n, f, u, m)
  PROVE  SolFlow(req, rsp, ls, lc, m, f, u + 1) /\ SolSeen(ls, lc, m, f, u + 1) = SolSeen(ls, lc, n, f, u)
<1> USE DEF SolOpens
<1>0. SolAcks(req, ls, lc, n, f, u) /\ SolOutput(rsp, ls, lc, n, f, u) /\ f = u + 1
  BY DEF SolFlow
<1>1. ls = n
  BY <1>0 DEF SolOutput
<1>2. \A i \in 1..Len(req) : req[i].seq = 0 => req[i].acks # m
  BY <1>0 DEF SolAcks
<1>3. SolAcks(req, ls, lc, m, f, u + 1)
  BY <1>0, <1>2 DEF SolAcks
<1>4. \A i \in 1..Len(rsp) : rsp[i].seq # m /\ IF rsp[i].seq = 0 THEN rsp[i].data = <<>> ELSE SolOld(ls, lc, rsp[i])
  BY <1>0, <1>1 DEF SolOutput, SolOld
<1>5. SolOutput(rsp, ls, lc, m, f, u + 1)
  BY <1>0, <1>1, <1>4 DEF SolOutput
<1> QED
  BY <1>0, <1>1, <1>3, <1>5 DEF SolFlow, SolSeen

(* The BMC's open packet gets a character more while nothing is under way. *)
LEMMA SolFlowLonger ==
  ASSUME NEW ls \in Nat, NEW lc \in Nat, NEW n \in Nat, NEW f \in Nat, NEW u \in Nat, u >= f, SolFlow(<<>>, <<>>, ls, lc, n, f, u)
  PROVE  SolFlow(<<>>, <<>>, ls, lc, n, f, u + 1) /\ SolSeen(ls, lc, n, f, u + 1) = SolSeen(ls, lc, n, f, u)
BY DEF SolFlow, SolOutput, SolAcks, SolSeen

LEMMA SolRest ==
  ASSUME NEW d \in Seq(Nat), NEW k \in Nat, k <= Len(d)
  PROVE  /\ SubSeq(d, k + 1, Len(d)) \in Seq(Nat) /\ Len(SubSeq(d, k + 1, Len(d))) = Len(d) - k
         /\ \A i \in 1..(Len(d) - k) : SubSeq(d, k + 1, Len(d))[i] = d[k + i]
OBVIOUS

(* The program receives the first answer under way: what it takes for new  *)
(* are the characters after those it has seen.                             *)
SolFresh(ls, lc, p) == IF p.seq = ls THEN SubSeq(p.data, lc + 1, Len(p.data)) ELSE p.data
SolAckOf(p) == [seq |-> 0, data |-> <<>>, acks |-> p.seq, accepted |-> Len(p.data)]
SolReceives(req, rsp, req1, rsp1, ls, lc, n, f, u, p, ls1, lc1) ==
  /\ Len(req) \in Nat /\ Len(rsp) \in Nat \ {0} /\ Len(rsp1) = Len(rsp) - 1 /\ \A i \in 1..(Len(rsp) - 1) : rsp1[i] = rsp[i + 1]
  /\ ls \in Nat /\ lc \in Nat /\ n \in Nat /\ f \in Nat /\ u \in Nat
  /\ \A i \in 1..Len(rsp) : rsp[i].seq \in Nat /\ rsp[i].data \in Seq(Nat)
  /\ \A i \in 1..Len(req) : req[i].accepted \in Nat
  /\ p = rsp[1] /\ SolFlow(req, rsp, ls, lc, n, f, u)
  /\ p.seq = 0 => req1 = req
  /\ p.seq # 0 => Len(req1) = Len(req) + 1 /\ req1[Len(req) + 1] = SolAckOf(p) /\ \A i \in 1..Len(req) : req1[i] = req[i]
  /\ ls1 = IF p.seq = 0 THEN ls ELSE p.seq
  /\ lc1 = IF p.seq = 0 THEN lc ELSE Len(p.data)
LEMMA SolFlowReceived ==
  ASSUME NEW req, NEW rsp, NEW req1, NEW rsp1, NEW ls, NEW lc, NEW n, NEW f, NEW u, NEW p, NEW ls1, NEW lc1,
         SolReceives(req, rsp, req1, rsp1, ls, lc, n, f, u, p, ls1, lc1)
  PROVE  /\ SolFlow(req1, rsp1, ls1, lc1, n, f, u) /\ SolFresh(ls, lc, p) \in Seq(Nat)
         /\ SolSeen(ls1, lc1, n, f, u) = SolSeen(ls, lc, n, f, u) + Len(SolFresh(ls, lc, p))
         /\ \A i \in 1..Len(SolFresh(ls, lc, p)) : SolFresh(ls, lc, p)[i] = SolSeen(ls, lc, n, f, u) + i
<1> USE DEF SolReceives
<1> DEFINE new == SolFresh(ls, lc, p)
           d == p.data
<1>0. /\ SolAcks(req, ls, lc, n, f, u) /\ SolOutput(rsp, ls, lc, n, f, u) /\ 1 \in 1..Len(rsp) /\ p.seq \in Nat /\ d \in Seq(Nat)
      /\ Len(d) \in Nat
  BY DEF SolFlow
<1>1. \A i \in 1..Len(rsp1) : i + 1 \in 1..Len(rsp) /\ 1 < i + 1 /\ rsp1[i] = rsp[i + 1] /\ Len(rsp[i + 1].data) \in Nat
  OBVIOUS
<1>2. SolAckOf(p).seq = 0 /\ SolAckOf(p).acks = p.seq /\ SolAckOf(p).accepted = Len(d)
  BY DEF SolAckOf
<1>3. CASE p.seq = 0
  <2>1. d = <<>> /\ ls1 = ls /\ lc1 = lc /\ req1 = req
    BY <1>0, <1>3 DEF SolOutput
  <2>2. SolOutput(rsp1, ls, lc, n, f, u)
    <3>1. \A i \in 1..Len(rsp1) : IF rsp1[i].seq = 0 THEN rsp1[i].data = <<>>
                            ELSE IF rsp1[i].seq = n /\ u >= f THEN SolNew(ls, lc, n, f, u, rsp1[i]) ELSE SolOld(ls, lc, rsp1[i])
      BY <1>0, <1>1 DEF SolOutput
    <3>2. ASSUME NEW i \in 1..Len(rsp1), NEW j \in 1..Len(rsp1), i < j, rsp1[i].seq = n, n # 0
          PROVE  rsp1[j].seq = 0 \/ (rsp1[j].seq = n /\ Len(rsp1[i].data) <= Len(rsp1[j].data))
      <4>1. i + 1 < j + 1
        BY <3>2
      <4> QED
        BY <1>0, <1>1, <3>2, <4>1 DEF SolOutput
    <3> QED
      BY <1>0, <3>1, <3>2 DEF SolOutput
  <2>3. new = <<>>
    BY <2>1 DEF SolFresh
  <2>4. SolSeen(ls, lc, n, f, u) \in Int
    BY DEF SolSeen
  <2> HIDE DEF new
  <2> QED
    BY <1>0, <2>1, <2>2, <2>3, <2>4 DEF SolFlow, new
<1>4. CASE p.seq # 0 /\ p.seq = n /\ u >= f
  <2>1. SolNew(ls, lc, n, f, u, p) /\ ls1 = n /\ lc1 = Len(d)
    BY <1>0, <1>4 DEF SolOutput
  <2>2. ASSUME NEW i \in 1..Len(rsp1), rsp1[i].seq # 0
        PROVE  rsp1[i].seq = n /\ Len(rsp1[i].data) >= Len(d) /\ SolNew(n, Len(d), n, f, u, rsp1[i])
    <3>1. rsp1[i].seq = n /\ Len(d) <= Len(rsp[i + 1].data)
      BY <1>0, <1>1, <1>4, <2>2 DEF SolOutput
    <3>2. SolNew(ls, lc, n, f, u, rsp1[i])
      BY <1>0, <1>1, <1>4, <3>1 DEF SolOutput
    <3> QED
      BY <1>1, <3>1, <3>2 DEF SolNew
  <2>3. ASSUME NEW i \in 1..Len(rsp1), rsp1[i].seq = 0 PROVE rsp1[i].data = <<>>
    BY <1>0, <1>1, <2>3, ZenonT(60) DEF SolOutput
  <2>4. ASSUME NEW i \in 1..Len(rsp1), NEW j \in 1..Len(rsp1), i < j, rsp1[i].seq = n, n # 0
        PROVE  rsp1[j].seq = 0 \/ (rsp1[j].seq = n /\ Len(rsp1[i].data) <= Len(rsp1[j].data))
    <3>1. i + 1 < j + 1
      BY <2>4
    <3> QED
      BY <1>0, <1>1, <2>4, <3>1 DEF SolOutput
  <2>5. Len(d) <= u - f + 1
    BY <2>1 DEF SolNew
  <2>6. SolOutput(rsp1, n, Len(d), n, f, u)
    BY <1>0, <1>4, <2>2, <2>3, <2>4, <2>5 DEF SolOutput
  <2>7. SolAcks(req1, n, Len(d), n, f, u)
    <3>1. ASSUME NEW i \in 1..Len(req1), req1[i].seq = 0
          PROVE  (u < f => req1[i].acks = n) /\ (u >= f /\ req1[i].acks = n => n = n /\ req1[i].accepted <= Len(d))
      <4>1. CASE i = Len(req) + 1
        BY <1>0, <1>2, <1>4, <4>1
      <4>2. CASE i \in 1..Len(req)
        <5>1. req1[i] = req[i]
          BY <1>4, <4>2
        <5>2. req1[i].acks = n => ls = n /\ req1[i].accepted <= lc /\ lc <= Len(d)
          BY <1>0, <1>4, <2>1, <3>1, <4>2, <5>1 DEF SolAcks, SolNew
        <5>3. req1[i].acks = n => req1[i].accepted <= Len(d)
          <6>1. req1[i].accepted \in Nat
            BY <4>2, <5>1
          <6> QED
            BY <1>0, <5>2, <6>1
        <5> QED
          BY <1>4, <5>3
      <4>3. Len(req1) = Len(req) + 1
        BY <1>4
      <4> QED
        BY <4>1, <4>2, <4>3
    <3>2. ASSUME NEW i \in 1..Len(req1), NEW j \in 1..Len(req1), i < j, req1[i].seq = 0, req1[j].seq = 0, req1[i].acks = n
          PROVE  req1[j].acks = n
      <4>1. CASE j = Len(req) + 1
        BY <1>2, <1>4, <4>1
      <4>2. CASE j \in 1..Len(req)
        <5>1. i \in 1..Len(req) /\ req1[i] = req[i] /\ req1[j] = req[j]
          BY <1>4, <3>2, <4>2
        <5> QED
          BY <1>0, <3>2, <4>2, <5>1 DEF SolAcks
      <4> QED
        BY <1>4, <4>1, <4>2
    <3> QED
      BY <3>1, <3>2 DEF SolAcks
  <2>8. SolSeen(ls1, lc1, n, f, u) = f + Len(d) - 1
    BY <1>4, <2>1 DEF SolSeen
  <2>9. CASE ls = n
    <3>1. lc <= Len(d) /\ new = SubSeq(d, lc + 1, Len(d)) /\ SolSeen(ls, lc, n, f, u) = f + lc - 1
      BY <1>4, <2>1, <2>9 DEF SolNew, SolFresh, SolSeen
    <3>2. new \in Seq(Nat) /\ Len(new) = Len(d) - lc /\ \A i \in 1..Len(new) : new[i] = d[lc + i]
      <4> HIDE DEF d
      <4>1. /\ SubSeq(d, lc + 1, Len(d)) \in Seq(Nat) /\ Len(SubSeq(d, lc + 1, Len(d))) = Len(d) - lc
            /\ \A i \in 1..(Len(d) - lc) : SubSeq(d, lc + 1, Len(d))[i] = d[lc + i]
        BY <1>0, <3>1, SolRest
      <4> HIDE DEF new
      <4> QED
        BY <3>1, <4>1
    <3>3. \A i \in 1..Len(new) : new[i] = f + lc - 1 + i
      <4>1. ASSUME NEW i \in 1..Len(new) PROVE new[i] = f + lc - 1 + i
        <5>1. lc + i \in 1..Len(d)
          BY <1>0, <3>1, <3>2
        <5>2. d[lc + i] = f + (lc + i) - 1
          BY <2>1, <5>1 DEF SolNew
        <5> HIDE DEF new, d
        <5>3. f + (lc + i) - 1 = f + lc - 1 + i
          BY <1>0, <3>2
        <5>4. new[i] = d[lc + i]
          BY <3>2
        <5> QED
          BY <5>2, <5>3, <5>4
      <4> QED
        BY <4>1
    <3> HIDE DEF new, d
    <3>4. SolSeen(ls1, lc1, n, f, u) = SolSeen(ls, lc, n, f, u) + Len(new)
      <4>1. f + Len(d) - 1 = (f + lc - 1) + (Len(d) - lc)
        BY <1>0
      <4> QED
        BY <2>8, <3>1, <3>2, <4>1
    <3> QED
      BY <2>1, <2>6, <2>7, <3>1, <3>2, <3>3, <3>4 DEF SolFlow, new
  <2>10. CASE ls # n
    <3>1. new = d /\ SolSeen(ls, lc, n, f, u) = f - 1
      BY <1>4, <2>10 DEF SolFresh, SolSeen
    <3>2. \A i \in 1..Len(d) : d[i] = f - 1 + i
      BY <1>0, <2>1 DEF SolNew
    <3> HIDE DEF new, d
    <3>3. SolSeen(ls1, lc1, n, f, u) = SolSeen(ls, lc, n, f, u) + Len(new)
      BY <1>0, <2>8, <3>1
    <3> QED
      BY <1>0, <2>1, <2>6, <2>7, <3>1, <3>2, <3>3 DEF SolFlow, new
  <2> QED
    BY <2>9, <2>10
<1>5. CASE p.seq # 0 /\ ~(p.seq = n /\ u >= f)
  <2>1. p.seq = ls /\ Len(d) = lc /\ ls1 = ls /\ lc1 = lc
    BY <1>0, <1>5 DEF SolOutput, SolOld
  <2>2. new = <<>>
    <3>1. new = SubSeq(d, lc + 1, lc)
      BY <2>1 DEF SolFresh
    <3>2. lc + 1 > lc
      OBVIOUS
    <3> HIDE DEF new, d
    <3> QED
      BY <1>0, <2>1, <3>1, <3>2
  <2>3. SolOutput(rsp1, ls, lc, n, f, u)
    <3>1. \A i \in 1..Len(rsp1) : IF rsp1[i].seq = 0 THEN rsp1[i].data = <<>>
                            ELSE IF rsp1[i].seq = n /\ u >= f THEN SolNew(ls, lc, n, f, u, rsp1[i]) ELSE SolOld(ls, lc, rsp1[i])
      BY <1>0, <1>1 DEF SolOutput
    <3>2. ASSUME NEW i \in 1..Len(rsp1), NEW j \in 1..Len(rsp1), i < j, rsp1[i].seq = n, n # 0
          PROVE  rsp1[j].seq = 0 \/ (rsp1[j].seq = n /\ Len(rsp1[i].data) <= Len(rsp1[j].data))
      <4>1. i + 1 < j + 1
        BY <3>2
      <4> QED
        BY <1>0, <1>1, <3>2, <4>1 DEF SolOutput
    <3> QED
      BY <1>0, <3>1, <3>2 DEF SolOutput
  <2>4. SolAcks(req1, ls, lc, n, f, u)
    <3>1. ASSUME NEW i \in 1..Len(req1), req1[i].seq = 0
          PROVE  (u < f => req1[i].acks = n) /\ (u >= f /\ req1[i].acks = n => ls = n /\ req1[i].accepted <= lc)
      <4>1. CASE i = Len(req) + 1
        BY <1>0, <1>2, <1>5, <2>1, <4>1 DEF SolOutput
      <4>2. CASE i \in 1..Len(req)
        BY <1>0, <1>5, <3>1, <4>2 DEF SolAcks
      <4> QED
        BY <1>5, <4>1, <4>2
    <3>2. ASSUME NEW i \in 1..Len(req1), NEW j \in 1..Len(req1), i < j, req1[i].seq = 0, req1[j].seq = 0, req1[i].acks = n
          PROVE  req1[j].acks = n
      <4>1. CASE j = Len(req) + 1
        <5>1. i \in 1..Len(req) /\ req1[i] = req[i]
          BY <1>5, <3>2, <4>1
        <5>2. ls = n
          BY <1>0, <3>2, <5>1 DEF SolAcks, SolOutput
        <5> QED
          BY <1>2, <1>5, <2>1, <4>1, <5>2
      <4>2. CASE j \in 1..Len(req)
        <5>1. i \in 1..Len(req) /\ req1[i] = req[i] /\ req1[j] = req[j]
          BY <1>5, <3>2, <4>2, SMTT(30)
        <5> QED
          BY <1>0, <3>2, <4>2, <5>1 DEF SolAcks
      <4> QED
        BY <1>5, <4>1, <4>2
    <3> QED
      BY <3>1, <3>2 DEF SolAcks
  <2>5. SolSeen(ls, lc, n, f, u) \in Int
    BY DEF SolSeen
  <2> HIDE DEF new
  <2> QED
    BY <2>1, <2>2, <2>3, <2>4, <2>5 DEF SolFlow, new
<1> QED
  BY <1>3, <1>4, <1>5

(* What the program prints, or drops and notes.                            *)
LEMMA SolPrintedMore ==
  ASSUME NEW out \in Seq(Nat), NEW new \in Seq(Nat), NEW all, NEW all1, NEW seen \in Nat, SolPrinted(out, all, seen), all1 => all,
         \A i \in 1..Len(new) : new[i] = seen + i
  PROVE  /\ SolPrinted(out \o new, all1, seen + Len(new)) /\ out \o new \in Seq(Nat)
         /\ (all1 => new = <<>>) => SolPrinted(out, all1, seen + Len(new))
<1> DEFINE o == out \o new
<1>1. /\ o \in Seq(Nat) /\ Len(o) = Len(out) + Len(new) /\ Len(out) \in Nat /\ Len(new) \in Nat
      /\ \A i \in 1..Len(out) : o[i] = out[i] /\ out[i] \in Nat
      /\ \A i \in 1..Len(new) : o[Len(out) + i] = new[i]
  OBVIOUS
<1> HIDE DEF o
<1>2. ASSUME NEW i \in 1..Len(o), i > Len(out)
      PROVE  i - Len(out) \in 1..Len(new) /\ o[i] = seen + (i - Len(out))
  <2>1. i - Len(out) \in 1..Len(new) /\ i = Len(out) + (i - Len(out))
    BY <1>1, <1>2
  <2> QED
    BY <1>1, <2>1
<1>3. \A i \in 1..Len(out) : o[i] <= seen /\ o[i] \in Nat
  BY <1>1 DEF SolPrinted
<1>4. ASSUME NEW i \in 1..Len(o) PROVE o[i] <= seen + Len(new)
  <2>1. CASE i <= Len(out)
    <3>1. o[i] <= seen /\ o[i] \in Nat
      BY <1>1, <1>3, <2>1
    <3> QED
      BY <1>1, <3>1
  <2>2. CASE i > Len(out)
    BY <1>1, <1>2, <2>2
  <2> QED
    BY <1>1, <2>1, <2>2
<1>5. ASSUME NEW i \in 1..(Len(o) - 1) PROVE o[i] < o[i + 1]
  <2>1. CASE i + 1 <= Len(out)
    <3>1. i \in 1..(Len(out) - 1) /\ i \in 1..Len(out) /\ i + 1 \in 1..Len(out)
      BY <1>1, <2>1
    <3> QED
      BY <1>1, <3>1 DEF SolPrinted
  <2>2. CASE i = Len(out)
    <3>1. i + 1 \in 1..Len(o) /\ i + 1 > Len(out) /\ i \in 1..Len(out)
      BY <1>1, <2>2
    <3>2. o[i + 1] = seen + ((i + 1) - Len(out)) /\ o[i] <= seen /\ o[i] \in Nat
      BY <1>2, <1>3, <3>1
    <3> QED
      BY <1>1, <2>2, <3>2
  <2>3. CASE i > Len(out)
    <3>1. i \in 1..Len(o) /\ i + 1 \in 1..Len(o) /\ i + 1 > Len(out)
      BY <1>1, <2>3
    <3>2. o[i + 1] = seen + ((i + 1) - Len(out)) /\ o[i] = seen + (i - Len(out))
      BY <1>2, <2>3, <3>1
    <3> QED
      BY <1>1, <3>2
  <2> QED
    BY <1>1, <2>1, <2>2, <2>3
<1>6. ASSUME all1, NEW c \in 1..(seen + Len(new)) PROVE \E i \in 1..Len(o) : o[i] = c
  <2>1. CASE c <= seen
    <3>1. PICK i \in 1..Len(out) : out[i] = c
      BY <1>6, <2>1 DEF SolPrinted
    <3> QED
      BY <1>1, <3>1
  <2>2. CASE c > seen
    <3>1. c - seen \in 1..Len(new) /\ Len(out) + (c - seen) \in 1..Len(o)
      BY <1>1, <2>2
    <3>2. o[Len(out) + (c - seen)] = new[c - seen] /\ new[c - seen] = seen + (c - seen)
      BY <1>1, <3>1
    <3> QED
      BY <3>1, <3>2
  <2> QED
    BY <1>1, <2>1, <2>2
<1>7. ASSUME all1 => new = <<>> PROVE SolPrinted(out, all1, seen + Len(new))
  <2>1. \A i \in 1..Len(out) : out[i] <= seen + Len(new)
    BY <1>1, <1>3
  <2>2. all1 => seen + Len(new) = seen
    BY <1>7
  <2> QED
    BY <2>1, <2>2 DEF SolPrinted
<1>8. SolPrinted(o, all1, seen + Len(new))
  BY <1>4, <1>5, <1>6 DEF SolPrinted
<1> QED
  BY <1>1, <1>7, <1>8 DEF o

(* Loss, transmission, acknowledgements, and answers to a copy of what the *)
(* BMC has.                                                                *)
SolMoves(req, rsp, req1, rsp1, cur, data, last, acc, A, B) ==
  /\ Len(req) \in Nat /\ Len(rsp) \in Nat /\ Len(req1) \in Nat /\ Len(rsp1) \in Nat
  /\ SolBecomes(req, req1, A) /\ SolBecomes(rsp, rsp1, B)
  /\ \A q \in A : q.seq = 0 \/ (q.seq = cur /\ q.data = data)
  /\ \A p \in B : p.acks = 0 \/ (p.acks = last /\ p.accepted = acc)
LEMMA SolPathMoves ==
  ASSUME NEW req, NEW rsp, NEW req1, NEW rsp1, NEW cur, NEW data, NEW last, NEW acc, NEW A, NEW B,
         SolPath(req, rsp, cur, data, last, acc), SolMoves(req, rsp, req1, rsp1, cur, data, last, acc, A, B)
  PROVE  SolPath(req1, rsp1, cur, data, last, acc) /\ (SolSettled(rsp, cur, last) => SolSettled(rsp1, cur, last))
<1> USE DEF SolMoves
<1>1. PICK a \in 0..1 : \A i \in 1..Len(req1) : IF i + a <= Len(req) THEN req1[i] = req[i + a] ELSE req1[i] \in A
  BY DEF SolBecomes
<1>2. PICK b \in 0..1 : \A i \in 1..Len(rsp1) : IF i + b <= Len(rsp) THEN rsp1[i] = rsp[i + b] ELSE rsp1[i] \in B
  BY DEF SolBecomes
<1>3. ASSUME NEW i \in 1..Len(req1)
      PROVE  (i + a \in 1..Len(req) /\ req1[i] = req[i + a]) \/ (i + a > Len(req) /\ req1[i] \in A)
  BY <1>1
<1>4. ASSUME NEW i \in 1..Len(rsp1)
      PROVE  (i + b \in 1..Len(rsp) /\ rsp1[i] = rsp[i + b]) \/ (i + b > Len(rsp) /\ rsp1[i] \in B)
  BY <1>2
<1>5. ASSUME NEW i \in 1..Len(req1) PROVE req1[i].seq \in {0, last, cur} /\ (req1[i].seq = cur /\ cur # 0 => req1[i].data = data)
  BY <1>3 DEF SolPath
<1>6. ASSUME NEW i \in 1..Len(req1), NEW j \in 1..Len(req1), i < j, req1[i].seq = cur, cur # 0 PROVE req1[j].seq \in {0, cur}
  <2>1. CASE req1[j] \in A
    BY <2>1
  <2>2. CASE j + a \in 1..Len(req) /\ req1[j] = req[j + a]
    <3>1. i + a \in 1..Len(req) /\ i + a < j + a /\ req1[i] = req[i + a]
      BY <1>1, <1>6, <2>2
    <3> QED
      BY <1>6, <2>2, <3>1 DEF SolPath
  <2> QED
    BY <1>3, <2>1, <2>2
<1>7. ASSUME NEW i \in 1..Len(rsp1), rsp1[i].acks = cur, cur # 0 PROVE last = cur /\ rsp1[i].accepted = acc
  BY <1>4, <1>7 DEF SolPath
<1>8. ASSUME NEW i \in 1..Len(rsp1), NEW j \in 1..Len(rsp1), i < j, rsp1[i].acks = cur, cur # 0 PROVE rsp1[j].acks \in {0, cur}
  <2>1. CASE rsp1[j] \in B
    BY <1>7, <1>8, <2>1
  <2>2. CASE j + b \in 1..Len(rsp) /\ rsp1[j] = rsp[j + b]
    <3>1. i + b \in 1..Len(rsp) /\ i + b < j + b /\ rsp1[i] = rsp[i + b]
      BY <1>2, <1>8, <2>2
    <3> QED
      BY <1>8, <2>2, <3>1 DEF SolPath
  <2> QED
    BY <1>4, <2>1, <2>2
<1>9. SolSettled(rsp, cur, last) => SolSettled(rsp1, cur, last)
  BY <1>4 DEF SolSettled
<1> QED
  BY <1>5, <1>6, <1>7, <1>8, <1>9 DEF SolPath

(* The BMC takes a payload it does not have: it is the program's.          *)
SolTakes(req, rsp, req1, rsp1, last, k) ==
  /\ Len(req) \in Nat \ {0} /\ Len(rsp) \in Nat /\ Len(req1) = Len(req) - 1 /\ Len(rsp1) = Len(rsp) + 1 /\ req[1].seq \notin {0, last}
  /\ \A i \in 1..(Len(req) - 1) : req1[i] = req[i + 1]
  /\ \A i \in 1..Len(rsp) : rsp1[i] = rsp[i]
  /\ rsp1[Len(rsp) + 1].acks = req[1].seq /\ rsp1[Len(rsp) + 1].accepted = k
LEMMA SolPathTaken ==
  ASSUME NEW req, NEW rsp, NEW req1, NEW rsp1, NEW cur, NEW data, NEW last, NEW acc, NEW k,
         SolPath(req, rsp, cur, data, last, acc), SolTakes(req, rsp, req1, rsp1, last, k)
  PROVE  /\ req[1].seq = cur /\ req[1].data = data /\ cur # 0 /\ last # cur /\ SolPath(req1, rsp1, cur, data, cur, k)
<1> USE DEF SolTakes
<1>1. 1 \in 1..Len(req)
  OBVIOUS
<1>2. req[1].seq = cur /\ req[1].data = data /\ cur # 0 /\ last # cur
  BY <1>1 DEF SolPath
<1>3. ASSUME NEW i \in 1..Len(req1)
      PROVE  req1[i].seq \in {0, cur} /\ (req1[i].seq = cur => req1[i].data = data)
  <2>1. i + 1 \in 1..Len(req) /\ 1 < i + 1 /\ req1[i] = req[i + 1]
    OBVIOUS
  <2> QED
    BY <1>1, <1>2, <2>1 DEF SolPath
<1>4. \A i \in 1..Len(rsp) : rsp1[i].acks # cur
  BY <1>2 DEF SolPath
<1>5. \A i \in 1..Len(rsp1) : i \in 1..Len(rsp) \/ i = Len(rsp) + 1
  OBVIOUS
<1>6. \A i \in 1..Len(rsp1) : rsp1[i].acks = cur => i = Len(rsp) + 1 /\ rsp1[i].accepted = k
  BY <1>4, <1>5
<1>7. \A i, j \in 1..Len(rsp1) : i < j => i # Len(rsp) + 1
  OBVIOUS
<1> QED
  BY <1>2, <1>3, <1>6, <1>7 DEF SolPath

(* A new payload once the last one is settled.                             *)
LEMMA SolPathNew ==
  ASSUME NEW req, NEW rsp, NEW cur, NEW data, NEW last, NEW acc, NEW cur1, NEW data1, SolPath(req, rsp, cur, data, last, acc),
         SolSettled(rsp, cur, last), cur1 # cur, cur1 # 0
  PROVE  SolPath(req, rsp, cur1, data1, last, acc) /\ last # cur1
BY DEF SolPath, SolSettled

(* The program receives the first answer under way; that it acknowledges   *)
(* the payload settles it.                                                 *)
LEMMA SolPathAcked ==
  ASSUME NEW req, NEW rsp, NEW rsp1, Len(rsp) \in Nat \ {0}, Len(rsp1) = Len(rsp) - 1,
         \A i \in 1..(Len(rsp) - 1) : rsp1[i] = rsp[i + 1],
         NEW cur, NEW data, NEW last, NEW acc, SolPath(req, rsp, cur, data, last, acc), rsp[1].acks = cur, cur # 0
  PROVE  rsp[1].accepted = acc /\ SolSettled(rsp1, cur, last)
<1>1. 1 \in 1..Len(rsp)
  OBVIOUS
<1>2. \A i \in 1..Len(rsp1) : i + 1 \in 1..Len(rsp) /\ 1 < i + 1 /\ rsp1[i] = rsp[i + 1]
  OBVIOUS
<1> QED
  BY <1>1, <1>2 DEF SolPath, SolSettled

(* A buffer of the user's keys: the characters to send are the ones typed  *)
(* in it, in order.                                                        *)
SolBuffers == [pending : BOOLEAN, cr : BOOLEAN, typed : Nat, data : Seq(Nat), brk : BOOLEAN, quit : BOOLEAN]
SolTyped(st, t) == st \in SolBuffers /\ st.typed = t + Len(st.data) /\ \A i \in 1..Len(st.data) : st.data[i] = t + i

LEMMA SolJoined ==
  ASSUME NEW a \in Seq(Nat), NEW b \in Seq(Nat)
  PROVE  /\ a \o b \in Seq(Nat) /\ Len(a \o b) = Len(a) + Len(b) /\ \A i \in 1..Len(a) : (a \o b)[i] = a[i]
         /\ \A i \in 1..Len(b) : (a \o b)[Len(a) + i] = b[i]
OBVIOUS

LEMMA SolBufferGets ==
  ASSUME NEW st \in SolBuffers, NEW x \in Nat, NEW d \in Seq(Nat), NEW w \in BOOLEAN
  PROVE  /\ [st EXCEPT !.typed = x, !.data = d, !.cr = w] \in SolBuffers
         /\ [st EXCEPT !.typed = x, !.data = d, !.cr = w, !.pending = FALSE] \in SolBuffers
<1> DEFINE S == Seq(Nat)
<1>1. st \in [pending : BOOLEAN, cr : BOOLEAN, typed : Nat, data : S, brk : BOOLEAN, quit : BOOLEAN] /\ d \in S
  BY DEF SolBuffers
<1> HIDE DEF S
<1>2. [st EXCEPT !.typed = x, !.data = d, !.cr = w] \in [pending : BOOLEAN, cr : BOOLEAN, typed : Nat, data : S, brk : BOOLEAN, quit : BOOLEAN]
  BY <1>1
<1>3. [st EXCEPT !.typed = x, !.data = d, !.cr = w, !.pending = FALSE] \in [pending : BOOLEAN, cr : BOOLEAN, typed : Nat, data : S, brk : BOOLEAN, quit : BOOLEAN]
  BY <1>1
<1> QED
  BY <1>2, <1>3 DEF S, SolBuffers

LEMMA SolKeyTyped ==
  ASSUME NEW t \in Nat, NEW st, SolTyped(st, t), NEW ch
  PROVE  SolTyped(SolKey(st, ch), t)
<1>1. /\ st \in SolBuffers /\ st.typed \in Nat /\ st.data \in Seq(Nat) /\ Len(st.data) \in Nat /\ st.typed = t + Len(st.data)
      /\ \A i \in 1..Len(st.data) : st.data[i] = t + i
  BY DEF SolTyped, SolBuffers
<1> DEFINE one == Append(st.data, st.typed + 1)
           two == st.data \o <<st.typed + 1, st.typed + 2>>
           n == [st EXCEPT !.typed = @ + 1, !.data = Append(@, st.typed + 1), !.cr = ch = "cr"]
           b == [st EXCEPT !.typed = @ + 2, !.data = @ \o <<st.typed + 1, st.typed + 2>>, !.cr = ch = "cr", !.pending = FALSE]
<1>2. one \in Seq(Nat) /\ Len(one) = Len(st.data) + 1 /\ \A i \in 1..Len(one) : one[i] = t + i
  <2> DEFINE d == st.data
             m == st.typed + 1
  <2>1. d \in Seq(Nat) /\ m \in Nat /\ m = t + Len(d) + 1 /\ \A i \in 1..Len(d) : d[i] = t + i
    BY <1>1
  <2> HIDE DEF d, m
  <2>2. Append(d, m) \in Seq(Nat) /\ Len(Append(d, m)) = Len(d) + 1 /\ \A i \in 1..Len(Append(d, m)) : Append(d, m)[i] = t + i
    BY <2>1
  <2> QED
    BY <2>2 DEF d, m
<1>3. two \in Seq(Nat) /\ Len(two) = Len(st.data) + 2 /\ \A i \in 1..Len(two) : two[i] = t + i
  <2> DEFINE d == st.data
             w == <<st.typed + 1, st.typed + 2>>
  <2>1. d \in Seq(Nat) /\ Len(d) \in Nat /\ \A i \in 1..Len(d) : d[i] = t + i
    BY <1>1
  <2>2. w \in Seq(Nat) /\ Len(w) = 2 /\ w[1] = t + Len(d) + 1 /\ w[2] = t + Len(d) + 2
    BY <1>1
  <2> HIDE DEF d, w
  <2> DEFINE c == d \o w
  <2>3. /\ c \in Seq(Nat) /\ Len(c) = Len(d) + Len(w) /\ \A i \in 1..Len(d) : c[i] = d[i]
        /\ \A i \in 1..Len(w) : c[Len(d) + i] = w[i]
    BY <2>1, <2>2, SolJoined
  <2> HIDE DEF c
  <2>4. ASSUME NEW i \in 1..Len(c) PROVE c[i] = t + i
    <3>1. i \in 1..Len(d) \/ i = Len(d) + 1 \/ i = Len(d) + 2
      BY <2>1, <2>2, <2>3
    <3>2. c[Len(d) + 1] = w[1] /\ c[Len(d) + 2] = w[2]
      BY <2>2, <2>3
    <3>3. CASE i \in 1..Len(d)
      BY <2>1, <2>3, <3>3
    <3>4. CASE i = Len(d) + 1
      BY <2>1, <2>2, <3>2, <3>4
    <3>5. CASE i = Len(d) + 2
      BY <2>1, <2>2, <3>2, <3>5
    <3> QED
      BY <3>1, <3>3, <3>4, <3>5
  <2>5. two = c
    BY DEF c, d, w
  <2>6. Len(st.data) = Len(d)
    BY DEF d
  <2> HIDE DEF two
  <2> QED
    BY <2>2, <2>3, <2>4, <2>5, <2>6
<1> HIDE DEF one, two
<1>4. SolTyped(n, t)
  <2>1. PICK w \in BOOLEAN : w = (ch = "cr")
    OBVIOUS
  <2>2. n = [st EXCEPT !.typed = @ + 1, !.data = one, !.cr = w]
    BY <2>1 DEF one
  <2> HIDE DEF n
  <2>3. n \in SolBuffers /\ n.typed = st.typed + 1 /\ n.data = one
    <3>1. n \in SolBuffers
      <4>1. PICK x \in Nat : x = st.typed + 1
        BY <1>1
      <4>2. n = [st EXCEPT !.typed = x, !.data = one, !.cr = w]
        BY <2>2, <4>1
      <4> QED
        BY <1>1, <1>2, <4>2, SolBufferGets, Zenon
    <3>2. n.typed = st.typed + 1 /\ n.data = one
      BY <1>1, <2>2 DEF SolBuffers
    <3> QED
      BY <3>1, <3>2
  <2>4. st.typed + 1 = t + Len(one)
    BY <1>1, <1>2
  <2> QED
    BY <1>2, <2>3, <2>4 DEF SolTyped
<1>5. SolTyped(b, t)
  <2>1. PICK w \in BOOLEAN : w = (ch = "cr")
    OBVIOUS
  <2>2. b = [st EXCEPT !.typed = @ + 2, !.data = two, !.cr = w, !.pending = FALSE]
    BY <2>1 DEF two
  <2> HIDE DEF b
  <2>3. b \in SolBuffers /\ b.typed = st.typed + 2 /\ b.data = two
    <3>1. b \in SolBuffers
      <4>1. PICK x \in Nat : x = st.typed + 2
        BY <1>1
      <4>2. b = [st EXCEPT !.typed = x, !.data = two, !.cr = w, !.pending = FALSE]
        BY <2>2, <4>1
      <4> QED
        BY <1>1, <1>3, <4>2, SolBufferGets, Zenon
    <3>2. b.typed = st.typed + 2 /\ b.data = two
      BY <1>1, <2>2 DEF SolBuffers
    <3> QED
      BY <3>1, <3>2
  <2>4. st.typed + 2 = t + Len(two)
    BY <1>1, <1>3
  <2> QED
    BY <1>3, <2>3, <2>4 DEF SolTyped
<1>6. SolTyped([n EXCEPT !.pending = FALSE], t)
  <2>1. n \in SolBuffers
    BY <1>4 DEF SolTyped
  <2> HIDE DEF n
  <2> DEFINE z == [n EXCEPT !.pending = FALSE]
  <2>2. z \in SolBuffers /\ z.typed = n.typed /\ z.data = n.data
    BY <2>1 DEF SolBuffers
  <2> HIDE DEF z
  <2>3. SolTyped(z, t)
    BY <1>4, <2>2 DEF SolTyped
  <2> QED
    BY <2>3 DEF z
<1> HIDE DEF n, b
<1>7. ASSUME NEW z, z \in SolBuffers, z.typed = st.typed, z.data = st.data PROVE SolTyped(z, t)
  BY <1>1, <1>7 DEF SolTyped
<1>8. SolTyped([st EXCEPT !.pending = FALSE, !.quit = TRUE, !.cr = FALSE], t)
  <2> DEFINE z == [st EXCEPT !.pending = FALSE, !.quit = TRUE, !.cr = FALSE]
  <2>1. z \in SolBuffers /\ z.typed = st.typed /\ z.data = st.data
    BY <1>1 DEF SolBuffers
  <2> QED
    BY <1>7, <2>1
<1>9. SolTyped([st EXCEPT !.pending = FALSE, !.brk = TRUE], t)
  <2> DEFINE z == [st EXCEPT !.pending = FALSE, !.brk = TRUE]
  <2>1. z \in SolBuffers /\ z.typed = st.typed /\ z.data = st.data
    BY <1>1 DEF SolBuffers
  <2> QED
    BY <1>7, <2>1
<1>10. SolTyped([st EXCEPT !.pending = FALSE], t) /\ SolTyped([st EXCEPT !.pending = TRUE], t)
  <2> DEFINE z == [st EXCEPT !.pending = FALSE]
             y == [st EXCEPT !.pending = TRUE]
  <2>1. z \in SolBuffers /\ z.typed = st.typed /\ z.data = st.data /\ y \in SolBuffers /\ y.typed = st.typed /\ y.data = st.data
    BY <1>1 DEF SolBuffers
  <2> QED
    BY <1>7, <2>1
<1>11. \/ SolKey(st, ch) = n \/ SolKey(st, ch) = b \/ SolKey(st, ch) = [n EXCEPT !.pending = FALSE]
       \/ SolKey(st, ch) = [st EXCEPT !.pending = FALSE, !.quit = TRUE, !.cr = FALSE]
       \/ SolKey(st, ch) = [st EXCEPT !.pending = FALSE, !.brk = TRUE]
       \/ SolKey(st, ch) = [st EXCEPT !.pending = FALSE] \/ SolKey(st, ch) = [st EXCEPT !.pending = TRUE]
  BY DEF SolKey, n, b
<1> QED
  BY <1>4, <1>5, <1>6, <1>8, <1>9, <1>10, <1>11

(* The buffer after a partial acknowledgement: what is left to send.       *)
LEMMA SolShifted ==
  ASSUME NEW k \in Nat, SolPayTyped, k <= solPay.count
  PROVE  LET m == solPay.count - k IN
         /\ SolShift(k) \in Seq(Nat) /\ m <= Len(SolShift(k)) /\ m \in Nat
         /\ \A t \in Nat : SolLasts(solPay.buf, solPay.count, t) => SolLasts(SolShift(k), m, t)
<1> DEFINE d == solPay.buf
           c == solPay.count
           m == c - k
           a == SubSeq(d, k + 1, c)
           z == SubSeq(d, m + 1, Len(d))
<1>1. d \in Seq(Nat) /\ c \in Nat /\ c <= Len(d) /\ k <= c /\ Len(d) \in Nat
  BY DEF SolPayTyped, SolPays
<1>2. SolShift(k) = a \o z
  BY DEF SolShift
<1>3. ASSUME NEW t \in Nat, SolLasts(solPay.buf, solPay.count, t) PROVE \A i \in 1..c : d[i] = t - c + i
  BY <1>3 DEF SolLasts
<1> HIDE DEF d, c
<1>4. a \in Seq(Nat) /\ Len(a) = m /\ m \in Nat /\ \A i \in 1..m : a[i] = d[k + i]
  BY <1>1
<1>5. z \in Seq(Nat) /\ Len(z) \in Nat
  BY <1>1
<1> HIDE DEF a, z, m
<1>6. /\ a \o z \in Seq(Nat) /\ m <= Len(a \o z) /\ \A i \in 1..m : (a \o z)[i] = d[k + i]
  BY <1>4, <1>5
<1>7. m = c - k
  BY DEF m
<1>8. ASSUME NEW t \in Nat, \A i \in 1..c : d[i] = t - c + i PROVE SolLasts(a \o z, m, t)
  <2>1. ASSUME NEW i \in 1..m PROVE (a \o z)[i] = t - m + i
    <3>1. k + i \in 1..c /\ t - c + (k + i) = t - m + i
      BY <1>1, <1>7
    <3> QED
      BY <1>6, <1>8, <3>1
  <2> QED
    BY <2>1 DEF SolLasts
<1> QED
  BY <1>2, <1>3, <1>4, <1>6, <1>8 DEF m, c, d

LEMMA SolInvInit == SolInit => SolInv
<1> SUFFICES ASSUME SolInit PROVE SolInv
  OBVIOUS
<1>1. /\ solPay.kind = "none" /\ solPay.seq = 0 /\ solPay.buf = <<>> /\ solPay.count = 0 /\ solPay.try = 0 /\ solPay.outer = 0
      /\ solPay \in [kind : {"none", "input", "break", "keepalive"}, seq : {0}, buf : {<<>>}, count : {0}, try : {0}, outer : {0}]
  BY DEF SolInit, SolIdlePay
<1>2. 0 \in SolNo /\ SolSeqs \in Nat
  BY SolNumbers DEF SolNo
<1>3. SolPayTyped
  <2>1. <<>> \in Seq(Nat) /\ Len(<<>>) = 0
    OBVIOUS
  <2> DEFINE S == Seq(Nat)
  <2> HIDE DEF S
  <2>2. <<>> \in S
    BY <2>1 DEF S
  <2>3. solPay \in [kind : {"none", "input", "break", "keepalive"}, seq : SolNo, buf : S, count : Nat, try : Nat, outer : Nat]
    BY <1>1, <1>2, <2>2
  <2> QED
    BY <1>1, <2>1, <2>3 DEF SolInit, SolPayTyped, SolPays, SolCalling, S
<1>4. SolSeenTyped
  BY <1>2 DEF SolInit, SolSeenTyped, SolKeyboards
<1>5. SolNetTyped
  BY DEF SolInit, SolNetTyped
<1>6. SolBmcTyped
  BY <1>2 DEF SolInit, SolBmcTyped, SolBmcOk, SolBmcs
<1>7. SolUnderWay
  BY DEF SolInit, SolUnderWay, SolFlow, SolOutput, SolAcks
<1>8. SolArrived
  BY DEF SolInit, SolArrived, SolPrinted, SolSeen
<1>9. SolTyping
  BY <1>1 DEF SolInit, SolTyping, SolSending, SolPath, SolSettled, SolCounted, SolCalling, SolLeft
<1> QED
  BY <1>3, <1>4, <1>5, <1>6, <1>7, <1>8, <1>9 DEF SolInv, SolTypes, SolBegins, SolInit

(* The state's parts that the steps below are about.                       *)
LEMMA SolFacts ==
  ASSUME SolTypes
  PROVE  /\ solPay \in SolPays /\ solPay.seq \in SolNo /\ solPay.buf \in Seq(Nat) /\ solPay.count \in Nat /\ solPay.try \in Nat
         /\ solPay.outer \in Nat
         /\ solLast.seq \in Nat /\ solLast.count \in Nat /\ solLast \in [seq : SolNo, count : Nat] /\ solKeys.typed \in Nat
         /\ solKeys.data \in Seq(Nat) /\ solOut \in Seq(Nat)
         /\ solNet.req \in Seq(SolReqs) /\ solNet.rsp \in Seq(SolRsps) /\ solNet.faults \in Nat /\ Len(solNet.req) \in Nat
         /\ Len(solNet.rsp) \in Nat
         /\ solBmc.last \in SolNo /\ solBmc.accepted \in Nat /\ solBmc.got \in Seq(Nat) /\ solBmc.seq \in Nat
         /\ solBmc.first \in Nat \ {0}
         /\ solBmc.upto \in Nat /\ solBmc.first <= solBmc.upto + 1 /\ SolSeqs \in Nat /\ SolSeqs >= 2
         /\ solPay.kind \in {"none", "input", "break", "keepalive"} /\ solPay.count <= Len(solPay.buf)
<1>1. SolSeqs \in Nat /\ SolSeqs >= 2
  BY SolNumbers
<1>2. \A x \in SolNo : x \in Nat
  BY <1>1 DEF SolNo
<1>3. /\ solPay \in SolPays /\ solPay.seq \in SolNo /\ solPay.buf \in Seq(Nat) /\ solPay.count \in Nat /\ solPay.try \in Nat
      /\ solPay.outer \in Nat
      /\ solPay.kind \in {"none", "input", "break", "keepalive"} /\ solPay.count <= Len(solPay.buf)
  BY DEF SolTypes, SolPayTyped, SolPays
<1>4. /\ solLast.seq \in Nat /\ solLast.count \in Nat /\ solLast \in [seq : SolNo, count : Nat] /\ solOut \in Seq(Nat)
  BY <1>2 DEF SolTypes, SolSeenTyped
<1>5. solKeys.typed \in Nat /\ solKeys.data \in Seq(Nat)
  BY DEF SolTypes, SolSeenTyped, SolKeyboards
<1>6. solNet.req \in Seq(SolReqs) /\ solNet.rsp \in Seq(SolRsps) /\ solNet.faults \in Nat
  BY DEF SolTypes, SolNetTyped
<1>7. Len(solNet.req) \in Nat /\ Len(solNet.rsp) \in Nat
  BY <1>6
<1>8. /\ solBmc.last \in SolNo /\ solBmc.accepted \in Nat /\ solBmc.got \in Seq(Nat) /\ solBmc.seq \in Nat /\ solBmc.first \in Nat \ {0}
      /\ solBmc.upto \in Nat /\ solBmc.first <= solBmc.upto + 1
  BY <1>2 DEF SolTypes, SolBmcTyped, SolBmcOk, SolBmcs
<1> QED
  BY <1>1, <1>3, <1>4, <1>5, <1>6, <1>7, <1>8

LEMMA SolQueueFacts ==
  ASSUME SolTypes
  PROVE  /\ \A i \in 1..Len(solNet.req) : solNet.req[i] \in SolReqs /\ solNet.req[i].accepted \in Nat /\ solNet.req[i].seq \in SolNo /\ solNet.req[i].data \in Seq(Nat)
         /\ \A i \in 1..Len(solNet.rsp) : /\ solNet.rsp[i] \in SolRsps /\ solNet.rsp[i].seq \in SolNo /\ solNet.rsp[i].seq \in Nat /\ solNet.rsp[i].data \in Seq(Nat)
                                          /\ Len(solNet.rsp[i].data) \in Nat /\ solNet.rsp[i].accepted \in Nat
<1>0. \A x \in SolNo : x \in Nat
  BY SolNumbers DEF SolNo
<1> DEFINE Q == SolReqs
           P == SolRsps
           req == solNet.req
           rsp == solNet.rsp
<1>1. req \in Seq(Q) /\ rsp \in Seq(P)
  BY SolFacts
<1> HIDE DEF Q, P, req, rsp
<1>2. (\A i \in 1..Len(req) : req[i] \in Q) /\ (\A i \in 1..Len(rsp) : rsp[i] \in P)
  BY <1>1
<1>3. \A x \in Q : x \in SolReqs /\ x.accepted \in Nat /\ x.seq \in SolNo /\ x.data \in Seq(Nat)
  BY DEF Q, SolReqs
<1>4. \A x \in P : x \in SolRsps /\ x.seq \in SolNo /\ x.seq \in Nat /\ x.data \in Seq(Nat) /\ Len(x.data) \in Nat /\ x.accepted \in Nat
  BY <1>0 DEF P, SolRsps
<1>5. /\ \A i \in 1..Len(req) : req[i] \in SolReqs /\ req[i].accepted \in Nat /\ req[i].seq \in SolNo /\ req[i].data \in Seq(Nat)
      /\ \A i \in 1..Len(rsp) : rsp[i] \in SolRsps /\ rsp[i].seq \in SolNo /\ rsp[i].seq \in Nat /\ rsp[i].data \in Seq(Nat) /\ Len(rsp[i].data) \in Nat /\ rsp[i].accepted \in Nat
  BY <1>2, <1>3, <1>4
<1> QED
  BY <1>5 DEF req, rsp

(* A new payload has a number that is not the last one's.                  *)
LEMMA SolSends ==
  ASSUME SolPayTyped, NEW kind \in {"none", "input", "break", "keepalive"}, NEW buf \in Seq(Nat), NEW count \in Nat,
         count <= Len(buf), NEW outer \in Nat,
         SolSendSol(kind, buf, count, outer)
  PROVE  /\ SolPayTyped' /\ SolCalling' /\ solAt' = "send" /\ solPay'.seq \notin {0, solPay.seq}
         /\ solPay'.kind = kind /\ solPay'.buf = buf /\ solPay'.count = count
<1> DEFINE n == set_sol_packet_sequence_number
           S == Seq(Nat)
<1>1. solPay.seq \in Nat /\ solPay.seq <= SolSeqs /\ solNext = solPay.seq + 1 /\ SolSeqs \in Nat /\ SolSeqs >= 2
  BY SolNumbers DEF SolPayTyped, SolPays, SolNo
<1>2. n \in SolNo /\ n # 0 /\ n # solPay.seq
  BY <1>1 DEF set_sol_packet_sequence_number, SolNo
<1>3. /\ solPay' = [kind |-> kind, seq |-> n, buf |-> buf, count |-> count, try |-> 0, outer |-> outer]
      /\ solNext' = n + 1 /\ solAt' = "send" /\ buf \in S
  BY DEF SolSendSol
<1> HIDE DEF n, S
<1>4. /\ solPay'.seq = n /\ solPay'.kind = kind /\ solPay'.buf = buf /\ solPay'.count = count
      /\ solPay' \in [kind : {"none", "input", "break", "keepalive"}, seq : SolNo, buf : S, count : Nat, try : Nat, outer : Nat]
  BY <1>2, <1>3
<1>5. SolPayTyped'
  BY <1>2, <1>3, <1>4 DEF SolPayTyped, SolPays, S
<1> QED
  BY <1>2, <1>3, <1>4, <1>5 DEF SolCalling

(* Steps that leave the console's output alone.                            *)
LEMMA SolQuiet ==
  ASSUME SolTypes, SolUnderWay, SolArrived, solLast' = solLast, solOut' = solOut, solBmc' = solBmc, solNet'.req = solNet.req,
         solNet'.rsp = solNet.rsp, "dropped" \in solHist => "dropped" \in solHist'
  PROVE  SolUnderWay' /\ SolArrived' /\ SolBmcTyped'
<1>1. SolUnderWay'
  BY DEF SolUnderWay
<1>2. SolArrived'
  BY DEF SolArrived, SolPrinted
<1>3. SolBmcTyped'
  BY DEF SolTypes, SolBmcTyped
<1> QED
  BY <1>1, <1>2, <1>3

(* Input after a new payload.                                              *)
LEMMA SolTypingSends ==
  ASSUME SolTypes, "gave_up" \notin solHist' => "gave_up" \notin solHist, SolTyping, solAt # "exit", solBmc' = solBmc,
         solKeys' \in SolKeyboards,
         "gave_up" \notin solHist => /\ SolPath(solNet'.req, solNet'.rsp, solPay.seq, SolData, solBmc.last, solBmc.accepted)
                                     /\ SolSettled(solNet'.rsp, solPay.seq, solBmc.last)
                                     /\ Len(solBmc.got) + SolLeft' = solKeys'.typed
                                     /\ IF solPay'.kind = "input" THEN SolLasts(solPay'.buf, solPay'.count, solKeys'.typed) ELSE solPay'.count = 0
                                     /\ solPay'.kind = "break" => SolLasts(solKeys'.data, Len(solKeys'.data), solKeys'.typed),
         SolCalling', solPay'.seq \notin {0, solPay.seq}
  PROVE  SolTyping'
<1> SUFFICES ASSUME "gave_up" \notin solHist' PROVE (\A i \in 1..Len(solBmc'.got) : solBmc'.got[i] = i) /\ SolSending'
  BY DEF SolTyping
<1>1. "gave_up" \notin solHist /\ (\A i \in 1..Len(solBmc'.got) : solBmc'.got[i] = i)
  BY DEF SolTyping
<1>2. SolPath(solNet'.req, solNet'.rsp, solPay'.seq, SolData', solBmc'.last, solBmc'.accepted) /\ solBmc.last # solPay'.seq
  BY <1>1, SolPathNew
<1>3. ~SolTaken' /\ solKeys'.typed \in Nat
  BY <1>2 DEF SolTaken, SolKeyboards
<1>4. SolCounted'
  BY <1>1, <1>3 DEF SolCounted
<1> QED
  BY <1>1, <1>2, <1>4 DEF SolSending

LEMMA SolTypingEnds ==
  ASSUME SolTyping, "gave_up" \notin solHist' => "gave_up" \notin solHist, solBmc' = solBmc, solAt' = "exit"
  PROVE  SolTyping'
BY DEF SolTyping

(* A packet of the BMC received, and its new characters printed or, in     *)
(* three cases, dropped.                                                   *)
LEMMA SolReceived ==
  ASSUME SolTypes, SolUnderWay, SolArrived, solNet.rsp # <<>>, NEW p, p = Head(solNet.rsp), ipmi_lanplus_recv_sol(p), solBmc' = solBmc,
         "dropped" \in solHist => "dropped" \in solHist',
         \/ solOut' = solOut \o check_sol_packet_for_new_data(p)
         \/ solOut' = solOut /\ ("dropped" \notin solHist' => check_sol_packet_for_new_data(p) = <<>>)
  PROVE  /\ SolNetTyped' /\ SolUnderWay' /\ SolArrived' /\ SolBmcTyped' /\ solLast' \in [seq : SolNo, count : Nat]
         /\ solOut' \in Seq(Nat)
         /\ SolBecomes(solNet.rsp, solNet'.rsp, {}) /\ SolBecomes(solNet.req, solNet'.req, {SolAckOf(p)}) /\ p = solNet.rsp[1]
         /\ Len(solNet'.rsp) = Len(solNet.rsp) - 1 /\ \A i \in 1..(Len(solNet.rsp) - 1) : solNet'.rsp[i] = solNet.rsp[i + 1]
         /\ Len(solNet.rsp) \in Nat \ {0}
<1> DEFINE new == check_sol_packet_for_new_data(p)
           seen == SolSeen(solLast.seq, solLast.count, solBmc.seq, solBmc.first, solBmc.upto)
           req == solNet.req
           rsp == solNet.rsp
           req1 == solNet'.req
           rsp1 == solNet'.rsp
           e == SolAckOf(p)
<1>1. solNet \in [req : Seq(SolReqs), rsp : Seq(SolRsps), faults : Nat]
  BY DEF SolTypes, SolNetTyped
<1>2. /\ req \in Seq(SolReqs) /\ rsp \in Seq(SolRsps) /\ req1 = req \o ack_sol_packet(p) /\ rsp1 = Tail(rsp) /\ solNet'.faults \in Nat
      /\ solNet' = [req |-> req1, rsp |-> rsp1, faults |-> solNet.faults]
  BY <1>1 DEF ipmi_lanplus_recv_sol
<1>3. p = rsp[1] /\ rsp \in Seq(SolRsps) /\ Len(rsp) \in Nat \ {0} /\ 1 \in 1..Len(rsp) /\ Len(rsp1) = Len(rsp) - 1 /\ \A i \in 1..(Len(rsp) - 1) : rsp1[i] = rsp[i + 1]
  BY <1>2
<1>4. p \in SolRsps /\ p.seq \in SolNo /\ p.seq \in Nat /\ p.data \in Seq(Nat) /\ Len(p.data) \in Nat
  BY <1>3, SolQueueFacts
<1>5. e \in SolReqs /\ 0 \in SolNo
  <2>1. 0 \in SolNo /\ <<>> \in Seq(Nat)
    BY SolNumbers DEF SolNo
  <2> DEFINE S == Seq(Nat)
  <2>2. <<>> \in S
    BY <2>1
  <2> HIDE DEF S
  <2>3. [seq |-> 0, data |-> <<>>, acks |-> p.seq, accepted |-> Len(p.data)] \in [seq : SolNo, data : S, acks : SolNo, accepted : Nat]
    BY <1>4, <2>1, <2>2
  <2> QED
    BY <2>1, <2>3 DEF SolReqs, SolAckOf, S
<1>6. /\ p.seq = 0 => req1 = req
      /\ p.seq # 0 => req1 = Append(req, e)
  <2>1. ASSUME p.seq # 0 PROVE ack_sol_packet(p) = <<e>>
    BY <2>1 DEF ack_sol_packet, SolAckOf
  <2>2. ASSUME p.seq = 0 PROVE ack_sol_packet(p) = <<>>
    BY <2>2 DEF ack_sol_packet
  <2> HIDE DEF e
  <2>3. Append(req, e) = req \o <<e>> /\ req \o <<>> = req
    <3> DEFINE Q == SolReqs
    <3>1. req \in Seq(Q) /\ e \in Q
      BY <1>2, <1>5
    <3> HIDE DEF Q, req
    <3> QED
      BY <3>1
  <2> QED
    BY <1>2, <2>1, <2>2, <2>3
<1> HIDE DEF e, req, rsp, req1, rsp1
<1>7. p.seq # 0 => Len(req1) = Len(req) + 1 /\ req1[Len(req) + 1] = e /\ \A i \in 1..Len(req) : req1[i] = req[i]
  <2> DEFINE Q == SolReqs
  <2>1. req \in Seq(Q) /\ e \in Q
    BY <1>2, <1>5
  <2> HIDE DEF Q
  <2> QED
    BY <1>6, <2>1
<1>8. req1 \in Seq(SolReqs) /\ SolBecomes(req, req1, {e})
  <2>1. SolBecomes(req, req, {e})
    <3>1. SolBecomes(req, req, {})
      BY <1>2, <1>5, SolQueue
    <3> QED
      BY <3>1 DEF SolBecomes
  <2> QED
    BY <1>2, <1>5, <1>6, <2>1, SolQueue
<1>9. rsp1 \in Seq(SolRsps) /\ SolBecomes(rsp, rsp1, {})
  <2>1. rsp # <<>>
    BY DEF rsp
  <2> QED
    BY <1>2, <1>4, <2>1, SolQueue
<1>10. SolNetTyped'
  BY <1>2, <1>8, <1>9, SolFacts DEF SolNetTyped
<1>11. /\ solLast'.seq = (IF p.seq = 0 THEN solLast.seq ELSE p.seq)
       /\ solLast'.count = (IF p.seq = 0 THEN solLast.count ELSE Len(p.data))
       /\ solLast' \in [seq : SolNo, count : Nat]
  BY <1>4, SolFacts DEF ipmi_lanplus_recv_sol, SolRemember
<1>12. new = SolFresh(solLast.seq, solLast.count, p)
  BY DEF check_sol_packet_for_new_data, SolFresh
<1>13. /\ SolFlow(req1, rsp1, solLast'.seq, solLast'.count, solBmc.seq, solBmc.first, solBmc.upto)
       /\ new \in Seq(Nat) /\ SolSeen(solLast'.seq, solLast'.count, solBmc.seq, solBmc.first, solBmc.upto) = seen + Len(new)
       /\ \A i \in 1..Len(new) : new[i] = seen + i
  <2>1. /\ Len(req) \in Nat /\ (\A i \in 1..Len(req) : req[i].accepted \in Nat)
        /\ \A i \in 1..Len(rsp) : rsp[i].seq \in Nat /\ rsp[i].data \in Seq(Nat)
    BY SolFacts, SolQueueFacts DEF req, rsp
  <2>2. SolFlow(req, rsp, solLast.seq, solLast.count, solBmc.seq, solBmc.first, solBmc.upto)
    BY DEF SolUnderWay, req, rsp
  <2>3. /\ solLast.seq \in Nat /\ solLast.count \in Nat /\ solBmc.seq \in Nat /\ solBmc.first \in Nat /\ solBmc.upto \in Nat
    BY SolFacts
  <2>4. p.seq # 0 => Len(req1) = Len(req) + 1 /\ req1[Len(req) + 1] = SolAckOf(p) /\ \A i \in 1..Len(req) : req1[i] = req[i]
    BY <1>7 DEF e
  <2> DEFINE fresh == SolFresh(solLast.seq, solLast.count, p)
  <2>5. /\ SolFlow(req1, rsp1, solLast'.seq, solLast'.count, solBmc.seq, solBmc.first, solBmc.upto) /\ fresh \in Seq(Nat)
        /\ SolSeen(solLast'.seq, solLast'.count, solBmc.seq, solBmc.first, solBmc.upto) = seen + Len(fresh)
        /\ \A i \in 1..Len(fresh) : fresh[i] = seen + i
    <3>1. SolReceives(req, rsp, req1, rsp1, solLast.seq, solLast.count, solBmc.seq, solBmc.first, solBmc.upto, p, solLast'.seq, solLast'.count)
      BY <1>3, <1>6, <1>11, <2>1, <2>2, <2>3, <2>4 DEF SolReceives
    <3> QED
      BY <3>1, SolFlowReceived
  <2> HIDE DEF seen, new
  <2> QED
    BY <1>12, <2>5
<1>14. SolUnderWay'
  BY <1>13 DEF SolUnderWay, req1, rsp1
<1>15. seen \in Nat
  <2>1. solLast.count \in Nat /\ solBmc.first \in Nat \ {0} /\ solBmc.upto \in Nat
    BY SolFacts
  <2> QED
    BY <2>1 DEF SolSeen
<1>16. SolArrived' /\ solOut' \in Seq(Nat)
  <2>1. SolPrinted(solOut, "dropped" \notin solHist, seen) /\ solOut \in Seq(Nat)
    BY SolFacts DEF SolArrived
  <2> HIDE DEF seen, new
  <2>2. /\ SolPrinted(solOut \o new, "dropped" \notin solHist', seen + Len(new)) /\ solOut \o new \in Seq(Nat)
        /\ ("dropped" \notin solHist' => new = <<>>) => SolPrinted(solOut, "dropped" \notin solHist', seen + Len(new))
    BY <1>13, <1>15, <2>1, SolPrintedMore
  <2>3. SolPrinted(solOut', "dropped" \notin solHist', seen + Len(new)) /\ solOut' \in Seq(Nat)
    <3>1. solOut' = solOut \o new \/ (solOut' = solOut /\ ("dropped" \notin solHist' => new = <<>>))
      BY DEF new
    <3> QED
      BY <2>1, <2>2, <3>1
  <2> QED
    BY <1>13, <2>3 DEF SolArrived
<1>17. SolBmcTyped'
  BY DEF SolTypes, SolBmcTyped
<1> QED
  BY <1>3, <1>8, <1>9, <1>10, <1>11, <1>14, <1>16, <1>17 DEF req, rsp, req1, rsp1, e

LEMMA SolActivateStep == ASSUME SolInv, ipmi_sol_activate PROVE SolInv'
<1>1. /\ solAt = "off" /\ solHist = {} /\ solAt' \in {"exit", "loop"} /\ "dropped" \notin solHist' /\ "gave_up" \notin solHist'
      /\ solPay' = solPay /\ solNext' = solNext /\ solLast' = solLast /\ solKeys' = solKeys /\ solOut' = solOut /\ solNet' = solNet
      /\ solBmc' = solBmc
  BY DEF ipmi_sol_activate, SolInv, SolBegins
<1>2. SolTypes /\ SolUnderWay /\ SolArrived /\ SolTyping
  BY DEF SolInv
<1>3. SolUnderWay' /\ SolArrived' /\ SolBmcTyped'
  BY <1>1, <1>2, SolQuiet
<1>4. SolPayTyped' /\ SolSeenTyped' /\ SolNetTyped'
  BY <1>1, <1>2 DEF SolTypes, SolPayTyped, SolSeenTyped, SolNetTyped, SolCalling
<1>5. ~SolCalling /\ ~SolCalling'
  BY <1>1 DEF SolCalling
<1>6. SolTyping'
  <2>1. SolSending /\ \A i \in 1..Len(solBmc.got) : solBmc.got[i] = i
    BY <1>1, <1>2 DEF SolTyping
  <2>2. SolSending'
    BY <1>1, <1>5, <2>1 DEF SolSending, SolCounted, SolLeft, SolData
  <2> QED
    BY <1>1, <2>1, <2>2 DEF SolTyping
<1> QED
  BY <1>1, <1>3, <1>4, <1>6 DEF SolInv, SolTypes, SolBegins

(* The ways out of the loop.                                               *)
LEMMA SolLeaves ==
  ASSUME SolInv, solAt' = "exit", solPay' = solPay, solNext' = solNext, solLast' = solLast, solKeys' \in SolKeyboards, solOut' = solOut,
         solNet' = solNet \/ solNet' = [solNet EXCEPT !.faults = @ + 1], solBmc' = solBmc, \A h \in solHist : h \in solHist'
  PROVE  SolInv'
<1>1. SolTypes /\ SolUnderWay /\ SolArrived /\ SolTyping
  BY DEF SolInv
<1>2. solNet'.req = solNet.req /\ solNet'.rsp = solNet.rsp /\ SolNetTyped'
  <2> DEFINE Q == Seq(SolReqs)
             P == Seq(SolRsps)
  <2>1. solNet \in [req : Q, rsp : P, faults : Nat]
    BY <1>1 DEF SolTypes, SolNetTyped
  <2> HIDE DEF Q, P
  <2>2. solNet'.req = solNet.req /\ solNet'.rsp = solNet.rsp /\ solNet' \in [req : Q, rsp : P, faults : Nat]
    BY <2>1
  <2> QED
    BY <2>2 DEF SolNetTyped, Q, P
<1>3. SolUnderWay' /\ SolArrived' /\ SolBmcTyped'
  BY <1>1, <1>2, SolQuiet
<1>4. SolPayTyped' /\ SolSeenTyped'
  BY <1>1 DEF SolTypes, SolPayTyped, SolSeenTyped, SolCalling
<1>5. SolTyping'
  BY <1>1, SolTypingEnds
<1> QED
  BY <1>2, <1>3, <1>4, <1>5 DEF SolInv, SolTypes, SolBegins

LEMMA SolStdinStep == ASSUME SolInv, SolStdinEnds PROVE SolInv'
<1>1. SolTypes
  BY DEF SolInv
<1>2. solKeys' \in SolKeyboards
  BY <1>1 DEF SolTypes, SolSeenTyped, SolStdinEnds
<1> QED
  BY <1>2, SolLeaves DEF SolStdinEnds, SolLeave

LEMMA SolBrokenStep == ASSUME SolInv, SolBroken PROVE SolInv'
<1>1. SolTypes
  BY DEF SolInv
<1>2. solKeys' \in SolKeyboards
  BY <1>1 DEF SolTypes, SolSeenTyped, SolBroken
<1>3. solAt' = "exit" /\ \A h \in solHist : h \in solHist'
  BY DEF SolBroken, SolLeave
<1> QED
  BY <1>2, <1>3, SolLeaves DEF SolBroken

LEMMA SolFaulty ==
  ASSUME SolTypes, solNet' = [solNet EXCEPT !.faults = @ + 1]
  PROVE  solNet'.req = solNet.req /\ solNet'.rsp = solNet.rsp /\ SolNetTyped'
<1> DEFINE Q == Seq(SolReqs)
           P == Seq(SolRsps)
<1>1. solNet \in [req : Q, rsp : P, faults : Nat]
  BY DEF SolTypes, SolNetTyped
<1> HIDE DEF Q, P
<1>2. solNet'.req = solNet.req /\ solNet'.rsp = solNet.rsp /\ solNet' \in [req : Q, rsp : P, faults : Nat]
  BY <1>1
<1> QED
  BY <1>2 DEF SolNetTyped, Q, P

LEMMA SolKeepaliveStep == ASSUME SolInv, ipmi_sol_keepalive_using_sol PROVE SolInv'
<1>1. SolTypes /\ SolUnderWay /\ SolArrived /\ SolTyping
  BY DEF SolInv
<1>2. /\ solAt = "loop" /\ solNet' = [solNet EXCEPT !.faults = @ + 1] /\ SolSendSol("keepalive", <<>>, 0, 0)
      /\ solLast' = solLast /\ solKeys' = solKeys /\ solOut' = solOut /\ solBmc' = solBmc /\ solHist' = solHist
  BY DEF ipmi_sol_keepalive_using_sol
<1>3. solNet'.req = solNet.req /\ solNet'.rsp = solNet.rsp /\ SolNetTyped'
  BY <1>1, <1>2, SolFaulty
<1>4. SolUnderWay' /\ SolArrived' /\ SolBmcTyped'
  BY <1>1, <1>2, <1>3, SolQuiet
<1>5. SolSeenTyped' /\ solKeys' \in SolKeyboards
  BY <1>1, <1>2 DEF SolTypes, SolSeenTyped
<1>6. /\ SolPayTyped' /\ SolCalling' /\ solAt' = "send" /\ solPay'.seq \notin {0, solPay.seq} /\ solPay'.kind = "keepalive"
      /\ solPay'.count = 0
  <2>1. SolPayTyped /\ <<>> \in Seq(Nat) /\ 0 <= Len(<<>>) /\ 0 \in Nat
    BY <1>1 DEF SolTypes
  <2> QED
    BY <1>2, <2>1, SolSends
<1>7. ~SolCalling
  BY <1>2 DEF SolCalling
<1>8. ASSUME "gave_up" \notin solHist
      PROVE  /\ SolPath(solNet'.req, solNet'.rsp, solPay.seq, SolData, solBmc.last, solBmc.accepted)
             /\ SolSettled(solNet'.rsp, solPay.seq, solBmc.last)
             /\ Len(solBmc.got) + SolLeft' = solKeys'.typed
  <2>1. SolSending
    BY <1>1, <1>2, <1>8 DEF SolTyping
  <2>2. SolLeft = 0 /\ SolLeft' = 0
    BY <1>6, <1>7 DEF SolLeft
  <2>3. Len(solBmc.got) + 0 = solKeys.typed + 0 /\ solKeys.typed \in Nat /\ Len(solBmc.got) \in Nat
    BY <1>1, <1>7, <2>1, <2>2, SolFacts DEF SolSending, SolCounted
  <2> QED
    BY <1>2, <1>3, <1>7, <2>1, <2>2, <2>3 DEF SolSending
<1>9. SolTyping'
  BY <1>1, <1>2, <1>5, <1>6, <1>8, SolTypingSends
<1> QED
  BY <1>3, <1>4, <1>5, <1>6, <1>9 DEF SolInv, SolTypes, SolBegins

LEMMA SolConsoleStep == ASSUME SolInv, SolConsole PROVE SolInv'
<1>1. SolTypes /\ SolUnderWay /\ SolArrived /\ SolTyping
  BY DEF SolInv
<1> DEFINE p == Head(solNet.rsp)
<1>2. /\ solAt = "loop" /\ solNet.rsp # <<>> /\ ipmi_lanplus_recv_sol(p) /\ solOut' = solOut \o check_sol_packet_for_new_data(p)
      /\ solAt' = solAt /\ solPay' = solPay /\ solNext' = solNext /\ solKeys' = solKeys /\ solBmc' = solBmc /\ solHist' = solHist
  BY DEF SolConsole
<1> HIDE DEF p
<1>3. /\ SolNetTyped' /\ SolUnderWay' /\ SolArrived' /\ SolBmcTyped' /\ solLast' \in [seq : SolNo, count : Nat] /\ solOut' \in Seq(Nat)
      /\ SolBecomes(solNet.rsp, solNet'.rsp, {}) /\ SolBecomes(solNet.req, solNet'.req, {SolAckOf(p)})
      /\ Len(solNet'.rsp) = Len(solNet.rsp) - 1
      /\ Len(solNet.rsp) \in Nat \ {0}
  BY <1>1, <1>2, SolReceived DEF p
<1>4. SolPayTyped' /\ SolSeenTyped' /\ ~SolCalling /\ ~SolCalling'
  BY <1>1, <1>2, <1>3 DEF SolTypes, SolPayTyped, SolSeenTyped, SolCalling
<1>5. SolTyping'
  <2> SUFFICES ASSUME "gave_up" \notin solHist PROVE (\A i \in 1..Len(solBmc.got) : solBmc.got[i] = i) /\ SolSending'
    BY <1>2 DEF SolTyping
  <2>1. SolSending /\ \A i \in 1..Len(solBmc.got) : solBmc.got[i] = i
    BY <1>1, <1>2 DEF SolTyping
  <2>2. SolAckOf(p).seq = 0
    BY DEF SolAckOf
  <2>3. Len(solNet'.req) \in Nat
    BY <1>3 DEF SolNetTyped
  <2>4. SolPath(solNet'.req, solNet'.rsp, solPay.seq, SolData, solBmc.last, solBmc.accepted) /\ SolSettled(solNet'.rsp, solPay.seq, solBmc.last)
    <3>1. Len(solNet.req) \in Nat /\ Len(solNet.rsp) \in Nat /\ Len(solNet'.rsp) \in Nat
      BY <1>1, <1>3, SolFacts, SMTT(30)
    <3>2. \A q \in {SolAckOf(p)} : q.seq = 0 \/ (q.seq = solPay.seq /\ q.data = SolData)
      BY <2>2
    <3>3. \A q \in {} : q.acks = 0 \/ (q.acks = solBmc.last /\ q.accepted = solBmc.accepted)
      OBVIOUS
    <3>4. SolPath(solNet.req, solNet.rsp, solPay.seq, SolData, solBmc.last, solBmc.accepted) /\ SolSettled(solNet.rsp, solPay.seq, solBmc.last)
      BY <1>4, <2>1 DEF SolSending
    <3>5. SolMoves(solNet.req, solNet.rsp, solNet'.req, solNet'.rsp, solPay.seq, SolData, solBmc.last, solBmc.accepted, {SolAckOf(p)}, {})
      BY <1>3, <2>3, <3>1, <3>2, <3>3 DEF SolMoves
    <3> QED
      BY <3>4, <3>5, SolPathMoves
  <2>5. SolCounted'
    BY <1>2, <1>4, <2>1 DEF SolSending, SolCounted, SolLeft
  <2> QED
    BY <1>2, <2>1, <2>4, <2>5 DEF SolSending, SolData
<1> QED
  BY <1>2, <1>3, <1>4, <1>5 DEF SolInv, SolTypes, SolBegins

LEMMA SolInputStep == ASSUME SolInv, processSolUserInput PROVE SolInv'
<1>1. SolTypes /\ SolUnderWay /\ SolArrived /\ SolTyping
  BY DEF SolInv
<1> DEFINE Keys == {SolKey(SolStart, ch) : ch \in SolKeyClasses} \cup
                   {SolKey(SolKey(SolStart, "x"), "x"), SolKey(SolKey(SolKey(SolStart, "cr"), "esc"), "dot")}
           t == solKeys.typed
<1>2. /\ solAt = "loop" /\ solLast' = solLast /\ solOut' = solOut /\ solNet' = solNet /\ solBmc' = solBmc
  BY DEF processSolUserInput
<1>3. PICK st \in Keys :
        /\ solKeys' = [pending |-> st.pending, cr |-> st.cr, typed |-> st.typed, data |-> st.data, quit |-> st.quit]
        /\ \/ st.brk /\ SolSendSol("break", <<>>, 0, 0) /\ UNCHANGED <<solRaw, solHist>>
           \/ /\ ~st.brk /\ st.data # <<>>
              /\ SolSendSol("input", st.data, Len(st.data), 0) /\ UNCHANGED <<solRaw, solHist>>
           \/ /\ ~st.brk /\ st.data = <<>> /\ UNCHANGED <<solPay, solNext>>
              /\ IF st.quit THEN SolLeave({"deactivated"}) ELSE UNCHANGED <<solAt, solRaw, solHist>>
  BY DEF processSolUserInput
<1>4. SolTyped(st, t) /\ t \in Nat
  <2>1. solKeys \in SolKeyboards /\ t \in Nat
    BY <1>1 DEF SolTypes, SolSeenTyped, SolKeyboards
  <2>2. SolTyped(SolStart, t)
    <3>1. SolStart \in SolBuffers /\ SolStart.typed = t /\ SolStart.data = <<>>
      BY <2>1 DEF SolStart, SolBuffers, SolKeyboards
    <3>2. Len(<<>>) = 0 /\ t = t + 0
      BY <2>1
    <3> QED
      BY <3>1, <3>2 DEF SolTyped
  <2> HIDE DEF t
  <2>3. ASSUME NEW ch PROVE SolTyped(SolKey(SolStart, ch), t)
    BY <2>1, <2>2, SolKeyTyped
  <2>4. SolTyped(SolKey(SolKey(SolStart, "x"), "x"), t)
    BY <2>1, <2>3, SolKeyTyped
  <2>5. SolTyped(SolKey(SolKey(SolStart, "cr"), "esc"), t)
    BY <2>1, <2>3, SolKeyTyped
  <2>6. SolTyped(SolKey(SolKey(SolKey(SolStart, "cr"), "esc"), "dot"), t)
    BY <2>1, <2>5, SolKeyTyped
  <2> QED
    BY <2>1, <2>3, <2>4, <2>6
<1> HIDE DEF Keys
<1>5. /\ st \in SolBuffers /\ st.data \in Seq(Nat) /\ Len(st.data) \in Nat /\ st.typed = t + Len(st.data) /\ st.typed \in Nat
      /\ \A i \in 1..Len(st.data) : st.data[i] = t + i
  BY <1>4 DEF SolTyped, SolBuffers
<1>6. solKeys' \in SolKeyboards /\ solKeys'.typed = st.typed /\ solKeys'.data = st.data
  BY <1>3, <1>5 DEF SolBuffers, SolKeyboards
<1>7. SolLasts(st.data, Len(st.data), st.typed)
  <2>1. ASSUME NEW i \in 1..Len(st.data) PROVE st.data[i] = st.typed - Len(st.data) + i
    <3>1. t + i = st.typed - Len(st.data) + i
      BY <1>4, <1>5
    <3> QED
      BY <1>5, <3>1
  <2> QED
    BY <2>1 DEF SolLasts
<1>8. solNet'.req = solNet.req /\ solNet'.rsp = solNet.rsp /\ SolNetTyped' /\ SolSeenTyped' /\ ~SolCalling
  BY <1>1, <1>2, <1>6 DEF SolTypes, SolNetTyped, SolSeenTyped, SolCalling
<1>9. ASSUME "gave_up" \notin solHist
      PROVE  /\ SolPath(solNet'.req, solNet'.rsp, solPay.seq, SolData, solBmc.last, solBmc.accepted)
             /\ SolSettled(solNet'.rsp, solPay.seq, solBmc.last)
             /\ Len(solBmc.got) = t /\ SolSending
  <2>1. SolSending
    BY <1>1, <1>2, <1>9 DEF SolTyping
  <2>2. SolLeft = 0
    BY <1>8 DEF SolLeft
  <2>3. Len(solBmc.got) + 0 = solKeys.typed + 0 /\ solKeys.typed \in Nat /\ Len(solBmc.got) \in Nat
    BY <1>1, <1>8, <2>1, <2>2, SolFacts DEF SolSending, SolCounted
  <2> QED
    BY <1>8, <2>1, <2>3 DEF SolSending
<1>10. CASE SolSendSol("break", <<>>, 0, 0) /\ solHist' = solHist
  <2>1. /\ SolPayTyped' /\ SolCalling' /\ solAt' = "send" /\ solPay'.seq \notin {0, solPay.seq} /\ solPay'.kind = "break"
        /\ solPay'.count = 0
    <3>1. SolPayTyped /\ <<>> \in Seq(Nat) /\ 0 <= Len(<<>>) /\ 0 \in Nat
      BY <1>1 DEF SolTypes
    <3> QED
      BY <1>10, <3>1, SolSends
  <2>2. SolLeft' = Len(st.data)
    BY <1>6, <2>1 DEF SolLeft
  <2>3. "gave_up" \notin solHist => Len(solBmc.got) + SolLeft' = solKeys'.typed
    BY <1>5, <1>6, <1>9, <2>2
  <2>4. SolTyping'
    BY <1>1, <1>2, <1>6, <1>7, <1>9, <1>10, <2>1, <2>3, SolTypingSends
  <2>5. SolUnderWay' /\ SolArrived' /\ SolBmcTyped'
    BY <1>1, <1>2, <1>8, <1>10, SolQuiet
  <2> QED
    BY <1>8, <2>1, <2>4, <2>5 DEF SolInv, SolTypes, SolBegins
<1>11. CASE SolSendSol("input", st.data, Len(st.data), 0) /\ solHist' = solHist
  <2>1. /\ SolPayTyped' /\ SolCalling' /\ solAt' = "send" /\ solPay'.seq \notin {0, solPay.seq} /\ solPay'.kind = "input"
        /\ solPay'.count = Len(st.data)
        /\ solPay'.buf = st.data
    <3>1. SolPayTyped /\ Len(st.data) <= Len(st.data) /\ 0 \in Nat
      BY <1>1, <1>5 DEF SolTypes
    <3> QED
      BY <1>5, <1>11, <3>1, SolSends
  <2>2. SolLeft' = Len(st.data)
    BY <1>6, <2>1 DEF SolLeft
  <2>3. "gave_up" \notin solHist => Len(solBmc.got) + SolLeft' = solKeys'.typed
    BY <1>5, <1>6, <1>9, <2>2
  <2>4. SolTyping'
    BY <1>1, <1>2, <1>6, <1>7, <1>9, <1>11, <2>1, <2>3, SolTypingSends
  <2>5. SolUnderWay' /\ SolArrived' /\ SolBmcTyped'
    BY <1>1, <1>2, <1>8, <1>11, SolQuiet
  <2> QED
    BY <1>8, <2>1, <2>4, <2>5 DEF SolInv, SolTypes, SolBegins
<1>12. CASE solPay' = solPay /\ solNext' = solNext /\ SolLeave({"deactivated"})
  <2>1. solAt' = "exit" /\ \A h \in solHist : h \in solHist'
    BY <1>12 DEF SolLeave
  <2> QED
    BY <1>2, <1>6, <1>12, <2>1, SolLeaves
<1>13. CASE st.data = <<>> /\ solPay' = solPay /\ solNext' = solNext /\ solAt' = solAt /\ solHist' = solHist
  <2>1. solKeys'.typed = t /\ ~SolCalling' /\ SolLeft = 0 /\ SolLeft' = 0
    BY <1>2, <1>4, <1>5, <1>6, <1>8, <1>13 DEF SolCalling, SolLeft
  <2>2. SolTyping'
    <3> SUFFICES ASSUME "gave_up" \notin solHist PROVE (\A i \in 1..Len(solBmc.got) : solBmc.got[i] = i) /\ SolSending'
      BY <1>2, <1>13 DEF SolTyping
    <3>1. \A i \in 1..Len(solBmc.got) : solBmc.got[i] = i
      BY <1>1 DEF SolTyping
    <3>2. SolCounted'
      BY <1>2, <1>8, <1>9, <2>1 DEF SolCounted, SolSending
    <3> QED
      BY <1>2, <1>9, <1>13, <3>1, <3>2 DEF SolSending, SolData
  <2>3. SolUnderWay' /\ SolArrived' /\ SolBmcTyped'
    BY <1>1, <1>2, <1>8, <1>13, SolQuiet
  <2>4. SolPayTyped'
    BY <1>1, <1>13 DEF SolTypes, SolPayTyped, SolCalling
  <2> QED
    BY <1>2, <1>8, <1>13, <2>2, <2>3, <2>4 DEF SolInv, SolTypes, SolBegins
<1> QED
  BY <1>3, <1>10, <1>11, <1>12, <1>13

LEMMA SolTransmitStep == ASSUME SolInv, SolTransmit PROVE SolInv'
<1>1. SolTypes /\ SolUnderWay /\ SolArrived /\ SolTyping
  BY DEF SolInv
<1> DEFINE e == SolPacket
<1>2. /\ solAt = "send" /\ solAt' = "recv" /\ solNet' = [solNet EXCEPT !.req = Append(@, e)]
      /\ solPay' = solPay /\ solNext' = solNext /\ solLast' = solLast /\ solKeys' = solKeys /\ solOut' = solOut /\ solBmc' = solBmc
      /\ solHist' = solHist
  BY DEF SolTransmit
<1>3. SolCalling /\ SolCalling' /\ solPay.seq # 0
  BY <1>1, <1>2 DEF SolCalling, SolTypes, SolPayTyped
<1>4. e \in SolReqs /\ e.seq = solPay.seq /\ e.data = SolData
  <2> DEFINE S == Seq(Nat)
  <2>1. SolData \in S /\ 0 \in SolNo /\ solPay.seq \in SolNo
    <3>1. solPay.buf \in Seq(Nat) /\ solPay.count \in Nat /\ solPay.count <= Len(solPay.buf) /\ SolSeqs \in Nat /\ solPay.seq \in SolNo
      BY <1>1, SolFacts
    <3> QED
      BY <3>1 DEF SolData, SolNo
  <2> HIDE DEF S
  <2>2. e = [seq |-> solPay.seq, data |-> SolData, acks |-> 0, accepted |-> 0]
    BY DEF SolPacket, SolData
  <2> HIDE DEF e
  <2>3. e \in [seq : SolNo, data : S, acks : SolNo, accepted : Nat] /\ e.seq = solPay.seq /\ e.data = SolData
    BY <2>1, <2>2
  <2> QED
    BY <2>3 DEF SolReqs, S
<1> HIDE DEF e
<1>5. /\ solNet'.req = Append(solNet.req, e) /\ solNet'.rsp = solNet.rsp /\ SolNetTyped'
      /\ SolBecomes(solNet.req, solNet'.req, {e}) /\ SolBecomes(solNet.rsp, solNet'.rsp, {})
      /\ Len(solNet'.req) \in Nat
  <2> DEFINE Q == Seq(SolReqs)
             P == Seq(SolRsps)
  <2>1. solNet.req \in Seq(SolReqs)
    BY <1>1, SolFacts
  <2>2. Append(solNet.req, e) \in Seq(SolReqs) /\ SolBecomes(solNet.req, Append(solNet.req, e), {e})
    BY <1>4, <2>1, SolQueue
  <2>3. SolBecomes(solNet.rsp, solNet.rsp, {})
    <3>1. \A i \in 1..Len(solNet.rsp) : i + 0 <= Len(solNet.rsp) /\ solNet.rsp[i] = solNet.rsp[i + 0]
      BY <1>1, SolFacts
    <3> QED
      BY <3>1 DEF SolBecomes
  <2>4. solNet \in [req : Q, rsp : P, faults : Nat] /\ Append(solNet.req, e) \in Q
    BY <1>1, <2>2 DEF SolTypes, SolNetTyped
  <2> HIDE DEF Q, P
  <2>5. solNet'.req = Append(solNet.req, e) /\ solNet'.rsp = solNet.rsp /\ solNet' \in [req : Q, rsp : P, faults : Nat]
    BY <1>2, <2>4
  <2>6. Len(Append(solNet.req, e)) \in Nat
    BY <2>2
  <2> QED
    BY <2>2, <2>3, <2>5, <2>6 DEF SolNetTyped, Q, P
<1>6. SolUnderWay'
  <2>1. \A q \in {e} : q.seq # 0
    BY <1>3, <1>4
  <2>2. SolFlows(solNet.req, solNet.rsp, solNet'.req, solNet'.rsp, solLast.seq, solLast.count, solBmc.seq, solBmc.first, solBmc.upto, {e}, {})
    BY <1>1, <1>5, <2>1, SolFacts, SolQueueFacts DEF SolFlows
  <2>3. SolFlow(solNet.req, solNet.rsp, solLast.seq, solLast.count, solBmc.seq, solBmc.first, solBmc.upto)
    BY <1>1 DEF SolUnderWay
  <2>4. SolFlow(solNet'.req, solNet'.rsp, solLast.seq, solLast.count, solBmc.seq, solBmc.first, solBmc.upto)
    BY <2>2, <2>3, SolFlowMoves
  <2> QED
    BY <1>2, <2>4 DEF SolUnderWay
<1>7. SolArrived'
  BY <1>1, <1>2 DEF SolArrived
<1>8. SolPayTyped' /\ SolSeenTyped' /\ SolBmcTyped'
  BY <1>1, <1>2, <1>3 DEF SolTypes, SolPayTyped, SolSeenTyped, SolBmcTyped
<1>9. SolTyping'
  <2> SUFFICES ASSUME "gave_up" \notin solHist PROVE (\A i \in 1..Len(solBmc.got) : solBmc.got[i] = i) /\ SolSending'
    BY <1>2 DEF SolTyping
  <2>1. SolSending /\ \A i \in 1..Len(solBmc.got) : solBmc.got[i] = i
    BY <1>1, <1>2 DEF SolTyping
  <2>2. SolMoves(solNet.req, solNet.rsp, solNet'.req, solNet'.rsp, solPay.seq, SolData, solBmc.last, solBmc.accepted, {e}, {})
    BY <1>1, <1>4, <1>5, SolFacts DEF SolMoves
  <2>3. SolPath(solNet'.req, solNet'.rsp, solPay.seq, SolData, solBmc.last, solBmc.accepted)
    BY <2>1, <2>2, SolPathMoves DEF SolSending
  <2>4. SolCounted'
    BY <1>2, <1>3, <2>1 DEF SolSending, SolCounted, SolLeft, SolTaken
  <2> QED
    BY <1>2, <1>3, <2>1, <2>3, <2>4 DEF SolSending, SolData
<1> QED
  BY <1>2, <1>5, <1>6, <1>7, <1>8, <1>9 DEF SolInv, SolTypes, SolBegins

(* send_sol returned.                                                      *)
LEMMA SolAnsweredFacts ==
  ASSUME SolTypes, NEW h, SolAnswered(h)
  PROVE  /\ SolPayTyped' /\ solAt' \in {"send", "loop", "exit"} /\ (\A x \in solHist : x \in solHist') /\ (\A x \in h : x \in solHist')
         /\ \/ /\ solPay.kind = "break" /\ solKeys.data # <<>> /\ solAt' = "send" /\ solPay'.seq \notin {0, solPay.seq}
               /\ solPay'.kind = "input" /\ solPay'.buf = solKeys.data /\ solPay'.count = Len(solKeys.data)
            \/ /\ ~(solPay.kind = "break" /\ solKeys.data # <<>>) /\ solAt' \in {"loop", "exit"} /\ solPay' = solPay
<1>1. SolPayTyped /\ solKeys.data \in Seq(Nat) /\ Len(solKeys.data) \in Nat /\ Len(solKeys.data) <= Len(solKeys.data) /\ 0 \in Nat
  BY SolFacts, SMTT(30) DEF SolTypes
<1>2. CASE solPay.kind = "break" /\ solKeys.data # <<>>
  <2>1. SolSendSol("input", solKeys.data, Len(solKeys.data), 0) /\ solHist' = solHist \cup h
    BY <1>2 DEF SolAnswered
  <2>2. /\ SolPayTyped' /\ solAt' = "send" /\ solPay'.seq \notin {0, solPay.seq}
        /\ solPay'.kind = "input" /\ solPay'.buf = solKeys.data /\ solPay'.count = Len(solKeys.data)
    BY <1>1, <2>1, SolSends
  <2> QED
    BY <1>2, <2>1, <2>2
<1>3. CASE ~(solPay.kind = "break" /\ solKeys.data # <<>>)
  <2>1. SolDone(h) /\ solPay' = solPay /\ solNext' = solNext
    BY <1>3 DEF SolAnswered
  <2>2. solAt' \in {"loop", "exit"} /\ (\A x \in solHist : x \in solHist') /\ (\A x \in h : x \in solHist')
    BY <2>1 DEF SolDone, SolLeave
  <2>3. SolPayTyped'
    BY <1>1, <2>1, <2>2 DEF SolPayTyped, SolCalling
  <2> QED
    BY <1>3, <2>1, <2>2, <2>3
<1> QED
  BY <1>2, <1>3

LEMMA SolTimeoutStep == ASSUME SolInv, SolTimeout PROVE SolInv'
<1>1. SolTypes /\ SolUnderWay /\ SolArrived /\ SolTyping
  BY DEF SolInv
<1>2. /\ solAt = "recv" /\ (solNet' = solNet \/ solNet' = [solNet EXCEPT !.faults = @ + 1])
      /\ solLast' = solLast /\ solKeys' = solKeys /\ solOut' = solOut /\ solBmc' = solBmc
  BY DEF SolTimeout
<1>3. solNet'.req = solNet.req /\ solNet'.rsp = solNet.rsp /\ SolNetTyped'
  BY <1>1, <1>2, SolFaulty DEF SolTypes, SolNetTyped
<1>4. SolSeenTyped' /\ SolCalling
  BY <1>1, <1>2 DEF SolTypes, SolSeenTyped, SolCalling
<1>5. CASE solPay' = [solPay EXCEPT !.try = @ + 1] /\ solAt' = "send" /\ solNext' = solNext /\ solHist' = solHist
  <2>1. /\ solPay'.seq = solPay.seq /\ solPay'.kind = solPay.kind /\ solPay'.buf = solPay.buf /\ solPay'.count = solPay.count
        /\ solPay' \in SolPays
    <3> DEFINE S == Seq(Nat)
    <3>1. solPay \in [kind : {"none", "input", "break", "keepalive"}, seq : SolNo, buf : S, count : Nat, try : Nat, outer : Nat]
      BY <1>1 DEF SolTypes, SolPayTyped, SolPays
    <3> HIDE DEF S
    <3>2. /\ solPay'.seq = solPay.seq /\ solPay'.kind = solPay.kind /\ solPay'.buf = solPay.buf /\ solPay'.count = solPay.count
          /\ solPay' \in [kind : {"none", "input", "break", "keepalive"}, seq : SolNo, buf : S, count : Nat, try : Nat, outer : Nat]
      BY <1>5, <3>1
    <3> QED
      BY <3>2 DEF SolPays, S
  <2>2. SolPayTyped' /\ SolCalling'
    BY <1>1, <1>4, <1>5, <2>1 DEF SolTypes, SolPayTyped, SolCalling
  <2>3. SolUnderWay' /\ SolArrived' /\ SolBmcTyped'
    BY <1>1, <1>2, <1>3, <1>5, SolQuiet
  <2>4. SolTyping'
    <3> SUFFICES ASSUME "gave_up" \notin solHist PROVE (\A i \in 1..Len(solBmc.got) : solBmc.got[i] = i) /\ SolSending'
      BY <1>2, <1>5 DEF SolTyping
    <3>1. SolSending /\ \A i \in 1..Len(solBmc.got) : solBmc.got[i] = i
      BY <1>1, <1>2 DEF SolTyping
    <3>2. SolCounted'
      BY <1>2, <1>4, <2>1, <2>2, <3>1 DEF SolSending, SolCounted, SolLeft, SolTaken
    <3> QED
      BY <1>2, <1>3, <2>1, <2>2, <3>1, <3>2 DEF SolSending, SolData
  <2> QED
    BY <1>3, <1>4, <1>5, <2>2, <2>3, <2>4 DEF SolInv, SolTypes, SolBegins
<1>6. CASE SolUnanswered
  <2>1. /\ SolPayTyped' /\ solAt' # "off" /\ "gave_up" \in solHist' /\ \A x \in solHist : x \in solHist'
    <3>1. CASE SolAnswered({"gave_up"})
      BY <1>1, <3>1, SolAnsweredFacts
    <3>2. CASE SolSendSol("input", solPay.buf, Len(solPay.buf), solPay.outer + 1) /\ solHist' = solHist \cup {"gave_up"}
      <4>1. SolPayTyped /\ solPay.buf \in Seq(Nat) /\ Len(solPay.buf) \in Nat /\ Len(solPay.buf) <= Len(solPay.buf) /\ solPay.outer + 1 \in Nat
        <5>1. solPay.buf \in Seq(Nat) /\ solPay.outer \in Nat
          BY <1>1, SolFacts
        <5>2. Len(solPay.buf) \in Nat /\ solPay.outer + 1 \in Nat
          BY <5>1
        <5> QED
          BY <1>1, <5>1, <5>2 DEF SolTypes
      <4>2. SolPayTyped' /\ solAt' = "send"
        BY <3>2, <4>1, SolSends
      <4> QED
        BY <3>2, <4>2
    <3>3. CASE SolLeave({"gave_up", "closed"}) /\ solPay' = solPay /\ solNext' = solNext
      BY <1>1, <3>3 DEF SolLeave, SolTypes, SolPayTyped, SolCalling
    <3> QED
      BY <1>6, <3>1, <3>2, <3>3 DEF SolUnanswered
  <2>2. SolUnderWay' /\ SolArrived' /\ SolBmcTyped'
    BY <1>1, <1>2, <1>3, <2>1, SolQuiet
  <2>3. SolTyping'
    BY <2>1 DEF SolTyping
  <2> QED
    BY <1>3, <1>4, <2>1, <2>2, <2>3 DEF SolInv, SolTypes, SolBegins
<1> QED
  BY <1>5, <1>6 DEF SolTimeout

LEMMA SolReceiveStep == ASSUME SolInv, SolReceive PROVE SolInv'
<1>1. SolTypes /\ SolUnderWay /\ SolArrived /\ SolTyping
  BY DEF SolInv
<1> DEFINE p == Head(solNet.rsp)
           new == check_sol_packet_for_new_data(p)
           acked == sol_response_acks_packet(p)
           whole == p.nack \/ is_sol_partial_ack(p) = 0
           H == {h \in {"dropped", "gave_up"} : IF h = "gave_up" THEN p.nack ELSE SolDrops /\ new # <<>>}
<1>2. /\ solAt = "recv" /\ solNet.rsp # <<>> /\ ipmi_lanplus_recv_sol(p) /\ solKeys' = solKeys /\ solBmc' = solBmc
      /\ solOut' = IF acked /\ whole /\ SolDrops THEN solOut ELSE solOut \o new
  BY DEF SolReceive
<1>3. \/ /\ acked /\ ~p.nack /\ is_sol_partial_ack(p) > 0
         /\ SolSendSol(solPay.kind, SolShift(p.accepted), is_sol_partial_ack(p), solPay.outer) /\ solHist' = solHist
      \/ acked /\ whole /\ SolAnswered(H)
      \/ ~acked /\ solPay' = [solPay EXCEPT !.try = @ + 1] /\ solAt' = solAt /\ solNext' = solNext /\ solHist' = solHist
      \/ ~acked /\ SolAnswered({"gave_up"})
  BY DEF SolReceive
<1>4. SolCalling /\ solPay.seq # 0
  BY <1>1, <1>2 DEF SolCalling, SolTypes, SolPayTyped
<1>5. p = solNet.rsp[1] /\ 1 \in 1..Len(solNet.rsp) /\ p.accepted \in Nat /\ is_sol_partial_ack(p) = solPay.count - p.accepted
      /\ (acked <=> p.acks = solPay.seq) /\ solPay.count \in Nat
  <2>1. solNet.rsp \in Seq(SolRsps)
    BY <1>1, SolFacts
  <2>2. p = solNet.rsp[1] /\ 1 \in 1..Len(solNet.rsp)
    <3> DEFINE P == SolRsps
               rsp == solNet.rsp
    <3>1. rsp \in Seq(P) /\ rsp # <<>>
      BY <1>2, <2>1
    <3> HIDE DEF P, rsp
    <3>2. Head(rsp) = rsp[1] /\ 1 \in 1..Len(rsp)
      BY <3>1
    <3> QED
      BY <3>2 DEF rsp
  <2> QED
    BY <1>1, <2>2, SolFacts, SolQueueFacts DEF is_sol_partial_ack, sol_response_acks_packet
<1> HIDE DEF p, new, H
<1>6. ASSUME \A x \in solHist : x \in solHist',
             acked /\ whole /\ SolDrops => new = <<>> \/ "dropped" \in solHist'
      PROVE  /\ SolNetTyped' /\ SolUnderWay' /\ SolArrived' /\ SolBmcTyped' /\ SolSeenTyped'
             /\ SolBecomes(solNet.rsp, solNet'.rsp, {}) /\ SolBecomes(solNet.req, solNet'.req, {SolAckOf(p)})
             /\ Len(solNet'.rsp) = Len(solNet.rsp) - 1 /\ \A i \in 1..(Len(solNet.rsp) - 1) : solNet'.rsp[i] = solNet.rsp[i + 1]
             /\ Len(solNet.rsp) \in Nat \ {0}
  <2>1. solOut' = solOut \o check_sol_packet_for_new_data(p) \/ (solOut' = solOut /\ ("dropped" \notin solHist' => check_sol_packet_for_new_data(p) = <<>>))
    BY <1>2, <1>6 DEF new
  <2>2. p = Head(solNet.rsp) /\ ("dropped" \in solHist => "dropped" \in solHist')
    BY <1>6 DEF p
  <2>3. /\ SolNetTyped' /\ SolUnderWay' /\ SolArrived' /\ SolBmcTyped' /\ solLast' \in [seq : SolNo, count : Nat]
        /\ solOut' \in Seq(Nat)
        /\ SolBecomes(solNet.rsp, solNet'.rsp, {}) /\ SolBecomes(solNet.req, solNet'.req, {SolAckOf(p)}) /\ p = solNet.rsp[1]
        /\ Len(solNet'.rsp) = Len(solNet.rsp) - 1 /\ \A i \in 1..(Len(solNet.rsp) - 1) : solNet'.rsp[i] = solNet.rsp[i + 1]
        /\ Len(solNet.rsp) \in Nat \ {0}
    BY <1>1, <1>2, <2>1, <2>2, SolReceived
  <2>4. SolSeenTyped'
    BY <1>1, <1>2, <2>3 DEF SolTypes, SolSeenTyped
  <2> QED
    BY <2>3, <2>4
<1>7. ASSUME "gave_up" \notin solHist, SolNetTyped',
             SolBecomes(solNet.rsp, solNet'.rsp, {}) /\ SolBecomes(solNet.req, solNet'.req, {SolAckOf(p)}),
             Len(solNet'.rsp) = Len(solNet.rsp) - 1 /\ \A i \in 1..(Len(solNet.rsp) - 1) : solNet'.rsp[i] = solNet.rsp[i + 1],
             Len(solNet.rsp) \in Nat \ {0}
      PROVE  /\ SolSending /\ (\A i \in 1..Len(solBmc.got) : solBmc.got[i] = i)
             /\ SolPath(solNet'.req, solNet'.rsp, solPay.seq, SolData, solBmc.last, solBmc.accepted)
             /\ acked => SolSettled(solNet'.rsp, solPay.seq, solBmc.last) /\ p.accepted = solBmc.accepted
  <2>1. SolSending /\ \A i \in 1..Len(solBmc.got) : solBmc.got[i] = i
    BY <1>1, <1>2, <1>7 DEF SolTyping
  <2>2. SolPath(solNet.req, solNet.rsp, solPay.seq, SolData, solBmc.last, solBmc.accepted)
    BY <2>1 DEF SolSending
  <2>3. SolMoves(solNet.req, solNet.rsp, solNet'.req, solNet'.rsp, solPay.seq, SolData, solBmc.last, solBmc.accepted, {SolAckOf(p)}, {})
    <3>1. SolAckOf(p).seq = 0
      BY DEF SolAckOf
    <3>2. Len(solNet'.req) \in Nat
      BY <1>7 DEF SolNetTyped
    <3> QED
      BY <1>1, <1>7, <3>1, <3>2, SolFacts DEF SolMoves
  <2>4. SolPath(solNet'.req, solNet'.rsp, solPay.seq, SolData, solBmc.last, solBmc.accepted)
    BY <2>2, <2>3, SolPathMoves
  <2>5. acked => SolSettled(solNet'.rsp, solPay.seq, solBmc.last) /\ p.accepted = solBmc.accepted
    <3>1. ASSUME acked PROVE solNet.rsp[1].acks = solPay.seq
      BY <1>5, <3>1
    <3>2. /\ Len(solNet.rsp) \in Nat \ {0} /\ Len(solNet'.rsp) = Len(solNet.rsp) - 1
          /\ \A i \in 1..(Len(solNet.rsp) - 1) : solNet'.rsp[i] = solNet.rsp[i + 1]
      BY <1>7
    <3>3. ASSUME acked PROVE solNet.rsp[1].accepted = solBmc.accepted /\ SolSettled(solNet'.rsp, solPay.seq, solBmc.last)
      BY <1>4, <2>2, <3>1, <3>2, <3>3, SolPathAcked
    <3> QED
      BY <1>5, <3>3
  <2> QED
    BY <2>1, <2>4, <2>5
<1>8. CASE /\ acked /\ ~p.nack /\ is_sol_partial_ack(p) > 0
           /\ SolSendSol(solPay.kind, SolShift(p.accepted), is_sol_partial_ack(p), solPay.outer) /\ solHist' = solHist
  <2> DEFINE m == solPay.count - p.accepted
             z == SolShift(p.accepted)
  <2>1. ~whole
    BY <1>5, <1>8
  <2>2. p.accepted <= solPay.count /\ m > 0
    BY <1>5, <1>8
  <2>3. z \in Seq(Nat) /\ m <= Len(z) /\ m \in Nat /\ \A t \in Nat : SolLasts(solPay.buf, solPay.count, t) => SolLasts(z, m, t)
    BY <1>1, <1>5, <2>2, SolShifted DEF SolTypes
  <2>4. SolSendSol(solPay.kind, z, m, solPay.outer)
    BY <1>5, <1>8
  <2> HIDE DEF m, z
  <2>5. /\ SolPayTyped' /\ SolCalling' /\ solAt' = "send" /\ solPay'.seq \notin {0, solPay.seq}
        /\ solPay'.kind = solPay.kind /\ solPay'.buf = z /\ solPay'.count = m
    <3>1. SolPayTyped /\ solPay.outer \in Nat /\ solPay.kind \in {"none", "input", "break", "keepalive"}
      BY <1>1, SolFacts DEF SolTypes
    <3> QED
      BY <2>3, <2>4, <3>1, SolSends
  <2>6. /\ SolNetTyped' /\ SolUnderWay' /\ SolArrived' /\ SolBmcTyped' /\ SolSeenTyped'
        /\ SolBecomes(solNet.rsp, solNet'.rsp, {}) /\ SolBecomes(solNet.req, solNet'.req, {SolAckOf(p)})
        /\ Len(solNet'.rsp) = Len(solNet.rsp) - 1 /\ \A i \in 1..(Len(solNet.rsp) - 1) : solNet'.rsp[i] = solNet.rsp[i + 1]
        /\ Len(solNet.rsp) \in Nat \ {0}
    BY <1>6, <1>8, <2>1
  <2>7. ASSUME "gave_up" \notin solHist
        PROVE  /\ SolPath(solNet'.req, solNet'.rsp, solPay.seq, SolData, solBmc.last, solBmc.accepted)
               /\ SolSettled(solNet'.rsp, solPay.seq, solBmc.last)
               /\ Len(solBmc.got) + SolLeft' = solKeys'.typed
               /\ solPay'.kind = "input" /\ SolLasts(solPay'.buf, solPay'.count, solKeys'.typed)
    <3>1. /\ SolSending /\ SolPath(solNet'.req, solNet'.rsp, solPay.seq, SolData, solBmc.last, solBmc.accepted)
          /\ SolSettled(solNet'.rsp, solPay.seq, solBmc.last) /\ p.accepted = solBmc.accepted
      BY <1>7, <1>8, <2>6, <2>7
    <3>2. SolTaken
      BY <3>1 DEF SolSettled, SolTaken
    <3>3. solPay.kind = "input"
      BY <1>4, <1>5, <2>2, <3>1 DEF SolSending, SolCounted, m
    <3>4. SolLasts(solPay.buf, solPay.count, solKeys.typed) /\ solKeys.typed \in Nat
      BY <1>1, <1>4, <3>1, <3>3, SolFacts DEF SolSending, SolCounted
    <3>5. SolLeft = solPay.count /\ SolLeft' = m
      BY <1>4, <2>5, <3>3 DEF SolLeft
    <3>6. Len(solBmc.got) + solPay.count = solKeys.typed + solBmc.accepted /\ Len(solBmc.got) \in Nat /\ solBmc.accepted \in Nat
      BY <1>1, <1>4, <3>1, <3>2, <3>5, SolFacts DEF SolSending, SolCounted
    <3>7. Len(solBmc.got) + m = solKeys.typed
      BY <1>5, <3>1, <3>4, <3>6, SMTT(30) DEF m
    <3> QED
      BY <1>2, <2>3, <2>5, <3>1, <3>3, <3>4, <3>5, <3>7
  <2>8. solKeys' \in SolKeyboards
    BY <2>6 DEF SolSeenTyped
  <2>9. SolTyping'
    BY <1>1, <1>2, <1>8, <2>5, <2>7, <2>8, SolTypingSends
  <2> QED
    BY <2>5, <2>6, <2>9 DEF SolInv, SolTypes, SolBegins
<1>9. CASE acked /\ whole /\ SolAnswered(H)
  <2>1. /\ SolPayTyped' /\ solAt' \in {"send", "loop", "exit"} /\ (\A x \in solHist : x \in solHist') /\ (\A x \in H : x \in solHist')
        /\ \/ /\ solPay.kind = "break" /\ solKeys.data # <<>> /\ solAt' = "send" /\ solPay'.seq \notin {0, solPay.seq}
              /\ solPay'.kind = "input" /\ solPay'.buf = solKeys.data /\ solPay'.count = Len(solKeys.data)
           \/ /\ ~(solPay.kind = "break" /\ solKeys.data # <<>>) /\ solAt' \in {"loop", "exit"} /\ solPay' = solPay
    BY <1>1, <1>9, SolAnsweredFacts
  <2>2. (SolDrops => new = <<>> \/ "dropped" \in solHist') /\ (p.nack => "gave_up" \in solHist')
    BY <2>1 DEF H
  <2>3. /\ SolNetTyped' /\ SolUnderWay' /\ SolArrived' /\ SolBmcTyped' /\ SolSeenTyped'
        /\ SolBecomes(solNet.rsp, solNet'.rsp, {}) /\ SolBecomes(solNet.req, solNet'.req, {SolAckOf(p)})
        /\ Len(solNet'.rsp) = Len(solNet.rsp) - 1 /\ \A i \in 1..(Len(solNet.rsp) - 1) : solNet'.rsp[i] = solNet.rsp[i + 1]
        /\ Len(solNet.rsp) \in Nat \ {0}
    BY <1>6, <2>1, <2>2
  <2>4. ASSUME "gave_up" \notin solHist'
        PROVE  /\ "gave_up" \notin solHist /\ SolSending /\ (\A i \in 1..Len(solBmc.got) : solBmc.got[i] = i)
               /\ SolPath(solNet'.req, solNet'.rsp, solPay.seq, SolData, solBmc.last, solBmc.accepted)
               /\ SolSettled(solNet'.rsp, solPay.seq, solBmc.last)
               /\ Len(solBmc.got) + SolLeft = solKeys.typed + solPay.count /\ solKeys.typed \in Nat /\ Len(solBmc.got) \in Nat
               /\ IF solPay.kind = "input" THEN SolLasts(solPay.buf, solPay.count, solKeys.typed) ELSE solPay.count = 0
               /\ solPay.kind = "break" => SolLasts(solKeys.data, Len(solKeys.data), solKeys.typed)
    <3>1. "gave_up" \notin solHist /\ ~p.nack /\ is_sol_partial_ack(p) = 0
      BY <1>9, <2>1, <2>2, <2>4
    <3>2. /\ SolSending /\ (\A i \in 1..Len(solBmc.got) : solBmc.got[i] = i)
          /\ SolPath(solNet'.req, solNet'.rsp, solPay.seq, SolData, solBmc.last, solBmc.accepted)
          /\ SolSettled(solNet'.rsp, solPay.seq, solBmc.last) /\ p.accepted = solBmc.accepted
      BY <1>7, <1>9, <2>3, <3>1
    <3>3. SolTaken /\ solBmc.accepted = solPay.count
      BY <1>5, <3>1, <3>2 DEF SolSettled, SolTaken
    <3>4. SolCounted
      BY <3>2 DEF SolSending
    <3>5. Len(solBmc.got) + SolLeft = solKeys.typed + solPay.count
      BY <1>4, <3>3, <3>4 DEF SolCounted
    <3>6. /\ IF solPay.kind = "input" THEN SolLasts(solPay.buf, solPay.count, solKeys.typed) ELSE solPay.count = 0
          /\ solPay.kind = "break" => SolLasts(solKeys.data, Len(solKeys.data), solKeys.typed)
      BY <1>4, <3>4 DEF SolCounted
    <3>7. solKeys.typed \in Nat /\ Len(solBmc.got) \in Nat
      BY <1>1, SolFacts
    <3> QED
      BY <3>1, <3>2, <3>5, <3>6, <3>7
  <2>5. SolTyping'
    <3>1. CASE solAt' = "send"
      <4>1. /\ solPay.kind = "break" /\ solPay'.seq \notin {0, solPay.seq} /\ solPay'.kind = "input" /\ solPay'.buf = solKeys.data
            /\ solPay'.count = Len(solKeys.data) /\ SolCalling' /\ SolLeft' = Len(solKeys.data) /\ SolLeft = Len(solKeys.data)
        BY <1>4, <2>1, <3>1 DEF SolCalling, SolLeft
      <4>2. solKeys' \in SolKeyboards
        BY <2>3 DEF SolSeenTyped
      <4>3. CASE "gave_up" \in solHist'
        BY <4>3 DEF SolTyping
      <4>4. CASE "gave_up" \notin solHist'
        <5>1. Len(solBmc.got) + SolLeft' = solKeys'.typed
          <6>1. solPay.count = 0
            BY <2>4, <4>1, <4>4
          <6>2. Len(solBmc.got) + SolLeft = solKeys.typed + 0 /\ solKeys.typed \in Nat
            BY <2>4, <4>4, <6>1
          <6>3. Len(solBmc.got) + Len(solKeys.data) = solKeys.typed
            <7>1. solKeys.typed + 0 = solKeys.typed
              BY <6>2
            <7>2. SolLeft = Len(solKeys.data)
              BY <4>1
            <7> QED
              BY <6>2, <7>1, <7>2, Zenon
          <6>4. solKeys'.typed = solKeys.typed
            BY <1>2
          <6> QED
            BY <4>1, <6>3, <6>4
        <5> QED
          BY <1>1, <1>2, <2>4, <4>1, <4>2, <4>4, <5>1, SolTypingSends
      <4> QED
        BY <4>3, <4>4
    <3>2. CASE solAt' = "exit"
      BY <1>1, <1>2, <2>1, <3>2, SolTypingEnds
    <3>3. CASE solAt' = "loop"
      <4> SUFFICES ASSUME "gave_up" \notin solHist' PROVE (\A i \in 1..Len(solBmc.got) : solBmc.got[i] = i) /\ SolSending'
        BY <1>2 DEF SolTyping
      <4>1. ~SolCalling' /\ SolLeft' = 0 /\ solPay' = solPay /\ ~(solPay.kind = "break" /\ solKeys.data # <<>>)
        BY <2>1, <3>3 DEF SolCalling, SolLeft
      <4>2. SolLeft = solPay.count
        BY <1>4, <2>4, <4>1 DEF SolLeft
      <4>3. Len(solBmc.got) = solKeys.typed
        BY <1>5, <2>4, <4>2
      <4>4. SolCounted'
        BY <1>2, <2>4, <4>1, <4>3 DEF SolCounted
      <4> QED
        BY <1>2, <2>4, <4>1, <4>4 DEF SolSending, SolData
    <3> QED
      BY <2>1, <3>1, <3>2, <3>3
  <2> QED
    BY <2>1, <2>3, <2>5 DEF SolInv, SolTypes, SolBegins
<1>10. CASE ~acked /\ solPay' = [solPay EXCEPT !.try = @ + 1] /\ solAt' = solAt /\ solNext' = solNext /\ solHist' = solHist
  <2>1. /\ solPay'.seq = solPay.seq /\ solPay'.kind = solPay.kind /\ solPay'.buf = solPay.buf /\ solPay'.count = solPay.count
        /\ solPay' \in SolPays
    <3> DEFINE S == Seq(Nat)
    <3>1. solPay \in [kind : {"none", "input", "break", "keepalive"}, seq : SolNo, buf : S, count : Nat, try : Nat, outer : Nat]
      BY <1>1 DEF SolTypes, SolPayTyped, SolPays
    <3> HIDE DEF S
    <3>2. /\ solPay'.seq = solPay.seq /\ solPay'.kind = solPay.kind /\ solPay'.buf = solPay.buf /\ solPay'.count = solPay.count
          /\ solPay' \in [kind : {"none", "input", "break", "keepalive"}, seq : SolNo, buf : S, count : Nat, try : Nat, outer : Nat]
      BY <1>10, <3>1
    <3> QED
      BY <3>2 DEF SolPays, S
  <2>2. SolPayTyped' /\ SolCalling'
    BY <1>1, <1>4, <1>10, <2>1 DEF SolTypes, SolPayTyped, SolCalling
  <2>3. /\ SolNetTyped' /\ SolUnderWay' /\ SolArrived' /\ SolBmcTyped' /\ SolSeenTyped'
        /\ SolBecomes(solNet.rsp, solNet'.rsp, {}) /\ SolBecomes(solNet.req, solNet'.req, {SolAckOf(p)})
        /\ Len(solNet'.rsp) = Len(solNet.rsp) - 1 /\ \A i \in 1..(Len(solNet.rsp) - 1) : solNet'.rsp[i] = solNet.rsp[i + 1]
        /\ Len(solNet.rsp) \in Nat \ {0}
    BY <1>6, <1>10
  <2>4. SolTyping'
    <3> SUFFICES ASSUME "gave_up" \notin solHist PROVE (\A i \in 1..Len(solBmc.got) : solBmc.got[i] = i) /\ SolSending'
      BY <1>2, <1>10 DEF SolTyping
    <3>1. /\ SolSending /\ (\A i \in 1..Len(solBmc.got) : solBmc.got[i] = i)
          /\ SolPath(solNet'.req, solNet'.rsp, solPay.seq, SolData, solBmc.last, solBmc.accepted)
      BY <1>7, <2>3
    <3>2. SolCounted'
      BY <1>2, <1>4, <2>1, <2>2, <3>1 DEF SolSending, SolCounted, SolLeft, SolTaken
    <3> QED
      BY <1>2, <2>1, <2>2, <3>1, <3>2 DEF SolSending, SolData
  <2> QED
    BY <1>2, <1>10, <2>2, <2>3, <2>4 DEF SolInv, SolTypes, SolBegins
<1>11. CASE ~acked /\ SolAnswered({"gave_up"})
  <2>1. SolPayTyped' /\ solAt' # "off" /\ (\A x \in solHist : x \in solHist') /\ "gave_up" \in solHist'
    BY <1>1, <1>11, SolAnsweredFacts
  <2>2. SolNetTyped' /\ SolUnderWay' /\ SolArrived' /\ SolBmcTyped' /\ SolSeenTyped'
    BY <1>6, <1>11, <2>1
  <2>3. SolTyping'
    BY <2>1 DEF SolTyping
  <2> QED
    BY <2>1, <2>2, <2>3 DEF SolInv, SolTypes, SolBegins
<1> QED
  BY <1>3, <1>8, <1>9, <1>10, <1>11

LEMMA SolCharsFacts ==
  ASSUME NEW a \in Nat, NEW b \in Nat, b >= a
  PROVE  SolChars(a, b) \in Seq(Nat) /\ Len(SolChars(a, b)) = b - a + 1 /\ \A i \in 1..Len(SolChars(a, b)) : SolChars(a, b)[i] = a + i - 1
<1> DEFINE n == b - a + 1
<1>1. n \in Nat /\ SolChars(a, b) = [i \in 1..n |-> a + i - 1]
  BY DEF SolChars
<1> HIDE DEF n
<1>2. \A i \in 1..n : a + i - 1 \in Nat
  BY <1>1
<1>3. [i \in 1..n |-> a + i - 1] \in Seq(Nat) /\ Len([i \in 1..n |-> a + i - 1]) = n /\ \A i \in 1..n : [j \in 1..n |-> a + j - 1][i] = a + i - 1
  BY <1>1, <1>2
<1> QED
  BY <1>1, <1>3 DEF n

(* A packet of the BMC carries what is open of the console's output.       *)
SolCarries(e, b) ==
  \/ e.seq = 0 /\ e.data = <<>>
  \/ b.upto >= b.first /\ e.seq = b.seq /\ b.seq # 0 /\ Len(e.data) = b.upto - b.first + 1 /\ \A i \in 1..Len(e.data) : e.data[i] = b.first + i - 1
LEMMA SolWithFacts ==
  ASSUME NEW b, SolBmcOk(b), NEW acks \in SolNo, NEW k \in Nat, NEW nack \in BOOLEAN
  PROVE  LET e == SolWith(b, acks, k, nack) IN e \in SolRsps /\ e.acks = acks /\ e.accepted = k /\ SolCarries(e, b)
<1> DEFINE S == Seq(Nat)
           d == SolChars(b.first, b.upto)
           e == SolWith(b, acks, k, nack)
<1>1. b.first \in Nat /\ b.upto \in Nat /\ b.seq \in SolNo /\ (b.upto >= b.first => b.seq # 0)
  BY DEF SolBmcOk, SolBmcs
<1>2. 0 \in SolNo /\ <<>> \in S
  BY SolNumbers DEF SolNo
<1>3. b.upto >= b.first => d \in S /\ Len(d) = b.upto - b.first + 1 /\ \A i \in 1..Len(d) : d[i] = b.first + i - 1
  BY <1>1, SolCharsFacts
<1> HIDE DEF S, d
<1>4. CASE b.upto >= b.first
  <2>1. e = [seq |-> b.seq, data |-> d, acks |-> acks, accepted |-> k, nack |-> nack]
    BY <1>4 DEF SolWith, d
  <2> HIDE DEF e
  <2>2. e \in [seq : SolNo, data : S, acks : SolNo, accepted : Nat, nack : BOOLEAN]
    BY <1>1, <1>3, <1>4, <2>1
  <2>3. e.acks = acks /\ e.accepted = k /\ e.seq = b.seq /\ e.data = d
    BY <2>1
  <2>4. SolCarries(e, b)
    BY <1>1, <1>3, <1>4, <2>3 DEF SolCarries
  <2> QED
    BY <2>2, <2>3, <2>4 DEF SolRsps, S, e
<1>5. CASE ~(b.upto >= b.first)
  <2>1. e = [seq |-> 0, data |-> <<>>, acks |-> acks, accepted |-> k, nack |-> nack]
    BY <1>5 DEF SolWith
  <2> HIDE DEF e
  <2>2. e \in [seq : SolNo, data : S, acks : SolNo, accepted : Nat, nack : BOOLEAN]
    BY <1>2, <2>1
  <2>3. e.acks = acks /\ e.accepted = k /\ e.seq = 0 /\ e.data = <<>>
    BY <2>1
  <2>4. SolCarries(e, b)
    BY <2>3 DEF SolCarries
  <2> QED
    BY <2>2, <2>3, <2>4 DEF SolRsps, S, e
<1> QED
  BY <1>4, <1>5

(* What the BMC may open before it answers.                                *)
SolFlowOf(req, rsp, b) == SolFlow(req, rsp, solLast.seq, solLast.count, b.seq, b.first, b.upto)
SolSeenOf(b) == SolSeen(solLast.seq, solLast.count, b.seq, b.first, b.upto)
LEMMA SolOutputsFacts ==
  ASSUME SolTypes, SolUnderWay, NEW b \in SolOutputs(solBmc)
  PROVE  /\ SolBmcOk(b) /\ b.last = solBmc.last /\ b.accepted = solBmc.accepted /\ b.got = solBmc.got
         /\ SolFlowOf(solNet.req, solNet.rsp, b) /\ SolSeenOf(b) = SolSeenOf(solBmc)
<1>1. CASE b = solBmc
  BY <1>1 DEF SolTypes, SolBmcTyped, SolUnderWay, SolFlowOf
<1>2. CASE solBmc.upto < solBmc.first /\ b = [solBmc EXCEPT !.seq = SolConsoleSeq(@), !.upto = @ + 1]
  <2> DEFINE S == Seq(Nat)
             m == SolConsoleSeq(solBmc.seq)
  <2>1. solBmc \in [last : SolNo, accepted : Nat, got : S, seq : SolNo, first : Nat \ {0}, upto : Nat] /\ solBmc.seq \in Nat /\ solBmc.seq <= SolSeqs
    BY SolNumbers DEF SolTypes, SolBmcTyped, SolBmcOk, SolBmcs, SolNo
  <2>2. m \in SolNo /\ m \in Nat /\ m # 0 /\ m # solBmc.seq
    BY <2>1, SolNumbers DEF SolConsoleSeq, SolNo
  <2> HIDE DEF S, m
  <2>3. PICK v \in Nat : v = solBmc.upto + 1 /\ b = [solBmc EXCEPT !.seq = m, !.upto = v]
    <3>1. solBmc.upto + 1 \in Nat /\ b = [solBmc EXCEPT !.seq = m, !.upto = solBmc.upto + 1]
      BY <1>2, <2>1 DEF m
    <3> QED
      BY <3>1
  <2>4. /\ b \in [last : SolNo, accepted : Nat, got : S, seq : SolNo, first : Nat \ {0}, upto : Nat] /\ b.seq = m
        /\ b.upto = solBmc.upto + 1
        /\ b.first = solBmc.first /\ b.last = solBmc.last /\ b.accepted = solBmc.accepted /\ b.got = solBmc.got
    <3>1. b \in [last : SolNo, accepted : Nat, got : S, seq : SolNo, first : Nat \ {0}, upto : Nat]
      BY <2>1, <2>2, <2>3
    <3>2. /\ b.seq = m /\ b.upto = v /\ b.first = solBmc.first /\ b.last = solBmc.last /\ b.accepted = solBmc.accepted
          /\ b.got = solBmc.got
      BY <2>1, <2>3
    <3> QED
      BY <2>3, <3>1, <3>2
  <2>5. solBmc.first <= solBmc.upto + 1 /\ solBmc.upto \in Nat /\ solBmc.first \in Nat \ {0}
    BY SolFacts
  <2>6. SolBmcOk(b)
    BY <2>2, <2>4, <2>5 DEF SolBmcOk, SolBmcs, S
  <2>7. /\ SolFlow(solNet.req, solNet.rsp, solLast.seq, solLast.count, m, solBmc.first, solBmc.upto + 1)
        /\ SolSeen(solLast.seq, solLast.count, m, solBmc.first, solBmc.upto + 1) = SolSeen(solLast.seq, solLast.count, solBmc.seq, solBmc.first, solBmc.upto)
    <3>1. /\ Len(solNet.req) \in Nat /\ Len(solNet.rsp) \in Nat /\ solLast.seq \in Nat /\ solLast.count \in Nat
      BY SolFacts
    <3>2. \A i \in 1..Len(solNet.rsp) : Len(solNet.rsp[i].data) \in Nat
      BY SolQueueFacts
    <3>3. SolFlow(solNet.req, solNet.rsp, solLast.seq, solLast.count, solBmc.seq, solBmc.first, solBmc.upto)
      BY DEF SolUnderWay
    <3>4. SolOpens(solNet.req, solNet.rsp, solLast.seq, solLast.count, solBmc.seq, solBmc.first, solBmc.upto, m)
      BY <1>2, <2>1, <2>2, <2>5, <3>1, <3>2, <3>3 DEF SolOpens
    <3> QED
      BY <3>4, SolFlowOpens
  <2> QED
    BY <2>4, <2>6, <2>7 DEF SolFlowOf, SolSeenOf
<1> QED
  BY <1>1, <1>2, SolFacts DEF SolOutputs

(* The BMC, with b open, reads a request, if any, and answers, if at all.  *)
LEMMA SolBmcAnswers ==
  ASSUME SolTypes, NEW b, SolBmcOk(b), SolFlowOf(solNet.req, solNet.rsp, b), NEW B,
         SolBecomes(solNet.req, solNet'.req, {}), SolBecomes(solNet.rsp, solNet'.rsp, B), SolNetTyped', solLast' = solLast,
         solBmc'.seq = b.seq, solBmc'.first = b.first, solBmc'.upto = b.upto, \A e \in B : SolCarries(e, b)
  PROVE  SolUnderWay'
<1>1. b.seq \in Nat /\ b.first \in Nat /\ b.upto \in Nat
  BY SolNumbers DEF SolBmcOk, SolBmcs, SolNo
<1>2. Len(solNet'.req) \in Nat /\ Len(solNet'.rsp) \in Nat
  BY DEF SolNetTyped
<1>3. SolFlows(solNet.req, solNet.rsp, solNet'.req, solNet'.rsp, solLast.seq, solLast.count, b.seq, b.first, b.upto, {}, B)
  BY <1>1, <1>2, SolFacts, SolQueueFacts DEF SolFlows, SolCarries
<1>4. SolFlow(solNet'.req, solNet'.rsp, solLast.seq, solLast.count, b.seq, b.first, b.upto)
  BY <1>3, SolFlowMoves DEF SolFlowOf
<1> QED
  BY <1>4 DEF SolUnderWay

LEMMA SolArrivedKept ==
  ASSUME SolArrived, solOut' = solOut, solHist' = solHist, solLast' = solLast, SolSeenOf(solBmc') = SolSeenOf(solBmc)
  PROVE  SolArrived'
BY DEF SolArrived, SolSeenOf

LEMMA SolTypingMoves ==
  ASSUME SolTypes, SolTyping, NEW A, NEW B,
         SolMoves(solNet.req, solNet.rsp, solNet'.req, solNet'.rsp, solPay.seq, SolData, solBmc.last, solBmc.accepted, A, B),
         solAt' = solAt, solPay' = solPay, solKeys' = solKeys, solHist' = solHist,
         solBmc'.last = solBmc.last, solBmc'.accepted = solBmc.accepted, solBmc'.got = solBmc.got
  PROVE  SolTyping'
<1> SUFFICES ASSUME "gave_up" \notin solHist, solAt # "exit" PROVE SolSending'
  BY DEF SolTyping
<1>1. SolSending
  BY DEF SolTyping
<1>2. /\ SolPath(solNet'.req, solNet'.rsp, solPay.seq, SolData, solBmc.last, solBmc.accepted)
      /\ SolSettled(solNet.rsp, solPay.seq, solBmc.last) => SolSettled(solNet'.rsp, solPay.seq, solBmc.last)
  BY <1>1, SolPathMoves DEF SolSending
<1>3. SolCounted' /\ (SolCalling' <=> SolCalling)
  BY <1>1 DEF SolSending, SolCounted, SolLeft, SolTaken, SolCalling
<1> QED
  BY <1>1, <1>2, <1>3 DEF SolSending, SolData

LEMMA SolNetworkStep == ASSUME SolInv, SolNetwork PROVE SolInv'
<1>1. SolTypes /\ SolUnderWay /\ SolArrived /\ SolTyping
  BY DEF SolInv
<1>2. /\ solAt \notin {"off", "exit"} /\ solAt' = solAt /\ solPay' = solPay /\ solNext' = solNext /\ solLast' = solLast
      /\ solKeys' = solKeys /\ solOut' = solOut /\ solBmc' = solBmc /\ solHist' = solHist
  BY DEF SolNetwork
<1>3. /\ SolNetTyped' /\ SolBecomes(solNet.req, solNet'.req, {}) /\ SolBecomes(solNet.rsp, solNet'.rsp, {})
  <2> DEFINE Q == Seq(SolReqs)
             P == Seq(SolRsps)
  <2>1. solNet.req \in Seq(SolReqs) /\ solNet.rsp \in Seq(SolRsps)
    BY <1>1, SolFacts
  <2>2. SolBecomes(solNet.req, solNet.req, {}) /\ SolBecomes(solNet.rsp, solNet.rsp, {})
    <3>1. /\ \A i \in 1..Len(solNet.req) : i + 0 <= Len(solNet.req) /\ solNet.req[i] = solNet.req[i + 0]
          /\ \A i \in 1..Len(solNet.rsp) : i + 0 <= Len(solNet.rsp) /\ solNet.rsp[i] = solNet.rsp[i + 0]
      BY <1>1, SolFacts
    <3> QED
      BY <3>1 DEF SolBecomes
  <2>3. solNet \in [req : Q, rsp : P, faults : Nat]
    BY <1>1 DEF SolTypes, SolNetTyped
  <2>4. CASE solNet.req # <<>> /\ solNet' = [solNet EXCEPT !.faults = @ + 1, !.req = Tail(@)]
    <3>1. Tail(solNet.req) \in Q /\ SolBecomes(solNet.req, Tail(solNet.req), {})
      <4>1. solNet.req[1] \in SolReqs
        BY <1>1, <2>1, <2>4, SolQueueFacts
      <4> QED
        BY <2>1, <2>4, <4>1, SolQueue
    <3> HIDE DEF Q, P
    <3> DEFINE z == Tail(solNet.req)
    <3>2. PICK v \in Nat : v = solNet.faults + 1
      <4>1. solNet.faults + 1 \in Nat
        BY <2>3
      <4> QED
        BY <4>1
    <3>3. solNet' = [solNet EXCEPT !.faults = v, !.req = z] /\ z \in Q
      BY <2>4, <3>1, <3>2
    <3> HIDE DEF z
    <3>4. solNet'.req = z /\ solNet'.rsp = solNet.rsp /\ solNet' \in [req : Q, rsp : P, faults : Nat]
      BY <2>3, <3>3
    <3> QED
      BY <2>2, <3>1, <3>4 DEF SolNetTyped, Q, P, z
  <2>5. CASE solNet.rsp # <<>> /\ solNet' = [solNet EXCEPT !.faults = @ + 1, !.rsp = Tail(@)]
    <3>1. Tail(solNet.rsp) \in P /\ SolBecomes(solNet.rsp, Tail(solNet.rsp), {})
      <4>1. solNet.rsp[1] \in SolRsps
        BY <1>1, <2>1, <2>5, SolQueueFacts
      <4> QED
        BY <2>1, <2>5, <4>1, SolQueue
    <3> HIDE DEF Q, P
    <3> DEFINE z == Tail(solNet.rsp)
    <3>2. PICK v \in Nat : v = solNet.faults + 1
      <4>1. solNet.faults + 1 \in Nat
        BY <2>3
      <4> QED
        BY <4>1
    <3>3. solNet' = [solNet EXCEPT !.faults = v, !.rsp = z] /\ z \in P
      BY <2>5, <3>1, <3>2
    <3> HIDE DEF z
    <3>4. solNet'.rsp = z /\ solNet'.req = solNet.req /\ solNet' \in [req : Q, rsp : P, faults : Nat]
      BY <2>3, <3>3
    <3> QED
      BY <2>2, <3>1, <3>4 DEF SolNetTyped, Q, P, z
  <2> QED
    BY <2>4, <2>5 DEF SolNetwork
<1>4. SolUnderWay'
  <2>1. SolBmcOk(solBmc) /\ SolFlowOf(solNet.req, solNet.rsp, solBmc)
    BY <1>1 DEF SolTypes, SolBmcTyped, SolUnderWay, SolFlowOf
  <2> QED
    BY <1>1, <1>2, <1>3, <2>1, SolBmcAnswers
<1>5. SolArrived'
  BY <1>1, <1>2, SolArrivedKept
<1>6. SolTyping'
  <2>1. Len(solNet'.req) \in Nat /\ Len(solNet'.rsp) \in Nat
    BY <1>3 DEF SolNetTyped
  <2>2. SolMoves(solNet.req, solNet.rsp, solNet'.req, solNet'.rsp, solPay.seq, SolData, solBmc.last, solBmc.accepted, {}, {})
    BY <1>1, <1>3, <2>1, SolFacts DEF SolMoves
  <2> QED
    BY <1>1, <1>2, <2>2, SolTypingMoves
<1>7. SolPayTyped' /\ SolSeenTyped' /\ SolBmcTyped'
  BY <1>1, <1>2 DEF SolTypes, SolPayTyped, SolSeenTyped, SolBmcTyped, SolCalling
<1> QED
  BY <1>2, <1>3, <1>4, <1>5, <1>6, <1>7 DEF SolInv, SolTypes, SolBegins

(* The BMC reads a request and sends e, or nothing.                        *)
LEMMA SolBmcReads ==
  ASSUME SolTypes, solNet.req # <<>>
  PROVE  /\ Head(solNet.req) = solNet.req[1] /\ 1 \in 1..Len(solNet.req) /\ solNet.req[1] \in SolReqs /\ Len(solNet.req) \in Nat \ {0}
         /\ solNet' = [solNet EXCEPT !.req = Tail(@)] =>
              /\ SolNetTyped' /\ SolBecomes(solNet.req, solNet'.req, {}) /\ SolBecomes(solNet.rsp, solNet'.rsp, {})
         /\ \A e \in SolRsps : solNet' = [solNet EXCEPT !.req = Tail(@), !.rsp = Append(@, e)] =>
              /\ SolNetTyped' /\ SolBecomes(solNet.req, solNet'.req, {}) /\ SolBecomes(solNet.rsp, solNet'.rsp, {e})
              /\ Len(solNet'.req) = Len(solNet.req) - 1 /\ (\A i \in 1..(Len(solNet.req) - 1) : solNet'.req[i] = solNet.req[i + 1])
              /\ Len(solNet'.rsp) = Len(solNet.rsp) + 1 /\ (\A i \in 1..Len(solNet.rsp) : solNet'.rsp[i] = solNet.rsp[i])
              /\ solNet'.rsp[Len(solNet.rsp) + 1] = e
<1> DEFINE Q == SolReqs
           P == SolRsps
           req == solNet.req
           rsp == solNet.rsp
           tl == Tail(req)
<1>1. solNet \in [req : Seq(Q), rsp : Seq(P), faults : Nat] /\ req \in Seq(Q) /\ rsp \in Seq(P) /\ req # <<>>
  BY SolFacts DEF SolTypes, SolNetTyped
<1> HIDE DEF Q, P, req, rsp
<1>2. Head(req) = req[1] /\ 1 \in 1..Len(req) /\ req[1] \in Q /\ Len(req) \in Nat \ {0}
  BY <1>1
<1>3. tl \in Seq(Q) /\ Len(tl) = Len(req) - 1 /\ \A i \in 1..(Len(req) - 1) : tl[i] = req[i + 1]
  BY <1>1
<1>4. SolBecomes(req, tl, {})
  BY <1>1, <1>2, SolQueue
<1>5. SolBecomes(rsp, rsp, {})
  <2>1. \A i \in 1..Len(rsp) : i + 0 <= Len(rsp) /\ rsp[i] = rsp[i + 0]
    BY <1>1
  <2> QED
    BY <2>1 DEF SolBecomes
<1> HIDE DEF tl
<1>6. ASSUME solNet' = [solNet EXCEPT !.req = Tail(@)]
      PROVE  SolNetTyped' /\ SolBecomes(req, solNet'.req, {}) /\ SolBecomes(rsp, solNet'.rsp, {})
  <2> DEFINE A == Seq(Q)
             B == Seq(P)
  <2>1. solNet' = [solNet EXCEPT !.req = tl] /\ solNet \in [req : A, rsp : B, faults : Nat] /\ tl \in A
    BY <1>1, <1>3, <1>6 DEF tl, req
  <2> HIDE DEF A, B
  <2>2. solNet'.req = tl /\ solNet'.rsp = solNet.rsp /\ solNet' \in [req : A, rsp : B, faults : Nat]
    BY <2>1
  <2> QED
    BY <1>4, <1>5, <2>2 DEF SolNetTyped, A, B, Q, P, rsp
<1>7. ASSUME NEW e \in P, solNet' = [solNet EXCEPT !.req = Tail(@), !.rsp = Append(@, e)]
      PROVE  /\ SolNetTyped' /\ SolBecomes(req, solNet'.req, {}) /\ SolBecomes(rsp, solNet'.rsp, {e})
             /\ Len(solNet'.req) = Len(req) - 1 /\ (\A i \in 1..(Len(req) - 1) : solNet'.req[i] = req[i + 1])
             /\ Len(solNet'.rsp) = Len(rsp) + 1 /\ (\A i \in 1..Len(rsp) : solNet'.rsp[i] = rsp[i])
             /\ solNet'.rsp[Len(rsp) + 1] = e
  <2> DEFINE A == Seq(Q)
             B == Seq(P)
             ap == Append(rsp, e)
  <2>1. ap \in B /\ Len(ap) = Len(rsp) + 1 /\ (\A i \in 1..Len(rsp) : ap[i] = rsp[i]) /\ ap[Len(rsp) + 1] = e
    BY <1>1
  <2>2. SolBecomes(rsp, ap, {e})
    BY <1>1, SolQueue
  <2> HIDE DEF ap
  <2>3. solNet' = [solNet EXCEPT !.req = tl, !.rsp = ap] /\ solNet \in [req : A, rsp : B, faults : Nat] /\ tl \in A
    BY <1>1, <1>3, <1>7 DEF tl, req, ap, rsp
  <2> HIDE DEF A, B
  <2>4. solNet'.req = tl /\ solNet'.rsp = ap /\ solNet' \in [req : A, rsp : B, faults : Nat]
    BY <2>1, <2>3
  <2>5. SolNetTyped'
    BY <2>4 DEF SolNetTyped, A, B, Q, P
  <2> QED
    BY <1>3, <1>4, <2>1, <2>2, <2>4, <2>5
<1> QED
  BY <1>2, <1>6, <1>7 DEF Q, P, req, rsp

LEMMA SolBmcTakesStep == ASSUME SolInv, SolBmcTakes PROVE SolInv'
<1>1. SolTypes /\ SolUnderWay /\ SolArrived /\ SolTyping
  BY DEF SolInv
<1> DEFINE q == Head(solNet.req)
<1>2. /\ solNet.req # <<>> /\ solAt # "exit" /\ solAt' = solAt /\ solPay' = solPay /\ solNext' = solNext /\ solLast' = solLast
      /\ solKeys' = solKeys /\ solOut' = solOut /\ solHist' = solHist
  BY DEF SolBmcTakes
<1>3. \/ /\ q.seq = 0
         /\ solBmc' = IF q.acks = solBmc.seq /\ q.accepted = solBmc.upto - solBmc.first + 1
                      THEN [solBmc EXCEPT !.first = solBmc.upto + 1] ELSE solBmc
         /\ solNet' = [solNet EXCEPT !.req = Tail(@)]
      \/ /\ q.seq # 0 /\ q.seq = solBmc.last
         /\ solBmc' = solBmc
         /\ solNet' = [solNet EXCEPT !.req = Tail(@), !.rsp = Append(@, SolWith(solBmc, q.seq, solBmc.accepted, FALSE))]
      \/ /\ q.seq # 0 /\ q.seq # solBmc.last
         /\ \E k \in 0..Len(q.data), nack \in BOOLEAN, b \in SolOutputs(solBmc) :
            /\ solBmc' = [b EXCEPT !.last = q.seq, !.accepted = k, !.got = @ \o SubSeq(q.data, 1, k)]
            /\ solNet' = [solNet EXCEPT !.req = Tail(@), !.rsp = Append(@, SolWith(b, q.seq, k, nack))]
  BY DEF SolBmcTakes
<1>4. q = solNet.req[1] /\ 1 \in 1..Len(solNet.req) /\ q \in SolReqs /\ q.seq \in SolNo /\ q.data \in Seq(Nat) /\ q.accepted \in Nat
      /\ Len(solNet.req) \in Nat \ {0}
  BY <1>1, <1>2, SolBmcReads DEF SolReqs
<1> HIDE DEF q
<1>5. SolPayTyped' /\ SolSeenTyped'
  BY <1>1, <1>2 DEF SolTypes, SolPayTyped, SolSeenTyped, SolCalling
<1>6. SolBmcOk(solBmc) /\ SolFlowOf(solNet.req, solNet.rsp, solBmc)
  BY <1>1 DEF SolTypes, SolBmcTyped, SolUnderWay, SolFlowOf
<1>7. CASE /\ q.seq = 0
           /\ solBmc' = IF q.acks = solBmc.seq /\ q.accepted = solBmc.upto - solBmc.first + 1
                        THEN [solBmc EXCEPT !.first = solBmc.upto + 1] ELSE solBmc
           /\ solNet' = [solNet EXCEPT !.req = Tail(@)]
  <2>1. SolNetTyped' /\ SolBecomes(solNet.req, solNet'.req, {}) /\ SolBecomes(solNet.rsp, solNet'.rsp, {})
    BY <1>1, <1>2, <1>7, SolBmcReads
  <2>2. /\ SolBmcOk(solBmc') /\ SolFlowOf(solNet.req, solNet.rsp, solBmc') /\ SolSeenOf(solBmc') = SolSeenOf(solBmc)
        /\ solBmc'.last = solBmc.last /\ solBmc'.accepted = solBmc.accepted /\ solBmc'.got = solBmc.got
    <3>1. CASE q.acks = solBmc.seq /\ q.accepted = solBmc.upto - solBmc.first + 1
      <4> DEFINE S == Seq(Nat)
      <4>1. solBmc \in [last : SolNo, accepted : Nat, got : S, seq : SolNo, first : Nat \ {0}, upto : Nat]
        BY <1>6 DEF SolBmcOk, SolBmcs
      <4> HIDE DEF S
      <4>2. PICK v \in Nat \ {0} : v = solBmc.upto + 1 /\ solBmc' = [solBmc EXCEPT !.first = v]
        <5>1. solBmc.upto + 1 \in Nat \ {0}
          BY <4>1
        <5> QED
          BY <1>7, <3>1, <5>1
      <4>3. solBmc' \in [last : SolNo, accepted : Nat, got : S, seq : SolNo, first : Nat \ {0}, upto : Nat]
        BY <4>1, <4>2
      <4>4. /\ solBmc'.last = solBmc.last /\ solBmc'.accepted = solBmc.accepted /\ solBmc'.got = solBmc.got
            /\ solBmc'.first = solBmc.upto + 1 /\ solBmc'.upto = solBmc.upto /\ solBmc'.seq = solBmc.seq
        BY <4>1, <4>2
      <4>5. solBmc.upto \in Nat /\ solBmc.upto + 1 <= solBmc.upto + 1 /\ ~(solBmc.upto >= solBmc.upto + 1)
        BY <4>1
      <4>6. SolBmcOk(solBmc')
        BY <4>3, <4>4, <4>5 DEF SolBmcOk, SolBmcs, S
      <4>7. SolAcked(solNet.req, solNet.rsp, solLast.seq, solLast.count, solBmc.seq, solBmc.first, solBmc.upto)
        <5>1. /\ Len(solNet.rsp) \in Nat /\ solLast.seq \in Nat /\ solLast.count \in Nat /\ solBmc.seq \in Nat /\ solBmc.first \in Nat
              /\ solBmc.upto \in Nat /\ solBmc.first <= solBmc.upto + 1
          BY <1>1, SolFacts
        <5>2. (\A i \in 1..Len(solNet.rsp) : Len(solNet.rsp[i].data) \in Nat) /\ (\A i \in 1..Len(solNet.req) : solNet.req[i].accepted \in Nat)
          BY <1>1, SolQueueFacts
        <5> QED
          BY <1>4, <1>6, <1>7, <3>1, <5>1, <5>2 DEF SolAcked, SolFlowOf
      <4>8. /\ SolFlow(solNet.req, solNet.rsp, solLast.seq, solLast.count, solBmc.seq, solBmc.upto + 1, solBmc.upto)
            /\ SolSeen(solLast.seq, solLast.count, solBmc.seq, solBmc.upto + 1, solBmc.upto) = SolSeen(solLast.seq, solLast.count, solBmc.seq, solBmc.first, solBmc.upto)
        BY <4>7, SolFlowAcked
      <4> QED
        BY <4>4, <4>6, <4>8 DEF SolFlowOf, SolSeenOf
    <3>2. CASE ~(q.acks = solBmc.seq /\ q.accepted = solBmc.upto - solBmc.first + 1)
      <4>1. solBmc' = solBmc
        BY <1>7, <3>2
      <4> QED
        BY <1>6, <4>1
    <3> QED
      BY <3>1, <3>2
  <2>3. SolUnderWay'
    BY <1>1, <1>2, <2>1, <2>2, SolBmcAnswers
  <2>4. SolArrived'
    BY <1>1, <1>2, <2>2, SolArrivedKept
  <2>5. SolTyping'
    <3>1. Len(solNet'.req) \in Nat /\ Len(solNet'.rsp) \in Nat
      BY <2>1 DEF SolNetTyped
    <3>2. SolMoves(solNet.req, solNet.rsp, solNet'.req, solNet'.rsp, solPay.seq, SolData, solBmc.last, solBmc.accepted, {}, {})
      BY <1>1, <2>1, <3>1, SolFacts DEF SolMoves
    <3> QED
      BY <1>1, <1>2, <2>2, <3>2, SolTypingMoves
  <2>6. SolBmcTyped' /\ SolBegins'
    BY <1>2, <2>2 DEF SolBmcTyped, SolInv, SolBegins
  <2> QED
    BY <1>5, <2>1, <2>3, <2>4, <2>5, <2>6 DEF SolInv, SolTypes
<1>8. CASE /\ q.seq # 0 /\ q.seq = solBmc.last
           /\ solBmc' = solBmc
           /\ solNet' = [solNet EXCEPT !.req = Tail(@), !.rsp = Append(@, SolWith(solBmc, q.seq, solBmc.accepted, FALSE))]
  <2> DEFINE e == SolWith(solBmc, q.seq, solBmc.accepted, FALSE)
  <2>1. e \in SolRsps /\ e.acks = q.seq /\ e.accepted = solBmc.accepted /\ SolCarries(e, solBmc)
    <3>1. solBmc.accepted \in Nat /\ FALSE \in BOOLEAN
      BY <1>1, SolFacts
    <3> QED
      BY <1>4, <1>6, <3>1, SolWithFacts
  <2> HIDE DEF e
  <2>2. SolNetTyped' /\ SolBecomes(solNet.req, solNet'.req, {}) /\ SolBecomes(solNet.rsp, solNet'.rsp, {e})
    <3>1. solNet' = [solNet EXCEPT !.req = Tail(@), !.rsp = Append(@, e)]
      BY <1>8 DEF e
    <3> QED
      BY <1>1, <1>2, <2>1, <3>1, SolBmcReads
  <2>3. SolUnderWay'
    <3>1. \A x \in {e} : SolCarries(x, solBmc)
      BY <2>1
    <3>2. solBmc'.seq = solBmc.seq /\ solBmc'.first = solBmc.first /\ solBmc'.upto = solBmc.upto
      BY <1>8
    <3> QED
      BY <1>1, <1>2, <1>6, <2>2, <3>1, <3>2, SolBmcAnswers
  <2>4. SolArrived'
    BY <1>1, <1>2, <1>8, SolArrivedKept
  <2>5. SolTyping'
    <3>1. Len(solNet'.req) \in Nat /\ Len(solNet'.rsp) \in Nat
      BY <2>2 DEF SolNetTyped
    <3>2. SolMoves(solNet.req, solNet.rsp, solNet'.req, solNet'.rsp, solPay.seq, SolData, solBmc.last, solBmc.accepted, {}, {e})
      BY <1>1, <1>8, <2>1, <2>2, <3>1, SolFacts DEF SolMoves
    <3> QED
      BY <1>1, <1>2, <1>8, <3>2, SolTypingMoves
  <2>6. SolBmcTyped' /\ SolBegins'
    BY <1>2, <1>6, <1>8 DEF SolBmcTyped, SolInv, SolBegins
  <2> QED
    BY <1>5, <2>2, <2>3, <2>4, <2>5, <2>6 DEF SolInv, SolTypes
<1>9. ASSUME q.seq # 0, q.seq # solBmc.last, NEW k \in 0..Len(q.data), NEW nack \in BOOLEAN, NEW b \in SolOutputs(solBmc),
             solBmc' = [b EXCEPT !.last = q.seq, !.accepted = k, !.got = @ \o SubSeq(q.data, 1, k)],
             solNet' = [solNet EXCEPT !.req = Tail(@), !.rsp = Append(@, SolWith(b, q.seq, k, nack))]
      PROVE  SolInv'
  <2> DEFINE e == SolWith(b, q.seq, k, nack)
             more == SubSeq(q.data, 1, k)
             got == b.got \o more
  <2>1. /\ SolBmcOk(b) /\ b.last = solBmc.last /\ b.accepted = solBmc.accepted /\ b.got = solBmc.got
        /\ SolFlowOf(solNet.req, solNet.rsp, b) /\ SolSeenOf(b) = SolSeenOf(solBmc)
    BY <1>1, SolOutputsFacts
  <2>2. e \in SolRsps /\ e.acks = q.seq /\ e.accepted = k /\ SolCarries(e, b) /\ k \in Nat
    <3>1. k \in Nat
      BY <1>4
    <3> QED
      BY <1>4, <2>1, <3>1, SolWithFacts
  <2> HIDE DEF e
  <2>3. /\ SolNetTyped' /\ SolBecomes(solNet.req, solNet'.req, {}) /\ SolBecomes(solNet.rsp, solNet'.rsp, {e})
        /\ Len(solNet'.req) = Len(solNet.req) - 1 /\ (\A i \in 1..(Len(solNet.req) - 1) : solNet'.req[i] = solNet.req[i + 1])
        /\ Len(solNet'.rsp) = Len(solNet.rsp) + 1 /\ (\A i \in 1..Len(solNet.rsp) : solNet'.rsp[i] = solNet.rsp[i])
        /\ solNet'.rsp[Len(solNet.rsp) + 1] = e
    <3>1. solNet' = [solNet EXCEPT !.req = Tail(@), !.rsp = Append(@, e)]
      BY <1>9 DEF e
    <3> QED
      BY <1>1, <1>2, <2>2, <3>1, SolBmcReads
  <2>4. more \in Seq(Nat) /\ Len(more) = k /\ \A i \in 1..k : more[i] = q.data[i]
    <3> DEFINE d == q.data
    <3>1. d \in Seq(Nat) /\ k \in 0..Len(d) /\ Len(d) \in Nat
      BY <1>4
    <3> HIDE DEF d
    <3>2. SubSeq(d, 1, k) \in Seq(Nat) /\ Len(SubSeq(d, 1, k)) = k /\ \A i \in 1..k : SubSeq(d, 1, k)[i] = d[i]
      BY <3>1
    <3> QED
      BY <3>2 DEF d
  <2> HIDE DEF more
  <2>5. /\ got \in Seq(Nat) /\ Len(got) = Len(b.got) + k /\ (\A i \in 1..Len(b.got) : got[i] = b.got[i])
        /\ (\A i \in 1..k : got[Len(b.got) + i] = more[i]) /\ Len(b.got) \in Nat
    <3>1. b.got \in Seq(Nat)
      BY <2>1 DEF SolBmcOk, SolBmcs
    <3>2. Len(b.got) \in Nat
      BY <3>1
    <3>3. /\ got \in Seq(Nat) /\ Len(got) = Len(b.got) + Len(more) /\ (\A i \in 1..Len(b.got) : got[i] = b.got[i])
          /\ (\A i \in 1..Len(more) : got[Len(b.got) + i] = more[i])
      BY <2>4, <3>1, SolJoined
    <3> HIDE DEF got
    <3> QED
      BY <2>4, <3>2, <3>3
  <2> HIDE DEF got
  <2>6. /\ SolBmcOk(solBmc') /\ solBmc'.seq = b.seq /\ solBmc'.first = b.first /\ solBmc'.upto = b.upto
        /\ solBmc'.last = q.seq /\ solBmc'.accepted = k /\ solBmc'.got = got
    <3> DEFINE S == Seq(Nat)
    <3>1. b \in [last : SolNo, accepted : Nat, got : S, seq : SolNo, first : Nat \ {0}, upto : Nat] /\ got \in S
      BY <2>1, <2>5 DEF SolBmcOk, SolBmcs
    <3>2. solBmc' = [b EXCEPT !.last = q.seq, !.accepted = k, !.got = got]
      BY <1>9 DEF got, more
    <3> HIDE DEF S
    <3>3. PICK n \in SolNo : n = q.seq
      BY <1>4
    <3>4. solBmc' = [b EXCEPT !.last = n, !.accepted = k, !.got = got]
      BY <3>2, <3>3
    <3>5. solBmc' \in [last : SolNo, accepted : Nat, got : S, seq : SolNo, first : Nat \ {0}, upto : Nat]
      BY <2>2, <3>1, <3>4
    <3>6. solBmc'.seq = b.seq /\ solBmc'.first = b.first /\ solBmc'.upto = b.upto /\ solBmc'.last = n /\ solBmc'.accepted = k /\ solBmc'.got = got
      BY <3>1, <3>4
    <3>7. SolBmcOk(solBmc')
      BY <2>1, <3>5, <3>6 DEF SolBmcOk, SolBmcs, S
    <3> QED
      BY <3>3, <3>6, <3>7
  <2>7. SolUnderWay'
    BY <1>1, <1>2, <2>1, <2>2, <2>3, <2>6, SolBmcAnswers
  <2>8. SolArrived'
    <3>1. SolSeenOf(solBmc') = SolSeenOf(solBmc)
      BY <2>1, <2>6 DEF SolSeenOf
    <3> QED
      BY <1>1, <1>2, <3>1, SolArrivedKept
  <2>9. SolTyping'
    <3> SUFFICES ASSUME "gave_up" \notin solHist PROVE (\A i \in 1..Len(got) : got[i] = i) /\ SolSending'
      BY <1>2, <2>6 DEF SolTyping
    <3>1. SolSending /\ \A i \in 1..Len(solBmc.got) : solBmc.got[i] = i
      BY <1>1, <1>2 DEF SolTyping
    <3>2. SolPath(solNet.req, solNet.rsp, solPay.seq, SolData, solBmc.last, solBmc.accepted)
      BY <3>1 DEF SolSending
    <3>3. SolTakes(solNet.req, solNet.rsp, solNet'.req, solNet'.rsp, solBmc.last, k)
      <4>1. Len(solNet.rsp) \in Nat
        BY <1>1, SolFacts
      <4> QED
        BY <1>4, <1>9, <2>2, <2>3, <4>1 DEF SolTakes
    <3>4. /\ solNet.req[1].seq = solPay.seq /\ solNet.req[1].data = SolData /\ solPay.seq # 0 /\ solBmc.last # solPay.seq
          /\ SolPath(solNet'.req, solNet'.rsp, solPay.seq, SolData, solPay.seq, k)
      BY <3>2, <3>3, SolPathTaken
    <3>5. SolCalling /\ SolCalling'
      BY <1>2, <3>1, <3>4 DEF SolSending, SolSettled, SolCalling
    <3>6. ~SolTaken /\ SolTaken'
      BY <1>2, <1>4, <2>6, <3>4 DEF SolTaken
    <3>7. Len(SolData) = solPay.count /\ solPay.count \in Nat /\ \A i \in 1..solPay.count : SolData[i] = solPay.buf[i]
      <4> DEFINE d == solPay.buf
                 c == solPay.count
      <4>1. d \in Seq(Nat) /\ c \in Nat /\ c <= Len(d) /\ Len(d) \in Nat
        BY <1>1, SolFacts
      <4> HIDE DEF d, c
      <4>2. Len(SubSeq(d, 1, c)) = c /\ \A i \in 1..c : SubSeq(d, 1, c)[i] = d[i]
        BY <4>1
      <4> QED
        BY <4>1, <4>2 DEF SolData, d, c
    <3>8. k <= solPay.count /\ \A i \in 1..k : more[i] = solPay.buf[i]
      <4>1. q.data = SolData
        BY <1>4, <3>4
      <4>2. k \in 0..solPay.count
        BY <3>7, <4>1
      <4>3. k <= solPay.count /\ \A i \in 1..k : i \in 1..solPay.count
        BY <2>2, <3>7, <4>2
      <4> QED
        BY <2>4, <3>7, <4>1, <4>3
    <3>9. SolCounted
      BY <3>1 DEF SolSending
    <3>10. SolLeft' = SolLeft
      BY <1>2, <3>5 DEF SolLeft
    <3>11. Len(solBmc.got) + SolLeft = solKeys.typed /\ solKeys.typed \in Nat /\ Len(solBmc.got) \in Nat
      <4>1. Len(solBmc.got) + SolLeft = solKeys.typed + 0 /\ solKeys.typed \in Nat /\ Len(solBmc.got) \in Nat
        BY <1>1, <3>6, <3>9, SolFacts DEF SolCounted
      <4>2. solKeys.typed + 0 = solKeys.typed
        BY <4>1
      <4> QED
        BY <4>1, <4>2, Zenon
    <3>12. SolLeft \in Nat
      BY <1>1, <3>7, SolFacts DEF SolLeft
    <3>13. Len(got) + SolLeft = solKeys.typed + k
      BY <2>1, <2>2, <2>5, <3>11, <3>12
    <3>14. SolCounted'
      BY <1>2, <2>6, <3>5, <3>6, <3>8, <3>9, <3>10, <3>13 DEF SolCounted
    <3>15. SolSending'
      BY <1>2, <1>4, <2>6, <3>4, <3>5, <3>14 DEF SolSending, SolData
    <3>16. ASSUME NEW i \in 1..Len(got) PROVE got[i] = i
      <4>1. CASE i <= Len(b.got)
        <5>1. i \in 1..Len(b.got)
          BY <2>5, <4>1
        <5> QED
          BY <2>1, <2>5, <3>1, <5>1
      <4>2. CASE i > Len(b.got)
        <5>1. PICK j \in 1..k : i = Len(b.got) + j
          <6>1. i - Len(b.got) \in 1..k /\ i = Len(b.got) + (i - Len(b.got))
            BY <2>2, <2>5, <4>2
          <6> QED
            BY <6>1
        <5>2. solPay.count > 0 /\ j \in 1..solPay.count
          BY <2>2, <3>7, <3>8
        <5>3. solPay.kind = "input"
          BY <3>5, <3>9, <5>2 DEF SolCounted
        <5>4. solPay.buf[j] = solKeys.typed - solPay.count + j
          BY <3>5, <3>9, <5>2, <5>3 DEF SolCounted, SolLasts
        <5>5. SolLeft = solPay.count
          BY <3>5, <5>3 DEF SolLeft
        <5>6. solKeys.typed - solPay.count = Len(b.got)
          BY <2>1, <3>7, <3>11, <5>5
        <5>7. got[i] = solPay.buf[j]
          BY <2>5, <3>8, <5>1
        <5> QED
          BY <5>1, <5>4, <5>6, <5>7
      <4> QED
        BY <2>5, <4>1, <4>2
    <3> QED
      BY <3>15, <3>16
  <2>10. SolBmcTyped' /\ SolBegins'
    BY <1>2, <2>6 DEF SolBmcTyped, SolInv, SolBegins
  <2> QED
    BY <1>5, <2>3, <2>7, <2>8, <2>9, <2>10 DEF SolInv, SolTypes
<1> QED
  BY <1>3, <1>7, <1>8, <1>9

LEMMA SolBmcPrintsStep == ASSUME SolInv, SolBmcPrints PROVE SolInv'
<1>1. SolTypes /\ SolUnderWay /\ SolArrived /\ SolTyping
  BY DEF SolInv
<1>2. /\ solAt \notin {"off", "exit"} /\ solNet.rsp = <<>> /\ solNet.req = <<>> /\ solAt' = solAt /\ solPay' = solPay
      /\ solNext' = solNext
      /\ solLast' = solLast /\ solKeys' = solKeys /\ solOut' = solOut /\ solHist' = solHist
  BY DEF SolBmcPrints
<1>3. PICK b \in SolOutputs(solBmc) \cup
               (IF solBmc.upto >= solBmc.first /\ solBmc.upto < SolMaxConsole THEN {[solBmc EXCEPT !.upto = @ + 1]} ELSE {}) :
        solBmc' = b /\ solNet' = [solNet EXCEPT !.rsp = <<SolWith(b, 0, 0, FALSE)>>]
  BY DEF SolBmcPrints
<1>4. /\ SolBmcOk(b) /\ b.last = solBmc.last /\ b.accepted = solBmc.accepted /\ b.got = solBmc.got
      /\ SolFlowOf(solNet.req, solNet.rsp, b) /\ SolSeenOf(b) = SolSeenOf(solBmc)
  <2>1. CASE b \in SolOutputs(solBmc)
    BY <1>1, <2>1, SolOutputsFacts
  <2>2. CASE solBmc.upto >= solBmc.first /\ b = [solBmc EXCEPT !.upto = @ + 1]
    <3> DEFINE S == Seq(Nat)
    <3>1. solBmc \in [last : SolNo, accepted : Nat, got : S, seq : SolNo, first : Nat \ {0}, upto : Nat] /\ solBmc.seq # 0
      BY <1>1, <2>2 DEF SolTypes, SolBmcTyped, SolBmcOk, SolBmcs
    <3> HIDE DEF S
    <3>2. PICK v \in Nat : v = solBmc.upto + 1 /\ b = [solBmc EXCEPT !.upto = v]
      <4>1. solBmc.upto + 1 \in Nat
        BY <3>1
      <4> QED
        BY <2>2, <4>1
    <3>3. b \in [last : SolNo, accepted : Nat, got : S, seq : SolNo, first : Nat \ {0}, upto : Nat]
      BY <3>1, <3>2
    <3>4. /\ b.last = solBmc.last /\ b.accepted = solBmc.accepted /\ b.got = solBmc.got /\ b.seq = solBmc.seq /\ b.first = solBmc.first
          /\ b.upto = solBmc.upto + 1
      BY <3>1, <3>2
    <3>5. solBmc.seq \in Nat /\ solBmc.first \in Nat /\ solBmc.upto \in Nat /\ solLast.seq \in Nat /\ solLast.count \in Nat
      BY <1>1, SolFacts
    <3>6. SolBmcOk(b)
      BY <2>2, <3>1, <3>3, <3>4, <3>5 DEF SolBmcOk, SolBmcs, S
    <3>7. SolFlow(<<>>, <<>>, solLast.seq, solLast.count, solBmc.seq, solBmc.first, solBmc.upto)
      BY <1>1, <1>2 DEF SolUnderWay
    <3>8. /\ SolFlow(<<>>, <<>>, solLast.seq, solLast.count, solBmc.seq, solBmc.first, solBmc.upto + 1)
          /\ SolSeen(solLast.seq, solLast.count, solBmc.seq, solBmc.first, solBmc.upto + 1) = SolSeen(solLast.seq, solLast.count, solBmc.seq, solBmc.first, solBmc.upto)
      BY <2>2, <3>5, <3>7, SolFlowLonger
    <3> QED
      BY <1>2, <3>4, <3>6, <3>8 DEF SolFlowOf, SolSeenOf
  <2> QED
    BY <1>3, <2>1, <2>2
<1> DEFINE e == SolWith(b, 0, 0, FALSE)
<1>5. e \in SolRsps /\ e.acks = 0 /\ SolCarries(e, b)
  <2>1. 0 \in SolNo /\ 0 \in Nat /\ FALSE \in BOOLEAN
    BY SolNumbers DEF SolNo
  <2>2. \A acks \in SolNo, k \in Nat, nack \in BOOLEAN :
          SolWith(b, acks, k, nack) \in SolRsps /\ SolWith(b, acks, k, nack).acks = acks /\ SolCarries(SolWith(b, acks, k, nack), b)
    BY <1>4, SolWithFacts
  <2> QED
    BY <2>1, <2>2
<1> HIDE DEF e
<1>6. SolNetTyped' /\ SolBecomes(solNet.req, solNet'.req, {}) /\ SolBecomes(solNet.rsp, solNet'.rsp, {e})
  <2> DEFINE A == Seq(SolReqs)
             B == Seq(SolRsps)
             P == SolRsps
             one == <<e>>
  <2>1. one \in Seq(P) /\ Len(one) = 1 /\ one[1] = e /\ e \in P
    BY <1>5
  <2>2. one \in B
    BY <2>1
  <2> HIDE DEF P, one
  <2>3. solNet \in [req : A, rsp : B, faults : Nat] /\ solNet' = [solNet EXCEPT !.rsp = one]
    BY <1>1, <1>3 DEF SolTypes, SolNetTyped, one, e
  <2> HIDE DEF A, B
  <2>4. solNet'.req = solNet.req /\ solNet'.rsp = one /\ solNet' \in [req : A, rsp : B, faults : Nat]
    BY <2>2, <2>3
  <2>5. Len(<<>>) = 0
    OBVIOUS
  <2>6. \A i \in 1..Len(one) : ~(i + 0 <= Len(<<>>)) /\ one[i] \in {e}
    BY <2>1, <2>5
  <2>7. SolBecomes(<<>>, one, {e})
    BY <2>6 DEF SolBecomes
  <2>8. SolBecomes(<<>>, <<>>, {})
    BY <2>5 DEF SolBecomes
  <2> QED
    BY <1>2, <2>4, <2>7, <2>8 DEF SolNetTyped, A, B
<1>7. SolUnderWay'
  <2>1. \A x \in {e} : SolCarries(x, b)
    BY <1>5
  <2>2. solBmc'.seq = b.seq /\ solBmc'.first = b.first /\ solBmc'.upto = b.upto
    BY <1>3
  <2> QED
    BY <1>1, <1>2, <1>4, <1>6, <2>1, <2>2, SolBmcAnswers
<1>8. SolArrived'
  BY <1>1, <1>2, <1>3, <1>4, SolArrivedKept
<1>9. SolTyping'
  <2>1. Len(solNet'.req) \in Nat /\ Len(solNet'.rsp) \in Nat
    BY <1>6 DEF SolNetTyped
  <2>2. SolMoves(solNet.req, solNet.rsp, solNet'.req, solNet'.rsp, solPay.seq, SolData, solBmc.last, solBmc.accepted, {}, {e})
    BY <1>1, <1>5, <1>6, <2>1, SolFacts DEF SolMoves
  <2>3. solBmc'.last = solBmc.last /\ solBmc'.accepted = solBmc.accepted /\ solBmc'.got = solBmc.got
    BY <1>3, <1>4
  <2> QED
    BY <1>1, <1>2, <2>2, <2>3, SolTypingMoves
<1>10. SolPayTyped' /\ SolSeenTyped' /\ SolBmcTyped' /\ SolBegins'
  BY <1>1, <1>2, <1>3, <1>4 DEF SolTypes, SolPayTyped, SolSeenTyped, SolBmcTyped, SolCalling, SolBegins
<1> QED
  BY <1>6, <1>7, <1>8, <1>9, <1>10 DEF SolInv, SolTypes

LEMMA SolInvStep == ASSUME SolInv, [SolNextStep]_solVars PROVE SolInv'
<1>1. CASE UNCHANGED solVars
  <2>1. /\ solAt' = solAt /\ solPay' = solPay /\ solNext' = solNext /\ solLast' = solLast /\ solKeys' = solKeys /\ solOut' = solOut
        /\ solNet' = solNet /\ solBmc' = solBmc /\ solHist' = solHist
    BY <1>1 DEF solVars
  <2>2. SolTypes' /\ SolBegins'
    BY <2>1 DEF SolInv, SolTypes, SolPayTyped, SolSeenTyped, SolNetTyped, SolBmcTyped, SolCalling, SolBegins
  <2>3. SolUnderWay' /\ SolArrived'
    BY <2>1 DEF SolInv, SolUnderWay, SolArrived
  <2>4. SolTyping'
    BY <2>1 DEF SolInv, SolTyping, SolSending, SolCounted, SolLeft, SolData, SolTaken, SolCalling
  <2> QED
    BY <2>2, <2>3, <2>4 DEF SolInv
<1> QED
  BY <1>1, SolActivateStep, SolInputStep, SolStdinStep, SolConsoleStep, SolBrokenStep, SolKeepaliveStep, SolTransmitStep,
     SolReceiveStep,
     SolTimeoutStep, SolBmcTakesStep, SolBmcPrintsStep, SolNetworkStep DEF SolNextStep, SolSendStep

LEMMA SolInvExact == SolInv => SolExact
<1> SUFFICES ASSUME SolInv PROVE SolExact
  OBVIOUS
<1> DEFINE seen == SolSeenOf(solBmc)
<1>1. /\ SolPrinted(solOut, "dropped" \notin solHist, seen) /\ SolTyping /\ solOut \in Seq(Nat) /\ solBmc.got \in Seq(Nat)
      /\ solBmc.first \in Nat \ {0} /\ solBmc.upto \in Nat /\ solLast.count \in Nat
  BY SolFacts DEF SolInv, SolArrived, SolSeenOf
<1>2. seen \in Nat /\ solBmc.first - 1 <= seen
  BY <1>1 DEF SolSeenOf, SolSeen
<1>3. DOMAIN solOut = 1..Len(solOut) /\ DOMAIN solBmc.got = 1..Len(solBmc.got)
  BY <1>1
<1> HIDE DEF seen
<1>4. SolConsoleOnce
  BY <1>1 DEF SolPrinted, SolConsoleOnce
<1>5. SolConsoleComplete
  <2>1. ASSUME "dropped" \notin solHist, NEW c \in 1..(solBmc.first - 1) PROVE \E i \in DOMAIN solOut : solOut[i] = c
    <3>1. c \in 1..seen
      BY <1>1, <1>2
    <3> QED
      BY <1>1, <1>3, <2>1, <3>1 DEF SolPrinted
  <2> QED
    BY <2>1 DEF SolConsoleComplete
<1>6. SolInputExact
  BY <1>1, <1>3 DEF SolTyping, SolInputExact
<1> QED
  BY <1>4, <1>5, <1>6 DEF SolExact
-----------------------------------------------------------------------------
(* The process has one interface: the others stay as they were.            *)
LEMMA IfStep ==
  [IfNext]_ifVars => [LanNext]_lanVars /\ [LpNext]_lpVars /\ [SolNextStep]_solVars /\ [OiNext]_oiVars
<1> SUFFICES ASSUME [IfNext]_ifVars
             PROVE  [LanNext]_lanVars /\ [LpNext]_lpVars /\ [SolNextStep]_solVars /\ [OiNext]_oiVars
  OBVIOUS
<1>1. CASE UNCHANGED ifVars
  BY <1>1 DEF ifVars
<1>2. CASE IfNext
  BY <1>2, Zenon DEF IfNext, ipmi_intf_load, IfOverLan, IfOverLanplus, IfOverConsole, IfOverOpen
<1> QED
  BY <1>1, <1>2

IfInv == LanInv /\ LpInv /\ LpEnd /\ SolEnd /\ OiInv

LEMMA LpEndKept == LpInv /\ LpEnd /\ [LpNext]_lpVars => LpEnd'
<1>1. LpEnd /\ UNCHANGED lpVars => LpEnd'
  BY DEF LpEnd, LpCalling, LpClosesSession, lpVars
<1> QED
  BY <1>1, LpEndStep

LEMMA IfInvInit == IfInit => IfInv
BY LanInvInit, InitInv, LpEndInit, SolEndInit, OiInitInv DEF IfInit, IfInv

LEMMA IfInvStep == IfInv /\ [IfNext]_ifVars => IfInv'
BY IfStep, LanInvStep, StepInv, LpEndKept, SolEndStep, OiStepInv DEF IfInv

(* Whichever interface is loaded, a program that ends by its close         *)
(* function asked the BMC to close the session (lan, lanplus), or left the *)
(* terminal and the payload as they were (console).                        *)
THEOREM SessionsClosed == IfSpec => []SessionClosed
<1>1. IfInv => SessionClosed
  BY DEF IfInv, LanInv, LanControl, LpEnd, SolEnd, SessionClosed
<1> QED
  BY <1>1, IfInvInit, IfInvStep, PTL DEF IfSpec

(* Session sequence numbers over lan never repeat and never fall back to 0 *)
(* from one request to the next, if the sends that fail in a row do not    *)
(* lead once around them (LanFew).                                         *)
THEOREM SeqAdvances == LanFew => (IfSpec => []LanSeqAdvances)
<1> SUFFICES ASSUME LanFew PROVE IfSpec => []LanSeqAdvances
  OBVIOUS
<1>1. IfInv => LanSeqAdvances
  BY DEF IfInv, LanInv, LanNumbered
<1> QED
  BY <1>1, IfInvInit, IfInvStep, PTL DEF IfSpec

(* What a call returns answers its own request, over every interface, if   *)
(* two calls' request numbers are different (LanRoom).                     *)
THEOREM RightAnswers == LanRoom => (IfSpec => []RightAnswer)
<1> SUFFICES ASSUME LanRoom PROVE IfSpec => []RightAnswer
  OBVIOUS
<1>1. IfInit => IfInv /\ LanMatched
  BY IfInvInit, LanMatchedInit DEF IfInit
<1>2. IfInv /\ LanMatched /\ [IfNext]_ifVars => IfInv' /\ LanMatched'
  BY IfInvStep, IfStep, LanMatchedStep DEF IfInv
<1>3. IfInv /\ LanMatched => RightAnswer
  BY DEF IfInv, LanMatched, LpInv, OiInv, RightAnswer
<1> QED
  BY <1>1, <1>2, <1>3, PTL DEF IfSpec

(* Over the serial console, whatever is lost, repeated or late: output is  *)
(* printed in order, no character twice, and every character the BMC was   *)
(* told of is printed, unless it came with the answer to a break, to a     *)
(* keepalive or to the last input; and the BMC accepts what was typed, in  *)
(* order and once, as long as no payload was given up.                     *)
THEOREM ConsoleExact == IfSpec => []SolExact
<1>1. IfInit => SolInv
  BY SolInvInit DEF IfInit
<1>2. SolInv /\ [IfNext]_ifVars => SolInv'
  BY IfStep, SolInvStep
<1> QED
  BY <1>1, <1>2, SolInvExact, PTL DEF IfSpec
=============================================================================
