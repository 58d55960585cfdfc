------------------------------ MODULE Lanplus ------------------------------
(***************************************************************************)
(* ipmitool's IPMI v2.0 RMCP+ interface (src/plugins/lanplus/lanplus.c and *)
(* lanplus_crypt.c): negotiation of the session (Open Session, RAKP 1 to   *)
(* 4), commands with retransmission, and closing. Keys and codes are       *)
(* abstracted to whether the BMC knows the user's key.                     *)
(***************************************************************************)
EXTENDS Integers, Sequences

CONSTANTS
  LpRetry,     \* session->retry
  LpSeqs,      \* 64, the number of request sequence numbers
  LpSuites,    \* the cipher suite ids the user may ask for (-C)
  LpMaxCalls,  \* bound: calls of sendrecv and send_payload in one session
  LpMaxFaults  \* bound: packets lost, repeated or too slow, socket errors

ASSUME LpNumbers == /\ LpRetry \in Nat \ {0} /\ LpSeqs \in Nat \ {0}
                    /\ LpSuites \subseteq Int /\ LpMaxCalls \in Nat /\ LpMaxFaults \in Nat

VARIABLES
  lpCall,  \* the call of ipmi_lanplus_send_payload: where, which, its number, try, xmit
  lpV2,    \* session->v2_data: session_state, requested suite, auth_alg, rakp2_return_code
  lpIntf,  \* opened, abort, bridgePossible, a target behind a bridge
  lpList,  \* ipmi_req_entries
  lpCurr,  \* curr_seq
  lpNet,   \* packets on their way to and from the BMC, faults so far
  lpBmc,   \* the BMC's session, and whether it knows the user's key
  lpGot,   \* the last answer taken: its kind, the command it answered, an acknowledgement
  lpHist   \* history: "activated", "closing", "refused" (Set Session Privilege)

lpVars == <<lpCall, lpV2, lpIntf, lpList, lpCurr, lpNet, lpBmc, lpGot, lpHist>>

LpHandshake == {"open", "rakp1", "rakp3"}
LpAuthcap == {"authcap1", "authcap2", "authcap3", "authcap4"}
LpUser == {"user", "reset", "keepalive"}
LpDead == {"closed", "aborted", "crashed"}
(* The payload type that answers a payload of the handshake.               *)
LpReply(c) == CASE c = "open" -> "open_rsp" [] c = "rakp1" -> "rakp2" [] c = "rakp3" -> "rakp4"
                [] OTHER -> "ipmi"
LpNone == [kind |-> "none"]
LpOk(r) == r.kind # "none" /\ r.ok

LpInit ==
  /\ lpCall = [at |-> "new", cmd |-> "authcap1", n |-> 0, try |-> 0, xmit |-> TRUE]
  /\ lpV2 = [state |-> "presession", suite |-> 0, auth |-> "none", rakp2 |-> TRUE]
  /\ lpIntf = [opened |-> FALSE, abort |-> FALSE, bridge |-> FALSE, behind |-> FALSE]
  /\ lpList = <<>> /\ lpCurr = 0 /\ lpNet = [req |-> <<>>, rsp |-> <<>>, faults |-> 0]
  /\ lpBmc = [state |-> "none", knows |-> TRUE]
  /\ lpGot = [kind |-> "ipmi", cmd |-> "authcap1", ack |-> FALSE] /\ lpHist = {}
-----------------------------------------------------------------------------
(* What a suite stands for; no other id is accepted.                       *)
lanplus_get_requested_ciphers(id) ==
  [auth |-> CASE id = 0 -> "none" [] id \in 1..5 -> "sha1" [] OTHER -> "md5",
   integrity |-> CASE id \in {0, 1, 6} -> "none" [] id \in 2..5 -> "sha1_96"
                   [] id \in 7..10 -> "hmac_md5" [] OTHER -> "md5",
   crypt |-> CASE id \in {0, 1, 2, 6, 7, 11} -> "none" [] id \in {3, 8, 12} -> "aes"
               [] OTHER -> "xrc4"]
LpSupported(id) == id \in 0..14
LpAlgs == lanplus_get_requested_ciphers(lpV2.suite)
LpActive == lpV2.state = "active"

(* The codes of the handshake: computed from the user's key, and matched   *)
(* against nothing when the suite has no authentication.                   *)
lanplus_rakp2_hmac_matches(r) == lpV2.auth = "none" \/ r.keyed
lanplus_rakp4_hmac_matches(r) == lpV2.auth = "none" \/ (r.kind = "rakp4" /\ r.keyed)
(* The integrity code of a packet in an active session, made with K1.      *)
lanplus_has_valid_auth_code(r) ==
  ~LpActive \/ r.kind = "open_rsp" \/ LpAlgs.integrity = "none" \/ r.keyed
-----------------------------------------------------------------------------
(* The list of outstanding requests, with lan.c's removal.                 *)
LpAddEntry(e) == Append(lpList, e)
LpMatches(r) == {i \in DOMAIN lpList : lpList[i].seq = r.seq /\ lpList[i].cmd = r.cmd}
LpLookup(r) == CHOOSE i \in LpMatches(r) : \A j \in LpMatches(r) : i <= j
LpRemove(i) ==
  IF i = 1 THEN <<>> ELSE SubSeq(lpList, 1, i - 1) \o SubSeq(lpList, i + 1, Len(lpList))

LpBridged == lpIntf.behind /\ lpIntf.bridge
LpCode(c) == IF c \in LpAuthcap THEN "authcap" ELSE c

(* Get Channel Auth Cap. goes out in the v1.5 format, with sequence number *)
(* 0; every other command gets the next number, in each transmission.      *)
ipmi_lanplus_build_v15_ipmi_cmd ==
  /\ lpList' = LpAddEntry([seq |-> 0, cmd |-> "authcap", target |-> "authcap"])
  /\ UNCHANGED lpCurr
ipmi_lanplus_build_v2x_ipmi_cmd ==
  /\ lpCurr' = (lpCurr + 1) % LpSeqs
  /\ lpList' = LpAddEntry([seq |-> lpCurr', target |-> LpCode(lpCall.cmd),
                           cmd |-> IF LpBridged THEN "sendmsg" ELSE LpCode(lpCall.cmd)])

(* lanplus_encrypt_payload knows no cipher but AES; build_v2x_msg encrypts *)
(* and signs only in an active session.                                    *)
lanplus_encrypt_payload == LpActive => LpAlgs.crypt \in {"none", "aes"}
ipmi_lanplus_build_v2x_msg(seq) ==
  [cmd |-> LpCode(lpCall.cmd), seq |-> seq, bridged |-> LpBridged, suite |-> lpV2.suite,
   rakp2 |-> lpV2.rakp2, signed |-> LpActive /\ LpAlgs.integrity # "none"]
-----------------------------------------------------------------------------
LpBegin(c) == lpCall' = [at |-> "send", cmd |-> c, n |-> lpCall.n + 1, try |-> 0, xmit |-> TRUE]
LpAt(a) == lpCall' = [lpCall EXCEPT !.at = a]

(* ipmi_lanplus_close without a session to close, then the label fail.     *)
LpCloseSocket == LpAt("closed") /\ lpIntf' = [lpIntf EXCEPT !.opened = FALSE]
LpFail == LpCloseSocket /\ UNCHANGED <<lpV2, lpHist>>

(* ipmi_lanplus_open up to the first request.                              *)
ipmi_lanplus_open ==
  /\ lpCall.at = "new"
  /\ \/ LpAt("closed") /\ lpIntf' = [lpIntf EXCEPT !.abort = TRUE] /\ UNCHANGED <<lpV2, lpBmc>>
     \/ \E b, k \in BOOLEAN, s \in LpSuites :
        /\ lpIntf' = [lpIntf EXCEPT !.abort = TRUE, !.opened = TRUE, !.behind = b]
        /\ lpV2' = [lpV2 EXCEPT !.suite = s]
        /\ lpBmc' = [lpBmc EXCEPT !.knows = k]
        /\ LpBegin("authcap1")
  /\ UNCHANGED <<lpList, lpCurr, lpNet, lpGot, lpHist>>

(* ipmi_get_auth_capabilities_cmd asks in the v2.0 form, then in the v1.5  *)
(* form. The result of its second call is not looked at: opening fails     *)
(* after a first call that failed. A BMC may not support v2.0.             *)
LpGetAuthCapabilities(r) ==
  \/ /\ lpCall.cmd \in {"authcap1", "authcap2"} /\ LpOk(r) /\ LpSupported(lpV2.suite)
     /\ LpBegin("open") /\ UNCHANGED <<lpIntf, lpV2, lpHist>>
  \/ lpCall.cmd \in {"authcap1", "authcap2"} /\ LpOk(r) /\ LpFail
  \/ lpCall.cmd = "authcap1" /\ ~LpOk(r) /\ LpBegin("authcap2") /\ UNCHANGED <<lpIntf, lpV2, lpHist>>
  \/ lpCall.cmd = "authcap2" /\ ~LpOk(r) /\ LpBegin("authcap3") /\ UNCHANGED <<lpIntf, lpV2, lpHist>>
  \/ lpCall.cmd = "authcap3" /\ LpOk(r) /\ LpFail
  \/ lpCall.cmd = "authcap3" /\ ~LpOk(r) /\ LpBegin("authcap4") /\ UNCHANGED <<lpIntf, lpV2, lpHist>>
  \/ lpCall.cmd = "authcap4" /\ LpFail

(* Slip: the BMC's choice of algorithms is taken as it comes.              *)
LpTakeAnyAlgs(r) ==
  \/ ~LpOk(r) /\ LpFail
  \/ /\ LpOk(r) /\ LpBegin("rakp1") /\ UNCHANGED <<lpIntf, lpHist>>
     /\ lpV2' = [lpV2 EXCEPT !.state = "open_received", !.auth = r.algs.auth]
(* ipmi_lanplus_open_session looks into the answer without asking whether  *)
(* there is one, and ends when the BMC changed an algorithm.               *)
ipmi_lanplus_open_session(r) ==
  \/ r.kind = "none" /\ LpAt("crashed") /\ UNCHANGED <<lpIntf, lpV2, lpHist>>
  \/ r.kind # "none" /\ ~r.ok /\ LpFail
  \/ /\ LpOk(r) /\ lpV2' = [lpV2 EXCEPT !.state = "open_received", !.auth = r.algs.auth]
     /\ UNCHANGED lpHist
     /\ IF r.algs = LpAlgs THEN LpBegin("rakp1") /\ UNCHANGED lpIntf ELSE LpCloseSocket

(* ipmi_lanplus_rakp1: a code that does not match does not end the         *)
(* negotiation here, it is reported to the BMC in RAKP 3.                  *)
ipmi_lanplus_rakp1(r) ==
  \/ r.kind = "none" /\ LpFail
  \/ /\ r.kind # "none" /\ ~r.ok /\ LpCloseSocket
     /\ lpV2' = [lpV2 EXCEPT !.state = "rakp2_received"] /\ UNCHANGED lpHist
  \/ /\ LpOk(r) /\ LpBegin("rakp3") /\ UNCHANGED <<lpIntf, lpHist>>
     /\ lpV2' = [lpV2 EXCEPT !.state = "rakp2_received", !.rakp2 = lanplus_rakp2_hmac_matches(r)]

(* ipmi_lanplus_rakp3, and what ipmi_lanplus_open does with an active      *)
(* session: no level to ask for, or ipmi_set_session_privlvl_cmd.          *)
ipmi_lanplus_rakp3(r) ==
  \/ /\ ~lpV2.rakp2 \/ ~LpOk(r) \/ ~lanplus_rakp4_hmac_matches(r)
     /\ LpFail
  \/ /\ lpV2.rakp2 /\ LpOk(r) /\ lanplus_rakp4_hmac_matches(r)
     /\ lpV2' = [lpV2 EXCEPT !.state = "active"]
     /\ lpHist' = lpHist \cup {"activated"}
     /\ \/ LpAt("idle") /\ lpIntf' = [lpIntf EXCEPT !.abort = FALSE, !.bridge = TRUE]
        \/ LpBegin("privlvl") /\ lpIntf' = [lpIntf EXCEPT !.abort = FALSE]

(* Set Session Privilege: when it fails, opening fails, and nobody closes  *)
(* the session or the socket.                                              *)
LpSetPrivlvl(r) ==
  IF LpOk(r)
  THEN LpAt("idle") /\ lpIntf' = [lpIntf EXCEPT !.bridge = TRUE] /\ UNCHANGED <<lpV2, lpHist>>
  ELSE LpCloseSocket /\ UNCHANGED lpV2 /\ lpHist' = lpHist \cup {"refused"}

(* Where the caller goes on with the answer r, or with none.               *)
LpReturn(r) ==
  \/ lpCall.cmd \in LpAuthcap /\ LpGetAuthCapabilities(r)
  \/ lpCall.cmd = "open" /\ ipmi_lanplus_open_session(r)
  \/ lpCall.cmd = "rakp1" /\ ipmi_lanplus_rakp1(r)
  \/ lpCall.cmd = "rakp3" /\ ipmi_lanplus_rakp3(r)
  \/ lpCall.cmd = "privlvl" /\ LpSetPrivlvl(r)
  \/ lpCall.cmd \in LpUser /\ LpAt("idle") /\ UNCHANGED <<lpIntf, lpV2, lpHist>>
  \/ lpCall.cmd = "close" /\ LpFail
-----------------------------------------------------------------------------
(* The state a payload of the handshake may be sent in.                    *)
LpSendState(c) ==
  CASE c = "open" -> "presession" [] c = "rakp1" -> "open_received" [] c = "rakp3" -> "rakp2_received"
    [] OTHER -> lpV2.state
LpSentState(c) ==
  CASE c = "open" -> "open_sent" [] c = "rakp1" -> "rakp1_sent" [] c = "rakp3" -> "rakp3_sent"
    [] OTHER -> lpV2.state

(* The first half of the loop of ipmi_lanplus_send_payload: transmit if    *)
(* xmit. Its assertion holds for the first transmission of a payload of    *)
(* the handshake only. A send error ends the call.                         *)
LpTransmit ==
  /\ lpCall.at = "send"
  /\ \/ /\ lpV2.state # LpSendState(lpCall.cmd) \/ ~lanplus_encrypt_payload
        /\ LpAt("aborted") /\ UNCHANGED <<lpList, lpCurr, lpNet, lpV2, lpIntf, lpHist>>
     \/ /\ lpV2.state = LpSendState(lpCall.cmd) /\ lanplus_encrypt_payload
        /\ IF lpCall.cmd \in LpHandshake THEN UNCHANGED <<lpList, lpCurr>>
           ELSE IF lpCall.cmd \in LpAuthcap THEN ipmi_lanplus_build_v15_ipmi_cmd
           ELSE ipmi_lanplus_build_v2x_ipmi_cmd
        /\ \/ /\ lpNet.faults < LpMaxFaults
              /\ lpNet' = [lpNet EXCEPT !.faults = @ + 1]
              /\ LpReturn(LpNone)
           \/ /\ lpNet' = [lpNet EXCEPT !.req = Append(@, ipmi_lanplus_build_v2x_msg(
                              IF lpCall.cmd \in LpAuthcap THEN 0 ELSE lpCurr'))]
              /\ LpAt(IF lpCall.cmd = "reset" THEN "idle" ELSE "recv")
              /\ lpV2' = [lpV2 EXCEPT !.state = LpSentState(lpCall.cmd)]
              /\ lpIntf' = [lpIntf EXCEPT !.abort = @ \/ lpCall.cmd = "reset"]
              /\ UNCHANGED lpHist
  /\ UNCHANGED <<lpBmc, lpGot>>

(* ipmi_lan_poll_recv on one packet. Packets of the handshake carry no     *)
(* session id: one that arrives in an active session fails an assertion,   *)
(* as does RAKP 2 of an algorithm that is not supported.                   *)
LpUnexpected(r) == r.kind # "ipmi" /\ lpV2.state # LpSentState(
                     CASE r.kind = "open_rsp" -> "open" [] r.kind = "rakp2" -> "rakp1" [] OTHER -> "rakp3")
LpAsserts(r) ==
  IF r.kind = "ipmi" THEN LpActive /\ r.cmd # "authcap" /\ ~lanplus_has_valid_auth_code(r)
  ELSE LpActive \/ (r.kind = "rakp2" /\ ~LpUnexpected(r) /\ lpV2.auth = "md5")
LpTake(r) ==
  LpReturn(r) /\ lpGot' = [kind |-> r.kind, cmd |-> lpCall.cmd,
                          ack |-> r.kind = "ipmi" /\ r.cmd = "sendmsg"]

(* data_len of the acknowledgement of Send Message: 24 bytes, 24 more with *)
(* an initialisation vector and padding, and the trailer with the code.    *)
LpAckLen ==
  24 + (IF LpAlgs.crypt = "aes" THEN 24 ELSE 0)
     + (CASE LpAlgs.integrity = "none" -> 0 [] LpAlgs.integrity = "sha1_96" -> 16 [] OTHER -> 20)
LpPollRecv ==
  /\ lpCall.at = "recv" /\ lpNet.rsp # <<>>
  /\ lpNet' = [lpNet EXCEPT !.rsp = Tail(@)]
  /\ LET r == Head(lpNet.rsp) IN
     \/ LpAsserts(r) /\ LpAt("aborted") /\ UNCHANGED <<lpList, lpV2, lpIntf, lpGot, lpHist>>
     \/ /\ ~LpAsserts(r)
        /\ LpUnexpected(r) \/ (r.kind = "ipmi" /\ LpMatches(r) = {})
        /\ UNCHANGED <<lpCall, lpList, lpV2, lpIntf, lpGot, lpHist>>
     \/ /\ ~LpAsserts(r) /\ r.kind # "ipmi" /\ ~LpUnexpected(r)
        /\ LpTake(r) /\ UNCHANGED lpList
     \/ /\ ~LpAsserts(r) /\ r.kind = "ipmi" /\ LpMatches(r) # {}
        /\ LET i == LpLookup(r) IN
           IF LpBridged /\ r.cmd = "sendmsg" /\ LpAckLen = 38
           THEN /\ lpList' = [lpList EXCEPT ![i].cmd = lpList[i].target]
                /\ UNCHANGED <<lpCall, lpV2, lpIntf, lpGot, lpHist>>
           ELSE lpList' = LpRemove(i) /\ LpTake(r)
  /\ UNCHANGED <<lpCurr, lpBmc>>

(* A recv() error with a packet behind it hands out the static buffer      *)
(* again, as in lan.c: the packet read before (LpNetwork repeats it), that *)
(* packet with its payload decrypted in place, whose code is now wrong, or *)
(* an answer moved to the front, which may pass for a pong.                *)
LpRecvError ==
  /\ lpCall.at = "recv" /\ lpNet.faults < LpMaxFaults
  /\ lpNet' = [lpNet EXCEPT !.faults = @ + 1]
  /\ \/ UNCHANGED <<lpCall, lpV2, lpIntf, lpGot, lpHist>>
     \/ /\ LpActive /\ LpAlgs.integrity # "none" /\ LpAt("aborted")
        /\ UNCHANGED <<lpV2, lpIntf, lpGot, lpHist>>
     \/ LpActive /\ lpCall.cmd \in LpUser \cup {"close"} /\ LpTake([kind |-> "rest"])
  /\ UNCHANGED <<lpList, lpCurr, lpBmc>>

(* The second half of the loop without an answer: after a timeout the next *)
(* round transmits, after a socket error it only waits again. A packet     *)
(* that is still on its way was too slow.                                  *)
LpNoAnswer ==
  /\ lpCall.at = "recv"
  /\ \E slow \in BOOLEAN, xmit \in BOOLEAN :
     /\ slow \/ ~xmit => lpNet.faults < LpMaxFaults
     /\ ~slow /\ xmit => lpNet.req = <<>> /\ lpNet.rsp = <<>>
     /\ lpNet' = [lpNet EXCEPT !.faults = @ + IF slow \/ ~xmit THEN 1 ELSE 0]
     /\ IF lpCall.try + 1 >= LpRetry THEN LpReturn(LpNone)
        ELSE /\ lpCall' = [lpCall EXCEPT !.try = @ + 1, !.xmit = xmit,
                                         !.at = IF xmit THEN "send" ELSE "recv"]
             /\ UNCHANGED <<lpV2, lpIntf, lpHist>>
  /\ UNCHANGED <<lpList, lpCurr, lpBmc, lpGot>>

(* Slip: the socket is closed and the BMC is not told.                     *)
LpJustClose == LpCloseSocket /\ UNCHANGED lpHist
(* ipmi_lanplus_close: Close Session unless aborted.                       *)
ipmi_lanplus_close ==
  IF lpIntf.abort THEN LpCloseSocket /\ UNCHANGED lpHist
  ELSE /\ LpBegin("close") /\ lpIntf' = [lpIntf EXCEPT !.bridge = FALSE]
       /\ lpHist' = lpHist \cup {"closing"}

(* The program uses the session, or ends it.                               *)
LpProgram ==
  /\ lpCall.at = "idle"
  /\ \/ /\ ~lpIntf.abort /\ lpCall.n < LpMaxCalls
        /\ \E c \in LpUser : LpBegin(c)
        /\ UNCHANGED <<lpIntf, lpHist>>
     \/ ipmi_lanplus_close
  /\ UNCHANGED <<lpV2, lpList, lpCurr, lpNet, lpBmc, lpGot>>
-----------------------------------------------------------------------------
(* The BMC, as lanplus.c uses it: it refuses, accepts, or accepts with     *)
(* algorithms of another suite; it does not answer a RAKP 3 that reports   *)
(* an error, nor commands outside a session.                               *)
LpAnswer(q, cmd, ok) == [kind |-> "ipmi", cmd |-> cmd, seq |-> q.seq, ok |-> ok, keyed |-> lpBmc.knows]
LpBmcAnswers(q, ok) ==
  CASE q.cmd = "open" -> {<<[kind |-> "open_rsp", ok |-> ok, algs |-> lanplus_get_requested_ciphers(s)]>> :
                             s \in {q.suite} \cup {0}}
    [] q.cmd \in {"rakp1", "rakp3"} ->
         IF q.cmd = "rakp3" /\ ~q.rakp2 THEN {<<>>}
         ELSE {<<[kind |-> LpReply(q.cmd), ok |-> ok, keyed |-> lpBmc.knows]>>}
    [] q.cmd = "authcap" -> {<<LpAnswer(q, "authcap", ok)>>}
    [] OTHER -> IF lpBmc.state # "active" THEN {<<>>}
                ELSE {(IF q.bridged THEN <<LpAnswer(q, "sendmsg", ok)>> ELSE <<>>) \o
                      (IF q.bridged /\ ~ok THEN <<>> ELSE <<LpAnswer(q, q.cmd, ok)>>)}
LpBmcStep ==
  /\ lpNet.req # <<>> /\ lpCall.at \notin LpDead
  /\ LET q == Head(lpNet.req) IN
     \E ok \in BOOLEAN : \E a \in LpBmcAnswers(q, ok) :
       /\ lpNet' = [lpNet EXCEPT !.req = Tail(@), !.rsp = @ \o a]
       /\ lpBmc' = [lpBmc EXCEPT !.state = CASE q.cmd = "rakp3" /\ ok /\ q.rakp2 -> "active"
                                             [] q.cmd = "close" /\ ok -> "none" [] OTHER -> @]
  /\ UNCHANGED <<lpCall, lpV2, lpIntf, lpList, lpCurr, lpGot, lpHist>>

LpNetwork ==
  /\ lpNet.faults < LpMaxFaults /\ lpCall.at \notin LpDead
  /\ \/ lpNet.req # <<>> /\ lpNet' = [lpNet EXCEPT !.faults = @ + 1, !.req = Tail(@)]
     \/ lpNet.rsp # <<>> /\ lpNet' = [lpNet EXCEPT !.faults = @ + 1, !.rsp = Tail(@)]
     \/ /\ lpNet.rsp # <<>>
        /\ lpNet' = [lpNet EXCEPT !.faults = @ + 1, !.rsp = <<Head(@)>> \o @]
  /\ UNCHANGED <<lpCall, lpV2, lpIntf, lpList, lpCurr, lpBmc, lpGot, lpHist>>
-----------------------------------------------------------------------------
LpProgramStep == LpTransmit \/ LpPollRecv \/ LpRecvError \/ LpNoAnswer
LpNext == ipmi_lanplus_open \/ LpProgramStep \/ LpProgram \/ LpBmcStep \/ LpNetwork
LpFairness == WF_lpVars(LpProgramStep) /\ WF_lpVars(LpBmcStep)
LpSpec == LpInit /\ [][LpNext]_lpVars /\ LpFairness
-----------------------------------------------------------------------------
(* A payload of the handshake is answered by the payload that answers it,  *)
(* and a command by an answer to a command, whatever is repeated or late:  *)
(* the list holds no entry of a v1.5 request when the handshake begins.    *)
(* Only later may a receive that fails pass off the rest of an answer.     *)
LpHandshakeAnswer ==
  \/ lpGot.kind = LpReply(lpGot.cmd)
  \/ lpGot.kind = "rest" /\ lpGot.cmd \in LpUser \cup {"close"}

(* A session becomes active only with a BMC that knows the user's key,     *)
(* unless the user asked for the suite without authentication: neither the *)
(* answer to Open Session nor a code that did not match lets it through.   *)
LpAuthentic == LpActive /\ lpV2.suite # 0 => lpBmc.knows

(* The program that ends after a session was activated has tried to send   *)
(* Close Session, unless Set Session Privilege was refused, the command was a    *)
(* reset, or an assertion failed.                                          *)
LpClosesSession ==
  lpCall.at = "closed" /\ "activated" \in lpHist =>
    "closing" \in lpHist \/ "refused" \in lpHist \/ lpIntf.abort

(* The assertions of ipmi_lanplus_send_payload and of the functions that   *)
(* read packets hold for the suites that are supported.                    *)
LpAssertionsHold == lpV2.suite \in 0..3 => lpCall.at # "aborted"
=============================================================================
