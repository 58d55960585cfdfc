-------------------------------- MODULE Lan --------------------------------
(***************************************************************************)
(* ipmitool's IPMI v1.5 LAN interface (src/plugins/lan/lan.c): opening a   *)
(* session, commands with retransmission, the list of outstanding          *)
(* requests, bridging, and closing, over a datagram network that keeps     *)
(* order but loses, delays and repeats packets.                            *)
(***************************************************************************)
EXTENDS Naturals, Sequences

CONSTANTS
  LanRetry,     \* session->retry
  LanSeqs,      \* 64, the number of request sequence numbers
  LanInSeqs,    \* 2^32, the number of session sequence numbers
  LanMaxCalls,  \* bound: commands sent by the program in one session
  LanMaxFaults  \* bound: packets lost, repeated or too slow, send errors

ASSUME LanNumbers == /\ LanRetry \in Nat \ {0} /\ LanSeqs \in Nat \ {0}
                     /\ LanInSeqs \in Nat \ 0..2
                     /\ LanMaxCalls \in Nat /\ LanMaxFaults \in Nat

VARIABLES
  lanAt,      \* "new", "send", "recv", "idle", "closed"; "failing", send() fails for ever
  lanCmd,     \* the command of the call in progress
  lanCall,    \* number of calls made so far
  lanTry,     \* try, in ipmi_lan_send_cmd
  lanList,    \* ipmi_req_entries
  lanCurr,    \* curr_seq
  lanSess,    \* *intf->session: active, authtype, in_seq; per_msg is authstatus
  lanIntf,    \* opened, abort, bridge_possible, and whether the target is behind a bridge
  lanReq,     \* requests on their way to the BMC
  lanRsp,     \* answers on their way back
  lanBmc,     \* the BMC's session: "none", "challenged", "active"
  lanFaults,
  lanGot,     \* the answer of the last call that returned one: the call, the call whose
              \* request it answers, an acknowledgement of Send Message, signed
  lanGaveUp,  \* history: a call returned without an answer
  lanLost,    \* history: a packet was lost, a pong repeated, a refused Send Message passed
              \* over, or a receive failed
  lanHist     \* history: "opened", a session was activated; "closing", it was asked to close

lanVars == <<lanAt, lanCmd, lanCall, lanTry, lanList, lanCurr, lanSess, lanIntf,
             lanReq, lanRsp, lanBmc, lanFaults, lanGot, lanGaveUp, lanLost, lanHist>>

(* The command byte: the two calls of Get Channel Auth Cap. share it.      *)
LanCode(c) == IF c = "authcap2" THEN "authcap1" ELSE c

LanInit ==
  /\ lanAt = "new" /\ lanCmd = "ping" /\ lanCall = 0 /\ lanTry = 0
  /\ lanList = <<>> /\ lanCurr = 0
  /\ lanSess = [active |-> FALSE, auth |-> FALSE, in_seq |-> 0, per_msg |-> TRUE]
  /\ lanIntf = [opened |-> FALSE, abort |-> FALSE, bridge |-> FALSE, behind |-> FALSE]
  /\ lanReq = <<>> /\ lanRsp = <<>> /\ lanBmc = "none" /\ lanFaults = 0
  /\ lanGot = [call |-> 0, of |-> 0, ack |-> FALSE, signed |-> FALSE]
  /\ lanGaveUp = FALSE /\ lanLost = FALSE /\ lanHist = {}
-----------------------------------------------------------------------------
(* The list of outstanding requests. Removing the first entry unlinks all  *)
(* that follow it, because p and e are then the same.                      *)
ipmi_req_add_entry(e) == Append(lanList, e)

LanMatches(seq, cmd) == {i \in DOMAIN lanList : lanList[i].seq = seq /\ lanList[i].cmd = cmd}
ipmi_req_lookup_entry(seq, cmd) ==
  CHOOSE i \in LanMatches(seq, cmd) : \A j \in LanMatches(seq, cmd) : i <= j

(* Slip: exactly the entry is unlinked.                                    *)
RemoveExactly(i) == SubSeq(lanList, 1, i - 1) \o SubSeq(lanList, i + 1, Len(lanList))
ipmi_req_remove_entry(i) ==
  IF i = 1 THEN <<>>
  ELSE SubSeq(lanList, 1, i - 1) \o SubSeq(lanList, i + 1, Len(lanList))
-----------------------------------------------------------------------------
(* Starting a call of intf->sendrecv.                                      *)
LanBegin(cmd) ==
  /\ lanAt' = "send" /\ lanCmd' = cmd /\ lanCall' = lanCall + 1 /\ lanTry' = 0

(* ipmi_lan_open: a host that cannot be found or a socket that cannot be   *)
(* connected ends the attempt; otherwise ipmi_lan_activate_session pings.  *)
ipmi_lan_open ==
  /\ lanAt = "new"
  /\ \/ /\ lanAt' = "closed" /\ lanIntf' = [lanIntf EXCEPT !.abort = TRUE]
        /\ UNCHANGED <<lanCmd, lanCall, lanTry>>
     \/ /\ \E b \in BOOLEAN :
             lanIntf' = [lanIntf EXCEPT !.abort = TRUE, !.opened = TRUE, !.behind = b]
        /\ LanBegin("ping")
  /\ UNCHANGED <<lanList, lanCurr, lanSess, lanReq, lanRsp, lanBmc, lanFaults, lanGot,
                 lanGaveUp, lanLost, lanHist>>

(* ipmi_lan_ping: the presence ping is sent once and is no list entry;     *)
(* nobody looks at what it returns.                                        *)
ipmi_lan_ping ==
  /\ lanAt = "send" /\ lanCmd = "ping"
  /\ \/ /\ lanAt' = "recv" /\ lanReq' = Append(lanReq, [cmd |-> "ping", call |-> lanCall])
        /\ UNCHANGED <<lanCmd, lanCall, lanTry, lanFaults, lanGaveUp>>
     \/ /\ lanFaults < LanMaxFaults /\ lanFaults' = lanFaults + 1
        /\ lanGaveUp' = TRUE /\ LanBegin("authcap1") /\ UNCHANGED lanReq
  /\ UNCHANGED <<lanList, lanCurr, lanSess, lanIntf, lanRsp, lanBmc, lanGot, lanLost, lanHist>>

(* Slip: the wrap-around is not looked at.                                 *)
NextSeqWraps(n) == IF n = 0 THEN 0 ELSE (n + 1) % LanInSeqs
(* Session sequence numbers start with the first answer of the BMC that    *)
(* gives one, and never return to 0.                                       *)
LanNextSeq(n) ==
  IF n = 0 THEN 0 ELSE IF (n + 1) % LanInSeqs = 0 THEN 1 ELSE (n + 1) % LanInSeqs

LanBridged == lanIntf.behind /\ lanIntf.bridge

(* ipmi_lan_build_cmd: a new entry and a new packet for every attempt. A   *)
(* bridged request is wrapped in Send Message, and its entry waits for the *)
(* acknowledgement of that first.                                          *)
ipmi_lan_build_cmd(seq) ==
  /\ lanCurr' = seq + 1
  /\ lanList' = ipmi_req_add_entry([seq |-> seq, target |-> LanCode(lanCmd), call |-> lanCall,
                                    cmd |-> IF LanBridged THEN "sendmsg" ELSE LanCode(lanCmd)])
  /\ lanSess' = [lanSess EXCEPT !.in_seq = LanNextSeq(@)]

LanPacket(seq) ==
  [cmd |-> LanCode(lanCmd), call |-> lanCall, seq |-> seq, bridged |-> LanBridged,
   in_seq |-> lanSess.in_seq, signed |-> lanSess.active /\ lanSess.auth]

(* One round of the loop of ipmi_lan_send_cmd, up to the wait. A failing   *)
(* send() counts as an attempt, but nothing compares the count: the loop   *)
(* goes on until a send succeeds, or for ever. A program that has set      *)
(* noanswer (mc reset cold) does not wait.                                 *)
ipmi_lan_send_cmd ==
  /\ lanAt = "send" /\ lanCmd # "ping"
  /\ LET seq == IF lanCurr >= LanSeqs THEN 0 ELSE lanCurr IN
     /\ ipmi_lan_build_cmd(seq)
     /\ \/ /\ lanFaults < LanMaxFaults /\ lanFaults' = lanFaults + 1
           /\ lanTry' = lanTry + 1 /\ lanLost' = TRUE /\ lanAt' \in {"send", "failing"}
           /\ UNCHANGED <<lanReq, lanIntf, lanGaveUp, lanHist>>
        \/ /\ lanReq' = Append(lanReq, LanPacket(seq))
           /\ lanAt' = IF lanCmd = "reset" THEN "idle" ELSE "recv"
           /\ lanIntf' = [lanIntf EXCEPT !.abort = @ \/ lanCmd = "reset"]
           /\ lanHist' = lanHist \cup (IF lanCmd = "close" THEN {"closing"} ELSE {})
           /\ lanGaveUp' = (lanGaveUp \/ lanCmd = "reset")
           /\ UNCHANGED <<lanTry, lanFaults, lanLost>>
  /\ UNCHANGED <<lanCmd, lanCall, lanRsp, lanBmc, lanGot>>
-----------------------------------------------------------------------------
(* What the callers make of an answer r, or of none. Every branch says     *)
(* where the program goes on.                                              *)
LanNone == [kind |-> "none"]
LanOk(r) == r.kind = "ipmi" /\ r.ok

(* ipmi_lan_close: no Close Session after an abort.                        *)
ipmi_lan_close(abort) ==
  IF abort THEN /\ lanAt' = "closed" /\ lanIntf' = [lanIntf EXCEPT !.opened = FALSE, !.abort = TRUE]
                /\ UNCHANGED <<lanCmd, lanCall, lanTry>>
  ELSE /\ LanBegin("close")
       /\ lanIntf' = [lanIntf EXCEPT !.abort = FALSE, !.bridge = FALSE, !.behind = FALSE]

(* ipmi_get_auth_capabilities_cmd: the BMC may offer nothing we can use.   *)
ipmi_get_auth_capabilities_cmd(r) ==
  /\ UNCHANGED lanHist
  /\ \/ /\ LanOk(r)
        /\ LanBegin("challenge")
        /\ \E a, p \in BOOLEAN : lanSess' = [lanSess EXCEPT !.auth = a, !.per_msg = p]
        /\ UNCHANGED lanIntf
     \/ /\ lanCmd = "authcap1" /\ LanBegin("authcap2") /\ UNCHANGED <<lanIntf, lanSess>>
     \/ /\ lanCmd = "authcap2" /\ ipmi_lan_close(lanIntf.abort) /\ UNCHANGED lanSess

(* ipmi_get_session_challenge_cmd; on success ipmi_activate_session_cmd    *)
(* marks the session active before it sends.                               *)
ipmi_get_session_challenge_cmd(r) ==
  /\ UNCHANGED lanHist
  /\ IF LanOk(r)
     THEN /\ LanBegin("activate") /\ lanSess' = [lanSess EXCEPT !.active = TRUE]
          /\ UNCHANGED lanIntf
     ELSE ipmi_lan_close(lanIntf.abort) /\ UNCHANGED lanSess

(* ipmi_activate_session_cmd: the BMC gives the first sequence number, 0   *)
(* is replaced; a wrong authentication type is a failure too. Then abort   *)
(* is cleared and a level above USER is asked for.                         *)
ipmi_activate_session_cmd(r) ==
  \/ /\ r.kind = "none" /\ lanSess' = [lanSess EXCEPT !.active = FALSE]
     /\ ipmi_lan_close(lanIntf.abort) /\ UNCHANGED lanHist
  \/ /\ r.kind # "none" /\ ~r.ok
     /\ ipmi_lan_close(lanIntf.abort) /\ UNCHANGED <<lanSess, lanHist>>
  \/ /\ LanOk(r) /\ lanSess.per_msg
     /\ lanSess' = [lanSess EXCEPT !.in_seq = r.in_seq]
     /\ ipmi_lan_close(lanIntf.abort) /\ UNCHANGED lanHist
  \/ /\ LanOk(r)
     /\ lanSess' = [lanSess EXCEPT !.in_seq = IF r.in_seq = 0 THEN 1 ELSE r.in_seq,
                                   !.auth = @ /\ lanSess.per_msg]
     /\ \/ LanBegin("privlvl") /\ lanIntf' = [lanIntf EXCEPT !.abort = FALSE]
        \/ /\ lanAt' = "idle" /\ lanIntf' = [lanIntf EXCEPT !.abort = FALSE, !.bridge = TRUE]
           /\ UNCHANGED <<lanCmd, lanCall, lanTry>>
     /\ lanHist' = lanHist \cup {"opened"}

(* ipmi_set_session_privlvl_cmd: bridge_possible is put back afterwards.   *)
ipmi_set_session_privlvl_cmd(r) ==
  /\ UNCHANGED <<lanSess, lanHist>>
  /\ IF LanOk(r)
     THEN /\ lanAt' = "idle" /\ lanIntf' = [lanIntf EXCEPT !.bridge = TRUE]
          /\ UNCHANGED <<lanCmd, lanCall, lanTry>>
     ELSE ipmi_lan_close(lanIntf.abort)

(* A command of the program and ipmi_lan_keepalive only report.            *)
LanReport ==
  /\ lanAt' = "idle" /\ UNCHANGED <<lanCmd, lanCall, lanTry, lanIntf, lanSess, lanHist>>

(* ipmi_close_session_cmd: whatever it returns, the socket is closed.      *)
ipmi_close_session_cmd ==
  /\ lanAt' = "closed" /\ lanIntf' = [lanIntf EXCEPT !.opened = FALSE]
  /\ UNCHANGED <<lanCmd, lanCall, lanTry, lanSess, lanHist>>

(* ipmi_lan_activate_session: which step comes after which.                *)
ipmi_lan_activate_session(r) ==
  CASE lanCmd = "ping" -> LanBegin("authcap1") /\ UNCHANGED <<lanIntf, lanSess, lanHist>>
    [] lanCmd \in {"authcap1", "authcap2"} -> ipmi_get_auth_capabilities_cmd(r)
    [] lanCmd = "challenge" -> ipmi_get_session_challenge_cmd(r)
    [] lanCmd = "activate" -> ipmi_activate_session_cmd(r)
    [] lanCmd = "privlvl" -> ipmi_set_session_privlvl_cmd(r)
    [] lanCmd \in {"user", "keepalive"} -> LanReport
    [] lanCmd = "close" -> ipmi_close_session_cmd
-----------------------------------------------------------------------------
(* The answer can be read: the authentication code is skipped when either  *)
(* side says there is one.                                                 *)
LanReadable(r) == lanSess.active /\ (r.signed \/ lanSess.auth) => r.signed

(* A pong is returned whatever the caller waits for, with the completion   *)
(* code of an earlier packet.                                              *)
LanPong(call) ==
  /\ lanGot' = [call |-> lanCall, of |-> call, ack |-> FALSE, signed |-> FALSE]
  /\ \E ok \in BOOLEAN : ipmi_lan_activate_session([kind |-> "ipmi", ok |-> ok, in_seq |-> 0])
  /\ UNCHANGED lanList

(* data_len of the acknowledgement of Send Message: 22 bytes of headers,   *)
(* completion code and checksums, and 16 of authentication code.           *)
LanAckLen(r) == IF r.signed THEN 38 ELSE 22

(* ipmi_lan_poll_recv on the next packet: an answer is looked up by        *)
(* sequence number and command byte. An acknowledgement of Send Message of *)
(* 38 bytes, accepted or refused, turns the entry to the command behind    *)
(* it; one of another length is returned as the answer.                    *)
ipmi_lan_poll_recv ==
  /\ lanAt = "recv" /\ lanRsp # <<>>
  /\ LET r == Head(lanRsp)
         m == IF r.kind = "ipmi" THEN LanMatches(r.seq, r.cmd) ELSE {} IN
     /\ lanRsp' = Tail(lanRsp)
     /\ lanLost' = (lanLost \/ (r.kind = "ipmi" /\ r.cmd = "sendmsg" /\ r.signed /\ ~r.ok))
     /\ \/ r.kind = "pong" /\ LanPong(r.call)
        \/ /\ r.kind = "ipmi" /\ (m = {} \/ ~LanReadable(r))
           /\ UNCHANGED <<lanAt, lanCmd, lanCall, lanTry, lanList, lanIntf, lanSess, lanGot, lanHist>>
        \/ /\ r.kind = "ipmi" /\ m # {} /\ LanReadable(r)
           /\ LET i == ipmi_req_lookup_entry(r.seq, r.cmd) IN
              IF LanBridged /\ r.cmd = "sendmsg" /\ LanAckLen(r) = 38
              THEN /\ lanList' = [lanList EXCEPT ![i].cmd = lanList[i].target]
                   /\ UNCHANGED <<lanAt, lanCmd, lanCall, lanTry, lanIntf, lanSess, lanGot, lanHist>>
              ELSE /\ lanList' = ipmi_req_remove_entry(i)
                   /\ lanGot' = [call |-> lanCall, of |-> r.call, ack |-> r.cmd = "sendmsg",
                                 signed |-> r.signed]
                   /\ ipmi_lan_activate_session(r)
  /\ UNCHANGED <<lanCurr, lanReq, lanBmc, lanFaults, lanGaveUp>>

(* Without an answer the loop of ipmi_lan_send_cmd transmits again, or     *)
(* gives up.                                                               *)
LanUnanswered ==
  \/ /\ lanCmd # "ping" /\ lanTry + 1 < LanRetry
     /\ lanTry' = lanTry + 1 /\ lanAt' = "send"
     /\ UNCHANGED <<lanCmd, lanCall, lanIntf, lanSess, lanGaveUp, lanHist>>
  \/ /\ lanCmd = "ping" \/ lanTry + 1 >= LanRetry
     /\ lanGaveUp' = TRUE /\ ipmi_lan_activate_session(LanNone)

(* The first recv() fails (a port unreachable comes before any packet) and *)
(* a second select decides. Without a packet there is no answer. With one, *)
(* it is not read: the static buffer is handed out again. That is the      *)
(* packet read before, which LanNetwork repeats, or what was left of an    *)
(* answer moved to the front of the buffer, which is thrown away or passes *)
(* for a pong.                                                             *)
LanRecvError ==
  /\ lanAt = "recv" /\ lanFaults < LanMaxFaults /\ lanFaults' = lanFaults + 1 /\ lanLost' = TRUE
  /\ \/ LanUnanswered /\ UNCHANGED <<lanList, lanGot>>
     \/ LanPong(0) /\ UNCHANGED lanGaveUp
     \/ UNCHANGED <<lanAt, lanCmd, lanCall, lanTry, lanList, lanIntf, lanSess, lanGot, lanHist, lanGaveUp>>
  /\ UNCHANGED <<lanCurr, lanReq, lanRsp, lanBmc>>

(* Slip: the wait has no end while nothing is on its way.                  *)
LanWaitForEver ==
  /\ lanAt = "recv" /\ (lanReq # <<>> \/ lanRsp # <<>>)
  /\ lanFaults < LanMaxFaults /\ lanFaults' = lanFaults + 1
  /\ lanGaveUp' = TRUE /\ ipmi_lan_activate_session(LanNone)
  /\ UNCHANGED <<lanList, lanCurr, lanReq, lanRsp, lanBmc, lanGot, lanLost>>
(* ipmi_lan_recv_packet waits session->timeout seconds; a packet that is   *)
(* still on its way was too slow.                                          *)
ipmi_lan_recv_packet ==
  /\ lanAt = "recv"
  /\ \/ lanReq = <<>> /\ lanRsp = <<>> /\ UNCHANGED lanFaults
     \/ /\ lanReq # <<>> \/ lanRsp # <<>>
        /\ lanFaults < LanMaxFaults /\ lanFaults' = lanFaults + 1
  /\ LanUnanswered
  /\ UNCHANGED <<lanList, lanCurr, lanReq, lanRsp, lanBmc, lanGot, lanLost>>

(* The program asks for something over the open session, or for its end.   *)
LanProgram ==
  /\ lanAt = "idle"
  /\ \/ /\ ~lanIntf.abort /\ lanCall < LanMaxCalls
        /\ \E c \in {"user", "reset", "keepalive"} : LanBegin(c)
        /\ UNCHANGED lanIntf
     \/ ipmi_lan_close(lanIntf.abort)
  /\ UNCHANGED <<lanList, lanCurr, lanSess, lanReq, lanRsp, lanBmc, lanFaults, lanGot,
                 lanGaveUp, lanLost, lanHist>>
-----------------------------------------------------------------------------
(* The BMC, as lan.c uses it: it answers the request at the head, accepts  *)
(* or refuses it, and answers commands of a session in a session only. A   *)
(* bridged request has two answers.                                        *)
LanAnswer(q, cmd, ok, n) ==
  [kind |-> "ipmi", cmd |-> cmd, call |-> q.call, seq |-> q.seq, ok |-> ok, signed |-> q.signed,
   in_seq |-> n]

LanBmcStep ==
  /\ lanReq # <<>> /\ lanAt # "closed"
  /\ LET q == Head(lanReq) IN
     /\ lanReq' = Tail(lanReq)
     /\ \/ /\ q.cmd = "ping" /\ UNCHANGED lanBmc
           /\ lanRsp' = Append(lanRsp, [kind |-> "pong", call |-> q.call])
        \/ /\ q.cmd \notin {"ping", "authcap1", "challenge"} /\ lanBmc = "none"
           /\ UNCHANGED <<lanRsp, lanBmc>>
        \/ /\ q.cmd # "ping"
           /\ q.cmd \in {"authcap1", "challenge"} \/ lanBmc # "none"
           /\ \E ok \in BOOLEAN :
              /\ lanBmc' = CASE q.cmd = "challenge" /\ ok /\ lanBmc = "none" -> "challenged"
                             [] q.cmd = "activate" /\ ok -> "active"
                             [] q.cmd = "close" /\ ok -> "none"
                             [] OTHER -> lanBmc
              /\ \E n \in IF q.cmd = "activate" /\ ok THEN {0, LanInSeqs - 1} ELSE {0} :
                   lanRsp' = lanRsp \o
                     (IF q.bridged THEN <<LanAnswer(q, "sendmsg", ok, n)>> ELSE <<>>) \o
                     (IF q.bridged /\ ~ok THEN <<>> ELSE <<LanAnswer(q, q.cmd, ok, n)>>)
  /\ UNCHANGED <<lanAt, lanCmd, lanCall, lanTry, lanList, lanCurr, lanSess, lanIntf, lanFaults,
                 lanGot, lanGaveUp, lanLost, lanHist>>

(* The network loses the packet at the head of either queue (so does a BMC *)
(* that does not answer), or delivers an answer twice.                     *)
LanNetwork ==
  /\ lanFaults < LanMaxFaults /\ lanFaults' = lanFaults + 1
  /\ \/ lanReq # <<>> /\ lanReq' = Tail(lanReq) /\ lanLost' = TRUE /\ UNCHANGED lanRsp
     \/ lanRsp # <<>> /\ lanRsp' = Tail(lanRsp) /\ lanLost' = TRUE /\ UNCHANGED lanReq
     \/ /\ lanRsp # <<>> /\ lanRsp' = <<Head(lanRsp)>> \o lanRsp
        /\ lanLost' = (lanLost \/ Head(lanRsp).kind = "pong") /\ UNCHANGED lanReq
  /\ lanAt # "closed"
  /\ UNCHANGED <<lanAt, lanCmd, lanCall, lanTry, lanList, lanCurr, lanSess, lanIntf, lanBmc,
                 lanGot, lanGaveUp, lanHist>>
-----------------------------------------------------------------------------
LanProgramStep ==
  ipmi_lan_send_cmd \/ ipmi_lan_ping \/ ipmi_lan_poll_recv \/ LanRecvError \/ ipmi_lan_recv_packet
LanNext == ipmi_lan_open \/ LanProgramStep \/ LanProgram \/ LanBmcStep \/ LanNetwork

LanFairness == WF_lanVars(LanProgramStep) /\ WF_lanVars(LanBmcStep)
LanSpec == LanInit /\ [][LanNext]_lanVars /\ LanFairness
-----------------------------------------------------------------------------
(* While no packet was lost, no receive failed, no Send Message was        *)
(* refused and no call went unanswered, what ipmi_lan_send_cmd returns     *)
(* answers a transmission of the same call, however slow answers are and   *)
(* however often they are repeated; and in an authenticated session it is  *)
(* never the acknowledgement of the bridge.                                *)
LanRightAnswer ==
  ~lanLost /\ ~lanGaveUp => lanGot.of = lanGot.call /\ ~(lanGot.ack /\ lanGot.signed)

(* A program that ends by ipmi_lan_close after the session was activated   *)
(* has asked the BMC to close it, unless the command was a cold reset.     *)
LanClosesSession ==
  lanAt = "closed" /\ "opened" \in lanHist => "closing" \in lanHist \/ lanIntf.abort

(* Requests of one session never repeat a session sequence number and      *)
(* never fall back to 0, which the BMC takes for "no session".             *)
LanSeqAdvances ==
  \A i \in 2..Len(lanReq) :
    LET p == lanReq[i - 1] q == lanReq[i] IN
    p.cmd # "ping" /\ p.in_seq # 0 => q.in_seq # 0 /\ q.in_seq # p.in_seq
=============================================================================
