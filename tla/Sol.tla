-------------------------------- MODULE Sol --------------------------------
(***************************************************************************)
(* Serial over LAN of ipmitool: the console loop of lib/ipmi_sol.c on top  *)
(* of the acknowledged packets of src/plugins/lanplus/lanplus.c, against a *)
(* BMC with one unacknowledged packet of console output. Characters in     *)
(* either direction are numbered in the order they are produced.           *)
(***************************************************************************)
EXTENDS Naturals, Sequences

CONSTANTS
  SolRetry,      \* session->retry
  SolSeqs,       \* 0x0F, the largest SOL sequence number
  SolMaxTyped,   \* bound: characters the user types that are sent
  SolMaxConsole, \* bound: characters the BMC's console produces
  SolMaxFaults   \* bound: packets lost or too slow, errors of the socket

ASSUME SolNumbers == /\ SolRetry \in Nat \ {0} /\ SolSeqs \in Nat \ {0, 1}
                     /\ SolMaxTyped \in Nat /\ SolMaxConsole \in Nat /\ SolMaxFaults \in Nat

VARIABLES
  solAt,    \* "off", "loop", "send", "recv", "exit"
  solPay,   \* the payload send_sol works on: kind, seq, buffer, count; tries and outer tries
  solNext,  \* sol_data.sequence_number
  solLast,  \* last_received_sequence_number, last_received_byte_count
  solKeys,  \* escape_pending, last_was_cr, characters typed so far, queued break, exit asked
  solRaw,   \* _in_raw_mode
  solOut,   \* characters printed
  solNet,   \* packets to and from the BMC, faults
  solBmc,   \* last packet accepted, characters accepted, console packet, characters delivered
  solHist   \* history: "entered", "gave_up", "dropped", "deactivated", "closed", "select_failed"

solVars == <<solAt, solPay, solNext, solLast, solKeys, solRaw, solOut, solNet, solBmc, solHist>>

SolIdlePay == [kind |-> "none", seq |-> 0, buf |-> <<>>, count |-> 0, try |-> 0, outer |-> 0]
SolInit ==
  /\ solAt = "off" /\ solPay = SolIdlePay /\ solNext = 1 /\ solLast = [seq |-> 0, count |-> 0]
  /\ solKeys = [pending |-> FALSE, cr |-> TRUE, typed |-> 0, data |-> <<>>, quit |-> FALSE]
  /\ solRaw = FALSE /\ solOut = <<>> /\ solNet = [req |-> <<>>, rsp |-> <<>>, faults |-> 0]
  /\ solBmc = [last |-> 0, accepted |-> 0, got |-> <<>>, seq |-> 0, first |-> 1, upto |-> 0]
  /\ solHist = {}
-----------------------------------------------------------------------------
(* set_sol_packet_sequence_number: 1 to 15, over and over; 0 is for        *)
(* packets that only acknowledge.                                          *)
set_sol_packet_sequence_number == IF solNext > SolSeqs THEN 1 ELSE solNext

(* ipmi_lanplus_send_sol on a buffer: a new number for a new payload.      *)
SolSendSol(kind, buf, count, outer) ==
  /\ solPay' = [kind |-> kind, seq |-> set_sol_packet_sequence_number, buf |-> buf,
                count |-> count, try |-> 0, outer |-> outer]
  /\ solNext' = set_sol_packet_sequence_number + 1
  /\ solAt' = "send"

is_sol_partial_ack(rs) == solPay.count - rs.accepted
(* The characters that were not accepted move to the front of the buffer;  *)
(* behind them the buffer keeps what it held.                              *)
SolShift(k) == LET m == solPay.count - k IN
  SubSeq(solPay.buf, k + 1, solPay.count) \o SubSeq(solPay.buf, m + 1, Len(solPay.buf))

(* Slip: a packet seen before is taken as new.                             *)
SolAllIsNew(p) == p.data
(* check_sol_packet_for_new_data: of a packet seen before only what it has *)
(* more than the last time is new.                                         *)
check_sol_packet_for_new_data(p) ==
  IF p.seq = solLast.seq THEN SubSeq(p.data, solLast.count + 1, Len(p.data)) ELSE p.data
SolRemember(p) == solLast' = IF p.seq = 0 THEN solLast ELSE [seq |-> p.seq, count |-> Len(p.data)]
(* ack_sol_packet: an acknowledgement is sent once and not waited for.     *)
ack_sol_packet(p) ==
  IF p.seq = 0 THEN <<>>
  ELSE <<[seq |-> 0, data |-> <<>>, acks |-> p.seq, accepted |-> Len(p.data)]>>

(* ipmi_lanplus_recv_sol: acknowledge, then look for what is new.          *)
ipmi_lanplus_recv_sol(p) ==
  /\ solNet' = [solNet EXCEPT !.rsp = Tail(@), !.req = @ \o ack_sol_packet(p)]
  /\ SolRemember(p)
sol_response_acks_packet(p) == p.acks = solPay.seq
-----------------------------------------------------------------------------
(* ipmi_sol_activate: the payload may be refused or offered on another     *)
(* port; the loop test deactivates at once.                                *)
ipmi_sol_activate ==
  /\ solAt = "off"
  /\ \/ solAt' = "exit" /\ UNCHANGED <<solRaw, solHist>>
     \/ solAt' = "exit" /\ solHist' = {"deactivated"} /\ UNCHANGED solRaw
     \/ solAt' = "loop" /\ solRaw' = TRUE /\ solHist' = {"entered"}
  /\ UNCHANGED <<solPay, solNext, solLast, solKeys, solOut, solNet, solBmc>>

(* leave_raw_mode, and the ways out of ipmi_sol_red_pill.                  *)
SolLeave(h) == solAt' = "exit" /\ solRaw' = FALSE /\ solHist' = solHist \cup h

(* One character through the automaton of processSolUserInput. st is its   *)
(* state: escape_pending, last_was_cr, the number of characters so far,    *)
(* the characters to send, breaks sent on the way, and retval.             *)
SolKey(st, ch) ==
  LET new == [st EXCEPT !.typed = @ + 1, !.data = Append(@, st.typed + 1), !.cr = ch = "cr"]
      both == [st EXCEPT !.typed = @ + 2, !.data = @ \o <<st.typed + 1, st.typed + 2>>,
                         !.cr = ch = "cr", !.pending = FALSE] IN
  IF st.pending
  THEN CASE ch = "dot" -> [st EXCEPT !.pending = FALSE, !.quit = TRUE, !.cr = FALSE]
         [] ch = "B" -> [st EXCEPT !.pending = FALSE, !.brk = TRUE]
         [] ch = "suspend" -> [st EXCEPT !.pending = FALSE]
         [] ch = "esc" -> [new EXCEPT !.pending = FALSE]
         [] OTHER -> both
  ELSE IF st.cr /\ ch = "esc" THEN [st EXCEPT !.pending = TRUE] ELSE new

SolKeyClasses == {"x", "cr", "esc", "dot", "B", "suspend"}
SolStart == [pending |-> solKeys.pending, cr |-> solKeys.cr, typed |-> solKeys.typed,
             data |-> <<>>, brk |-> FALSE, quit |-> FALSE]

(* processSolUserInput on a buffer of keys (one, two, or the way out), up  *)
(* to the first packet: breaks go out while the buffer is looked through,  *)
(* the characters after it.                                                *)
processSolUserInput ==
  /\ solAt = "loop"
  /\ \E st \in {SolKey(SolStart, ch) : ch \in SolKeyClasses} \cup
               {SolKey(SolKey(SolStart, "x"), "x"), SolKey(SolKey(SolKey(SolStart, "cr"), "esc"), "dot")} :
     /\ st.typed <= SolMaxTyped
     /\ solKeys' = [pending |-> st.pending, cr |-> st.cr, typed |-> st.typed,
                    data |-> st.data, quit |-> st.quit]
     /\ \/ st.brk /\ SolSendSol("break", <<>>, 0, 0) /\ UNCHANGED <<solRaw, solHist>>
        \/ /\ ~st.brk /\ st.data # <<>>
           /\ SolSendSol("input", st.data, Len(st.data), 0) /\ UNCHANGED <<solRaw, solHist>>
        \/ /\ ~st.brk /\ st.data = <<>> /\ UNCHANGED <<solPay, solNext>>
           /\ IF st.quit THEN SolLeave({"deactivated"}) ELSE UNCHANGED <<solAt, solRaw, solHist>>
  /\ UNCHANGED <<solLast, solOut, solNet, solBmc>>

(* The rest of ipmi_sol_red_pill's loop: the end of stdin; console output; *)
(* the socket's end; a keepalive by an empty SOL packet; a failing         *)
(* keepalive; select's error, which leaves by return.                      *)
SolStdinEnds == solAt = "loop" /\ SolLeave({"deactivated"}) /\ UNCHANGED <<solPay, solNext, solLast,
                  solKeys, solOut, solNet, solBmc>>
SolConsole ==
  /\ solAt = "loop" /\ solNet.rsp # <<>>
  /\ LET p == Head(solNet.rsp) IN
     /\ ipmi_lanplus_recv_sol(p) /\ solOut' = solOut \o check_sol_packet_for_new_data(p)
  /\ UNCHANGED <<solAt, solPay, solNext, solKeys, solRaw, solBmc, solHist>>
SolBroken ==
  /\ solAt = "loop" /\ solNet.faults < SolMaxFaults
  /\ \/ SolLeave({"closed"})
     \/ SolLeave({"deactivated"})
     \/ solAt' = "exit" /\ solHist' = solHist \cup {"select_failed"} /\ UNCHANGED solRaw
  /\ solNet' = [solNet EXCEPT !.faults = @ + 1]
  /\ UNCHANGED <<solPay, solNext, solLast, solKeys, solOut, solBmc>>
ipmi_sol_keepalive_using_sol ==
  /\ solAt = "loop" /\ solNet.faults < SolMaxFaults
  /\ solNet' = [solNet EXCEPT !.faults = @ + 1]
  /\ SolSendSol("keepalive", <<>>, 0, 0)
  /\ UNCHANGED <<solLast, solKeys, solRaw, solOut, solBmc, solHist>>
-----------------------------------------------------------------------------
(* A packet with the payload's number. (SolRenumbered, a slip: with a      *)
(* number of its own for every transmission.)                              *)
SolRenumbered == [seq |-> (solPay.seq + solPay.try) % (SolSeqs + 1), acks |-> 0, accepted |-> 0,
                  data |-> SubSeq(solPay.buf, 1, solPay.count)]
SolPacket == [seq |-> solPay.seq, data |-> SubSeq(solPay.buf, 1, solPay.count),
              acks |-> 0, accepted |-> 0]
(* Transmission in ipmi_lanplus_send_payload; a retransmission keeps the   *)
(* number.                                                                 *)
SolTransmit ==
  /\ solAt = "send" /\ solAt' = "recv" /\ solNet' = [solNet EXCEPT !.req = Append(@, SolPacket)]
  /\ UNCHANGED <<solPay, solNext, solLast, solKeys, solRaw, solOut, solBmc, solHist>>

(* Back in the console loop, or out of it.                                 *)
SolDone(h) ==
  IF solKeys.quit THEN SolLeave(h \cup {"deactivated"})
  ELSE solAt' = "loop" /\ UNCHANGED solRaw /\ solHist' = solHist \cup h
(* sendBreak does not look at what send_sol returned, nor does the         *)
(* keepalive, nor the user's last input: console output that came with the *)
(* acknowledgement is gone.                                                *)
SolDrops == solPay.kind # "input" \/ solKeys.quit

(* send_sol returned an answer: after a break come the characters of the   *)
(* same buffer; otherwise back to the loop.                                *)
SolAnswered(h) ==
  IF solPay.kind = "break" /\ solKeys.data # <<>>
  THEN /\ SolSendSol("input", solKeys.data, Len(solKeys.data), 0)
       /\ UNCHANGED solRaw /\ solHist' = solHist \cup h
  ELSE SolDone(h) /\ UNCHANGED <<solPay, solNext>>

(* send_sol returned none: processSolUserInput sends the buffer again, in  *)
(* full and under a new number, and after the last try takes the session   *)
(* for closed.                                                             *)
SolUnanswered ==
  IF solPay.kind # "input" THEN SolAnswered({"gave_up"})
  ELSE IF solPay.outer + 1 < SolRetry
  THEN /\ SolSendSol("input", solPay.buf, Len(solPay.buf), solPay.outer + 1)
       /\ UNCHANGED solRaw /\ solHist' = solHist \cup {"gave_up"}
  ELSE SolLeave({"gave_up", "closed"}) /\ UNCHANGED <<solPay, solNext>>

(* The loop of ipmi_lanplus_send_payload on a packet: an acknowledgement   *)
(* ends it; a partial one makes send_sol go on with the rest, unless it is *)
(* a nack. Other packets are printed and cost a try; the last one is       *)
(* returned as if it were the answer.                                      *)
SolReceive ==
  /\ solAt = "recv" /\ solNet.rsp # <<>>
  /\ LET p == Head(solNet.rsp)
         new == check_sol_packet_for_new_data(p) IN
     /\ ipmi_lanplus_recv_sol(p)
     /\ solOut' = IF sol_response_acks_packet(p) /\ (p.nack \/ is_sol_partial_ack(p) = 0) /\ SolDrops THEN solOut
                  ELSE solOut \o new
     /\ \/ /\ sol_response_acks_packet(p) /\ ~p.nack /\ is_sol_partial_ack(p) > 0
           /\ SolSendSol(solPay.kind, SolShift(p.accepted), is_sol_partial_ack(p), solPay.outer)
           /\ UNCHANGED <<solRaw, solHist>>
        \/ /\ sol_response_acks_packet(p) /\ (p.nack \/ is_sol_partial_ack(p) = 0)
           /\ SolAnswered({h \in {"dropped", "gave_up"} :
                            IF h = "gave_up" THEN p.nack ELSE SolDrops /\ new # <<>>})
        \/ /\ ~sol_response_acks_packet(p) /\ solPay.try + 1 < SolRetry
           /\ solPay' = [solPay EXCEPT !.try = @ + 1]
           /\ UNCHANGED <<solAt, solNext, solRaw, solHist>>
        \/ /\ ~sol_response_acks_packet(p) /\ solPay.try + 1 >= SolRetry
           /\ SolAnswered({"gave_up"})
  /\ UNCHANGED <<solKeys, solBmc>>

(* Nothing came in time.                                                   *)
SolTimeout ==
  /\ solAt = "recv"
  /\ \/ solNet.req = <<>> /\ solNet.rsp = <<>> /\ UNCHANGED solNet
     \/ solNet.faults < SolMaxFaults /\ solNet' = [solNet EXCEPT !.faults = @ + 1]
  /\ IF solPay.try + 1 < SolRetry
     THEN /\ solPay' = [solPay EXCEPT !.try = @ + 1] /\ solAt' = "send"
          /\ UNCHANGED <<solNext, solRaw, solHist>>
     ELSE SolUnanswered
  /\ UNCHANGED <<solLast, solKeys, solOut, solBmc>>
-----------------------------------------------------------------------------
(* The BMC, as the client uses it. It accepts characters of a packet with  *)
(* a new number, all or some of them, or none with a nack, and repeats its *)
(* answer to one it has; its answer may carry console output.              *)
SolChars(a, b) == [i \in 1..(IF b < a THEN 0 ELSE b - a + 1) |-> a + i - 1]
SolConsoleSeq(n) == IF n >= SolSeqs THEN 1 ELSE n + 1
(* The console packet in flight, or a new one with the next character.     *)
SolOutputs(b) ==
  IF b.upto >= b.first THEN {b}
  ELSE {b} \cup (IF b.upto < SolMaxConsole
                 THEN {[b EXCEPT !.seq = SolConsoleSeq(@), !.upto = @ + 1]} ELSE {})
SolWith(b, acks, k, nack) ==
  IF b.upto >= b.first
  THEN [seq |-> b.seq, data |-> SolChars(b.first, b.upto), acks |-> acks, accepted |-> k, nack |-> nack]
  ELSE [seq |-> 0, data |-> <<>>, acks |-> acks, accepted |-> k, nack |-> nack]
SolBmcTakes ==
  /\ solNet.req # <<>> /\ solAt # "exit"
  /\ LET q == Head(solNet.req) IN
     \/ /\ q.seq = 0
        /\ solBmc' = IF q.acks = solBmc.seq /\ q.accepted = solBmc.upto - solBmc.first + 1
                     THEN [solBmc EXCEPT !.first = solBmc.upto + 1] ELSE solBmc
        /\ solNet' = [solNet EXCEPT !.req = Tail(@)]
     \/ /\ q.seq # 0 /\ q.seq = solBmc.last
        /\ solBmc' = solBmc
        /\ solNet' = [solNet EXCEPT !.req = Tail(@),
                        !.rsp = Append(@, SolWith(solBmc, q.seq, solBmc.accepted, FALSE))]
     \/ /\ q.seq # 0 /\ q.seq # solBmc.last
        /\ \E k \in 0..Len(q.data), nack \in BOOLEAN, b \in SolOutputs(solBmc) :
           /\ k = 0 <=> (q.data = <<>> \/ nack)
           /\ solBmc' = [b EXCEPT !.last = q.seq, !.accepted = k, !.got = @ \o SubSeq(q.data, 1, k)]
           /\ solNet' = [solNet EXCEPT !.req = Tail(@), !.rsp = Append(@, SolWith(b, q.seq, k, nack))]
  /\ UNCHANGED <<solAt, solPay, solNext, solLast, solKeys, solRaw, solOut, solHist>>

(* Console output on its own: a new packet, or the one that was not        *)
(* acknowledged, again or with a character more.                           *)
SolBmcPrints ==
  /\ solAt \notin {"off", "exit"} /\ solNet.rsp = <<>> /\ solNet.req = <<>>
  /\ \E b \in SolOutputs(solBmc) \cup
              (IF solBmc.upto >= solBmc.first /\ solBmc.upto < SolMaxConsole
               THEN {[solBmc EXCEPT !.upto = @ + 1]} ELSE {}) :
     /\ b.upto >= b.first
     /\ solBmc' = b /\ solNet' = [solNet EXCEPT !.rsp = <<SolWith(b, 0, 0, FALSE)>>]
  /\ UNCHANGED <<solAt, solPay, solNext, solLast, solKeys, solRaw, solOut, solHist>>

SolNetwork ==
  /\ solNet.faults < SolMaxFaults /\ solAt \notin {"off", "exit"}
  /\ \/ solNet.req # <<>> /\ solNet' = [solNet EXCEPT !.faults = @ + 1, !.req = Tail(@)]
     \/ solNet.rsp # <<>> /\ solNet' = [solNet EXCEPT !.faults = @ + 1, !.rsp = Tail(@)]
  /\ UNCHANGED <<solAt, solPay, solNext, solLast, solKeys, solRaw, solOut, solBmc, solHist>>
-----------------------------------------------------------------------------
SolSendStep == SolTransmit \/ SolReceive \/ SolTimeout
SolNextStep == ipmi_sol_activate \/ processSolUserInput \/ SolStdinEnds \/ SolConsole \/ SolBroken
            \/ ipmi_sol_keepalive_using_sol \/ SolSendStep \/ SolBmcTakes \/ SolBmcPrints \/ SolNetwork
SolFairness == WF_solVars(SolSendStep) /\ WF_solVars(SolBmcTakes)
SolSpec == SolInit /\ [][SolNextStep]_solVars /\ SolFairness
-----------------------------------------------------------------------------
(* Console output is printed in order and no character twice, however      *)
(* often the BMC repeats a packet and whichever function receives it.      *)
SolConsoleOnce == \A i \in 1..(Len(solOut) - 1) : solOut[i] < solOut[i + 1]

(* What the BMC was told is printed: an acknowledged character was given   *)
(* to the user, unless it came with the acknowledgement of a break or of a *)
(* keepalive.                                                              *)
SolConsoleComplete ==
  solAt \in {"loop", "send"} /\ "dropped" \notin solHist =>
    \A c \in 1..(solBmc.first - 1) : \E i \in DOMAIN solOut : solOut[i] = c

(* The BMC accepts what was typed, in order, each character once, as long  *)
(* as ipmi_lanplus_send_payload ends with an acknowledgement.              *)
SolInputExact ==
  "gave_up" \notin solHist => \A i \in DOMAIN solBmc.got : solBmc.got[i] = i

(* The terminal is restored and the payload deactivated whichever way the  *)
(* loop ends, except for an error of select and for a session the BMC has  *)
(* closed.                                                                 *)
SolLeavesClean ==
  solAt = "exit" /\ "entered" \in solHist =>
    \/ "select_failed" \in solHist
    \/ ~solRaw /\ solHist \cap {"deactivated", "closed"} # {}
=============================================================================
