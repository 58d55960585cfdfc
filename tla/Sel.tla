-------------------------------- MODULE Sel --------------------------------
(***************************************************************************)
(* The System Event Log: ipmitool's sel commands (lib/ipmi_sel.c) and the  *)
(* daemon that watches the log (src/ipmievd.c, "ipmievd sel"), while the   *)
(* BMC adds events and others delete entries or clear the log. Every       *)
(* request is a step of its own. Events are numbered in order of arrival.  *)
(***************************************************************************)
EXTENDS Integers, Sequences, FiniteSets

CONSTANTS
  SelMaxEvents,  \* bound: events the BMC logs
  SelMaxFaults   \* bound: requests without an answer or with an error

ASSUME SelNumbers == SelMaxEvents \in Nat /\ SelMaxFaults \in Nat

VARIABLES
  selLog,     \* the BMC's log: records with an id and an event
  selIds,     \* the last record id given; restarts when the log is cleared
  selEvents,  \* events so far
  selRes,     \* the reservation: "ours", "none"
  selAt,      \* where the program is
  selArg,     \* the arguments: count of "sel list", ids of "sel delete"
  selCur,     \* next_id and curr_id, delta, second try
  selSeen,    \* events printed, in order
  selWatch,   \* selwatch_count, selwatch_lastid, and old_count
  selFaults,
  selHist     \* history: "deleted", "cleared", "fault"; how long the log was, or how many events
              \* there were, at the start; events deleted after somebody cleared the log

selVars == <<selLog, selIds, selEvents, selRes, selAt, selArg, selCur, selSeen, selWatch,
             selFaults, selHist>>

SelEnd == 65535
SelInit ==
  /\ selLog = <<>> /\ selIds = 0 /\ selEvents = 0 /\ selRes = "none" /\ selAt = "new"
  /\ selArg = [count |-> 0, ids |-> <<>>]
  /\ selCur = [next |-> 0, curr |-> 0, delta |-> 0, again |-> FALSE]
  /\ selSeen = <<>> /\ selWatch = [count |-> 0, lastid |-> 0, old |-> 0]
  /\ selFaults = 0 /\ selHist = [had |-> {}, stray |-> {}, start |-> 0]
SelHas(h) == h \in selHist.had
SelMark(h) == [selHist EXCEPT !.had = @ \cup {h}]
SelOthers == <<selLog, selIds, selEvents, selRes>>
-----------------------------------------------------------------------------
(* The BMC and other users of the log.                                     *)
SelAdd ==
  /\ selEvents < SelMaxEvents /\ selEvents' = selEvents + 1 /\ selIds' = selIds + 1
  /\ selLog' = Append(selLog, [id |-> selIds + 1, ev |-> selEvents + 1])
  /\ UNCHANGED <<selRes, selAt, selArg, selCur, selSeen, selWatch, selFaults, selHist>>
SelOther ==
  /\ selLog # <<>> /\ selAt \notin {"new", "done"} /\ selRes' = "none"
  /\ \/ /\ selLog' = Tail(selLog) /\ selHist' = SelMark("deleted") /\ UNCHANGED selIds
     \/ /\ selLog' = <<>> /\ selIds' = 0 /\ selHist' = SelMark("cleared")
  /\ UNCHANGED <<selEvents, selAt, selArg, selCur, selSeen, selWatch, selFaults>>
-----------------------------------------------------------------------------
(* Get SEL Entry: id 0 is the first, 0xffff the last; the answer gives the *)
(* id after it, 0xffff at the end. The function returns 0 without an       *)
(* answer and for an id that is not there. This is all it can return in a  *)
(* state, and whether that is a fault.                                     *)
SelIndex(id) ==
  IF selLog = <<>> THEN {}
  ELSE IF id = 0 THEN {1} ELSE IF id = SelEnd THEN {Len(selLog)}
  ELSE {i \in DOMAIN selLog : selLog[i].id = id}
SelAfter(i) == IF i = Len(selLog) THEN SelEnd ELSE selLog[i + 1].id
ipmi_sel_get_std_entry(id) ==
  {[next |-> SelAfter(i), rec |-> <<selLog[i]>>, fault |-> 0] : i \in SelIndex(id)} \cup
  (IF SelIndex(id) = {} THEN {[next |-> 0, rec |-> <<>>, fault |-> 0]} ELSE {}) \cup
  (IF selFaults < SelMaxFaults THEN {[next |-> 0, rec |-> <<>>, fault |-> 1]} ELSE {})
(* Any other request is answered, or not.                                  *)
SelRequest(ok) ==
  \/ ok /\ UNCHANGED selFaults
  \/ ~ok /\ selFaults < SelMaxFaults /\ selFaults' = selFaults + 1
-----------------------------------------------------------------------------
(* ipmi_sel_main chooses the command.                                      *)
ipmi_sel_main ==
  /\ selAt = "new"
  /\ \/ selAt' = "list_info" /\ \E n \in {0, 1, -1, -2} : selArg' = [selArg EXCEPT !.count = n]
     \/ selAt' = "delete_reserve" /\ \E i, j \in 1..SelMaxEvents : selArg' = [selArg EXCEPT !.ids = <<i, j>>]
     \/ selAt' = "clear_reserve" /\ UNCHANGED selArg
     \/ selAt' = "watch_count" /\ UNCHANGED selArg
  /\ UNCHANGED <<SelOthers, selCur, selSeen, selWatch, selFaults, selHist>>

(* __ipmi_sel_savelist_entries: an empty log ends the command; a           *)
(* reservation is taken and not used; for the last entries the first id    *)
(* and the distance to the second give where to begin.                     *)
SelListInfo ==
  /\ selAt = "list_info"
  /\ \E ok \in BOOLEAN :
     /\ SelRequest(ok)
     /\ selAt' = IF ok /\ selLog # <<>> THEN "list_reserve" ELSE "done"
  /\ UNCHANGED <<SelOthers, selArg, selCur, selSeen, selWatch, selHist>>
SelListReserve ==
  /\ selAt = "list_reserve"
  /\ \E ok \in BOOLEAN :
     /\ SelRequest(ok)
     /\ selRes' = IF ok THEN "ours" ELSE selRes
     /\ selAt' = IF ~ok THEN "done" ELSE IF selArg.count < 0 THEN "last_info" ELSE "list"
  /\ selHist' = [selHist EXCEPT !.start = IF selArg.count < 0 THEN 0 ELSE Len(selLog)]
  /\ UNCHANGED <<selLog, selIds, selEvents, selArg, selCur, selSeen, selWatch>>
SelLastInfo ==
  /\ selAt = "last_info"
  /\ \E ok \in BOOLEAN :
     /\ SelRequest(ok)
     /\ selAt' = IF ok THEN "last_first" ELSE "done"
     /\ selArg' = [selArg EXCEPT !.count = IF -@ > Len(selLog) THEN -Len(selLog) ELSE @]
  /\ UNCHANGED <<SelOthers, selCur, selSeen, selWatch, selHist>>
SelLastFirst ==
  /\ selAt = "last_first" /\ selAt' = "last_last"
  /\ \E r \in ipmi_sel_get_std_entry(0) :
     /\ selFaults' = selFaults + r.fault
     /\ selCur' = [selCur EXCEPT !.delta = r.next - IF r.rec = <<>> THEN 0 ELSE r.rec[1].id]
     /\ selHist' = IF r.rec = <<>> THEN SelMark("fault") ELSE selHist
  /\ UNCHANGED <<SelOthers, selArg, selSeen, selWatch>>
SelStartAt(id) == (id + selArg.count * selCur.delta + selCur.delta) % 65536
SelLastLast ==
  /\ selAt = "last_last" /\ selAt' = "list"
  /\ \E r \in ipmi_sel_get_std_entry(SelEnd) :
     /\ selFaults' = selFaults + r.fault
     /\ selCur' = [selCur EXCEPT !.next = SelStartAt(IF r.rec = <<>> THEN 0 ELSE r.rec[1].id)]
     /\ selHist' = [(IF r.rec = <<>> THEN SelMark("fault") ELSE selHist) EXCEPT !.start = Len(selLog)]
  /\ UNCHANGED <<SelOthers, selArg, selSeen, selWatch>>
(* The loop: print entry after entry up to the end or count; an id of 0    *)
(* is tried a second time, and then ends the listing.                      *)
SelListEntry ==
  /\ selAt = "list"
  /\ IF selCur.next = SelEnd THEN selAt' = "done" /\ UNCHANGED <<selCur, selSeen, selFaults, selHist>>
     ELSE \E r \in ipmi_sel_get_std_entry(selCur.next) :
          /\ selFaults' = selFaults + r.fault
          /\ IF r.next # 0
             THEN /\ selSeen' = selSeen \o <<r.rec[1].ev>>
                  /\ selCur' = [selCur EXCEPT !.next = r.next, !.again = FALSE]
                  /\ selAt' = IF Len(selSeen') = selArg.count THEN "done" ELSE "list"
                  /\ UNCHANGED selHist
             ELSE /\ selAt' = IF selCur.again THEN "done" ELSE "list"
                  /\ selCur' = [selCur EXCEPT !.again = TRUE]
                  /\ selHist' = SelMark("fault") /\ UNCHANGED selSeen
  /\ UNCHANGED <<SelOthers, selArg, selWatch>>

(* ipmi_sel_reserve for delete and clear.                                  *)
ipmi_sel_reserve ==
  /\ selAt \in {"delete_reserve", "clear_reserve"}
  /\ \E ok \in BOOLEAN :
     /\ SelRequest(ok)
     /\ selRes' = IF ok THEN "ours" ELSE selRes
     /\ selAt' = IF ~ok THEN "done" ELSE IF selAt = "delete_reserve" THEN "delete" ELSE "clear"
  /\ selHist' = [selHist EXCEPT !.had = {}]
  /\ UNCHANGED <<selLog, selIds, selEvents, selArg, selCur, selSeen, selWatch>>
(* ipmi_sel_delete: the ids from the last to the first, all under the one  *)
(* reservation, which the BMC cancels with every entry that goes.          *)
SelDelete(reserved) ==
  /\ selAt = "delete"
  /\ IF selArg.ids = <<>> THEN selAt' = "done" /\ UNCHANGED <<selLog, selRes, selArg, selFaults, selHist>>
     ELSE LET id == selArg.ids[Len(selArg.ids)]
              hit == IF reserved THEN SelIndex(id) ELSE {} IN
          /\ selArg' = [selArg EXCEPT !.ids = SubSeq(@, 1, Len(@) - 1)]
          /\ UNCHANGED selAt
          /\ \/ /\ hit # {} /\ selRes' = "none" /\ UNCHANGED selFaults
                /\ selLog' = SelectSeq(selLog, LAMBDA r : r.id # id)
                /\ selHist' = IF SelHas("cleared")
                              THEN [selHist EXCEPT !.stray = @ \cup {selLog[i].ev : i \in hit}] ELSE selHist
             \/ hit = {} /\ UNCHANGED <<selLog, selRes, selFaults, selHist>>
             \/ SelRequest(FALSE) /\ UNCHANGED <<selLog, selRes, selHist>>
  /\ UNCHANGED <<selIds, selEvents, selCur, selSeen, selWatch>>
(* Slip: a lost reservation is taken again.                                *)
SelReserveAgain == SelDelete(TRUE)
ipmi_sel_delete == SelDelete(selRes = "ours")
ipmi_sel_clear ==
  /\ selAt = "clear" /\ selAt' = "done"
  /\ \/ selRes = "ours" /\ selLog' = <<>> /\ selIds' = 0 /\ selRes' = "none" /\ UNCHANGED selFaults
     \/ selRes = "none" /\ UNCHANGED <<selLog, selIds, selRes, selFaults>>
     \/ SelRequest(FALSE) /\ UNCHANGED <<selLog, selIds, selRes>>
  /\ UNCHANGED <<selEvents, selArg, selCur, selSeen, selWatch, selHist>>
-----------------------------------------------------------------------------
(* ipmievd: selwatch_get_count gives 0 when the request fails.             *)
SelCount(n) ==
  \/ n = Len(selLog) /\ UNCHANGED <<selFaults, selHist>>
  \/ n = 0 /\ selFaults < SelMaxFaults /\ selFaults' = selFaults + 1 /\ selHist' = SelMark("fault")
(* selwatch_setup: the count, then the id of the last entry.               *)
selwatch_setup ==
  /\ selAt = "watch_count"
  /\ \E n \in 0..SelMaxEvents :
     /\ SelCount(n)
     /\ selWatch' = [selWatch EXCEPT !.count = n, !.lastid = 0]
     /\ selAt' = IF n = 0 THEN "watch_sleep" ELSE "watch_lastid"
     /\ selCur' = [selCur EXCEPT !.next = 0, !.curr = 0, !.again = FALSE]
  /\ UNCHANGED <<SelOthers, selArg, selSeen>>
(* selwatch_get_lastid walks to the end. The id of an entry that could not *)
(* be read twice is taken for the last.                                    *)
selwatch_get_lastid ==
  /\ selAt = "watch_lastid"
  /\ \E r \in ipmi_sel_get_std_entry(selCur.next) :
     /\ selFaults' = selFaults + r.fault
     /\ LET ends == r.next = SelEnd \/ (r.next = 0 /\ selCur.again) IN
        /\ selAt' = IF ends THEN "watch_sleep" ELSE "watch_lastid"
        /\ selWatch' = IF ends THEN [selWatch EXCEPT !.lastid = selCur.next] ELSE selWatch
        /\ selCur' = [selCur EXCEPT !.again = r.next = 0, !.next = IF r.next = 0 THEN @ ELSE r.next]
        /\ selHist' = [(IF r.next = 0 THEN SelMark("fault") ELSE selHist)
                        EXCEPT !.start = IF ends THEN selEvents ELSE @]
  /\ UNCHANGED <<SelOthers, selArg, selSeen>>
(* The log was cleared or entries were deleted.                            *)
SelShrunk(n) == n < selWatch.count
(* selwatch_check, at the end of a sleep.                                  *)
selwatch_check ==
  /\ selAt = "watch_sleep"
  /\ \E n \in 0..SelMaxEvents :
     /\ SelCount(n)
     /\ selWatch' = [selWatch EXCEPT !.count = n, !.lastid = IF n = 0 THEN 0 ELSE @]
     /\ selAt' = CASE n > selWatch.count -> "watch_read"
                   [] n # 0 /\ SelShrunk(n) -> "watch_lastid"
                   [] OTHER -> "watch_sleep"
     /\ selCur' = [selCur EXCEPT !.next = IF n > selWatch.count THEN selWatch.lastid ELSE 0, !.again = FALSE]
  /\ UNCHANGED <<SelOthers, selArg, selSeen>>
(* Slip: the entry the last round ended with is logged again.              *)
SelLogsAll(id) == TRUE
(* selwatch_read begins with the last entry it knows, which it does not    *)
(* log again, unless its id is 0, as that of a log's only entry is.        *)
SelLogged(id) == id # selWatch.lastid \/ id = 0
selwatch_read ==
  /\ selAt = "watch_read"
  /\ \E r \in ipmi_sel_get_std_entry(selCur.next) :
     /\ selFaults' = selFaults + r.fault
     /\ LET ends == r.next = SelEnd \/ (r.next = 0 /\ selCur.again) IN
        /\ selAt' = IF ends THEN "watch_sleep" ELSE "watch_read"
        /\ selWatch' = IF ends THEN [selWatch EXCEPT !.lastid = selCur.next] ELSE selWatch
        /\ selCur' = [selCur EXCEPT !.again = r.next = 0, !.next = IF r.next = 0 THEN @ ELSE r.next]
        /\ selSeen' = IF r.next # 0 /\ SelLogged(selCur.next) THEN selSeen \o <<r.rec[1].ev>> ELSE selSeen
        /\ selHist' = IF r.next = 0 THEN SelMark("fault") ELSE selHist
  /\ UNCHANGED <<SelOthers, selArg>>
-----------------------------------------------------------------------------
SelCommand == SelListInfo \/ SelListReserve \/ SelLastInfo \/ SelLastFirst \/ SelLastLast \/ SelListEntry
           \/ ipmi_sel_reserve \/ ipmi_sel_delete \/ ipmi_sel_clear
SelWatcher == selwatch_setup \/ selwatch_get_lastid \/ selwatch_check \/ selwatch_read
SelNext == ipmi_sel_main \/ SelCommand \/ SelWatcher \/ SelAdd \/ SelOther
SelFairness == WF_selVars(SelCommand \/ SelWatcher)
SelSpec == SelInit /\ [][SelNext]_selVars /\ SelFairness
-----------------------------------------------------------------------------
SelUndisturbed == selHist.had = {}
SelSeenSet == {selSeen[i] : i \in DOMAIN selSeen}
SelMin(a, b) == IF a < b THEN a ELSE b

(* "sel list" prints every entry that was there when it began, in order,   *)
(* and "sel list last N" the last N of them, with events coming in, unless *)
(* entries are deleted, the log is cleared, or a request fails.            *)
SelListComplete ==
  selAt = "done" /\ selSeen # <<>> /\ SelUndisturbed =>
    LET n == selHist.start
        from == IF selArg.count < 0 THEN n + selArg.count + 1 ELSE 1
        to == IF selArg.count > 0 THEN SelMin(n, selArg.count) ELSE n IN
    /\ \A i \in from..to : selLog[i].ev \in SelSeenSet
    /\ \A i \in 2..Len(selSeen) : selSeen[i] = selSeen[i - 1] + 1
    /\ selArg.count < 0 => selSeen[1] >= selLog[from].ev

(* The watcher misses no event that arrived after it was set up, and logs  *)
(* none twice but the first of the log, as long as the log is not cleared, *)
(* nothing is deleted and every request succeeds.                          *)
SelWatchComplete ==
  selAt = "watch_sleep" /\ SelUndisturbed =>
    \A i \in 1..selWatch.count : selLog[i].ev > selHist.start => selLog[i].ev \in SelSeenSet
SelWatchOnce ==
  selAt \in {"watch_sleep", "watch_read"} /\ SelUndisturbed =>
    \A i, j \in DOMAIN selSeen : i < j /\ selSeen[i] = selSeen[j] => selSeen[i] = selLog[1].ev

(* An event is in the log that the sleeping watcher has not counted yet,   *)
(* though nobody disturbs it.                                              *)
SelPending ==
  /\ selAt = "watch_sleep" /\ SelUndisturbed
  /\ selEvents > selHist.start /\ selEvents > selWatch.count

(* "sel delete" deletes nothing of a log that somebody cleared, and the    *)
(* BMC filled again, after the reservation: the ids are others' now.       *)
SelDeletesReserved == selHist.stray = {}
=============================================================================
