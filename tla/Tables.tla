------------------------------- MODULE Tables -------------------------------
(***************************************************************************)
(* The commands of ipmitool that read a table of the management controller *)
(* entry by entry: user list, channel getaccess, channel getciphers,       *)
(* session info all, pef policy, pef list and lan alert print. Each stops  *)
(* at the size some answer gave and treats a missing answer in its own     *)
(* way, while the entries may change between two requests.                 *)
(***************************************************************************)
EXTENDS Integers, Sequences, FiniteSets

CONSTANTS
  TbSlots,       \* entries of the table
  TbOem,         \* the version of an entry that is an OEM record of the cipher suites
  TbMaxChanges,  \* bound: changes of entries
  TbMaxFaults    \* bound: requests without an answer, or with an error

ASSUME TbNumbers == TbSlots \in Nat \ {0} /\ TbOem \in Nat \ {0} /\ TbMaxChanges \in Nat /\ TbMaxFaults \in Nat

VARIABLES
  tb,         \* the command: kind, at, id, bound, first, kept, shown, rc
  tbRow,      \* version of each entry, 0 when it is not in use
  tbChanged,  \* history: entries changed since the start
  tbHurt,     \* history: entries, or 0 for the size, some request of which failed
  tbChanges, tbFaults

tbVars == <<tb, tbRow, tbChanged, tbHurt, tbChanges, tbFaults>>

TbKinds == {"users", "access", "ciphers", "sessions", "policies", "filters", "alerts"}
(* An entry is read in two parts by "users", "access" and "alerts".        *)
TbA(v) == v
TbB(v) == 10 + v

TbInit ==
  /\ tb = [kind |-> "none", at |-> "new", id |-> 1, bound |-> 0, first |-> 0, kept |-> <<>>, shown |-> <<>>, rc |-> 0]
  /\ tbRow = [i \in 1..TbSlots |-> IF i = 2 THEN 0 ELSE 1]
  /\ tbChanged = {} /\ tbHurt = {} /\ tbChanges = 0 /\ tbFaults = 0
-----------------------------------------------------------------------------
TbEnd(t, rc) == [t EXCEPT !.at = "done", !.rc = rc]
TbShow(t, a, b) == [t EXCEPT !.shown = Append(@, [id |-> t.id, a |-> a, b |-> b])]
(* The next entry while it is within the size. Slip: the last is left out. *)
TbNextShort(t) == IF t.id + 1 < t.bound THEN [t EXCEPT !.id = @ + 1, !.at = "first"] ELSE TbEnd(t, 0)
TbNext(t) == IF t.id + 1 <= t.bound THEN [t EXCEPT !.id = @ + 1, !.at = "first"] ELSE TbEnd(t, 0)
TbSized(t) == [t EXCEPT !.bound = TbSlots]

(* ipmi_get_user_access and ipmi_get_user_name of ipmi_user.c. An unknown  *)
(* name is an empty one.                                                   *)
ipmi_get_user_name(t, r) == IF r = "unknown" THEN TbB(0) ELSE TbB(tbRow[t.id])
(* ipmi_print_user_list: the size is that of the latest answer; users with *)
(* no access and no name are left out.                                     *)
ipmi_print_user_list(t, r) ==
  IF r = "fail" \/ (r = "unknown" /\ t.at = "first") THEN TbEnd(t, -1)
  ELSE IF t.at = "first" THEN [TbSized(t) EXCEPT !.at = "second", !.first = TbA(tbRow[t.id])]
  ELSE LET name == ipmi_get_user_name(t, r) IN
       TbNext(IF t.first = TbA(0) /\ name = TbB(0) THEN t ELSE TbShow(t, t.first, name))
(* ipmi_get_user_access of ipmi_channel.c: the size is that of the first.  *)
ipmi_get_user_access(t, r) ==
  IF r # "ok" THEN TbEnd(t, -1)
  ELSE IF t.at = "first" THEN [t EXCEPT !.at = "second", !.first = TbA(tbRow[t.id]), !.bound = IF @ = 0 THEN TbSlots ELSE @]
  ELSE TbNext(TbShow(t, t.first, TbB(tbRow[t.id])))
ipmi_get_session_info(t, r) ==
  IF r # "ok" THEN TbEnd(t, -1) ELSE TbNext(TbShow(TbSized(t), TbA(tbRow[t.id]), TbB(tbRow[t.id])))
(* ipmi_get_channel_cipher_suites collects the list in pieces until one is *)
(* not full, then reads its records. The test for an OEM record looks at   *)
(* the byte behind its start: such a record ends the command with an error.*)
TbRecords(t) ==
  LET more(u) == IF t.id < Len(t.kept) THEN [u EXCEPT !.id = @ + 1] ELSE TbEnd(u, 0)
  IN CASE t.kept[t.id] = TbOem -> TbEnd(t, -1)
       [] t.kept[t.id] = 0 -> more(t)
       [] OTHER -> more(TbShow(t, TbA(t.kept[t.id]), TbB(t.kept[t.id])))
ipmi_get_channel_cipher_suites(t, r) ==
  IF r # "ok" THEN TbEnd(t, -1)
  ELSE LET u == [t EXCEPT !.kept = Append(@, tbRow[t.id])] IN
       IF t.id < TbSlots THEN [u EXCEPT !.id = @ + 1] ELSE [u EXCEPT !.at = "records", !.id = 1]

(* ipmi_pef_get_policy_table: all entries or none; the enabled ones count. *)
TbListed(t) == IF t.kept = <<>> THEN TbEnd(t, 0) ELSE [t EXCEPT !.at = "channel", !.id = Head(t.kept).id]
ipmi_pef_get_policy_table(t, r) ==
  IF r # "ok" THEN TbEnd([t EXCEPT !.kept = <<>>], 0)
  ELSE IF t.at = "size" THEN [TbSized(t) EXCEPT !.at = "first"]
  ELSE LET u == IF tbRow[t.id] = 0 THEN t ELSE [t EXCEPT !.kept = Append(@, [id |-> t.id, v |-> tbRow[t.id]])] IN
       IF t.id < t.bound THEN [u EXCEPT !.id = @ + 1] ELSE TbListed(u)
(* ipmi_pef_list_policies: without its channel an entry is shown in part.  *)
ipmi_pef_list_policies(t, r) ==
  IF r # "ok" THEN TbListed([TbShow(t, TbA(Head(t.kept).v), 0) EXCEPT !.kept = Tail(@)]) ELSE [t EXCEPT !.at = "dest"]
ipmi_pef_print_lan_dest(t, r) ==
  TbListed([TbShow(t, TbA(Head(t.kept).v), IF r = "ok" THEN TbB(Head(t.kept).v) ELSE 0) EXCEPT !.kept = Tail(@)])
(* ipmi_pef_list_entries goes on with the next entry after an error.       *)
ipmi_pef_list_entries(t, r) ==
  IF t.at = "size" THEN (IF r = "ok" THEN [TbSized(t) EXCEPT !.at = "first"] ELSE TbEnd(t, 0))
  ELSE TbNext(IF r = "ok" THEN TbShow(t, TbA(tbRow[t.id]), TbB(tbRow[t.id])) ELSE t)
(* ipmi_lan_alert_print: both answers are kept in one static buffer, so    *)
(* that the type shown is taken from the bytes of the address.             *)
ipmi_lan_alert_print(t, r) ==
  IF t.at = "first" THEN [t EXCEPT !.at = "second", !.first = IF r = "ok" THEN 1 ELSE 0]
  ELSE TbNext(IF r = "ok" /\ t.first = 1 THEN TbShow(t, TbB(tbRow[t.id]), TbB(tbRow[t.id])) ELSE t)
ipmi_lan_alert_print_all(t, r) ==
  IF t.at = "size" THEN (IF r = "ok" THEN [TbSized(t) EXCEPT !.at = "first"] ELSE TbEnd(t, -1))
  ELSE ipmi_lan_alert_print(t, r)
-----------------------------------------------------------------------------
TbThen(t, r) ==
  CASE t.kind = "users" -> ipmi_print_user_list(t, r)
    [] t.kind = "access" -> ipmi_get_user_access(t, r)
    [] t.kind = "ciphers" -> ipmi_get_channel_cipher_suites(t, r)
    [] t.kind = "sessions" -> ipmi_get_session_info(t, r)
    [] t.kind = "filters" -> ipmi_pef_list_entries(t, r)
    [] t.kind = "alerts" -> ipmi_lan_alert_print_all(t, r)
    [] OTHER -> CASE t.at = "channel" -> ipmi_pef_list_policies(t, r)
                  [] t.at = "dest" -> ipmi_pef_print_lan_dest(t, r)
                  [] OTHER -> ipmi_pef_get_policy_table(t, r)

TbStart ==
  /\ tb.at = "new" /\ UNCHANGED <<tbRow, tbChanged, tbHurt, tbChanges, tbFaults>>
  /\ \E k \in TbKinds :
       tb' = [tb EXCEPT !.kind = k, !.at = IF k \in {"policies", "filters", "alerts"} THEN "size" ELSE "first"]
TbAsks == tb.at \notin {"new", "records", "done"}
TbAnswered ==
  /\ TbAsks /\ tb' = TbThen(tb, "ok") /\ UNCHANGED <<tbRow, tbChanged, tbHurt, tbChanges, tbFaults>>
TbRead == tb.at = "records" /\ tb' = TbRecords(tb) /\ UNCHANGED <<tbRow, tbChanged, tbHurt, tbChanges, tbFaults>>
TbFailed(r) ==
  /\ TbAsks /\ tbFaults < TbMaxFaults /\ tbFaults' = tbFaults + 1
  /\ tb' = TbThen(tb, r) /\ tbHurt' = tbHurt \cup {IF tb.at = "size" THEN 0 ELSE tb.id}
  /\ UNCHANGED <<tbRow, tbChanged, tbChanges>>
(* Another process, or the controller itself, changes an entry.            *)
TbChange(i, v) ==
  /\ tb.at \notin {"new", "done"} /\ tbChanges < TbMaxChanges /\ tbChanges' = tbChanges + 1
  /\ v # tbRow[i] /\ tbRow' = [tbRow EXCEPT ![i] = v] /\ tbChanged' = tbChanged \cup {i}
  /\ UNCHANGED <<tb, tbHurt, tbFaults>>

TbNextStep ==
  \/ TbStart \/ TbAnswered \/ TbRead
  \/ \E r \in {"fail", "unknown"} : TbFailed(r)
  \/ \E i \in 1..TbSlots, v \in 0..TbOem : TbChange(i, v)
TbFairness == WF_tbVars(TbStart \/ TbAnswered \/ TbRead)
TbSpec == TbInit /\ [][TbNextStep]_tbVars /\ TbFairness
-----------------------------------------------------------------------------
TbRowsOf(i) == {n \in DOMAIN tb.shown : tb.shown[n].id = i}
TbLists(i) == tb.kind \in {"access", "sessions", "filters", "alerts"} \/ tbRow[i] # 0

(* A command that returns 0 has listed, once and truly, every entry that   *)
(* was there all the time and could be read: the sizes the code stops at,  *)
(* which it takes from different answers, never leave one out. "lan alert  *)
(* print" shows a wrong type, and "pef policy" nothing at all when one     *)
(* entry of its table could not be read.                                   *)
TbListTrue ==
  tb.at = "done" /\ tb.rc = 0 /\ 0 \notin tbHurt /\ ~(tb.kind = "policies" /\ tb.shown = <<>> /\ tbHurt # {}) =>
    \A i \in (1..TbSlots) \ (tbChanged \cup tbHurt) :
      /\ Cardinality(TbRowsOf(i)) = IF TbLists(i) THEN 1 ELSE 0
      /\ \A n \in TbRowsOf(i) : tb.kind = "alerts" \/ (tb.shown[n].a = TbA(tbRow[i]) /\ tb.shown[n].b = TbB(tbRow[i]))
=============================================================================
