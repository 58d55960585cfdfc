--------------------------- MODULE ListingProofs ----------------------------
(***************************************************************************)
(* Theorems about the commands of ipmitool that list what a BMC keeps, for *)
(* tables and repositories of any size, whatever changes meanwhile and     *)
(* whichever requests fail: listings of tables (TbInv) and sensor data     *)
(* records (SdrInv). CommandsProofs has the other commands.                *)
(***************************************************************************)
EXTENDS Commands, FiniteSetTheorems, TLAPS

(* Only the command that was called moves, and by its own steps.           *)
LEMMA ListingMoves ==
  [CmdNext]_cmdVars => [SdrNext]_sdrVars /\ [TbNextStep]_tbVars
<1>1. CASE UNCHANGED cmdVars
  BY <1>1 DEF cmdVars
<1>2. CASE CmdNext
  BY <1>2, Zenon DEF CmdNext, ipmi_cmd_run, CmdSel, CmdSdr, CmdHpm, CmdFru, CmdFw, CmdSn, CmdCf, CmdTb
<1> QED
  BY <1>1, <1>2

-----------------------------------------------------------------------------
(* Listings. The rows of a list are of entries up to m, in order, right    *)
(* where the entry could be read and stayed as it was (is not in X), and   *)
(* no such entry that is due is missing.                                   *)
TbDue(kind, v) == kind \in {"access", "sessions", "filters", "alerts"} \/ v # 0
TbSoFar(kind, shown, row, X, m) ==
  /\ \A n \in DOMAIN shown : shown[n].id <= m
  /\ \A n1, n2 \in DOMAIN shown : n1 < n2 => shown[n1].id < shown[n2].id
  /\ \A n \in DOMAIN shown : shown[n].id \notin X =>
       /\ TbDue(kind, row[shown[n].id])
       /\ kind = "alerts" \/ (shown[n].a = TbA(row[shown[n].id]) /\ shown[n].b = TbB(row[shown[n].id]))
  /\ \A i \in (1..m) \ X : TbDue(kind, row[i]) => \E n \in DOMAIN shown : shown[n].id = i
(* The pieces of the cipher suites, and the policies kept from lo to hi.   *)
TbCollected(kept, row, X, m) ==
  kept \in Seq(Nat) /\ Len(kept) = m /\ \A i \in (1..m) \ X : kept[i] = row[i]
TbPolicies == [id : 1..TbSlots, v : Nat]
TbPicked(kept, row, X, lo, hi) ==
  /\ kept \in Seq(TbPolicies)
  /\ \A n \in DOMAIN kept : lo <= kept[n].id /\ kept[n].id <= hi
  /\ \A n1, n2 \in DOMAIN kept : n1 < n2 => kept[n1].id < kept[n2].id
  /\ \A n \in DOMAIN kept : kept[n].id \notin X => kept[n].v = row[kept[n].id] /\ kept[n].v # 0
  /\ \A i \in (lo..hi) \ X : row[i] # 0 => \E n \in DOMAIN kept : kept[n].id = i

TbSteps == {"new", "size", "first", "second", "records", "channel", "dest", "done"}
TbRows == [id : 1..TbSlots, a : Nat, b : Nat]
TbStates ==
  [kind : TbKinds \cup {"none"}, at : TbSteps, id : 1..TbSlots, bound : {0, TbSlots}, first : Nat,
   kept : Seq(Nat) \cup Seq(TbPolicies), shown : Seq(TbRows), rc : {0, -1}]
TbTwoParts == {"users", "access", "alerts"}
TbWithSize == {"policies", "filters", "alerts"}

(* What holds at each step: how far the list is right, and what is kept    *)
(* of the answers for the rest of it. H are the failed requests.           *)
TbAtFirst(t, row, X) ==
  CASE t.kind = "ciphers" -> t.shown = <<>> /\ TbCollected(t.kept, row, X, t.id - 1)
    [] t.kind = "policies" -> t.shown = <<>> /\ TbPicked(t.kept, row, X, 1, t.id - 1)
    [] OTHER -> TbSoFar(t.kind, t.shown, row, X, t.id - 1)
TbStageOf(t, row, X) ==
  /\ t.at \in {"new", "size"} => t.id = 1 /\ t.shown = <<>> /\ t.kept = <<>>
  /\ t.at = "new" <=> t.kind = "none"
  /\ t.at = "size" => t.kind \in TbWithSize
  /\ t.at = "first" => TbAtFirst(t, row, X) /\ (t.kind \in TbWithSize => t.bound = TbSlots)
  /\ t.at = "second" =>
       /\ t.kind \in TbTwoParts /\ t.bound = TbSlots /\ TbSoFar(t.kind, t.shown, row, X, t.id - 1)
       /\ t.id \notin X => t.first = IF t.kind = "alerts" THEN 1 ELSE TbA(row[t.id])
  /\ t.at = "records" =>
       t.kind = "ciphers" /\ TbCollected(t.kept, row, X, TbSlots) /\ TbSoFar(t.kind, t.shown, row, X, t.id - 1)
  /\ t.at \in {"channel", "dest"} =>
       /\ t.kind = "policies" /\ t.kept # <<>> /\ t.id = Head(t.kept).id
       /\ TbPicked(t.kept, row, X, t.id, TbSlots) /\ TbSoFar(t.kind, t.shown, row, X, t.id - 1)
TbComplete(t, row, X, H) ==
  t.at = "done" /\ t.rc = 0 /\ 0 \notin H /\ ~(t.kind = "policies" /\ t.shown = <<>> /\ H # {}) =>
    TbSoFar(t.kind, t.shown, row, X, TbSlots)
TbHolds(t, row, X, H) == t \in TbStates /\ TbStageOf(t, row, X) /\ TbComplete(t, row, X, H)
TbInv ==
  /\ tbRow \in [1..TbSlots -> Nat] /\ tbChanged \subseteq 1..TbSlots
  /\ TbHolds(tb, tbRow, tbChanged \cup tbHurt, tbHurt)

LEMMA TbRowIds ==
  ASSUME NEW shown \in Seq(TbRows)
  PROVE  \A n \in DOMAIN shown : shown[n].id \in 1..TbSlots
<1>1. \A n \in DOMAIN shown : shown[n] \in TbRows
  OBVIOUS
<1> QED BY <1>1 DEF TbRows
LEMMA TbPolicyIds ==
  ASSUME NEW kept \in Seq(TbPolicies)
  PROVE  \A n \in DOMAIN kept : kept[n].id \in 1..TbSlots /\ kept[n].v \in Nat
<1>1. \A n \in DOMAIN kept : kept[n] \in TbPolicies
  OBVIOUS
<1> QED BY <1>1 DEF TbPolicies

LEMMA TbShowRight ==
  ASSUME NEW kind, NEW shown \in Seq(TbRows), NEW row, NEW X, NEW id \in 1..TbSlots, NEW a \in Nat, NEW b \in Nat,
         TbSoFar(kind, shown, row, X, id - 1),
         id \notin X => TbDue(kind, row[id]) /\ (kind = "alerts" \/ (a = TbA(row[id]) /\ b = TbB(row[id])))
  PROVE  /\ Append(shown, [id |-> id, a |-> a, b |-> b]) \in Seq(TbRows)
         /\ TbSoFar(kind, Append(shown, [id |-> id, a |-> a, b |-> b]), row, X, id)
<1> DEFINE e == [id |-> id, a |-> a, b |-> b]
           s == Append(shown, e)
           k == Len(shown) + 1
<1>1. e \in TbRows /\ e.id = id /\ e.a = a /\ e.b = b
  BY DEF TbRows
<1> HIDE DEF e
<1>2. s \in Seq(TbRows) /\ Len(shown) \in Nat /\ DOMAIN s = 1..k /\ s[k] = e /\ DOMAIN shown = 1..Len(shown)
      /\ \A n \in DOMAIN shown : s[n] = shown[n]
  BY <1>1
<1>3. \A n \in DOMAIN s : n = k \/ n \in DOMAIN shown
  BY <1>2
<1>4. \A n \in DOMAIN shown : shown[n].id \in Int /\ shown[n].id <= id - 1
  BY TbRowIds DEF TbSoFar
<1> HIDE DEF s, k
<1>5. \A n \in DOMAIN s : s[n].id <= id
  BY <1>1, <1>2, <1>3, <1>4
<1>6. \A n1, n2 \in DOMAIN s : n1 < n2 => s[n1].id < s[n2].id
  <2> SUFFICES ASSUME NEW n1 \in DOMAIN s, NEW n2 \in DOMAIN s, n1 < n2 PROVE s[n1].id < s[n2].id
    OBVIOUS
  <2>1. n1 \in DOMAIN shown
    BY <1>2, <1>3 DEF k
  <2>2. CASE n2 = k
    BY <2>1, <2>2, <1>1, <1>2, <1>4
  <2>3. CASE n2 \in DOMAIN shown
    BY <2>1, <2>3, <1>2 DEF TbSoFar
  <2> QED BY <2>2, <2>3, <1>3
<1>7. \A n \in DOMAIN s : s[n].id \notin X =>
        /\ TbDue(kind, row[s[n].id])
        /\ kind = "alerts" \/ (s[n].a = TbA(row[s[n].id]) /\ s[n].b = TbB(row[s[n].id]))
  <2> SUFFICES ASSUME NEW n \in DOMAIN s, s[n].id \notin X
               PROVE  /\ TbDue(kind, row[s[n].id])
                      /\ kind = "alerts" \/ (s[n].a = TbA(row[s[n].id]) /\ s[n].b = TbB(row[s[n].id]))
    OBVIOUS
  <2>1. CASE n = k
    BY <2>1, <1>1, <1>2
  <2>2. CASE n \in DOMAIN shown
    BY <2>2, <1>2 DEF TbSoFar
  <2> QED BY <2>1, <2>2, <1>3
<1>8. \A i \in (1..id) \ X : TbDue(kind, row[i]) => \E n \in DOMAIN s : s[n].id = i
  <2> SUFFICES ASSUME NEW i \in (1..id) \ X, TbDue(kind, row[i]) PROVE \E n \in DOMAIN s : s[n].id = i
    OBVIOUS
  <2>1. CASE i = id
    BY <2>1, <1>1, <1>2 DEF k
  <2>2. CASE i # id
    <3>1. i \in (1..(id - 1)) \ X
      BY <2>2
    <3>2. PICK n \in DOMAIN shown : shown[n].id = i
      BY <3>1 DEF TbSoFar
    <3>3. n \in DOMAIN s /\ s[n] = shown[n]
      BY <1>2 DEF k
    <3> QED BY <3>2, <3>3
  <2> QED BY <2>1, <2>2
<1>9. TbSoFar(kind, s, row, X, id)
  BY <1>5, <1>6, <1>7, <1>8 DEF TbSoFar
<1> QED BY <1>2, <1>9 DEF s, e

LEMMA TbSkipRight ==
  ASSUME NEW kind, NEW shown \in Seq(TbRows), NEW row, NEW X, NEW lo \in Nat, NEW hi \in Nat, lo <= hi,
         TbSoFar(kind, shown, row, X, lo),
         \A i \in ((lo + 1)..hi) \ X : ~TbDue(kind, row[i])
  PROVE  TbSoFar(kind, shown, row, X, hi)
<1>1. \A n \in DOMAIN shown : shown[n].id \in Int /\ shown[n].id <= hi
  BY TbRowIds DEF TbSoFar
<1>2. \A i \in (1..hi) \ X : TbDue(kind, row[i]) => i \in (1..lo) \ X
  OBVIOUS
<1> QED BY <1>1, <1>2 DEF TbSoFar

LEMMA TbNoneYet ==
  ASSUME NEW kind, NEW row, NEW X, NEW m \in Int, \A i \in (1..m) \ X : ~TbDue(kind, row[i])
  PROVE  TbSoFar(kind, <<>>, row, X, m)
<1>1. DOMAIN <<>> = {}
  OBVIOUS
<1> QED BY <1>1 DEF TbSoFar

(* Less is asked for as entries change or fail.                            *)
TbLess(row, X, row2, Y) == X \subseteq Y /\ \A i \in (1..TbSlots) \ Y : row2[i] = row[i]
LEMMA TbSoFarLess ==
  ASSUME NEW kind, NEW shown \in Seq(TbRows), NEW row, NEW X, NEW row2, NEW Y, NEW m \in Int, m <= TbSlots,
         TbLess(row, X, row2, Y), TbSoFar(kind, shown, row, X, m)
  PROVE  TbSoFar(kind, shown, row2, Y, m)
<1> USE TbNumbers
<1>1. \A n \in DOMAIN shown : shown[n].id \in 1..TbSlots
  BY TbRowIds
<1>2. \A n \in DOMAIN shown : shown[n].id \notin Y => shown[n].id \notin X /\ row2[shown[n].id] = row[shown[n].id]
  BY <1>1 DEF TbLess
<1>3. \A i \in (1..m) \ Y : i \in (1..m) \ X /\ row2[i] = row[i]
  BY DEF TbLess
<1> QED BY <1>2, <1>3 DEF TbSoFar
LEMMA TbCollectedLess ==
  ASSUME NEW kept, NEW row, NEW X, NEW row2, NEW Y, NEW m \in Int, m <= TbSlots,
         TbLess(row, X, row2, Y), TbCollected(kept, row, X, m)
  PROVE  TbCollected(kept, row2, Y, m)
BY TbNumbers DEF TbLess, TbCollected
LEMMA TbPickedLess ==
  ASSUME NEW kept, NEW row, NEW X, NEW row2, NEW Y, NEW lo \in Nat \ {0}, NEW hi \in Int, hi <= TbSlots,
         TbLess(row, X, row2, Y), TbPicked(kept, row, X, lo, hi)
  PROVE  TbPicked(kept, row2, Y, lo, hi)
<1> USE TbNumbers
<1>1. kept \in Seq(TbPolicies) /\ \A n \in DOMAIN kept : kept[n].id \in 1..TbSlots
  BY TbPolicyIds DEF TbPicked
<1>2. \A n \in DOMAIN kept : kept[n].id \notin Y => kept[n].id \notin X /\ row2[kept[n].id] = row[kept[n].id]
  BY <1>1 DEF TbLess
<1>3. \A i \in (lo..hi) \ Y : i \in (lo..hi) \ X /\ row2[i] = row[i]
  BY DEF TbLess
<1> QED BY <1>2, <1>3 DEF TbPicked
LEMMA TbStageLess ==
  ASSUME NEW t \in TbStates, NEW row, NEW X, NEW row2, NEW Y, TbLess(row, X, row2, Y), TbStageOf(t, row, X)
  PROVE  TbStageOf(t, row2, Y)
<1> USE TbNumbers
<1>1. t.id \in 1..TbSlots /\ t.shown \in Seq(TbRows) /\ t.id - 1 \in Int /\ t.id - 1 <= TbSlots /\ t.id \in Nat \ {0}
      /\ TbSlots \in Int /\ TbSlots <= TbSlots /\ 1 \in Nat \ {0}
  BY DEF TbStates
<1>2. TbSoFar(t.kind, t.shown, row, X, t.id - 1) => TbSoFar(t.kind, t.shown, row2, Y, t.id - 1)
  BY <1>1, TbSoFarLess
<1>3. TbCollected(t.kept, row, X, t.id - 1) => TbCollected(t.kept, row2, Y, t.id - 1)
  BY <1>1, TbCollectedLess
<1>4. TbCollected(t.kept, row, X, TbSlots) => TbCollected(t.kept, row2, Y, TbSlots)
  BY <1>1, TbCollectedLess
<1>5. TbPicked(t.kept, row, X, 1, t.id - 1) => TbPicked(t.kept, row2, Y, 1, t.id - 1)
  BY <1>1, TbPickedLess
<1>6. TbPicked(t.kept, row, X, t.id, TbSlots) => TbPicked(t.kept, row2, Y, t.id, TbSlots)
  BY <1>1, TbPickedLess
<1>7. t.id \notin Y => t.id \notin X /\ row2[t.id] = row[t.id]
  BY <1>1 DEF TbLess
<1>8. TbAtFirst(t, row, X) => TbAtFirst(t, row2, Y)
  BY <1>2, <1>3, <1>5 DEF TbAtFirst
<1> QED BY <1>2, <1>4, <1>6, <1>7, <1>8 DEF TbStageOf

LEMMA TbEndType ==
  ASSUME NEW t \in TbStates, NEW rc \in {0, -1}
  PROVE  /\ TbEnd(t, rc) \in TbStates /\ TbEnd(t, rc).at = "done" /\ TbEnd(t, rc).rc = rc
         /\ TbEnd(t, rc).kind = t.kind /\ TbEnd(t, rc).shown = t.shown
BY DEF TbEnd, TbStates, TbSteps
LEMMA TbEndFails ==
  ASSUME NEW t \in TbStates, NEW row, NEW X, NEW H, t.kind # "none"
  PROVE  TbHolds(TbEnd(t, -1), row, X, H)
BY TbEndType DEF TbHolds, TbStageOf, TbComplete
LEMMA TbEndRight ==
  ASSUME NEW t \in TbStates, NEW row, NEW X, NEW H, t.kind # "none",
         0 \notin H /\ ~(t.kind = "policies" /\ t.shown = <<>> /\ H # {}) => TbSoFar(t.kind, t.shown, row, X, TbSlots)
  PROVE  TbHolds(TbEnd(t, 0), row, X, H)
BY TbEndType DEF TbHolds, TbStageOf, TbComplete

TbOneByOne == TbKinds \ {"ciphers", "policies"}
LEMMA TbNextRight ==
  ASSUME NEW t \in TbStates, NEW row, NEW X, NEW H, t.kind \in TbOneByOne, t.bound = TbSlots,
         TbSoFar(t.kind, t.shown, row, X, t.id)
  PROVE  TbHolds(TbNext(t), row, X, H)
<1> USE TbNumbers
<1>1. t.id \in 1..TbSlots
  BY DEF TbStates
<1>2. CASE t.id + 1 <= t.bound
  <2> DEFINE u == [t EXCEPT !.id = @ + 1, !.at = "first"]
  <2>1. TbNext(t) = u
    BY <1>2 DEF TbNext
  <2>2. t.id + 1 \in 1..TbSlots /\ t.id + 1 - 1 = t.id
    BY <1>1, <1>2
  <2>3. u \in TbStates /\ u.at = "first" /\ u.id = t.id + 1 /\ u.kind = t.kind /\ u.bound = t.bound /\ u.shown = t.shown
    BY <2>2 DEF TbStates, TbSteps
  <2> HIDE DEF u
  <2>4. TbAtFirst(u, row, X)
    <3>0. u.id - 1 = t.id
      BY <1>1, <2>3
    <3>1. u.kind # "ciphers" /\ u.kind # "policies" /\ u.id - 1 = t.id
      BY <2>3, <3>0 DEF TbOneByOne
    <3>2. TbSoFar(u.kind, u.shown, row, X, u.id - 1)
      BY <2>3, <3>1
    <3> QED BY <3>1, <3>2 DEF TbAtFirst
  <2>5. TbStageOf(u, row, X) /\ TbComplete(u, row, X, H)
    BY <2>3, <2>4 DEF TbStageOf, TbComplete, TbOneByOne, TbKinds
  <2> QED BY <2>1, <2>3, <2>5 DEF TbHolds
<1>3. CASE ~(t.id + 1 <= t.bound)
  <2>1. TbNext(t) = TbEnd(t, 0) /\ t.id = TbSlots
    BY <1>1, <1>3 DEF TbNext
  <2>2. t.kind # "none"
    BY DEF TbOneByOne, TbKinds
  <2> QED BY <2>1, <2>2, TbEndRight
<1> QED BY <1>2, <1>3

(* A row is added for the entry that was read.                             *)
TbMayShow(t, row, X, a, b) ==
  /\ t \in TbStates /\ a \in Nat /\ b \in Nat /\ TbSoFar(t.kind, t.shown, row, X, t.id - 1)
  /\ t.id \notin X => TbDue(t.kind, row[t.id]) /\ (t.kind = "alerts" \/ (a = TbA(row[t.id]) /\ b = TbB(row[t.id])))
LEMMA TbShowHolds ==
  ASSUME NEW t, NEW row, NEW X, NEW a, NEW b, TbMayShow(t, row, X, a, b)
  PROVE  /\ TbShow(t, a, b) \in TbStates
         /\ TbShow(t, a, b) = [t EXCEPT !.shown = TbShow(t, a, b).shown]
         /\ TbSoFar(t.kind, TbShow(t, a, b).shown, row, X, t.id)
<1> DEFINE s == Append(t.shown, [id |-> t.id, a |-> a, b |-> b])
<1>0. t \in TbStates /\ a \in Nat /\ b \in Nat
  BY DEF TbMayShow
<1>1. t.id \in 1..TbSlots /\ t.shown \in Seq(TbRows)
  BY <1>0 DEF TbStates
<1>2. s \in Seq(TbRows) /\ TbSoFar(t.kind, s, row, X, t.id)
  BY <1>0, <1>1, TbShowRight DEF TbMayShow
<1>3. TbShow(t, a, b) = [t EXCEPT !.shown = s]
  BY DEF TbShow
<1> HIDE DEF s
<1>4. [t EXCEPT !.shown = s] \in TbStates /\ [t EXCEPT !.shown = s].shown = s
  BY <1>0, <1>2 DEF TbStates
<1> QED BY <1>2, <1>3, <1>4
LEMMA TbShowNext ==
  ASSUME NEW t \in TbStates, NEW row, NEW X, NEW H, NEW a \in Nat, NEW b \in Nat, t.kind \in TbOneByOne, t.bound = TbSlots,
         TbSoFar(t.kind, t.shown, row, X, t.id - 1),
         t.id \notin X => TbDue(t.kind, row[t.id]) /\ (t.kind = "alerts" \/ (a = TbA(row[t.id]) /\ b = TbB(row[t.id])))
  PROVE  TbHolds(TbNext(TbShow(t, a, b)), row, X, H)
<1> DEFINE u == TbShow(t, a, b)
<1>1. u \in TbStates /\ u = [t EXCEPT !.shown = u.shown] /\ TbSoFar(t.kind, u.shown, row, X, t.id)
  <2>1. TbMayShow(t, row, X, a, b)
    BY DEF TbMayShow
  <2> QED BY <2>1, TbShowHolds
<1> HIDE DEF u
<1>2. u.kind = t.kind /\ u.id = t.id /\ u.bound = t.bound
  BY <1>1 DEF TbStates
<1>3. TbHolds(TbNext(u), row, X, H)
  BY <1>1, <1>2, TbNextRight
<1> QED BY <1>3 DEF u
LEMMA TbSkipNext ==
  ASSUME NEW t \in TbStates, NEW row, NEW X, NEW H, t.kind \in TbOneByOne, t.bound = TbSlots,
         TbSoFar(t.kind, t.shown, row, X, t.id - 1), t.id \notin X => ~TbDue(t.kind, row[t.id])
  PROVE  TbHolds(TbNext(t), row, X, H)
<1>1. t.id \in 1..TbSlots /\ t.shown \in Seq(TbRows) /\ t.id - 1 \in Nat /\ t.id \in Nat /\ t.id - 1 <= t.id
  BY TbNumbers DEF TbStates
<1>2. \A i \in ((t.id - 1 + 1)..t.id) \ X : ~TbDue(t.kind, row[i])
  BY <1>1
<1>3. TbSoFar(t.kind, t.shown, row, X, t.id)
  BY <1>1, <1>2, TbSkipRight
<1> QED BY <1>3, TbNextRight

(* The answers a step may have: a failed request is noted.                 *)
TbTaken(t, row, X, H, r) ==
  /\ t \in TbStates /\ row \in [1..TbSlots -> Nat] /\ TbStageOf(t, row, X) /\ t.at \notin {"new", "records", "done"}
  /\ r \in {"ok", "fail", "unknown"}
  /\ r # "ok" => IF t.at = "size" THEN 0 \in H ELSE t.id \in X /\ t.id \in H
LEMMA TbTakenTypes ==
  ASSUME NEW t, NEW row, NEW X, NEW H, NEW r, TbTaken(t, row, X, H, r)
  PROVE  /\ t \in TbStates /\ t.id \in 1..TbSlots /\ row[t.id] \in Nat /\ TbA(row[t.id]) \in Nat /\ TbB(row[t.id]) \in Nat
         /\ TbA(0) \in Nat /\ TbB(0) \in Nat /\ t.first \in Nat /\ t.kind # "none" /\ t.kind \in TbKinds
         /\ t.shown \in Seq(TbRows) /\ TbSlots \in Nat \ {0}
BY TbNumbers DEF TbTaken, TbStates, TbA, TbB, TbStageOf

LEMMA TbUsers ==
  ASSUME NEW t, NEW X, NEW H, NEW r, TbTaken(t, tbRow, X, H, r), t.kind = "users"
  PROVE  TbHolds(ipmi_print_user_list(t, r), tbRow, X, H)
<1>1. t \in TbStates /\ t.id \in 1..TbSlots /\ tbRow[t.id] \in Nat /\ TbA(tbRow[t.id]) \in Nat /\ TbB(tbRow[t.id]) \in Nat
      /\ TbB(0) \in Nat /\ t.first \in Nat /\ t.kind # "none" /\ t.kind \in TbOneByOne
  BY TbTakenTypes DEF TbOneByOne
<1>2. t.at \in {"first", "second"} /\ TbSoFar(t.kind, t.shown, tbRow, X, t.id - 1)
  BY <1>1 DEF TbTaken, TbStageOf, TbAtFirst, TbStates, TbSteps, TbWithSize
<1>3. CASE r = "fail" \/ (r = "unknown" /\ t.at = "first")
  BY <1>1, <1>3, TbEndFails DEF ipmi_print_user_list
<1>4. CASE ~(r = "fail" \/ (r = "unknown" /\ t.at = "first")) /\ t.at = "first"
  <2> DEFINE u == [TbSized(t) EXCEPT !.at = "second", !.first = TbA(tbRow[t.id])]
  <2>1. ipmi_print_user_list(t, r) = u
    BY <1>4 DEF ipmi_print_user_list
  <2>2. u \in TbStates /\ u.at = "second" /\ u.first = TbA(tbRow[t.id]) /\ u.bound = TbSlots /\ u.kind = t.kind
        /\ u.shown = t.shown /\ u.id = t.id
    BY <1>1 DEF TbSized, TbStates, TbSteps
  <2> HIDE DEF u
  <2>3. TbStageOf(u, tbRow, X) /\ TbComplete(u, tbRow, X, H)
    BY <1>1, <1>2, <2>2 DEF TbStageOf, TbComplete, TbTwoParts
  <2> QED BY <2>1, <2>2, <2>3 DEF TbHolds
<1>5. CASE ~(r = "fail" \/ (r = "unknown" /\ t.at = "first")) /\ t.at = "second"
  <2> DEFINE name == ipmi_get_user_name(t, r)
  <2>1. name \in Nat /\ (t.id \notin X => name = TbB(tbRow[t.id]))
    BY <1>1, <1>5 DEF ipmi_get_user_name, TbTaken
  <2>2. t.bound = TbSlots /\ (t.id \notin X => t.first = TbA(tbRow[t.id]))
    BY <1>5 DEF TbTaken, TbStageOf
  <2>3. ipmi_print_user_list(t, r) = TbNext(IF t.first = TbA(0) /\ name = TbB(0) THEN t ELSE TbShow(t, t.first, name))
    BY <1>5 DEF ipmi_print_user_list
  <2> HIDE DEF name
  <2>4. CASE t.first = TbA(0) /\ name = TbB(0)
    <3>1. t.id \notin X => ~TbDue(t.kind, tbRow[t.id])
      BY <1>1, <2>2, <2>4 DEF TbDue, TbA
    <3>2. TbHolds(TbNext(t), tbRow, X, H)
      BY <1>1, <1>2, <2>2, <3>1, TbSkipNext
    <3> QED BY <2>3, <2>4, <3>2
  <2>5. CASE ~(t.first = TbA(0) /\ name = TbB(0))
    <3>1. t.id \notin X =>
            TbDue(t.kind, tbRow[t.id]) /\ (t.kind = "alerts" \/ (t.first = TbA(tbRow[t.id]) /\ name = TbB(tbRow[t.id])))
      BY <1>1, <2>1, <2>2, <2>5 DEF TbDue, TbA, TbB
    <3>2. TbHolds(TbNext(TbShow(t, t.first, name)), tbRow, X, H)
      BY <1>1, <1>2, <2>1, <2>2, <3>1, TbShowNext
    <3> QED BY <2>3, <2>5, <3>2
  <2> QED BY <2>4, <2>5
<1> QED BY <1>2, <1>3, <1>4, <1>5

LEMMA TbAccess ==
  ASSUME NEW t, NEW X, NEW H, NEW r, TbTaken(t, tbRow, X, H, r), t.kind = "access"
  PROVE  TbHolds(ipmi_get_user_access(t, r), tbRow, X, H)
<1>1. t \in TbStates /\ t.id \in 1..TbSlots /\ tbRow[t.id] \in Nat /\ TbA(tbRow[t.id]) \in Nat /\ TbB(tbRow[t.id]) \in Nat
      /\ t.first \in Nat /\ t.kind # "none" /\ t.kind \in TbOneByOne
  BY TbTakenTypes DEF TbOneByOne
<1>2. t.at \in {"first", "second"} /\ TbSoFar(t.kind, t.shown, tbRow, X, t.id - 1)
  BY <1>1 DEF TbTaken, TbStageOf, TbAtFirst, TbStates, TbSteps, TbWithSize
<1>3. CASE r # "ok"
  BY <1>1, <1>3, TbEndFails DEF ipmi_get_user_access
<1>4. CASE r = "ok" /\ t.at = "first"
  <2> DEFINE u == [t EXCEPT !.at = "second", !.first = TbA(tbRow[t.id]), !.bound = IF @ = 0 THEN TbSlots ELSE @]
  <2>1. ipmi_get_user_access(t, r) = u
    BY <1>4 DEF ipmi_get_user_access
  <2>2. u \in TbStates /\ u.at = "second" /\ u.first = TbA(tbRow[t.id]) /\ u.bound = TbSlots /\ u.kind = t.kind
        /\ u.shown = t.shown /\ u.id = t.id
    BY <1>1 DEF TbStates, TbSteps
  <2> HIDE DEF u
  <2>3. TbStageOf(u, tbRow, X) /\ TbComplete(u, tbRow, X, H)
    BY <1>1, <1>2, <2>2 DEF TbStageOf, TbComplete, TbTwoParts
  <2> QED BY <2>1, <2>2, <2>3 DEF TbHolds
<1>5. CASE r = "ok" /\ t.at = "second"
  <2>1. t.bound = TbSlots /\ (t.id \notin X => t.first = TbA(tbRow[t.id])) /\ TbDue(t.kind, tbRow[t.id])
    BY <1>5 DEF TbTaken, TbStageOf, TbDue
  <2>2. ipmi_get_user_access(t, r) = TbNext(TbShow(t, t.first, TbB(tbRow[t.id])))
    BY <1>5 DEF ipmi_get_user_access
  <2>3. TbHolds(TbNext(TbShow(t, t.first, TbB(tbRow[t.id]))), tbRow, X, H)
    BY <1>1, <1>2, <2>1, TbShowNext
  <2> QED BY <2>2, <2>3
<1> QED BY <1>2, <1>3, <1>4, <1>5

LEMMA TbSessions ==
  ASSUME NEW t, NEW X, NEW H, NEW r, TbTaken(t, tbRow, X, H, r), t.kind = "sessions"
  PROVE  TbHolds(ipmi_get_session_info(t, r), tbRow, X, H)
<1>1. t \in TbStates /\ t.id \in 1..TbSlots /\ tbRow[t.id] \in Nat /\ TbA(tbRow[t.id]) \in Nat /\ TbB(tbRow[t.id]) \in Nat
      /\ t.kind # "none" /\ t.kind \in TbOneByOne
  BY TbTakenTypes DEF TbOneByOne
<1>2. t.at = "first" /\ TbSoFar(t.kind, t.shown, tbRow, X, t.id - 1)
  BY <1>1 DEF TbTaken, TbStageOf, TbAtFirst, TbStates, TbSteps, TbWithSize, TbTwoParts
<1>3. CASE r # "ok"
  BY <1>1, <1>3, TbEndFails DEF ipmi_get_session_info
<1>4. CASE r = "ok"
  <2> DEFINE u == TbSized(t)
  <2>1. u \in TbStates /\ u.bound = TbSlots /\ u.kind = t.kind /\ u.shown = t.shown /\ u.id = t.id
    BY <1>1 DEF TbSized, TbStates
  <2>2. ipmi_get_session_info(t, r) = TbNext(TbShow(u, TbA(tbRow[t.id]), TbB(tbRow[t.id])))
    BY <1>4 DEF ipmi_get_session_info
  <2> HIDE DEF u
  <2>3. TbDue(u.kind, tbRow[u.id])
    BY <2>1 DEF TbDue
  <2>4. TbHolds(TbNext(TbShow(u, TbA(tbRow[u.id]), TbB(tbRow[u.id]))), tbRow, X, H)
    BY <1>1, <1>2, <2>1, <2>3, TbShowNext
  <2> QED BY <2>1, <2>2, <2>4
<1> QED BY <1>3, <1>4

(* The size is asked for first.                                            *)
LEMMA TbSizeTaken ==
  ASSUME NEW t, NEW X, NEW H, NEW r, TbTaken(t, tbRow, X, H, r), t.at = "size"
  PROVE  TbHolds([TbSized(t) EXCEPT !.at = "first"], tbRow, X, H)
<1> USE TbNumbers
<1>1. t \in TbStates /\ t.id = 1 /\ t.shown = <<>> /\ t.kept = <<>> /\ t.kind \in TbWithSize
  BY DEF TbTaken, TbStageOf
<1> DEFINE u == [TbSized(t) EXCEPT !.at = "first"]
<1>2. u \in TbStates /\ u.at = "first" /\ u.bound = TbSlots /\ u.kind = t.kind /\ u.shown = <<>> /\ u.kept = <<>> /\ u.id = 1
  BY <1>1 DEF TbSized, TbStates, TbSteps
<1> HIDE DEF u
<1>3. u.id - 1 \in Int /\ \A i \in (1..(u.id - 1)) \ X : ~TbDue(u.kind, tbRow[i])
  BY <1>2
<1>4. TbSoFar(u.kind, <<>>, tbRow, X, u.id - 1)
  BY <1>3, TbNoneYet
<1>5. u.kind # "ciphers"
  BY <1>1, <1>2 DEF TbWithSize
<1>6. TbPicked(u.kept, tbRow, X, 1, u.id - 1)
  BY <1>2 DEF TbPicked
<1>7. TbAtFirst(u, tbRow, X)
  BY <1>2, <1>4, <1>5, <1>6 DEF TbAtFirst
<1>8. TbStageOf(u, tbRow, X) /\ TbComplete(u, tbRow, X, H)
  BY <1>1, <1>2, <1>7 DEF TbStageOf, TbComplete, TbWithSize
<1> QED BY <1>2, <1>8 DEF TbHolds, u

LEMMA TbFilters ==
  ASSUME NEW t, NEW X, NEW H, NEW r, TbTaken(t, tbRow, X, H, r), t.kind = "filters"
  PROVE  TbHolds(ipmi_pef_list_entries(t, r), tbRow, X, H)
<1>1. t \in TbStates /\ t.id \in 1..TbSlots /\ tbRow[t.id] \in Nat /\ TbA(tbRow[t.id]) \in Nat /\ TbB(tbRow[t.id]) \in Nat
      /\ t.kind # "none" /\ t.kind \in TbOneByOne
  BY TbTakenTypes DEF TbOneByOne
<1>2. t.at \in {"size", "first"}
  BY <1>1 DEF TbTaken, TbStageOf, TbStates, TbSteps, TbTwoParts
<1>3. CASE t.at = "size" /\ r = "ok"
  BY <1>3, TbSizeTaken DEF ipmi_pef_list_entries
<1>4. CASE t.at = "size" /\ r # "ok"
  <2>1. 0 \in H /\ ipmi_pef_list_entries(t, r) = TbEnd(t, 0)
    BY <1>4 DEF TbTaken, ipmi_pef_list_entries
  <2> QED BY <1>1, <2>1, TbEndRight
<1>5. CASE t.at = "first"
  <2>1. TbSoFar(t.kind, t.shown, tbRow, X, t.id - 1) /\ t.bound = TbSlots /\ TbDue(t.kind, tbRow[t.id])
    BY <1>5 DEF TbTaken, TbStageOf, TbAtFirst, TbWithSize, TbDue
  <2>2. CASE r = "ok"
    <3>1. ipmi_pef_list_entries(t, r) = TbNext(TbShow(t, TbA(tbRow[t.id]), TbB(tbRow[t.id])))
      BY <1>5, <2>2 DEF ipmi_pef_list_entries
    <3>2. TbHolds(TbNext(TbShow(t, TbA(tbRow[t.id]), TbB(tbRow[t.id]))), tbRow, X, H)
      BY <1>1, <2>1, TbShowNext
    <3> QED BY <3>1, <3>2
  <2>3. CASE r # "ok"
    <3>1. ipmi_pef_list_entries(t, r) = TbNext(t) /\ t.id \in X
      BY <1>5, <2>3 DEF ipmi_pef_list_entries, TbTaken
    <3>2. TbHolds(TbNext(t), tbRow, X, H)
      BY <1>1, <2>1, <3>1, TbSkipNext
    <3> QED BY <3>1, <3>2
  <2> QED BY <2>2, <2>3
<1> QED BY <1>2, <1>3, <1>4, <1>5

LEMMA TbAlerts ==
  ASSUME NEW t, NEW X, NEW H, NEW r, TbTaken(t, tbRow, X, H, r), t.kind = "alerts"
  PROVE  TbHolds(ipmi_lan_alert_print_all(t, r), tbRow, X, H)
<1>1. t \in TbStates /\ t.id \in 1..TbSlots /\ tbRow[t.id] \in Nat /\ TbA(tbRow[t.id]) \in Nat /\ TbB(tbRow[t.id]) \in Nat
      /\ t.kind # "none" /\ t.kind \in TbOneByOne /\ TbDue(t.kind, tbRow[t.id])
  BY TbTakenTypes DEF TbOneByOne, TbDue
<1>2. t.at \in {"size", "first", "second"}
  BY <1>1 DEF TbTaken, TbStageOf, TbStates, TbSteps
<1>3. CASE t.at = "size" /\ r = "ok"
  BY <1>3, TbSizeTaken DEF ipmi_lan_alert_print_all
<1>4. CASE t.at = "size" /\ r # "ok"
  BY <1>1, <1>4, TbEndFails DEF ipmi_lan_alert_print_all
<1>5. CASE t.at = "first"
  <2> DEFINE v == IF r = "ok" THEN 1 ELSE 0
             u == [t EXCEPT !.at = "second", !.first = v]
  <2>1. ipmi_lan_alert_print_all(t, r) = u
    BY <1>5 DEF ipmi_lan_alert_print_all, ipmi_lan_alert_print
  <2>2. v \in Nat /\ (t.id \notin X => v = 1)
    BY <1>5 DEF TbTaken
  <2> HIDE DEF v
  <2>3. u \in TbStates /\ u.at = "second" /\ u.first = v /\ u.bound = t.bound /\ u.kind = t.kind
        /\ u.shown = t.shown /\ u.id = t.id
    BY <1>1, <2>2 DEF TbStates, TbSteps
  <2>4. TbSoFar(t.kind, t.shown, tbRow, X, t.id - 1) /\ t.bound = TbSlots
    BY <1>5 DEF TbTaken, TbStageOf, TbAtFirst, TbWithSize
  <2> HIDE DEF u
  <2>5. TbStageOf(u, tbRow, X) /\ TbComplete(u, tbRow, X, H)
    BY <1>1, <2>2, <2>3, <2>4 DEF TbStageOf, TbComplete, TbTwoParts
  <2> QED BY <2>1, <2>3, <2>5 DEF TbHolds
<1>6. CASE t.at = "second"
  <2>1. TbSoFar(t.kind, t.shown, tbRow, X, t.id - 1) /\ t.bound = TbSlots /\ (t.id \notin X => t.first = 1)
    BY <1>6 DEF TbTaken, TbStageOf
  <2>2. CASE r = "ok" /\ t.first = 1
    <3>1. ipmi_lan_alert_print_all(t, r) = TbNext(TbShow(t, TbB(tbRow[t.id]), TbB(tbRow[t.id])))
      BY <1>6, <2>2 DEF ipmi_lan_alert_print_all, ipmi_lan_alert_print
    <3>2. TbHolds(TbNext(TbShow(t, TbB(tbRow[t.id]), TbB(tbRow[t.id]))), tbRow, X, H)
      BY <1>1, <2>1, TbShowNext
    <3> QED BY <3>1, <3>2
  <2>3. CASE ~(r = "ok" /\ t.first = 1)
    <3>1. ipmi_lan_alert_print_all(t, r) = TbNext(t)
      BY <1>6, <2>3 DEF ipmi_lan_alert_print_all, ipmi_lan_alert_print
    <3>2. t.id \in X
      BY <1>6, <2>1, <2>3 DEF TbTaken
    <3>3. TbHolds(TbNext(t), tbRow, X, H)
      BY <1>1, <2>1, <3>2, TbSkipNext
    <3> QED BY <3>1, <3>3
  <2> QED BY <2>2, <2>3
<1> QED BY <1>2, <1>3, <1>4, <1>5, <1>6

LEMMA TbCiphers ==
  ASSUME NEW t, NEW X, NEW H, NEW r, TbTaken(t, tbRow, X, H, r), t.kind = "ciphers"
  PROVE  TbHolds(ipmi_get_channel_cipher_suites(t, r), tbRow, X, H)
<1>1. t \in TbStates /\ t.id \in 1..TbSlots /\ tbRow[t.id] \in Nat /\ t.kind # "none" /\ TbSlots \in Nat \ {0}
  BY TbTakenTypes
<1>2. t.at = "first"
  BY <1>1 DEF TbTaken, TbStageOf, TbStates, TbSteps, TbTwoParts, TbWithSize
<1>3. t.shown = <<>> /\ TbCollected(t.kept, tbRow, X, t.id - 1)
  BY <1>2 DEF TbTaken, TbStageOf, TbAtFirst
<1>4. CASE r # "ok"
  BY <1>1, <1>4, TbEndFails DEF ipmi_get_channel_cipher_suites
<1>5. CASE r = "ok"
  <2> DEFINE k == Append(t.kept, tbRow[t.id])
             u == [t EXCEPT !.kept = k]
  <2>1. t.kept \in Seq(Nat) /\ Len(t.kept) = t.id - 1
    BY <1>3 DEF TbCollected
  <2>2. k \in Seq(Nat) /\ Len(k) = t.id /\ k[t.id] = tbRow[t.id] /\ \A i \in 1..(t.id - 1) : k[i] = t.kept[i]
    BY <1>1, <2>1
  <2> HIDE DEF k
  <2>3. \A i \in (1..t.id) \ X : k[i] = tbRow[i]
    <3> SUFFICES ASSUME NEW i \in (1..t.id) \ X PROVE k[i] = tbRow[i]
      OBVIOUS
    <3>1. CASE i = t.id
      BY <3>1, <2>2
    <3>2. CASE i # t.id
      <4>1. i \in (1..(t.id - 1)) \ X
        BY <1>1, <3>2
      <4> QED BY <4>1, <2>2, <1>3 DEF TbCollected
    <3> QED BY <3>1, <3>2
  <2>4. TbCollected(k, tbRow, X, t.id)
    BY <2>2, <2>3 DEF TbCollected
  <2>5. u \in TbStates
    BY <1>1, <2>2 DEF TbStates
  <2>6. CASE t.id < TbSlots
    <3> DEFINE w == [u EXCEPT !.id = @ + 1]
    <3>1. ipmi_get_channel_cipher_suites(t, r) = w
      BY <1>5, <2>6 DEF ipmi_get_channel_cipher_suites, k
    <3>2. t.id + 1 \in 1..TbSlots
      BY <1>1, <2>6
    <3>3. w \in TbStates /\ w.at = "first" /\ w.kind = "ciphers" /\ w.shown = <<>> /\ w.kept = k /\ w.id = t.id + 1
      BY <1>1, <1>2, <1>3, <2>2, <3>2 DEF TbStates
    <3> HIDE DEF w, u
    <3>4. w.id - 1 = t.id
      BY <1>1, <3>3
    <3>5. TbAtFirst(w, tbRow, X)
      BY <2>4, <3>3, <3>4 DEF TbAtFirst
    <3>6. TbStageOf(w, tbRow, X) /\ TbComplete(w, tbRow, X, H)
      BY <3>3, <3>5 DEF TbStageOf, TbComplete, TbWithSize
    <3> QED BY <3>1, <3>3, <3>6 DEF TbHolds
  <2>7. CASE ~(t.id < TbSlots)
    <3> DEFINE w == [u EXCEPT !.at = "records", !.id = 1]
    <3>1. ipmi_get_channel_cipher_suites(t, r) = w
      BY <1>5, <2>7 DEF ipmi_get_channel_cipher_suites, k
    <3>2. t.id = TbSlots /\ 1 \in 1..TbSlots
      BY <1>1, <2>7
    <3>3. w \in TbStates /\ w.at = "records" /\ w.kind = "ciphers" /\ w.shown = <<>> /\ w.kept = k /\ w.id = 1
      BY <1>1, <1>2, <1>3, <2>2, <3>2 DEF TbStates, TbSteps
    <3> HIDE DEF w, u
    <3>4. w.id - 1 \in Int /\ \A i \in (1..(w.id - 1)) \ X : ~TbDue(w.kind, tbRow[i])
      BY <3>3
    <3>5. TbSoFar(w.kind, w.shown, tbRow, X, w.id - 1)
      BY <3>3, <3>4, TbNoneYet
    <3>6. TbStageOf(w, tbRow, X) /\ TbComplete(w, tbRow, X, H)
      BY <2>4, <3>2, <3>3, <3>5 DEF TbStageOf, TbComplete
    <3> QED BY <3>1, <3>3, <3>6 DEF TbHolds
  <2> QED BY <2>6, <2>7
<1> QED BY <1>4, <1>5

(* One of the records collected is read.                                   *)
LEMMA TbRecordsRight ==
  ASSUME NEW t \in TbStates, NEW X, NEW H, TbStageOf(t, tbRow, X), t.at = "records"
  PROVE  TbHolds(TbRecords(t), tbRow, X, H)
<1> USE TbNumbers
<1>1. t.id \in 1..TbSlots /\ t.shown \in Seq(TbRows) /\ t.kind = "ciphers" /\ TbCollected(t.kept, tbRow, X, TbSlots)
      /\ TbSoFar(t.kind, t.shown, tbRow, X, t.id - 1)
  BY DEF TbStates, TbStageOf
<1>2. t.kept \in Seq(Nat) /\ Len(t.kept) = TbSlots /\ t.kept[t.id] \in Nat /\ (t.id \notin X => t.kept[t.id] = tbRow[t.id])
  <2>1. t.kept \in Seq(Nat) /\ Len(t.kept) = TbSlots
    BY <1>1 DEF TbCollected
  <2>2. t.kept[t.id] \in Nat
    BY <1>1, <2>1
  <2>3. t.id \notin X => t.kept[t.id] = tbRow[t.id]
    BY <1>1 DEF TbCollected
  <2> QED BY <2>1, <2>2, <2>3
<1> DEFINE v == t.kept[t.id]
           More(u) == IF t.id < Len(t.kept) THEN [u EXCEPT !.id = @ + 1] ELSE TbEnd(u, 0)
<1>3. ASSUME NEW s \in Seq(TbRows), TbSoFar(t.kind, s, tbRow, X, t.id)
      PROVE  TbHolds(More([t EXCEPT !.shown = s]), tbRow, X, H)
  <2> DEFINE u == [t EXCEPT !.shown = s]
  <2>1. u \in TbStates /\ u.kind = "ciphers" /\ u.id = t.id /\ u.kept = t.kept /\ u.shown = s /\ u.at = "records"
    BY <1>1 DEF TbStates
  <2> HIDE DEF u
  <2>2. CASE t.id < TbSlots
    <3> DEFINE w == [u EXCEPT !.id = @ + 1]
    <3>1. More(u) = w
      BY <1>2, <2>2
    <3>2. t.id + 1 \in 1..TbSlots /\ t.id + 1 - 1 = t.id
      BY <1>1, <2>2
    <3>3. w \in TbStates /\ w.at = "records" /\ w.kind = "ciphers" /\ w.shown = s /\ w.kept = t.kept /\ w.id = t.id + 1
      BY <2>1, <3>2 DEF TbStates
    <3> HIDE DEF w
    <3>4. w.id - 1 = t.id
      BY <1>1, <3>3
    <3>5. TbStageOf(w, tbRow, X) /\ TbComplete(w, tbRow, X, H)
      BY <1>1, <1>3, <3>3, <3>4 DEF TbStageOf, TbComplete
    <3>6. TbHolds(w, tbRow, X, H)
      BY <3>3, <3>5 DEF TbHolds
    <3> QED BY <3>1, <3>6 DEF u
  <2>3. CASE ~(t.id < TbSlots)
    <3>1. More(u) = TbEnd(u, 0) /\ t.id = TbSlots
      BY <1>1, <1>2, <2>3
    <3>2. TbHolds(TbEnd(u, 0), tbRow, X, H)
      BY <1>1, <1>3, <2>1, <3>1, TbEndRight
    <3> QED BY <3>1, <3>2 DEF u
  <2> QED BY <2>2, <2>3
<1>4. CASE v = TbOem
  <2>1. TbRecords(t) = TbEnd(t, -1)
    BY <1>4 DEF TbRecords
  <2> QED BY <1>1, <2>1, TbEndFails
<1>5. CASE v # TbOem /\ v = 0
  <2>1. TbRecords(t) = More(t)
    BY <1>5 DEF TbRecords
  <2>2. t.id - 1 \in Nat /\ t.id \in Nat /\ t.id - 1 <= t.id
    BY <1>1
  <2>3. \A i \in ((t.id - 1 + 1)..t.id) \ X : ~TbDue(t.kind, tbRow[i])
    BY <1>1, <1>2, <1>5 DEF TbDue
  <2>4. TbSoFar(t.kind, t.shown, tbRow, X, t.id)
    BY <1>1, <2>2, <2>3, TbSkipRight
  <2>5. t = [t EXCEPT !.shown = t.shown]
    BY DEF TbStates
  <2>6. TbHolds(More([t EXCEPT !.shown = t.shown]), tbRow, X, H)
    BY <1>1, <1>3, <2>4
  <2> QED BY <2>1, <2>5, <2>6
<1>6. CASE v # TbOem /\ v # 0
  <2>0. TbA(v) \in Nat /\ TbB(v) \in Nat
    BY <1>2 DEF TbA, TbB
  <2>1. PICK a \in Nat, b \in Nat : a = TbA(v) /\ b = TbB(v)
    BY <2>0
  <2> DEFINE u == TbShow(t, a, b)
  <2>2. TbRecords(t) = More(u)
    BY <1>6, <2>1 DEF TbRecords
  <2>3. t.id \notin X => TbDue(t.kind, tbRow[t.id]) /\ (t.kind = "alerts" \/ (a = TbA(tbRow[t.id]) /\ b = TbB(tbRow[t.id])))
    BY <1>2, <1>6, <2>1 DEF TbDue
  <2>4. u \in TbStates /\ u = [t EXCEPT !.shown = u.shown] /\ TbSoFar(t.kind, u.shown, tbRow, X, t.id)
    <3>1. TbMayShow(t, tbRow, X, a, b)
      BY <1>1, <2>3 DEF TbMayShow
    <3> QED BY <3>1, TbShowHolds
  <2> HIDE DEF u
  <2>5. u.shown \in Seq(TbRows)
    BY <2>4 DEF TbStates
  <2>6. TbHolds(More([t EXCEPT !.shown = u.shown]), tbRow, X, H)
    BY <1>3, <2>4, <2>5
  <2> QED BY <2>2, <2>4, <2>6
<1> QED BY <1>4, <1>5, <1>6

LEMMA TbPickNone ==
  ASSUME NEW kept, NEW row, NEW X, NEW lo \in Nat, NEW hi \in Nat, TbPicked(kept, row, X, lo, hi - 1),
         hi \notin X => row[hi] = 0
  PROVE  TbPicked(kept, row, X, lo, hi)
<1>1. kept \in Seq(TbPolicies) /\ \A n \in DOMAIN kept : kept[n].id \in Int /\ lo <= kept[n].id /\ kept[n].id <= hi
  <2>1. kept \in Seq(TbPolicies) /\ \A n \in DOMAIN kept : kept[n].id \in 1..TbSlots
    BY TbPolicyIds DEF TbPicked
  <2> QED BY <2>1, TbNumbers DEF TbPicked
<1>2. \A i \in (lo..hi) \ X : row[i] # 0 => i \in (lo..(hi - 1)) \ X
  OBVIOUS
<1> QED BY <1>1, <1>2 DEF TbPicked

LEMMA TbPickOne ==
  ASSUME NEW kept, NEW row, NEW X, NEW lo \in Nat, NEW hi \in 1..TbSlots, NEW v \in Nat, lo <= hi,
         TbPicked(kept, row, X, lo, hi - 1), v = row[hi], v # 0
  PROVE  TbPicked(Append(kept, [id |-> hi, v |-> v]), row, X, lo, hi)
<1> USE TbNumbers
<1> DEFINE e == [id |-> hi, v |-> v]
           s == Append(kept, e)
           k == Len(kept) + 1
<1>0. kept \in Seq(TbPolicies)
  BY DEF TbPicked
<1>1. e \in TbPolicies /\ e.id = hi /\ e.v = v
  BY DEF TbPolicies
<1> HIDE DEF e
<1>2. s \in Seq(TbPolicies) /\ Len(kept) \in Nat /\ DOMAIN s = 1..k /\ s[k] = e /\ DOMAIN kept = 1..Len(kept)
      /\ \A n \in DOMAIN kept : s[n] = kept[n]
  BY <1>0, <1>1
<1>3. \A n \in DOMAIN s : n = k \/ n \in DOMAIN kept
  BY <1>2
<1>4. \A n \in DOMAIN kept : kept[n].id \in Int /\ lo <= kept[n].id /\ kept[n].id <= hi - 1
  BY <1>0, TbPolicyIds DEF TbPicked
<1> HIDE DEF s, k
<1>5. \A n \in DOMAIN s : lo <= s[n].id /\ s[n].id <= hi
  BY <1>1, <1>2, <1>3, <1>4
<1>6. \A n1, n2 \in DOMAIN s : n1 < n2 => s[n1].id < s[n2].id
  <2> SUFFICES ASSUME NEW n1 \in DOMAIN s, NEW n2 \in DOMAIN s, n1 < n2 PROVE s[n1].id < s[n2].id
    OBVIOUS
  <2>1. n1 \in DOMAIN kept
    BY <1>2, <1>3 DEF k
  <2>2. CASE n2 = k
    BY <2>1, <2>2, <1>1, <1>2, <1>4
  <2>3. CASE n2 \in DOMAIN kept
    BY <2>1, <2>3, <1>2 DEF TbPicked
  <2> QED BY <2>2, <2>3, <1>3
<1>7. \A n \in DOMAIN s : s[n].id \notin X => s[n].v = row[s[n].id] /\ s[n].v # 0
  <2> SUFFICES ASSUME NEW n \in DOMAIN s, s[n].id \notin X PROVE s[n].v = row[s[n].id] /\ s[n].v # 0
    OBVIOUS
  <2>1. CASE n = k
    BY <2>1, <1>1, <1>2
  <2>2. CASE n \in DOMAIN kept
    BY <2>2, <1>2 DEF TbPicked
  <2> QED BY <2>1, <2>2, <1>3
<1>8. \A i \in (lo..hi) \ X : row[i] # 0 => \E n \in DOMAIN s : s[n].id = i
  <2> SUFFICES ASSUME NEW i \in (lo..hi) \ X, row[i] # 0 PROVE \E n \in DOMAIN s : s[n].id = i
    OBVIOUS
  <2>1. CASE i = hi
    <3>1. k \in DOMAIN s
      BY <1>2 DEF k
    <3> QED BY <2>1, <3>1, <1>1, <1>2
  <2>2. CASE i # hi
    <3>1. i \in (lo..(hi - 1)) \ X
      BY <2>2
    <3>2. PICK n \in DOMAIN kept : kept[n].id = i
      BY <3>1 DEF TbPicked
    <3>3. n \in DOMAIN s /\ s[n] = kept[n]
      BY <1>2 DEF k
    <3> QED BY <3>2, <3>3
  <2> QED BY <2>1, <2>2
<1>9. TbPicked(s, row, X, lo, hi)
  BY <1>2, <1>5, <1>6, <1>7, <1>8 DEF TbPicked
<1> QED BY <1>9 DEF s, e

LEMMA TbPickedTail ==
  ASSUME NEW kept, NEW row, NEW X, NEW lo \in Nat, NEW hi \in Nat, TbPicked(kept, row, X, lo, hi), kept # <<>>,
         lo = Head(kept).id
  PROVE  TbPicked(Tail(kept), row, X, lo + 1, hi)
<1> DEFINE s == Tail(kept)
<1>1. kept \in Seq(TbPolicies) /\ Len(kept) \in Nat \ {0} /\ DOMAIN kept = 1..Len(kept) /\ 1 \in DOMAIN kept
  <2>1. kept \in Seq(TbPolicies)
    BY DEF TbPicked
  <2> QED BY <2>1
<1>2. s \in Seq(TbPolicies) /\ Len(s) = Len(kept) - 1 /\ DOMAIN s = 1..(Len(kept) - 1)
      /\ \A n \in DOMAIN s : n + 1 \in DOMAIN kept /\ s[n] = kept[n + 1] /\ 1 < n + 1
  BY <1>1
<1>3. Head(kept) = kept[1]
  BY <1>1
<1>4. \A n \in DOMAIN kept : kept[n].id \in Int /\ kept[n].id <= hi
  BY <1>1, TbPolicyIds DEF TbPicked
<1> HIDE DEF s
<1>5. \A n \in DOMAIN s : lo + 1 <= s[n].id /\ s[n].id <= hi
  <2> SUFFICES ASSUME NEW n \in DOMAIN s PROVE lo + 1 <= s[n].id /\ s[n].id <= hi
    OBVIOUS
  <2>1. n + 1 \in DOMAIN kept /\ s[n] = kept[n + 1] /\ 1 < n + 1
    BY <1>2
  <2>2. kept[1].id < kept[n + 1].id
    BY <1>1, <2>1 DEF TbPicked
  <2>3. kept[n + 1].id \in Int /\ kept[n + 1].id <= hi
    BY <2>1, <1>4
  <2> QED BY <1>3, <2>1, <2>2, <2>3
<1>6. \A n1, n2 \in DOMAIN s : n1 < n2 => s[n1].id < s[n2].id
  <2> SUFFICES ASSUME NEW n1 \in DOMAIN s, NEW n2 \in DOMAIN s, n1 < n2 PROVE s[n1].id < s[n2].id
    OBVIOUS
  <2>1. n1 + 1 \in DOMAIN kept /\ n2 + 1 \in DOMAIN kept /\ n1 + 1 < n2 + 1 /\ s[n1] = kept[n1 + 1] /\ s[n2] = kept[n2 + 1]
    BY <1>2
  <2> QED BY <2>1 DEF TbPicked
<1>7. \A n \in DOMAIN s : s[n].id \notin X => s[n].v = row[s[n].id] /\ s[n].v # 0
  BY <1>2 DEF TbPicked
<1>8. \A i \in ((lo + 1)..hi) \ X : row[i] # 0 => \E n \in DOMAIN s : s[n].id = i
  <2> SUFFICES ASSUME NEW i \in ((lo + 1)..hi) \ X, row[i] # 0 PROVE \E n \in DOMAIN s : s[n].id = i
    OBVIOUS
  <2>1. i \in (lo..hi) \ X
    OBVIOUS
  <2>2. PICK n \in DOMAIN kept : kept[n].id = i
    BY <2>1 DEF TbPicked
  <2>3. n # 1
    BY <1>3, <2>2
  <2>4. n - 1 \in DOMAIN s /\ n - 1 + 1 = n
    BY <1>1, <1>2, <2>3
  <2>5. s[n - 1] = kept[n]
    BY <1>2, <2>4
  <2> QED BY <2>2, <2>4, <2>5
<1>9. TbPicked(s, row, X, lo + 1, hi)
  BY <1>2, <1>5, <1>6, <1>7, <1>8 DEF TbPicked
<1> QED BY <1>9 DEF s

(* The list goes on with the first of the entries kept.                    *)
TbMayList(t, row, X, lo) ==
  /\ t \in TbStates /\ t.kind = "policies" /\ lo \in Nat /\ lo <= TbSlots
  /\ TbSoFar(t.kind, t.shown, row, X, lo) /\ TbPicked(t.kept, row, X, lo + 1, TbSlots)
LEMMA TbListedRight ==
  ASSUME NEW t, NEW row, NEW X, NEW H, NEW lo, TbMayList(t, row, X, lo)
  PROVE  TbHolds(TbListed(t), row, X, H)
<1> USE TbNumbers
<1>1. t \in TbStates /\ t.kind = "policies" /\ lo \in Nat /\ lo <= TbSlots /\ t.shown \in Seq(TbRows)
      /\ t.kept \in Seq(TbPolicies)
  BY DEF TbMayList, TbStates, TbPicked
<1>2. TbSoFar(t.kind, t.shown, row, X, lo)
  BY DEF TbMayList
<1>3. TbPicked(t.kept, row, X, lo + 1, TbSlots)
  BY DEF TbMayList
<1>4. CASE t.kept = <<>>
  <2>1. \A i \in ((lo + 1)..TbSlots) \ X : ~TbDue(t.kind, row[i])
    <3> SUFFICES ASSUME NEW i \in ((lo + 1)..TbSlots) \ X PROVE row[i] = 0
      BY <1>1 DEF TbDue
    <3>1. DOMAIN t.kept = {}
      BY <1>4
    <3> QED BY <1>3, <3>1 DEF TbPicked
  <2>2. TbSoFar(t.kind, t.shown, row, X, TbSlots)
    BY <1>1, <1>2, <2>1, TbSkipRight
  <2>3. TbHolds(TbEnd(t, 0), row, X, H)
    BY <1>1, <2>2, TbEndRight
  <2> QED BY <1>4, <2>3 DEF TbListed
<1>5. CASE t.kept # <<>>
  <2> DEFINE h == Head(t.kept).id
             u == [t EXCEPT !.at = "channel", !.id = h]
  <2>1. Head(t.kept) = t.kept[1] /\ 1 \in DOMAIN t.kept /\ DOMAIN t.kept \subseteq Nat \ {0}
    BY <1>1, <1>5
  <2>2. h \in 1..TbSlots /\ lo + 1 <= h
    BY <1>1, <1>3, <2>1, TbPolicyIds DEF TbPicked
  <2>3. TbListed(t) = u
    BY <1>5 DEF TbListed
  <2> HIDE DEF h
  <2>4. \A n \in DOMAIN t.kept : t.kept[n].id \in Int /\ h <= t.kept[n].id /\ t.kept[n].id <= TbSlots
    <3> SUFFICES ASSUME NEW n \in DOMAIN t.kept
                 PROVE  t.kept[n].id \in Int /\ h <= t.kept[n].id /\ t.kept[n].id <= TbSlots
      OBVIOUS
    <3>1. t.kept[n].id \in 1..TbSlots
      BY <1>1, TbPolicyIds
    <3>2. h <= t.kept[n].id
      <4>1. CASE n = 1
        BY <4>1, <2>1, <2>2 DEF h
      <4>2. CASE n # 1
        <5>1. 1 < n
          BY <2>1, <4>2
        <5>2. t.kept[1].id < t.kept[n].id
          BY <1>3, <2>1, <5>1 DEF TbPicked
        <5> QED BY <5>2, <3>1, <2>1, <2>2 DEF h
      <4> QED BY <4>1, <4>2
    <3> QED BY <3>1, <3>2
  <2>5. \A i \in ((lo + 1)..(h - 1)) \ X : ~TbDue(t.kind, row[i])
    <3> SUFFICES ASSUME NEW i \in ((lo + 1)..(h - 1)) \ X, row[i] # 0 PROVE FALSE
      BY <1>1 DEF TbDue
    <3>1. i \in ((lo + 1)..TbSlots) \ X
      BY <1>1, <2>2
    <3>2. PICK n \in DOMAIN t.kept : t.kept[n].id = i
      BY <1>3, <3>1 DEF TbPicked
    <3> QED BY <2>2, <2>4, <3>2
  <2>6. lo \in Nat /\ h - 1 \in Nat /\ lo <= h - 1
    BY <1>1, <2>2
  <2>7. TbSoFar(t.kind, t.shown, row, X, h - 1)
    BY <1>1, <1>2, <2>5, <2>6, TbSkipRight
  <2>8. TbPicked(t.kept, row, X, h, TbSlots)
    <3>1. \A i \in (h..TbSlots) \ X : i \in ((lo + 1)..TbSlots) \ X
      BY <1>1, <2>2
    <3> QED BY <1>3, <2>4, <3>1 DEF TbPicked
  <2>9. u \in TbStates /\ u.at = "channel" /\ u.id = h /\ u.kind = t.kind /\ u.kept = t.kept /\ u.shown = t.shown
    BY <1>1, <2>2 DEF TbStates, TbSteps
  <2> HIDE DEF u
  <2>10. TbStageOf(u, row, X) /\ TbComplete(u, row, X, H)
    BY <1>1, <1>5, <2>7, <2>8, <2>9 DEF TbStageOf, TbComplete, h
  <2> QED BY <2>3, <2>9, <2>10 DEF TbHolds
<1> QED BY <1>4, <1>5

LEMMA TbPolicyTable ==
  ASSUME NEW t, NEW X, NEW H, NEW r, TbTaken(t, tbRow, X, H, r), t.kind = "policies", t.at \in {"size", "first"}
  PROVE  TbHolds(ipmi_pef_get_policy_table(t, r), tbRow, X, H)
<1> USE TbNumbers
<1>1. t \in TbStates /\ t.id \in 1..TbSlots /\ tbRow[t.id] \in Nat
  BY TbTakenTypes
<1>2. CASE r # "ok"
  <2> DEFINE u == [t EXCEPT !.kept = <<>>]
  <2>0. PICK k \in Seq(TbPolicies) : k = <<>>
    BY <<>> \in Seq(TbPolicies)
  <2>1. u \in TbStates /\ u.kind = "policies" /\ u.shown = t.shown
    <3>1. [t EXCEPT !.kept = k] \in TbStates /\ [t EXCEPT !.kept = k].kind = t.kind /\ [t EXCEPT !.kept = k].shown = t.shown
      BY <1>1 DEF TbStates
    <3> QED BY <2>0, <3>1
  <2>2. ipmi_pef_get_policy_table(t, r) = TbEnd(u, 0)
    BY <1>2 DEF ipmi_pef_get_policy_table
  <2> HIDE DEF u
  <2>3. 0 \in H \/ (u.shown = <<>> /\ H # {})
    <3>1. CASE t.at = "size"
      BY <1>2, <3>1 DEF TbTaken
    <3>2. CASE t.at = "first"
      <4>1. t.id \in H
        BY <1>2, <3>2 DEF TbTaken
      <4>2. t.shown = <<>>
        BY <3>2 DEF TbTaken, TbStageOf, TbAtFirst
      <4> QED BY <2>1, <4>1, <4>2
    <3> QED BY <3>1, <3>2
  <2>4. TbHolds(TbEnd(u, 0), tbRow, X, H)
    BY <2>1, <2>3, TbEndRight
  <2> QED BY <2>2, <2>4
<1>3. CASE r = "ok" /\ t.at = "size"
  BY <1>3, TbSizeTaken DEF ipmi_pef_get_policy_table
<1>4. CASE r = "ok" /\ t.at = "first"
  <2>1. t.shown = <<>> /\ TbPicked(t.kept, tbRow, X, 1, t.id - 1) /\ t.bound = TbSlots
    BY <1>4 DEF TbTaken, TbStageOf, TbAtFirst, TbWithSize
  <2>2. PICK k : /\ k = IF tbRow[t.id] = 0 THEN t.kept ELSE Append(t.kept, [id |-> t.id, v |-> tbRow[t.id]])
                 /\ TbPicked(k, tbRow, X, 1, t.id)
    <3>1. 1 \in Nat /\ t.id \in Nat /\ 1 <= t.id
      BY <1>1
    <3>2. CASE tbRow[t.id] = 0
      <4>1. TbPicked(t.kept, tbRow, X, 1, t.id)
        BY <2>1, <3>1, <3>2, TbPickNone
      <4> QED BY <3>2, <4>1
    <3>3. CASE tbRow[t.id] # 0
      <4>1. TbPicked(Append(t.kept, [id |-> t.id, v |-> tbRow[t.id]]), tbRow, X, 1, t.id)
        BY <1>1, <2>1, <3>1, <3>3, TbPickOne
      <4> QED BY <3>3, <4>1
    <3> QED BY <3>2, <3>3
  <2>3. k \in Seq(TbPolicies)
    BY <2>2 DEF TbPicked
  <2> DEFINE u == [t EXCEPT !.kept = k]
  <2>4. u = IF tbRow[t.id] = 0 THEN t ELSE [t EXCEPT !.kept = Append(@, [id |-> t.id, v |-> tbRow[t.id]])]
    BY <1>1, <2>2 DEF TbStates
  <2>5. ipmi_pef_get_policy_table(t, r) = IF t.id < t.bound THEN [u EXCEPT !.id = @ + 1] ELSE TbListed(u)
    BY <1>4, <2>4 DEF ipmi_pef_get_policy_table
  <2>6. u \in TbStates /\ u.kind = "policies" /\ u.at = "first" /\ u.shown = <<>> /\ u.kept = k /\ u.id = t.id
        /\ u.bound = TbSlots
    BY <1>1, <1>4, <2>1, <2>3 DEF TbStates
  <2> HIDE DEF u
  <2>7. CASE t.id < TbSlots
    <3> DEFINE w == [u EXCEPT !.id = @ + 1]
    <3>1. t.id + 1 \in 1..TbSlots
      BY <1>1, <2>7
    <3>2. w \in TbStates /\ w.kind = "policies" /\ w.at = "first" /\ w.shown = <<>> /\ w.kept = k /\ w.id = t.id + 1
          /\ w.bound = TbSlots
      BY <2>6, <3>1 DEF TbStates
    <3> HIDE DEF w
    <3>3. w.id - 1 = t.id
      BY <1>1, <3>2
    <3>4. TbAtFirst(w, tbRow, X)
      BY <2>2, <3>2, <3>3 DEF TbAtFirst
    <3>5. TbStageOf(w, tbRow, X) /\ TbComplete(w, tbRow, X, H)
      BY <3>2, <3>4 DEF TbStageOf, TbComplete
    <3>6. ipmi_pef_get_policy_table(t, r) = w
      BY <2>1, <2>5, <2>7 DEF w
    <3> QED BY <3>2, <3>5, <3>6 DEF TbHolds
  <2>8. CASE ~(t.id < TbSlots)
    <3>1. t.id = TbSlots /\ 0 + 1 = 1 /\ 0 \in Nat /\ 0 <= TbSlots
      BY <1>1, <2>8
    <3>2. \A i \in (1..0) \ X : ~TbDue(u.kind, tbRow[i])
      OBVIOUS
    <3>3. TbSoFar(u.kind, u.shown, tbRow, X, 0)
      BY <2>6, <3>2, TbNoneYet
    <3>4. TbMayList(u, tbRow, X, 0)
      BY <2>2, <2>6, <3>1, <3>3 DEF TbMayList
    <3>5. TbHolds(TbListed(u), tbRow, X, H)
      BY <3>4, TbListedRight
    <3> QED BY <2>1, <2>5, <2>8, <3>5
  <2> QED BY <2>7, <2>8
<1> QED BY <1>2, <1>3, <1>4

(* The first of the entries kept is shown.                                 *)
LEMMA TbPolicyShown ==
  ASSUME NEW t, NEW X, NEW H, NEW r, TbTaken(t, tbRow, X, H, r), t.at \in {"channel", "dest"}, NEW b \in Nat,
         t.id \notin X => b = TbB(Head(t.kept).v)
  PROVE  TbHolds(TbListed([TbShow(t, TbA(Head(t.kept).v), b) EXCEPT !.kept = Tail(@)]), tbRow, X, H)
<1> USE TbNumbers
<1>1. t \in TbStates /\ t.id \in 1..TbSlots
  BY TbTakenTypes
<1>2. t.kind = "policies" /\ t.kept # <<>> /\ t.id = Head(t.kept).id
  BY DEF TbTaken, TbStageOf
<1>3. TbPicked(t.kept, tbRow, X, t.id, TbSlots)
  BY DEF TbTaken, TbStageOf
<1>4. TbSoFar(t.kind, t.shown, tbRow, X, t.id - 1)
  BY DEF TbTaken, TbStageOf
<1>5. t.kept \in Seq(TbPolicies)
  BY <1>3 DEF TbPicked
<1>6. 1 \in DOMAIN t.kept /\ Head(t.kept) = t.kept[1]
  BY <1>2, <1>5
<1>7. Head(t.kept).v \in Nat /\ (t.id \notin X => Head(t.kept).v = tbRow[t.id] /\ Head(t.kept).v # 0)
  BY <1>2, <1>3, <1>5, <1>6, TbPolicyIds DEF TbPicked
<1>8. PICK a \in Nat : a = TbA(Head(t.kept).v)
  BY <1>7 DEF TbA
<1> DEFINE u == TbShow(t, a, b)
           w == [u EXCEPT !.kept = Tail(@)]
<1>9. TbMayShow(t, tbRow, X, a, b)
  BY <1>1, <1>2, <1>4, <1>7, <1>8 DEF TbMayShow, TbDue
<1>10. u \in TbStates /\ u = [t EXCEPT !.shown = u.shown] /\ TbSoFar(t.kind, u.shown, tbRow, X, t.id)
  BY <1>9, TbShowHolds
<1> HIDE DEF u
<1>11. u.kind = "policies" /\ u.kept = t.kept
  BY <1>1, <1>2, <1>10 DEF TbStates
<1>12. t.id \in Nat /\ TbSlots \in Nat /\ t.id <= TbSlots
  BY <1>1
<1>13. TbPicked(Tail(t.kept), tbRow, X, t.id + 1, TbSlots)
  BY <1>2, <1>3, <1>12, TbPickedTail
<1>14. Tail(t.kept) \in Seq(TbPolicies)
  BY <1>13 DEF TbPicked
<1>15. w \in TbStates /\ w.kind = "policies" /\ w.kept = Tail(t.kept) /\ w.shown = u.shown
  BY <1>10, <1>11, <1>14 DEF TbStates
<1> HIDE DEF w
<1>16. TbMayList(w, tbRow, X, t.id)
  BY <1>2, <1>10, <1>12, <1>13, <1>15 DEF TbMayList
<1>17. TbHolds(TbListed(w), tbRow, X, H)
  BY <1>16, TbListedRight
<1> QED BY <1>8, <1>17 DEF w, u

LEMMA TbPolicy ==
  ASSUME NEW t, NEW X, NEW H, NEW r, TbTaken(t, tbRow, X, H, r), t.kind = "policies"
  PROVE  TbHolds(TbThen(t, r), tbRow, X, H)
<1>1. t \in TbStates /\ t.id \in 1..TbSlots
  BY TbTakenTypes
<1>2. t.at \in {"size", "first", "channel", "dest"}
  BY <1>1 DEF TbTaken, TbStageOf, TbStates, TbSteps, TbTwoParts
<1>3. CASE t.at \in {"size", "first"}
  <2>1. TbThen(t, r) = ipmi_pef_get_policy_table(t, r)
    BY <1>3 DEF TbThen
  <2> QED BY <1>3, <2>1, TbPolicyTable
<1>4. CASE t.at = "channel" /\ r # "ok"
  <2>1. TbThen(t, r) = TbListed([TbShow(t, TbA(Head(t.kept).v), 0) EXCEPT !.kept = Tail(@)])
    BY <1>4 DEF TbThen, ipmi_pef_list_policies
  <2>2. t.id \in X
    BY <1>4 DEF TbTaken
  <2>3. TbHolds(TbListed([TbShow(t, TbA(Head(t.kept).v), 0) EXCEPT !.kept = Tail(@)]), tbRow, X, H)
    BY <1>4, <2>2, TbPolicyShown
  <2> QED BY <2>1, <2>3
<1>5. CASE t.at = "channel" /\ r = "ok"
  <2> DEFINE u == [t EXCEPT !.at = "dest"]
  <2>1. TbThen(t, r) = u
    BY <1>5 DEF TbThen, ipmi_pef_list_policies
  <2>2. u \in TbStates /\ u.at = "dest" /\ u.kind = t.kind /\ u.kept = t.kept /\ u.shown = t.shown /\ u.id = t.id
    BY <1>1 DEF TbStates, TbSteps
  <2> HIDE DEF u
  <2>3. TbStageOf(u, tbRow, X) /\ TbComplete(u, tbRow, X, H)
    BY <1>5, <2>2 DEF TbTaken, TbStageOf, TbComplete
  <2> QED BY <2>1, <2>2, <2>3 DEF TbHolds
<1>6. CASE t.at = "dest"
  <2>1. TbThen(t, r) = ipmi_pef_print_lan_dest(t, r)
    BY <1>6 DEF TbThen
  <2>2. Head(t.kept).v \in Nat
    <3>1. t.kept # <<>> /\ t.kept \in Seq(TbPolicies)
      BY <1>6 DEF TbTaken, TbStageOf, TbPicked
    <3>2. 1 \in DOMAIN t.kept /\ Head(t.kept) = t.kept[1]
      BY <3>1
    <3> QED BY <3>1, <3>2, TbPolicyIds
  <2>3. PICK b \in Nat : b = IF r = "ok" THEN TbB(Head(t.kept).v) ELSE 0
    <3>1. TbB(Head(t.kept).v) \in Nat
      BY <2>2 DEF TbB
    <3> QED BY <3>1
  <2>4. t.id \notin X => b = TbB(Head(t.kept).v)
    BY <1>6, <2>3 DEF TbTaken
  <2>5. TbHolds(TbListed([TbShow(t, TbA(Head(t.kept).v), b) EXCEPT !.kept = Tail(@)]), tbRow, X, H)
    BY <1>6, <2>4, TbPolicyShown
  <2> QED BY <2>1, <2>3, <2>5 DEF ipmi_pef_print_lan_dest
<1> QED BY <1>2, <1>3, <1>4, <1>5, <1>6

LEMMA TbThenRight ==
  ASSUME NEW t, NEW X, NEW H, NEW r, TbTaken(t, tbRow, X, H, r)
  PROVE  TbHolds(TbThen(t, r), tbRow, X, H)
<1>1. t.kind \in TbKinds
  BY TbTakenTypes
<1>2. CASE t.kind = "users"
  BY <1>2, TbUsers DEF TbThen
<1>3. CASE t.kind = "access"
  BY <1>3, TbAccess DEF TbThen
<1>4. CASE t.kind = "ciphers"
  BY <1>4, TbCiphers DEF TbThen
<1>5. CASE t.kind = "sessions"
  BY <1>5, TbSessions DEF TbThen
<1>6. CASE t.kind = "policies"
  BY <1>6, TbPolicy
<1>7. CASE t.kind = "filters"
  BY <1>7, TbFilters DEF TbThen
<1>8. CASE t.kind = "alerts"
  BY <1>8, TbAlerts DEF TbThen
<1> QED BY <1>1, <1>2, <1>3, <1>4, <1>5, <1>6, <1>7, <1>8 DEF TbKinds

LEMMA TbInvInit == TbInit => TbInv
<1> USE TbNumbers
<1> SUFFICES ASSUME TbInit PROVE TbInv
  OBVIOUS
<1>1. tb \in TbStates /\ tb.kind = "none" /\ tb.at = "new" /\ tb.id = 1 /\ tb.shown = <<>> /\ tb.kept = <<>>
  <2>1. 1 \in 1..TbSlots /\ <<>> \in Seq(Nat) \cup Seq(TbPolicies) /\ <<>> \in Seq(TbRows)
    OBVIOUS
  <2> QED BY <2>1 DEF TbInit, TbStates, TbSteps
<1>2. tbRow \in [1..TbSlots -> Nat] /\ tbChanged \subseteq 1..TbSlots
  BY DEF TbInit
<1>3. TbStageOf(tb, tbRow, tbChanged \cup tbHurt) /\ TbComplete(tb, tbRow, tbChanged \cup tbHurt, tbHurt)
  BY <1>1 DEF TbStageOf, TbComplete
<1> QED BY <1>1, <1>2, <1>3 DEF TbInv, TbHolds

LEMMA TbInvStep == TbInv /\ [TbNextStep]_tbVars => TbInv'
<1> USE TbNumbers
<1> SUFFICES ASSUME TbInv, [TbNextStep]_tbVars PROVE TbInv'
  OBVIOUS
<1> DEFINE X == tbChanged \cup tbHurt
<1>1. tb \in TbStates /\ TbStageOf(tb, tbRow, X) /\ tbRow \in [1..TbSlots -> Nat] /\ tbChanged \subseteq 1..TbSlots
      /\ TbComplete(tb, tbRow, X, tbHurt)
  BY DEF TbInv, TbHolds
<1> HIDE DEF X
<1>2. CASE TbStart
  <2>1. PICK k \in TbKinds : tb' = [tb EXCEPT !.kind = k, !.at = IF k \in {"policies", "filters", "alerts"} THEN "size" ELSE "first"]
    BY <1>2 DEF TbStart
  <2>2. tb.id = 1 /\ tb.shown = <<>> /\ tb.kept = <<>> /\ UNCHANGED <<tbRow, tbChanged, tbHurt>>
    BY <1>1, <1>2 DEF TbStart, TbStageOf
  <2>3. PICK s \in {"size", "first"} : s = IF k \in {"policies", "filters", "alerts"} THEN "size" ELSE "first"
    OBVIOUS
  <2>4. k # "none"
    BY DEF TbKinds
  <2>5. tb' \in TbStates /\ tb'.kind = k /\ tb'.at = s /\ tb'.id = 1 /\ tb'.shown = <<>> /\ tb'.kept = <<>>
    BY <1>1, <2>1, <2>2, <2>3 DEF TbStates, TbSteps
  <2>6. 1 - 1 = 0 /\ 0 \in Int /\ \A i \in (1..0) \ X : ~TbDue(k, tbRow[i])
    OBVIOUS
  <2>7. TbSoFar(k, <<>>, tbRow, X, 0)
    BY <2>6, TbNoneYet
  <2>8. <<>> \in Seq(Nat) /\ Len(<<>>) = 0 /\ TbCollected(<<>>, tbRow, X, 0)
    BY DEF TbCollected
  <2>9. s = "first" => TbAtFirst(tb', tbRow, X) /\ k \notin TbWithSize
    BY <2>3, <2>5, <2>6, <2>7, <2>8 DEF TbAtFirst, TbWithSize
  <2>10. s = "size" => k \in TbWithSize
    BY <2>3 DEF TbWithSize
  <2>11. TbStageOf(tb', tbRow, X) /\ TbComplete(tb', tbRow, X, tbHurt)
    BY <2>3, <2>4, <2>5, <2>9, <2>10 DEF TbStageOf, TbComplete
  <2> QED BY <1>1, <2>2, <2>5, <2>11 DEF TbInv, TbHolds, X
<1>3. CASE TbAnswered
  <2>1. TbTaken(tb, tbRow, X, tbHurt, "ok")
    BY <1>1, <1>3 DEF TbAnswered, TbAsks, TbTaken
  <2>2. TbHolds(TbThen(tb, "ok"), tbRow, X, tbHurt)
    BY <2>1, TbThenRight
  <2>3. TbHolds(tb', tbRow, X, tbHurt) /\ UNCHANGED <<tbRow, tbChanged, tbHurt>>
    BY <2>2, <1>3 DEF TbAnswered
  <2> QED BY <1>1, <2>3 DEF TbInv, X
<1>4. CASE TbRead
  <2>1. TbHolds(TbRecords(tb), tbRow, X, tbHurt)
    BY <1>1, <1>4, TbRecordsRight DEF TbRead
  <2>2. TbHolds(tb', tbRow, X, tbHurt) /\ UNCHANGED <<tbRow, tbChanged, tbHurt>>
    BY <2>1, <1>4 DEF TbRead
  <2> QED BY <1>1, <2>2 DEF TbInv, X
<1>5. ASSUME NEW r \in {"fail", "unknown"}, TbFailed(r) PROVE TbInv'
  <2> DEFINE h == IF tb.at = "size" THEN 0 ELSE tb.id
             H == tbHurt \cup {h}
             Y == X \cup {h}
  <2>1. tb' = TbThen(tb, r) /\ tbHurt' = H /\ UNCHANGED <<tbRow, tbChanged>> /\ tb.at \notin {"new", "records", "done"}
    BY <1>5 DEF TbFailed, TbAsks
  <2>2. TbLess(tbRow, X, tbRow, Y)
    BY DEF TbLess
  <2>3. TbStageOf(tb, tbRow, Y)
    BY <1>1, <2>2, TbStageLess
  <2>4. TbTaken(tb, tbRow, Y, H, r)
    BY <1>1, <2>1, <2>3 DEF TbTaken
  <2>5. TbHolds(TbThen(tb, r), tbRow, Y, H)
    BY <2>4, TbThenRight
  <2>6. Y = (tbChanged \cup tbHurt)'
    BY <2>1 DEF X
  <2> QED BY <1>1, <2>1, <2>5, <2>6 DEF TbInv
<1>6. ASSUME NEW i \in 1..TbSlots, NEW v \in 0..TbOem, TbChange(i, v) PROVE TbInv'
  <2> DEFINE Y == X \cup {i}
  <2>1. tbRow' = [tbRow EXCEPT ![i] = v] /\ tbChanged' = tbChanged \cup {i} /\ UNCHANGED <<tb, tbHurt>> /\ tb.at # "done"
    BY <1>6 DEF TbChange
  <2>2. TbLess(tbRow, X, tbRow', Y)
    BY <1>1, <2>1 DEF TbLess
  <2>3. tbRow' \in [1..TbSlots -> Nat] /\ tbChanged' \subseteq 1..TbSlots
    BY <1>1, <2>1
  <2>4. TbStageOf(tb, tbRow', Y) /\ TbComplete(tb, tbRow', Y, tbHurt)
    BY <1>1, <2>1, <2>2, TbStageLess DEF TbComplete
  <2>5. Y = (tbChanged \cup tbHurt)'
    BY <2>1 DEF X
  <2> QED BY <1>1, <2>1, <2>3, <2>4, <2>5 DEF TbInv, TbHolds
<1>7. CASE UNCHANGED tbVars
  <2>1. UNCHANGED <<tb, tbRow, tbChanged, tbHurt>>
    BY <1>7 DEF tbVars
  <2> QED BY <2>1 DEF TbInv
<1> QED BY <1>2, <1>3, <1>4, <1>5, <1>6, <1>7 DEF TbNextStep

LEMMA TbInvTrue == TbInv => TbListTrue
<1> USE TbNumbers
<1> DEFINE X == tbChanged \cup tbHurt
<1> SUFFICES ASSUME TbInv, tb.at = "done", tb.rc = 0, 0 \notin tbHurt, ~(tb.kind = "policies" /\ tb.shown = <<>> /\ tbHurt # {}),
                    NEW i \in (1..TbSlots) \ X
             PROVE  /\ Cardinality(TbRowsOf(i)) = IF TbLists(i) THEN 1 ELSE 0
                    /\ \A n \in TbRowsOf(i) :
                         tb.kind = "alerts" \/ (tb.shown[n].a = TbA(tbRow[i]) /\ tb.shown[n].b = TbB(tbRow[i]))
  BY DEF TbListTrue
<1>1. TbSoFar(tb.kind, tb.shown, tbRow, X, TbSlots) /\ tb.shown \in Seq(TbRows)
  BY DEF TbInv, TbHolds, TbComplete, TbStates
<1>2. TbLists(i) <=> TbDue(tb.kind, tbRow[i])
  BY DEF TbLists, TbDue
<1> HIDE DEF X
<1>3. \A n \in TbRowsOf(i) : /\ n \in DOMAIN tb.shown /\ tb.shown[n].id = i /\ n \in Nat
                             /\ TbDue(tb.kind, tbRow[i])
                             /\ tb.kind = "alerts" \/ (tb.shown[n].a = TbA(tbRow[i]) /\ tb.shown[n].b = TbB(tbRow[i]))
  <2> SUFFICES ASSUME NEW n \in TbRowsOf(i)
               PROVE  /\ n \in DOMAIN tb.shown /\ tb.shown[n].id = i /\ n \in Nat
                      /\ TbDue(tb.kind, tbRow[i])
                      /\ tb.kind = "alerts" \/ (tb.shown[n].a = TbA(tbRow[i]) /\ tb.shown[n].b = TbB(tbRow[i]))
    OBVIOUS
  <2>1. n \in DOMAIN tb.shown /\ tb.shown[n].id = i
    BY DEF TbRowsOf
  <2>2. n \in Nat
    BY <1>1, <2>1
  <2> QED BY <1>1, <2>1, <2>2 DEF TbSoFar
<1>4. Cardinality(TbRowsOf(i)) = IF TbLists(i) THEN 1 ELSE 0
  <2>1. CASE TbLists(i)
    <3>1. PICK n \in DOMAIN tb.shown : tb.shown[n].id = i
      BY <1>1, <1>2, <2>1 DEF TbSoFar
    <3>2. n \in Nat
      BY <1>1
    <3>3. \A k \in TbRowsOf(i) : k = n
      <4> SUFFICES ASSUME NEW k \in TbRowsOf(i), k # n PROVE FALSE
        OBVIOUS
      <4>1. k \in DOMAIN tb.shown /\ tb.shown[k].id = i /\ k \in Nat
        BY <1>3
      <4>2. k < n \/ n < k
        BY <3>2, <4>1
      <4>3. i < i
        BY <1>1, <3>1, <4>1, <4>2 DEF TbSoFar
      <4> QED BY <4>3
    <3>4. TbRowsOf(i) = {n}
      BY <3>1, <3>3 DEF TbRowsOf
    <3>5. Cardinality({n}) = 1
      BY FS_Singleton
    <3> QED BY <2>1, <3>4, <3>5
  <2>2. CASE ~TbLists(i)
    <3>1. TbRowsOf(i) = {}
      BY <1>2, <1>3, <2>2
    <3>2. Cardinality({}) = 0
      BY FS_EmptySet
    <3> QED BY <2>2, <3>1, <3>2
  <2> QED BY <2>1, <2>2
<1> QED BY <1>3, <1>4

(* A listing that returns 0 has every entry that stayed as it was and was  *)
(* read, once and as it is, for tables of any size, whichever entries      *)
(* change meanwhile and whichever requests fail: user list, channel        *)
(* getaccess and getciphers, session info, pef and lan alert.              *)
THEOREM ListingsTrue == CmdSpec => []TbListTrue
<1>1. CmdInit => TbInv
  BY TbInvInit DEF CmdInit
<1>2. TbInv /\ [CmdNext]_cmdVars => TbInv'
  BY ListingMoves, TbInvStep
<1> QED
  BY <1>1, <1>2, TbInvTrue, PTL DEF CmdSpec

(* The sensor data repository. Types of all that is kept.                  *)
SdrN == Len(SdrRecords)
SdrBytes == SdrIds \X Nat
SdrBuffers == [vers : Seq(SdrBytes), renewed : BOOLEAN]
SdrEntries == [id : Nat, name : SdrIds, type : SdrTypes, stype : SdrStypes, entity : SdrEntities, len : Nat, rec : SdrBuffers]
SdrStored == [id : SdrIds, type : SdrTypes, len : Nat \ {0}, stype : SdrStypes, entity : SdrEntities, ver : Nat]
SdrHeaders == [id : Nat, next : Nat, type : SdrTypes, len : Nat, try : Nat]
SdrStarting == {"devid", "info", "reserve"}
SdrWalking == {"header", "renew_header", "record", "got", "walked", "garbage"}
SdrTroubled == {"renew_record", "norecord", "crashed"}
SdrSteps == {"new", "idle", "file", "listed", "print"} \cup SdrStarting \cup SdrWalking \cup SdrTroubled
SdrRaws == [id : Nat, type : SdrTypes, len : Nat, rec : SdrBuffers, after : Nat]
SdrIters == [on : BOOLEAN, next : Nat]
SdrTyped ==
  /\ sdrRepo \in Seq(SdrStored) /\ sdrHeld \in BOOLEAN /\ sdrLimit \in Nat \ {0} /\ sdrCap \in Nat
  /\ sdrItr \in SdrIters /\ sdrList \in Seq(SdrEntries) /\ sdrAt \in SdrSteps
  /\ sdrHdr \in SdrHeaders /\ sdrBuf \in SdrBuffers /\ sdrPos \in Nat /\ sdrTodo \in Seq(SdrEntries)
  /\ sdrOut \in Seq([id : SdrIds, shown : {"value", "ns"}]) /\ sdrUsed \in [commands : Nat, faults : Nat]
  /\ (sdrCmd.op = "find" => sdrCmd.by \in {"num", "id"}) /\ (sdrAt \in {"file", "listed"} \cup SdrStarting => sdrPos > 0)
  /\ (sdrAt = "print" => sdrTodo # <<>>)

(* The record in hand: never longer than its header says, of one version   *)
(* unless the reservation was renewed, and of the one that is there while  *)
(* the reservation holds.                                                  *)
SdrSame(vers) == \A j, k \in DOMAIN vers : vers[j] = vers[k]
SdrInHand ==
  /\ sdrAt \in {"record", "renew_record", "got"} =>
       sdrHdr.len > 0 /\ Len(sdrBuf.vers) <= sdrHdr.len /\ (~sdrBuf.renewed => SdrSame(sdrBuf.vers))
  /\ sdrAt = "got" => Len(sdrBuf.vers) = sdrHdr.len
  /\ sdrAt = "record" /\ ~sdrBuf.renewed /\ sdrHeld => \A j \in DOMAIN sdrBuf.vers : sdrBuf.vers[j] = SdrByte
SdrEntryWhole(e) == e.len > 0 /\ Len(e.rec.vers) = e.len /\ (~e.rec.renewed => SdrSame(e.rec.vers))
SdrListWhole == \A n \in DOMAIN sdrList : SdrEntryWhole(sdrList[n])
(* What dumps leave behind.                                                *)
SdrDumpsRight ==
  /\ sdrShared \in SdrIters /\ sdrRaw \in Seq(SdrRaws)
  /\ \A n \in DOMAIN sdrRaw : sdrRaw[n].rec = SdrNoRecord \/ SdrEntryWhole(sdrRaw[n])
  /\ SdrDumping => sdrCmd.by = "none" /\ "dumped" \in sdrHist
  /\ "dumped" \in sdrHist => sdrUsed.commands > 0

(* While nothing disturbs the commands: the list has the records of kept   *)
(* types up to the m-th, in order.                                         *)
SdrPlace(id) == CHOOSE i \in DOMAIN SdrRecords : SdrRecords[i].id = id
SdrIs(e, i) ==
  /\ e.name = SdrRecords[i].id /\ e.type = SdrRecords[i].type /\ e.stype = SdrRecords[i].stype
  /\ e.entity = SdrRecords[i].entity
SdrListHas(list, m) ==
  /\ \A n \in DOMAIN list : \E i \in 1..m : SdrIs(list[n], i) /\ SdrRecords[i].type \in SdrKept
  /\ \A n1, n2 \in DOMAIN list : n1 < n2 => SdrPlace(list[n1].name) < SdrPlace(list[n2].name)
  /\ \A i \in 1..m : SdrRecords[i].type \in SdrKept => \E n \in DOMAIN list : list[n].name = SdrRecords[i].id
SdrStands(next, m) ==
  \/ next = 0 /\ m = 0
  \/ m \in 1..(SdrN - 1) /\ next = SdrRecords[m + 1].id
  \/ next = SdrEnd /\ m = SdrN
(* The c-th record is read, and the iterator is behind it.                 *)
SdrNames(id, c) == id = SdrRecords[c].id \/ (id = 0 /\ c = 1)
SdrReads(c) ==
  /\ c \in 1..SdrN /\ SdrNames(sdrHdr.id, c)
  /\ sdrHdr.type = SdrRecords[c].type /\ sdrHdr.len = SdrRecords[c].len /\ SdrStands(sdrItr.next, c)
  /\ \A j \in DOMAIN sdrBuf.vers : sdrBuf.vers[j] = <<SdrRecords[c].id, 1>>
SdrReached(m) ==
  /\ SdrListHas(sdrList, m)
  /\ CASE sdrAt \in {"record", "got"} -> SdrReads(m + 1)
       [] sdrAt = "file" -> sdrPos = m + 1
       [] OTHER -> SdrStands(sdrItr.next, m)

(* What was printed and is to be printed are the entries the command is    *)
(* about among those it has seen.                                          *)
SdrShows(out, todo) ==
  [k \in 1..(Len(out) + Len(todo)) |-> IF k <= Len(out) THEN out[k].id ELSE todo[k - Len(out)].name]
SdrSeen(pos, list) == IF pos = 0 THEN DOMAIN list ELSE 1..(pos - 1)
SdrShowsSeen(cmd, shows, list, seen) ==
  /\ \A k \in DOMAIN shows : \E n \in seen : list[n].name = shows[k] /\ SdrAbout(cmd, list[n])
  /\ \A k1, k2 \in DOMAIN shows : k1 < k2 => SdrPlace(shows[k1]) < SdrPlace(shows[k2])
  /\ \A n \in seen : SdrAbout(cmd, list[n]) => \E k \in DOMAIN shows : shows[k] = list[n].name
SdrDue(cmd, i) == SdrRecords[i].type \in SdrKept /\ SdrAbout(cmd, SdrEntry(SdrRecords[i], SdrRecords[i].id, SdrNoRecord))
SdrFinal(cmd, out) ==
  /\ \A n \in DOMAIN out : \E i \in 1..SdrN : SdrDue(cmd, i) /\ out[n].id = SdrRecords[i].id
  /\ \A n1, n2 \in DOMAIN out : n1 < n2 => SdrPlace(out[n1].id) < SdrPlace(out[n2].id)
  /\ \A i \in 1..SdrN : SdrDue(cmd, i) => \E n \in DOMAIN out : out[n].id = SdrRecords[i].id

SdrAsStored(r) == [id |-> r.id, type |-> r.type, len |-> r.len, stype |-> r.stype, entity |-> r.entity, ver |-> 1]
SdrUntouched == sdrRepo = [i \in DOMAIN SdrRecords |-> SdrAsStored(SdrRecords[i])] /\ sdrBmc = "up"
SdrIter ==
  /\ sdrItr.on = FALSE => sdrItr.next = 0
  /\ sdrAt \in {"file"} \cup SdrStarting => ~sdrItr.on
  /\ sdrAt \in {"listed", "print"} \cup SdrWalking => sdrItr.on
  /\ sdrAt = "record" => sdrHeld
SdrBusy == {"listed", "print"} \cup SdrStarting \cup SdrWalking
SdrWhere ==
  /\ sdrAt \in SdrStarting => sdrPos = 1 /\ sdrTodo = <<>> /\ sdrOut = <<>>
  /\ sdrAt = "listed" => sdrPos > 0
  /\ sdrAt \in {"listed", "print"} => sdrPos <= Len(sdrList) + 1
  /\ sdrAt \in SdrWalking => sdrPos = 0
  /\ sdrAt = "walked" \/ (sdrAt = "print" /\ sdrCmd.op = "collect") => sdrItr.next = SdrEnd /\ sdrPos = 0
  /\ sdrAt \in SdrBusy => sdrCmd.op \in {"print", "collect", "find"}
  /\ sdrAt \in {"new", "file"} => sdrUsed.commands = 0
SdrGoesOn == \E m \in 0..SdrN : SdrReached(m)
SdrShowing == sdrAt \in SdrBusy => SdrShowsSeen(sdrCmd, SdrShows(sdrOut, sdrTodo), sdrList, SdrSeen(sdrPos, sdrList))
SdrEnded == sdrAt = "idle" /\ sdrUsed.commands > 0 => SdrFinal(sdrCmd, sdrOut)
SdrCalm == SdrUntouched /\ sdrAt \notin SdrTroubled /\ SdrIter /\ SdrWhere /\ SdrGoesOn /\ SdrShowing /\ SdrEnded

(* The same of a dump: the list and the iterator of the other commands are *)
(* as they were, and what was dumped are the records in order, over and    *)
(* over, up to the m-th.                                                   *)
SdrTurn(j) == SdrRecords[((j - 1) % SdrN) + 1]
SdrCopy(e, r) == e.type = r.type /\ e.rec.vers = [k \in 1..r.len |-> <<r.id, 1>>]
SdrCopies(raw, m) ==
  /\ \E q \in Nat : Len(raw) = q * SdrN + m
  /\ \A j \in DOMAIN raw : SdrCopy(raw[j], SdrTurn(j))
SdrDumped(m) ==
  /\ SdrCopies(sdrRaw, m)
  /\ CASE sdrAt \in SdrStarting -> m = 0
       [] sdrAt \in {"record", "got"} -> SdrReads(m + 1)
       [] OTHER -> SdrStands(sdrItr.next, m)
SdrAside ==
  /\ sdrShared.on = FALSE => sdrShared.next = 0
  /\ \E m \in 0..SdrN : SdrListHas(sdrList, m) /\ SdrStands(sdrShared.next, m)
SdrDumpCalm ==
  /\ SdrUntouched /\ sdrAt \in SdrStarting \cup SdrWalking /\ sdrOut = <<>> /\ SdrAside
  /\ (sdrAt = "record" => sdrHeld) /\ (sdrAt = "walked" => sdrItr.next = SdrEnd)
  /\ \E m \in 0..SdrN : SdrDumped(m)
SdrDumpsFull == SdrCopies(sdrRaw, 0) /\ (SdrDumping => Len(sdrRaw) >= SdrN)
SdrUndisturbed == sdrHist \subseteq {"dumped"} /\ sdrAt # "crashed"
SdrInDump == SdrDumping /\ sdrAt # "idle"
SdrInv ==
  /\ SdrTyped /\ SdrInHand /\ SdrListWhole /\ SdrDumpsRight
  /\ SdrUndisturbed => IF SdrInDump THEN SdrDumpCalm ELSE SdrCalm /\ SdrDumpsFull

SdrGiven == [id : SdrIds, type : SdrTypes, len : Nat \ {0}, stype : SdrStypes, entity : SdrEntities]
SdrFits(r) ==
  /\ r.id \in 1..(SdrEnd - 1) /\ r.type \in SdrTypes /\ r.len \in Nat \ {0}
  /\ r.id \in SdrIds /\ r.stype \in SdrStypes /\ r.entity \in SdrEntities /\ r \in SdrGiven
LEMMA SdrConstants == SdrN \in Nat /\ DOMAIN SdrRecords = 1..SdrN /\ \A i \in 1..SdrN : SdrFits(SdrRecords[i])
<1> DEFINE T == [id : 1..(SdrEnd - 1), type : SdrTypes, len : Nat \ {0}, stype : SdrStypes, entity : SdrEntities]
<1>0. SdrRecords \in Seq(T)
  BY SdrNumbers, Zenon
<1> HIDE DEF T
<1>1. SdrN \in Nat /\ DOMAIN SdrRecords = 1..SdrN /\ \A i \in 1..SdrN : SdrRecords[i] \in T
  BY <1>0 DEF SdrN
<1>2. ASSUME NEW r \in T, r.id \in SdrIds PROVE SdrFits(r)
  <2>1. r.id \in 1..(SdrEnd - 1) /\ r.type \in SdrTypes /\ r.len \in Nat \ {0} /\ r.stype \in SdrStypes /\ r.entity \in SdrEntities
    BY DEF T
  <2>2. r \in SdrGiven
    BY <1>2 DEF SdrGiven, T
  <2> QED BY <2>1, <2>2, <1>2 DEF SdrFits
<1>3. \A i \in 1..SdrN : SdrRecords[i].id \in SdrIds
  BY <1>1 DEF SdrIds
<1> QED BY <1>1, <1>2, <1>3

LEMMA SdrPlaceOf == \A i \in 1..SdrN : SdrPlace(SdrRecords[i].id) = i /\ SdrOf(SdrRecords[i].id) = SdrRecords[i]
<1> SUFFICES ASSUME NEW i \in 1..SdrN PROVE SdrPlace(SdrRecords[i].id) = i /\ SdrOf(SdrRecords[i].id) = SdrRecords[i]
  OBVIOUS
<1>1. \A j \in DOMAIN SdrRecords : SdrRecords[j].id = SdrRecords[i].id => j = i
  <2>1. \A a, b \in DOMAIN SdrRecords : SdrRecords[a].id = SdrRecords[b].id => a = b
    BY SdrNumbers, Zenon
  <2> QED BY <2>1, SdrConstants
<1>2. (CHOOSE j \in DOMAIN SdrRecords : SdrRecords[j].id = SdrRecords[i].id) = i
  BY <1>1, SdrConstants
<1> QED BY <1>2 DEF SdrPlace, SdrOf

LEMMA SdrIdsFrom == \A x \in SdrIds : x \in 1..(SdrEnd - 1) /\ \E i \in 1..SdrN : x = SdrRecords[i].id
BY SdrConstants DEF SdrIds, SdrFits
LEMMA SdrPlaceNat == \A x \in SdrIds : SdrPlace(x) \in 1..SdrN
BY SdrIdsFrom, SdrPlaceOf
LEMMA SdrOfType ==
  \A x \in SdrIds : SdrOf(x) \in SdrGiven /\ SdrOf(x).id = x
BY SdrIdsFrom, SdrPlaceOf, SdrConstants DEF SdrFits

LEMMA SdrEntryType ==
  ASSUME NEW r \in SdrGiven, NEW id \in Nat,
         NEW rec \in SdrBuffers
  PROVE  /\ SdrEntry(r, id, rec) \in SdrEntries /\ SdrEntry(r, id, rec).name = r.id /\ SdrEntry(r, id, rec).type = r.type
         /\ SdrEntry(r, id, rec).stype = r.stype /\ SdrEntry(r, id, rec).entity = r.entity /\ SdrEntry(r, id, rec).len = r.len
         /\ SdrEntry(r, id, rec).rec = rec
BY DEF SdrEntry, SdrEntries, SdrGiven

(* An entry that was read.                                                 *)
LEMMA SdrReadType ==
  ASSUME SdrTyped, sdrBuf.vers # <<>>
  PROVE  /\ SdrRead \in SdrEntries /\ SdrRead.name = sdrBuf.vers[1][1] /\ SdrRead.type = sdrHdr.type
         /\ SdrRead.stype = SdrOf(sdrBuf.vers[1][1]).stype /\ SdrRead.entity = SdrOf(sdrBuf.vers[1][1]).entity
         /\ SdrRead.len = sdrHdr.len /\ SdrRead.rec = sdrBuf
<1> DEFINE x == sdrBuf.vers[1][1]
           r == [SdrOf(x) EXCEPT !.type = sdrHdr.type, !.len = sdrHdr.len]
<1>1. sdrBuf \in SdrBuffers /\ sdrBuf.vers \in Seq(SdrBytes)
  BY DEF SdrTyped, SdrBuffers
<1>2. 1 \in DOMAIN sdrBuf.vers
  BY <1>1
<1>3. sdrBuf.vers[1] \in SdrBytes
  BY <1>1, <1>2
<1>4. x \in SdrIds
  BY <1>3 DEF SdrBytes
<1> HIDE DEF x
<1>5. SdrOf(x) \in SdrGiven /\ SdrOf(x).id = x
  BY <1>4, SdrOfType
<1>6. sdrHdr.type \in SdrTypes /\ sdrHdr.len \in Nat /\ sdrHdr.id \in Nat
  BY DEF SdrTyped, SdrHeaders
<1>7. r.id = x /\ r.type = sdrHdr.type /\ r.len = sdrHdr.len /\ r.stype = SdrOf(x).stype /\ r.entity = SdrOf(x).entity
      /\ r.stype \in SdrStypes /\ r.entity \in SdrEntities
  BY <1>5, <1>6 DEF SdrGiven
<1> HIDE DEF r
<1>8. SdrRead = SdrEntry(r, sdrHdr.id, sdrBuf)
  BY DEF SdrRead, r, x
<1>9. SdrRead = [id |-> sdrHdr.id, name |-> x, type |-> sdrHdr.type, stype |-> SdrOf(x).stype, entity |-> SdrOf(x).entity,
                 len |-> sdrHdr.len, rec |-> sdrBuf]
  BY <1>7, <1>8 DEF SdrEntry
<1> QED BY <1>1, <1>4, <1>6, <1>7, <1>9 DEF SdrEntries, x

(* What the repository gives.                                              *)
LEMMA SdrTheType ==
  ASSUME SdrTyped, NEW id, SdrIndex(id) # {}
  PROVE  SdrThe(id) \in SdrStored /\ SdrAfter(id) \in Nat
<1> DEFINE i == CHOOSE j \in SdrIndex(id) : TRUE
<1>1. i \in SdrIndex(id)
  OBVIOUS
<1>2. sdrRepo \in Seq(SdrStored)
  BY DEF SdrTyped
<1>3. SdrIndex(id) \subseteq DOMAIN sdrRepo
  <2>1. CASE id = 0
    BY <1>2, <2>1 DEF SdrIndex
  <2>2. CASE id # 0
    BY <2>2 DEF SdrIndex
  <2> QED BY <2>1, <2>2
<1>4. i \in DOMAIN sdrRepo
  BY <1>1, <1>3
<1> HIDE DEF i
<1>5. sdrRepo[i] \in SdrStored
  BY <1>2, <1>4
<1>6. (IF i = Len(sdrRepo) THEN SdrEnd ELSE sdrRepo[i + 1].id) \in Nat
  <2>1. CASE i = Len(sdrRepo)
    BY <2>1, SdrNumbers
  <2>2. CASE i # Len(sdrRepo)
    <3>1. i + 1 \in DOMAIN sdrRepo
      BY <1>2, <1>4, <2>2
    <3>2. sdrRepo[i + 1] \in SdrStored
      BY <1>2, <3>1
    <3>3. sdrRepo[i + 1].id \in Nat
      BY <3>2, SdrIdsFrom DEF SdrStored
    <3> QED BY <2>2, <3>3
  <2> QED BY <2>1, <2>2
<1> QED BY <1>5, <1>6 DEF SdrThe, SdrAfter, i
LEMMA SdrGetOk == ASSUME NEW id, NEW n, SdrGet(id, n) = "ok" PROVE SdrIndex(id) # {} /\ sdrHeld /\ ~(n > sdrLimit)
BY DEF SdrGet

(* Every step keeps the types, and reads whole records.                    *)
SdrSound == SdrTyped /\ SdrInHand /\ SdrListWhole
LEMMA SdrInit1 == SdrInit => SdrSound
<1> SUFFICES ASSUME SdrInit PROVE SdrSound
  OBVIOUS
<1>1. sdrRepo \in Seq(SdrStored)
  <2> DEFINE f == [i \in DOMAIN SdrRecords |->
                    [id |-> SdrRecords[i].id, type |-> SdrRecords[i].type, len |-> SdrRecords[i].len,
                     stype |-> SdrRecords[i].stype, entity |-> SdrRecords[i].entity, ver |-> 1]]
  <2>1. DOMAIN SdrRecords = 1..SdrN /\ SdrN \in Nat
    BY SdrConstants
  <2>2. \A i \in 1..SdrN : [id |-> SdrRecords[i].id, type |-> SdrRecords[i].type, len |-> SdrRecords[i].len,
                            stype |-> SdrRecords[i].stype, entity |-> SdrRecords[i].entity, ver |-> 1] \in SdrStored
    BY SdrConstants DEF SdrFits, SdrStored
  <2>3. f \in [1..SdrN -> SdrStored]
    BY <2>1, <2>2
  <2>4. [1..SdrN -> SdrStored] \subseteq Seq(SdrStored)
    BY <2>1
  <2>5. sdrRepo = f
    BY DEF SdrInit
  <2> QED BY <2>3, <2>4, <2>5
<1>2. sdrHdr \in SdrHeaders /\ sdrBuf \in SdrBuffers
  BY DEF SdrInit, SdrNoHeader, SdrNoRecord, SdrHeaders, SdrBuffers, SdrTypes
<1>3. sdrHeld \in BOOLEAN /\ sdrLimit \in Nat \ {0} /\ sdrCap \in Nat /\ sdrItr \in SdrIters
      /\ sdrList = <<>> /\ sdrTodo = <<>> /\ sdrOut = <<>> /\ sdrAt = "new" /\ sdrPos = 0
      /\ sdrUsed \in [commands : Nat, faults : Nat] /\ sdrCmd.op # "find"
  <2>1. 255 \in Nat \ {0}
    OBVIOUS
  <2>2. sdrHeld = FALSE /\ sdrLimit = 255 /\ sdrCap = 255 /\ sdrItr = [on |-> FALSE, next |-> 0]
        /\ sdrUsed = [commands |-> 0, faults |-> 0] /\ sdrCmd.op = "none"
    BY DEF SdrInit, SdrNoItr
  <2>3. sdrList = <<>> /\ sdrTodo = <<>> /\ sdrOut = <<>> /\ sdrAt = "new" /\ sdrPos = 0
    BY DEF SdrInit
  <2> QED BY <2>1, <2>2, <2>3 DEF SdrIters
<1>4. SdrTyped
  BY <1>1, <1>2, <1>3 DEF SdrTyped, SdrSteps, SdrStarting
<1>5. SdrInHand
  BY <1>3 DEF SdrInHand
<1>6. SdrListWhole
  BY <1>3 DEF SdrListWhole
<1> QED BY <1>4, <1>5, <1>6 DEF SdrSound

LEMMA SdrCountType == ASSUME SdrTyped, NEW r, SdrCount(r) PROVE sdrUsed' \in [commands : Nat, faults : Nat]
<1>1. sdrUsed \in [commands : Nat, faults : Nat]
  BY DEF SdrTyped
<1>2. [sdrUsed EXCEPT !.faults = @ + 1] \in [commands : Nat, faults : Nat]
  BY <1>1
<1> QED BY <1>1, <1>2 DEF SdrCount

SdrOrder(cmd) == cmd.op \in {"print", "collect", "find"} /\ (cmd.op = "find" => cmd.by \in {"num", "id"})
LEMMA SdrBegins1 == ASSUME SdrSound, NEW cmd, SdrBegins(cmd), SdrOrder(cmd) PROVE SdrSound'
<1>1. SdrTyped /\ SdrListWhole
  BY DEF SdrSound
<1>2. sdrUsed' \in [commands : Nat, faults : Nat]
  <2>1. sdrUsed \in [commands : Nat, faults : Nat] /\ sdrUsed' = [sdrUsed EXCEPT !.commands = @ + 1]
    BY <1>1 DEF SdrTyped, SdrBegins
  <2> QED BY <2>1
<1>3. sdrCmd'.op = "find" => sdrCmd'.by \in {"num", "id"}
  BY DEF SdrBegins, SdrOrder
<1>4. sdrHdr' \in SdrHeaders
  BY DEF SdrBegins, SdrNoHeader, SdrHeaders, SdrTypes
<1>5. sdrAt' \in {"listed", "devid"} /\ sdrPos' = 1 /\ sdrTodo' = <<>> /\ sdrOut' = <<>>
      /\ UNCHANGED <<sdrRepo, sdrLimit, sdrHeld, sdrCap, sdrItr, sdrList, sdrBuf>>
  BY DEF SdrBegins, sdrBmcVars
<1>6. SdrTyped'
  BY <1>1, <1>2, <1>3, <1>4, <1>5 DEF SdrTyped, SdrSteps, SdrStarting
<1>7. SdrInHand' /\ SdrListWhole'
  BY <1>1, <1>5 DEF SdrInHand, SdrListWhole
<1> QED BY <1>6, <1>7 DEF SdrSound
LEMMA SdrCommands ==
  ASSUME ipmi_sdr_main \/ SdrCallers PROVE ipmi_sdr_dump_bin \/ \E cmd : SdrBegins(cmd) /\ SdrOrder(cmd)
<1>1. \A op, by, arg, ext, shown : op \in {"print", "collect"} \/ (op = "find" /\ by \in {"num", "id"}) =>
        SdrOrder(SdrCmd(op, by, arg, ext, shown))
  BY DEF SdrOrder, SdrCmd
<1>2. CASE \E types, e : ipmi_sdr_print_sdr(types, e)
  <2>1. PICK types, e : SdrBegins(SdrCmd("print", "type", types, e, TRUE))
    BY <1>2 DEF ipmi_sdr_print_sdr
  <2> QED BY <1>1, <2>1
<1>3. CASE \E t, s : ipmi_sdr_find_sdr_bysensortype(t, s)
  <2>1. PICK t, s : SdrBegins(SdrCmd("collect", "stype", t, TRUE, s))
    BY <1>3 DEF ipmi_sdr_find_sdr_bysensortype
  <2> QED BY <1>1, <2>1
<1>4. CASE \E t, s : ipmi_sdr_find_sdr_byentity(t, s)
  <2>1. PICK t, s : SdrBegins(SdrCmd("collect", "entity", t, TRUE, s))
    BY <1>4 DEF ipmi_sdr_find_sdr_byentity
  <2> QED BY <1>1, <2>1
<1>5. CASE \E t, s : ipmi_sdr_find_sdr_byid(t, s)
  <2>1. PICK t, s : SdrBegins(SdrCmd("find", "id", t, FALSE, s))
    BY <1>5 DEF ipmi_sdr_find_sdr_byid
  <2> QED BY <1>1, <2>1
<1>6. CASE \E num, type : ipmi_sdr_find_sdr_bynumtype(num, type)
  <2>1. PICK num, type : SdrBegins(SdrCmd("find", "num", <<num, type>>, FALSE, FALSE))
    BY <1>6 DEF ipmi_sdr_find_sdr_bynumtype
  <2> QED BY <1>1, <2>1
<1>7. CASE ipmi_sdr_find_sdr_bytype("compact")
  <2>1. SdrBegins(SdrCmd("collect", "type", {"compact"}, FALSE, FALSE))
    BY <1>7 DEF ipmi_sdr_find_sdr_bytype
  <2> QED BY <1>1, <2>1
<1>8. CASE ipmi_sdr_list_cache
  <2>1. SdrBegins(SdrCmd("collect", "none", 0, FALSE, FALSE))
    BY <1>8 DEF ipmi_sdr_list_cache
  <2> QED BY <1>1, <2>1
<1> QED BY <1>2, <1>3, <1>4, <1>5, <1>6, <1>7, <1>8
        DEF ipmi_sdr_main, SdrCallers, ipmi_sdr_print_type, ipmi_sdr_print_entity, ipmi_sdr_print_entry_byid

LEMMA SdrDump1 == ASSUME SdrSound, ipmi_sdr_dump_bin PROVE SdrSound'
<1>1. SdrTyped /\ SdrListWhole
  BY DEF SdrSound
<1>2. sdrUsed' \in [commands : Nat, faults : Nat]
  <2>1. sdrUsed \in [commands : Nat, faults : Nat] /\ sdrUsed' = [sdrUsed EXCEPT !.commands = @ + 1]
    BY <1>1 DEF SdrTyped, ipmi_sdr_dump_bin
  <2> QED BY <2>1
<1>3. sdrCmd'.op = "dump"
  BY DEF ipmi_sdr_dump_bin, SdrCmd
<1>4. sdrHdr' \in SdrHeaders /\ sdrItr' \in SdrIters
  BY DEF ipmi_sdr_dump_bin, SdrNoHeader, SdrHeaders, SdrTypes, SdrNoItr, SdrIters
<1>5. sdrAt' = "devid" /\ sdrPos' = 1 /\ sdrTodo' = <<>> /\ sdrOut' = <<>>
      /\ UNCHANGED <<sdrRepo, sdrLimit, sdrHeld, sdrCap, sdrList, sdrBuf>>
  BY DEF ipmi_sdr_dump_bin, sdrBmcVars
<1>6. SdrTyped'
  BY <1>1, <1>2, <1>3, <1>4, <1>5 DEF SdrTyped, SdrSteps, SdrStarting
<1>7. SdrInHand' /\ SdrListWhole'
  BY <1>1, <1>5 DEF SdrInHand, SdrListWhole
<1> QED BY <1>6, <1>7 DEF SdrSound

LEMMA SdrQuiet ==
  ASSUME SdrSound, sdrAt' \in SdrSteps \ {"record", "renew_record", "got"},
         UNCHANGED <<sdrRepo, sdrList, sdrHdr, sdrBuf, sdrCmd>>, sdrHeld' \in BOOLEAN, sdrLimit' \in Nat \ {0}, sdrCap' \in Nat,
         sdrItr' \in SdrIters, sdrPos' \in Nat, sdrTodo' \in Seq(SdrEntries),
         sdrOut' \in Seq([id : SdrIds, shown : {"value", "ns"}]), sdrUsed' \in [commands : Nat, faults : Nat]
  PROVE  (sdrAt' \in {"file", "listed"} \cup SdrStarting => sdrPos' > 0)
         /\ (sdrAt' = "print" => sdrTodo' # <<>>) => SdrSound'
<1> HAVE (sdrAt' \in {"file", "listed"} \cup SdrStarting => sdrPos' > 0) /\ (sdrAt' = "print" => sdrTodo' # <<>>)
<1>1. SdrTyped'
  BY DEF SdrSound, SdrTyped
<1>2. SdrInHand' /\ SdrListWhole'
  BY DEF SdrSound, SdrInHand, SdrListWhole
<1> QED BY <1>1, <1>2 DEF SdrSound

LEMMA SdrAppendWhole ==
  ASSUME SdrTyped, SdrListWhole, NEW e \in SdrEntries, SdrEntryWhole(e)
  PROVE  /\ Append(sdrList, e) \in Seq(SdrEntries)
         /\ \A n \in DOMAIN Append(sdrList, e) : SdrEntryWhole(Append(sdrList, e)[n])
<1> DEFINE s == Append(sdrList, e)
<1>1. sdrList \in Seq(SdrEntries)
  BY DEF SdrTyped
<1>2. s \in Seq(SdrEntries) /\ \A n \in DOMAIN s : (n \in DOMAIN sdrList /\ s[n] = sdrList[n]) \/ s[n] = e
  BY <1>1
<1> HIDE DEF s
<1>3. \A n \in DOMAIN s : SdrEntryWhole(s[n])
  BY <1>2 DEF SdrListWhole
<1> QED BY <1>2, <1>3 DEF s

LEMMA SdrFromFileType ==
  ASSUME NEW i \in 1..SdrN
  PROVE  /\ SdrFromFile(SdrRecords[i]) \in SdrEntries /\ SdrEntryWhole(SdrFromFile(SdrRecords[i]))
         /\ SdrIs(SdrFromFile(SdrRecords[i]), i)
<1>1. PICK r \in SdrGiven : r = SdrRecords[i]
  BY SdrConstants DEF SdrFits
<1> DEFINE v == [j \in 1..r.len |-> <<r.id, 0>>]
           b == [vers |-> v, renewed |-> FALSE]
<1>2. r.id \in SdrIds /\ r.len \in Nat \ {0} /\ r.id \in Nat
  BY SdrIdsFrom, SdrNumbers DEF SdrGiven
<1>3. v \in Seq(SdrBytes) /\ Len(v) = r.len /\ SdrSame(v)
  <2>1. <<r.id, 0>> \in SdrBytes
    BY <1>2 DEF SdrBytes
  <2>2. v \in [1..r.len -> SdrBytes]
    BY <2>1
  <2>3. v \in Seq(SdrBytes) /\ DOMAIN v = 1..r.len
    BY <1>2, <2>2, SMTT(30)
  <2>4. Len(v) = r.len
    BY <1>2, <2>3
  <2>5. SdrSame(v)
    BY <1>2 DEF SdrSame
  <2> QED BY <2>3, <2>4, <2>5
<1> HIDE DEF v
<1>4. b \in SdrBuffers /\ b.vers = v /\ b.renewed = FALSE
  BY <1>3 DEF SdrBuffers
<1> HIDE DEF b
<1>5. SdrFromFile(r) = SdrEntry(r, r.id, b)
  BY DEF SdrFromFile, b, v
<1>6. /\ SdrEntry(r, r.id, b) \in SdrEntries /\ SdrEntry(r, r.id, b).name = r.id /\ SdrEntry(r, r.id, b).type = r.type
      /\ SdrEntry(r, r.id, b).stype = r.stype /\ SdrEntry(r, r.id, b).entity = r.entity /\ SdrEntry(r, r.id, b).len = r.len
      /\ SdrEntry(r, r.id, b).rec = b
  BY <1>2, <1>4, SdrEntryType
<1>7. SdrEntryWhole(SdrEntry(r, r.id, b))
  BY <1>2, <1>3, <1>4, <1>6 DEF SdrEntryWhole
<1>8. SdrIs(SdrEntry(r, r.id, b), i)
  BY <1>1, <1>6 DEF SdrIs
<1> QED BY <1>1, <1>5, <1>6, <1>7, <1>8

LEMMA SdrFileRecord1 == ASSUME SdrSound, SdrFileRecord PROVE SdrSound'
<1> DEFINE r == SdrRecords[sdrPos]
           e == SdrFromFile(r)
<1>1. SdrTyped /\ SdrListWhole /\ sdrPos \in Nat /\ sdrPos > 0
  BY DEF SdrSound, SdrTyped, SdrFileRecord
<1>2. UNCHANGED <<sdrRepo, sdrHeld, sdrLimit, sdrCap, sdrItr, sdrAt, sdrCmd, sdrHdr, sdrBuf, sdrTodo, sdrOut, sdrUsed>>
      /\ sdrPos' = sdrPos + 1 /\ sdrAt = "file"
  BY DEF SdrFileRecord, sdrBmcVars
<1>3. sdrList' \in Seq(SdrEntries) /\ SdrListWhole'
  <2>1. CASE r.type \notin SdrKept
    <3>1. UNCHANGED sdrList
      BY <2>1 DEF SdrFileRecord
    <3> QED BY <1>1, <3>1 DEF SdrTyped, SdrListWhole
  <2>2. CASE r.type \in SdrKept
    <3>1. sdrPos \in 1..SdrN
      BY <1>1, SdrConstants DEF SdrFileRecord, SdrN
    <3>2. e \in SdrEntries /\ SdrEntryWhole(e)
      BY <3>1, SdrFromFileType
    <3>3. sdrList' = Append(sdrList, e)
      BY <2>2 DEF SdrFileRecord
    <3> HIDE DEF e
    <3> QED BY <1>1, <3>2, <3>3, SdrAppendWhole DEF SdrListWhole
  <2> QED BY <2>1, <2>2
<1>4. SdrTyped'
  BY <1>1, <1>2, <1>3 DEF SdrTyped
<1>5. SdrInHand'
  BY <1>2 DEF SdrInHand
<1> QED BY <1>3, <1>4, <1>5 DEF SdrSound


SdrHold == /\ sdrHeld' \in BOOLEAN /\ sdrLimit' \in Nat \ {0} /\ sdrCap' \in Nat
           /\ sdrItr' \in SdrIters /\ sdrPos' \in Nat /\ sdrTodo' \in Seq(SdrEntries)
           /\ sdrOut' \in Seq([id : SdrIds, shown : {"value", "ns"}]) /\ sdrUsed' \in [commands : Nat, faults : Nat]
LEMMA SdrQuietly ==
  ASSUME SdrSound, sdrAt' \in SdrSteps \ {"record", "renew_record", "got"},
         sdrAt' \in {"file", "listed"} \cup SdrStarting => sdrPos' > 0, sdrAt' = "print" => sdrTodo' # <<>>,
         UNCHANGED <<sdrRepo, sdrList, sdrHdr, sdrBuf, sdrCmd>>, SdrHold
  PROVE  SdrSound'
BY SdrQuiet DEF SdrHold
LEMMA SdrEasy1 ==
  ASSUME SdrSound, SdrBmcIs \/ ipmi_sdr_list_cache_fromfile \/ SdrFileEnd \/ SdrNoRec \/ SdrWalked
  PROVE  SdrSound'
<1>0. SdrTyped
  BY DEF SdrSound
<1>1. CASE SdrBmcIs
  <2>1. sdrLimit' \in Nat \ {0}
    BY <1>1, SdrNumbers DEF SdrBmcIs
  <2>2. SdrHold /\ sdrAt' = "idle" /\ UNCHANGED <<sdrRepo, sdrList, sdrHdr, sdrBuf, sdrCmd>>
    BY <1>0, <1>1, <2>1 DEF SdrBmcIs, SdrHold, SdrTyped
  <2> QED BY <2>2, SdrQuietly DEF SdrSteps, SdrStarting
<1>2. CASE ipmi_sdr_list_cache_fromfile
  <2>2. SdrHold /\ sdrAt' = "file" /\ sdrPos' = 1 /\ UNCHANGED <<sdrRepo, sdrList, sdrHdr, sdrBuf, sdrCmd>>
    BY <1>0, <1>2 DEF ipmi_sdr_list_cache_fromfile, SdrHold, SdrTyped, sdrBmcVars
  <2> QED BY <2>2, SdrQuietly DEF SdrSteps, SdrStarting
<1>3. CASE SdrFileEnd
  <2>1. sdrItr' \in SdrIters
    BY <1>3, SdrNumbers DEF SdrFileEnd, SdrIters
  <2>2. SdrHold /\ sdrAt' = "idle" /\ UNCHANGED <<sdrRepo, sdrList, sdrHdr, sdrBuf, sdrCmd>>
    BY <1>0, <1>3, <2>1 DEF SdrFileEnd, SdrHold, SdrTyped, sdrBmcVars
  <2> QED BY <2>2, SdrQuietly DEF SdrSteps, SdrStarting
<1>4. CASE SdrNoRec
  <2>2. SdrHold /\ sdrAt' = "header" /\ UNCHANGED <<sdrRepo, sdrList, sdrHdr, sdrBuf, sdrCmd>>
    BY <1>0, <1>4 DEF SdrNoRec, SdrHold, SdrTyped, sdrBmcVars
  <2> QED BY <2>2, SdrQuietly DEF SdrSteps, SdrStarting, SdrWalking
<1>5. CASE SdrWalked
  <2>1. sdrAt' \in {"print", "idle"} /\ (sdrAt' = "print" => sdrTodo' # <<>>)
    BY <1>5 DEF SdrWalked, SdrEnds
  <2>2. SdrHold /\ UNCHANGED <<sdrRepo, sdrList, sdrHdr, sdrBuf, sdrCmd>>
    BY <1>0, <1>5 DEF SdrWalked, SdrHold, SdrTyped, sdrBmcVars
  <2> QED BY <2>1, <2>2, SdrQuietly DEF SdrSteps, SdrStarting
<1> QED BY <1>1, <1>2, <1>3, <1>4, <1>5

LEMMA SdrWrite1 == ASSUME SdrSound, SdrDumpsRight, SdrWrite PROVE SdrSound'
<1>0. SdrTyped
  BY DEF SdrSound
<1>1. sdrItr' \in SdrIters /\ sdrHeld' \in BOOLEAN /\ sdrAt' \in {"idle", "crashed"}
  BY <1>0 DEF SdrWrite, SdrEnds, SdrOldItr, SdrTyped, SdrDumpsRight
<1>2. SdrHold /\ UNCHANGED <<sdrRepo, sdrList, sdrHdr, sdrBuf, sdrCmd>>
  BY <1>0, <1>1 DEF SdrWrite, SdrHold, SdrTyped, sdrBmcVars
<1> QED BY <1>1, <1>2, SdrQuietly DEF SdrSteps, SdrStarting, SdrTroubled

LEMMA SdrStart1 == ASSUME SdrSound, SdrDumpsRight, ipmi_sdr_start PROVE SdrSound'
<1>0. SdrTyped
  BY DEF SdrSound
<1>1. PICK r : /\ SdrCount(r)
               /\ IF sdrAt = "devid" /\ r # "none" THEN sdrAt' = "info" /\ UNCHANGED sdrRc
                  ELSE IF r = "ok" THEN sdrAt' = "reserve" /\ UNCHANGED sdrRc ELSE SdrEnds(-1)
  BY DEF ipmi_sdr_start
<1>2. sdrUsed' \in [commands : Nat, faults : Nat]
  BY <1>0, <1>1, SdrCountType
<1>3. sdrAt' \in {"info", "reserve", "idle"}
  BY <1>1 DEF SdrEnds
<1>5. sdrItr' \in SdrIters
  BY <1>0 DEF ipmi_sdr_start, SdrOldItr, SdrTyped, SdrDumpsRight
<1>4. SdrHold /\ UNCHANGED <<sdrRepo, sdrList, sdrHdr, sdrBuf, sdrCmd>> /\ sdrPos' > 0
  BY <1>0, <1>2, <1>5 DEF ipmi_sdr_start, SdrHold, SdrTyped, sdrBmcVars, SdrStarting
<1> QED BY <1>3, <1>4, SdrQuietly DEF SdrSteps, SdrStarting

LEMMA SdrTakesType == ASSUME SdrTyped, NEW e \in SdrEntries, NEW o, SdrTakes(e, o)
  PROVE sdrTodo' \in Seq(SdrEntries) /\ ((sdrAt' = "print" /\ sdrTodo' # <<>>) \/ sdrAt' = o)
<1>1. sdrTodo \in Seq(SdrEntries)
  BY DEF SdrTyped
<1>2. Append(sdrTodo, e) \in Seq(SdrEntries) /\ Len(Append(sdrTodo, e)) = Len(sdrTodo) + 1 /\ Len(sdrTodo) \in Nat
  BY <1>1
<1>3. Append(sdrTodo, e) # <<>>
  BY <1>2
<1> QED BY <1>1, <1>2, <1>3 DEF SdrTakes
LEMMA SdrListed1 == ASSUME SdrSound, SdrListed PROVE SdrSound'
<1>0. SdrTyped
  BY DEF SdrSound
<1>1. /\ sdrPos' \in Nat /\ sdrTodo' \in Seq(SdrEntries) /\ sdrAt' \in {"print", "listed", "header", "crashed"}
      /\ (sdrAt' = "listed" => sdrPos' > 0) /\ (sdrAt' = "print" => sdrTodo' # <<>>)
  <2> DEFINE dies == \E j \in SdrMet : SdrReadsNull(sdrRaw[j].type)
  <2>0. CASE dies
    BY <1>0, <2>0 DEF SdrListed, SdrTyped
  <2>1. CASE ~dies /\ sdrPos <= Len(sdrList)
    <3>1. SdrTakes(sdrList[sdrPos], "listed") /\ sdrPos' = sdrPos + 1
      BY <2>1 DEF SdrListed
    <3>2. sdrPos \in Nat /\ sdrList \in Seq(SdrEntries) /\ sdrPos > 0
      BY <1>0 DEF SdrTyped, SdrListed
    <3>3. sdrList[sdrPos] \in SdrEntries
      BY <2>1, <3>2
    <3> QED BY <1>0, <3>1, <3>2, <3>3, SdrTakesType
  <2>2. CASE ~dies /\ ~(sdrPos <= Len(sdrList))
    <3>1. sdrAt' = "header" /\ sdrPos' = 0 /\ UNCHANGED sdrTodo
      BY <2>2 DEF SdrListed
    <3> QED BY <1>0, <3>1 DEF SdrTyped
  <2> QED BY <2>0, <2>1, <2>2
<1>4. SdrHold /\ UNCHANGED <<sdrRepo, sdrList, sdrHdr, sdrBuf, sdrCmd>>
  BY <1>0, <1>1 DEF SdrListed, SdrHold, SdrTyped, sdrBmcVars
<1> QED BY <1>1, <1>4, SdrQuietly DEF SdrSteps, SdrStarting, SdrWalking, SdrTroubled

LEMMA SdrReserve1 == ASSUME SdrSound, SdrDumpsRight, ipmi_sdr_get_reservation PROVE SdrSound'
<1>0. SdrTyped /\ SdrInHand /\ SdrListWhole
  BY DEF SdrSound
<1>1. PICK r : /\ SdrCount(r)
               /\ sdrHeld' = (r = "ok" \/ sdrHeld)
               /\ CASE sdrAt = "reserve" /\ r = "ok" ->
                         /\ sdrItr' = [on |-> TRUE, next |-> 0]
                         /\ sdrAt' = (IF SdrDumping THEN "header" ELSE "listed") /\ UNCHANGED <<sdrRc, sdrHdr, sdrBuf>>
                    [] sdrAt = "reserve" /\ r # "ok" -> SdrEnds(-1) /\ sdrItr' = SdrOldItr /\ UNCHANGED <<sdrHdr, sdrBuf>>
                    [] sdrAt = "renew_header" ->
                         /\ sdrAt' = IF r # "ok" THEN "walked" ELSE IF sdrHdr.try = 5 THEN "garbage" ELSE "header"
                         /\ UNCHANGED <<sdrItr, sdrHdr, sdrRc, sdrBuf>>
                    [] OTHER ->
                         /\ sdrAt' = IF r = "ok" THEN "record" ELSE "norecord"
                         /\ sdrBuf' = [sdrBuf EXCEPT !.renewed = TRUE]
                         /\ UNCHANGED <<sdrItr, sdrHdr, sdrRc>>
  BY DEF ipmi_sdr_get_reservation
<1>2. sdrUsed' \in [commands : Nat, faults : Nat]
  BY <1>0, <1>1, SdrCountType
<1>3. UNCHANGED <<sdrRepo, sdrLimit, sdrCap, sdrList, sdrCmd, sdrPos, sdrTodo, sdrOut>> /\ sdrHeld' \in BOOLEAN
      /\ sdrAt \in {"reserve", "renew_header", "renew_record"}
  BY <1>1 DEF ipmi_sdr_get_reservation, sdrBmcVars
<1>4. CASE sdrAt \in {"reserve", "renew_header"}
  <2>1. sdrItr' \in SdrIters
    <3>1. sdrItr' \in {[on |-> TRUE, next |-> 0], sdrItr, SdrOldItr}
      BY <1>1, <1>4
    <3>2. [on |-> TRUE, next |-> 0] \in SdrIters
      BY DEF SdrIters
    <3> QED BY <1>0, <3>1, <3>2 DEF SdrTyped, SdrOldItr, SdrDumpsRight
  <2>2. SdrHold
    BY <1>0, <1>2, <1>3, <2>1 DEF SdrHold, SdrTyped
  <2>3. UNCHANGED <<sdrHdr, sdrBuf>>
    BY <1>1, <1>4
  <2>4. /\ sdrAt' \in {"listed", "idle", "walked", "garbage", "header"}
        /\ sdrAt' = "listed" => sdrPos' > 0
    BY <1>0, <1>1, <1>3, <1>4 DEF SdrEnds, SdrTyped, SdrStarting
  <2> QED BY <1>3, <2>2, <2>3, <2>4, SdrQuietly DEF SdrSteps, SdrStarting, SdrWalking
<1>5. CASE sdrAt = "renew_record"
  <2>1. sdrAt' \in {"record", "norecord"} /\ UNCHANGED <<sdrItr, sdrHdr>> /\ sdrBuf' = [sdrBuf EXCEPT !.renewed = TRUE]
    BY <1>1, <1>5
  <2>2. sdrBuf \in SdrBuffers
    BY <1>0 DEF SdrTyped
  <2>3. sdrBuf' \in SdrBuffers /\ sdrBuf'.renewed = TRUE /\ sdrBuf'.vers = sdrBuf.vers
    BY <2>1, <2>2 DEF SdrBuffers
  <2>4. SdrTyped'
    BY <1>0, <1>2, <1>3, <2>1, <2>3 DEF SdrTyped, SdrSteps, SdrStarting, SdrWalking, SdrTroubled
  <2>5. SdrInHand'
    BY <1>0, <1>5, <2>1, <2>3 DEF SdrInHand
  <2>6. SdrListWhole'
    BY <1>0, <1>3 DEF SdrListWhole
  <2> QED BY <2>4, <2>5, <2>6 DEF SdrSound
<1> QED BY <1>3, <1>4, <1>5

(* A header in hand: the record is read from its first byte.               *)
LEMMA SdrHeader1 ==
  ASSUME SdrSound, NEW h, SdrHeader(h), h.next \in Nat, h.type \in SdrTypes, h.len \in Nat \ {0},
         UNCHANGED <<sdrRepo, sdrLimit, sdrHeld, sdrCap, sdrList, sdrCmd, sdrPos, sdrTodo, sdrOut>>,
         sdrUsed' \in [commands : Nat, faults : Nat]
  PROVE  SdrSound'
<1>0. SdrTyped /\ SdrListWhole
  BY DEF SdrSound
<1>1. PICK n, t, l : n = h.next /\ t = h.type /\ l = h.len
  OBVIOUS
<1>2. n \in Nat /\ t \in SdrTypes /\ l \in Nat \ {0}
  BY <1>1
<1>3. sdrItr \in SdrIters
  BY <1>0 DEF SdrTyped
<1>4. sdrItr' \in SdrIters
  <2>1. sdrItr' = [sdrItr EXCEPT !.next = n]
    BY <1>1 DEF SdrHeader
  <2> QED BY <2>1, <1>2, <1>3 DEF SdrIters
<1>5. sdrHdr' \in SdrHeaders /\ sdrHdr'.len = l
  <2>1. sdrHdr' = [id |-> sdrItr.next, next |-> n, type |-> t, len |-> l, try |-> 0]
    BY <1>1 DEF SdrHeader
  <2> QED BY <2>1, <1>2, <1>3 DEF SdrHeaders, SdrIters
<1>6. sdrBuf' \in SdrBuffers /\ sdrBuf'.vers = <<>> /\ sdrAt' = "record"
  BY DEF SdrHeader, SdrNoRecord, SdrBuffers
<1>7. SdrTyped'
  BY <1>0, <1>4, <1>5, <1>6 DEF SdrTyped, SdrSteps, SdrStarting, SdrWalking
<1>8. SdrInHand'
  BY <1>2, <1>5, <1>6 DEF SdrInHand, SdrSame
<1>9. SdrListWhole'
  BY <1>0 DEF SdrListWhole
<1> QED BY <1>7, <1>8, <1>9 DEF SdrSound

LEMMA SdrGarbage1 == ASSUME SdrSound, SdrGarbage PROVE SdrSound'
<1>0. SdrTyped
  BY DEF SdrSound
<1>1. UNCHANGED <<sdrRepo, sdrLimit, sdrHeld, sdrCap, sdrList, sdrCmd, sdrPos, sdrTodo, sdrOut>> /\ UNCHANGED sdrUsed
      /\ sdrUsed' \in [commands : Nat, faults : Nat]
  BY <1>0 DEF SdrGarbage, sdrBmcVars, SdrTyped
<1>2. CASE sdrAt' = "walked" /\ UNCHANGED <<sdrHdr, sdrItr, sdrBuf>>
  <2>1. SdrHold
    BY <1>0, <1>1, <1>2 DEF SdrHold, SdrTyped
  <2> QED BY <1>1, <1>2, <2>1, SdrQuietly DEF SdrSteps, SdrStarting, SdrWalking
<1>3. ASSUME NEW n \in {SdrEnd} \cup SdrIds, SdrHeader([next |-> n, type |-> "oem", len |-> 1])
      PROVE  SdrSound'
  <2>1. n \in Nat
    BY <1>3, SdrNumbers, SdrIdsFrom
  <2> DEFINE h == [next |-> n, type |-> "oem", len |-> 1]
  <2>2. h.next \in Nat /\ h.type \in SdrTypes /\ h.len \in Nat \ {0} /\ SdrHeader(h)
    BY <2>1, <1>3 DEF SdrTypes
  <2> HIDE DEF h
  <2> QED BY <1>1, <2>2, SdrHeader1
<1> QED BY <1>2, <1>3 DEF SdrGarbage

LEMMA SdrHeaders1 == ASSUME SdrSound, ipmi_sdr_get_header PROVE SdrSound'
<1>0. SdrTyped
  BY DEF SdrSound
<1>1. UNCHANGED <<sdrRepo, sdrLimit, sdrHeld, sdrCap, sdrList, sdrCmd, sdrPos, sdrTodo, sdrOut>>
  BY DEF ipmi_sdr_get_header, sdrBmcVars
<1>2. CASE sdrItr.next = SdrEnd
  <2>1. sdrAt' = "walked" /\ UNCHANGED <<sdrHdr, sdrItr, sdrBuf, sdrUsed>>
    BY <1>2 DEF ipmi_sdr_get_header
  <2>2. SdrHold
    BY <1>0, <1>1, <2>1 DEF SdrHold, SdrTyped
  <2> QED BY <1>1, <2>1, <2>2, SdrQuietly DEF SdrSteps, SdrStarting, SdrWalking
<1>3. CASE sdrItr.next # SdrEnd
  <2>1. PICK r \in SdrReplies(SdrGet(sdrItr.next, 5)) :
          /\ SdrCount(r)
          /\ IF r = "ok"
             THEN SdrHeader([next |-> SdrAfter(sdrItr.next), type |-> SdrThe(sdrItr.next).type,
                             len |-> SdrThe(sdrItr.next).len])
             ELSE /\ sdrHdr' = [sdrHdr EXCEPT !.try = @ + 1]
                  /\ sdrAt' = IF r = "cancelled" THEN "renew_header"
                              ELSE IF sdrHdr.try < 4 THEN "header"
                              ELSE IF r = "none" THEN "walked" ELSE "garbage"
                  /\ UNCHANGED <<sdrItr, sdrBuf>>
    BY <1>3 DEF ipmi_sdr_get_header
  <2>2. sdrUsed' \in [commands : Nat, faults : Nat]
    BY <1>0, <2>1, SdrCountType
  <2>3. CASE r = "ok"
    <3>1. SdrGet(sdrItr.next, 5) = "ok"
      BY <2>1, <2>3 DEF SdrReplies
    <3>2. SdrThe(sdrItr.next) \in SdrStored /\ SdrAfter(sdrItr.next) \in Nat
      BY <1>0, <3>1, SdrGetOk, SdrTheType
    <3> DEFINE h == [next |-> SdrAfter(sdrItr.next), type |-> SdrThe(sdrItr.next).type, len |-> SdrThe(sdrItr.next).len]
    <3>3. h.next \in Nat /\ h.type \in SdrTypes /\ h.len \in Nat \ {0}
      BY <3>2 DEF SdrStored
    <3>4. SdrHeader(h)
      BY <2>1, <2>3
    <3> HIDE DEF h
    <3> QED BY <1>1, <2>2, <3>3, <3>4, SdrHeader1
  <2>4. CASE r # "ok"
    <3>1. sdrHdr' = [sdrHdr EXCEPT !.try = @ + 1] /\ UNCHANGED <<sdrItr, sdrBuf>>
          /\ sdrAt' \in {"renew_header", "header", "walked", "garbage"}
      BY <2>1, <2>4
    <3>2. sdrHdr \in SdrHeaders
      BY <1>0 DEF SdrTyped
    <3>3. sdrHdr' \in SdrHeaders
      BY <3>1, <3>2 DEF SdrHeaders
    <3>4. SdrTyped'
      BY <1>0, <1>1, <2>2, <3>1, <3>3 DEF SdrTyped, SdrSteps, SdrStarting, SdrWalking, SdrTroubled
    <3>5. SdrInHand' /\ SdrListWhole'
      BY <1>1, <3>1 DEF SdrInHand, SdrListWhole, SdrSound
    <3> QED BY <3>4, <3>5 DEF SdrSound
  <2> QED BY <2>3, <2>4
<1> QED BY <1>2, <1>3

LEMMA SdrMore ==
  ASSUME NEW v \in Seq(SdrBytes), NEW n \in Nat, NEW b \in SdrBytes
  PROVE  /\ v \o [j \in 1..n |-> b] \in Seq(SdrBytes) /\ Len(v \o [j \in 1..n |-> b]) = Len(v) + n
         /\ \A k \in DOMAIN (v \o [j \in 1..n |-> b]) :
              (k \in DOMAIN v /\ (v \o [j \in 1..n |-> b])[k] = v[k]) \/ (v \o [j \in 1..n |-> b])[k] = b
<1> DEFINE w == [j \in 1..n |-> b]
<1>1. w \in [1..n -> SdrBytes]
  OBVIOUS
<1>2. w \in Seq(SdrBytes) /\ DOMAIN w = 1..n /\ \A k \in 1..n : w[k] = b
  BY <1>1
<1>3. Len(w) = n
  BY <1>2
<1> HIDE DEF w
<1> QED BY <1>2, <1>3 DEF w

LEMMA SdrRecord1 == ASSUME SdrSound, ipmi_sdr_get_record PROVE SdrSound'
<1>0. SdrTyped /\ SdrInHand /\ SdrListWhole
  BY DEF SdrSound
<1>1. PICK r \in SdrReplies(SdrPiece) :
        /\ SdrCount(r)
        /\ sdrCap' = IF r = "too long" THEN (sdrCap \div 2) - 1 ELSE sdrCap
        /\ sdrBuf' = IF r = "ok" THEN [sdrBuf EXCEPT !.vers = SdrFilled(SdrAsk)] ELSE sdrBuf
        /\ sdrAt' = CASE r = "ok" -> IF Len(sdrBuf'.vers) < sdrHdr.len THEN "record" ELSE "got"
                      [] r = "too long" -> "record"
                      [] r = "cancelled" -> "renew_record"
                      [] OTHER -> "norecord"
  BY DEF ipmi_sdr_get_record
<1>2. UNCHANGED <<sdrRepo, sdrLimit, sdrHeld, sdrItr, sdrList, sdrCmd, sdrHdr, sdrPos, sdrTodo, sdrOut>> /\ sdrAt = "record"
  BY DEF ipmi_sdr_get_record, sdrBmcVars
<1>3. sdrUsed' \in [commands : Nat, faults : Nat]
  BY <1>0, <1>1, SdrCountType
<1>4. sdrHdr.len \in Nat /\ sdrHdr.len > 0 /\ sdrBuf \in SdrBuffers /\ sdrBuf.vers \in Seq(SdrBytes) /\ sdrCap \in Nat
      /\ Len(sdrBuf.vers) \in Nat /\ Len(sdrBuf.vers) <= sdrHdr.len
  <2>1. sdrBuf \in SdrBuffers /\ sdrBuf.vers \in Seq(SdrBytes) /\ sdrHdr.len \in Nat /\ sdrCap \in Nat
    BY <1>0 DEF SdrTyped, SdrBuffers, SdrHeaders
  <2>2. Len(sdrBuf.vers) \in Nat
    BY <2>1
  <2> QED BY <1>0, <1>2, <2>1, <2>2 DEF SdrInHand
<1>5. SdrAsk \in Nat /\ SdrAsk <= sdrCap /\ Len(sdrBuf.vers) + SdrAsk <= sdrHdr.len
  BY <1>4 DEF SdrAsk
<1>6. SdrByte' = SdrByte
  BY <1>2 DEF SdrByte, SdrThe, SdrIndex
<1>7. SdrListWhole'
  BY <1>0, <1>2 DEF SdrListWhole
<1>8. CASE r = "ok"
  <2>1. SdrGet(sdrHdr.id, SdrAsk) = "ok"
    BY <1>1, <1>8 DEF SdrReplies, SdrPiece
  <2>2. SdrThe(sdrHdr.id) \in SdrStored /\ sdrHeld
    BY <1>0, <2>1, SdrGetOk, SdrTheType
  <2>3. SdrByte \in SdrBytes
    BY <2>2 DEF SdrStored, SdrByte, SdrBytes
  <2>4. PICK b \in SdrBytes : b = SdrByte
    BY <2>3
  <2>5. PICK w : w = SdrFilled(SdrAsk)
    OBVIOUS
  <2>6. w = sdrBuf.vers \o [j \in 1..SdrAsk |-> b]
    BY <2>4, <2>5 DEF SdrFilled
  <2>7. w \in Seq(SdrBytes) /\ Len(w) = Len(sdrBuf.vers) + SdrAsk
        /\ \A k \in DOMAIN w : (k \in DOMAIN sdrBuf.vers /\ w[k] = sdrBuf.vers[k]) \/ w[k] = b
    BY <1>4, <1>5, <2>6, SdrMore
  <2>8. sdrBuf' = [sdrBuf EXCEPT !.vers = w]
    BY <1>1, <1>8, <2>5
  <2>9. sdrBuf' \in SdrBuffers /\ sdrBuf'.vers = w /\ sdrBuf'.renewed = sdrBuf.renewed
    BY <1>4, <2>7, <2>8 DEF SdrBuffers
  <2>10. sdrAt' = (IF Len(w) < sdrHdr.len THEN "record" ELSE "got") /\ UNCHANGED sdrCap
    BY <1>1, <1>8, <2>9
  <2>11. ~sdrBuf.renewed => \A k \in DOMAIN w : w[k] = b
    BY <1>0, <1>2, <2>2, <2>4, <2>7 DEF SdrInHand
  <2>12. SdrTyped'
    BY <1>0, <1>2, <1>3, <2>9, <2>10 DEF SdrTyped, SdrSteps, SdrStarting, SdrWalking
  <2>13. ~sdrBuf'.renewed => SdrSame(sdrBuf'.vers) /\ \A k \in DOMAIN sdrBuf'.vers : sdrBuf'.vers[k] = SdrByte'
    BY <1>6, <2>4, <2>9, <2>11 DEF SdrSame
  <2>14. sdrHdr'.len > 0 /\ Len(sdrBuf'.vers) <= sdrHdr'.len /\ (sdrAt' = "got" => Len(sdrBuf'.vers) = sdrHdr'.len)
    BY <1>2, <1>4, <1>5, <2>7, <2>9, <2>10
  <2>15. SdrInHand'
    BY <2>13, <2>14 DEF SdrInHand
  <2> QED BY <1>7, <2>12, <2>15 DEF SdrSound
<1>9. CASE r # "ok"
  <2>1. UNCHANGED sdrBuf /\ sdrAt' \in {"record", "renew_record", "norecord"}
    BY <1>1, <1>9
  <2>2. sdrCap' \in Nat
    <3>1. CASE r = "too long"
      <4>1. SdrGet(sdrHdr.id, SdrAsk) = "too long"
        BY <1>1, <3>1 DEF SdrReplies, SdrPiece
      <4>2. SdrAsk > sdrLimit
        BY <4>1 DEF SdrGet
      <4>3. sdrLimit \in Nat \ {0}
        BY <1>0 DEF SdrTyped
      <4>4. sdrCap > 1
        BY <1>4, <1>5, <4>2, <4>3
      <4>5. PICK q \in Nat : q = sdrCap \div 2 /\ q > 0
        BY <1>4, <4>4
      <4>6. sdrCap' = q - 1
        BY <1>1, <3>1, <4>5
      <4> QED BY <4>5, <4>6
    <3>2. CASE r # "too long"
      BY <1>1, <1>4, <3>2
    <3> QED BY <3>1, <3>2
  <2>3. SdrTyped'
    BY <1>0, <1>2, <1>3, <2>1, <2>2 DEF SdrTyped, SdrSteps, SdrStarting, SdrWalking, SdrTroubled
  <2>4. SdrInHand'
    BY <1>0, <1>2, <1>6, <2>1 DEF SdrInHand
  <2> QED BY <1>7, <2>3, <2>4 DEF SdrSound
<1> QED BY <1>8, <1>9

LEMMA SdrGot1 == ASSUME SdrSound, SdrGot PROVE SdrSound'
<1>0. SdrTyped /\ SdrInHand /\ SdrListWhole
  BY DEF SdrSound
<1>1. UNCHANGED <<sdrRepo, sdrLimit, sdrHeld, sdrCap, sdrItr, sdrCmd, sdrHdr, sdrBuf, sdrPos, sdrOut, sdrUsed>> /\ sdrAt = "got"
  BY DEF SdrGot, sdrBmcVars
<1>2. /\ sdrTodo' \in Seq(SdrEntries) /\ sdrAt' \in {"header", "print"} /\ (sdrAt' = "print" => sdrTodo' # <<>>)
      /\ sdrList' \in Seq(SdrEntries) /\ SdrListWhole'
  <2>1. CASE SdrDumping \/ sdrHdr.type \notin SdrKept
    <3>1. sdrAt' = "header" /\ UNCHANGED <<sdrList, sdrTodo>>
      BY <2>1 DEF SdrGot
    <3> QED BY <1>0, <3>1 DEF SdrTyped, SdrListWhole
  <2>2. CASE ~SdrDumping /\ sdrHdr.type \in SdrKept
    <3>1. sdrHdr.len > 0 /\ Len(sdrBuf.vers) = sdrHdr.len /\ (~sdrBuf.renewed => SdrSame(sdrBuf.vers))
      BY <1>0, <1>1 DEF SdrInHand
    <3>2. sdrBuf.vers # <<>>
      BY <3>1
    <3>3. PICK e : e = SdrRead
      OBVIOUS
    <3>4. e \in SdrEntries /\ e.len = sdrHdr.len /\ e.rec = sdrBuf
      BY <1>0, <3>2, <3>3, SdrReadType
    <3>5. SdrEntryWhole(e)
      BY <3>1, <3>4 DEF SdrEntryWhole
    <3>6. SdrTakes(e, "header") /\ sdrList' = Append(sdrList, e)
      BY <2>2, <3>3 DEF SdrGot, SdrKeep
    <3>7. sdrList' \in Seq(SdrEntries) /\ SdrListWhole'
      BY <1>0, <3>4, <3>5, <3>6, SdrAppendWhole DEF SdrListWhole
    <3> QED BY <1>0, <3>4, <3>6, <3>7, SdrTakesType
  <2> QED BY <2>1, <2>2
<1>3. SdrTyped'
  BY <1>0, <1>1, <1>2 DEF SdrTyped, SdrSteps, SdrStarting, SdrWalking
<1>4. SdrInHand'
  BY <1>2 DEF SdrInHand
<1> QED BY <1>2, <1>3, <1>4 DEF SdrSound

(* One entry is printed.                                                   *)
SdrPrints(r) ==
  /\ SdrCount(r)
  /\ sdrOut' = Append(sdrOut, [id |-> sdrTodo[1].name, shown |-> SdrShown(r)])
  /\ sdrTodo' = Tail(sdrTodo)
  /\ \/ sdrAt' = "crashed"
     \/ sdrTodo' # <<>> /\ sdrAt' = "print"
     \/ sdrTodo' = <<>> /\ sdrCmd.op = "print" /\ sdrAt' = IF sdrPos > 0 THEN "listed" ELSE "header"
     \/ sdrTodo' = <<>> /\ sdrCmd.op # "print" /\ sdrAt' = "idle"
LEMMA SdrPrintIs ==
  ASSUME SdrPrint
  PROVE  /\ \E r : SdrPrints(r) /\ (sdrAt' = "crashed" => r = "none" /\ r \in SdrReplies("ok"))
         /\ UNCHANGED <<sdrRepo, sdrLimit, sdrBmc, sdrHeld, sdrCap, sdrItr, sdrList, sdrCmd, sdrHdr, sdrBuf, sdrPos>> /\ sdrAt = "print"
<1>1. UNCHANGED <<sdrRepo, sdrLimit, sdrBmc, sdrHeld, sdrCap, sdrItr, sdrList, sdrCmd, sdrHdr, sdrBuf, sdrPos>> /\ sdrAt = "print"
  BY DEF SdrPrint, sdrBmcVars
<1> DEFINE e == sdrTodo[1]
           sensor == e.type \in SdrSensors /\ sdrCmd.show
           R == IF sensor THEN SdrReplies("ok") \cup {"unavailable", "disabled"} ELSE {"ok"}
<1>2. PICK r \in R :
        /\ SdrCount(r)
        /\ sdrOut' = Append(sdrOut, [id |-> e.name, shown |-> SdrShown(r)])
        /\ sdrTodo' = Tail(sdrTodo)
        /\ IF SdrDies(e.type, r) /\ sensor THEN sdrAt' = "crashed" /\ UNCHANGED sdrRc
           ELSE IF sdrTodo' # <<>> THEN sdrAt' = "print" /\ UNCHANGED sdrRc
           ELSE IF sdrCmd.op = "print" THEN sdrAt' = (IF sdrPos > 0 THEN "listed" ELSE "header") /\ UNCHANGED sdrRc
           ELSE SdrEnds(sdrRc)
  BY DEF SdrPrint
<1>3. sdrAt' = "crashed" => SdrDies(e.type, r) /\ sensor
  BY <1>2 DEF SdrEnds
<1>4. sdrAt' = "crashed" => r = "none" /\ r \in SdrReplies("ok")
  BY <1>2, <1>3 DEF SdrDies
<1>5. SdrPrints(r)
  BY <1>2 DEF SdrPrints, SdrEnds
<1> QED BY <1>1, <1>4, <1>5
LEMMA SdrPrint1 == ASSUME SdrSound, SdrPrint PROVE SdrSound'
<1>0. SdrTyped
  BY DEF SdrSound
<1>1. UNCHANGED <<sdrRepo, sdrLimit, sdrHeld, sdrCap, sdrItr, sdrList, sdrCmd, sdrHdr, sdrBuf, sdrPos>> /\ sdrAt = "print"
  BY SdrPrintIs
<1>2. PICK r : SdrPrints(r)
  BY SdrPrintIs
<1>3. sdrUsed' \in [commands : Nat, faults : Nat]
  BY <1>0, <1>2, SdrCountType DEF SdrPrints
<1>4. sdrTodo \in Seq(SdrEntries) /\ sdrTodo # <<>>
  BY <1>0, <1>1 DEF SdrTyped
<1>5. sdrTodo[1] \in SdrEntries /\ sdrTodo' \in Seq(SdrEntries)
  BY <1>2, <1>4 DEF SdrPrints
<1>6. [id |-> sdrTodo[1].name, shown |-> SdrShown(r)] \in [id : SdrIds, shown : {"value", "ns"}]
  BY <1>5 DEF SdrEntries, SdrShown
<1>7. sdrOut' \in Seq([id : SdrIds, shown : {"value", "ns"}])
  <2> DEFINE T == [id : SdrIds, shown : {"value", "ns"}]
             x == [id |-> sdrTodo[1].name, shown |-> SdrShown(r)]
  <2>1. sdrOut \in Seq(T) /\ sdrOut' = Append(sdrOut, x) /\ x \in T
    BY <1>0, <1>2, <1>6 DEF SdrTyped, SdrPrints
  <2> HIDE DEF T, x
  <2>2. sdrOut' \in Seq(T)
    BY <2>1
  <2> QED BY <2>2 DEF T
<1>8. SdrHold
  BY <1>0, <1>1, <1>3, <1>5, <1>7 DEF SdrHold, SdrTyped
<1>9. sdrAt' \in {"crashed", "print", "listed", "header", "idle"} /\ (sdrAt' = "print" => sdrTodo' # <<>>) /\ (sdrAt' = "listed" => sdrPos' > 0)
  BY <1>1, <1>2 DEF SdrPrints
<1> QED BY <1>1, <1>8, <1>9, SdrQuietly DEF SdrSteps, SdrStarting, SdrWalking, SdrTroubled

LEMMA SdrWithout == ASSUME NEW T, NEW s \in Seq(T), NEW i \in DOMAIN s PROVE RemoveAt(s, i) \in Seq(T)
<1>1. i \in 1..Len(s) /\ Len(s) \in Nat
  OBVIOUS
<1>2. SubSeq(s, 1, i - 1) \in Seq(T)
  BY <1>1
<1>3. SubSeq(s, i + 1, Len(s)) \in Seq(T)
  BY <1>1
<1> QED BY <1>2, <1>3 DEF RemoveAt
LEMMA SdrChange1 == ASSUME SdrSound, SdrChange PROVE SdrSound'
<1>0. SdrTyped /\ SdrInHand /\ SdrListWhole
  BY DEF SdrSound
<1>1. UNCHANGED <<sdrLimit, sdrCap, sdrItr, sdrList, sdrAt, sdrCmd, sdrHdr, sdrBuf, sdrPos, sdrTodo, sdrOut>> /\ sdrHeld' = FALSE
  BY DEF SdrChange
<1>2. sdrUsed' \in [commands : Nat, faults : Nat]
  <2>1. sdrUsed \in [commands : Nat, faults : Nat] /\ sdrUsed' = [sdrUsed EXCEPT !.faults = @ + 1]
    BY <1>0 DEF SdrTyped, SdrChange
  <2> QED BY <2>1
<1>3. sdrRepo' \in Seq(SdrStored)
  <2>1. PICK i \in DOMAIN sdrRepo : sdrRepo' = [sdrRepo EXCEPT ![i].ver = @ + 1] \/ sdrRepo' = RemoveAt(sdrRepo, i)
    BY DEF SdrChange
  <2>2. sdrRepo \in Seq(SdrStored)
    BY <1>0 DEF SdrTyped
  <2>3. CASE sdrRepo' = RemoveAt(sdrRepo, i)
    BY <2>2, <2>3, SdrWithout
  <2>4. CASE sdrRepo' = [sdrRepo EXCEPT ![i].ver = @ + 1]
    <3>1. PICK x \in SdrStored : x = sdrRepo[i]
      BY <2>2
    <3>2. [x EXCEPT !.ver = @ + 1] \in SdrStored
      BY DEF SdrStored
    <3>3. sdrRepo' = [sdrRepo EXCEPT ![i] = [x EXCEPT !.ver = @ + 1]]
      BY <2>4, <3>1
    <3>4. PICK y \in SdrStored : y = [x EXCEPT !.ver = @ + 1]
      BY <3>2
    <3>5. sdrRepo' = [sdrRepo EXCEPT ![i] = y]
      BY <3>3, <3>4
    <3> QED BY <2>2, <3>5
  <2> QED BY <2>1, <2>3, <2>4
<1>4. SdrTyped'
  BY <1>0, <1>1, <1>2, <1>3 DEF SdrTyped
<1>5. SdrInHand' /\ SdrListWhole'
  BY <1>0, <1>1 DEF SdrInHand, SdrListWhole
<1> QED BY <1>4, <1>5 DEF SdrSound

LEMMA SdrFails1 == ASSUME SdrSound, SdrBmcFails PROVE SdrSound'
<1>0. SdrTyped /\ SdrInHand /\ SdrListWhole
  BY DEF SdrSound
<1>1. UNCHANGED <<sdrRepo, sdrHeld, sdrLimit, sdrCap, sdrItr, sdrList, sdrAt, sdrCmd, sdrHdr, sdrBuf, sdrPos, sdrTodo, sdrOut>>
  BY DEF SdrBmcFails
<1>2. sdrUsed' \in [commands : Nat, faults : Nat]
  <2>1. sdrUsed \in [commands : Nat, faults : Nat] /\ sdrUsed' = [sdrUsed EXCEPT !.faults = @ + 1]
    BY <1>0 DEF SdrTyped, SdrBmcFails
  <2> QED BY <2>1
<1>4. SdrTyped'
  BY <1>0, <1>1, <1>2 DEF SdrTyped
<1>5. SdrInHand' /\ SdrListWhole'
  BY <1>0, <1>1 DEF SdrInHand, SdrListWhole, SdrByte, SdrThe, SdrIndex
<1> QED BY <1>4, <1>5 DEF SdrSound
LEMMA SdrIdle1 == ASSUME SdrSound, UNCHANGED sdrVars PROVE SdrSound'
<1>1. SdrTyped'
  BY DEF SdrSound, SdrTyped, sdrVars
<1>2. SdrInHand' /\ SdrListWhole'
  BY DEF SdrSound, SdrInHand, SdrListWhole, sdrVars, SdrByte, SdrThe, SdrIndex
<1> QED BY <1>1, <1>2 DEF SdrSound

LEMMA SdrSoundStep == SdrSound /\ SdrDumpsRight /\ [SdrNext]_sdrVars => SdrSound'
<1> SUFFICES ASSUME SdrSound, SdrDumpsRight, [SdrNext]_sdrVars PROVE SdrSound'
  OBVIOUS
<1>1. CASE ipmi_sdr_main \/ SdrCallers
  BY <1>1, SdrCommands, SdrBegins1, SdrDump1
<1> QED BY <1>1, SdrWrite1, SdrEasy1, SdrFileRecord1, SdrStart1, SdrReserve1, SdrListed1, SdrHeaders1, SdrGarbage1, SdrRecord1,
           SdrGot1, SdrPrint1, SdrChange1, SdrFails1, SdrIdle1 DEF SdrNext, SdrStep

(* Entries that say the same are what the same commands are about.         *)
LEMMA SdrAboutSame ==
  ASSUME NEW cmd, NEW e, NEW f, e.name = f.name, e.type = f.type, e.stype = f.stype, e.entity = f.entity, SdrAbout(cmd, e)
  PROVE  SdrAbout(cmd, f)
BY DEF SdrAbout
LEMMA SdrDueIs ==
  ASSUME NEW cmd, NEW e \in SdrEntries, NEW i \in 1..SdrN, SdrIs(e, i), SdrRecords[i].type \in SdrKept
  PROVE  SdrDue(cmd, i) <=> SdrAbout(cmd, e)
<1>1. PICK r \in SdrGiven : r = SdrRecords[i]
  BY SdrConstants DEF SdrFits
<1>2. SdrNoRecord \in SdrBuffers
  BY DEF SdrNoRecord, SdrBuffers
<1>3. r.id \in Nat
  BY SdrIdsFrom DEF SdrGiven
<1>4. PICK f : f = SdrEntry(r, r.id, SdrNoRecord)
  OBVIOUS
<1>5. f.name = r.id /\ f.type = r.type /\ f.stype = r.stype /\ f.entity = r.entity
  BY <1>2, <1>3, <1>4, SdrEntryType
<1>6. e.name = f.name /\ e.type = f.type /\ e.stype = f.stype /\ e.entity = f.entity
  BY <1>1, <1>5 DEF SdrIs
<1>7. SdrAbout(cmd, e) => SdrAbout(cmd, f)
  BY <1>6, SdrAboutSame
<1>8. SdrAbout(cmd, f) => SdrAbout(cmd, e)
  BY <1>6, SdrAboutSame
<1>9. SdrDue(cmd, i) <=> SdrAbout(cmd, f)
  BY <1>1, <1>4 DEF SdrDue
<1> QED BY <1>7, <1>8, <1>9

(* The list grows by the next record, or the next record is not kept.      *)
LEMMA SdrListMore ==
  ASSUME NEW m \in 0..SdrN, m < SdrN, NEW list \in Seq(SdrEntries), SdrListHas(list, m),
         NEW e \in SdrEntries, SdrIs(e, m + 1), e.type \in SdrKept
  PROVE  /\ SdrListHas(Append(list, e), m + 1)
         /\ \A n \in DOMAIN list : SdrPlace(list[n].name) < SdrPlace(e.name)
<1>0. SdrN \in Nat /\ m + 1 \in 1..SdrN
  BY SdrConstants
<1> DEFINE s == Append(list, e)
<1>1. DOMAIN s = 1..(Len(list) + 1) /\ DOMAIN list = 1..Len(list) /\ Len(list) \in Nat /\ s[Len(list) + 1] = e
      /\ \A n \in DOMAIN list : s[n] = list[n]
  OBVIOUS
<1> HIDE DEF s
<1>2. \A n \in DOMAIN list : SdrPlace(list[n].name) \in 1..m
  <2> TAKE n \in DOMAIN list
  <2>1. PICK i \in 1..m : SdrIs(list[n], i)
    BY DEF SdrListHas
  <2>2. i \in 1..SdrN
    BY <1>0, <2>1
  <2> QED BY <2>1, <2>2, SdrPlaceOf DEF SdrIs
<1>3. SdrPlace(e.name) = m + 1 /\ e.name = SdrRecords[m + 1].id /\ SdrRecords[m + 1].type \in SdrKept
  BY <1>0, SdrPlaceOf DEF SdrIs
<1>4. \A n \in DOMAIN list : SdrPlace(list[n].name) < SdrPlace(e.name)
  BY <1>2, <1>3, <1>0
<1>5. \A n \in DOMAIN s : \E i \in 1..(m + 1) : SdrIs(s[n], i) /\ SdrRecords[i].type \in SdrKept
  <2> TAKE n \in DOMAIN s
  <2>1. CASE n \in DOMAIN list
    <3>1. PICK i \in 1..m : SdrIs(list[n], i) /\ SdrRecords[i].type \in SdrKept
      BY <2>1 DEF SdrListHas
    <3> QED BY <1>1, <2>1, <3>1
  <2>2. CASE n \notin DOMAIN list
    <3>1. s[n] = e
      BY <1>1, <2>2
    <3> QED BY <1>0, <1>3, <3>1
  <2> QED BY <2>1, <2>2
<1>6. \A n1, n2 \in DOMAIN s : n1 < n2 => SdrPlace(s[n1].name) < SdrPlace(s[n2].name)
  <2> SUFFICES ASSUME NEW n1 \in DOMAIN s, NEW n2 \in DOMAIN s, n1 < n2 PROVE SdrPlace(s[n1].name) < SdrPlace(s[n2].name)
    OBVIOUS
  <2>1. n1 \in DOMAIN list
    BY <1>1
  <2>2. CASE n2 \in DOMAIN list
    BY <1>1, <2>1, <2>2 DEF SdrListHas
  <2>3. CASE n2 \notin DOMAIN list
    <3>1. s[n2] = e
      BY <1>1, <2>3
    <3> QED BY <1>1, <1>4, <2>1, <3>1
  <2> QED BY <2>2, <2>3
<1>7. \A i \in 1..(m + 1) : SdrRecords[i].type \in SdrKept => \E n \in DOMAIN s : s[n].name = SdrRecords[i].id
  <2> SUFFICES ASSUME NEW i \in 1..(m + 1), SdrRecords[i].type \in SdrKept PROVE \E n \in DOMAIN s : s[n].name = SdrRecords[i].id
    OBVIOUS
  <2>1. CASE i = m + 1
    BY <1>1, <1>3, <2>1
  <2>2. CASE i # m + 1
    <3>1. i \in 1..m
      BY <2>2
    <3>2. PICK n \in DOMAIN list : list[n].name = SdrRecords[i].id
      BY <3>1 DEF SdrListHas
    <3> QED BY <1>1, <3>2
  <2> QED BY <2>1, <2>2
<1>8. SdrListHas(s, m + 1)
  BY <1>5, <1>6, <1>7 DEF SdrListHas
<1> QED BY <1>4, <1>8 DEF s
LEMMA SdrListSkip ==
  ASSUME NEW m \in 0..SdrN, m < SdrN, NEW list, SdrListHas(list, m), SdrRecords[m + 1].type \notin SdrKept
  PROVE  SdrListHas(list, m + 1)
<1>0. SdrN \in Nat
  BY SdrConstants
<1>1. \A n \in DOMAIN list : \E i \in 1..(m + 1) : SdrIs(list[n], i) /\ SdrRecords[i].type \in SdrKept
  <2> TAKE n \in DOMAIN list
  <2>1. PICK i \in 1..m : SdrIs(list[n], i) /\ SdrRecords[i].type \in SdrKept
    BY DEF SdrListHas
  <2> QED BY <2>1
<1>2. \A i \in 1..(m + 1) : SdrRecords[i].type \in SdrKept => i \in 1..m
  BY <1>0
<1> QED BY <1>1, <1>2 DEF SdrListHas

(* What is shown.                                                          *)
LEMMA SdrShowsType ==
  ASSUME NEW out \in Seq([id : SdrIds, shown : {"value", "ns"}]), NEW todo \in Seq(SdrEntries)
  PROVE  SdrShows(out, todo) \in Seq(SdrIds) /\ Len(SdrShows(out, todo)) = Len(out) + Len(todo)
<1> DEFINE T == [id : SdrIds, shown : {"value", "ns"}]
           s == SdrShows(out, todo)
           n == Len(out) + Len(todo)
<1>1. out \in Seq(T)
  OBVIOUS
<1> HIDE DEF T
<1>2. n \in Nat /\ Len(out) \in Nat /\ Len(todo) \in Nat
  BY <1>1
<1>3. \A k \in 1..n : (IF k <= Len(out) THEN out[k].id ELSE todo[k - Len(out)].name) \in SdrIds
  <2> TAKE k \in 1..n
  <2>1. CASE k <= Len(out)
    <3>1. out[k] \in T
      BY <1>1, <1>2, <2>1
    <3> QED BY <2>1, <3>1 DEF T
  <2>2. CASE ~(k <= Len(out))
    <3>1. todo[k - Len(out)] \in SdrEntries
      BY <1>1, <1>2, <2>2
    <3> QED BY <2>2, <3>1 DEF SdrEntries
  <2> QED BY <2>1, <2>2
<1>4. s \in [1..n -> SdrIds]
  BY <1>3 DEF SdrShows
<1> HIDE DEF s, n
<1>5. s \in Seq(SdrIds) /\ Len(s) = n
  BY <1>2, <1>4
<1> QED BY <1>5 DEF s, n
LEMMA SdrShowsOne ==
  ASSUME NEW out \in Seq([id : SdrIds, shown : {"value", "ns"}]), NEW todo \in Seq(SdrEntries), NEW e \in SdrEntries
  PROVE  SdrShows(out, Append(todo, e)) = Append(SdrShows(out, todo), e.name)
<1> DEFINE T == [id : SdrIds, shown : {"value", "ns"}]
           s == SdrShows(out, todo)
           u == SdrShows(out, Append(todo, e))
           n == Len(out) + Len(todo)
<1>1. out \in Seq(T)
  OBVIOUS
<1> HIDE DEF T
<1>2. n \in Nat /\ Len(out) \in Nat /\ Len(todo) \in Nat /\ Len(Append(todo, e)) = Len(todo) + 1
  BY <1>1
<1>3. s \in Seq(SdrIds) /\ Len(s) = n
  BY SdrShowsType
<1>4. DOMAIN u = 1..(n + 1)
  BY <1>2 DEF SdrShows
<1>5. \A k \in 1..n : u[k] = s[k]
  <2> TAKE k \in 1..n
  <2>1. CASE k <= Len(out)
    BY <1>2, <2>1 DEF SdrShows
  <2>2. CASE ~(k <= Len(out))
    <3>1. Append(todo, e)[k - Len(out)] = todo[k - Len(out)]
      BY <1>2, <2>2
    <3> QED BY <1>2, <2>2, <3>1 DEF SdrShows
  <2> QED BY <2>1, <2>2
<1>6. u[n + 1] = e.name
  <2>1. Append(todo, e)[n + 1 - Len(out)] = e
    BY <1>2
  <2> QED BY <1>2, <2>1 DEF SdrShows
<1>7. u = [k \in 1..(n + 1) |-> u[k]]
  BY <1>4 DEF SdrShows
<1> HIDE DEF u, s, n
<1>8. DOMAIN Append(s, e.name) = 1..(n + 1) /\ (\A k \in 1..n : Append(s, e.name)[k] = s[k]) /\ Append(s, e.name)[n + 1] = e.name
      /\ Append(s, e.name) \in Seq(SdrIds \cup {e.name})
  <2>1. s \in Seq(SdrIds \cup {e.name})
    BY <1>3
  <2> QED BY <2>1, <1>2, <1>3
<1>9. \A k \in 1..(n + 1) : u[k] = Append(s, e.name)[k]
  BY <1>2, <1>5, <1>6, <1>8
<1>10. PICK w, U : w = Append(s, e.name) /\ U = SdrIds \cup {e.name}
  OBVIOUS
<1>11. w \in Seq(U) /\ DOMAIN w = 1..(n + 1)
  BY <1>8, <1>10
<1>12. w = [k \in 1..(n + 1) |-> w[k]]
  BY <1>11
<1>13. u = w
  BY <1>7, <1>9, <1>10, <1>12
<1> QED BY <1>10, <1>13 DEF u, s
LEMMA SdrShowsMove ==
  ASSUME NEW out \in Seq([id : SdrIds, shown : {"value", "ns"}]), NEW todo \in Seq(SdrEntries), todo # <<>>,
         NEW x \in [id : SdrIds, shown : {"value", "ns"}], x.id = todo[1].name
  PROVE  SdrShows(Append(out, x), Tail(todo)) = SdrShows(out, todo)
<1> DEFINE T == [id : SdrIds, shown : {"value", "ns"}]
           n == Len(out) + Len(todo)
<1>1. out \in Seq(T) /\ x \in T
  OBVIOUS
<1> HIDE DEF T
<1>2. n \in Nat /\ Len(out) \in Nat /\ Len(todo) \in Nat /\ Len(todo) > 0 /\ Len(Append(out, x)) = Len(out) + 1 /\ Len(Tail(todo)) = Len(todo) - 1
  BY <1>1
<1>3. \A k \in 1..n : (IF k <= Len(out) + 1 THEN Append(out, x)[k].id ELSE Tail(todo)[k - (Len(out) + 1)].name)
                    = (IF k <= Len(out) THEN out[k].id ELSE todo[k - Len(out)].name)
  <2> TAKE k \in 1..n
  <2>1. CASE k <= Len(out)
    BY <1>1, <1>2, <2>1
  <2>2. CASE k = Len(out) + 1
    BY <1>1, <1>2, <2>2
  <2>3. CASE k > Len(out) + 1
    <3>1. Tail(todo)[k - (Len(out) + 1)] = todo[k - Len(out)]
      BY <1>2, <2>3
    <3> QED BY <1>2, <2>3, <3>1
  <2> QED BY <1>2, <2>1, <2>2, <2>3
<1>4. Len(Append(out, x)) + Len(Tail(todo)) = n
  BY <1>2
<1>5. SdrShows(Append(out, x), Tail(todo)) =
        [k \in 1..n |-> IF k <= Len(out) + 1 THEN Append(out, x)[k].id ELSE Tail(todo)[k - (Len(out) + 1)].name]
  BY <1>2, <1>4 DEF SdrShows
<1>6. SdrShows(out, todo) = [k \in 1..n |-> IF k <= Len(out) THEN out[k].id ELSE todo[k - Len(out)].name]
  BY DEF SdrShows
<1> QED BY <1>3, <1>5, <1>6

(* The command looks at one more entry.                                    *)
LEMMA SdrSeesOne ==
  ASSUME NEW cmd, NEW S \in Seq(SdrIds), NEW list, NEW seen, SdrShowsSeen(cmd, S, list, seen),
         NEW list2, NEW n, \A k \in seen : list2[k] = list[k] /\ SdrPlace(list[k].name) < SdrPlace(list2[n].name)
  PROVE  /\ ~SdrAbout(cmd, list2[n]) => SdrShowsSeen(cmd, S, list2, seen \cup {n})
         /\ SdrAbout(cmd, list2[n]) => SdrShowsSeen(cmd, Append(S, list2[n].name), list2, seen \cup {n})
<1>1. ASSUME ~SdrAbout(cmd, list2[n]) PROVE SdrShowsSeen(cmd, S, list2, seen \cup {n})
  <2>1. \A k \in DOMAIN S : \E j \in seen : list2[j].name = S[k] /\ SdrAbout(cmd, list2[j])
    BY DEF SdrShowsSeen
  <2>2. \A j \in seen \cup {n} : SdrAbout(cmd, list2[j]) => \E k \in DOMAIN S : S[k] = list2[j].name
    BY <1>1 DEF SdrShowsSeen
  <2> QED BY <2>1, <2>2 DEF SdrShowsSeen
<1>2. ASSUME SdrAbout(cmd, list2[n]) PROVE SdrShowsSeen(cmd, Append(S, list2[n].name), list2, seen \cup {n})
  <2>1. PICK x, U : x = list2[n].name /\ U = SdrIds \cup {x}
    OBVIOUS
  <2>2. S \in Seq(U)
    BY <2>1
  <2>3. PICK W : W = Append(S, x)
    OBVIOUS
  <2>4. DOMAIN W = 1..(Len(S) + 1) /\ DOMAIN S = 1..Len(S) /\ Len(S) \in Nat /\ W[Len(S) + 1] = x
        /\ \A k \in DOMAIN S : W[k] = S[k]
    BY <2>1, <2>2, <2>3
  <2>5. \A k \in DOMAIN S : \E j \in seen : list2[j].name = S[k] /\ SdrAbout(cmd, list2[j])
    BY DEF SdrShowsSeen
  <2>6. \A k \in DOMAIN W : \E j \in seen \cup {n} : list2[j].name = W[k] /\ SdrAbout(cmd, list2[j])
    <3> TAKE k \in DOMAIN W
    <3>1. CASE k \in DOMAIN S
      BY <2>4, <2>5, <3>1
    <3>2. CASE k \notin DOMAIN S
      <4>1. W[k] = x
        BY <2>4, <3>2
      <4> QED BY <1>2, <2>1, <4>1
    <3> QED BY <3>1, <3>2
  <2>7. \A k \in DOMAIN S : SdrPlace(S[k]) < SdrPlace(x)
    <3> TAKE k \in DOMAIN S
    <3>1. PICK j \in seen : list[j].name = S[k]
      BY DEF SdrShowsSeen
    <3> QED BY <2>1, <3>1
  <2>8. \A k1, k2 \in DOMAIN W : k1 < k2 => SdrPlace(W[k1]) < SdrPlace(W[k2])
    <3> SUFFICES ASSUME NEW k1 \in DOMAIN W, NEW k2 \in DOMAIN W, k1 < k2 PROVE SdrPlace(W[k1]) < SdrPlace(W[k2])
      OBVIOUS
    <3>1. k1 \in DOMAIN S
      BY <2>4
    <3>2. CASE k2 \in DOMAIN S
      BY <2>4, <3>1, <3>2 DEF SdrShowsSeen
    <3>3. CASE k2 \notin DOMAIN S
      <4>1. W[k2] = x
        BY <2>4, <3>3
      <4> QED BY <2>4, <2>7, <3>1, <4>1
    <3> QED BY <3>2, <3>3
  <2>9. \A j \in seen \cup {n} : SdrAbout(cmd, list2[j]) => \E k \in DOMAIN W : W[k] = list2[j].name
    <3> SUFFICES ASSUME NEW j \in seen \cup {n}, SdrAbout(cmd, list2[j]) PROVE \E k \in DOMAIN W : W[k] = list2[j].name
      OBVIOUS
    <3>1. CASE j = n
      BY <2>1, <2>4, <3>1
    <3>2. CASE j \in seen
      <4>1. SdrAbout(cmd, list[j]) /\ list2[j] = list[j]
        BY <3>2
      <4>2. PICK k \in DOMAIN S : S[k] = list[j].name
        BY <3>2, <4>1 DEF SdrShowsSeen
      <4>3. k \in DOMAIN W /\ W[k] = list2[j].name
        BY <2>4, <4>1, <4>2
      <4> QED BY <4>3
    <3> QED BY <3>1, <3>2
  <2>10. SdrShowsSeen(cmd, W, list2, seen \cup {n})
    BY <2>6, <2>8, <2>9 DEF SdrShowsSeen
  <2> QED BY <2>1, <2>3, <2>10
<1> QED BY <1>1, <1>2

(* When all of the records were seen, or the one that was looked for was   *)
(* found, what was printed is what there is to print.                      *)
SdrPrinted(S, out) == DOMAIN S = DOMAIN out /\ \A n \in DOMAIN out : S[n] = out[n].id
LEMMA SdrShownDue ==
  ASSUME NEW cmd, NEW S, NEW out, SdrPrinted(S, out), NEW m \in 0..SdrN, NEW list \in Seq(SdrEntries), SdrListHas(list, m),
         NEW seen, seen \subseteq DOMAIN list, SdrShowsSeen(cmd, S, list, seen)
  PROVE  /\ \A n \in DOMAIN out : \E i \in 1..SdrN : SdrDue(cmd, i) /\ out[n].id = SdrRecords[i].id
         /\ \A n1, n2 \in DOMAIN out : n1 < n2 => SdrPlace(out[n1].id) < SdrPlace(out[n2].id)
<1>0. SdrN \in Nat
  BY SdrConstants
<1>1. ASSUME NEW n \in DOMAIN out PROVE \E i \in 1..SdrN : SdrDue(cmd, i) /\ out[n].id = SdrRecords[i].id
  <2>1. PICK j \in seen : list[j].name = S[n] /\ SdrAbout(cmd, list[j])
    BY DEF SdrShowsSeen, SdrPrinted
  <2>2. list[j] \in SdrEntries /\ j \in DOMAIN list
    BY <2>1
  <2>3. PICK i \in 1..m : SdrIs(list[j], i) /\ SdrRecords[i].type \in SdrKept
    BY <2>2 DEF SdrListHas
  <2>4. i \in 1..SdrN
    BY <1>0, <2>3
  <2>5. SdrDue(cmd, i)
    BY <2>1, <2>2, <2>3, <2>4, SdrDueIs
  <2>6. out[n].id = SdrRecords[i].id
    BY <2>1, <2>3 DEF SdrIs, SdrPrinted
  <2> QED BY <2>4, <2>5, <2>6
<1>2. \A n1, n2 \in DOMAIN out : n1 < n2 => SdrPlace(out[n1].id) < SdrPlace(out[n2].id)
  <2> SUFFICES ASSUME NEW n1 \in DOMAIN out, NEW n2 \in DOMAIN out, n1 < n2 PROVE SdrPlace(out[n1].id) < SdrPlace(out[n2].id)
    OBVIOUS
  <2>1. SdrPlace(S[n1]) < SdrPlace(S[n2])
    BY DEF SdrShowsSeen, SdrPrinted
  <2> QED BY <2>1 DEF SdrPrinted
<1> QED BY <1>1, <1>2
LEMMA SdrAllSeen ==
  ASSUME NEW cmd, NEW S, NEW out, SdrPrinted(S, out), NEW list \in Seq(SdrEntries), SdrListHas(list, SdrN),
         SdrShowsSeen(cmd, S, list, DOMAIN list)
  PROVE  SdrFinal(cmd, out)
<1>0. SdrN \in 0..SdrN
  BY SdrConstants
<1>1. ASSUME NEW i \in 1..SdrN, SdrDue(cmd, i) PROVE \E n \in DOMAIN out : out[n].id = SdrRecords[i].id
  <2>1. SdrRecords[i].type \in SdrKept
    BY <1>1 DEF SdrDue
  <2>2. PICK j \in DOMAIN list : list[j].name = SdrRecords[i].id
    BY <2>1 DEF SdrListHas
  <2>3. PICK k \in 1..SdrN : SdrIs(list[j], k)
    BY <2>2 DEF SdrListHas
  <2>4. SdrPlace(SdrRecords[i].id) = i /\ SdrPlace(SdrRecords[k].id) = k /\ SdrRecords[k].id = SdrRecords[i].id
    BY <2>2, <2>3, SdrPlaceOf DEF SdrIs
  <2>5. SdrIs(list[j], i) /\ list[j] \in SdrEntries
    BY <2>2, <2>3, <2>4
  <2>6. SdrAbout(cmd, list[j])
    BY <1>1, <2>1, <2>5, SdrDueIs
  <2>7. PICK n \in DOMAIN S : S[n] = list[j].name
    BY <2>2, <2>6 DEF SdrShowsSeen
  <2> QED BY <2>2, <2>7 DEF SdrPrinted
<1>2. /\ \A n \in DOMAIN out : \E i \in 1..SdrN : SdrDue(cmd, i) /\ out[n].id = SdrRecords[i].id
      /\ \A n1, n2 \in DOMAIN out : n1 < n2 => SdrPlace(out[n1].id) < SdrPlace(out[n2].id)
  BY <1>0, SdrShownDue
<1> QED BY <1>1, <1>2 DEF SdrFinal
LEMMA SdrOneOf ==
  ASSUME NEW cmd, cmd.by \in {"num", "id"}, NEW i \in 1..SdrN, NEW j \in 1..SdrN, SdrDue(cmd, i), SdrDue(cmd, j)
  PROVE  SdrRecords[i].id = SdrRecords[j].id
<1>1. \A k \in 1..SdrN : SdrEntry(SdrRecords[k], SdrRecords[k].id, SdrNoRecord).name = SdrRecords[k].id
  BY DEF SdrEntry
<1> DEFINE e == SdrEntry(SdrRecords[i], SdrRecords[i].id, SdrNoRecord)
           f == SdrEntry(SdrRecords[j], SdrRecords[j].id, SdrNoRecord)
<1>2. SdrAbout(cmd, e) /\ SdrAbout(cmd, f) /\ e.name = SdrRecords[i].id /\ f.name = SdrRecords[j].id
  BY <1>1 DEF SdrDue
<1> HIDE DEF e, f
<1>3. CASE cmd.by = "id"
  BY <1>2, <1>3 DEF SdrAbout
<1>4. CASE cmd.by = "num"
  <2>1. <<e.name, e.stype>> = cmd.arg /\ <<f.name, f.stype>> = cmd.arg
    BY <1>2, <1>4 DEF SdrAbout
  <2> QED BY <1>2, <2>1
<1> QED BY <1>3, <1>4
LEMMA SdrOneFound ==
  ASSUME NEW cmd, cmd.by \in {"num", "id"}, NEW S, NEW out, SdrPrinted(S, out), NEW m \in 0..SdrN,
         NEW list \in Seq(SdrEntries), SdrListHas(list, m),
         NEW seen, seen \subseteq DOMAIN list, SdrShowsSeen(cmd, S, list, seen), DOMAIN out # {}
  PROVE  SdrFinal(cmd, out)
<1>1. /\ \A n \in DOMAIN out : \E i \in 1..SdrN : SdrDue(cmd, i) /\ out[n].id = SdrRecords[i].id
      /\ \A n1, n2 \in DOMAIN out : n1 < n2 => SdrPlace(out[n1].id) < SdrPlace(out[n2].id)
  BY SdrShownDue
<1>2. PICK n \in DOMAIN out : TRUE
  OBVIOUS
<1>3. PICK j \in 1..SdrN : SdrDue(cmd, j) /\ out[n].id = SdrRecords[j].id
  BY <1>1
<1>4. \A i \in 1..SdrN : SdrDue(cmd, i) => out[n].id = SdrRecords[i].id
  BY <1>3, SdrOneOf
<1> QED BY <1>1, <1>4 DEF SdrFinal

(* While nothing disturbs the commands.                                    *)
LEMMA SdrAnswered ==
  ASSUME sdrBmc = "up", NEW good, NEW r \in SdrReplies(good), SdrCount(r), sdrHist' \subseteq {"dumped"}
  PROVE  r = good /\ r \notin {"none", "error"} /\ UNCHANGED <<sdrUsed, sdrHist>>
<1>1. r \notin {"none", "error"}
  <2>1. SUFFICES ASSUME r \in {"none", "error"} PROVE FALSE
    OBVIOUS
  <2>2. sdrHist' = sdrHist \cup {"fault"}
    BY <2>1 DEF SdrCount
  <2> QED BY <2>2
<1>2. UNCHANGED <<sdrUsed, sdrHist>>
  BY <1>1 DEF SdrCount
<1>3. r \in {good} \cup {"none", "error"}
  BY DEF SdrReplies
<1> QED BY <1>1, <1>2, <1>3
LEMMA SdrStandsEnd == ASSUME NEW m \in 0..SdrN, SdrStands(SdrEnd, m) PROVE m = SdrN
<1>1. SdrEnd # 0 /\ SdrN \in Nat
  BY SdrNumbers, SdrConstants
<1>2. ASSUME m \in 1..(SdrN - 1), SdrEnd = SdrRecords[m + 1].id PROVE FALSE
  <2>1. m + 1 \in 1..SdrN
    BY <1>1, <1>2
  <2>2. SdrRecords[m + 1].id \in 1..(SdrEnd - 1)
    BY <2>1, SdrConstants DEF SdrFits
  <2> QED BY <1>2, <2>2, SdrNumbers
<1> QED BY <1>1, <1>2 DEF SdrStands
LEMMA SdrIndexIs ==
  ASSUME SdrUntouched, NEW c \in 1..SdrN, NEW id, SdrNames(id, c)
  PROVE  /\ SdrIndex(id) = {c} /\ SdrThe(id).id = SdrRecords[c].id /\ SdrThe(id).type = SdrRecords[c].type /\ SdrThe(id).ver = 1
         /\ SdrThe(id).len = SdrRecords[c].len /\ SdrStands(SdrAfter(id), c)
<1>0. SdrN \in Nat /\ DOMAIN SdrRecords = 1..SdrN
  BY SdrConstants
<1>1. DOMAIN sdrRepo = 1..SdrN /\ \A i \in 1..SdrN : sdrRepo[i] = SdrAsStored(SdrRecords[i])
  BY <1>0 DEF SdrUntouched
<1>2. \A i \in 1..SdrN : sdrRepo[i].id = SdrRecords[i].id /\ sdrRepo[i].type = SdrRecords[i].type /\ sdrRepo[i].ver = 1
      /\ sdrRepo[i].len = SdrRecords[i].len
  BY <1>1 DEF SdrAsStored
<1>3. SdrIndex(id) = {c}
  <2>1. CASE id = 0
    <3>1. c = 1
      <4>1. SdrRecords[c].id \in 1..(SdrEnd - 1)
        BY SdrConstants DEF SdrFits
      <4>2. SdrRecords[c].id # 0
        BY <4>1, SdrNumbers
      <4> QED BY <2>1, <4>2 DEF SdrNames
    <3>2. sdrRepo # <<>>
      BY <1>0, <1>1
    <3> QED BY <2>1, <3>1, <3>2 DEF SdrIndex
  <2>2. CASE id # 0
    <3>1. id = SdrRecords[c].id
      BY <2>2 DEF SdrNames
    <3>2. \A i \in 1..SdrN : SdrRecords[i].id = SdrRecords[c].id => i = c
      BY SdrPlaceOf
    <3>3. SdrIndex(id) = {i \in DOMAIN sdrRepo : sdrRepo[i].id = id}
      BY <2>2 DEF SdrIndex
    <3> QED BY <1>1, <1>2, <3>1, <3>2, <3>3
  <2> QED BY <2>1, <2>2
<1>4. (CHOOSE i \in SdrIndex(id) : TRUE) = c
  BY <1>3
<1>5. SdrThe(id) = sdrRepo[c]
  BY <1>4 DEF SdrThe
<1>6. Len(sdrRepo) = SdrN
  <2>1. sdrRepo = [i \in 1..SdrN |-> SdrAsStored(SdrRecords[i])]
    BY <1>0 DEF SdrUntouched
  <2> HIDE DEF SdrUntouched
  <2>2. PICK V : \A i \in 1..SdrN : SdrAsStored(SdrRecords[i]) \in V
    <3> WITNESS {SdrAsStored(SdrRecords[i]) : i \in 1..SdrN}
    <3> QED OBVIOUS
  <2>3. sdrRepo \in [1..SdrN -> V]
    BY <2>1, <2>2
  <2> QED BY <1>0, <2>3
<1>7. SdrStands(SdrAfter(id), c)
  <2>1. CASE c = SdrN
    BY <1>4, <1>6, <2>1 DEF SdrAfter, SdrStands
  <2>2. CASE c # SdrN
    <3>1. c \in 1..(SdrN - 1) /\ c + 1 \in 1..SdrN
      BY <1>0, <2>2
    <3>2. SdrAfter(id) = SdrRecords[c + 1].id
      BY <1>2, <1>4, <1>6, <2>2, <3>1 DEF SdrAfter
    <3> QED BY <3>1, <3>2 DEF SdrStands
  <2> QED BY <2>1, <2>2
<1> QED BY <1>2, <1>3, <1>5, <1>7
LEMMA SdrNextIs ==
  ASSUME SdrUntouched, NEW m \in 0..SdrN, NEW next, SdrStands(next, m), next # SdrEnd, SdrIndex(next) # {}
  PROVE  m + 1 \in 1..SdrN /\ SdrNames(next, m + 1)
<1>0. SdrN \in Nat /\ DOMAIN SdrRecords = 1..SdrN
  BY SdrConstants
<1>1. CASE next = 0 /\ m = 0
  <2>1. sdrRepo # <<>>
    BY <1>1 DEF SdrIndex
  <2>2. SdrN # 0
    <3>1. SUFFICES ASSUME SdrN = 0 PROVE sdrRepo = <<>>
      BY <2>1
    <3>2. sdrRepo = [i \in 1..0 |-> SdrAsStored(SdrRecords[i])]
      BY <1>0, <3>1 DEF SdrUntouched
    <3> QED BY <3>2
  <2> QED BY <1>0, <1>1, <2>2 DEF SdrNames
<1>2. CASE m \in 1..(SdrN - 1) /\ next = SdrRecords[m + 1].id
  BY <1>0, <1>2 DEF SdrNames
<1> QED BY <1>1, <1>2 DEF SdrStands

LEMMA SdrStays ==
  ASSUME SdrGoesOn, UNCHANGED <<sdrList, sdrItr>>, sdrAt \notin {"record", "got", "file"}, sdrAt' \notin {"record", "got", "file"}
  PROVE  SdrGoesOn'
<1>1. PICK m \in 0..SdrN : SdrReached(m)
  BY DEF SdrGoesOn
<1>2. SdrListHas(sdrList, m) /\ SdrStands(sdrItr.next, m)
  BY <1>1 DEF SdrReached
<1>3. SdrListHas(sdrList', m) /\ SdrStands(sdrItr'.next, m)
  BY <1>2
<1>4. SdrReached(m)'
  BY <1>3 DEF SdrReached
<1> QED BY <1>4 DEF SdrGoesOn
LEMMA SdrUntouchedStays == ASSUME SdrUntouched, UNCHANGED <<sdrRepo, sdrBmc>> PROVE SdrUntouched'
BY DEF SdrUntouched
LEMMA SdrInit2 == SdrInit => SdrCalm
<1> SUFFICES ASSUME SdrInit PROVE SdrCalm
  OBVIOUS
<1>1. SdrUntouched /\ sdrAt = "new" /\ sdrItr = [on |-> FALSE, next |-> 0] /\ sdrList = <<>> /\ sdrUsed.commands = 0
  BY DEF SdrInit, SdrUntouched, SdrAsStored, SdrNoItr
<1>2. SdrIter /\ SdrWhere
  BY <1>1 DEF SdrIter, SdrWhere, SdrStarting, SdrWalking, SdrBusy
<1>3. SdrReached(0)
  BY <1>1 DEF SdrReached, SdrListHas, SdrStands
<1>4. SdrGoesOn
  BY <1>3, SdrConstants DEF SdrGoesOn
<1> QED BY <1>1, <1>2, <1>4 DEF SdrCalm, SdrShowing, SdrEnded, SdrBusy, SdrStarting, SdrWalking, SdrTroubled

LEMMA SdrBegins2 == ASSUME SdrSound, SdrCalm, NEW cmd, SdrBegins(cmd), SdrOrder(cmd) PROVE SdrCalm'
<1>1. /\ sdrAt = "idle" /\ sdrCmd' = cmd /\ sdrOut' = <<>> /\ sdrTodo' = <<>> /\ sdrPos' = 1
      /\ sdrAt' = IF sdrItr.on THEN "listed" ELSE "devid"
      /\ UNCHANGED <<sdrRepo, sdrBmc, sdrHeld, sdrItr, sdrList>>
  BY DEF SdrBegins, sdrBmcVars
<1>2. sdrList \in Seq(SdrEntries)
  BY DEF SdrSound, SdrTyped
<1>3. SdrUntouched' /\ SdrGoesOn'
  BY <1>1, SdrStays, SdrUntouchedStays DEF SdrCalm
<1>4. SdrIter'
  BY <1>1 DEF SdrCalm, SdrIter, SdrStarting, SdrWalking
<1>5. SdrWhere'
  BY <1>1, <1>2 DEF SdrWhere, SdrStarting, SdrWalking, SdrBusy, SdrOrder
<1>6. SdrShowsSeen(cmd, SdrShows(<<>>, <<>>), sdrList', SdrSeen(1, sdrList'))
  BY DEF SdrShowsSeen, SdrShows, SdrSeen
<1>7. SdrShowing'
  BY <1>1, <1>6 DEF SdrShowing
<1> QED BY <1>1, <1>3, <1>4, <1>5, <1>7 DEF SdrCalm, SdrEnded, SdrTroubled

LEMMA SdrEasy2 ==
  ASSUME SdrSound, SdrCalm, sdrHist' \subseteq {"dumped"}, SdrBmcIs \/ ipmi_sdr_list_cache_fromfile \/ SdrFileEnd \/ SdrNoRec \/ ipmi_sdr_start
  PROVE  SdrCalm'
<1>0. SdrUntouched /\ SdrIter /\ SdrWhere /\ SdrGoesOn /\ SdrTyped
  BY DEF SdrCalm, SdrSound
<1>1. CASE SdrBmcIs
  <2>1. sdrAt = "new" /\ sdrAt' = "idle" /\ UNCHANGED <<sdrRepo, sdrBmc, sdrHeld, sdrItr, sdrList, sdrUsed>>
    BY <1>1 DEF SdrBmcIs
  <2>2. SdrUntouched' /\ SdrGoesOn'
    BY <1>0, <2>1, SdrStays, SdrUntouchedStays
  <2>3. SdrIter' /\ SdrWhere' /\ SdrEnded'
    BY <1>0, <2>1 DEF SdrIter, SdrWhere, SdrEnded, SdrStarting, SdrWalking, SdrBusy
  <2> QED BY <2>1, <2>2, <2>3 DEF SdrCalm, SdrShowing, SdrBusy, SdrStarting, SdrWalking, SdrTroubled
<1>2. CASE ipmi_sdr_list_cache_fromfile
  <2>1. sdrAt = "idle" /\ sdrAt' = "file" /\ sdrPos' = 1 /\ UNCHANGED <<sdrRepo, sdrBmc, sdrHeld, sdrItr, sdrList, sdrUsed>> /\ ~sdrItr.on
        /\ sdrUsed.commands = 0
    BY <1>2 DEF ipmi_sdr_list_cache_fromfile, sdrBmcVars
  <2>2. SdrIter' /\ SdrWhere'
    BY <1>0, <2>1 DEF SdrIter, SdrWhere, SdrStarting, SdrWalking, SdrBusy
  <2>3. PICK m \in 0..SdrN : SdrReached(m)
    BY <1>0 DEF SdrGoesOn
  <2>4. SdrListHas(sdrList, m) /\ SdrStands(0, m)
    <3>1. SdrListHas(sdrList, m) /\ SdrStands(sdrItr.next, m)
      BY <2>1, <2>3 DEF SdrReached
    <3>2. sdrItr.next = 0
      <4>1. sdrItr.on = FALSE
        BY <1>0, <2>1 DEF SdrTyped
      <4> QED BY <1>0, <4>1 DEF SdrIter
    <3> QED BY <3>1, <3>2
  <2>5. m = 0
    <3>1. m \in 1..(SdrN - 1) => SdrRecords[m + 1].id # 0
      <4>1. m \in 1..(SdrN - 1) => m + 1 \in 1..SdrN
        BY SdrConstants
      <4>2. m + 1 \in 1..SdrN => SdrRecords[m + 1].id \in 1..(SdrEnd - 1)
        BY SdrConstants DEF SdrFits
      <4> QED BY <4>1, <4>2, SdrNumbers
    <3> QED BY <2>4, <3>1, SdrNumbers DEF SdrStands
  <2>6. SdrReached(m)'
    BY <2>1, <2>4, <2>5 DEF SdrReached
  <2>7. SdrGoesOn' /\ SdrUntouched'
    BY <1>0, <2>1, <2>6, SdrUntouchedStays DEF SdrGoesOn
  <2> QED BY <2>1, <2>2, <2>7 DEF SdrCalm, SdrShowing, SdrEnded, SdrBusy, SdrStarting, SdrWalking, SdrTroubled
<1>3. CASE SdrFileEnd
  <2>1. sdrAt = "file" /\ sdrAt' = "idle" /\ sdrItr' = [on |-> TRUE, next |-> SdrEnd] /\ UNCHANGED <<sdrRepo, sdrBmc, sdrList, sdrPos, sdrUsed>>
        /\ ~(sdrPos <= Len(SdrRecords))
    BY <1>3 DEF SdrFileEnd, sdrBmcVars
  <2>2. PICK m \in 0..SdrN : SdrReached(m)
    BY <1>0 DEF SdrGoesOn
  <2>3. SdrListHas(sdrList, m) /\ sdrPos = m + 1
    BY <2>1, <2>2 DEF SdrReached
  <2>4. m = SdrN
    <3>1. ~(sdrPos <= SdrN)
      BY <2>1 DEF SdrN
    <3>2. SdrN \in Nat
      BY SdrConstants
    <3> QED BY <2>3, <3>1, <3>2
  <2>5. SdrReached(m)'
    BY <2>1, <2>3, <2>4 DEF SdrReached, SdrStands
  <2>6. SdrGoesOn' /\ SdrUntouched'
    BY <1>0, <2>1, <2>5, SdrUntouchedStays DEF SdrGoesOn
  <2>7. SdrIter' /\ SdrWhere'
    BY <1>0, <2>1 DEF SdrIter, SdrWhere, SdrStarting, SdrWalking, SdrBusy
  <2>8. sdrUsed'.commands = 0
    BY <1>0, <2>1 DEF SdrWhere
  <2> QED BY <2>1, <2>6, <2>7, <2>8 DEF SdrCalm, SdrShowing, SdrEnded, SdrBusy, SdrStarting, SdrWalking, SdrTroubled
<1>4. CASE SdrNoRec
  BY <1>4 DEF SdrNoRec, SdrCalm, SdrTroubled
<1>5. CASE ipmi_sdr_start
  <2>1. /\ sdrAt \in {"devid", "info"}
        /\ UNCHANGED <<sdrRepo, sdrBmc, sdrHeld, sdrItr, sdrList, sdrCmd, sdrPos, sdrTodo, sdrOut>>
    <3>1. sdrCmd.op # "dump"
      BY <1>0, <1>5 DEF ipmi_sdr_start, SdrWhere, SdrBusy, SdrStarting
    <3> QED BY <1>5, <3>1 DEF ipmi_sdr_start, sdrBmcVars, SdrOldItr
  <2>2. PICK r \in SdrReplies("ok") :
     /\ SdrCount(r)
     /\ IF sdrAt = "devid" /\ r # "none" THEN sdrAt' = "info" /\ UNCHANGED sdrRc
        ELSE IF r = "ok" THEN sdrAt' = "reserve" /\ UNCHANGED sdrRc
        ELSE SdrEnds(-1)
    BY <1>5 DEF ipmi_sdr_start
  <2>3. r = "ok"
    BY <1>0, <2>2, SdrAnswered DEF SdrUntouched
  <2>4. sdrAt' \in {"info", "reserve"}
    BY <2>2, <2>3
  <2>5. SdrUntouched' /\ SdrGoesOn'
    BY <1>0, <2>1, <2>4, SdrStays, SdrUntouchedStays
  <2>6. SdrIter' /\ SdrWhere'
    BY <1>0, <2>1, <2>4 DEF SdrIter, SdrWhere, SdrStarting, SdrWalking, SdrBusy
  <2>7. SdrShowing'
    BY <2>1, <2>4 DEF SdrShowing, SdrCalm, SdrBusy, SdrStarting
  <2> QED BY <2>4, <2>5, <2>6, <2>7 DEF SdrCalm, SdrEnded, SdrTroubled
<1> QED BY <1>1, <1>2, <1>3, <1>4, <1>5

LEMMA SdrFileRecord2 == ASSUME SdrSound, SdrCalm, SdrFileRecord PROVE SdrCalm'
<1>0. SdrUntouched /\ SdrIter /\ SdrWhere /\ SdrGoesOn /\ SdrTyped
  BY DEF SdrCalm, SdrSound
<1>1. /\ sdrAt = "file" /\ sdrPos <= Len(SdrRecords) /\ sdrPos' = sdrPos + 1
      /\ sdrList' = IF SdrRecords[sdrPos].type \in SdrKept THEN Append(sdrList, SdrFromFile(SdrRecords[sdrPos])) ELSE sdrList
      /\ UNCHANGED <<sdrRepo, sdrBmc, sdrHeld, sdrItr, sdrAt, sdrUsed>>
  BY DEF SdrFileRecord, sdrBmcVars
<1>2. PICK m \in 0..SdrN : SdrReached(m)
  BY <1>0 DEF SdrGoesOn
<1>3. SdrListHas(sdrList, m) /\ sdrPos = m + 1
  BY <1>1, <1>2 DEF SdrReached
<1>4. m < SdrN /\ m + 1 \in 1..SdrN /\ m + 1 \in 0..SdrN
  <2>1. sdrPos <= SdrN
    BY <1>1 DEF SdrN
  <2>2. SdrN \in Nat
    BY SdrConstants
  <2> QED BY <1>3, <2>1, <2>2
<1>5. sdrList \in Seq(SdrEntries)
  BY <1>0 DEF SdrTyped
<1>6. SdrListHas(sdrList', m + 1)
  <2>1. CASE SdrRecords[m + 1].type \in SdrKept
    <3>1. PICK e : e = SdrFromFile(SdrRecords[m + 1])
      OBVIOUS
    <3>2. e \in SdrEntries /\ SdrIs(e, m + 1)
      BY <1>4, <3>1, SdrFromFileType
    <3>3. e.type \in SdrKept
      BY <2>1, <3>2 DEF SdrIs
    <3>4. sdrList' = Append(sdrList, e)
      BY <1>1, <1>3, <2>1, <3>1
    <3> QED BY <1>3, <1>4, <1>5, <3>2, <3>3, <3>4, SdrListMore
  <2>2. CASE SdrRecords[m + 1].type \notin SdrKept
    <3>1. sdrList' = sdrList
      BY <1>1, <1>3, <2>2
    <3> QED BY <1>3, <1>4, <2>2, <3>1, SdrListSkip
  <2> QED BY <2>1, <2>2
<1>7. SdrReached(m + 1)'
  BY <1>1, <1>3, <1>6 DEF SdrReached
<1>8. SdrGoesOn' /\ SdrUntouched'
  BY <1>0, <1>1, <1>4, <1>7, SdrUntouchedStays DEF SdrGoesOn
<1>9. SdrIter' /\ SdrWhere'
  BY <1>0, <1>1 DEF SdrIter, SdrWhere, SdrStarting, SdrWalking, SdrBusy
<1> QED BY <1>1, <1>8, <1>9 DEF SdrCalm, SdrShowing, SdrEnded, SdrBusy, SdrStarting, SdrWalking, SdrTroubled

(* A new reservation for the header, the header, and a piece of the        *)
(* record, of a dump as of the other commands.                             *)
LEMMA SdrRenews ==
  ASSUME SdrUntouched, sdrHist' \subseteq {"dumped"}, sdrAt = "renew_header", ipmi_sdr_get_reservation
  PROVE  /\ UNCHANGED <<sdrRepo, sdrBmc, sdrItr, sdrList, sdrCmd, sdrPos, sdrTodo, sdrOut, sdrRaw, sdrShared>>
         /\ sdrAt' \in {"header", "garbage"}
<1>1. PICK r \in SdrReplies("ok") :
        /\ SdrCount(r) /\ UNCHANGED sdrItr
        /\ sdrAt' = IF r # "ok" THEN "walked" ELSE IF sdrHdr.try = 5 THEN "garbage" ELSE "header"
  BY DEF ipmi_sdr_get_reservation
<1>2. r = "ok"
  BY <1>1, SdrAnswered DEF SdrUntouched
<1> QED BY <1>1, <1>2 DEF ipmi_sdr_get_reservation, sdrBmcVars, sdrDumpVars
LEMMA SdrHeaderGot ==
  ASSUME SdrTyped, SdrUntouched, sdrHist' \subseteq {"dumped"}, ipmi_sdr_get_header, sdrItr.next # SdrEnd,
         NEW m \in 0..SdrN, SdrStands(sdrItr.next, m)
  PROVE  \/ sdrAt' \in {"header", "renew_header", "garbage"} /\ UNCHANGED sdrItr
         \/ sdrAt' = "record" /\ sdrHeld /\ SdrReads(m + 1)' /\ sdrItr'.on = sdrItr.on
<1>1. PICK r \in SdrReplies(SdrGet(sdrItr.next, 5)) :
        /\ SdrCount(r)
        /\ IF r = "ok"
           THEN SdrHeader([next |-> SdrAfter(sdrItr.next), type |-> SdrThe(sdrItr.next).type,
                           len |-> SdrThe(sdrItr.next).len])
           ELSE /\ sdrHdr' = [sdrHdr EXCEPT !.try = @ + 1]
                /\ sdrAt' = IF r = "cancelled" THEN "renew_header"
                            ELSE IF sdrHdr.try < 4 THEN "header"
                            ELSE IF r = "none" THEN "walked" ELSE "garbage"
                /\ UNCHANGED <<sdrItr, sdrBuf>>
  BY DEF ipmi_sdr_get_header
<1>2. r = SdrGet(sdrItr.next, 5) /\ r \notin {"none", "error"}
  BY <1>1, SdrAnswered DEF SdrUntouched
<1>3. CASE r = "ok"
  <2>1. SdrIndex(sdrItr.next) # {} /\ sdrHeld
    BY <1>2, <1>3, SdrGetOk
  <2>2. PICK x : x = sdrItr.next
    OBVIOUS
  <2>3. m + 1 \in 1..SdrN /\ SdrNames(x, m + 1)
    BY <2>1, <2>2, SdrNextIs
  <2>4. SdrThe(x).type = SdrRecords[m + 1].type /\ SdrThe(x).len = SdrRecords[m + 1].len /\ SdrStands(SdrAfter(x), m + 1)
    BY <2>3, SdrIndexIs
  <2>5. PICK a, t, l : a = SdrAfter(x) /\ t = SdrThe(x).type /\ l = SdrThe(x).len
    OBVIOUS
  <2>6. SdrHeader([next |-> a, type |-> t, len |-> l])
    BY <1>1, <1>3, <2>2, <2>5
  <2>7. sdrHdr'.id = x /\ sdrHdr'.type = t /\ sdrHdr'.len = l /\ sdrItr' = [sdrItr EXCEPT !.next = a]
        /\ sdrBuf'.vers = <<>> /\ sdrAt' = "record"
    BY <2>2, <2>6 DEF SdrHeader, SdrNoRecord
  <2>8. sdrItr \in SdrIters
    BY DEF SdrTyped
  <2>9. sdrItr'.on = sdrItr.on /\ sdrItr'.next = a
    BY <2>7, <2>8 DEF SdrIters
  <2>10. SdrReads(m + 1)'
    BY <2>3, <2>4, <2>5, <2>7, <2>9 DEF SdrReads
  <2> QED BY <2>1, <2>7, <2>9, <2>10
<1>4. CASE r # "ok"
  BY <1>1, <1>2, <1>4
<1> QED BY <1>3, <1>4
LEMMA SdrPieceGot ==
  ASSUME SdrTyped, SdrInHand, SdrUntouched, sdrHist' \subseteq {"dumped"}, ipmi_sdr_get_record, sdrHeld,
         NEW c \in 1..SdrN, SdrReads(c)
  PROVE  sdrAt' \in {"record", "got"} /\ SdrReads(c)'
<1>0. sdrAt = "record" /\ UNCHANGED <<sdrItr, sdrHdr>>
  BY DEF ipmi_sdr_get_record
<1>4. PICK r \in SdrReplies(SdrPiece) :
        /\ SdrCount(r)
        /\ sdrBuf' = IF r = "ok" THEN [sdrBuf EXCEPT !.vers = SdrFilled(SdrAsk)] ELSE sdrBuf
        /\ sdrAt' = CASE r = "ok" -> IF Len(sdrBuf'.vers) < sdrHdr.len THEN "record" ELSE "got"
                      [] r = "too long" -> "record"
                      [] r = "cancelled" -> "renew_record"
                      [] OTHER -> "norecord"
  BY DEF ipmi_sdr_get_record
<1>5. r = SdrGet(sdrHdr.id, SdrAsk) /\ r \notin {"none", "error"}
  BY <1>4, SdrAnswered DEF SdrUntouched, SdrPiece
<1>8. SdrReads(c) /\ SdrNames(sdrHdr.id, c)
  BY DEF SdrReads
<1>10. /\ SdrIndex(sdrHdr.id) = {c} /\ SdrThe(sdrHdr.id).id = SdrRecords[c].id /\ SdrThe(sdrHdr.id).ver = 1
  BY <1>8, SdrIndexIs
<1>11. r \in {"ok", "too long"}
  BY <1>5, <1>10 DEF SdrGet
<1>12. sdrAt' \in {"record", "got"}
  BY <1>4, <1>11
<1>13. \A j \in DOMAIN sdrBuf'.vers : sdrBuf'.vers[j] = <<SdrRecords[c].id, 1>>
  <2>1. CASE r = "too long"
    BY <1>4, <1>8, <2>1 DEF SdrReads
  <2>2. CASE r = "ok"
    <3>1. PICK b : b = SdrByte
      OBVIOUS
    <3>2. b = <<SdrRecords[c].id, 1>>
      BY <1>10, <3>1 DEF SdrByte
    <3>3. b \in SdrBytes
      BY <3>2, SdrConstants DEF SdrBytes, SdrFits
    <3>4. sdrBuf \in SdrBuffers /\ sdrBuf.vers \in Seq(SdrBytes) /\ sdrHdr.len \in Nat /\ sdrCap \in Nat
      BY <1>0 DEF SdrTyped, SdrBuffers, SdrHeaders
    <3>5. Len(sdrBuf.vers) \in Nat /\ Len(sdrBuf.vers) <= sdrHdr.len
      BY <1>0, <3>4 DEF SdrInHand
    <3>6. SdrAsk \in Nat
      BY <3>4, <3>5 DEF SdrAsk
    <3>7. PICK w : w = SdrFilled(SdrAsk)
      OBVIOUS
    <3>8. w = sdrBuf.vers \o [j \in 1..SdrAsk |-> b]
      BY <3>1, <3>7 DEF SdrFilled
    <3>9. \A k \in DOMAIN w : (k \in DOMAIN sdrBuf.vers /\ w[k] = sdrBuf.vers[k]) \/ w[k] = b
      BY <3>3, <3>4, <3>6, <3>8, SdrMore
    <3>10. sdrBuf' = [sdrBuf EXCEPT !.vers = w]
      BY <1>4, <2>2, <3>7
    <3>11. sdrBuf'.vers = w
      BY <3>4, <3>10 DEF SdrBuffers
    <3> QED BY <1>8, <3>2, <3>9, <3>11 DEF SdrReads
  <2> QED BY <1>11, <2>1, <2>2
<1>14. SdrReads(c)'
  BY <1>0, <1>8, <1>13 DEF SdrReads
<1> QED BY <1>12, <1>14

LEMMA SdrReserve2 == ASSUME SdrSound, SdrCalm, sdrHist' \subseteq {"dumped"}, ipmi_sdr_get_reservation PROVE SdrCalm'
<1>12. CASE sdrAt = "renew_header"
  <2>0. SdrUntouched /\ SdrIter /\ SdrWhere /\ SdrGoesOn /\ SdrTyped
    BY DEF SdrCalm, SdrSound
  <2>1. UNCHANGED <<sdrRepo, sdrBmc, sdrItr, sdrList, sdrCmd, sdrPos, sdrTodo, sdrOut>> /\ sdrAt' \in {"header", "garbage"}
    BY <1>12, <2>0, SdrRenews
  <2>2. SdrGoesOn' /\ SdrUntouched'
    BY <1>12, <2>0, <2>1, SdrStays, SdrUntouchedStays
  <2>3. SdrIter'
    BY <1>12, <2>0, <2>1 DEF SdrIter, SdrStarting, SdrWalking
  <2>4. SdrWhere'
    BY <1>12, <2>0, <2>1 DEF SdrWhere, SdrStarting, SdrWalking, SdrBusy
  <2>5. SdrShowing'
    BY <1>12, <2>1 DEF SdrShowing, SdrCalm, SdrBusy, SdrWalking
  <2> QED BY <2>1, <2>2, <2>3, <2>4, <2>5 DEF SdrCalm, SdrEnded, SdrTroubled
<1> SUFFICES ASSUME sdrAt # "renew_header" PROVE SdrCalm'
  BY <1>12
<1>0. SdrUntouched /\ SdrIter /\ SdrWhere /\ SdrGoesOn /\ SdrTyped /\ sdrAt = "reserve"
  BY DEF SdrCalm, SdrSound, ipmi_sdr_get_reservation, SdrTroubled
<1>1. PICK r \in SdrReplies("ok") :
        /\ SdrCount(r)
        /\ sdrHeld' = (r = "ok" \/ sdrHeld)
        /\ r = "ok" => sdrItr' = [on |-> TRUE, next |-> 0] /\ sdrAt' = "listed"
  <2>1. ~SdrDumping
    BY <1>0 DEF SdrWhere, SdrBusy, SdrStarting, SdrDumping
  <2> QED BY <1>0, <2>1 DEF ipmi_sdr_get_reservation
<1>2. r = "ok"
  BY <1>0, <1>1, SdrAnswered DEF SdrUntouched
<1>3. sdrHeld' = TRUE /\ sdrItr' = [on |-> TRUE, next |-> 0] /\ sdrAt' = "listed"
      /\ UNCHANGED <<sdrRepo, sdrBmc, sdrList, sdrCmd, sdrPos, sdrTodo, sdrOut>>
  BY <1>1, <1>2 DEF ipmi_sdr_get_reservation, sdrBmcVars
<1>4. sdrItr.next = 0
  <2>1. sdrItr.on = FALSE
    BY <1>0 DEF SdrTyped, SdrIter, SdrStarting
  <2> QED BY <1>0, <2>1 DEF SdrIter
<1>5. PICK m \in 0..SdrN : SdrReached(m)
  BY <1>0 DEF SdrGoesOn
<1>6. SdrListHas(sdrList, m) /\ SdrStands(0, m)
  BY <1>0, <1>4, <1>5 DEF SdrReached
<1>7. SdrReached(m)'
  BY <1>3, <1>6 DEF SdrReached
<1>8. SdrGoesOn' /\ SdrUntouched'
  BY <1>0, <1>3, <1>7, SdrUntouchedStays DEF SdrGoesOn
<1>9. SdrIter'
  BY <1>3 DEF SdrIter, SdrStarting, SdrWalking
<1>10. SdrWhere'
  <2>1. sdrList \in Seq(SdrEntries) /\ sdrPos = 1
    BY <1>0 DEF SdrTyped, SdrWhere, SdrStarting
  <2>2. Len(sdrList) \in Nat
    BY <2>1
  <2> QED BY <1>0, <1>3, <2>1, <2>2 DEF SdrWhere, SdrStarting, SdrWalking, SdrBusy
<1>11. SdrShowing'
  BY <1>0, <1>3 DEF SdrShowing, SdrCalm, SdrBusy, SdrStarting
<1> QED BY <1>3, <1>8, <1>9, <1>10, <1>11 DEF SdrCalm, SdrEnded, SdrTroubled

(* An entry is looked at, in the list or as it was read.                   *)
LEMMA SdrTakes2 ==
  ASSUME SdrTyped, SdrShowsSeen(sdrCmd, SdrShows(sdrOut, sdrTodo), sdrList, SdrSeen(sdrPos, sdrList)),
         NEW n, sdrList'[n] \in SdrEntries, NEW o, SdrTakes(sdrList'[n], o), UNCHANGED <<sdrCmd, sdrOut>>,
         \A k \in SdrSeen(sdrPos, sdrList) : sdrList'[k] = sdrList[k] /\ SdrPlace(sdrList[k].name) < SdrPlace(sdrList'[n].name),
         SdrSeen(sdrPos', sdrList') = SdrSeen(sdrPos, sdrList) \cup {n}
  PROVE  SdrShowsSeen(sdrCmd', SdrShows(sdrOut', sdrTodo'), sdrList', SdrSeen(sdrPos', sdrList'))
<1>1. PICK S, seen : S = SdrShows(sdrOut, sdrTodo) /\ seen = SdrSeen(sdrPos, sdrList)
  OBVIOUS
<1>2. sdrOut \in Seq([id : SdrIds, shown : {"value", "ns"}]) /\ sdrTodo \in Seq(SdrEntries)
  BY DEF SdrTyped
<1>3. S \in Seq(SdrIds)
  BY <1>1, <1>2, SdrShowsType
<1>4. PICK e : e = sdrList'[n]
  OBVIOUS
<1>5. /\ ~SdrAbout(sdrCmd, e) => SdrShowsSeen(sdrCmd, S, sdrList', seen \cup {n})
      /\ SdrAbout(sdrCmd, e) => SdrShowsSeen(sdrCmd, Append(S, e.name), sdrList', seen \cup {n})
  BY <1>1, <1>3, <1>4, SdrSeesOne
<1>6. CASE SdrAbout(sdrCmd, e)
  <2>1. sdrTodo' = Append(sdrTodo, e)
    BY <1>4, <1>6 DEF SdrTakes
  <2>2. SdrShows(sdrOut', sdrTodo') = Append(S, e.name)
    BY <1>1, <1>2, <1>4, <2>1, SdrShowsOne
  <2> QED BY <1>1, <1>5, <1>6, <2>2
<1>7. CASE ~SdrAbout(sdrCmd, e)
  <2>1. sdrTodo' = sdrTodo
    BY <1>4, <1>7 DEF SdrTakes
  <2> QED BY <1>1, <1>5, <1>7, <2>1
<1> QED BY <1>6, <1>7

LEMMA SdrListed2 == ASSUME SdrSound, SdrCalm, sdrAt' # "crashed", SdrListed PROVE SdrCalm'
<1>0. SdrUntouched /\ SdrIter /\ SdrWhere /\ SdrGoesOn /\ SdrTyped /\ sdrAt = "listed" /\ SdrShowing
  BY DEF SdrCalm, SdrSound, SdrListed
<1>1. UNCHANGED <<sdrRepo, sdrBmc, sdrHeld, sdrItr, sdrList, sdrCmd, sdrOut, sdrUsed>>
  BY DEF SdrListed, sdrBmcVars
<1>2. sdrList \in Seq(SdrEntries) /\ sdrPos \in Nat /\ sdrPos > 0 /\ Len(sdrList) \in Nat /\ sdrPos <= Len(sdrList) + 1
  <2>1. sdrList \in Seq(SdrEntries) /\ sdrPos \in Nat /\ sdrPos > 0 /\ sdrPos <= Len(sdrList) + 1
    BY <1>0 DEF SdrTyped, SdrWhere
  <2> QED BY <2>1
<1>3. SdrShowsSeen(sdrCmd, SdrShows(sdrOut, sdrTodo), sdrList, SdrSeen(sdrPos, sdrList))
  BY <1>0 DEF SdrShowing, SdrBusy
<1> DEFINE dies == \E j \in SdrMet : SdrReadsNull(sdrRaw[j].type)
<1>10. ~dies
  BY DEF SdrListed
<1>4. CASE sdrPos <= Len(sdrList)
  <2>1. SdrTakes(sdrList[sdrPos], "listed") /\ sdrPos' = sdrPos + 1
    BY <1>4, <1>10 DEF SdrListed
  <2>2. sdrList[sdrPos] \in SdrEntries
    BY <1>2, <1>4
  <2>3. SdrSeen(sdrPos, sdrList) = 1..(sdrPos - 1) /\ SdrSeen(sdrPos', sdrList') = 1..sdrPos
    BY <1>2, <2>1 DEF SdrSeen
  <2>4. 1..sdrPos = 1..(sdrPos - 1) \cup {sdrPos}
    BY <1>2
  <2>5. PICK m \in 0..SdrN : SdrListHas(sdrList, m)
    BY <1>0 DEF SdrGoesOn, SdrReached
  <2>6. \A k \in 1..(sdrPos - 1) : SdrPlace(sdrList[k].name) < SdrPlace(sdrList[sdrPos].name)
    <3>1. \A k \in 1..(sdrPos - 1) : k \in DOMAIN sdrList /\ sdrPos \in DOMAIN sdrList /\ k < sdrPos
      BY <1>2, <1>4
    <3> QED BY <2>5, <3>1 DEF SdrListHas
  <2>7. SdrShowsSeen(sdrCmd', SdrShows(sdrOut', sdrTodo'), sdrList', SdrSeen(sdrPos', sdrList'))
    <3>1. \A k \in SdrSeen(sdrPos, sdrList) : sdrList'[k] = sdrList[k] /\ SdrPlace(sdrList[k].name) < SdrPlace(sdrList'[sdrPos].name)
      BY <1>1, <2>3, <2>6
    <3>2. SdrSeen(sdrPos', sdrList') = SdrSeen(sdrPos, sdrList) \cup {sdrPos}
      BY <2>3, <2>4
    <3>3. sdrList'[sdrPos] \in SdrEntries /\ SdrTakes(sdrList'[sdrPos], "listed")
      BY <1>1, <2>1, <2>2
    <3>4. PICK n : n = sdrPos
      OBVIOUS
    <3> QED BY <1>0, <1>1, <1>3, <3>1, <3>2, <3>3, <3>4, SdrTakes2
  <2>8. sdrAt' \in {"listed", "print"} /\ (sdrAt' = "print" => sdrCmd.op # "collect")
    BY <2>1 DEF SdrTakes
  <2>9. SdrGoesOn' /\ SdrUntouched'
    BY <1>0, <1>1, <2>8, SdrStays, SdrUntouchedStays
  <2>10. SdrIter'
    BY <1>0, <1>1, <2>8 DEF SdrIter, SdrStarting, SdrWalking
  <2>11. SdrWhere'
    BY <1>0, <1>1, <1>2, <1>4, <2>1, <2>8 DEF SdrWhere, SdrStarting, SdrWalking, SdrBusy
  <2> QED BY <2>7, <2>8, <2>9, <2>10, <2>11 DEF SdrCalm, SdrEnded, SdrTroubled, SdrShowing
<1>5. CASE ~(sdrPos <= Len(sdrList))
  <2>1. sdrAt' = "header" /\ sdrPos' = 0 /\ UNCHANGED sdrTodo
    BY <1>5, <1>10 DEF SdrListed
  <2>2. SdrSeen(sdrPos', sdrList') = SdrSeen(sdrPos, sdrList)
    <3>1. sdrPos = Len(sdrList) + 1
      BY <1>2, <1>5
    <3>2. SdrSeen(sdrPos, sdrList) = 1..Len(sdrList) /\ SdrSeen(sdrPos', sdrList') = DOMAIN sdrList
      BY <1>1, <1>2, <2>1, <3>1 DEF SdrSeen
    <3> QED BY <1>2, <3>2
  <2>3. SdrShowing'
    BY <1>1, <1>3, <2>1, <2>2 DEF SdrShowing
  <2>4. SdrGoesOn' /\ SdrUntouched'
    BY <1>0, <1>1, <2>1, SdrStays, SdrUntouchedStays
  <2>5. SdrIter' /\ SdrWhere'
    BY <1>0, <1>1, <2>1 DEF SdrIter, SdrWhere, SdrStarting, SdrWalking, SdrBusy
  <2> QED BY <2>1, <2>3, <2>4, <2>5 DEF SdrCalm, SdrEnded, SdrTroubled
<1> QED BY <1>4, <1>5

LEMMA SdrHeaders2 == ASSUME SdrSound, SdrCalm, sdrHist' \subseteq {"dumped"}, ipmi_sdr_get_header PROVE SdrCalm'
<1>0. SdrUntouched /\ SdrIter /\ SdrWhere /\ SdrGoesOn /\ SdrTyped /\ sdrAt = "header" /\ SdrShowing
  BY DEF SdrCalm, SdrSound, ipmi_sdr_get_header
<1>1. UNCHANGED <<sdrRepo, sdrBmc, sdrHeld, sdrList, sdrCmd, sdrPos, sdrTodo, sdrOut>>
  BY DEF ipmi_sdr_get_header, sdrBmcVars
<1>2. SdrUntouched'
  BY <1>0, <1>1, SdrUntouchedStays
<1>3. SdrShowing'
  BY <1>0, <1>1 DEF SdrShowing, SdrBusy, SdrWalking
<1>4. CASE sdrItr.next = SdrEnd
  <2>1. sdrAt' = "walked" /\ UNCHANGED sdrItr
    BY <1>4 DEF ipmi_sdr_get_header
  <2>2. SdrGoesOn'
    BY <1>0, <1>1, <2>1, SdrStays
  <2>3. SdrIter' /\ SdrWhere'
    BY <1>0, <1>1, <1>4, <2>1 DEF SdrIter, SdrWhere, SdrStarting, SdrWalking, SdrBusy
  <2> QED BY <1>2, <1>3, <2>1, <2>2, <2>3 DEF SdrCalm, SdrEnded, SdrTroubled
<1>5. CASE sdrItr.next # SdrEnd
  <2>1. sdrItr.on
    BY <1>0 DEF SdrIter, SdrWalking
  <2>2. PICK m \in 0..SdrN : SdrReached(m)
    BY <1>0 DEF SdrGoesOn
  <2>3. SdrListHas(sdrList, m) /\ SdrStands(sdrItr.next, m)
    BY <1>0, <2>2 DEF SdrReached
  <2>4. CASE sdrAt' = "record" /\ sdrHeld /\ SdrReads(m + 1)' /\ sdrItr'.on = sdrItr.on
    <3>1. SdrReached(m)'
      BY <1>1, <2>3, <2>4 DEF SdrReached
    <3>2. SdrGoesOn'
      BY <3>1 DEF SdrGoesOn
    <3>3. SdrIter'
      BY <1>0, <1>1, <2>1, <2>4 DEF SdrIter, SdrStarting, SdrWalking
    <3>4. SdrWhere'
      BY <1>0, <1>1, <2>4 DEF SdrWhere, SdrStarting, SdrWalking, SdrBusy
    <3> QED BY <1>2, <1>3, <2>4, <3>2, <3>3, <3>4 DEF SdrCalm, SdrEnded, SdrTroubled
  <2>5. CASE sdrAt' \in {"header", "renew_header", "garbage"} /\ UNCHANGED sdrItr
    <3>1. SdrGoesOn'
      BY <1>0, <1>1, <2>5, SdrStays
    <3>2. SdrIter' /\ SdrWhere'
      BY <1>0, <1>1, <2>5 DEF SdrIter, SdrWhere, SdrStarting, SdrWalking, SdrBusy
    <3> QED BY <1>2, <1>3, <2>5, <3>1, <3>2 DEF SdrCalm, SdrEnded, SdrTroubled
  <2> QED BY <1>0, <1>5, <2>3, <2>4, <2>5, SdrHeaderGot
<1> QED BY <1>4, <1>5

LEMMA SdrRecord2 == ASSUME SdrSound, SdrCalm, sdrHist' \subseteq {"dumped"}, ipmi_sdr_get_record PROVE SdrCalm'
<1>0. SdrUntouched /\ SdrIter /\ SdrWhere /\ SdrGoesOn /\ SdrTyped /\ SdrInHand /\ sdrAt = "record" /\ SdrShowing
  BY DEF SdrCalm, SdrSound, ipmi_sdr_get_record
<1>1. UNCHANGED <<sdrRepo, sdrBmc, sdrHeld, sdrItr, sdrList, sdrCmd, sdrHdr, sdrPos, sdrTodo, sdrOut>>
  BY DEF ipmi_sdr_get_record, sdrBmcVars
<1>2. SdrUntouched'
  BY <1>0, <1>1, SdrUntouchedStays
<1>3. SdrShowing'
  BY <1>0, <1>1 DEF SdrShowing, SdrBusy, SdrWalking
<1>4. PICK m \in 0..SdrN : SdrReached(m)
  BY <1>0 DEF SdrGoesOn
<1>5. SdrListHas(sdrList, m) /\ SdrReads(m + 1) /\ sdrHeld
  BY <1>0, <1>4 DEF SdrReached, SdrIter
<1>6. m + 1 \in 1..SdrN
  BY <1>5 DEF SdrReads
<1>7. sdrAt' \in {"record", "got"} /\ SdrReads(m + 1)'
  BY <1>0, <1>5, <1>6, SdrPieceGot
<1>8. SdrReached(m)'
  BY <1>1, <1>5, <1>7 DEF SdrReached
<1>9. SdrGoesOn'
  BY <1>8 DEF SdrGoesOn
<1>10. SdrIter'
  BY <1>0, <1>1, <1>5, <1>7 DEF SdrIter, SdrStarting, SdrWalking
<1>11. SdrWhere'
  BY <1>0, <1>1, <1>7 DEF SdrWhere, SdrStarting, SdrWalking, SdrBusy
<1> QED BY <1>2, <1>3, <1>7, <1>9, <1>10, <1>11 DEF SdrCalm, SdrEnded, SdrTroubled

LEMMA SdrGot2 == ASSUME SdrSound, SdrCalm, SdrGot PROVE SdrCalm'
<1>0. SdrUntouched /\ SdrIter /\ SdrWhere /\ SdrGoesOn /\ SdrTyped /\ SdrInHand /\ sdrAt = "got" /\ SdrShowing /\ sdrPos = 0 /\ sdrItr.on
  BY DEF SdrCalm, SdrSound, SdrGot, SdrWhere, SdrIter, SdrWalking
<1>1. UNCHANGED <<sdrRepo, sdrBmc, sdrHeld, sdrItr, sdrCmd, sdrHdr, sdrBuf, sdrPos, sdrOut>>
  BY DEF SdrGot, sdrBmcVars
<1>14. ~SdrDumping
  BY <1>0 DEF SdrWhere, SdrBusy, SdrWalking, SdrDumping
<1>2. SdrUntouched'
  BY <1>0, <1>1, SdrUntouchedStays
<1>3. PICK m \in 0..SdrN : SdrReached(m)
  BY <1>0 DEF SdrGoesOn
<1>4. SdrListHas(sdrList, m) /\ SdrReads(m + 1)
  BY <1>0, <1>3 DEF SdrReached
<1>5. m + 1 \in 1..SdrN /\ sdrHdr.type = SdrRecords[m + 1].type /\ SdrStands(sdrItr.next, m + 1)
  BY <1>4 DEF SdrReads
<1>6. m + 1 \in 0..SdrN /\ m < SdrN
  BY <1>5, SdrConstants
<1>7. sdrList \in Seq(SdrEntries)
  BY <1>0 DEF SdrTyped
<1>8. SdrShowsSeen(sdrCmd, SdrShows(sdrOut, sdrTodo), sdrList, SdrSeen(sdrPos, sdrList))
  BY <1>0 DEF SdrShowing, SdrBusy, SdrWalking
<1>9. /\ SdrListHas(sdrList', m + 1) /\ sdrAt' \in {"header", "print"} /\ (sdrAt' = "print" => sdrCmd.op # "collect")
      /\ SdrShowsSeen(sdrCmd', SdrShows(sdrOut', sdrTodo'), sdrList', SdrSeen(sdrPos', sdrList'))
  <2>1. CASE sdrHdr.type \notin SdrKept
    <3>1. sdrAt' = "header" /\ UNCHANGED <<sdrList, sdrTodo>>
      BY <2>1 DEF SdrGot
    <3>2. SdrListHas(sdrList, m + 1)
      BY <1>4, <1>5, <1>6, <2>1, SdrListSkip
    <3> QED BY <1>1, <1>8, <3>1, <3>2
  <2>2. CASE sdrHdr.type \in SdrKept
    <3>1. sdrHdr.len > 0 /\ Len(sdrBuf.vers) = sdrHdr.len
      BY <1>0 DEF SdrInHand
    <3>2. sdrBuf.vers # <<>>
      BY <3>1
    <3>3. PICK e : e = SdrRead
      OBVIOUS
    <3>4. sdrBuf.vers \in Seq(SdrBytes)
      BY <1>0 DEF SdrTyped, SdrBuffers
    <3>5. 1 \in DOMAIN sdrBuf.vers
      BY <3>2, <3>4
    <3>6. sdrBuf.vers[1] = <<SdrRecords[m + 1].id, 1>>
      BY <1>4, <3>5 DEF SdrReads
    <3>7. sdrBuf.vers[1][1] = SdrRecords[m + 1].id
      BY <3>6
    <3>8. SdrOf(sdrBuf.vers[1][1]) = SdrRecords[m + 1]
      BY <1>5, <3>7, SdrPlaceOf
    <3>9. e \in SdrEntries /\ SdrIs(e, m + 1) /\ e.type \in SdrKept
      BY <1>0, <1>5, <2>2, <3>2, <3>3, <3>7, <3>8, SdrReadType DEF SdrIs
    <3>10. SdrTakes(e, "header") /\ sdrList' = Append(sdrList, e)
      BY <1>14, <2>2, <3>3 DEF SdrGot, SdrKeep
    <3>11. SdrListHas(sdrList', m + 1) /\ \A n \in DOMAIN sdrList : SdrPlace(sdrList[n].name) < SdrPlace(e.name)
      BY <1>4, <1>6, <1>7, <3>9, <3>10, SdrListMore
    <3>12. PICK n : n = Len(sdrList) + 1
      OBVIOUS
    <3>13. DOMAIN sdrList' = DOMAIN sdrList \cup {n} /\ sdrList'[n] = e /\ \A k \in DOMAIN sdrList : sdrList'[k] = sdrList[k]
      BY <1>7, <3>9, <3>10, <3>12
    <3>14. SdrSeen(sdrPos, sdrList) = DOMAIN sdrList /\ SdrSeen(sdrPos', sdrList') = DOMAIN sdrList'
      BY <1>0, <1>1 DEF SdrSeen
    <3>15. sdrAt' \in {"header", "print"} /\ (sdrAt' = "print" => sdrCmd.op # "collect")
      BY <3>10 DEF SdrTakes
    <3>16. SdrShowsSeen(sdrCmd', SdrShows(sdrOut', sdrTodo'), sdrList', SdrSeen(sdrPos', sdrList'))
      <4>1. \A k \in SdrSeen(sdrPos, sdrList) : sdrList'[k] = sdrList[k] /\ SdrPlace(sdrList[k].name) < SdrPlace(sdrList'[n].name)
        BY <3>11, <3>13, <3>14
      <4>2. SdrSeen(sdrPos', sdrList') = SdrSeen(sdrPos, sdrList) \cup {n}
        BY <3>13, <3>14
      <4>3. sdrList'[n] \in SdrEntries /\ SdrTakes(sdrList'[n], "header")
        BY <3>9, <3>10, <3>13
      <4> QED BY <1>0, <1>1, <1>8, <4>1, <4>2, <4>3, SdrTakes2
    <3> QED BY <3>11, <3>15, <3>16
  <2> QED BY <2>1, <2>2
<1>10. SdrReached(m + 1)'
  BY <1>1, <1>5, <1>9 DEF SdrReached
<1>11. SdrGoesOn'
  BY <1>6, <1>10 DEF SdrGoesOn
<1>12. SdrIter'
  BY <1>0, <1>1, <1>9 DEF SdrIter, SdrStarting, SdrWalking
<1>13. SdrWhere'
  <2>1. sdrList' \in Seq(SdrEntries)
    BY SdrGot1 DEF SdrSound, SdrTyped
  <2>2. Len(sdrList') \in Nat
    BY <2>1
  <2> QED BY <1>0, <1>1, <1>9, <2>2 DEF SdrWhere, SdrStarting, SdrWalking, SdrBusy
<1> QED BY <1>2, <1>9, <1>11, <1>12, <1>13 DEF SdrCalm, SdrEnded, SdrTroubled, SdrShowing

(* The end of a command: all was seen, or what was looked for was found.   *)
LEMMA SdrFinishes ==
  ASSUME SdrTyped, SdrGoesOn, sdrAt \in {"walked", "print"}, sdrPos <= Len(sdrList) + 1,
         SdrShowsSeen(sdrCmd, SdrShows(sdrOut, sdrTodo), sdrList, SdrSeen(sdrPos, sdrList)), UNCHANGED sdrCmd,
         SdrPrinted(SdrShows(sdrOut, sdrTodo), sdrOut'),
         (sdrItr.next = SdrEnd /\ sdrPos = 0) \/ (sdrCmd.op = "find" /\ DOMAIN sdrOut' # {})
  PROVE  SdrFinal(sdrCmd', sdrOut')
<1>0. sdrList \in Seq(SdrEntries) /\ sdrPos \in Nat
  BY DEF SdrTyped
<1>1. PICK m \in 0..SdrN : SdrReached(m)
  BY DEF SdrGoesOn
<1>2. SdrListHas(sdrList, m) /\ SdrStands(sdrItr.next, m)
  BY <1>1 DEF SdrReached
<1>3. PICK S, seen : S = SdrShows(sdrOut, sdrTodo) /\ seen = SdrSeen(sdrPos, sdrList)
  OBVIOUS
<1>4. CASE sdrItr.next = SdrEnd /\ sdrPos = 0
  <2>1. m = SdrN
    BY <1>2, <1>4, SdrStandsEnd
  <2>2. seen = DOMAIN sdrList
    BY <1>3, <1>4 DEF SdrSeen
  <2> QED BY <1>0, <1>2, <1>3, <2>1, <2>2, SdrAllSeen
<1>5. CASE sdrCmd.op = "find" /\ DOMAIN sdrOut' # {}
  <2>1. seen \subseteq DOMAIN sdrList
    <3>1. CASE sdrPos = 0
      BY <1>3, <3>1 DEF SdrSeen
    <3>2. CASE sdrPos # 0
      <4>1. seen = 1..(sdrPos - 1)
        BY <1>3, <3>2 DEF SdrSeen
      <4>2. Len(sdrList) \in Nat /\ DOMAIN sdrList = 1..Len(sdrList)
        BY <1>0
      <4> QED BY <1>0, <4>1, <4>2
    <3> QED BY <3>1, <3>2
  <2>2. sdrCmd.by \in {"num", "id"}
    BY <1>5 DEF SdrTyped
  <2> QED BY <1>0, <1>2, <1>3, <1>5, <2>1, <2>2, SdrOneFound
<1> QED BY <1>4, <1>5
LEMMA SdrShowsOut ==
  ASSUME NEW out \in Seq([id : SdrIds, shown : {"value", "ns"}]) PROVE SdrPrinted(SdrShows(out, <<>>), out)
<1> DEFINE T == [id : SdrIds, shown : {"value", "ns"}]
<1>1. out \in Seq(T)
  OBVIOUS
<1> HIDE DEF T
<1>2. Len(out) \in Nat /\ DOMAIN out = 1..Len(out) /\ Len(out) + Len(<<>>) = Len(out)
  BY <1>1
<1> QED BY <1>2 DEF SdrPrinted, SdrShows

LEMMA SdrWalked2 == ASSUME SdrSound, SdrCalm, SdrWalked PROVE SdrCalm'
<1>0. SdrUntouched /\ SdrIter /\ SdrWhere /\ SdrGoesOn /\ SdrTyped /\ sdrAt = "walked" /\ SdrShowing /\ sdrPos = 0 /\ sdrItr.next = SdrEnd
  BY DEF SdrCalm, SdrSound, SdrWalked, SdrWhere
<1>1. UNCHANGED <<sdrRepo, sdrBmc, sdrHeld, sdrItr, sdrList, sdrCmd, sdrPos, sdrTodo, sdrOut, sdrUsed>>
      /\ sdrAt' = IF sdrTodo # <<>> THEN "print" ELSE "idle"
  BY DEF SdrWalked, sdrBmcVars, SdrEnds
<1>2. SdrUntouched' /\ SdrGoesOn'
  BY <1>0, <1>1, SdrUntouchedStays, SdrStays
<1>3. SdrShowsSeen(sdrCmd, SdrShows(sdrOut, sdrTodo), sdrList, SdrSeen(sdrPos, sdrList))
  BY <1>0 DEF SdrShowing, SdrBusy, SdrWalking
<1>4. SdrShowing'
  BY <1>1, <1>3 DEF SdrShowing
<1>5. SdrIter'
  BY <1>0, <1>1 DEF SdrIter, SdrStarting, SdrWalking
<1>6. sdrList \in Seq(SdrEntries) /\ sdrOut \in Seq([id : SdrIds, shown : {"value", "ns"}])
  BY <1>0 DEF SdrTyped
<1>7. Len(sdrList) \in Nat
  BY <1>6
<1>8. SdrWhere'
  BY <1>0, <1>1, <1>7 DEF SdrWhere, SdrStarting, SdrWalking, SdrBusy
<1>9. SdrEnded'
  <2>1. SUFFICES ASSUME sdrTodo = <<>> PROVE SdrFinal(sdrCmd', sdrOut')
    BY <1>1 DEF SdrEnded
  <2>2. SdrPrinted(SdrShows(sdrOut, sdrTodo), sdrOut')
    BY <1>1, <1>6, <2>1, SdrShowsOut
  <2> QED BY <1>0, <1>1, <1>3, <1>7, <2>2, SdrFinishes
<1> QED BY <1>1, <1>2, <1>4, <1>5, <1>8, <1>9 DEF SdrCalm, SdrTroubled

LEMMA SdrPrint2 == ASSUME SdrSound, SdrSound', SdrCalm, sdrHist' \subseteq {"dumped"}, SdrPrint PROVE SdrCalm'
<1>0. SdrUntouched /\ SdrIter /\ SdrWhere /\ SdrGoesOn /\ SdrTyped /\ sdrAt = "print" /\ SdrShowing
  BY DEF SdrCalm, SdrSound, SdrPrint
<1>1. UNCHANGED <<sdrRepo, sdrBmc, sdrHeld, sdrItr, sdrList, sdrCmd, sdrPos>>
  BY SdrPrintIs
<1>2. PICK r : SdrPrints(r) /\ (sdrAt' = "crashed" => r = "none" /\ r \in SdrReplies("ok"))
  BY SdrPrintIs
<1>3. sdrAt' # "crashed"
  <2>1. SUFFICES ASSUME sdrAt' = "crashed" PROVE FALSE
    OBVIOUS
  <2>2. r = "none" /\ r \in SdrReplies("ok") /\ SdrCount(r)
    BY <1>2, <2>1 DEF SdrPrints
  <2> QED BY <1>0, <2>2, SdrAnswered DEF SdrUntouched
<1>4. /\ sdrOut \in Seq([id : SdrIds, shown : {"value", "ns"}]) /\ sdrTodo \in Seq(SdrEntries) /\ sdrTodo # <<>>
      /\ sdrOut' \in Seq([id : SdrIds, shown : {"value", "ns"}]) /\ sdrList \in Seq(SdrEntries)
  BY <1>0 DEF SdrTyped, SdrSound
<1>5. SdrShows(sdrOut', sdrTodo') = SdrShows(sdrOut, sdrTodo)
  <2>1. sdrTodo[1] \in SdrEntries
    BY <1>4
  <2>2. PICK x : x = [id |-> sdrTodo[1].name, shown |-> SdrShown(r)]
    OBVIOUS
  <2>3. x \in [id : SdrIds, shown : {"value", "ns"}] /\ x.id = sdrTodo[1].name
    BY <2>1, <2>2 DEF SdrEntries, SdrShown
  <2>4. sdrOut' = Append(sdrOut, x) /\ sdrTodo' = Tail(sdrTodo)
    BY <1>2, <2>2 DEF SdrPrints
  <2> QED BY <1>4, <2>3, <2>4, SdrShowsMove
<1>6. DOMAIN sdrOut' # {}
  <2> DEFINE T == [id : SdrIds, shown : {"value", "ns"}]
  <2>1. sdrOut \in Seq(T) /\ sdrOut' \in Seq(T)
    BY <1>4
  <2>2. PICK x : sdrOut' = Append(sdrOut, x)
    BY <1>2 DEF SdrPrints
  <2> HIDE DEF T
  <2>3. Len(sdrOut') = Len(sdrOut) + 1 /\ Len(sdrOut) \in Nat
    BY <2>1, <2>2
  <2>4. 1 \in DOMAIN sdrOut'
    BY <2>1, <2>3
  <2> QED BY <2>4
<1>7. SdrShowsSeen(sdrCmd, SdrShows(sdrOut, sdrTodo), sdrList, SdrSeen(sdrPos, sdrList))
  BY <1>0 DEF SdrShowing, SdrBusy
<1>8. SdrShowing'
  BY <1>1, <1>5, <1>7 DEF SdrShowing
<1>9. /\ sdrAt' \in {"print", "listed", "header", "idle"}
      /\ (sdrAt' = "listed" => sdrPos > 0) /\ (sdrAt' = "header" => ~(sdrPos > 0))
      /\ (sdrAt' = "idle" => sdrTodo' = <<>> /\ sdrCmd.op # "print")
  BY <1>2, <1>3 DEF SdrPrints
<1>10. SdrUntouched' /\ SdrGoesOn'
  BY <1>0, <1>1, <1>9, SdrUntouchedStays, SdrStays
<1>11. SdrIter'
  BY <1>0, <1>1, <1>9 DEF SdrIter, SdrStarting, SdrWalking
<1>12. sdrPos \in Nat /\ sdrPos <= Len(sdrList) + 1
  BY <1>0 DEF SdrWhere, SdrTyped
<1>13. SdrWhere'
  BY <1>0, <1>1, <1>9, <1>12 DEF SdrWhere, SdrStarting, SdrWalking, SdrBusy
<1>14. SdrEnded'
  <2>1. SUFFICES ASSUME sdrAt' = "idle" PROVE SdrFinal(sdrCmd', sdrOut')
    BY DEF SdrEnded
  <2>2. sdrTodo' = <<>> /\ sdrCmd.op \in {"collect", "find"}
    BY <1>0, <1>9, <2>1 DEF SdrWhere, SdrBusy
  <2>3. SdrPrinted(SdrShows(sdrOut, sdrTodo), sdrOut')
    BY <1>4, <1>5, <2>2, SdrShowsOut
  <2>4. (sdrItr.next = SdrEnd /\ sdrPos = 0) \/ (sdrCmd.op = "find" /\ DOMAIN sdrOut' # {})
    BY <1>0, <1>6, <2>2 DEF SdrWhere
  <2> QED BY <1>0, <1>1, <1>7, <1>12, <2>3, <2>4, SdrFinishes
<1> QED BY <1>8, <1>9, <1>10, <1>11, <1>13, <1>14 DEF SdrCalm, SdrTroubled

LEMMA SdrIdle2 == ASSUME SdrCalm, UNCHANGED sdrVars PROVE SdrCalm'
<1>1. UNCHANGED <<sdrRepo, sdrBmc, sdrHeld, sdrItr, sdrList, sdrAt, sdrCmd, sdrHdr, sdrBuf, sdrPos, sdrTodo, sdrOut, sdrUsed>>
  BY DEF sdrVars
<1>2. SdrUntouched' /\ SdrIter' /\ SdrWhere' /\ SdrEnded' /\ SdrShowing'
  BY <1>1 DEF SdrCalm, SdrUntouched, SdrIter, SdrWhere, SdrEnded, SdrShowing
<1>3. SdrGoesOn'
  <2>1. PICK m \in 0..SdrN : SdrReached(m)
    BY DEF SdrCalm, SdrGoesOn
  <2>2. SdrReached(m)'
    BY <1>1, <2>1 DEF SdrReached, SdrReads
  <2> QED BY <2>2 DEF SdrGoesOn
<1> QED BY <1>1, <1>2, <1>3 DEF SdrCalm

(* What once disturbed the commands is remembered.                         *)
LEMMA SdrRemembers == ASSUME [SdrNext]_sdrVars PROVE sdrHist \subseteq sdrHist'
<1>1. \A r : SdrCount(r) => sdrHist \subseteq sdrHist'
  BY DEF SdrCount
<1>2. \A cmd : SdrBegins(cmd) => sdrHist' = sdrHist
  BY DEF SdrBegins
<1>3. ipmi_sdr_main \/ SdrCallers => sdrHist \subseteq sdrHist'
  BY <1>2, SdrCommands DEF ipmi_sdr_dump_bin
<1>4. SdrPrint => sdrHist \subseteq sdrHist'
  BY <1>1, SdrPrintIs DEF SdrPrints
<1>5. SdrBmcIs \/ ipmi_sdr_list_cache_fromfile \/ SdrFileRecord \/ SdrFileEnd \/ SdrListed \/ SdrGarbage \/ SdrNoRec \/ SdrGot
      \/ SdrWalked \/ SdrWrite \/ SdrBmcFails => sdrHist \subseteq sdrHist'
  BY DEF SdrBmcIs, ipmi_sdr_list_cache_fromfile, SdrFileRecord, SdrFileEnd, SdrListed, SdrGarbage, SdrNoRec, SdrGot, SdrWalked,
         SdrWrite, SdrBmcFails
<1>6. SdrChange => sdrHist \subseteq sdrHist'
  BY DEF SdrChange
<1>7. ipmi_sdr_start \/ ipmi_sdr_get_reservation \/ ipmi_sdr_get_record => sdrHist \subseteq sdrHist'
  BY <1>1 DEF ipmi_sdr_start, ipmi_sdr_get_reservation, ipmi_sdr_get_record
<1>8. ipmi_sdr_get_header => sdrHist \subseteq sdrHist'
  BY <1>1 DEF ipmi_sdr_get_header
<1>9. UNCHANGED sdrVars => sdrHist' = sdrHist
  BY DEF sdrVars
<1>10. sdrHist \subseteq sdrHist'
  BY <1>3, <1>4, <1>5, <1>6, <1>7, <1>8, <1>9 DEF SdrNext, SdrStep
<1> QED BY <1>10
LEMMA SdrDisturbed == ASSUME SdrGarbage \/ SdrChange \/ SdrBmcFails PROVE ~(sdrHist' \subseteq {"dumped"})
<1>1. PICK x : x \in sdrHist' /\ x \in {"garbage", "changed", "deleted", "silent", "busy"}
  <2>1. CASE SdrGarbage
    BY <2>1 DEF SdrGarbage
  <2>2. CASE SdrChange
    BY <2>2, Zenon DEF SdrChange
  <2>3. CASE SdrBmcFails
    BY <2>3, Zenon DEF SdrBmcFails
  <2> QED BY <2>1, <2>2, <2>3
<1> QED BY <1>1
LEMMA SdrCounted ==
  ASSUME SdrTyped, [SdrNext]_sdrVars, ~ipmi_sdr_dump_bin
  PROVE  sdrUsed'.commands >= sdrUsed.commands /\ ("dumped" \in sdrHist' => "dumped" \in sdrHist)
<1> DEFINE P == sdrUsed'.commands >= sdrUsed.commands /\ ("dumped" \in sdrHist' => "dumped" \in sdrHist)
<1>0. sdrUsed \in [commands : Nat, faults : Nat]
  BY DEF SdrTyped
<1>1. ASSUME NEW r, SdrCount(r) PROVE P
  BY <1>0, <1>1 DEF SdrCount
<1>2. ASSUME NEW cmd, SdrBegins(cmd) PROVE P
  BY <1>0, <1>2 DEF SdrBegins
<1>3. ASSUME UNCHANGED <<sdrUsed, sdrHist>> PROVE P
  BY <1>0, <1>3
<1>4. CASE SdrBmcIs \/ ipmi_sdr_list_cache_fromfile \/ SdrFileRecord \/ SdrListed \/ SdrNoRec \/ SdrGot \/ SdrWalked \/ SdrWrite
           \/ UNCHANGED sdrVars
  <2>1. UNCHANGED <<sdrUsed, sdrHist>>
    BY <1>4, Zenon DEF SdrBmcIs, ipmi_sdr_list_cache_fromfile, SdrFileRecord, SdrListed, SdrNoRec, SdrGot, SdrWalked, SdrWrite, sdrVars
  <2> QED BY <1>3, <2>1
<1>5. CASE SdrFileEnd \/ SdrGarbage
  BY <1>0, <1>5 DEF SdrFileEnd, SdrGarbage
<1>6. CASE SdrBmcFails \/ SdrChange
  <2>1. sdrUsed' = [sdrUsed EXCEPT !.faults = @ + 1]
    BY <1>6 DEF SdrBmcFails, SdrChange
  <2>2. sdrUsed'.commands = sdrUsed.commands
    BY <1>0, <2>1
  <2>3. "dumped" \in sdrHist' => "dumped" \in sdrHist
    BY <1>6 DEF SdrBmcFails, SdrChange
  <2> QED BY <1>0, <2>2, <2>3
<1>7. CASE ipmi_sdr_start \/ ipmi_sdr_get_reservation \/ ipmi_sdr_get_record
  BY <1>1, <1>7 DEF ipmi_sdr_start, ipmi_sdr_get_reservation, ipmi_sdr_get_record
<1>8. CASE ipmi_sdr_get_header
  BY <1>1, <1>3, <1>8 DEF ipmi_sdr_get_header
<1>9. CASE SdrPrint
  BY <1>1, <1>9, SdrPrintIs DEF SdrPrints
<1>10. CASE ipmi_sdr_main \/ SdrCallers
  BY <1>2, <1>10, SdrCommands
<1> QED BY <1>4, <1>5, <1>6, <1>7, <1>8, <1>9, <1>10 DEF SdrNext, SdrStep

(* A dump appends an entry for the header in hand; nothing else touches    *)
(* what dumps left.                                                        *)
LEMMA SdrAppended ==
  ASSUME SdrTyped, SdrDumpsRight, NEW b \in SdrBuffers, sdrRaw' = SdrDumps(b),
         b = SdrNoRecord \/ (sdrHdr.len > 0 /\ Len(b.vers) = sdrHdr.len /\ (~b.renewed => SdrSame(b.vers)))
  PROVE  /\ sdrRaw' \in Seq(SdrRaws)
         /\ \A n \in DOMAIN sdrRaw' : sdrRaw'[n].rec = SdrNoRecord \/ SdrEntryWhole(sdrRaw'[n])
<1>1. sdrHdr \in SdrHeaders /\ sdrRaw \in Seq(SdrRaws) /\ sdrList \in Seq(SdrEntries)
  BY DEF SdrTyped, SdrDumpsRight
<1>2. PICK e : e = SdrRawEntry(b)
  OBVIOUS
<1>3. e \in SdrRaws /\ e.rec = b /\ e.len = sdrHdr.len
  <2>1. Len(sdrList) \in Nat
    BY <1>1
  <2> QED BY <1>1, <1>2, <2>1 DEF SdrRawEntry, SdrRaws, SdrHeaders
<1>4. e.rec = SdrNoRecord \/ SdrEntryWhole(e)
  BY <1>3 DEF SdrEntryWhole
<1>5. sdrRaw' = Append(sdrRaw, e)
  BY <1>2 DEF SdrDumps
<1>6. Append(sdrRaw, e) \in Seq(SdrRaws)
      /\ \A n \in DOMAIN Append(sdrRaw, e) : (n \in DOMAIN sdrRaw /\ Append(sdrRaw, e)[n] = sdrRaw[n]) \/ Append(sdrRaw, e)[n] = e
  BY <1>1, <1>3
<1>7. \A n \in DOMAIN sdrRaw : sdrRaw[n].rec = SdrNoRecord \/ SdrEntryWhole(sdrRaw[n])
  BY DEF SdrDumpsRight
<1> QED BY <1>4, <1>5, <1>6, <1>7
LEMMA SdrDumpsStep ==
  ASSUME SdrSound, SdrDumpsRight, [SdrNext]_sdrVars PROVE SdrDumpsRight'
<1>0. SdrTyped /\ SdrInHand /\ sdrHist \subseteq sdrHist'
  BY SdrRemembers DEF SdrSound
<1>1. CASE ipmi_sdr_dump_bin
  <2>1. sdrShared' = sdrItr /\ sdrRaw' = sdrRaw /\ "dumped" \in sdrHist'
    BY <1>1 DEF ipmi_sdr_dump_bin
  <2>2. sdrUsed'.commands > 0
    <3>1. sdrUsed \in [commands : Nat, faults : Nat] /\ sdrUsed' = [sdrUsed EXCEPT !.commands = @ + 1]
      BY <1>0, <1>1 DEF ipmi_sdr_dump_bin, SdrTyped
    <3> QED BY <3>1
  <2>3. sdrCmd'.by = "none"
    BY <1>1 DEF ipmi_sdr_dump_bin, SdrCmd
  <2> QED BY <1>0, <2>1, <2>2, <2>3 DEF SdrDumpsRight, SdrTyped, SdrEntryWhole
<1>2. CASE SdrNoRec \/ SdrGot
  <2>1. UNCHANGED <<sdrShared, sdrCmd, sdrUsed, sdrHist>>
    BY <1>2 DEF SdrNoRec, SdrGot
  <2>2. CASE ~SdrDumping
    <3>1. sdrRaw' = sdrRaw
      BY <1>2, <2>2 DEF SdrNoRec, SdrGot
    <3> QED BY <1>0, <2>1, <3>1 DEF SdrDumpsRight, SdrDumping, SdrEntryWhole
  <2>3. CASE SdrDumping
    <3>1. "dumped" \in sdrHist' /\ sdrUsed'.commands > 0 /\ sdrCmd'.by = "none"
      BY <1>0, <2>1, <2>3 DEF SdrDumpsRight
    <3>2. PICK b \in SdrBuffers :
            /\ sdrRaw' = SdrDumps(b)
            /\ b = SdrNoRecord \/ (sdrHdr.len > 0 /\ Len(b.vers) = sdrHdr.len /\ (~b.renewed => SdrSame(b.vers)))
      <4>1. CASE SdrNoRec
        <5>1. sdrRaw' = SdrDumps(SdrNoRecord)
          BY <2>3, <4>1 DEF SdrNoRec
        <5>2. SdrNoRecord \in SdrBuffers
          BY DEF SdrNoRecord, SdrBuffers
        <5> QED BY <5>1, <5>2
      <4>2. CASE SdrGot
        <5>1. sdrRaw' = SdrDumps(sdrBuf) /\ sdrAt = "got"
          BY <2>3, <4>2 DEF SdrGot
        <5>2. sdrBuf \in SdrBuffers /\ sdrHdr.len > 0 /\ Len(sdrBuf.vers) = sdrHdr.len /\ (~sdrBuf.renewed => SdrSame(sdrBuf.vers))
          BY <1>0, <5>1 DEF SdrTyped, SdrInHand
        <5> QED BY <5>1, <5>2
      <4> QED BY <1>2, <4>1, <4>2
    <3>3. sdrRaw' \in Seq(SdrRaws) /\ \A n \in DOMAIN sdrRaw' : sdrRaw'[n].rec = SdrNoRecord \/ SdrEntryWhole(sdrRaw'[n])
      BY <1>0, <3>2, SdrAppended
    <3>4. sdrShared' \in SdrIters
      BY <2>1 DEF SdrDumpsRight
    <3> QED BY <3>1, <3>3, <3>4 DEF SdrDumpsRight, SdrEntryWhole
  <2> QED BY <2>2, <2>3
<1>3. ASSUME ~ipmi_sdr_dump_bin, UNCHANGED sdrDumpVars, sdrCmd' = sdrCmd \/ sdrCmd'.op # "dump" PROVE SdrDumpsRight'
  <2>1. sdrUsed'.commands >= sdrUsed.commands /\ ("dumped" \in sdrHist' => "dumped" \in sdrHist)
    BY <1>0, <1>3, SdrCounted
  <2>2. sdrUsed.commands \in Nat /\ sdrUsed'.commands \in Nat
    BY <1>0, SdrSoundStep DEF SdrTyped, SdrSound
  <2>3. "dumped" \in sdrHist' => sdrUsed'.commands > 0
    BY <2>1, <2>2 DEF SdrDumpsRight
  <2>4. SdrDumping' => sdrCmd'.by = "none" /\ "dumped" \in sdrHist'
    BY <1>0, <1>3 DEF SdrDumpsRight, SdrDumping
  <2> QED BY <1>3, <2>3, <2>4 DEF SdrDumpsRight, sdrDumpVars, SdrEntryWhole
<1>4. CASE \E cmd : SdrBegins(cmd) /\ SdrOrder(cmd)
  <2>1. PICK cmd : SdrBegins(cmd) /\ SdrOrder(cmd)
    BY <1>4
  <2>2. UNCHANGED sdrDumpVars /\ sdrCmd'.op # "dump"
    BY <2>1 DEF SdrBegins, SdrOrder
  <2>3. CASE ipmi_sdr_dump_bin
    BY <1>1, <2>3
  <2> QED BY <1>3, <2>2, <2>3
<1>5. CASE SdrBmcIs \/ ipmi_sdr_list_cache_fromfile \/ SdrFileRecord \/ SdrFileEnd \/ SdrListed \/ SdrGarbage \/ SdrWalked \/ SdrWrite
           \/ SdrBmcFails \/ SdrChange \/ ipmi_sdr_start \/ ipmi_sdr_get_reservation \/ ipmi_sdr_get_record \/ ipmi_sdr_get_header
           \/ SdrPrint \/ UNCHANGED sdrVars
  <2>1. UNCHANGED <<sdrDumpVars, sdrCmd>>
    BY <1>5, Zenon DEF SdrBmcIs, ipmi_sdr_list_cache_fromfile, SdrFileRecord, SdrFileEnd, SdrListed, SdrGarbage, SdrWalked, SdrWrite,
      SdrBmcFails, SdrChange, ipmi_sdr_start, ipmi_sdr_get_reservation, ipmi_sdr_get_record, ipmi_sdr_get_header, SdrPrint,
      sdrVars, sdrDumpVars
  <2> QED BY <1>1, <1>3, <2>1
<1> QED BY <1>1, <1>2, <1>4, <1>5, SdrCommands DEF SdrNext, SdrStep

(* A dump, while nothing disturbs it.                                      *)
LEMMA SdrAsideStays == ASSUME SdrAside, UNCHANGED <<sdrShared, sdrList>> PROVE SdrAside'
BY DEF SdrAside
LEMMA SdrDumpBegins == ASSUME SdrSound, SdrCalm, SdrDumpsFull, ipmi_sdr_dump_bin PROVE SdrDumpCalm'
<1>1. /\ sdrAt = "idle" /\ sdrOut' = <<>> /\ sdrShared' = sdrItr /\ sdrAt' = "devid"
      /\ UNCHANGED <<sdrRepo, sdrBmc, sdrRaw, sdrList>>
  BY DEF ipmi_sdr_dump_bin, sdrBmcVars
<1>2. SdrUntouched'
  BY <1>1, SdrUntouchedStays DEF SdrCalm
<1>3. SdrAside'
  <2>1. PICK m \in 0..SdrN : SdrReached(m)
    BY DEF SdrCalm, SdrGoesOn
  <2>2. SdrListHas(sdrList, m) /\ SdrStands(sdrItr.next, m)
    BY <1>1, <2>1 DEF SdrReached
  <2>3. SdrListHas(sdrList', m) /\ SdrStands(sdrShared'.next, m)
    BY <1>1, <2>2
  <2> QED BY <1>1, <2>3 DEF SdrAside, SdrCalm, SdrIter
<1>4. SdrDumped(0)'
  BY <1>1 DEF SdrDumped, SdrDumpsFull, SdrStarting
<1> QED BY <1>1, <1>2, <1>3, <1>4, SdrConstants DEF SdrDumpCalm, SdrStarting
LEMMA SdrDumpReserves ==
  ASSUME SdrDumpCalm, SdrDumping, sdrHist' \subseteq {"dumped"}, ipmi_sdr_start \/ ipmi_sdr_get_reservation PROVE SdrDumpCalm'
<1>0. /\ SdrUntouched /\ SdrAside /\ sdrOut = <<>>
      /\ UNCHANGED <<sdrRepo, sdrBmc, sdrShared, sdrRaw, sdrList, sdrOut>>
  BY DEF SdrDumpCalm, ipmi_sdr_start, ipmi_sdr_get_reservation, sdrBmcVars, sdrDumpVars
<1>1. SdrUntouched' /\ SdrAside'
  BY <1>0, SdrUntouchedStays, SdrAsideStays
<1>2. PICK m \in 0..SdrN : SdrDumped(m)
  BY DEF SdrDumpCalm
<1>3. SdrCopies(sdrRaw', m)
  BY <1>0, <1>2 DEF SdrDumped
<1>4. CASE ipmi_sdr_start
  <2>1. PICK r \in SdrReplies("ok") :
          /\ SdrCount(r)
          /\ IF sdrAt = "devid" /\ r # "none" THEN sdrAt' = "info" /\ UNCHANGED sdrRc
             ELSE IF r = "ok" THEN sdrAt' = "reserve" /\ UNCHANGED sdrRc
             ELSE SdrEnds(-1)
    BY <1>4 DEF ipmi_sdr_start
  <2>2. r = "ok"
    BY <1>0, <2>1, SdrAnswered DEF SdrUntouched
  <2>3. sdrAt' \in {"info", "reserve"} /\ sdrAt \in {"devid", "info"}
    BY <1>4, <2>1, <2>2 DEF ipmi_sdr_start
  <2>4. m = 0
    BY <1>2, <2>3 DEF SdrDumped, SdrStarting
  <2>5. SdrDumped(m)'
    BY <1>3, <2>3, <2>4 DEF SdrDumped, SdrStarting
  <2> QED BY <1>0, <1>1, <2>3, <2>5 DEF SdrDumpCalm, SdrStarting
<1>5. CASE ipmi_sdr_get_reservation /\ sdrAt = "renew_header"
  <2>1. UNCHANGED sdrItr /\ sdrAt' \in {"header", "garbage"}
    BY <1>0, <1>5, SdrRenews
  <2>2. SdrStands(sdrItr'.next, m)
    BY <1>2, <1>5, <2>1 DEF SdrDumped, SdrStarting
  <2>3. SdrDumped(m)'
    BY <1>3, <2>1, <2>2 DEF SdrDumped, SdrStarting
  <2> QED BY <1>0, <1>1, <2>1, <2>3 DEF SdrDumpCalm, SdrWalking
<1>6. CASE ipmi_sdr_get_reservation /\ sdrAt # "renew_header"
  <2>1. sdrAt = "reserve"
    BY <1>6 DEF ipmi_sdr_get_reservation, SdrDumpCalm, SdrStarting, SdrWalking
  <2>2. PICK r \in SdrReplies("ok") :
          /\ SdrCount(r)
          /\ r = "ok" => sdrItr' = [on |-> TRUE, next |-> 0] /\ sdrAt' = "header"
    BY <1>6, <2>1 DEF ipmi_sdr_get_reservation
  <2>3. r = "ok"
    BY <1>0, <2>2, SdrAnswered DEF SdrUntouched
  <2>4. sdrItr'.next = 0 /\ sdrAt' = "header"
    BY <2>2, <2>3
  <2>5. m = 0
    BY <1>2, <2>1 DEF SdrDumped, SdrStarting
  <2>6. SdrStands(sdrItr'.next, m)
    BY <2>4, <2>5 DEF SdrStands
  <2>7. SdrDumped(m)'
    BY <1>3, <2>4, <2>6 DEF SdrDumped, SdrStarting
  <2> QED BY <1>0, <1>1, <2>4, <2>7 DEF SdrDumpCalm, SdrWalking
<1> QED BY <1>4, <1>5, <1>6
LEMMA SdrDumpReads ==
  ASSUME SdrSound, SdrDumpCalm, sdrHist' \subseteq {"dumped"}, ipmi_sdr_get_header \/ ipmi_sdr_get_record PROVE SdrDumpCalm'
<1>0. /\ SdrUntouched /\ SdrAside /\ sdrOut = <<>> /\ SdrTyped /\ SdrInHand
      /\ UNCHANGED <<sdrRepo, sdrBmc, sdrHeld, sdrShared, sdrRaw, sdrList, sdrOut>>
  BY DEF SdrDumpCalm, SdrSound, ipmi_sdr_get_header, ipmi_sdr_get_record, sdrBmcVars, sdrDumpVars
<1>1. SdrUntouched' /\ SdrAside'
  BY <1>0, SdrUntouchedStays, SdrAsideStays
<1>2. PICK m \in 0..SdrN : SdrDumped(m)
  BY DEF SdrDumpCalm
<1>3. SdrCopies(sdrRaw', m)
  BY <1>0, <1>2 DEF SdrDumped
<1>4. CASE ipmi_sdr_get_record
  <2>1. sdrAt = "record" /\ sdrHeld
    BY <1>4 DEF ipmi_sdr_get_record, SdrDumpCalm
  <2>2. SdrReads(m + 1)
    BY <1>2, <2>1 DEF SdrDumped, SdrStarting
  <2>3. m + 1 \in 1..SdrN
    BY <2>2 DEF SdrReads
  <2>4. sdrAt' \in {"record", "got"} /\ SdrReads(m + 1)'
    BY <1>0, <1>4, <2>1, <2>2, <2>3, SdrPieceGot
  <2>5. SdrDumped(m)'
    BY <1>3, <2>4 DEF SdrDumped, SdrStarting
  <2> QED BY <1>0, <1>1, <2>1, <2>4, <2>5 DEF SdrDumpCalm, SdrWalking
<1>5. CASE ipmi_sdr_get_header
  <2>1. sdrAt = "header"
    BY <1>5 DEF ipmi_sdr_get_header
  <2>2. SdrStands(sdrItr.next, m)
    BY <1>2, <2>1 DEF SdrDumped, SdrStarting
  <2>3. CASE sdrItr.next = SdrEnd
    <3>1. sdrAt' = "walked" /\ UNCHANGED sdrItr
      BY <1>5, <2>3 DEF ipmi_sdr_get_header
    <3>2. SdrDumped(m)'
      BY <1>3, <2>2, <3>1 DEF SdrDumped, SdrStarting
    <3> QED BY <1>0, <1>1, <2>3, <3>1, <3>2 DEF SdrDumpCalm, SdrWalking
  <2>4. CASE sdrItr.next # SdrEnd
    <3>1. CASE sdrAt' = "record" /\ sdrHeld /\ SdrReads(m + 1)'
      <4>1. SdrDumped(m)'
        BY <1>3, <3>1 DEF SdrDumped, SdrStarting
      <4> QED BY <1>0, <1>1, <3>1, <4>1 DEF SdrDumpCalm, SdrWalking
    <3>2. CASE sdrAt' \in {"header", "renew_header", "garbage"} /\ UNCHANGED sdrItr
      <4>1. SdrDumped(m)'
        BY <1>3, <2>2, <3>2 DEF SdrDumped, SdrStarting
      <4> QED BY <1>0, <1>1, <3>2, <4>1 DEF SdrDumpCalm, SdrWalking
    <3> QED BY <1>0, <1>5, <2>2, <2>4, <3>1, <3>2, SdrHeaderGot
  <2> QED BY <2>3, <2>4
<1> QED BY <1>4, <1>5
LEMMA SdrTurnIs == ASSUME NEW q \in Nat, NEW c \in 1..SdrN PROVE SdrTurn(q * SdrN + c) = SdrRecords[c]
<1>0. SdrN \in Nat \ {0} /\ c - 1 \in 0..(SdrN - 1) /\ c \in Int
  BY SdrConstants
<1>1. PICK N, b : N = SdrN /\ b = c - 1
  OBVIOUS
<1>2. (q * N + b) % N = b
  BY <1>0, <1>1
<1>3. q * N \in Int
  BY <1>0, <1>1
<1>4. (q * SdrN + c) - 1 = q * N + b
  BY <1>0, <1>1, <1>3
<1> QED BY <1>0, <1>1, <1>2, <1>4 DEF SdrTurn
LEMMA SdrCopied ==
  ASSUME NEW raw \in Seq(SdrRaws), NEW e \in SdrRaws, NEW m \in 0..SdrN, m + 1 \in 1..SdrN, SdrCopies(raw, m),
         SdrCopy(e, SdrRecords[m + 1])
  PROVE  SdrCopies(Append(raw, e), m + 1)
<1>1. PICK q \in Nat : Len(raw) = q * SdrN + m
  BY DEF SdrCopies
<1>2. PICK s : s = Append(raw, e)
  OBVIOUS
<1>3. /\ Len(s) = Len(raw) + 1 /\ Len(raw) \in Nat /\ DOMAIN s = 1..(Len(raw) + 1) /\ DOMAIN raw = 1..Len(raw)
      /\ s[Len(raw) + 1] = e /\ \A j \in 1..Len(raw) : s[j] = raw[j]
  BY <1>2
<1>4. PICK p \in Int : p = q * SdrN
  BY SdrConstants
<1>5. Len(s) = q * SdrN + (m + 1)
  BY <1>1, <1>3, <1>4
<1>6. SdrTurn(Len(raw) + 1) = SdrRecords[m + 1]
  <2>1. SdrTurn(q * SdrN + (m + 1)) = SdrRecords[m + 1]
    BY SdrTurnIs
  <2> QED BY <1>3, <1>5, <2>1
<1>7. ASSUME NEW j \in DOMAIN s PROVE SdrCopy(s[j], SdrTurn(j))
  <2>1. CASE j \in 1..Len(raw)
    BY <1>3, <2>1 DEF SdrCopies
  <2>2. CASE j = Len(raw) + 1
    BY <1>3, <1>6, <2>2
  <2> QED BY <1>3, <2>1, <2>2
<1> QED BY <1>2, <1>5, <1>7 DEF SdrCopies
LEMMA SdrDumpGot == ASSUME SdrSound, SdrDumpsRight, SdrDumpCalm, SdrDumping, SdrGot PROVE SdrDumpCalm'
<1>0. /\ SdrUntouched /\ SdrAside /\ sdrOut = <<>> /\ SdrTyped /\ SdrInHand /\ sdrAt = "got" /\ sdrAt' = "header"
      /\ sdrRaw' = Append(sdrRaw, SdrRawEntry(sdrBuf)) /\ UNCHANGED <<sdrRepo, sdrBmc, sdrShared, sdrItr, sdrList, sdrOut>>
  BY DEF SdrDumpCalm, SdrSound, SdrGot, SdrDumps, sdrBmcVars
<1>1. SdrUntouched' /\ SdrAside'
  BY <1>0, SdrUntouchedStays, SdrAsideStays
<1>2. PICK m \in 0..SdrN : SdrDumped(m)
  BY DEF SdrDumpCalm
<1>3. SdrCopies(sdrRaw, m) /\ SdrReads(m + 1)
  BY <1>0, <1>2 DEF SdrDumped, SdrStarting
<1>4. m + 1 \in 1..SdrN /\ sdrHdr.type = SdrRecords[m + 1].type /\ sdrHdr.len = SdrRecords[m + 1].len
      /\ SdrStands(sdrItr.next, m + 1) /\ \A j \in DOMAIN sdrBuf.vers : sdrBuf.vers[j] = <<SdrRecords[m + 1].id, 1>>
  BY <1>3 DEF SdrReads
<1>5. PICK e, v, r : e = SdrRawEntry(sdrBuf) /\ v = sdrBuf.vers /\ r = SdrRecords[m + 1]
  OBVIOUS
<1>6. sdrHdr \in SdrHeaders /\ sdrBuf \in SdrBuffers /\ sdrList \in Seq(SdrEntries) /\ Len(v) = r.len /\ sdrRaw \in Seq(SdrRaws)
  BY <1>0, <1>4, <1>5 DEF SdrTyped, SdrInHand, SdrDumpsRight
<1>7. v \in Seq(SdrBytes) /\ Len(sdrList) \in Nat
  BY <1>5, <1>6 DEF SdrBuffers
<1>8. v = [k \in 1..r.len |-> <<r.id, 1>>]
  <2>1. DOMAIN v = 1..r.len /\ v = [k \in DOMAIN v |-> v[k]]
    BY <1>6, <1>7
  <2>2. \A k \in DOMAIN v : v[k] = <<r.id, 1>>
    BY <1>4, <1>5
  <2> QED BY <2>1, <2>2
<1>9. e \in SdrRaws /\ e.type = sdrHdr.type /\ e.rec = sdrBuf
  BY <1>5, <1>6, <1>7 DEF SdrRawEntry, SdrRaws, SdrHeaders
<1>10. SdrCopy(e, r)
  BY <1>4, <1>5, <1>8, <1>9 DEF SdrCopy
<1>11. SdrCopies(sdrRaw', m + 1)
  BY <1>0, <1>3, <1>4, <1>5, <1>6, <1>9, <1>10, SdrCopied
<1>12. SdrDumped(m + 1)'
  BY <1>0, <1>4, <1>11 DEF SdrDumped, SdrStarting
<1>13. m + 1 \in 0..SdrN
  BY <1>4, SdrConstants
<1> QED BY <1>0, <1>1, <1>12, <1>13 DEF SdrDumpCalm, SdrWalking
LEMMA SdrDumpEnds ==
  ASSUME SdrSound, SdrDumpsRight, SdrDumpCalm, SdrDumping, SdrWrite, sdrAt' # "crashed" PROVE SdrCalm' /\ SdrDumpsFull'
<1>0. /\ SdrUntouched /\ SdrAside /\ sdrOut = <<>> /\ SdrTyped /\ sdrAt = "walked" /\ sdrAt' = "idle" /\ sdrItr' = sdrShared
      /\ sdrItr.next = SdrEnd /\ UNCHANGED <<sdrRepo, sdrBmc, sdrRaw, sdrList, sdrOut, sdrCmd>>
  BY DEF SdrDumpCalm, SdrSound, SdrWrite, SdrOldItr, SdrDumping, SdrEnds, sdrBmcVars, sdrDumpVars
<1>1. SdrUntouched'
  BY <1>0, SdrUntouchedStays
<1>2. PICK m \in 0..SdrN : SdrListHas(sdrList, m) /\ SdrStands(sdrShared.next, m)
  BY <1>0 DEF SdrAside
<1>3. SdrListHas(sdrList', m) /\ SdrStands(sdrItr'.next, m)
  BY <1>0, <1>2
<1>4. SdrReached(m)'
  BY <1>0, <1>3 DEF SdrReached
<1>5. SdrGoesOn'
  BY <1>4 DEF SdrGoesOn
<1>6. SdrIter' /\ SdrWhere' /\ SdrShowing'
  BY <1>0 DEF SdrAside, SdrIter, SdrWhere, SdrShowing, SdrStarting, SdrWalking, SdrBusy
<1>7. sdrCmd.by = "none"
  BY <1>0 DEF SdrDumpsRight
<1>8. SdrFinal(sdrCmd', sdrOut')
  BY <1>0, <1>7 DEF SdrFinal, SdrDue, SdrAbout
<1>9. SdrDumpsFull'
  <2>1. PICK k \in 0..SdrN : SdrDumped(k)
    BY DEF SdrDumpCalm
  <2>2. SdrCopies(sdrRaw, k) /\ SdrStands(SdrEnd, k)
    BY <1>0, <2>1 DEF SdrDumped, SdrStarting
  <2>3. k = SdrN /\ SdrN \in Nat
    BY <2>2, SdrStandsEnd, SdrConstants
  <2>4. PICK q \in Nat : Len(sdrRaw) = q * SdrN + SdrN
    BY <2>2, <2>3 DEF SdrCopies
  <2>5. PICK N, p : N = SdrN /\ p = q * SdrN
    OBVIOUS
  <2>6. p \in Nat /\ (q + 1) * N + 0 = p + N /\ q + 1 \in Nat
    BY <2>3, <2>5
  <2>7. Len(sdrRaw) = (q + 1) * SdrN + 0 /\ Len(sdrRaw) >= SdrN
    BY <2>3, <2>4, <2>5, <2>6
  <2>8. SdrCopies(sdrRaw, 0)
    BY <2>2, <2>6, <2>7 DEF SdrCopies
  <2> QED BY <1>0, <2>7, <2>8 DEF SdrDumpsFull
<1> QED BY <1>0, <1>1, <1>5, <1>6, <1>8, <1>9 DEF SdrCalm, SdrEnded, SdrTroubled

LEMMA SdrCalmStep ==
  ASSUME SdrSound, SdrSound', SdrCalm, ~SdrInDump, [SdrNext]_sdrVars, ~ipmi_sdr_dump_bin, SdrUndisturbed' PROVE SdrCalm'
<1>0. sdrHist' \subseteq {"dumped"} /\ sdrAt' # "crashed" /\ ~SdrWrite
  BY DEF SdrUndisturbed, SdrInDump, SdrWrite
<1>1. CASE ipmi_sdr_main \/ SdrCallers
  BY <1>1, SdrCommands, SdrBegins2
<1> QED BY <1>0, <1>1, SdrEasy2, SdrFileRecord2, SdrReserve2, SdrListed2, SdrHeaders2, SdrRecord2,
           SdrGot2, SdrWalked2, SdrPrint2, SdrDisturbed, SdrIdle2 DEF SdrNext, SdrStep
(* Of the steps of the other commands none touches the dumps.              *)
LEMMA SdrOtherStep ==
  ASSUME SdrSound, SdrDumpsRight, SdrCalm, SdrDumpsFull, ~SdrInDump, [SdrNext]_sdrVars, ~ipmi_sdr_dump_bin, SdrUndisturbed'
  PROVE  ~SdrInDump' /\ SdrDumpsFull'
<1>1. UNCHANGED sdrRaw
  <2>1. CASE SdrNoRec \/ SdrGot
    BY <2>1 DEF SdrNoRec, SdrGot, SdrInDump
  <2>2. CASE \E cmd : SdrBegins(cmd)
    BY <2>2 DEF SdrBegins, sdrDumpVars
  <2>3. CASE SdrBmcIs \/ ipmi_sdr_list_cache_fromfile \/ SdrFileRecord \/ SdrFileEnd \/ SdrListed \/ SdrGarbage \/ SdrWalked
             \/ SdrWrite \/ SdrBmcFails \/ SdrChange \/ ipmi_sdr_start \/ ipmi_sdr_get_reservation \/ ipmi_sdr_get_record
             \/ ipmi_sdr_get_header \/ SdrPrint \/ UNCHANGED sdrVars
    BY <2>3, Zenon DEF SdrBmcIs, ipmi_sdr_list_cache_fromfile, SdrFileRecord, SdrFileEnd, SdrListed, SdrGarbage, SdrWalked, SdrWrite,
      SdrBmcFails, SdrChange, ipmi_sdr_start, ipmi_sdr_get_reservation, ipmi_sdr_get_record, ipmi_sdr_get_header, SdrPrint,
      sdrVars, sdrDumpVars
  <2> QED BY <2>1, <2>2, <2>3, SdrCommands DEF SdrNext, SdrStep
<1>2. ~SdrDumping' \/ (SdrDumping /\ sdrAt = "idle" /\ sdrAt' = "idle")
  <2>1. CASE \E cmd : SdrBegins(cmd) /\ SdrOrder(cmd)
    BY <2>1 DEF SdrBegins, SdrOrder, SdrDumping
  <2>2. CASE SdrDumping
    <3>1. sdrAt = "idle" /\ sdrUsed.commands > 0
      BY <2>2 DEF SdrInDump, SdrDumpsRight
    <3>2. CASE ipmi_sdr_main \/ SdrCallers
      BY <2>1, <3>2, SdrCommands
    <3>3. CASE SdrBmcFails \/ SdrChange
      BY <3>3, SdrDisturbed DEF SdrUndisturbed
    <3>4. CASE UNCHANGED sdrVars
      BY <2>2, <3>1, <3>4 DEF sdrVars
    <3>5. sdrUsed.commands # 0
      BY <3>1
    <3>6. ~(SdrBmcIs \/ ipmi_sdr_list_cache_fromfile \/ SdrStep)
      BY <3>1, <3>5 DEF SdrBmcIs, ipmi_sdr_list_cache_fromfile, SdrFileRecord, SdrFileEnd, SdrListed, SdrGarbage, SdrWalked, SdrWrite,
        ipmi_sdr_start, ipmi_sdr_get_reservation, ipmi_sdr_get_record, ipmi_sdr_get_header, SdrPrint, SdrNoRec, SdrGot, SdrStep
    <3> QED BY <2>2, <3>2, <3>3, <3>4, <3>6 DEF SdrNext
  <2>3. CASE ~SdrDumping /\ ~\E cmd : SdrBegins(cmd) /\ SdrOrder(cmd)
    <3>1. UNCHANGED sdrCmd
      <4>1. ~(ipmi_sdr_main \/ SdrCallers)
        BY <2>3, SdrCommands
      <4>2. CASE SdrBmcIs \/ ipmi_sdr_list_cache_fromfile \/ SdrFileRecord \/ SdrFileEnd \/ SdrListed \/ SdrGarbage \/ SdrWalked
             \/ SdrWrite \/ SdrBmcFails \/ SdrChange \/ ipmi_sdr_start \/ ipmi_sdr_get_reservation \/ ipmi_sdr_get_record
             \/ ipmi_sdr_get_header \/ SdrPrint \/ SdrNoRec \/ SdrGot \/ UNCHANGED sdrVars
        BY <4>2, Zenon DEF SdrBmcIs, ipmi_sdr_list_cache_fromfile, SdrFileRecord, SdrFileEnd, SdrListed, SdrGarbage, SdrWalked,
          SdrWrite, SdrBmcFails, SdrChange, ipmi_sdr_start, ipmi_sdr_get_reservation, ipmi_sdr_get_record, ipmi_sdr_get_header,
          SdrPrint, SdrNoRec, SdrGot, sdrVars
      <4> QED BY <4>1, <4>2 DEF SdrNext, SdrStep
    <3> QED BY <2>3, <3>1 DEF SdrDumping
  <2> QED BY <2>1, <2>2, <2>3
<1> QED BY <1>1, <1>2 DEF SdrInDump, SdrDumpsFull
LEMMA SdrDumpStep ==
  ASSUME SdrSound, SdrDumpsRight, SdrDumpCalm, SdrInDump, [SdrNext]_sdrVars, SdrUndisturbed'
  PROVE  IF SdrInDump' THEN SdrDumpCalm' ELSE SdrCalm' /\ SdrDumpsFull'
<1>0. SdrDumping /\ sdrAt \in SdrStarting \cup SdrWalking /\ sdrHist' \subseteq {"dumped"} /\ sdrAt' # "crashed"
  BY DEF SdrInDump, SdrDumpCalm, SdrUndisturbed
<1>1. CASE SdrWrite
  <2>1. SdrCalm' /\ SdrDumpsFull'
    BY <1>0, <1>1, SdrDumpEnds
  <2>2. ~SdrInDump'
    BY <1>0, <1>1 DEF SdrWrite, SdrEnds, SdrInDump
  <2> QED BY <2>1, <2>2
<1>2. CASE SdrGot \/ ipmi_sdr_start \/ ipmi_sdr_get_reservation \/ ipmi_sdr_get_header \/ ipmi_sdr_get_record
  <2>1. SdrDumpCalm'
    BY <1>0, <1>2, SdrDumpGot, SdrDumpReserves, SdrDumpReads
  <2>2. SdrInDump'
    <3>1. UNCHANGED sdrCmd
      BY <1>2, Zenon DEF SdrGot, ipmi_sdr_start, ipmi_sdr_get_reservation, ipmi_sdr_get_header, ipmi_sdr_get_record
    <3> QED BY <1>0, <2>1, <3>1 DEF SdrInDump, SdrDumping, SdrDumpCalm, SdrStarting, SdrWalking
  <2> QED BY <2>1, <2>2
<1>3. CASE UNCHANGED sdrVars
  <2>1. UNCHANGED <<sdrRepo, sdrBmc, sdrHeld, sdrItr, sdrShared, sdrList, sdrRaw, sdrAt, sdrCmd, sdrHdr, sdrBuf, sdrOut>>
    BY <1>3 DEF sdrVars
  <2>2. PICK m \in 0..SdrN : SdrDumped(m)
    BY DEF SdrDumpCalm
  <2>3. SdrDumped(m)'
    BY <2>1, <2>2 DEF SdrDumped, SdrReads
  <2>4. SdrUntouched' /\ SdrAside'
    BY <2>1, SdrUntouchedStays, SdrAsideStays DEF SdrDumpCalm
  <2> QED BY <2>1, <2>3, <2>4 DEF SdrDumpCalm, SdrInDump, SdrDumping
<1>4. ~(SdrBmcIs \/ ipmi_sdr_list_cache_fromfile \/ SdrFileRecord \/ SdrFileEnd \/ SdrListed \/ SdrNoRec \/ SdrWalked \/ SdrPrint
        \/ ipmi_sdr_dump_bin \/ \E cmd : SdrBegins(cmd))
  BY <1>0 DEF SdrBmcIs, ipmi_sdr_list_cache_fromfile, SdrFileRecord, SdrFileEnd, SdrListed, SdrNoRec, SdrWalked, SdrPrint,
    ipmi_sdr_dump_bin, SdrBegins, SdrStarting, SdrWalking
<1> QED BY <1>0, <1>1, <1>2, <1>3, <1>4, SdrCommands, SdrDisturbed DEF SdrNext, SdrStep

LEMMA SdrInvInit == SdrInit => SdrInv
<1> SUFFICES ASSUME SdrInit PROVE SdrInv
  OBVIOUS
<1>1. sdrRaw = <<>> /\ sdrShared = SdrNoItr /\ ~SdrDumping /\ sdrHist = {}
  BY DEF SdrInit, SdrDumping
<1>2. SdrDumpsRight
  BY <1>1 DEF SdrDumpsRight, SdrNoItr, SdrIters
<1>3. SdrDumpsFull
  <2>1. 0 \in Nat /\ Len(<<>>) = 0 * SdrN + 0
    BY SdrConstants
  <2> QED BY <1>1, <2>1 DEF SdrDumpsFull, SdrCopies
<1> QED BY <1>1, <1>2, <1>3, SdrInit1, SdrInit2 DEF SdrInv, SdrSound, SdrInDump
LEMMA SdrDead == ASSUME sdrAt = "crashed", [SdrNext]_sdrVars PROVE sdrAt' = "crashed"
<1>1. ~\E cmd : SdrBegins(cmd)
  BY DEF SdrBegins
<1>2. ~(SdrBmcIs \/ ipmi_sdr_list_cache_fromfile \/ SdrStep \/ ipmi_sdr_dump_bin \/ SdrChange \/ SdrBmcFails)
  BY DEF SdrBmcIs, ipmi_sdr_list_cache_fromfile, SdrFileRecord, SdrFileEnd, SdrListed, SdrGarbage, SdrWalked, SdrWrite,
    ipmi_sdr_start, ipmi_sdr_get_reservation, ipmi_sdr_get_record, ipmi_sdr_get_header, SdrPrint, SdrNoRec, SdrGot, SdrStep,
    ipmi_sdr_dump_bin, SdrChange, SdrBmcFails
<1> QED BY <1>1, <1>2, SdrCommands DEF SdrNext, sdrVars
LEMMA SdrInvStep == SdrInv /\ [SdrNext]_sdrVars => SdrInv'
<1> SUFFICES ASSUME SdrInv, [SdrNext]_sdrVars PROVE SdrInv'
  OBVIOUS
<1>1. SdrSound /\ SdrDumpsRight /\ (SdrUndisturbed => IF SdrInDump THEN SdrDumpCalm ELSE SdrCalm /\ SdrDumpsFull)
  BY DEF SdrInv, SdrSound
<1>2. SdrSound'
  BY <1>1, SdrSoundStep
<1>3. SdrDumpsRight'
  BY <1>1, SdrDumpsStep
<1>4. ASSUME SdrUndisturbed' PROVE IF SdrInDump' THEN SdrDumpCalm' ELSE SdrCalm' /\ SdrDumpsFull'
  <2>1. SdrUndisturbed
    BY <1>4, SdrRemembers, SdrDead DEF SdrUndisturbed
  <2>2. CASE SdrInDump
    BY <1>1, <1>4, <2>1, <2>2, SdrDumpStep
  <2>3. CASE ~SdrInDump /\ ipmi_sdr_dump_bin
    <3>1. SdrDumpCalm'
      BY <1>1, <2>1, <2>3, SdrDumpBegins
    <3>2. SdrInDump'
      BY <2>3 DEF SdrInDump, SdrDumping, ipmi_sdr_dump_bin, SdrCmd
    <3> QED BY <3>1, <3>2
  <2>4. CASE ~SdrInDump /\ ~ipmi_sdr_dump_bin
    BY <1>1, <1>2, <1>4, <2>1, <2>4, SdrCalmStep, SdrOtherStep
  <2> QED BY <2>2, <2>3, <2>4
<1> QED BY <1>2, <1>3, <1>4 DEF SdrInv, SdrSound

LEMMA SdrInvTrue == SdrInv => SdrRecordWhole /\ SdrOutputComplete /\ SdrDumpTrue
<1> SUFFICES ASSUME SdrInv PROVE SdrRecordWhole /\ SdrOutputComplete /\ SdrDumpTrue
  OBVIOUS
<1>0. sdrList \in Seq(SdrEntries) /\ sdrRepo \in Seq(SdrStored) /\ SdrListWhole /\ sdrRaw \in Seq(SdrRaws) /\ SdrDumpsRight
  BY DEF SdrInv, SdrTyped, SdrDumpsRight
<1>1. ASSUME NEW e, SdrEntryWhole(e), e.rec \in SdrBuffers, NEW r, r = e.rec
      PROVE  Len(r.vers) = e.len /\ (~r.renewed => Cardinality(ToSet(r.vers)) = 1)
  <2>2. r \in SdrBuffers
    BY <1>1
  <2>3. PICK v : v = r.vers
    OBVIOUS
  <2>4. v \in Seq(SdrBytes)
    BY <2>2, <2>3 DEF SdrBuffers
  <2>5. e.len > 0 /\ Len(v) = e.len /\ (~r.renewed => SdrSame(v))
    BY <1>1, <2>3 DEF SdrEntryWhole
  <2>6. 1 \in DOMAIN v
    BY <2>4, <2>5
  <2>7. SdrSame(v) => ToSet(v) = {v[1]}
    BY <2>6 DEF SdrSame, ToSet
  <2>8. Cardinality({v[1]}) = 1
    BY FS_Singleton
  <2> QED BY <2>3, <2>5, <2>7, <2>8
<1>2. SdrRecordWhole
  <2>1. ASSUME NEW e, SdrEntryWhole(e), e.rec \in SdrBuffers PROVE SdrWhole(e)
    BY <1>1, <2>1 DEF SdrWhole
  <2>2. ASSUME NEW i \in DOMAIN sdrList PROVE SdrEntryWhole(sdrList[i]) /\ sdrList[i].rec \in SdrBuffers
    <3>1. sdrList[i] \in SdrEntries
      BY <1>0
    <3> QED BY <1>0, <3>1 DEF SdrListWhole, SdrEntries
  <2>3. ASSUME NEW i \in DOMAIN sdrRaw
        PROVE  (sdrRaw[i].rec = SdrNoRecord \/ SdrEntryWhole(sdrRaw[i])) /\ sdrRaw[i].rec \in SdrBuffers
    <3>1. sdrRaw[i] \in SdrRaws
      BY <1>0
    <3> QED BY <1>0, <3>1 DEF SdrDumpsRight, SdrRaws
  <2> QED BY <2>1, <2>2, <2>3 DEF SdrRecordWhole
<1>3. ASSUME sdrAt = "idle", sdrHist \subseteq {"dumped"}, sdrUsed.commands > 0
      PROVE  /\ \A n \in DOMAIN sdrOut : \E i \in DOMAIN sdrRepo : SdrMatches(sdrRepo[i]) /\ sdrOut[n].id = sdrRepo[i].id
             /\ \A i \in DOMAIN sdrRepo : SdrMatches(sdrRepo[i]) => \E n \in DOMAIN sdrOut : sdrOut[n].id = sdrRepo[i].id
             /\ \A n1, n2 \in DOMAIN sdrOut, i1, i2 \in DOMAIN sdrRepo :
                  n1 < n2 /\ sdrOut[n1].id = sdrRepo[i1].id /\ sdrOut[n2].id = sdrRepo[i2].id => i1 < i2
  <2>1. SdrFinal(sdrCmd, sdrOut) /\ SdrUntouched
    BY <1>3 DEF SdrInv, SdrUndisturbed, SdrInDump, SdrCalm, SdrEnded
  <2>2. DOMAIN sdrRepo = 1..SdrN /\ \A i \in 1..SdrN : sdrRepo[i] = SdrAsStored(SdrRecords[i])
    BY <2>1, SdrConstants DEF SdrUntouched
  <2>3. \A i \in 1..SdrN : sdrRepo[i].id = SdrRecords[i].id /\ sdrRepo[i].type = SdrRecords[i].type
          /\ SdrEntry(sdrRepo[i], sdrRepo[i].id, SdrNoRecord) = SdrEntry(SdrRecords[i], SdrRecords[i].id, SdrNoRecord)
    BY <2>2 DEF SdrAsStored, SdrEntry
  <2>4. \A i \in 1..SdrN : SdrMatches(sdrRepo[i]) <=> SdrDue(sdrCmd, i)
    BY <2>3 DEF SdrMatches, SdrDue
  <2>5. \A n \in DOMAIN sdrOut : \E i \in DOMAIN sdrRepo : SdrMatches(sdrRepo[i]) /\ sdrOut[n].id = sdrRepo[i].id
    BY <2>1, <2>2, <2>3, <2>4 DEF SdrFinal
  <2>6. \A i \in DOMAIN sdrRepo : SdrMatches(sdrRepo[i]) => \E n \in DOMAIN sdrOut : sdrOut[n].id = sdrRepo[i].id
    BY <2>1, <2>2, <2>3, <2>4 DEF SdrFinal
  <2>7. ASSUME NEW n1 \in DOMAIN sdrOut, NEW n2 \in DOMAIN sdrOut, NEW i1 \in DOMAIN sdrRepo, NEW i2 \in DOMAIN sdrRepo,
               n1 < n2, sdrOut[n1].id = sdrRepo[i1].id, sdrOut[n2].id = sdrRepo[i2].id
        PROVE  i1 < i2
    <3>1. SdrPlace(sdrOut[n1].id) < SdrPlace(sdrOut[n2].id)
      BY <2>1, <2>7 DEF SdrFinal
    <3>2. SdrPlace(sdrOut[n1].id) = i1 /\ SdrPlace(sdrOut[n2].id) = i2
      BY <2>2, <2>3, <2>7, SdrPlaceOf
    <3> QED BY <3>1, <3>2
  <2> QED BY <2>5, <2>6, <2>7
<1>4. SdrOutputComplete
  BY <1>3 DEF SdrOutputComplete, SdrShownRight
<1>5. SdrDumpTrue
  <2> SUFFICES ASSUME sdrAt = "idle", sdrHist = {"dumped"} PROVE SdrDumpTrue
    BY DEF SdrDumpTrue
  <2>1. sdrUsed.commands > 0
    BY <1>0 DEF SdrDumpsRight
  <2>2. SdrShownRight
    BY <1>3, <2>1 DEF SdrShownRight
  <2>3. SdrUntouched /\ SdrDumpsFull
    BY DEF SdrInv, SdrUndisturbed, SdrInDump, SdrCalm
  <2>4. SdrN \in Nat /\ DOMAIN sdrRepo = 1..SdrN /\ \A i \in 1..SdrN : sdrRepo[i] = SdrAsStored(SdrRecords[i])
    BY <2>3, SdrConstants DEF SdrUntouched
  <2>5. Len(sdrRepo) = SdrN
    BY <1>0, <2>4
  <2>6. PICK q \in Nat : Len(sdrRaw) = q * SdrN + 0
    BY <2>3 DEF SdrDumpsFull, SdrCopies
  <2>7. sdrRepo # <<>> => Len(sdrRaw) % Len(sdrRepo) = 0
    <3> SUFFICES ASSUME SdrN # 0 PROVE Len(sdrRaw) % SdrN = 0
      BY <1>0, <2>4, <2>5
    <3>1. PICK N : N = SdrN
      OBVIOUS
    <3>2. N \in Nat \ {0} /\ 0 \in 0..(N - 1)
      BY <2>4, <3>1
    <3>3. (q * N + 0) % N = 0
      BY <3>2
    <3> QED BY <2>6, <3>1, <3>3
  <2>8. ASSUME NEW j \in DOMAIN sdrRaw
        PROVE  LET r == sdrRepo[((j - 1) % Len(sdrRepo)) + 1] IN
               sdrRaw[j].type = r.type /\ sdrRaw[j].rec.vers = [k \in 1..r.len |-> <<r.id, r.ver>>]
    <3>1. j \in 1..Len(sdrRaw) /\ Len(sdrRaw) \in Nat
      BY <1>0
    <3>2. SdrN # 0
      BY <2>6, <3>1
    <3>3. PICK i : i = ((j - 1) % SdrN) + 1
      OBVIOUS
    <3>4. i \in 1..SdrN
      BY <2>4, <3>1, <3>2, <3>3
    <3>5. PICK r : r = SdrRecords[i]
      OBVIOUS
    <3>6. sdrRepo[i].type = r.type /\ sdrRepo[i].len = r.len /\ sdrRepo[i].id = r.id /\ sdrRepo[i].ver = 1
      BY <2>4, <3>4, <3>5 DEF SdrAsStored
    <3>7. SdrCopy(sdrRaw[j], r)
      BY <2>3, <3>3, <3>5 DEF SdrDumpsFull, SdrCopies, SdrTurn
    <3> QED BY <2>5, <3>3, <3>6, <3>7 DEF SdrCopy
  <2>9. SdrDumping => Len(sdrRaw) >= Len(sdrRepo)
    BY <2>3, <2>5 DEF SdrDumpsFull
  <2> QED BY <2>2, <2>7, <2>8, <2>9 DEF SdrDumpTrue
<1> QED BY <1>2, <1>4, <1>5

(* Commands that read the sensor data repository have shown, when they are *)
(* done and neither a dump nor anything else disturbed the process,        *)
(* exactly the records they are about, once and in order, from the list or *)
(* from the BMC; every record of the list, and of every dump, was read to  *)
(* its last byte and, unless the reservation was renewed, in one version.  *)
(* For repositories of any size, BMCs of any read limit, any number of     *)
(* commands, changes by others and failing requests.                       *)
THEOREM RepositoryTrue == CmdSpec => []SdrTrue
<1>1. CmdInit => SdrInv
  BY SdrInvInit DEF CmdInit
<1>2. SdrInv /\ [CmdNext]_cmdVars => SdrInv'
  BY ListingMoves, SdrInvStep
<1>3. SdrInv => SdrTrue
  BY SdrInvTrue DEF SdrTrue
<1> QED
  BY <1>1, <1>2, <1>3, PTL DEF CmdSpec

(* A dump that reports success has written every record, whole and in      *)
(* order, behind what earlier dumps of the process wrote; a command after  *)
(* dumps, which has to renew the reservation they ended, shows exactly the *)
(* records it is about unless it dies on the entries they left. For any    *)
(* repository and any sequence of commands, when nothing else disturbs     *)
(* them.                                                                   *)
THEOREM DumpsTrue == CmdSpec => []SdrDumpTrue
<1>1. CmdInit => SdrInv
  BY SdrInvInit DEF CmdInit
<1>2. SdrInv /\ [CmdNext]_cmdVars => SdrInv'
  BY ListingMoves, SdrInvStep
<1>3. SdrInv => SdrDumpTrue
  BY SdrInvTrue
<1> QED
  BY <1>1, <1>2, <1>3, PTL DEF CmdSpec
=============================================================================
