------------------------ MODULE AttendanceClockProofs -------------------------
(***************************************************************************)
(* Theorems about AttendanceClock, for every value of its constants.       *)
(***************************************************************************)
EXTENDS AttendanceClock, FiniteSetTheorems, TLAPS

(***************************************************************************)
(* Type correctness.  Some writes are well typed only because of what the  *)
(* handler checked before it: a session folded or opened again has a       *)
(* check-in or a check-out, and a row that is written to exists.           *)
(***************************************************************************)
ReqOK(q) ==
    /\ q.pc \in {"clash", "merge", "create", "reopen"} => q.row \in RowIds
    /\ q.pc \in {"clash", "merge"} => q.in \in Time
    /\ q.pc = "merge" => q.row2 \in Opt(RowIds)
    /\ q.pc = "reopen" => q.out \in Time

TypeInv == TypeOK /\ \A r \in Reqs : ReqOK(req[r])

\* The constants, one fact at a time.
LEMMA Constants ==
    /\ RowIds \subseteq Nat /\ BreakIds \subseteq Nat /\ Zones \subseteq Nat
    /\ DayLen \in Nat /\ DayLen > 0 /\ Span \in Nat /\ OvertimeMax \in Nat
    /\ Cutoff["BREAK"] \in Nat /\ Cutoff["BRB"] \in Nat
BY ClockAssumption

\* shiftDayString of a moment is a date.
LEMMA ShiftDayType ==
  ASSUME NEW z \in Nat, NEW t \in Time
  PROVE  ShiftDay(z, t) \in Nat
<1>1. (t + z) \div DayLen \in Nat
  BY Constants DEF Time
<1> QED
  BY <1>1 DEF ShiftDay

\* The database queries find a row that exists.
LEMMA RowOnType ==
  ASSUME NEW d
  PROVE  RowOn(d) \in Opt(RowIds)
BY DEF RowOn, Opt

LEMMA FindCurrentType ==
  ASSUME NEW z, NEW t
  PROVE  FindCurrent(z, t) \in Opt(RowIds)
BY RowOnType DEF FindCurrent

LEMMA HasCheckInType ==
  ASSUME TypeOK, NEW i \in Opt(RowIds), HasCheckIn(i)
  PROVE  i \in RowIds /\ rows[i] \in Row /\ rows[i].in \in Time
BY Constants DEF TypeOK, HasCheckIn, Opt, Row

\* Least and greatest of two times, as the merges use them.
LEMMA LeastType ==
  ASSUME NEW a \in Time, NEW b \in Opt(Time)
  PROVE  /\ Least({a, b} \ {None}) \in Time
         /\ Least({a, b} \ {None}) <= a
         /\ Least({a, b} \ {None}) \in {a, b}
<1> DEFINE S == {a, b} \ {None}
<1>1. \E x \in S : \A y \in S : x <= y
  <2>1. CASE b = None
    <3>1. a \in S /\ \A y \in S : a <= y
      BY <2>1 DEF Time, None
    <3> QED
      BY <3>1
  <2>2. CASE b # None /\ a <= b
    <3>1. a \in S /\ \A y \in S : a <= y
      BY <2>2 DEF Time, None
    <3> QED
      BY <3>1
  <2>3. CASE b # None /\ ~(a <= b)
    <3>1. b \in S /\ \A y \in S : b <= y
      BY <2>3 DEF Time, None, Opt
    <3> QED
      BY <3>1
  <2> QED
    BY <2>1, <2>2, <2>3
<1>2. Least(S) \in S /\ \A y \in S : Least(S) <= y
  BY <1>1 DEF Least
<1>3. a \in S /\ \A x \in S : x \in Time
  BY DEF Time, None, Opt
<1> QED
  BY <1>2, <1>3

LEMMA GreatestType ==
  ASSUME NEW S, S \subseteq Time, S # {}, NEW a \in S, NEW b \in S, S = {a, b}
  PROVE  Greatest(S) \in Time
<1>1. \E x \in S : \A y \in S : x >= y
  <2>1. CASE a >= b
    <3>1. \A y \in S : a >= y
      BY <2>1 DEF Time
    <3> QED
      BY <3>1
  <2>2. CASE ~(a >= b)
    <3>1. \A y \in S : b >= y
      BY <2>2 DEF Time
    <3> QED
      BY <3>1
  <2> QED
    BY <2>1, <2>2
<1> QED
  BY <1>1 DEF Greatest

LEMMA LatestType ==
  ASSUME NEW a \in Opt(Time), NEW b \in Opt(Time), {a, b} \ {None} # {}
  PROVE  Greatest({a, b} \ {None}) \in Time
<1> DEFINE S == {a, b} \ {None}
<1>1. S \subseteq Time
  BY DEF Opt
<1>2. CASE a = None
  BY <1>1, <1>2, GreatestType, S = {b, b}
<1>3. CASE a # None /\ b = None
  BY <1>1, <1>3, GreatestType, S = {a, a}
<1>4. CASE a # None /\ b # None
  BY <1>1, <1>4, GreatestType, S = {a, b}
<1> QED
  BY <1>2, <1>3, <1>4

\* autoCheckoutAt is a moment.
LEMMA AutoCheckoutType ==
  ASSUME NEW in \in Time, NEW ot \in Opt(Time)
  PROVE  AutoCheckoutAt(in, ot) \in Time
<1>1. in + Span \in Time
  BY Constants DEF Time
<1>2. CASE ot = None
  BY <1>1, <1>2 DEF AutoCheckoutAt
<1>3. CASE ot # None
  <2>1. Greatest({in + Span, ot}) \in Time
    <3>1. {in + Span, ot} \subseteq Time
      BY <1>1, <1>3 DEF Opt
    <3> QED
      BY <3>1, GreatestType
  <2> QED
    BY <1>3, <2>1, Constants DEF AutoCheckoutAt, Time
<1> QED
  BY <1>2, <1>3

\* A write to one handler, one row or one entry keeps the types.
LEMMA ReqStep ==
  ASSUME TypeInv, NEW r \in Reqs, NEW q \in Request, ReqOK(q), req' = [req EXCEPT ![r] = q]
  PROVE  req' \in [Reqs -> Request] /\ \A p \in Reqs : ReqOK(req'[p])
BY DEF TypeInv, TypeOK

LEMMA ReplyStep ==
  ASSUME TypeInv, NEW r \in Reqs, Reply(r)
  PROVE  req' \in [Reqs -> Request] /\ \A p \in Reqs : ReqOK(req'[p])
<1>1. NoRequest \in Request /\ ReqOK(NoRequest)
  BY DEF NoRequest, Request, ReqOK, Ops, PCs, Opt, Time
<1> QED
  BY <1>1, ReqStep DEF Reply

LEMMA AddEntryType ==
  ASSUME TypeOK, NEW i \in RowIds, NEW t \in {"BREAK", "BRB", "OFF"}, NEW s \in Time,
         NEW e \in Opt(Time), AddEntry(i, t, s, e)
  PROVE  entries' \in [BreakIds -> Entry]
<1>1. [row |-> i, type |-> t, start |-> s, end |-> e, auto |-> FALSE] \in Entry
  BY DEF Entry
<1> QED
  BY <1>1 DEF AddEntry, TypeOK


\* A request that moves to its next step, field by field.
LEMMA MoveStep ==
  ASSUME TypeInv, NEW r \in Reqs, NEW pc \in PCs,
         req' = [req EXCEPT ![r].pc = pc], ReqOK([req[r] EXCEPT !.pc = pc])
  PROVE  req' \in [Reqs -> Request] /\ \A p \in Reqs : ReqOK(req'[p])
<1> DEFINE q == [req[r] EXCEPT !.pc = pc]
<1>1. req[r] \in Request
  BY DEF TypeInv, TypeOK
<1>2. q \in Request
  BY <1>1 DEF Request
<1>3. req' = [req EXCEPT ![r] = q]
  OBVIOUS
<1> QED
  BY <1>2, <1>3, ReqStep

LEMMA MoveRowStep ==
  ASSUME TypeInv, NEW r \in Reqs, NEW pc \in {"close", "create", "stamp"}, NEW i \in RowIds,
         req' = [req EXCEPT ![r].pc = pc, ![r].row = i]
  PROVE  req' \in [Reqs -> Request] /\ \A p \in Reqs : ReqOK(req'[p])
<1> DEFINE q == [req[r] EXCEPT !.pc = pc, !.row = i]
<1>1. req[r] \in Request
  BY DEF TypeInv, TypeOK
<1>2. q \in Request
  BY <1>1, Constants DEF Request, PCs, Opt
<1>3. req' = [req EXCEPT ![r] = q]
  BY DEF TypeInv, TypeOK
<1>4. ReqOK(q)
  BY <1>1 DEF ReqOK, Request
<1> QED
  BY <1>2, <1>3, <1>4, ReqStep

\* The steps that only move a request, one lemma each.
Quiet == UNCHANGED <<now, zone, rows, entries, sweep, cut, disruptions>>

LEMMA QuietStep ==
  ASSUME TypeInv, Quiet, req' \in [Reqs -> Request], \A p \in Reqs : ReqOK(req'[p])
  PROVE  TypeInv'
BY DEF TypeInv, TypeOK, Quiet

LEMMA ArriveType ==
  ASSUME TypeInv, NEW r \in Reqs, NEW op \in Ops, Arrive(r, op)
  PROVE  TypeInv'
<1> DEFINE q == [NoRequest EXCEPT !.op = op, !.pc = "read", !.at = now, !.zone = zone]
<1>1. now \in Time /\ zone \in Nat
  BY Constants DEF TypeInv, TypeOK
<1>2. q \in Request
  BY <1>1 DEF NoRequest, Request, PCs, Opt, Time
<1>3. ReqOK(q)
  BY DEF ReqOK, NoRequest
<1>4. req' = [req EXCEPT ![r] = q]
  BY DEF Arrive
<1>5. req' \in [Reqs -> Request] /\ \A p \in Reqs : ReqOK(req'[p])
  BY <1>2, <1>3, <1>4, ReqStep
<1> QED
  BY <1>5, QuietStep DEF Arrive, Quiet

LEMMA CheckInReadType ==
  ASSUME TypeInv, NEW r \in Reqs, CheckInRead(r)
  PROVE  TypeInv'
<1> DEFINE e == RowOn(ShiftDay(req[r].zone, now))
           q == [req[r] EXCEPT !.pc = "clash", !.row = e, !.in = rows[e].in,
                               !.out = rows[e].out]
<1>1. e \in Opt(RowIds)
  BY RowOnType
<1>2. CASE Reply(r)
  BY <1>2, ReplyStep, QuietStep DEF CheckInRead, Quiet
<1>3. CASE HasCheckIn(e) /\ req' = [req EXCEPT ![r].pc = "clash", ![r].row = e,
                                     ![r].in = rows[e].in, ![r].out = rows[e].out]
  <2>1. e \in RowIds /\ rows[e] \in Row /\ rows[e].in \in Time
    BY <1>1, <1>3, HasCheckInType DEF TypeInv
  <2>2. req[r] \in Request
    BY DEF TypeInv, TypeOK
  <2>3. q \in Request
    BY <2>1, <2>2, Constants, Zenon DEF Request, Row, PCs, Opt
  <2>4. ReqOK(q)
    BY <2>1, <2>2 DEF ReqOK, Request
  <2>5. req' = [req EXCEPT ![r] = q]
    BY <1>3, Zenon DEF TypeInv, TypeOK
  <2> QED
    BY <2>3, <2>4, <2>5, ReqStep, QuietStep, Zenon DEF CheckInRead, Quiet
<1>4. CASE req' = [req EXCEPT ![r].pc = "upsert"]
  <2>1. ReqOK([req[r] EXCEPT !.pc = "upsert"]) /\ "upsert" \in PCs
    BY DEF ReqOK, PCs, TypeInv, TypeOK, Request
  <2> QED
    BY <1>4, <2>1, MoveStep, QuietStep, Zenon DEF CheckInRead, Quiet
<1> QED
  BY <1>2, <1>3, <1>4 DEF CheckInRead

LEMMA CheckInClashType ==
  ASSUME TypeInv, NEW r \in Reqs, CheckInClash(r)
  PROVE  TypeInv'
<1> DEFINE c == RowOn(ShiftDay(req[r].zone, req[r].in))
           in2 == IF c = None THEN None ELSE rows[c].in
           out2 == IF c = None THEN None ELSE rows[c].out
           q == [req[r] EXCEPT !.pc = "merge", !.row2 = c, !.in2 = in2, !.out2 = out2]
<1>1. c \in Opt(RowIds)
  BY RowOnType
<1>2. in2 \in Opt(Time) /\ out2 \in Opt(Time)
  BY <1>1 DEF Opt, TypeInv, TypeOK, Row
<1>3. req[r] \in Request /\ ReqOK(req[r]) /\ req[r].pc = "clash"
  BY DEF TypeInv, TypeOK, CheckInClash, At
<1>6. req' = [req EXCEPT ![r] = q]
  BY Zenon DEF CheckInClash, TypeInv, TypeOK
<1> HIDE DEF c, in2, out2
<1>4. q \in Request
  <2>1. c \in Opt(Nat) /\ "merge" \in PCs
    BY <1>1, Constants DEF Opt, PCs
  <2> QED
    BY <2>1, <1>2, <1>3, Zenon DEF Request
<1>5. ReqOK(q)
  BY <1>1, <1>3 DEF ReqOK, Request
<1> HIDE DEF q
<1> QED
  BY <1>4, <1>5, <1>6, ReqStep, QuietStep, Zenon DEF CheckInClash, Quiet

LEMMA CheckInMoveType ==
  ASSUME TypeInv, NEW r \in Reqs, CheckInMove(r)
  PROVE  TypeInv'
<1> DEFINE proper == ShiftDay(req[r].zone, req[r].in)
<1>1. req[r] \in Request /\ ReqOK(req[r]) /\ req[r].pc = "merge"
  BY DEF TypeInv, TypeOK, CheckInMove, At
<1>2. req[r].row \in RowIds /\ req[r].zone \in Nat /\ req[r].in \in Time
  BY <1>1 DEF ReqOK, Request
<1>3. proper \in Nat
  BY <1>2, ShiftDayType
<1>4. CASE rows' = [rows EXCEPT ![req[r].row].date = proper]
           /\ req' = [req EXCEPT ![r].pc = "upsert"]
  <2>1. rows' \in [RowIds -> Row]
    <3>1. [rows[req[r].row] EXCEPT !.date = proper] \in Row
      BY <1>2, <1>3 DEF TypeInv, TypeOK, Row, Opt
    <3>2. rows' = [rows EXCEPT ![req[r].row] = [rows[req[r].row] EXCEPT !.date = proper]]
      BY <1>4
    <3> QED
      BY <3>1, <3>2 DEF TypeInv, TypeOK
  <2>2. ReqOK([req[r] EXCEPT !.pc = "upsert"]) /\ "upsert" \in PCs
    BY DEF ReqOK, PCs, TypeInv, TypeOK, Request
  <2>3. req' \in [Reqs -> Request] /\ \A p \in Reqs : ReqOK(req'[p])
    BY <1>4, <2>2, MoveStep
  <2> QED
    BY <2>1, <2>3 DEF CheckInMove, TypeInv, TypeOK
<1>5. CASE UNCHANGED rows /\ Reply(r)
  BY <1>5, ReplyStep, QuietStep DEF CheckInMove, Quiet
<1> QED
  BY <1>4, <1>5 DEF CheckInMove

LEMMA CheckInMergeType ==
  ASSUME TypeInv, NEW r \in Reqs, CheckInMerge(r)
  PROVE  TypeInv'
<1> DEFINE q == req[r]
           outs == {q.out, q.out2} \ {None}
           first == Least({q.in, q.in2} \ {None})
           last == IF outs = {} THEN None ELSE Greatest(outs)
           clashFirst == q.in2 # None /\ q.in2 <= q.in
           firstOut == IF clashFirst THEN q.out2 ELSE q.out
           secondIn == IF clashFirst THEN q.in ELSE q.in2
           gap == firstOut # None /\ secondIn # None /\ secondIn > firstOut
           moved == [b \in BreakIds |->
                       IF entries[b].row = q.row
                       THEN [entries[b] EXCEPT !.row = q.row2] ELSE entries[b]]
           fresh == [row |-> q.row2, type |-> "BREAK", start |-> firstOut,
                     end |-> secondIn, auto |-> FALSE]
<1>1. q \in Request /\ ReqOK(q) /\ q.pc = "merge" /\ q.row2 # None
  BY DEF TypeInv, TypeOK, CheckInMerge, At
<1>2. q.row \in RowIds /\ q.row2 \in RowIds /\ q.in \in Time
  BY <1>1 DEF ReqOK, Opt
<1>3. q.in2 \in Opt(Time) /\ q.out \in Opt(Time) /\ q.out2 \in Opt(Time)
  BY <1>1 DEF Request
<1>4. first \in Time
  BY <1>2, <1>3, LeastType
<1>5. last \in Opt(Time)
  BY <1>3, LatestType, Zenon DEF Opt
<1>6. rows' = [rows EXCEPT ![q.row2].in = first, ![q.row2].out = last,
                           ![q.row].in = None, ![q.row].out = None]
  BY Zenon DEF CheckInMerge
<1>7. entries' = IF gap THEN [moved EXCEPT ![FreshEntry] = fresh] ELSE moved
  BY Zenon DEF CheckInMerge
<1>8. req' = [req EXCEPT ![r].pc = "upsert"]
  BY Zenon DEF CheckInMerge
<1>9. firstOut \in Opt(Time) /\ secondIn \in Opt(Time)
  BY <1>2, <1>3 DEF Opt
<1>10. gap => fresh \in Entry
  <2>1. firstOut # None => firstOut \in Time
    BY <1>9 DEF Opt
  <2> HIDE DEF firstOut, secondIn
  <2> QED
    BY <2>1, <1>2, <1>9 DEF Entry
<1>11. moved \in [BreakIds -> Entry]
  <2> SUFFICES ASSUME NEW b \in BreakIds PROVE moved[b] \in Entry
    OBVIOUS
  <2>1. entries[b] \in Entry
    BY DEF TypeInv, TypeOK
  <2>2. [entries[b] EXCEPT !.row = q.row2] \in Entry
    BY <2>1, <1>2 DEF Entry
  <2> QED
    BY <2>1, <2>2
<1>12. entries' \in [BreakIds -> Entry]
  <2> HIDE DEF moved, fresh, gap
  <2> QED
    BY <1>7, <1>10, <1>11, Zenon
<1>13. rows' \in [RowIds -> Row]
  <2> HIDE DEF first, last
  <2>1. \A i \in RowIds : rows[i] \in Row
    BY DEF TypeInv, TypeOK
  <2>2. [rows[q.row2] EXCEPT !.in = first, !.out = last] \in Row
    BY <2>1, <1>2, <1>4, <1>5, Zenon DEF Row, Opt
  <2> DEFINE rows1 == [rows EXCEPT ![q.row2] = [rows[q.row2] EXCEPT !.in = first, !.out = last]]
  <2>3. rows1 \in [RowIds -> Row]
    BY <2>2, <1>2 DEF TypeInv, TypeOK
  <2>4. [rows1[q.row] EXCEPT !.in = None, !.out = None] \in Row
    <3> HIDE DEF rows1
    <3>1. rows1[q.row] \in Row
      BY <2>3, <1>2
    <3> QED
      BY <3>1, Zenon DEF Row, Opt
  <2>5. rows' = [rows1 EXCEPT ![q.row] = [rows1[q.row] EXCEPT !.in = None, !.out = None]]
    BY <1>6, <1>2, Zenon DEF TypeInv, TypeOK
  <2> HIDE DEF rows1
  <2> QED
    BY <2>3, <2>4, <2>5, Zenon
<1>14. req' \in [Reqs -> Request] /\ \A p \in Reqs : ReqOK(req'[p])
  <2>1. ReqOK([req[r] EXCEPT !.pc = "upsert"]) /\ "upsert" \in PCs
    BY DEF ReqOK, PCs, TypeInv, TypeOK, Request
  <2> QED
    BY <1>8, <2>1, MoveStep, Zenon
<1> QED
  BY <1>12, <1>13, <1>14, Zenon DEF CheckInMerge, TypeInv, TypeOK

LEMMA CheckInUpsertType ==
  ASSUME TypeInv, NEW r \in Reqs, CheckInUpsert(r)
  PROVE  TypeInv'
<1> DEFINE d == ShiftDay(req[r].zone, req[r].at)
           i == RowOn(d)
<1>1. req[r].at \in Time /\ req[r].zone \in Nat
  BY DEF TypeInv, TypeOK, Request
<1>2. d \in Nat
  BY <1>1, ShiftDayType
<1>3. [NoRow EXCEPT !.date = d, !.in = req[r].at] \in Row
  <2> HIDE DEF d
  <2> QED
    BY <1>1, <1>2 DEF NoRow, Row, Opt, Notes
<1>4. CASE rows' = [rows EXCEPT ![FreshRow] = [NoRow EXCEPT !.date = d, !.in = req[r].at]]
  <2>1. rows' \in [RowIds -> Row]
    BY <1>3, <1>4 DEF TypeInv, TypeOK
  <2> QED
    BY <2>1, ReplyStep DEF CheckInUpsert, TypeInv, TypeOK
<1>5. CASE i # None /\ rows' = [rows EXCEPT ![i].in = req[r].at]
  <2>1. i \in RowIds
    BY <1>5, RowOnType DEF Opt
  <2>2. [rows[i] EXCEPT !.in = req[r].at] \in Row
    <3> HIDE DEF i
    <3> QED
      BY <1>1, <2>1 DEF TypeInv, TypeOK, Row, Opt
  <2>3. rows' \in [RowIds -> Row]
    <3> HIDE DEF i
    <3>1. rows' = [rows EXCEPT ![i] = [rows[i] EXCEPT !.in = req[r].at]]
      BY <1>5
    <3> QED
      BY <2>1, <2>2, <3>1 DEF TypeInv, TypeOK
  <2> QED
    BY <2>3, ReplyStep DEF CheckInUpsert, TypeInv, TypeOK
<1> QED
  BY <1>4, <1>5 DEF CheckInUpsert

LEMMA CheckOutType ==
  ASSUME TypeInv, NEW r \in Reqs,
         CheckOutRead(r) \/ CheckOutCloseBreaks(r) \/ CheckOutWrite(r)
  PROVE  TypeInv'
<1>1. req[r] \in Request /\ req[r].at \in Time
  BY DEF TypeInv, TypeOK, Request
<1>2. CASE CheckOutRead(r)
  <2> DEFINE i == FindCurrent(req[r].zone, req[r].at)
  <2>1. i \in Opt(RowIds)
    BY FindCurrentType
  <2>2. CASE HasCheckIn(i) /\ req' = [req EXCEPT ![r].pc = "close", ![r].row = i]
    <3>1. i \in RowIds
      BY <2>1, <2>2, HasCheckInType DEF TypeInv
    <3> QED
      BY <1>2, <2>2, <3>1, MoveRowStep, QuietStep DEF CheckOutRead, Quiet
  <2>3. CASE Reply(r)
    BY <1>2, <2>3, ReplyStep, QuietStep DEF CheckOutRead, Quiet
  <2> QED
    BY <1>2, <2>2, <2>3 DEF CheckOutRead
<1>3. CASE CheckOutCloseBreaks(r)
  <2>1. \A b \in BreakIds : [entries[b] EXCEPT !.end = req[r].at] \in Entry
    BY <1>1 DEF TypeInv, TypeOK, Entry, Opt
  <2>2. entries' \in [BreakIds -> Entry]
    BY <1>3, <2>1 DEF CheckOutCloseBreaks, TypeInv, TypeOK
  <2>3. ReqOK([req[r] EXCEPT !.pc = "out"]) /\ "out" \in PCs
    BY DEF ReqOK, PCs, TypeInv, TypeOK, Request
  <2>4. req' \in [Reqs -> Request] /\ \A p \in Reqs : ReqOK(req'[p])
    BY <1>3, <2>3, MoveStep DEF CheckOutCloseBreaks
  <2> QED
    BY <1>3, <2>2, <2>4 DEF CheckOutCloseBreaks, TypeInv, TypeOK
<1>4. CASE CheckOutWrite(r)
  <2>1. \A i \in RowIds : [rows[i] EXCEPT !.out = req[r].at] \in Row
    BY <1>1 DEF TypeInv, TypeOK, Row, Opt
  <2>2. rows' \in [RowIds -> Row]
    BY <1>4, <2>1 DEF CheckOutWrite, TypeInv, TypeOK
  <2> QED
    BY <1>4, <2>2, ReplyStep DEF CheckOutWrite, TypeInv, TypeOK
<1> QED
  BY <1>2, <1>3, <1>4

LEMMA OvertimeType ==
  ASSUME TypeInv, NEW r \in Reqs,
         OvertimeRead(r) \/ OvertimeReopen(r) \/ OvertimeStamp(r)
  PROVE  TypeInv'
<1>1. req[r] \in Request /\ req[r].at \in Time /\ ReqOK(req[r])
  BY DEF TypeInv, TypeOK, Request
<1>2. CASE OvertimeRead(r)
  <2> DEFINE i == FindCurrent(req[r].zone, req[r].at)
             q == [req[r] EXCEPT !.pc = "reopen", !.row = i, !.out = rows[i].out]
  <2>1. i \in Opt(RowIds)
    BY FindCurrentType
  <2>2. HasCheckIn(i) => i \in RowIds /\ rows[i] \in Row
    BY <2>1, HasCheckInType DEF TypeInv
  <2>3. CASE HasCheckIn(i) /\ rows[i].out # None
             /\ req' = [req EXCEPT ![r].pc = "reopen", ![r].row = i, ![r].out = rows[i].out]
    <3>1. req' = [req EXCEPT ![r] = q]
      BY <2>3, Zenon DEF TypeInv, TypeOK
    <3> HIDE DEF i
    <3>2. i \in Opt(Nat) /\ i \in RowIds /\ rows[i].out \in Time /\ "reopen" \in PCs
      BY <2>2, <2>3, Constants DEF Opt, Row, PCs
    <3>3. q \in Request
      BY <1>1, <3>2, Zenon DEF Request, Opt
    <3>4. ReqOK(q)
      BY <1>1, <3>2 DEF ReqOK, Request
    <3> HIDE DEF q
    <3> QED
      BY <1>2, <3>1, <3>3, <3>4, ReqStep, QuietStep, Zenon DEF OvertimeRead, Quiet
  <2>4. CASE HasCheckIn(i) /\ req' = [req EXCEPT ![r].pc = "stamp", ![r].row = i]
    BY <1>2, <2>2, <2>4, MoveRowStep, QuietStep, Zenon DEF OvertimeRead, Quiet
  <2>5. CASE Reply(r)
    BY <1>2, <2>5, ReplyStep, QuietStep DEF OvertimeRead, Quiet
  <2> QED
    BY <1>2, <2>3, <2>4, <2>5 DEF OvertimeRead
<1>3. CASE OvertimeReopen(r)
  <2>1. req[r].row \in RowIds /\ req[r].out \in Time
    BY <1>1, <1>3 DEF OvertimeReopen, At, ReqOK
  <2>2. entries' \in [BreakIds -> Entry]
    BY <1>1, <1>3, <2>1, AddEntryType DEF OvertimeReopen, TypeInv, Opt
  <2>3. [rows[req[r].row] EXCEPT !.out = None, !.ot = req[r].at, !.note = "overtime"] \in Row
    BY <1>1, <2>1, Zenon DEF TypeInv, TypeOK, Row, Opt, Notes
  <2>4. rows' = [rows EXCEPT ![req[r].row] =
                   [rows[req[r].row] EXCEPT !.out = None, !.ot = req[r].at, !.note = "overtime"]]
    BY <1>3, <2>1, Zenon DEF OvertimeReopen, TypeInv, TypeOK
  <2>5. rows' \in [RowIds -> Row]
    BY <2>1, <2>3, <2>4 DEF TypeInv, TypeOK
  <2> QED
    BY <1>3, <2>2, <2>5, ReplyStep DEF OvertimeReopen, TypeInv, TypeOK
<1>4. CASE OvertimeStamp(r)
  <2>1. \A i \in RowIds : [rows[i] EXCEPT !.ot = req[r].at] \in Row
    BY <1>1 DEF TypeInv, TypeOK, Row, Opt
  <2>2. rows' \in [RowIds -> Row]
    BY <1>4, <2>1, Zenon DEF OvertimeStamp, TypeInv, TypeOK
  <2> QED
    BY <1>4, <2>2, ReplyStep DEF OvertimeStamp, TypeInv, TypeOK
<1> QED
  BY <1>2, <1>3, <1>4

LEMMA BreakType ==
  ASSUME TypeInv, NEW r \in Reqs,
         BreakStartRead(r) \/ BreakStartCreate(r) \/ BreakEndRead(r) \/ BreakEndWrite(r)
  PROVE  TypeInv'
<1>1. req[r] \in Request /\ req[r].at \in Time /\ ReqOK(req[r])
  BY DEF TypeInv, TypeOK, Request
<1> DEFINE i == FindCurrent(req[r].zone, req[r].at)
<1>2. i \in Opt(RowIds)
  BY FindCurrentType
<1>3. CASE BreakStartRead(r)
  <2>1. CASE HasCheckIn(i) /\ req' = [req EXCEPT ![r].pc = "create", ![r].row = i]
    <3>1. i \in RowIds
      BY <1>2, <2>1, HasCheckInType DEF TypeInv
    <3> QED
      BY <1>3, <2>1, <3>1, MoveRowStep, QuietStep, Zenon DEF BreakStartRead, Quiet
  <2>2. CASE Reply(r)
    BY <1>3, <2>2, ReplyStep, QuietStep DEF BreakStartRead, Quiet
  <2> QED
    BY <1>3, <2>1, <2>2 DEF BreakStartRead
<1>4. CASE BreakStartCreate(r)
  <2>1. req[r].row \in RowIds
    BY <1>1, <1>4 DEF BreakStartCreate, At, ReqOK
  <2>2. PICK type \in {"BREAK", "BRB"} : AddEntry(req[r].row, type, req[r].at, None)
    BY <1>4 DEF BreakStartCreate
  <2>3. entries' \in [BreakIds -> Entry]
    BY <1>1, <2>1, <2>2, AddEntryType DEF TypeInv, Opt
  <2> QED
    BY <1>4, <2>3, ReplyStep DEF BreakStartCreate, TypeInv, TypeOK
<1>5. CASE BreakEndRead(r)
  <2>1. CASE Reply(r)
    BY <1>5, <2>1, ReplyStep, QuietStep DEF BreakEndRead, Quiet
  <2>2. CASE i # None /\ OpenEntries(i) # {} /\ ~Reply(r)
    <3>1. PICK b \in {b \in OpenEntries(i) :
                        \A c \in OpenEntries(i) : entries[b].start <= entries[c].start} :
             req' = [req EXCEPT ![r].pc = "end", ![r].row = i, ![r].row2 = b]
      BY <1>5, <2>2 DEF BreakEndRead
    <3> DEFINE q == [req[r] EXCEPT !.pc = "end", !.row = i, !.row2 = b]
    <3>2. req' = [req EXCEPT ![r] = q]
      BY <3>1, Zenon DEF TypeInv, TypeOK
    <3>3. b \in Nat
      BY Constants DEF OpenEntries, EntriesOf
    <3> HIDE DEF i
    <3>4. i \in Opt(Nat) /\ b \in Opt(Nat) /\ "end" \in PCs
      BY <1>2, <3>3, Constants DEF Opt, PCs
    <3>5. q \in Request
      BY <1>1, <3>4, Zenon DEF Request
    <3>6. ReqOK(q)
      BY <1>1 DEF ReqOK, Request
    <3> HIDE DEF q
    <3> QED
      BY <1>5, <3>2, <3>5, <3>6, ReqStep, QuietStep, Zenon DEF BreakEndRead, Quiet
  <2> QED
    BY <1>5, <2>1, <2>2 DEF BreakEndRead
<1>6. CASE BreakEndWrite(r)
  <2>1. \A b \in BreakIds : [entries[b] EXCEPT !.end = req[r].at] \in Entry
    BY <1>1 DEF TypeInv, TypeOK, Entry, Opt
  <2>2. entries' \in [BreakIds -> Entry]
    BY <1>6, <2>1, Zenon DEF BreakEndWrite, TypeInv, TypeOK
  <2> QED
    BY <1>6, <2>2, ReplyStep DEF BreakEndWrite, TypeInv, TypeOK
<1> QED
  BY <1>3, <1>4, <1>5, <1>6

LEMMA SweepType ==
  ASSUME TypeInv, AutoCheckout
  PROVE  TypeInv'
<1>1. CASE SweepRead
  <2>1. sweep' = {[row |-> i, due |-> AutoCheckoutAt(rows[i].in, rows[i].ot),
                   overtime |-> rows[i].ot # None] : i \in DueRows}
    BY <1>1 DEF SweepRead
  <2>2. ASSUME NEW i \in DueRows
        PROVE  [row |-> i, due |-> AutoCheckoutAt(rows[i].in, rows[i].ot),
                overtime |-> rows[i].ot # None]
                  \in [row : RowIds, due : Time, overtime : BOOLEAN]
    <3>1. i \in RowIds /\ rows[i].in \in Time /\ rows[i].ot \in Opt(Time)
      BY DEF DueRows, TypeInv, TypeOK, Row, Opt
    <3>2. AutoCheckoutAt(rows[i].in, rows[i].ot) \in Time
      BY <3>1, AutoCheckoutType
    <3> QED
      BY <3>1, <3>2
  <2>3. sweep' \subseteq [row : RowIds, due : Time, overtime : BOOLEAN]
    BY <2>1, <2>2, Zenon
  <2> QED
    BY <1>1, <2>3 DEF SweepRead, TypeInv, TypeOK
<1>2. ASSUME NEW s \in sweep, SweepClose(s)
      PROVE  TypeInv'
  <2>1. s.row \in RowIds /\ s.due \in Time
    BY DEF TypeInv, TypeOK
  <2>2. [NoEntry EXCEPT !.row = Gone] \in Entry
    BY Zenon DEF NoEntry, Entry, Opt, Time
  <2>3. \A b \in BreakIds : [entries[b] EXCEPT !.end = s.due] \in Entry
    BY <2>1 DEF TypeInv, TypeOK, Entry, Opt
  <2>4. entries' \in [BreakIds -> Entry]
    BY <1>2, <2>2, <2>3 DEF SweepClose, TypeInv, TypeOK
  <2> DEFINE note == IF s.overtime THEN "autoOvertime" ELSE "auto"
  <2>5. rows' = [rows EXCEPT ![s.row] = [rows[s.row] EXCEPT !.out = s.due, !.note = note]]
    BY <1>2, <2>1, Zenon DEF SweepClose, TypeInv, TypeOK
  <2>6. [rows[s.row] EXCEPT !.out = s.due, !.note = note] \in Row
    <3>1. note \in Notes /\ rows[s.row] \in Row
      BY <2>1 DEF TypeInv, TypeOK, Notes
    <3> HIDE DEF note
    <3> QED
      BY <2>1, <3>1 DEF Row, Opt
  <2>7. rows' \in [RowIds -> Row]
    BY <2>1, <2>5, <2>6 DEF TypeInv, TypeOK
  <2> QED
    BY <1>2, <2>4, <2>7, Zenon DEF SweepClose, TypeInv, TypeOK
<1> QED
  BY <1>1, <1>2 DEF AutoCheckout

LEMMA CutType ==
  ASSUME TypeInv, BreakCutoff
  PROVE  TypeInv'
<1>1. CASE CutRead
  <2>1. cut' = {[entry |-> b, due |-> entries[b].start + Cutoff[entries[b].type]]
                  : b \in Overrun}
    BY <1>1 DEF CutRead
  <2>2. ASSUME NEW b \in Overrun
        PROVE  [entry |-> b, due |-> entries[b].start + Cutoff[entries[b].type]]
                  \in [entry : BreakIds, due : Time]
    <3>1. b \in BreakIds /\ entries[b].start \in Time /\ entries[b].type \in {"BREAK", "BRB"}
      BY DEF Overrun, TypeInv, TypeOK, Entry
    <3>2. entries[b].start + Cutoff[entries[b].type] \in Time
      BY <3>1, Constants DEF Time
    <3> QED
      BY <3>1, <3>2
  <2>3. cut' \subseteq [entry : BreakIds, due : Time]
    BY <2>1, <2>2
  <2> QED
    BY <1>1, <2>3 DEF CutRead, TypeInv, TypeOK
<1>2. ASSUME NEW c \in cut, CutEnd(c)
      PROVE  TypeInv'
  <2>1. c.entry \in BreakIds /\ c.due \in Time
    BY DEF TypeInv, TypeOK
  <2>2. [entries[c.entry] EXCEPT !.end = c.due, !.auto = TRUE] \in Entry
    BY <2>1, Zenon DEF TypeInv, TypeOK, Entry, Opt
  <2>3. \/ entries' = entries
        \/ entries' = [entries EXCEPT ![c.entry] =
                         [entries[c.entry] EXCEPT !.end = c.due, !.auto = TRUE]]
    BY <1>2, <2>1, Zenon DEF CutEnd, TypeInv, TypeOK
  <2>4. entries' \in [BreakIds -> Entry]
    BY <2>1, <2>2, <2>3 DEF TypeInv, TypeOK
  <2> QED
    BY <1>2, <2>4 DEF CutEnd, TypeInv, TypeOK
<1> QED
  BY <1>1, <1>2 DEF BreakCutoff

LEMMA InitType ==
  ASSUME Init
  PROVE  TypeInv
<1>1. NoRequest \in Request /\ ReqOK(NoRequest)
  BY DEF NoRequest, Request, ReqOK, Ops, PCs, Opt, Time
<1>2. NoRow \in Row /\ NoEntry \in Entry
  BY DEF NoRow, Row, NoEntry, Entry, Opt, Notes, Time
<1> QED
  BY <1>1, <1>2 DEF Init, TypeInv, TypeOK, Time

LEMMA NextType ==
  ASSUME TypeInv, [Next]_vars
  PROVE  TypeInv'
<1>1. ASSUME NEW r \in Reqs, NEW op \in Ops, Arrive(r, op) PROVE TypeInv'
  BY <1>1, ArriveType
<1>2. ASSUME NEW r \in Reqs, Handler(r) PROVE TypeInv'
  BY <1>2, CheckInReadType, CheckInClashType, CheckInMoveType, CheckInMergeType,
     CheckInUpsertType, CheckOutType, OvertimeType, BreakType DEF Handler
<1>3. ASSUME NEW z \in Zones, ChangeShift(z) PROVE TypeInv'
  BY <1>3 DEF ChangeShift, TypeInv, TypeOK
<1>4. CASE Crash
  <2>1. NoRequest \in Request /\ ReqOK(NoRequest)
    BY DEF NoRequest, Request, ReqOK, Ops, PCs, Opt, Time
  <2> QED
    BY <1>4, <2>1 DEF Crash, TypeInv, TypeOK
<1>5. CASE Advance
  BY <1>5 DEF Advance, TypeInv, TypeOK, Time
<1>6. CASE UNCHANGED vars
  BY <1>6 DEF vars, TypeInv, TypeOK
<1> QED
  BY <1>1, <1>2, <1>3, <1>4, <1>5, <1>6, SweepType, CutType DEF Next

\* The clock is well typed: rows, breaks and what every handler and job has
\* read of them, for any number of requests, rows, breaks and time zones.
THEOREM TypeCorrect == Spec => []TypeOK
<1>1. Init => TypeInv
  BY InitType
<1>2. TypeInv /\ [Next]_vars => TypeInv'
  BY NextType
<1>3. TypeInv => TypeOK
  BY DEF TypeInv
<1> QED
  BY <1>1, <1>2, <1>3, PTL DEF Spec

(***************************************************************************)
(* Breaks run forward.  A break can only be ended before it began if the   *)
(* moment written was taken before the break was made.  With one request   *)
(* of the employee at a time nobody makes a break behind a handler's back, *)
(* so every moment a handler or a job carries is at least the start of     *)
(* every break it may end: that is what IInv adds.                         *)
(***************************************************************************)
OneRequest == \A r, q \in Reqs : r = q

\* Nothing recorded lies in the future.
PastOnly ==
    /\ \A b \in BreakIds : Exists(b) => entries[b].start <= now
    /\ \A i \in RowIds : rows[i].in <= now

Creators == {"overtime", "breakStart"}

\* A handler's `now` comes after everything recorded and everything it has
\* read, and the handler that may create a break still has an id for it.
Carries(q) ==
    /\ q.at <= now
    /\ \A b \in BreakIds : Exists(b) => entries[b].start <= q.at
    /\ \A i \in RowIds : rows[i].in <= q.at
    /\ q.op \in Creators /\ q.pc \in {"read", "reopen", "create"}
          => FreeEntry # {}
    /\ q.pc = "reopen" => q.out <= q.at
    /\ q.pc \in {"clash", "merge"} => q.in <= q.at
    /\ q.pc = "merge" => q.in2 <= q.at

\* The cut-off job ends a break after its start.
CutForward ==
    \A c \in cut : /\ entries[c.entry].row # None
                   /\ Exists(c.entry) => entries[c.entry].start <= c.due

IInv ==
    /\ TypeInv
    /\ BreaksRunForward
    /\ PastOnly
    /\ \A r \in Reqs : ~Idle(r) => Carries(req[r])
    /\ CutForward

\* What a step may do to one entry: leave it or end it forward (or delete it),
\* or use a free id for a new one.
Kept(b) ==
    /\ entries'[b].row = None <=> entries[b].row = None
    /\ entries'[b].row \in RowIds =>
         /\ Exists(b)
         /\ entries'[b].start = entries[b].start
         /\ entries'[b].end # None => entries[b].start <= entries'[b].end
Added(b) ==
    /\ entries[b].row = None
    /\ entries'[b].start <= now
    /\ entries'[b].end # None => entries'[b].start <= entries'[b].end

LEMMA EntriesForward ==
  ASSUME IInv, now' = now, cut' \subseteq cut,
         \A b \in BreakIds : Kept(b) \/ Added(b)
  PROVE  /\ BreaksRunForward'
         /\ \A b \in BreakIds : Exists(b)' => entries'[b].start <= now'
         /\ CutForward'
<1>1. BreaksRunForward'
  BY DEF BreaksRunForward, Kept, Added, Exists
<1>2. \A b \in BreakIds : Exists(b)' => entries'[b].start <= now'
  BY DEF IInv, PastOnly, Kept, Added, Exists
<1>3. CutForward'
  <2> SUFFICES ASSUME NEW c \in cut'
               PROVE  /\ entries'[c.entry].row # None
                      /\ Exists(c.entry)' => entries'[c.entry].start <= c.due
    BY DEF CutForward
  <2>1. c.entry \in BreakIds
    BY DEF IInv, TypeInv, TypeOK
  <2>2. /\ entries[c.entry].row # None
        /\ Exists(c.entry) => entries[c.entry].start <= c.due
    BY DEF IInv, CutForward
  <2> QED
    BY <2>1, <2>2 DEF Kept, Added, Exists
<1> QED
  BY <1>1, <1>2, <1>3

\* A handler that only reads.
LEMMA ReadForward ==
  ASSUME IInv, TypeInv', Quiet, NEW r \in Reqs, NEW q, Carries(q),
         req' = [req EXCEPT ![r] = q]
  PROVE  IInv'
<1>1. \A p \in Reqs : Idle(p)' \/ Carries(req'[p])
  BY DEF IInv, TypeInv, TypeOK, Idle
<1>2. \A p \in Reqs : Carries(req'[p]) => Carries(req[p])'
  BY DEF Carries, Quiet, Exists, FreeEntry
<1>3. BreaksRunForward' /\ PastOnly' /\ CutForward'
  BY DEF IInv, BreaksRunForward, PastOnly, CutForward, Quiet, Exists
<1> QED
  BY <1>1, <1>2, <1>3 DEF IInv

LEMMA ReplyForward ==
  ASSUME IInv, TypeInv', Quiet, NEW r \in Reqs, Reply(r)
  PROVE  IInv'
<1>1. \A p \in Reqs : Idle(p)' \/ (req'[p] = req[p] /\ ~Idle(p))
  BY DEF IInv, TypeInv, TypeOK, Idle, Reply, NoRequest
<1>2. \A p \in Reqs : Idle(p)' \/ Carries(req[p])'
  BY <1>1 DEF IInv, Carries, Quiet, Exists, FreeEntry
<1>3. BreaksRunForward' /\ PastOnly' /\ CutForward'
  BY DEF IInv, BreaksRunForward, PastOnly, CutForward, Quiet, Exists
<1> QED
  BY <1>2, <1>3 DEF IInv

\* A handler that writes and replies: with one request, no other is in flight.
LEMMA WriteForward ==
  ASSUME OneRequest, IInv, TypeInv', NEW r \in Reqs, Reply(r),
         now' = now, cut' = cut,
         \A b \in BreakIds : Kept(b) \/ Added(b),
         \A i \in RowIds : rows'[i].in <= now
  PROVE  IInv'
<1>1. \A p \in Reqs : Idle(p)'
  BY DEF IInv, TypeInv, TypeOK, Idle, Reply, NoRequest, OneRequest
<1> QED
  BY <1>1, EntriesForward DEF IInv, PastOnly

\* Entries that are left alone.
LEMMA SameEntries ==
  ASSUME IInv, entries' = entries
  PROVE  \A b \in BreakIds : Kept(b)
BY DEF IInv, BreaksRunForward, Kept, Exists

\* breakEntry.create never overwrites an entry while an id is free.
LEMMA AddForward ==
  ASSUME IInv, NEW i \in RowIds, NEW t \in {"BREAK", "BRB", "OFF"}, NEW s \in Time, s <= now,
         NEW e \in Opt(Time), e # None => s <= e, FreeEntry # {}, AddEntry(i, t, s, e)
  PROVE  \A b \in BreakIds : Kept(b) \/ Added(b)
<1>1. FreshEntry \in BreakIds /\ entries[FreshEntry].row = None
  BY DEF FreshEntry, FreeEntry
<1>2. entries' = [entries EXCEPT ![FreshEntry] =
        [row |-> i, type |-> t, start |-> s, end |-> e, auto |-> FALSE]]
  BY DEF AddEntry
<1>3. entries \in [BreakIds -> Entry]
  BY DEF IInv, TypeInv, TypeOK
<1> HIDE DEF FreshEntry
<1>4. \A b \in BreakIds : b # FreshEntry => Kept(b)
  BY <1>2, <1>3 DEF IInv, BreaksRunForward, Kept, Exists
<1>5. Added(FreshEntry)
  BY <1>1, <1>2, <1>3 DEF Added
<1> QED
  BY <1>4, <1>5

LEMMA ArriveForward ==
  ASSUME OneRequest, IInv, TypeInv', NEW r \in Reqs, NEW op \in Ops, Arrive(r, op)
  PROVE  IInv'
<1> DEFINE q == [NoRequest EXCEPT !.op = op, !.pc = "read", !.at = now, !.zone = zone]
<1>1. q.op = op /\ q.pc = "read" /\ q.at = now
  BY DEF NoRequest
<1>2. op \in Creators => FreeEntry # {}
  <2>1. {p \in Reqs : ~Idle(p)} = {}
    BY DEF OneRequest, Arrive
  <2>2. op \in Creators => Cardinality(FreeEntry) > 0
    BY <2>1, FS_EmptySet DEF Arrive, RoomFor, Creators
  <2> QED
    BY <2>2, FS_EmptySet
<1>3. Carries(q)
  <2> HIDE DEF q
  <2>1. now \in Nat
    BY DEF TypeInv, TypeOK, Time, IInv
  <2> QED
    BY <1>1, <1>2, <2>1 DEF Carries, IInv, PastOnly
<1>4. Quiet /\ req' = [req EXCEPT ![r] = q]
  BY DEF Arrive, Quiet
<1> HIDE DEF q
<1> QED
  BY <1>3, <1>4, ReadForward

\* The request in flight carries what it read.
LEMMA Carried ==
  ASSUME IInv, NEW r \in Reqs, ~Idle(r)
  PROVE  /\ Carries(req[r])
         /\ req[r] \in Request /\ ReqOK(req[r]) /\ req[r].at \in Nat /\ now \in Nat
BY DEF IInv, TypeInv, TypeOK, Request, Time

LEMMA CheckInForward ==
  ASSUME OneRequest, IInv, TypeInv', NEW r \in Reqs,
         CheckInRead(r) \/ CheckInClash(r) \/ CheckInMove(r) \/ CheckInUpsert(r)
  PROVE  IInv'
<1>1. req[r].op = "checkIn" /\ ~Idle(r)
  BY DEF CheckInRead, CheckInClash, CheckInMove, CheckInUpsert, At, Idle
<1>2. /\ Carries(req[r])
      /\ req[r] \in Request /\ ReqOK(req[r]) /\ req[r].at \in Nat /\ now \in Nat
  BY <1>1, Carried
<1>3. CASE CheckInRead(r)
  <2> DEFINE e == RowOn(ShiftDay(req[r].zone, now))
             q == [req[r] EXCEPT !.pc = "clash", !.row = e, !.in = rows[e].in,
                                 !.out = rows[e].out]
             u == [req[r] EXCEPT !.pc = "upsert"]
  <2>1. CASE Reply(r)
    BY <1>3, <2>1, ReplyForward DEF CheckInRead, Quiet
  <2>2. CASE HasCheckIn(e) /\ req' = [req EXCEPT ![r].pc = "clash", ![r].row = e,
                                       ![r].in = rows[e].in, ![r].out = rows[e].out]
    <3>1. e \in RowIds
      BY <2>2, RowOnType DEF HasCheckIn, Opt
    <3>2. req' = [req EXCEPT ![r] = q]
      BY <2>2, Zenon DEF IInv, TypeInv, TypeOK
    <3> HIDE DEF e
    <3>3. Carries(q)
      BY <1>1, <1>2, <1>3, <3>1 DEF Carries, CheckInRead, At, Request
    <3> HIDE DEF q
    <3> QED
      BY <1>3, <3>2, <3>3, ReadForward, Zenon DEF CheckInRead, Quiet
  <2>3. CASE req' = [req EXCEPT ![r].pc = "upsert"]
    <3>1. req' = [req EXCEPT ![r] = u]
      BY <2>3
    <3>2. Carries(u)
      BY <1>2 DEF Carries, Request
    <3> HIDE DEF u
    <3> QED
      BY <1>3, <3>1, <3>2, ReadForward, Zenon DEF CheckInRead, Quiet
  <2> QED
    BY <1>3, <2>1, <2>2, <2>3 DEF CheckInRead
<1>4. CASE CheckInClash(r)
  <2> DEFINE c == RowOn(ShiftDay(req[r].zone, req[r].in))
             in2 == IF c = None THEN None ELSE rows[c].in
             out2 == IF c = None THEN None ELSE rows[c].out
             q == [req[r] EXCEPT !.pc = "merge", !.row2 = c, !.in2 = in2, !.out2 = out2]
  <2>1. req' = [req EXCEPT ![r] = q]
    BY <1>4, Zenon DEF CheckInClash, IInv, TypeInv, TypeOK
  <2>2. in2 <= req[r].at
    <3>1. c \in Opt(RowIds)
      BY RowOnType
    <3> HIDE DEF c
    <3> QED
      BY <1>2, <3>1 DEF Carries, Opt, None
  <2>3. Carries(q)
    <3>1. q.pc = "merge" /\ q.op = req[r].op /\ q.at = req[r].at /\ q.in = req[r].in
          /\ q.in2 = in2
      BY <1>2 DEF Request
    <3>2. req[r].pc = "clash"
      BY <1>4 DEF CheckInClash, At
    <3> HIDE DEF q, in2
    <3> QED
      BY <1>2, <2>2, <3>1, <3>2 DEF Carries
  <2> HIDE DEF q
  <2> QED
    BY <1>4, <2>1, <2>3, ReadForward, Zenon DEF CheckInClash, Quiet
<1>5. CASE CheckInMove(r)
  <2> DEFINE u == [req[r] EXCEPT !.pc = "upsert"]
             d == ShiftDay(req[r].zone, req[r].in)
  <2>1. CASE UNCHANGED rows /\ Reply(r)
    BY <1>5, <2>1, ReplyForward DEF CheckInMove, Quiet
  <2>2. CASE /\ rows' = [rows EXCEPT ![req[r].row].date = d]
             /\ req' = [req EXCEPT ![r].pc = "upsert"]
    <3>1. req' = [req EXCEPT ![r] = u]
      BY <2>2
    <3>2. \A i \in RowIds : rows'[i].in = rows[i].in
      BY <2>2 DEF IInv, TypeInv, TypeOK, Row
    <3>3. \A p \in Reqs : Idle(p)' \/ p = r
      BY <1>1, <3>1 DEF OneRequest
    <3>4. entries' = entries /\ now' = now /\ cut' = cut
      BY <1>5 DEF CheckInMove
    <3>5. req'[r] = u /\ Carries(u)'
      <4>1. req'[r] = u
        BY <3>1 DEF IInv, TypeInv, TypeOK
      <4>2. u.at = req[r].at /\ u.pc = "upsert" /\ u.in = req[r].in
        BY <1>2 DEF Request
      <4> QED
        BY <1>2, <3>2, <3>4, <4>1, <4>2 DEF Carries, Exists, FreeEntry
    <3>6. BreaksRunForward' /\ PastOnly' /\ CutForward'
      BY <3>2, <3>4 DEF IInv, BreaksRunForward, PastOnly, CutForward, Exists
    <3> QED
      BY <3>3, <3>5, <3>6, Zenon DEF IInv
  <2> QED
    BY <1>5, <2>1, <2>2 DEF CheckInMove
<1>6. CASE CheckInUpsert(r)
  <2>1. \A i \in RowIds : rows'[i].in <= now
    BY <1>2, <1>6, Zenon DEF CheckInUpsert, IInv, PastOnly, Carries, TypeInv, TypeOK, Row, NoRow
  <2> QED
    BY <1>6, <2>1, WriteForward, SameEntries DEF CheckInUpsert
<1> QED
  BY <1>3, <1>4, <1>5, <1>6

\* A step of the request in flight that ends or moves entries and keeps every
\* check-in in the past of the handler.
LEMMA MoveForward ==
  ASSUME OneRequest, IInv, TypeInv', NEW r \in Reqs, ~Idle(r), NEW pc \in {"upsert", "out"},
         req' = [req EXCEPT ![r].pc = pc], now' = now, cut' = cut,
         \A b \in BreakIds : Kept(b) \/ (Added(b) /\ entries'[b].start <= req[r].at),
         \A i \in RowIds : rows'[i].in <= req[r].at
  PROVE  IInv'
<1>1. /\ Carries(req[r])
      /\ req[r] \in Request /\ req[r].at \in Nat /\ now \in Nat
  BY Carried
<1>2. req'[r].pc = pc /\ req'[r].at = req[r].at
  BY <1>1 DEF IInv, TypeInv, TypeOK, Request
<1>3. BreaksRunForward' /\ (\A b \in BreakIds : Exists(b)' => entries'[b].start <= now')
      /\ CutForward'
  BY EntriesForward
<1>4. \A i \in RowIds : rows'[i].in <= now
  <2>1. \A i \in RowIds : rows'[i].in \in Opt(Time)
    BY DEF TypeInv, TypeOK, Row
  <2>2. req[r].at <= now
    BY <1>1 DEF Carries
  <2> QED
    BY <1>1, <2>1, <2>2 DEF Opt, None, Time
<1>5. PastOnly'
  BY <1>3, <1>4 DEF PastOnly
<1>6. Carries(req[r])'
  <2>1. \A b \in BreakIds : Exists(b)' => entries'[b].start <= req[r].at
    BY <1>1 DEF Carries, Kept, Exists
  <2> QED
    BY <1>1, <1>2, <2>1 DEF Carries
<1>7. \A p \in Reqs : p = r
  BY DEF OneRequest
<1> QED
  BY <1>3, <1>5, <1>6, <1>7 DEF IInv

LEMMA MergeForward ==
  ASSUME OneRequest, IInv, TypeInv', NEW r \in Reqs, CheckInMerge(r)
  PROVE  IInv'
<1> DEFINE q == req[r]
           outs == {q.out, q.out2} \ {None}
           first == Least({q.in, q.in2} \ {None})
           last == IF outs = {} THEN None ELSE Greatest(outs)
           clashFirst == q.in2 # None /\ q.in2 <= q.in
           firstOut == IF clashFirst THEN q.out2 ELSE q.out
           secondIn == IF clashFirst THEN q.in ELSE q.in2
           gap == firstOut # None /\ secondIn # None /\ secondIn > firstOut
           moved == [b \in BreakIds |->
                       IF entries[b].row = q.row
                       THEN [entries[b] EXCEPT !.row = q.row2] ELSE entries[b]]
           fresh == [row |-> q.row2, type |-> "BREAK", start |-> firstOut,
                     end |-> secondIn, auto |-> FALSE]
<1>1. q.op = "checkIn" /\ q.pc = "merge" /\ ~Idle(r) /\ q.row2 # None
  BY Zenon DEF CheckInMerge, At, Idle
<1>2. Carries(q) /\ q \in Request /\ ReqOK(q) /\ q.at \in Nat /\ now \in Nat
  BY <1>1, Carried
<1>3. q.row \in RowIds /\ q.row2 \in RowIds /\ q.in \in Time /\ q.in <= q.at
      /\ q.in2 \in Opt(Time) /\ q.in2 <= q.at /\ q.at <= now
      /\ q.out \in Opt(Time) /\ q.out2 \in Opt(Time)
  BY <1>1, <1>2 DEF ReqOK, Opt, Carries, Request
<1>4. rows' = [rows EXCEPT ![q.row2].in = first, ![q.row2].out = last,
                           ![q.row].in = None, ![q.row].out = None]
  BY Zenon DEF CheckInMerge
<1>5. entries' = IF gap THEN [moved EXCEPT ![FreshEntry] = fresh] ELSE moved
  BY Zenon DEF CheckInMerge
<1>6. first \in Time /\ first <= q.in
  BY <1>3, LeastType
<1>7. \A i \in RowIds : rows'[i].in \in {rows[i].in, first, None}
  <2> HIDE DEF first, last
  <2> QED
    BY <1>3, <1>4, Zenon DEF IInv, TypeInv, TypeOK, Row
<1>8. \A i \in RowIds : rows'[i].in <= q.at
  <2> HIDE DEF first
  <2>1. first <= q.at /\ None <= q.at
    BY <1>2, <1>3, <1>6 DEF Time, None
  <2> QED
    BY <1>2, <1>7, <2>1 DEF Carries
<1>9. gap => FreshEntry \in BreakIds /\ entries[FreshEntry].row = None
  <2>1. gap => FreeEntry # {}
    BY Zenon DEF CheckInMerge
  <2> HIDE DEF gap
  <2> QED
    BY <2>1 DEF FreshEntry, FreeEntry
<1>10. entries \in [BreakIds -> Entry] /\ None \notin RowIds
  BY Constants DEF IInv, TypeInv, TypeOK, None
<1>11. \A b \in BreakIds : moved[b].row \in RowIds \/ moved[b] = entries[b]
  BY <1>3, <1>10 DEF Entry
<1>12. \A b \in BreakIds : /\ moved[b].row = None <=> entries[b].row = None
                           /\ moved[b].row \in RowIds => Exists(b)
                           /\ moved[b].start = entries[b].start
                           /\ moved[b].end = entries[b].end
  <2> TAKE b \in BreakIds
  <2>1. CASE entries[b].row = q.row
    <3>1. moved[b] = [entries[b] EXCEPT !.row = q.row2]
      BY <2>1
    <3>2. moved[b].row = q.row2 /\ moved[b].start = entries[b].start
          /\ moved[b].end = entries[b].end
      BY <3>1, <1>10 DEF Entry
    <3> QED
      BY <2>1, <3>2, <1>1, <1>3, <1>10 DEF Exists
  <2>2. CASE entries[b].row # q.row
    BY <2>2 DEF Exists
  <2> QED
    BY <2>1, <2>2
<1>13. gap => /\ firstOut \in Nat /\ secondIn \in Nat
              /\ firstOut <= secondIn /\ firstOut <= q.at /\ firstOut <= now
  <2>1. gap => firstOut \in Nat /\ secondIn \in Nat /\ secondIn > firstOut
    BY <1>3 DEF Opt, Time
  <2>2. secondIn <= q.at
    BY <1>3
  <2> HIDE DEF firstOut, secondIn
  <2> QED
    BY <2>1, <2>2, <1>2, <1>3
<1>14. ASSUME NEW b \in BreakIds, ~gap \/ b # FreshEntry
       PROVE  Kept(b)
  <2>1. entries'[b] = moved[b]
    <3> HIDE DEF moved, fresh, gap, FreshEntry
    <3>1. DOMAIN moved = BreakIds
      BY DEF moved
    <3> QED
      BY <1>5, <1>14, <3>1
  <2> HIDE DEF moved
  <2> QED
    BY <1>12, <2>1 DEF Kept, IInv, BreaksRunForward, Exists
<1>15. gap => Added(FreshEntry) /\ entries'[FreshEntry].start <= q.at
  <2>1. gap => entries'[FreshEntry] = fresh
    <3> HIDE DEF moved, fresh, gap, FreshEntry
    <3>1. DOMAIN moved = BreakIds
      BY DEF moved
    <3> QED
      BY <1>5, <1>9, <3>1
  <2>2. fresh.start = firstOut /\ fresh.end = secondIn
    OBVIOUS
  <2> HIDE DEF fresh, gap, firstOut, secondIn, FreshEntry
  <2> QED
    BY <1>9, <1>13, <2>1, <2>2 DEF Added
<1>16. \A b \in BreakIds : Kept(b) \/ (Added(b) /\ entries'[b].start <= q.at)
  BY <1>14, <1>15
<1>17. req' = [req EXCEPT ![r].pc = "upsert"] /\ now' = now /\ cut' = cut
  BY Zenon DEF CheckInMerge
<1> HIDE DEF gap
<1> QED
  BY <1>1, <1>8, <1>16, <1>17, MoveForward, Zenon

LEMMA CheckOutForward ==
  ASSUME OneRequest, IInv, TypeInv', NEW r \in Reqs,
         CheckOutRead(r) \/ CheckOutCloseBreaks(r) \/ CheckOutWrite(r)
  PROVE  IInv'
<1>1. ~Idle(r)
  BY DEF CheckOutRead, CheckOutCloseBreaks, CheckOutWrite, At, Idle
<1>2. /\ Carries(req[r])
      /\ req[r] \in Request /\ req[r].at \in Nat /\ now \in Nat
  BY <1>1, Carried
<1>3. CASE CheckOutRead(r)
  <2> DEFINE i == FindCurrent(req[r].zone, req[r].at)
             q == [req[r] EXCEPT !.pc = "close", !.row = i]
  <2>1. CASE Reply(r)
    BY <1>3, <2>1, ReplyForward DEF CheckOutRead, Quiet
  <2>2. CASE req' = [req EXCEPT ![r].pc = "close", ![r].row = i]
    <3>1. req' = [req EXCEPT ![r] = q]
      BY <2>2 DEF IInv, TypeInv, TypeOK
    <3>2. q.at = req[r].at /\ q.pc = "close"
      BY <1>2 DEF Request
    <3> HIDE DEF q
    <3>3. Carries(q)
      BY <1>2, <3>2 DEF Carries
    <3> QED
      BY <1>3, <3>1, <3>3, ReadForward DEF CheckOutRead, Quiet
  <2> QED
    BY <1>3, <2>1, <2>2 DEF CheckOutRead
<1>4. CASE CheckOutCloseBreaks(r)
  <2>1. \A b \in BreakIds : Kept(b)
    BY <1>2, <1>4 DEF CheckOutCloseBreaks, OpenEntries, EntriesOf, Kept, Exists, Carries,
       IInv, BreaksRunForward, TypeInv, TypeOK, Entry
  <2>2. \A i \in RowIds : rows'[i].in <= req[r].at
    BY <1>2, <1>4 DEF CheckOutCloseBreaks, Carries
  <2> QED
    BY <1>1, <1>4, <2>1, <2>2, MoveForward DEF CheckOutCloseBreaks
<1>5. CASE CheckOutWrite(r)
  <2>1. \A i \in RowIds : rows'[i].in <= now
    BY <1>5 DEF CheckOutWrite, IInv, PastOnly, TypeInv, TypeOK, Row
  <2> QED
    BY <1>5, <2>1, WriteForward, SameEntries DEF CheckOutWrite
<1> QED
  BY <1>3, <1>4, <1>5

LEMMA OvertimeForward ==
  ASSUME OneRequest, IInv, TypeInv', NEW r \in Reqs,
         OvertimeRead(r) \/ OvertimeReopen(r) \/ OvertimeStamp(r)
  PROVE  IInv'
<1>1. ~Idle(r)
  BY DEF OvertimeRead, OvertimeReopen, OvertimeStamp, At, Idle
<1>2. /\ Carries(req[r])
      /\ req[r] \in Request /\ ReqOK(req[r]) /\ req[r].at \in Nat /\ now \in Nat
  BY <1>1, Carried
<1>3. CASE OvertimeRead(r)
  <2> DEFINE i == FindCurrent(req[r].zone, req[r].at)
             q == [req[r] EXCEPT !.pc = "reopen", !.row = i, !.out = rows[i].out]
             s == [req[r] EXCEPT !.pc = "stamp", !.row = i]
  <2>1. CASE Reply(r)
    BY <1>3, <2>1, ReplyForward DEF OvertimeRead, Quiet
  <2>2. CASE /\ CanRestartForOvertime(i, req[r].at)
             /\ req' = [req EXCEPT ![r].pc = "reopen", ![r].row = i, ![r].out = rows[i].out]
    <3>1. req' = [req EXCEPT ![r] = q]
      BY <2>2, Zenon DEF IInv, TypeInv, TypeOK
    <3> HIDE DEF i
    <3>2. q.at = req[r].at /\ q.op = req[r].op /\ q.pc = "reopen" /\ q.out = rows[i].out
      BY <1>2 DEF Request
    <3>3. rows[i].out <= req[r].at
      BY <2>2 DEF CanRestartForOvertime
    <3>4. req[r].op \in Creators => FreeEntry # {}
      BY <1>2, <1>3 DEF Carries, OvertimeRead, At
    <3> HIDE DEF q
    <3>5. Carries(q)
      BY <1>2, <3>2, <3>3, <3>4 DEF Carries
    <3> QED
      BY <1>3, <3>1, <3>5, ReadForward, Zenon DEF OvertimeRead, Quiet
  <2>3. CASE req' = [req EXCEPT ![r].pc = "stamp", ![r].row = i]
    <3>1. req' = [req EXCEPT ![r] = s]
      BY <2>3, Zenon DEF IInv, TypeInv, TypeOK
    <3>2. s.at = req[r].at /\ s.pc = "stamp"
      BY <1>2 DEF Request
    <3> HIDE DEF s
    <3>3. Carries(s)
      BY <1>2, <3>2 DEF Carries
    <3> QED
      BY <1>3, <3>1, <3>3, ReadForward, Zenon DEF OvertimeRead, Quiet
  <2> QED
    BY <1>3, <2>1, <2>2, <2>3 DEF OvertimeRead
<1>4. CASE OvertimeReopen(r)
  <2>1. /\ req[r].row \in RowIds /\ req[r].out \in Time
        /\ req[r].out <= req[r].at /\ req[r].at <= now /\ FreeEntry # {}
    BY <1>2, <1>4 DEF OvertimeReopen, At, ReqOK, Carries, Creators
  <2>2. req[r].out <= now
    BY <1>2, <2>1 DEF Time
  <2>3. \A b \in BreakIds : Kept(b) \/ Added(b)
    BY <1>2, <1>4, <2>1, <2>2, AddForward DEF OvertimeReopen, Opt, Time
  <2>4. \A i \in RowIds : rows'[i].in <= now
    BY <1>4 DEF OvertimeReopen, IInv, PastOnly, TypeInv, TypeOK, Row
  <2> QED
    BY <1>4, <2>3, <2>4, WriteForward, Zenon DEF OvertimeReopen
<1>5. CASE OvertimeStamp(r)
  <2>1. \A i \in RowIds : rows'[i].in <= now
    BY <1>5 DEF OvertimeStamp, IInv, PastOnly, TypeInv, TypeOK, Row
  <2> QED
    BY <1>5, <2>1, WriteForward, SameEntries DEF OvertimeStamp
<1> QED
  BY <1>3, <1>4, <1>5

LEMMA BreakForward ==
  ASSUME OneRequest, IInv, TypeInv', NEW r \in Reqs,
         BreakStartRead(r) \/ BreakStartCreate(r) \/ BreakEndRead(r) \/ BreakEndWrite(r)
  PROVE  IInv'
<1>1. ~Idle(r)
  BY DEF BreakStartRead, BreakStartCreate, BreakEndRead, BreakEndWrite, At, Idle
<1>2. /\ Carries(req[r])
      /\ req[r] \in Request /\ ReqOK(req[r]) /\ req[r].at \in Nat /\ now \in Nat
  BY <1>1, Carried
<1> DEFINE i == FindCurrent(req[r].zone, req[r].at)
<1>3. CASE BreakStartRead(r)
  <2> DEFINE q == [req[r] EXCEPT !.pc = "create", !.row = i]
  <2>1. CASE Reply(r)
    BY <1>3, <2>1, ReplyForward DEF BreakStartRead, Quiet
  <2>2. CASE req' = [req EXCEPT ![r].pc = "create", ![r].row = i]
    <3>1. req' = [req EXCEPT ![r] = q]
      BY <2>2, Zenon DEF IInv, TypeInv, TypeOK
    <3>2. q.at = req[r].at /\ q.op = req[r].op /\ q.pc = "create"
      BY <1>2 DEF Request
    <3>3. req[r].op \in Creators => FreeEntry # {}
      BY <1>2, <1>3 DEF Carries, BreakStartRead, At
    <3> HIDE DEF q
    <3>4. Carries(q)
      BY <1>2, <3>2, <3>3 DEF Carries
    <3> QED
      BY <1>3, <3>1, <3>4, ReadForward, Zenon DEF BreakStartRead, Quiet
  <2> QED
    BY <1>3, <2>1, <2>2 DEF BreakStartRead
<1>4. CASE BreakStartCreate(r)
  <2>1. req[r].row \in RowIds /\ req[r].at <= now /\ FreeEntry # {} /\ req[r].at \in Time
    BY <1>2, <1>4 DEF BreakStartCreate, At, ReqOK, Carries, Creators, Time
  <2>2. PICK type \in {"BREAK", "BRB"} : AddEntry(req[r].row, type, req[r].at, None)
    BY <1>4 DEF BreakStartCreate
  <2>3. \A b \in BreakIds : Kept(b) \/ Added(b)
    BY <2>1, <2>2, AddForward DEF Opt
  <2>4. \A j \in RowIds : rows'[j].in <= now
    BY <1>4 DEF BreakStartCreate, IInv, PastOnly
  <2> QED
    BY <1>4, <2>3, <2>4, WriteForward DEF BreakStartCreate
<1>5. CASE BreakEndRead(r)
  <2>1. CASE Reply(r)
    BY <1>5, <2>1, ReplyForward DEF BreakEndRead, Quiet
  <2>2. CASE ~Reply(r)
    <3>1. PICK b \in OpenEntries(i) :
             req' = [req EXCEPT ![r].pc = "end", ![r].row = i, ![r].row2 = b]
      BY <1>5, <2>2 DEF BreakEndRead
    <3> DEFINE q == [req[r] EXCEPT !.pc = "end", !.row = i, !.row2 = b]
    <3>2. req' = [req EXCEPT ![r] = q]
      BY <3>1, Zenon DEF IInv, TypeInv, TypeOK
    <3>3. q.at = req[r].at /\ q.pc = "end"
      BY <1>2 DEF Request
    <3> HIDE DEF q
    <3>4. Carries(q)
      BY <1>2, <3>3 DEF Carries
    <3> QED
      BY <1>5, <3>2, <3>4, ReadForward, Zenon DEF BreakEndRead, Quiet
  <2> QED
    BY <2>1, <2>2
<1>6. CASE BreakEndWrite(r)
  <2>1. \A b \in BreakIds : Kept(b)
    BY <1>2, <1>6 DEF BreakEndWrite, Kept, Exists, Carries,
       IInv, BreaksRunForward, TypeInv, TypeOK, Entry
  <2>2. \A j \in RowIds : rows'[j].in <= now
    BY <1>6 DEF BreakEndWrite, IInv, PastOnly
  <2> QED
    BY <1>6, <2>1, <2>2, WriteForward DEF BreakEndWrite
<1> QED
  BY <1>3, <1>4, <1>5, <1>6

\* A job runs beside the handlers: it ends entries and leaves check-ins alone.
LEMMA JobForward ==
  ASSUME IInv, TypeInv', req' = req, now' = now, cut' \subseteq cut,
         \A b \in BreakIds : Kept(b),
         \A i \in RowIds : rows'[i].in = rows[i].in
  PROVE  IInv'
<1>1. BreaksRunForward' /\ (\A b \in BreakIds : Exists(b)' => entries'[b].start <= now')
      /\ CutForward'
  BY EntriesForward
<1>2. PastOnly'
  BY <1>1 DEF PastOnly, IInv
<1>3. FreeEntry' = FreeEntry
  BY DEF FreeEntry, Kept
<1>4. ASSUME NEW r \in Reqs, ~Idle(r)'
      PROVE  Carries(req[r])'
  <2>1. Carries(req[r])
    BY <1>4 DEF IInv, Idle
  <2>2. \A b \in BreakIds : Exists(b)' => entries'[b].start <= req[r].at
    BY <2>1 DEF Carries, Kept, Exists
  <2> QED
    BY <1>3, <2>1, <2>2 DEF Carries
<1> QED
  BY <1>1, <1>2, <1>4 DEF IInv

LEMMA SweepForward ==
  ASSUME IInv, TypeInv', AutoCheckout
  PROVE  IInv'
<1>1. CASE SweepRead
  BY <1>1, JobForward, SameEntries DEF SweepRead
<1>2. ASSUME NEW s \in sweep, SweepClose(s)
      PROVE  IInv'
  <2>1. s.row \in RowIds /\ s.due \in Time
    BY DEF IInv, TypeInv, TypeOK
  <2>2. \A i \in RowIds : rows'[i].in = rows[i].in
    BY <1>2, <2>1 DEF SweepClose, IInv, TypeInv, TypeOK, Row
  <2>3. ASSUME NEW b \in BreakIds
        PROVE  Kept(b)
    <3>1. entries[b] \in Entry /\ Gone \notin RowIds /\ None \notin RowIds /\ Gone # None
      BY Constants DEF IInv, TypeInv, TypeOK, Gone, None
    <3>2. CASE b \notin OpenEntries(s.row)
      <4>1. entries'[b] = entries[b]
        BY <1>2, <3>2 DEF SweepClose
      <4> QED
        BY <4>1 DEF Kept, IInv, BreaksRunForward, Exists
    <3>3. CASE b \in OpenEntries(s.row) /\ entries[b].start < s.due
      <4>1. entries'[b] = [entries[b] EXCEPT !.end = s.due]
        BY <1>2, <3>3 DEF SweepClose
      <4>2. entries'[b].row = entries[b].row /\ entries'[b].start = entries[b].start
            /\ entries'[b].end = s.due
        BY <3>1, <4>1 DEF Entry
      <4>3. entries[b].start \in Nat
        BY <3>1 DEF Entry, Time
      <4> QED
        BY <2>1, <3>3, <4>2, <4>3 DEF Kept, Exists, Time
    <3>4. CASE b \in OpenEntries(s.row) /\ ~(entries[b].start < s.due)
      <4>1. entries'[b] = [NoEntry EXCEPT !.row = Gone]
        BY <1>2, <3>4 DEF SweepClose
      <4>2. entries'[b].row = Gone
        BY <4>1 DEF NoEntry
      <4>3. entries[b].row = s.row
        BY <3>4 DEF OpenEntries, EntriesOf
      <4> QED
        BY <2>1, <3>1, <4>2, <4>3 DEF Kept
    <3> QED
      BY <3>2, <3>3, <3>4
  <2> QED
    BY <1>2, <2>2, <2>3, JobForward DEF SweepClose
<1> QED
  BY <1>1, <1>2 DEF AutoCheckout

LEMMA CutReadForward ==
  ASSUME IInv, TypeInv', CutRead
  PROVE  IInv'
<1>1. ASSUME NEW c \in cut'
      PROVE  /\ entries[c.entry].row # None
             /\ entries[c.entry].start <= c.due
  <2>1. PICK b \in Overrun :
          c = [entry |-> b, due |-> entries[b].start + Cutoff[entries[b].type]]
    BY <1>1 DEF CutRead
  <2>2. b \in BreakIds /\ Exists(b) /\ entries[b].start \in Nat
        /\ entries[b].type \in {"BREAK", "BRB"}
    BY DEF Overrun, IInv, TypeInv, TypeOK, Entry, Time
  <2>3. entries[b].start <= entries[b].start + Cutoff[entries[b].type]
    BY <2>2, Constants
  <2>4. c.entry = b /\ c.due = entries[b].start + Cutoff[entries[b].type]
    BY <2>1
  <2> QED
    BY <2>2, <2>3, <2>4, Constants DEF Exists, None
<1>2. rows' = rows /\ entries' = entries /\ req' = req /\ now' = now
  BY DEF CutRead
<1>3. CutForward'
  BY <1>1, <1>2 DEF CutForward
<1>4. \A r \in Reqs : Idle(r)' \/ Carries(req[r])'
  BY <1>2 DEF IInv, Carries, Exists, FreeEntry, Idle
<1>5. BreaksRunForward' /\ PastOnly'
  BY <1>2 DEF IInv, BreaksRunForward, PastOnly, Exists
<1> QED
  BY <1>3, <1>4, <1>5 DEF IInv

LEMMA CutForwardStep ==
  ASSUME IInv, TypeInv', BreakCutoff
  PROVE  IInv'
<1>1. ASSUME NEW c \in cut, CutEnd(c)
      PROVE  IInv'
  <2>1. c.entry \in BreakIds /\ c.due \in Time
    BY DEF IInv, TypeInv, TypeOK
  <2>2. Exists(c.entry) => entries[c.entry].start <= c.due
    BY DEF IInv, CutForward
  <2>3. \/ entries' = entries
        \/ /\ Exists(c.entry)
           /\ entries' = [entries EXCEPT ![c.entry] =
                            [entries[c.entry] EXCEPT !.end = c.due, !.auto = TRUE]]
    BY <1>1, <2>1 DEF CutEnd, IInv, TypeInv, TypeOK
  <2>4. CASE entries' = entries
    BY <1>1, <2>4, SameEntries, JobForward DEF CutEnd
  <2>5. CASE /\ Exists(c.entry)
             /\ entries' = [entries EXCEPT ![c.entry] =
                              [entries[c.entry] EXCEPT !.end = c.due, !.auto = TRUE]]
    <3>1. \A b \in BreakIds : Kept(b)
      BY <2>1, <2>2, <2>5 DEF Kept, Exists, IInv, BreaksRunForward, TypeInv, TypeOK, Entry
    <3> QED
      BY <1>1, <3>1, JobForward DEF CutEnd
  <2> QED
    BY <2>3, <2>4, <2>5
<1> QED
  BY <1>1, CutReadForward DEF BreakCutoff

LEMMA AdvanceForward ==
  ASSUME IInv, TypeInv', Advance
  PROVE  IInv'
<1>1. now \in Nat /\ now' = now + 1 /\ rows' = rows /\ entries' = entries /\ req' = req
      /\ cut' = cut
  BY DEF Advance, IInv, TypeInv, TypeOK, Time
<1>2. PastOnly'
  <2>1. \A i \in RowIds : rows[i].in \in Opt(Time) /\ rows[i].in <= now
    BY DEF IInv, PastOnly, TypeInv, TypeOK, Row
  <2>2. \A i \in RowIds : rows[i].in <= now + 1
    BY <1>1, <2>1 DEF Opt, None, Time
  <2>3. \A b \in BreakIds : entries[b].start \in Nat
    BY DEF IInv, TypeInv, TypeOK, Entry, Time
  <2>4. \A b \in BreakIds : Exists(b) => entries[b].start <= now + 1
    BY <1>1, <2>3 DEF IInv, PastOnly
  <2> QED
    BY <1>1, <2>2, <2>4 DEF PastOnly, Exists
<1>3. ASSUME NEW r \in Reqs, ~Idle(r)'
      PROVE  Carries(req[r])'
  <2>1. Carries(req[r]) /\ req[r].at \in Nat
    BY <1>1, <1>3 DEF IInv, Idle, TypeInv, TypeOK, Request, Time
  <2>2. req[r].at <= now + 1
    BY <1>1, <2>1 DEF Carries
  <2> QED
    BY <1>1, <2>1, <2>2 DEF Carries, Exists, FreeEntry
<1>4. BreaksRunForward' /\ CutForward'
  BY <1>1 DEF IInv, BreaksRunForward, CutForward, Exists
<1> QED
  BY <1>2, <1>3, <1>4 DEF IInv

LEMMA RestForward ==
  ASSUME IInv, TypeInv', Crash \/ (\E z \in Zones : ChangeShift(z)) \/ UNCHANGED vars
  PROVE  IInv'
<1>1. rows' = rows /\ entries' = entries /\ now' = now /\ cut' \subseteq cut
  BY DEF Crash, ChangeShift, vars
<1>2. \A r \in Reqs : Idle(r)' \/ (req'[r] = req[r] /\ ~Idle(r))
  BY DEF Crash, ChangeShift, vars, Idle, NoRequest
<1>3. \A r \in Reqs : Idle(r)' \/ Carries(req[r])'
  BY <1>1, <1>2 DEF IInv, Carries, Exists, FreeEntry
<1>4. BreaksRunForward' /\ PastOnly' /\ CutForward'
  BY <1>1 DEF IInv, BreaksRunForward, PastOnly, CutForward, Exists
<1> QED
  BY <1>3, <1>4 DEF IInv

LEMMA InitForward == Init => IInv
<1> SUFFICES ASSUME Init PROVE IInv
  OBVIOUS
<1>1. TypeInv
  BY InitType
<1>2. \A b \in BreakIds : ~Exists(b)
  BY Constants DEF Init, Exists, NoEntry, None
<1>3. PastOnly
  BY <1>2 DEF Init, PastOnly, NoRow, None
<1>4. \A r \in Reqs : Idle(r)
  BY DEF Init, Idle, NoRequest
<1> QED
  BY <1>1, <1>2, <1>3, <1>4 DEF IInv, BreaksRunForward, CutForward, Init

LEMMA NextForward ==
  ASSUME OneRequest, IInv, [Next]_vars
  PROVE  IInv'
<1>1. TypeInv'
  BY NextType DEF IInv
<1>2. ASSUME NEW r \in Reqs, NEW op \in Ops, Arrive(r, op) PROVE IInv'
  BY <1>1, <1>2, ArriveForward
<1>3. ASSUME NEW r \in Reqs, Handler(r) PROVE IInv'
  BY <1>1, <1>3, CheckInForward, MergeForward, CheckOutForward, OvertimeForward,
     BreakForward DEF Handler
<1> QED
  BY <1>1, <1>2, <1>3, SweepForward, CutForwardStep, AdvanceForward, RestForward DEF Next

\* Whatever the two jobs, a restart, a change of shift and one request at a
\* time write over each other, no break ends before it began: for any number
\* of rows, breaks, time zones, any limits and any latency.
THEOREM BreaksAlwaysForward ==
  ASSUME OneRequest
  PROVE  Spec => []BreaksRunForward
<1>1. Init => IInv
  BY InitForward
<1>2. IInv /\ [Next]_vars => IInv'
  BY NextForward
<1>3. IInv => BreaksRunForward
  BY DEF IInv
<1> QED
  BY <1>1, <1>2, <1>3, PTL DEF Spec

(***************************************************************************)
(* Days and breaks.  A handler decides from a read what it writes later:   *)
(* that the day of a check-in is free, that the two days it folds are two  *)
(* and still hold the check-ins it read, that no break runs on the day it  *)
(* starts one on.  With one request at a time only the jobs write in       *)
(* between, and no job moves a day, a check-in or a break: FindsDays keeps *)
(* what was read true until it is used.                                    *)
(***************************************************************************)
\* The database's unique index, and a check-in only on a row that exists.
OneDate ==
    /\ \A i, j \in RowIds : rows[i].date # None /\ rows[i].date = rows[j].date => i = j
    /\ \A i \in RowIds : rows[i].in # None => rows[i].date # None

\* The day a break is about to start on.
FindsBreak(q) ==
    /\ q.pc \in {"create", "reopen"} => rows[q.row].in # None
    /\ q.pc = "create" => OpenEntries(q.row) = {}

\* The session of another day that stands on today's date.
FindsSession(q) ==
    q.pc \in {"clash", "merge"} =>
        /\ rows[q.row].in = q.in
        /\ rows[q.row].date # None
        /\ rows[q.row].date # ShiftDay(q.zone, q.in)
        /\ ShiftDay(q.zone, q.in) # ShiftDay(q.zone, q.at)
        /\ Straddles(q) \/ rows[q.row].date = ShiftDay(q.zone, q.at)

\* The day that session belongs to.
FindsProper(q) ==
    q.pc = "merge" /\ q.row2 # None =>
        /\ q.row2 # q.row
        /\ rows[q.row2].in = q.in2
        /\ rows[q.row2].date # None
        /\ rows[q.row2].date # ShiftDay(q.zone, q.at)

\* The day of the check-in is free when it is written.
FindsFree(q) ==
    q.pc = "upsert" =>
        Straddles(q) \/ \A i \in RowIds : rows[i].date = ShiftDay(q.zone, q.at)
                                            => rows[i].in = None

Finds(q) == FindsBreak(q) /\ FindsSession(q) /\ FindsProper(q) /\ FindsFree(q)

DayInv ==
    /\ IInv
    /\ OneDate
    /\ BreaksHaveSession
    /\ \A r \in Reqs : ~Idle(r) => Finds(req[r])

\* The two action properties, for one step.
NoBreakBeside ==
    \A b, c \in BreakIds :
        b # c /\ Running(b)' /\ Running(c)' /\ entries'[b].row = entries'[c].row
            => Running(b) /\ Running(c)

CheckInsKept ==
    \A i \in RowIds : rows[i].in # None =>
        \/ rows'[i].in = rows[i].in
        \/ \E j \in RowIds \ {i} :
             {rows'[i].in, rows'[j].in} = {None, Least({rows[i].in, rows[j].in} \ {None})}
        \/ \E r \in Reqs : Straddles(req[r]) /\ CheckInUpsert(r)

\* A later moment is not on an earlier date.
LEMMA DivMonotone ==
  ASSUME NEW a \in Nat, NEW b \in Nat, NEW d \in Nat, d > 0, a <= b
  PROVE  a \div d <= b \div d
<1> DEFINE qa == a \div d
           qb == b \div d
<1>1. qa \in Nat /\ qb \in Nat
  OBVIOUS
<1>2. d * qa <= a /\ b < d * qb + d
  OBVIOUS
<1> HIDE DEF qa, qb
<1>3. ASSUME qa > qb PROVE FALSE
  <2>1. PICK k \in Nat : qa = qb + 1 + k
    <3>1. qa - qb - 1 \in Nat
      BY <1>1, <1>3
    <3> QED
      BY <1>1, <3>1
  <2>2. d * qa = d * qb + d + d * k /\ d * k \in Nat /\ d * qb \in Nat
    BY <1>1, <2>1
  <2> QED
    BY <1>2, <2>2
<1> QED
  BY <1>1, <1>3 DEF qa, qb

LEMMA LaterDay ==
  ASSUME NEW z \in Nat, NEW s \in Nat, NEW t \in Nat, s <= t
  PROVE  /\ ShiftDay(z, s) \in Nat /\ ShiftDay(z, t) \in Nat
         /\ ShiftDay(z, s) <= ShiftDay(z, t)
<1>1. (s + z) \div DayLen <= (t + z) \div DayLen
  BY Constants, DivMonotone
<1>2. (s + z) \div DayLen \in Nat /\ (t + z) \div DayLen \in Nat
  BY Constants
<1> QED
  BY <1>1, <1>2 DEF ShiftDay

\* A step that moves no day, no check-in and no break, and starts none.
Mild ==
    /\ \A i \in RowIds : rows'[i].in = rows[i].in /\ rows'[i].date = rows[i].date
    /\ \A b \in BreakIds : Exists(b)' => Exists(b) /\ entries'[b].row = entries[b].row
    /\ \A b \in BreakIds : Running(b)' => Running(b)

LEMMA MildStep ==
  ASSUME DayInv, Mild
  PROVE  OneDate' /\ BreaksHaveSession' /\ NoBreakBeside /\ CheckInsKept
<1>1. OneDate'
  BY DEF DayInv, OneDate, Mild
<1>2. BreaksHaveSession'
  BY DEF DayInv, BreaksHaveSession, Mild, Exists
<1>3. NoBreakBeside
  BY DEF Mild, NoBreakBeside
<1>4. CheckInsKept
  BY DEF Mild, CheckInsKept
<1> QED
  BY <1>1, <1>2, <1>3, <1>4

\* What a request has found stays true in such a step, also while time passes.
LEMMA FindsStays ==
  ASSUME DayInv, Mild, NEW q \in Request, ReqOK(q), Finds(q), q.at <= now,
         now' = now \/ now' = now + 1
  PROVE  Finds(q)'
<1>1. q.zone \in Nat /\ q.at \in Nat /\ now \in Nat
  BY DEF Request, DayInv, IInv, TypeInv, TypeOK, Time
<1>2. now' \in Nat /\ now <= now'
  BY <1>1
<1>3. Straddles(q) => Straddles(q)'
  <2>1. ShiftDay(q.zone, q.at) <= ShiftDay(q.zone, now)
    BY <1>1, LaterDay
  <2>2. ShiftDay(q.zone, now) <= ShiftDay(q.zone, now')
    <3>1. PICK t \in Nat : t = now'
      BY <1>2
    <3>2. ShiftDay(q.zone, now) <= ShiftDay(q.zone, t)
      BY <1>1, <1>2, <3>1, LaterDay
    <3> QED
      BY <3>1, <3>2
  <2>4. ShiftDay(q.zone, q.at) \in Nat /\ ShiftDay(q.zone, now) \in Nat
        /\ ShiftDay(q.zone, now') \in Nat
    BY <1>1, <1>2, ShiftDayType DEF Time
  <2>3. ShiftDay(q.zone, q.at) # ShiftDay(q.zone, now)
          => ShiftDay(q.zone, q.at) # ShiftDay(q.zone, now')
    BY <2>1, <2>2, <2>4
  <2> QED
    BY <2>3 DEF Straddles
<1>4. FindsBreak(q)'
  <2>1. q.pc \in {"create", "reopen"} => q.row \in RowIds
    BY DEF ReqOK
  <2>2. OpenEntries(q.row) = {} /\ q.row \in RowIds => OpenEntries(q.row)' = {}
    BY DEF Mild, OpenEntries, EntriesOf, Running, Exists
  <2> QED
    BY <2>1, <2>2 DEF Finds, FindsBreak, Mild
<1>5. FindsSession(q)'
  BY <1>3 DEF Finds, FindsSession, Mild, ReqOK
<1>6. FindsProper(q)'
  BY DEF Finds, FindsProper, Mild, ReqOK, Opt
<1>7. FindsFree(q)'
  BY <1>3 DEF Finds, FindsFree, Mild
<1> QED
  BY <1>4, <1>5, <1>6, <1>7 DEF Finds

\* A request that has found nothing yet, or has used what it found.
FindsNothing == {"read", "close", "out", "stamp", "end"}

LEMMA MildMove ==
  ASSUME DayInv, IInv', Mild, now' = now \/ now' = now + 1,
         \A p \in Reqs : \/ Idle(p)'
                         \/ req'[p] = req[p] /\ ~Idle(p)
                         \/ req'[p].pc \in FindsNothing
  PROVE  DayInv' /\ NoBreakBeside /\ CheckInsKept
<1>1. OneDate' /\ BreaksHaveSession' /\ NoBreakBeside /\ CheckInsKept
  BY MildStep
<1>2. ASSUME NEW p \in Reqs, ~Idle(p)'
      PROVE  Finds(req[p])'
  <2>1. CASE req'[p] = req[p] /\ ~Idle(p)
    <3>1. PICK q \in Request : q = req[p]
      BY DEF DayInv, IInv, TypeInv, TypeOK
    <3>2. ReqOK(q) /\ Finds(q) /\ q.at <= now
      BY <2>1, <3>1 DEF DayInv, IInv, TypeInv, Carries
    <3>3. Finds(q)'
      BY <3>2, FindsStays
    <3> QED
      BY <2>1, <3>1, <3>3 DEF Finds, FindsBreak, FindsSession, FindsProper, FindsFree, Straddles
  <2>2. CASE req'[p].pc \in FindsNothing
    BY <2>2 DEF FindsNothing, Finds, FindsBreak, FindsSession, FindsProper, FindsFree
  <2> QED
    BY <1>2, <2>1, <2>2
<1> QED
  BY <1>1, <1>2 DEF DayInv

\* A request that only reads, and one that has found something.
LEMMA QuietMild ==
  ASSUME Quiet
  PROVE  Mild /\ now' = now
BY DEF Quiet, Mild, Exists, Running

LEMMA ReadFinds ==
  ASSUME OneRequest, DayInv, IInv', Quiet, NEW r \in Reqs, NEW q, Finds(q),
         req' = [req EXCEPT ![r] = q]
  PROVE  DayInv' /\ NoBreakBeside /\ CheckInsKept
<1>1. OneDate' /\ BreaksHaveSession' /\ NoBreakBeside /\ CheckInsKept
  BY MildStep, QuietMild
<1>2. Finds(q)'
  BY DEF Quiet, Finds, FindsBreak, FindsSession, FindsProper, FindsFree, Straddles,
     OpenEntries, EntriesOf
<1>3. ASSUME NEW p \in Reqs PROVE Finds(req[p])'
  <2>1. req'[p] = q
    BY DEF OneRequest, DayInv, IInv, TypeInv, TypeOK
  <2> QED
    BY <1>2, <2>1 DEF Finds, FindsBreak, FindsSession, FindsProper, FindsFree, Straddles
<1> QED
  BY <1>1, <1>3 DEF DayInv

LEMMA ReplyMild ==
  ASSUME OneRequest, NEW r \in Reqs, DayInv, Reply(r)
  PROVE  \A p \in Reqs : Idle(p)'
BY DEF OneRequest, DayInv, IInv, TypeInv, TypeOK, Idle, Reply, NoRequest

\* A request that goes on without having found anything.
LEMMA GoOn ==
  ASSUME OneRequest, NEW r \in Reqs, DayInv, NEW q, q.pc \in FindsNothing,
         req' = [req EXCEPT ![r] = q]
  PROVE  \A p \in Reqs : req'[p].pc \in FindsNothing
BY DEF OneRequest, DayInv, IInv, TypeInv, TypeOK

\* A query for a date finds the row of that date, if there is one.
LEMMA RowOnFinds ==
  ASSUME NEW d, RowOn(d) # None
  PROVE  RowOn(d) \in RowIds /\ rows[RowOn(d)].date = d
BY DEF RowOn

LEMMA RowOnMisses ==
  ASSUME NEW d, RowOn(d) = None
  PROVE  \A i \in RowIds : rows[i].date # d
BY Constants DEF RowOn, None

LEMMA FindCurrentHas ==
  ASSUME TypeOK, NEW z, NEW t, HasCheckIn(FindCurrent(z, t))
  PROVE  FindCurrent(z, t) \in RowIds /\ rows[FindCurrent(z, t)].in # None
BY FindCurrentType DEF HasCheckIn, Opt

\* --- the steps that only read
LEMMA CheckInReadDays ==
  ASSUME OneRequest, DayInv, IInv', NEW r \in Reqs, CheckInRead(r)
  PROVE  DayInv' /\ NoBreakBeside /\ CheckInsKept
<1> DEFINE today == ShiftDay(req[r].zone, req[r].at)
           e == RowOn(ShiftDay(req[r].zone, now))
           q == [req[r] EXCEPT !.pc = "clash", !.row = e, !.in = rows[e].in,
                               !.out = rows[e].out]
           u == [req[r] EXCEPT !.pc = "upsert"]
<1>1. Quiet
  BY DEF CheckInRead, Quiet
<1>2. ~Idle(r) /\ req[r] \in Request /\ req[r].at \in Nat /\ req[r].zone \in Nat /\ now \in Nat
      /\ req[r].at <= now /\ \A i \in RowIds : rows[i].in <= req[r].at
  BY Carried DEF CheckInRead, At, Idle, DayInv, Carries, Request
<1>3. CASE Reply(r)
  BY <1>1, <1>3, MildMove, QuietMild, ReplyMild
<1>4. CASE /\ HasCheckIn(e) /\ ShiftDay(req[r].zone, rows[e].in) # today
           /\ req' = [req EXCEPT ![r].pc = "clash", ![r].row = e,
                                 ![r].in = rows[e].in, ![r].out = rows[e].out]
  <2>1. e \in RowIds /\ rows[e].date = ShiftDay(req[r].zone, now) /\ rows[e].in \in Nat
    BY <1>4, RowOnFinds DEF HasCheckIn, DayInv, IInv, TypeInv, TypeOK, Row, Opt, Time
  <2>2. rows[e].in <= req[r].at
    BY <1>2, <2>1
  <2>3. /\ ShiftDay(req[r].zone, rows[e].in) <= today
        /\ today <= ShiftDay(req[r].zone, now)
        /\ ShiftDay(req[r].zone, rows[e].in) \in Nat /\ today \in Nat
        /\ ShiftDay(req[r].zone, now) \in Nat
    BY <1>2, <2>1, <2>2, LaterDay
  <2>4. rows[e].date # ShiftDay(req[r].zone, rows[e].in) /\ rows[e].date # None
    <3> HIDE DEF today, e
    <3> QED
      BY <1>4, <2>1, <2>3 DEF None
  <2>5. q.pc = "clash" /\ q.row = e /\ q.in = rows[e].in /\ q.zone = req[r].zone
        /\ q.at = req[r].at
    BY <1>2 DEF Request
  <2>6. req' = [req EXCEPT ![r] = q]
    BY <1>4, Zenon DEF DayInv, IInv, TypeInv, TypeOK
  <2> HIDE DEF q, e
  <2>7. Finds(q)
    <3>1. FindsSession(q)
      BY <1>4, <2>1, <2>4, <2>5 DEF FindsSession, Straddles
    <3> QED
      BY <2>5, <3>1 DEF Finds, FindsBreak, FindsProper, FindsFree
  <2> QED
    BY <1>1, <2>6, <2>7, ReadFinds
<1>5. CASE ~HasCheckIn(e) /\ req' = [req EXCEPT ![r].pc = "upsert"]
  <2>1. u.pc = "upsert" /\ u.zone = req[r].zone /\ u.at = req[r].at
    BY <1>2 DEF Request
  <2>2. req' = [req EXCEPT ![r] = u]
    BY <1>5, Zenon DEF DayInv, IInv, TypeInv, TypeOK
  <2> HIDE DEF u
  <2>3. ASSUME ~Straddles(u), NEW i \in RowIds, rows[i].date = today
        PROVE  rows[i].in = None
    <3>1. e # None
      BY <2>1, <2>3, RowOnMisses DEF Straddles
    <3>2. e \in RowIds /\ rows[e].date = today
      BY <2>1, <2>3, <3>1, RowOnFinds DEF Straddles
    <3>3. i = e
      <4>1. today \in Nat
        BY <1>2, LaterDay
      <4>2. today # None
        BY <4>1 DEF None
      <4> QED
        BY <2>3, <3>2, <4>2 DEF DayInv, OneDate
    <3> QED
      BY <1>5, <3>1, <3>3 DEF HasCheckIn
  <2>4. Finds(u)
    BY <2>1, <2>3 DEF Finds, FindsBreak, FindsSession, FindsProper, FindsFree
  <2> QED
    BY <1>1, <2>2, <2>4, ReadFinds
<1> QED
  BY <1>3, <1>4, <1>5 DEF CheckInRead

LEMMA CheckInClashDays ==
  ASSUME OneRequest, DayInv, IInv', NEW r \in Reqs, CheckInClash(r)
  PROVE  DayInv' /\ NoBreakBeside /\ CheckInsKept
<1> DEFINE proper == ShiftDay(req[r].zone, req[r].in)
           c == RowOn(proper)
           in2 == IF c = None THEN None ELSE rows[c].in
           out2 == IF c = None THEN None ELSE rows[c].out
           q == [req[r] EXCEPT !.pc = "merge", !.row2 = c, !.in2 = in2, !.out2 = out2]
<1>1. Quiet
  BY DEF CheckInClash, Quiet
<1>2. ~Idle(r) /\ req[r].pc = "clash"
  BY DEF CheckInClash, At, Idle
<1>3. req[r] \in Request /\ Finds(req[r]) /\ ReqOK(req[r])
  BY <1>2, Carried DEF DayInv
<1>4. req[r].in \in Nat /\ req[r].zone \in Nat
  BY <1>2, <1>3 DEF ReqOK, Time, Request
<1>5. proper \in Nat
  BY <1>4, ShiftDayType DEF Time
<1>6. req' = [req EXCEPT ![r] = q]
  BY Zenon DEF CheckInClash, DayInv, IInv, TypeInv, TypeOK
<1> HIDE DEF c
<1>7. /\ q.pc = "merge" /\ q.row = req[r].row /\ q.in = req[r].in /\ q.zone = req[r].zone
      /\ q.at = req[r].at /\ q.row2 = c /\ q.in2 = in2
  BY <1>3 DEF Request
<1>8. c # None => c \in RowIds /\ rows[c].date = proper
  BY RowOnFinds DEF c
<1> HIDE DEF q
<1>9. FindsSession(q)
  BY <1>2, <1>3, <1>7 DEF Finds, FindsSession, Straddles
<1>10. FindsProper(q)
  <2>1. proper # None
    BY <1>5 DEF None
  <2>2. rows[req[r].row].date # proper /\ proper # ShiftDay(req[r].zone, req[r].at)
    BY <1>2, <1>3 DEF Finds, FindsSession
  <2> QED
    BY <1>7, <1>8, <2>1, <2>2 DEF FindsProper
<1>11. Finds(q)
  BY <1>7, <1>9, <1>10 DEF Finds, FindsBreak, FindsFree
<1> QED
  BY <1>1, <1>6, <1>11, ReadFinds

LEMMA OvertimeReadDays ==
  ASSUME OneRequest, DayInv, IInv', NEW r \in Reqs, OvertimeRead(r)
  PROVE  DayInv' /\ NoBreakBeside /\ CheckInsKept
<1> DEFINE i == FindCurrent(req[r].zone, req[r].at)
           q == [req[r] EXCEPT !.pc = "reopen", !.row = i, !.out = rows[i].out]
           s == [req[r] EXCEPT !.pc = "stamp", !.row = i]
<1>1. Quiet
  BY DEF OvertimeRead, Quiet
<1>2. req[r] \in Request /\ req \in [Reqs -> Request]
  BY DEF DayInv, IInv, TypeInv, TypeOK
<1>3. CASE Reply(r)
  BY <1>1, <1>3, MildMove, QuietMild, ReplyMild
<1>4. CASE HasCheckIn(i) /\ req' = [req EXCEPT ![r].pc = "reopen", ![r].row = i,
                                                ![r].out = rows[i].out]
  <2>1. i \in RowIds /\ rows[i].in # None
    BY <1>4, FindCurrentHas DEF DayInv, IInv, TypeInv
  <2>2. q.pc = "reopen" /\ q.row = i
    BY <1>2 DEF Request
  <2>3. req' = [req EXCEPT ![r] = q]
    BY <1>2, <1>4, Zenon
  <2> HIDE DEF q, i
  <2>4. Finds(q)
    BY <2>1, <2>2 DEF Finds, FindsBreak, FindsSession, FindsProper, FindsFree
  <2> QED
    BY <1>1, <2>3, <2>4, ReadFinds
<1>5. CASE req' = [req EXCEPT ![r].pc = "stamp", ![r].row = i]
  <2>1. s.pc \in FindsNothing
    BY <1>2 DEF Request, FindsNothing
  <2>2. req' = [req EXCEPT ![r] = s]
    BY <1>2, <1>5, Zenon
  <2> HIDE DEF s
  <2> QED
    BY <1>1, <2>1, <2>2, GoOn, MildMove, QuietMild
<1> QED
  BY <1>3, <1>4, <1>5 DEF OvertimeRead

LEMMA BreakStartReadDays ==
  ASSUME OneRequest, DayInv, IInv', NEW r \in Reqs, BreakStartRead(r)
  PROVE  DayInv' /\ NoBreakBeside /\ CheckInsKept
<1> DEFINE i == FindCurrent(req[r].zone, req[r].at)
           q == [req[r] EXCEPT !.pc = "create", !.row = i]
<1>1. Quiet
  BY DEF BreakStartRead, Quiet
<1>2. req[r] \in Request /\ req \in [Reqs -> Request]
  BY DEF DayInv, IInv, TypeInv, TypeOK
<1>3. CASE Reply(r)
  BY <1>1, <1>3, MildMove, QuietMild, ReplyMild
<1>4. CASE /\ HasCheckIn(i) /\ OpenEntries(i) = {}
           /\ req' = [req EXCEPT ![r].pc = "create", ![r].row = i]
  <2>1. i \in RowIds /\ rows[i].in # None
    BY <1>4, FindCurrentHas DEF DayInv, IInv, TypeInv
  <2>2. q.pc = "create" /\ q.row = i
    BY <1>2 DEF Request
  <2>3. req' = [req EXCEPT ![r] = q]
    BY <1>2, <1>4, Zenon
  <2> HIDE DEF q, i
  <2>4. Finds(q)
    BY <1>4, <2>1, <2>2 DEF Finds, FindsBreak, FindsSession, FindsProper, FindsFree
  <2> QED
    BY <1>1, <2>3, <2>4, ReadFinds
<1> QED
  BY <1>3, <1>4 DEF BreakStartRead

\* Arrivals and the other reads find nothing that is used to write a day.
LEMMA OtherReadDays ==
  ASSUME OneRequest, DayInv, IInv', NEW r \in Reqs,
         (\E op \in Ops : Arrive(r, op)) \/ CheckOutRead(r) \/ BreakEndRead(r)
  PROVE  DayInv' /\ NoBreakBeside /\ CheckInsKept
<1>1. Quiet
  BY DEF Arrive, CheckOutRead, BreakEndRead, Quiet
<1>2. req[r] \in Request /\ req \in [Reqs -> Request]
  BY DEF DayInv, IInv, TypeInv, TypeOK
<1>3. ASSUME NEW q, q.pc \in FindsNothing, req' = [req EXCEPT ![r] = q]
      PROVE  DayInv' /\ NoBreakBeside /\ CheckInsKept
  BY <1>1, <1>3, GoOn, MildMove, QuietMild
<1>4. ASSUME NEW op \in Ops, Arrive(r, op)
      PROVE  \E q : q.pc \in FindsNothing /\ req' = [req EXCEPT ![r] = q]
  <2> DEFINE q == [NoRequest EXCEPT !.op = op, !.pc = "read", !.at = now, !.zone = zone]
  <2>1. q.pc = "read"
    BY DEF NoRequest
  <2>2. req' = [req EXCEPT ![r] = q]
    BY <1>4 DEF Arrive
  <2>3. q.pc \in FindsNothing
    BY <2>1 DEF FindsNothing
  <2> HIDE DEF q
  <2> QED
    BY <2>2, <2>3, Zenon
<1>5. CASE Reply(r)
  BY <1>1, <1>5, MildMove, QuietMild, ReplyMild
<1>6. ASSUME CheckOutRead(r), ~Reply(r)
      PROVE  \E q : q.pc \in FindsNothing /\ req' = [req EXCEPT ![r] = q]
  <2> DEFINE i == FindCurrent(req[r].zone, req[r].at)
             q == [req[r] EXCEPT !.pc = "close", !.row = i]
  <2>1. q.pc = "close"
    BY <1>2 DEF Request
  <2>2. req' = [req EXCEPT ![r] = q]
    BY <1>2, <1>6, Zenon DEF CheckOutRead
  <2>3. q.pc \in FindsNothing
    BY <2>1 DEF FindsNothing
  <2> HIDE DEF q
  <2> QED
    BY <2>2, <2>3, Zenon
<1>7. ASSUME BreakEndRead(r), ~Reply(r)
      PROVE  \E q : q.pc \in FindsNothing /\ req' = [req EXCEPT ![r] = q]
  <2> DEFINE i == FindCurrent(req[r].zone, req[r].at)
  <2>1. PICK b : req' = [req EXCEPT ![r].pc = "end", ![r].row = i, ![r].row2 = b]
    BY <1>7, Zenon DEF BreakEndRead
  <2> DEFINE q == [req[r] EXCEPT !.pc = "end", !.row = i, !.row2 = b]
  <2>2. q.pc = "end"
    BY <1>2 DEF Request
  <2>3. req' = [req EXCEPT ![r] = q]
    BY <1>2, <2>1, Zenon
  <2>4. q.pc \in FindsNothing
    BY <2>2 DEF FindsNothing
  <2> HIDE DEF q
  <2> QED
    BY <2>3, <2>4, Zenon
<1> QED
  BY <1>3, <1>4, <1>5, <1>6, <1>7

\* --- the steps that end breaks, or write a check-out or overtime
LEMMA EndingDays ==
  ASSUME OneRequest, DayInv, IInv', NEW r \in Reqs,
         CheckOutCloseBreaks(r) \/ CheckOutWrite(r) \/ OvertimeStamp(r) \/ BreakEndWrite(r)
  PROVE  DayInv' /\ NoBreakBeside /\ CheckInsKept
<1>1. /\ req[r] \in Request /\ req \in [Reqs -> Request] /\ entries \in [BreakIds -> Entry]
      /\ rows \in [RowIds -> Row] /\ req[r].at \in Nat /\ req[r].at # None
  BY DEF DayInv, IInv, TypeInv, TypeOK, Request, Time, None
<1>2. now' = now
  BY DEF CheckOutCloseBreaks, CheckOutWrite, OvertimeStamp, BreakEndWrite
<1>3. CASE CheckOutCloseBreaks(r)
  <2> DEFINE q == [req[r] EXCEPT !.pc = "out"]
  <2>1. Mild
    <3>1. rows' = rows
      BY <1>3 DEF CheckOutCloseBreaks
    <3>2. \A b \in BreakIds : entries'[b] = entries[b]
                              \/ entries'[b] = [entries[b] EXCEPT !.end = req[r].at]
      BY <1>3 DEF CheckOutCloseBreaks
    <3>3. \A b \in BreakIds : entries[b] \in Entry
      BY <1>1
    <3> QED
      BY <1>1, <3>1, <3>2, <3>3 DEF Mild, Exists, Running, Entry
  <2>2. q.pc \in FindsNothing
    BY <1>1 DEF Request, FindsNothing
  <2>3. req' = [req EXCEPT ![r] = q]
    BY <1>1, <1>3, Zenon DEF CheckOutCloseBreaks
  <2> HIDE DEF q
  <2> QED
    BY <1>2, <2>1, <2>2, <2>3, GoOn, MildMove
<1>4. CASE CheckOutWrite(r) \/ OvertimeStamp(r)
  <2>1. entries' = entries /\ Reply(r)
    BY <1>4 DEF CheckOutWrite, OvertimeStamp
  <2>2. \A i \in RowIds : rows'[i].in = rows[i].in /\ rows'[i].date = rows[i].date
    BY <1>1, <1>4 DEF CheckOutWrite, OvertimeStamp, Row
  <2> QED
    BY <1>2, <2>1, <2>2, ReplyMild, MildMove DEF Mild, Exists, Running
<1>5. CASE BreakEndWrite(r)
  <2>1. rows' = rows /\ Reply(r)
    BY <1>5 DEF BreakEndWrite
  <2>2. \A b \in BreakIds : entries'[b] = entries[b]
                            \/ entries'[b] = [entries[b] EXCEPT !.end = req[r].at]
    BY <1>1, <1>5 DEF BreakEndWrite
  <2>3. \A b \in BreakIds : entries[b] \in Entry
    BY <1>1
  <2>4. Mild
    BY <1>1, <2>1, <2>2, <2>3 DEF Mild, Exists, Running, Entry
  <2> QED
    BY <1>2, <2>1, <2>4, ReplyMild, MildMove
<1> QED
  BY <1>3, <1>4, <1>5

\* The two jobs, the clock, a change of shift and a restart.
LEMMA JobDays ==
  ASSUME DayInv, IInv', AutoCheckout \/ BreakCutoff
  PROVE  DayInv' /\ NoBreakBeside /\ CheckInsKept
<1>1. /\ entries \in [BreakIds -> Entry] /\ rows \in [RowIds -> Row]
      /\ sweep \subseteq [row : RowIds, due : Time, overtime : BOOLEAN]
      /\ cut \subseteq [entry : BreakIds, due : Time]
  BY DEF DayInv, IInv, TypeInv, TypeOK
<1>2. req' = req /\ now' = now
  BY DEF AutoCheckout, BreakCutoff, SweepRead, SweepClose, CutRead, CutEnd
<1>3. \A b \in BreakIds : entries[b] \in Entry
  BY <1>1
<1>4. ASSUME SweepRead \/ CutRead
      PROVE  Mild
  <2>1. rows' = rows /\ entries' = entries
    BY <1>4 DEF SweepRead, CutRead
  <2> QED
    BY <2>1 DEF Mild, Exists, Running
<1>5. ASSUME NEW s \in sweep, SweepClose(s)
      PROVE  Mild
  <2>1. s.due # None /\ Gone \notin RowIds
    BY <1>1, Constants DEF Time, None, Gone
  <2>2. \A i \in RowIds : rows'[i].in = rows[i].in /\ rows'[i].date = rows[i].date
    BY <1>1, <1>5 DEF SweepClose, Row
  <2>3. \A b \in BreakIds : \/ entries'[b] = entries[b]
                            \/ entries'[b] = [entries[b] EXCEPT !.end = s.due]
                            \/ entries'[b].row = Gone
    BY <1>5 DEF SweepClose, NoEntry
  <2> QED
    BY <1>3, <2>1, <2>2, <2>3 DEF Mild, Exists, Running, Entry
<1>6. ASSUME NEW c \in cut, CutEnd(c)
      PROVE  Mild
  <2>1. c.due # None
    BY <1>1 DEF Time, None
  <2>2. rows' = rows
    BY <1>6 DEF CutEnd
  <2>3. \A b \in BreakIds : \/ entries'[b] = entries[b]
                            \/ entries'[b] = [entries[b] EXCEPT !.end = c.due, !.auto = TRUE]
    BY <1>1, <1>6 DEF CutEnd
  <2> QED
    BY <1>3, <2>1, <2>2, <2>3 DEF Mild, Exists, Running, Entry
<1>7. Mild
  BY <1>4, <1>5, <1>6 DEF AutoCheckout, BreakCutoff
<1>8. \A p \in Reqs : Idle(p)' \/ (req'[p] = req[p] /\ ~Idle(p))
  BY <1>2 DEF Idle
<1> QED
  BY <1>2, <1>7, <1>8, MildMove

LEMMA RestDays ==
  ASSUME DayInv, IInv',
         Advance \/ Crash \/ (\E z \in Zones : ChangeShift(z)) \/ UNCHANGED vars
  PROVE  DayInv' /\ NoBreakBeside /\ CheckInsKept
<1>1. rows' = rows /\ entries' = entries /\ (now' = now \/ now' = now + 1)
  BY DEF Advance, Crash, ChangeShift, vars
<1>2. Mild
  BY <1>1 DEF Mild, Exists, Running
<1>3. \A p \in Reqs : Idle(p)' \/ (req'[p] = req[p] /\ ~Idle(p))
  BY DEF Advance, Crash, ChangeShift, vars, Idle, NoRequest
<1> QED
  BY <1>1, <1>2, <1>3, MildMove

\* --- the steps that make a break, or write a day or a check-in
LEMMA AddDays ==
  ASSUME OneRequest, DayInv, IInv', NEW r \in Reqs, OvertimeReopen(r) \/ BreakStartCreate(r)
  PROVE  DayInv' /\ NoBreakBeside /\ CheckInsKept
<1> DEFINE i == req[r].row
<1>1. ~Idle(r) /\ FreeEntry # {} /\ i \in RowIds /\ rows[i].in # None
  <2>1. ~Idle(r) /\ req[r].pc \in {"reopen", "create"} /\ req[r].op \in Creators
    BY DEF OvertimeReopen, BreakStartCreate, At, Idle, Creators
  <2>2. Carries(req[r]) /\ ReqOK(req[r]) /\ Finds(req[r])
    BY <2>1, Carried DEF DayInv
  <2> QED
    BY <2>1, <2>2 DEF Carries, ReqOK, Finds, FindsBreak
<1>2. req[r].pc = "create" => OpenEntries(i) = {}
  BY <1>1 DEF DayInv, Finds, FindsBreak
<1>3. /\ entries \in [BreakIds -> Entry] /\ rows \in [RowIds -> Row]
      /\ req[r].at \in Nat /\ req[r].at # None
  BY DEF DayInv, IInv, TypeInv, TypeOK, Request, Time, None
<1>4. FreshEntry \in BreakIds /\ entries[FreshEntry].row = None /\ None \notin RowIds
  BY <1>1, Constants DEF FreshEntry, FreeEntry, None
<1>5. PICK new : /\ entries' = [entries EXCEPT ![FreshEntry] = new]
                 /\ new.row = i
                 /\ new.end = None => req[r].pc = "create"
  <2>1. CASE OvertimeReopen(r)
    <3> DEFINE new == [row |-> i, type |-> "OFF", start |-> req[r].out, end |-> req[r].at,
                       auto |-> FALSE]
    <3>1. entries' = [entries EXCEPT ![FreshEntry] = new]
      BY <2>1 DEF OvertimeReopen, AddEntry
    <3>2. new.row = i /\ new.end # None
      BY <1>3
    <3> HIDE DEF new
    <3> QED
      BY <3>1, <3>2
  <2>2. CASE BreakStartCreate(r)
    <3>1. PICK type : AddEntry(i, type, req[r].at, None)
      BY <2>2 DEF BreakStartCreate
    <3> DEFINE new == [row |-> i, type |-> type, start |-> req[r].at, end |-> None,
                       auto |-> FALSE]
    <3>2. entries' = [entries EXCEPT ![FreshEntry] = new] /\ req[r].pc = "create"
      BY <2>2, <3>1 DEF AddEntry, BreakStartCreate, At
    <3>3. new.row = i
      OBVIOUS
    <3> HIDE DEF new
    <3> QED
      BY <3>2, <3>3
  <2> QED
    BY <2>1, <2>2
<1> HIDE DEF FreshEntry, i
<1>6. /\ entries'[FreshEntry] = new
      /\ \A b \in BreakIds : b # FreshEntry => entries'[b] = entries[b]
  BY <1>3, <1>4, <1>5
<1>7. \A j \in RowIds : rows'[j].in = rows[j].in /\ rows'[j].date = rows[j].date
  BY <1>3 DEF OvertimeReopen, BreakStartCreate, Row
<1>8. OneDate'
  BY <1>7 DEF DayInv, OneDate
<1>9. BreaksHaveSession'
  BY <1>1, <1>5, <1>6, <1>7 DEF DayInv, BreaksHaveSession, Exists
<1>10. CheckInsKept
  BY <1>7 DEF CheckInsKept
<1>11. NoBreakBeside
  <2> SUFFICES ASSUME NEW b \in BreakIds, NEW c \in BreakIds, b # c, Running(b)', Running(c)',
                      entries'[b].row = entries'[c].row
               PROVE  Running(b) /\ Running(c)
    BY DEF NoBreakBeside
  <2>1. ASSUME NEW d \in BreakIds, d # FreshEntry, entries'[d].row = i, Running(d)',
               entries'[FreshEntry].end = None
        PROVE  FALSE
    <3>1. OpenEntries(i) = {}
      BY <1>2, <1>5, <1>6, <2>1
    <3>2. d \in OpenEntries(i)
      BY <1>6, <2>1 DEF Running, OpenEntries, EntriesOf
    <3> QED
      BY <3>1, <3>2
  <2>2. b # FreshEntry /\ c # FreshEntry
    BY <1>5, <1>6, <2>1 DEF Running
  <2> QED
    BY <1>6, <2>2 DEF Running, Exists
<1>12. \A p \in Reqs : Idle(p)'
  BY ReplyMild DEF OvertimeReopen, BreakStartCreate
<1> QED
  BY <1>8, <1>9, <1>10, <1>11, <1>12 DEF DayInv

LEMMA MoveDays ==
  ASSUME OneRequest, DayInv, IInv', NEW r \in Reqs, CheckInMove(r)
  PROVE  DayInv' /\ NoBreakBeside /\ CheckInsKept
<1> DEFINE q == req[r]
           proper == ShiftDay(q.zone, q.in)
           today == ShiftDay(q.zone, q.at)
           u == [q EXCEPT !.pc = "upsert"]
<1>1. q.pc = "merge" /\ ~Idle(r) /\ entries' = entries /\ now' = now
  BY DEF CheckInMove, At, Idle
<1>2. q \in Request /\ ReqOK(q) /\ Finds(q)
  BY <1>1, Carried DEF DayInv
<1>3. q.row \in RowIds /\ proper \in Nat /\ proper # None
  <2>1. q.row \in RowIds /\ q.in \in Time /\ q.zone \in Nat
    BY <1>1, <1>2 DEF ReqOK, Request
  <2>2. proper \in Nat
    BY <2>1, ShiftDayType
  <2> QED
    BY <2>1, <2>2 DEF None
<1>4. CASE UNCHANGED rows /\ Reply(r)
  <2>1. Quiet
    BY <1>4 DEF CheckInMove, Quiet
  <2> QED
    BY <1>4, <2>1, MildMove, QuietMild, ReplyMild
<1>5. CASE /\ RowOn(proper) = None
           /\ rows' = [rows EXCEPT ![q.row].date = proper]
           /\ req' = [req EXCEPT ![r].pc = "upsert"]
  <2>1. rows \in [RowIds -> Row] /\ req \in [Reqs -> Request]
    BY DEF DayInv, IInv, TypeInv, TypeOK
  <2>2. /\ rows'[q.row].date = proper /\ rows'[q.row].in = rows[q.row].in
        /\ \A i \in RowIds \ {q.row} : rows'[i] = rows[i]
    <3> HIDE DEF proper
    <3> QED
      BY <1>3, <1>5, <2>1 DEF Row
  <2>3. \A i \in RowIds : rows[i].date # proper
    BY <1>5, RowOnMisses
  <2>4. \A i \in RowIds : rows'[i].in = rows[i].in
    BY <2>2
  <2>5. proper # today /\ (Straddles(q) \/ rows[q.row].date = today)
    BY <1>1, <1>2 DEF Finds, FindsSession
  <2>6. u.pc = "upsert" /\ u.zone = q.zone /\ u.at = q.at /\ req' = [req EXCEPT ![r] = u]
    BY <1>2, <1>5, <2>1, Zenon DEF Request
  <2> HIDE DEF proper
  <2>7. OneDate'
    BY <1>3, <2>2, <2>3 DEF DayInv, OneDate
  <2>8. BreaksHaveSession' /\ CheckInsKept /\ NoBreakBeside
    BY <1>1, <2>4 DEF DayInv, BreaksHaveSession, CheckInsKept, NoBreakBeside, Exists, Running
  <2>9. ASSUME ~Straddles(q), NEW i \in RowIds, rows'[i].date = today
        PROVE  rows'[i].in = None
    <3>1. i # q.row /\ rows[i].date = today
      BY <2>2, <2>5, <2>9
    <3>2. rows[q.row].date = today /\ rows[q.row].date # None
      BY <1>1, <1>2, <2>5, <2>9 DEF Finds, FindsSession
    <3> QED
      BY <1>3, <3>1, <3>2 DEF DayInv, OneDate
  <2>10. ASSUME NEW p \in Reqs PROVE Finds(req[p])'
    <3>1. req'[p] = u
      BY <2>1, <2>6 DEF OneRequest
    <3>2. Straddles(q) => Straddles(req[p])'
      BY <1>1, <2>6, <3>1 DEF Straddles
    <3> HIDE DEF u, today
    <3>3. \/ Straddles(req[p])'
          \/ \A i \in RowIds : rows'[i].date = today => rows'[i].in = None
      BY <2>9, <3>2
    <3> QED
      BY <2>6, <3>1, <3>3 DEF today, Finds, FindsBreak, FindsSession, FindsProper, FindsFree
  <2> QED
    BY <2>7, <2>8, <2>10 DEF DayInv
<1> QED
  BY <1>4, <1>5 DEF CheckInMove

LEMMA UpsertDays ==
  ASSUME OneRequest, DayInv, IInv', NEW r \in Reqs, CheckInUpsert(r)
  PROVE  DayInv' /\ NoBreakBeside /\ CheckInsKept
<1> DEFINE q == req[r]
           d == ShiftDay(q.zone, q.at)
           i == RowOn(d)
           new == [NoRow EXCEPT !.date = d, !.in = q.at]
<1>1. q.pc = "upsert" /\ ~Idle(r) /\ entries' = entries /\ now' = now /\ Reply(r)
  BY DEF CheckInUpsert, At, Idle
<1>2. Finds(q) /\ q.at \in Nat /\ q.at # None /\ d \in Nat /\ d # None
  <2>1. q \in Request /\ Finds(q) /\ q.at \in Time /\ q.zone \in Nat
    BY <1>1, Carried DEF DayInv, Request
  <2>2. d \in Nat
    BY <2>1, ShiftDayType
  <2> QED
    BY <2>1, <2>2 DEF None, Time
<1>3. rows \in [RowIds -> Row]
  BY DEF DayInv, IInv, TypeInv, TypeOK
<1>4. \A p \in Reqs : Idle(p)'
  BY <1>1, ReplyMild
<1>5. CASE i # None /\ rows' = [rows EXCEPT ![i].in = q.at]
  <2>1. i \in RowIds /\ rows[i].date = d
    BY <1>5, RowOnFinds
  <2> HIDE DEF i, d
  <2>2. /\ rows'[i].in = q.at
        /\ \A j \in RowIds : rows'[j].date = rows[j].date
        /\ \A j \in RowIds \ {i} : rows'[j].in = rows[j].in
    BY <1>3, <1>5, <2>1 DEF Row
  <2>3. OneDate'
    BY <1>2, <2>1, <2>2 DEF DayInv, OneDate
  <2>4. BreaksHaveSession' /\ NoBreakBeside
    BY <1>1, <1>2, <2>2 DEF DayInv, BreaksHaveSession, NoBreakBeside, Exists, Running
  <2>5. rows[i].in # None => Straddles(q)
    BY <1>1, <1>2, <2>1 DEF Finds, FindsFree, d
  <2>6. CheckInsKept
    BY <2>2, <2>5 DEF CheckInsKept
  <2> QED
    BY <1>4, <2>3, <2>4, <2>6 DEF DayInv
<1>6. CASE i = None /\ FreeRow # {} /\ rows' = [rows EXCEPT ![FreshRow] = new]
  <2>1. FreshRow \in RowIds /\ rows[FreshRow].date = None
    BY <1>6 DEF FreshRow, FreeRow
  <2>2. rows[FreshRow].in = None
    BY <2>1 DEF DayInv, OneDate
  <2>3. \A j \in RowIds : rows[j].date # d
    BY <1>6, RowOnMisses
  <2>4. new.date = d /\ new.in = q.at
    BY DEF NoRow
  <2> HIDE DEF i, d, new, FreshRow
  <2>5. rows'[FreshRow] = new /\ \A j \in RowIds \ {FreshRow} : rows'[j] = rows[j]
    BY <1>3, <1>6, <2>1
  <2>6. OneDate'
    BY <1>2, <2>3, <2>4, <2>5 DEF DayInv, OneDate
  <2>7. BreaksHaveSession' /\ NoBreakBeside
    BY <1>1, <1>2, <2>4, <2>5 DEF DayInv, BreaksHaveSession, NoBreakBeside, Exists, Running
  <2>8. CheckInsKept
    BY <2>2, <2>5 DEF CheckInsKept
  <2> QED
    BY <1>4, <2>6, <2>7, <2>8 DEF DayInv
<1> QED
  BY <1>5, <1>6 DEF CheckInUpsert

\* What the merging transaction does to the entries and the two rows.
LEMMA MergeWrites ==
  ASSUME DayInv, NEW r \in Reqs, CheckInMerge(r)
  PROVE  /\ req[r].row \in RowIds /\ req[r].row2 \in RowIds /\ req[r].row2 # req[r].row
         /\ rows'[req[r].row].in = None
         /\ rows'[req[r].row2].in = Least({rows[req[r].row].in, rows[req[r].row2].in} \ {None})
         /\ rows'[req[r].row2].in # None
         /\ \A i \in RowIds : rows'[i].date = rows[i].date
         /\ \A i \in RowIds \ {req[r].row, req[r].row2} : rows'[i].in = rows[i].in
         /\ \A b \in BreakIds : Exists(b)' =>
              \/ entries'[b].row = req[r].row2
              \/ Exists(b) /\ entries'[b].row = entries[b].row /\ entries[b].row # req[r].row
         /\ \A b \in BreakIds : Running(b)' => Running(b)
<1> DEFINE q == req[r]
           outs == {q.out, q.out2} \ {None}
           first == Least({q.in, q.in2} \ {None})
           last == IF outs = {} THEN None ELSE Greatest(outs)
           clashFirst == q.in2 # None /\ q.in2 <= q.in
           firstOut == IF clashFirst THEN q.out2 ELSE q.out
           secondIn == IF clashFirst THEN q.in ELSE q.in2
           gap == firstOut # None /\ secondIn # None /\ secondIn > firstOut
           moved == [b \in BreakIds |->
                       IF entries[b].row = q.row
                       THEN [entries[b] EXCEPT !.row = q.row2] ELSE entries[b]]
           fresh == [row |-> q.row2, type |-> "BREAK", start |-> firstOut,
                     end |-> secondIn, auto |-> FALSE]
<1>1. q.pc = "merge" /\ ~Idle(r) /\ q.row2 # None
  BY Zenon DEF CheckInMerge, At, Idle
<1>2. q \in Request /\ ReqOK(q) /\ Finds(q)
  BY <1>1, Carried DEF DayInv
<1>3. /\ q.row \in RowIds /\ q.row2 \in RowIds /\ q.row2 # q.row
      /\ q.in = rows[q.row].in /\ q.in2 = rows[q.row2].in
      /\ q.in \in Time /\ q.in2 \in Opt(Time)
  BY <1>1, <1>2 DEF ReqOK, Opt, Finds, FindsSession, FindsProper, Request
<1>4. first \in Time /\ first # None
  BY <1>3, LeastType DEF Time, None
<1>5. rows \in [RowIds -> Row] /\ entries \in [BreakIds -> Entry] /\ None \notin RowIds
  BY Constants DEF DayInv, IInv, TypeInv, TypeOK, None
<1>6. rows' = [rows EXCEPT ![q.row2].in = first, ![q.row2].out = last,
                           ![q.row].in = None, ![q.row].out = None]
  BY Zenon DEF CheckInMerge
<1>7. entries' = IF gap THEN [moved EXCEPT ![FreshEntry] = fresh] ELSE moved
  BY Zenon DEF CheckInMerge
<1>8. /\ rows'[q.row].in = None /\ rows'[q.row2].in = first
      /\ \A i \in RowIds : rows'[i].date = rows[i].date
      /\ \A i \in RowIds \ {q.row, q.row2} : rows'[i].in = rows[i].in
  <2> HIDE DEF first, last, q
  <2> QED
    BY <1>3, <1>5, <1>6 DEF Row
<1>9. ASSUME NEW b \in BreakIds
      PROVE  moved[b].end = entries[b].end
             /\ moved[b].row = IF entries[b].row = q.row THEN q.row2 ELSE entries[b].row
  BY <1>5 DEF Entry
<1>10. gap => secondIn # None
  OBVIOUS
<1>11. ASSUME NEW b \in BreakIds
       PROVE  entries'[b] = moved[b] \/ (gap /\ entries'[b] = fresh)
  <2> HIDE DEF moved, fresh, gap, FreshEntry
  <2>1. DOMAIN moved = BreakIds
    BY DEF moved
  <2> QED
    BY <1>7, <2>1
<1>12. fresh.row = q.row2 /\ fresh.end = secondIn
  OBVIOUS
<1> HIDE DEF moved, fresh, gap, secondIn, first, q
<1>13. ASSUME NEW b \in BreakIds, Exists(b)'
       PROVE  \/ entries'[b].row = q.row2
              \/ Exists(b) /\ entries'[b].row = entries[b].row /\ entries[b].row # q.row
  <2>1. CASE entries'[b] = moved[b]
    BY <1>3, <1>9, <1>13, <2>1 DEF Exists
  <2>2. CASE entries'[b] = fresh
    BY <1>12, <2>2
  <2> QED
    BY <1>11, <2>1, <2>2
<1>14. ASSUME NEW b \in BreakIds, Running(b)'
       PROVE  Running(b)
  <2>1. entries'[b] = moved[b]
    BY <1>10, <1>11, <1>12, <1>14 DEF Running
  <2>2. entries[b].end = None /\ moved[b].row \in RowIds
    BY <1>9, <1>14, <2>1 DEF Running, Exists
  <2>3. entries[b].row \in RowIds
    BY <1>3, <1>9, <2>2
  <2> QED
    BY <2>2, <2>3 DEF Running, Exists
<1>15. first = Least({rows[q.row].in, rows[q.row2].in} \ {None})
  BY <1>3 DEF first
<1> QED
  BY <1>3, <1>4, <1>8, <1>13, <1>14, <1>15 DEF q

LEMMA MergeDays ==
  ASSUME OneRequest, DayInv, IInv', NEW r \in Reqs, CheckInMerge(r)
  PROVE  DayInv' /\ NoBreakBeside /\ CheckInsKept
<1> DEFINE q == req[r]
           today == ShiftDay(q.zone, q.at)
           u == [q EXCEPT !.pc = "upsert"]
<1>1. q.pc = "merge" /\ ~Idle(r) /\ q.row2 # None /\ now' = now
      /\ req' = [req EXCEPT ![r].pc = "upsert"]
  BY Zenon DEF CheckInMerge, At, Idle
<1>2. q \in Request /\ Finds(q) /\ req \in [Reqs -> Request]
  BY <1>1, Carried DEF DayInv, IInv, TypeInv, TypeOK
<1>3. /\ q.row \in RowIds /\ q.row2 \in RowIds /\ q.row2 # q.row
      /\ rows'[q.row].in = None
      /\ rows'[q.row2].in = Least({rows[q.row].in, rows[q.row2].in} \ {None})
      /\ rows'[q.row2].in # None
      /\ \A i \in RowIds : rows'[i].date = rows[i].date
      /\ \A i \in RowIds \ {q.row, q.row2} : rows'[i].in = rows[i].in
  BY MergeWrites
<1>4. /\ rows[q.row2].date # None /\ rows[q.row].date # None /\ rows[q.row2].date # today
      /\ Straddles(q) \/ rows[q.row].date = today
  BY <1>1, <1>2 DEF Finds, FindsSession, FindsProper
<1>5. OneDate'
  BY <1>3, <1>4 DEF DayInv, OneDate
<1>6. BreaksHaveSession'
  <2> SUFFICES ASSUME NEW b \in BreakIds, Exists(b)'
               PROVE  rows'[entries'[b].row].in # None
    BY DEF BreaksHaveSession
  <2>1. CASE entries'[b].row = q.row2
    BY <1>3, <2>1
  <2>2. CASE entries'[b].row # q.row2
    <3>1. Exists(b) /\ entries'[b].row = entries[b].row /\ entries[b].row # q.row
      BY <2>2, MergeWrites
    <3>2. entries[b].row \in RowIds \ {q.row, q.row2} /\ rows[entries[b].row].in # None
      BY <2>2, <3>1 DEF Exists, DayInv, BreaksHaveSession
    <3> QED
      BY <1>3, <3>1, <3>2
  <2> QED
    BY <2>1, <2>2
<1>7. NoBreakBeside
  BY MergeWrites DEF NoBreakBeside
<1>8. CheckInsKept
  <2> SUFFICES ASSUME NEW i \in RowIds
               PROVE  \/ rows'[i].in = rows[i].in
                      \/ \E j \in RowIds \ {i} : {rows'[i].in, rows'[j].in}
                            = {None, Least({rows[i].in, rows[j].in} \ {None})}
    BY DEF CheckInsKept
  <2> HIDE DEF q
  <2>1. CASE i = q.row
    BY <1>3, <2>1
  <2>2. CASE i = q.row2
    <3>1. {rows[i].in, rows[q.row].in} = {rows[q.row].in, rows[q.row2].in}
      BY <2>2
    <3>2. rows'[i].in = Least({rows[i].in, rows[q.row].in} \ {None})
      BY <1>3, <2>2, <3>1, Zenon
    <3>3. {rows'[i].in, rows'[q.row].in} = {None, Least({rows[i].in, rows[q.row].in} \ {None})}
      BY <1>3, <3>2
    <3> QED
      BY <1>3, <2>2, <3>3
  <2> QED
    BY <1>3, <2>1, <2>2
<1>9. ASSUME NEW p \in Reqs PROVE Finds(req[p])'
  <2>1. u.pc = "upsert" /\ u.zone = q.zone /\ u.at = q.at /\ req' = [req EXCEPT ![r] = u]
    BY <1>1, <1>2, Zenon DEF Request
  <2>2. req'[p] = u
    BY <1>2, <2>1 DEF OneRequest
  <2>3. Straddles(q) => Straddles(req[p])'
    BY <1>1, <2>1, <2>2 DEF Straddles
  <2>4. ASSUME ~Straddles(q), NEW i \in RowIds, rows'[i].date = today
        PROVE  rows'[i].in = None
    <3>1. rows[i].date = rows[q.row].date /\ rows[i].date # None
      BY <1>3, <1>4, <2>4
    <3>2. i = q.row
      BY <1>3, <3>1 DEF DayInv, OneDate
    <3> QED
      BY <1>3, <3>2
  <2> HIDE DEF u, today
  <2>5. \/ Straddles(req[p])'
        \/ \A i \in RowIds : rows'[i].date = today => rows'[i].in = None
    BY <2>3, <2>4
  <2> QED
    BY <2>1, <2>2, <2>5 DEF today, Finds, FindsBreak, FindsSession, FindsProper, FindsFree
<1> QED
  BY <1>5, <1>6, <1>7, <1>8, <1>9 DEF DayInv

LEMMA InitDays == OneRequest /\ Init => DayInv
<1> SUFFICES ASSUME OneRequest, Init PROVE DayInv
  OBVIOUS
<1>1. IInv
  BY InitForward
<1>2. OneDate
  BY DEF Init, OneDate, NoRow
<1>3. \A b \in BreakIds : ~Exists(b)
  BY Constants DEF Init, Exists, NoEntry, None
<1>4. \A r \in Reqs : Idle(r)
  BY DEF Init, Idle, NoRequest
<1> QED
  BY <1>1, <1>2, <1>3, <1>4 DEF DayInv, BreaksHaveSession

LEMMA NextDays ==
  ASSUME OneRequest, DayInv, [Next]_vars
  PROVE  DayInv' /\ NoBreakBeside /\ CheckInsKept
<1>1. IInv'
  BY NextForward DEF DayInv
<1>2. ASSUME NEW r \in Reqs, NEW op \in Ops, Arrive(r, op)
      PROVE  DayInv' /\ NoBreakBeside /\ CheckInsKept
  BY <1>1, <1>2, OtherReadDays
<1>3. ASSUME NEW r \in Reqs, Handler(r)
      PROVE  DayInv' /\ NoBreakBeside /\ CheckInsKept
  BY <1>1, <1>3, CheckInReadDays, CheckInClashDays, MoveDays, MergeDays, UpsertDays,
     OtherReadDays, EndingDays, OvertimeReadDays, AddDays, BreakStartReadDays DEF Handler
<1> QED
  BY <1>1, <1>2, <1>3, JobDays, RestDays DEF Next

\* With one request at a time, whatever the jobs, restarts and shift changes do in
\* between and however long it takes: every break is on a day with a check-in.
THEOREM BreaksAlwaysHaveSession ==
  ASSUME OneRequest
  PROVE  Spec => []BreaksHaveSession
<1>1. Init => DayInv
  BY InitDays
<1>2. DayInv /\ [Next]_vars => DayInv'
  BY NextDays
<1>3. DayInv => BreaksHaveSession
  BY DEF DayInv
<1> QED
  BY <1>1, <1>2, <1>3, PTL DEF Spec

\* startBreak never starts a break beside a running one, nor does anything else.
THEOREM AlwaysOneRunningBreak ==
  ASSUME OneRequest
  PROVE  Spec => OneRunningBreak
<1>1. Init => DayInv
  BY InitDays
<1>2. DayInv /\ [Next]_vars => DayInv' /\ [NoBreakBeside]_vars
  BY NextDays
<1> QED
  BY <1>1, <1>2, PTL DEF Spec, OneRunningBreak, NoBreakBeside

\* No check-in is overwritten or lost by the check-in, its repair of another day, or
\* anything else, but for one that is pressed again while the date changes.
THEOREM CheckInAlwaysKept ==
  ASSUME OneRequest
  PROVE  Spec => CheckInIsKept
<1>1. Init => DayInv
  BY InitDays
<1>2. DayInv /\ [Next]_vars => DayInv' /\ [CheckInsKept]_vars
  BY NextDays
<1> QED
  BY <1>1, <1>2, PTL DEF Spec, CheckInIsKept, CheckInsKept

(***************************************************************************)
(* The refinement of DayPromise.  A step changes one day at most, and      *)
(* moves it the way the promise allows; only a check-in that finds a       *)
(* session of another day on its date, after a change of time zone, folds  *)
(* two days into one.                                                      *)
(***************************************************************************)
\* A row that was not made yet has no overtime.
NewDays == \A i \in RowIds : rows[i].date = None => rows[i].ot = None

\* What a request knows of the day it is about to write.
FindsDay(q) ==
    /\ q.pc \in {"close", "out", "stamp", "reopen"} => q.row \in RowIds /\ rows[q.row].in # None
    /\ q.pc \in {"stamp", "reopen"} => rows[q.row].ot = None
    /\ q.pc = "reopen" => rows[q.row].out # None
    /\ q.pc \in {"clash", "merge"} => /\ q.row \in RowIds /\ rows[q.row].in # None
                                      /\ q.out # None => rows[q.row].out # None
    /\ q.pc = "merge" /\ q.row2 # None => /\ q.row2 \in RowIds
                                          /\ q.out2 # None => rows[q.row2].out # None

PromiseInv == NewDays /\ \A r \in Reqs : ~Idle(r) => FindsDay(req[r])

\* The state and the flag of a day, and how a step may change them.
InOvertime(i) == rows[i].ot # None
Vacant(i) == rows[i].date # None /\ rows[i].in = None

LiveIs(i) ==
    /\ LiveState(i) = "NOT_IN" <=> rows[i].in = None
    /\ LiveState(i) = "OUT" <=> rows[i].in # None /\ rows[i].out # None
    /\ LiveState(i) = "ON_BREAK" <=> rows[i].in # None /\ rows[i].out = None /\ OpenEntries(i) # {}
    /\ LiveState(i) = "IN" <=> rows[i].in # None /\ rows[i].out = None /\ OpenEntries(i) = {}

LEMMA LiveCases ==
  \A i \in RowIds : LiveIs(i) /\ LiveIs(i)'
<1>1. \A i \in RowIds : LiveIs(i)
  <2> SUFFICES ASSUME NEW i \in RowIds PROVE LiveIs(i)
    OBVIOUS
  <2>1. i # None
    BY Constants DEF None
  <2> QED
    BY <2>1 DEF LiveIs, LiveState, HasCheckIn
<1>2. (\A i \in RowIds : LiveIs(i))'
  BY <1>1, PTL
<1> QED
  BY <1>1, <1>2

Moves(i) ==
    \/ LiveState(i) = "NOT_IN" /\ LiveState(i)' = "IN"
    \/ LiveState(i) = "IN" /\ LiveState(i)' = "ON_BREAK"
    \/ LiveState(i) = "ON_BREAK" /\ LiveState(i)' = "IN"
    \/ LiveState(i) \in {"IN", "ON_BREAK"} /\ LiveState(i)' = "OUT"
StartsOvertime(i) ==
    /\ ~InOvertime(i) /\ InOvertime(i)'
    /\ \/ LiveState(i)' = LiveState(i) /\ LiveState(i) # "NOT_IN"
       \/ LiveState(i) = "OUT" /\ LiveState(i)' \in {"IN", "ON_BREAK"}
KeepsDay(i) ==
    \/ /\ InOvertime(i)' <=> InOvertime(i)
       /\ Vacant(i)' <=> Vacant(i)
       /\ LiveState(i)' = LiveState(i) \/ Moves(i)
    \/ StartsOvertime(i) /\ (Vacant(i)' <=> Vacant(i))
    \/ /\ InOvertime(i)' <=> InOvertime(i)
       /\ Vacant(i) /\ ~Vacant(i)'
       /\ LiveState(i) = "NOT_IN" /\ LiveState(i)' \in {"IN", "OUT"}

\* Everything but one day is left alone.
OnlyDay(d) ==
    /\ \A i \in RowIds \ {d} : rows'[i] = rows[i]
    /\ \A b \in BreakIds : \/ entries'[b] = entries[b]
                           \/ {entries[b].row, entries'[b].row} \cap RowIds \subseteq {d}

LEMMA DayStep ==
  ASSUME NEW d \in RowIds, OnlyDay(d), KeepsDay(d)
  PROVE  [Promise!Next]_Promise!vars
<1> DEFINE state == [i \in RowIds |-> LiveState(i)]
           overtime == [i \in RowIds |-> rows[i].ot # None]
           vacated == {i \in RowIds : rows[i].date # None /\ rows[i].in = None}
<1>1. ASSUME NEW i \in RowIds \ {d}
      PROVE  LiveState(i)' = LiveState(i) /\ rows'[i] = rows[i]
  <2>1. rows'[i] = rows[i]
    BY DEF OnlyDay
  <2>2. OpenEntries(i)' = OpenEntries(i)
    BY DEF OnlyDay, OpenEntries, EntriesOf
  <2> QED
    BY <2>1, <2>2 DEF LiveState, HasCheckIn
<1>2. state' = [i \in RowIds |-> LiveState(i)'] /\ overtime' = [i \in RowIds |-> rows'[i].ot # None]
      /\ vacated' = {i \in RowIds : rows'[i].date # None /\ rows'[i].in = None}
  OBVIOUS
<1>3. state' = [state EXCEPT ![d] = LiveState(d)']
  BY <1>1, <1>2
<1>4. overtime' = [overtime EXCEPT ![d] = InOvertime(d)']
  BY <1>1, <1>2 DEF InOvertime
<1>5. state[d] = LiveState(d) /\ overtime[d] = InOvertime(d) /\ (d \in vacated <=> Vacant(d))
  BY DEF InOvertime, Vacant
<1>6. state = [state EXCEPT ![d] = LiveState(d)] /\ overtime = [overtime EXCEPT ![d] = InOvertime(d)]
  BY DEF InOvertime
<1>7. \A i \in RowIds \ {d} : i \in vacated' <=> i \in vacated
  BY <1>1
<1>8. d \in vacated' <=> Vacant(d)'
  BY DEF Vacant
<1>9. vacated \subseteq RowIds /\ vacated' \subseteq RowIds
  OBVIOUS
<1>10. (Vacant(d)' <=> Vacant(d)) => vacated' = vacated
  BY <1>5, <1>7, <1>8, <1>9
<1>11. ~Vacant(d)' => vacated' = vacated \ {d}
  BY <1>7, <1>8, <1>9
<1>12. LiveState(d)' = "IN" => ~Vacant(d)'
  BY LiveCases DEF LiveIs, Vacant
<1> HIDE DEF vacated
<1>13. ASSUME NEW s, LiveState(d)' = s
       PROVE  state' = [state EXCEPT ![d] = s]
  BY <1>3, <1>13
<1>14. CASE /\ InOvertime(d)' <=> InOvertime(d)
            /\ Vacant(d)' <=> Vacant(d)
            /\ LiveState(d)' = LiveState(d)
  <2>1. state' = state /\ overtime' = overtime /\ vacated' = vacated
    BY <1>3, <1>4, <1>6, <1>10, <1>14
  <2> QED
    BY <2>1 DEF Promise!vars, vacated
<1>15. CASE /\ InOvertime(d)' <=> InOvertime(d)
            /\ Vacant(d)' <=> Vacant(d)
            /\ Moves(d)
  <2>1. overtime' = overtime /\ vacated' = vacated
    BY <1>4, <1>6, <1>10, <1>15
  <2>2. CASE LiveState(d) = "NOT_IN" /\ LiveState(d)' = "IN"
    <3>1. d \notin vacated
      BY <1>5, <1>12, <1>15, <2>2
    <3>2. Promise!CheckIn(d)
      BY <1>5, <1>13, <2>1, <2>2, <3>1 DEF Promise!CheckIn, Promise!To, vacated
    <3> QED
      BY <3>2 DEF Promise!Next
  <2>3. CASE LiveState(d) = "IN" /\ LiveState(d)' = "ON_BREAK"
    <3>1. Promise!StartBreak(d)
      BY <1>5, <1>13, <2>1, <2>3 DEF Promise!StartBreak, Promise!To, vacated
    <3> QED
      BY <3>1 DEF Promise!Next
  <2>4. CASE LiveState(d) = "ON_BREAK" /\ LiveState(d)' = "IN"
    <3>1. Promise!EndBreak(d)
      BY <1>5, <1>13, <2>1, <2>4 DEF Promise!EndBreak, Promise!To, vacated
    <3> QED
      BY <3>1 DEF Promise!Next
  <2>5. CASE LiveState(d) \in {"IN", "ON_BREAK"} /\ LiveState(d)' = "OUT"
    <3>1. Promise!Close(d)
      BY <1>5, <1>13, <2>1, <2>5 DEF Promise!Close, Promise!To, Promise!Open, vacated
    <3> QED
      BY <3>1 DEF Promise!Next
  <2> QED
    BY <1>15, <2>2, <2>3, <2>4, <2>5 DEF Moves
<1>16. CASE StartsOvertime(d) /\ (Vacant(d)' <=> Vacant(d))
  <2>1. overtime' = [overtime EXCEPT ![d] = TRUE] /\ vacated' = vacated
    BY <1>4, <1>10, <1>16 DEF StartsOvertime
  <2>2. CASE LiveState(d)' = LiveState(d) /\ LiveState(d) # "NOT_IN"
    <3>1. state' = state
      BY <1>3, <1>6, <2>2
    <3>2. Promise!StartOvertime(d)
      BY <1>5, <1>16, <2>1, <2>2, <3>1 DEF StartsOvertime, Promise!StartOvertime, vacated
    <3> QED
      BY <3>2 DEF Promise!Next
  <2>3. CASE LiveState(d) = "OUT" /\ LiveState(d)' \in {"IN", "ON_BREAK"}
    <3>1. Promise!Reopen(d)
      BY <1>3, <1>5, <1>16, <2>1, <2>3
         DEF StartsOvertime, Promise!Reopen, Promise!To, Promise!Open, vacated
    <3> QED
      BY <3>1 DEF Promise!Next
  <2> QED
    BY <1>16, <2>2, <2>3 DEF StartsOvertime
<1>17. CASE /\ InOvertime(d)' <=> InOvertime(d)
            /\ Vacant(d) /\ ~Vacant(d)'
            /\ LiveState(d) = "NOT_IN" /\ LiveState(d)' \in {"IN", "OUT"}
  <2>1. overtime' = overtime /\ vacated' = vacated \ {d}
    BY <1>4, <1>6, <1>11, <1>17
  <2>2. Promise!CheckInAgain(d)
    BY <1>3, <1>5, <1>17, <2>1 DEF Promise!CheckInAgain, Promise!To, vacated
  <2> QED
    BY <2>2 DEF Promise!Next
<1> QED
  BY <1>14, <1>15, <1>16, <1>17 DEF KeepsDay

LEMMA SameDays ==
  ASSUME UNCHANGED <<rows, entries>>
  PROVE  [Promise!Next]_Promise!vars
<1>1. \A i \in RowIds : OpenEntries(i)' = OpenEntries(i)
  BY DEF OpenEntries, EntriesOf
<1>2. \A i \in RowIds : LiveState(i)' = LiveState(i)
  BY <1>1 DEF LiveState, HasCheckIn
<1> QED
  BY <1>2 DEF Promise!vars

\* A step that changes nothing FindsDay speaks of.
Plain ==
    /\ \A i \in RowIds : /\ rows'[i].date = rows[i].date
                         /\ rows'[i].in = rows[i].in
                         /\ rows'[i].ot = rows[i].ot
                         /\ rows[i].out # None => rows'[i].out # None

LEMMA PlainStep ==
  ASSUME PromiseInv, TypeInv, Plain,
         \A p \in Reqs : \/ Idle(p)'
                         \/ req'[p] = req[p] /\ ~Idle(p)
                         \/ FindsDay(req'[p])
  PROVE  PromiseInv'
<1>1. NewDays'
  BY DEF PromiseInv, NewDays, Plain
<1>2. ASSUME NEW p \in Reqs, ~Idle(p)'
      PROVE  FindsDay(req[p])'
  <2>1. FindsDay(req'[p])
    <3>1. CASE req'[p] = req[p] /\ ~Idle(p)
      <4>1. FindsDay(req[p])
        BY <3>1 DEF PromiseInv
      <4> QED
        BY <3>1, <4>1
    <3> QED
      BY <1>2, <3>1
  <2>2. PICK q : q = req'[p]
    OBVIOUS
  <2>3. FindsDay(q)
    BY <2>1, <2>2
  <2>4. /\ q.pc \in {"close", "out", "stamp", "reopen"} => q.row \in RowIds /\ rows'[q.row].in # None
        /\ q.pc \in {"stamp", "reopen"} => rows'[q.row].ot = None
        /\ q.pc = "reopen" => rows'[q.row].out # None
        /\ q.pc \in {"clash", "merge"} => /\ q.row \in RowIds /\ rows'[q.row].in # None
                                          /\ q.out # None => rows'[q.row].out # None
        /\ q.pc = "merge" /\ q.row2 # None => /\ q.row2 \in RowIds
                                              /\ q.out2 # None => rows'[q.row2].out # None
    BY <2>3 DEF FindsDay, Plain
  <2> QED
    BY <2>2, <2>4 DEF FindsDay
<1> QED
  BY <1>1, <1>2 DEF PromiseInv

\* A request that only reads.
LEMMA ReadKeepsPromise ==
  ASSUME OneRequest, PromiseInv, TypeInv, Quiet, NEW r \in Reqs,
         NEW q, FindsDay(q), req' = [req EXCEPT ![r] = q]
  PROVE  PromiseInv' /\ [Promise!Next]_Promise!vars
<1>1. \A p \in Reqs : FindsDay(req'[p])
  BY DEF OneRequest, TypeInv, TypeOK
<1>2. Plain
  BY DEF Quiet, Plain
<1>3. UNCHANGED <<rows, entries>>
  BY DEF Quiet
<1> QED
  BY <1>1, <1>2, <1>3, PlainStep, SameDays

\* A refused request, and any other that gives up.
LEMMA RefusedKeepsPromise ==
  ASSUME PromiseInv, TypeInv, UNCHANGED <<rows, entries>>,
         \A p \in Reqs : Idle(p)' \/ (req'[p] = req[p] /\ ~Idle(p))
  PROVE  PromiseInv' /\ [Promise!Next]_Promise!vars
<1>1. Plain
  BY DEF Plain
<1> QED
  BY <1>1, PlainStep, SameDays

LEMMA ReplyKeepsPromise ==
  ASSUME PromiseInv, TypeInv, Quiet, NEW r \in Reqs, Reply(r)
  PROVE  PromiseInv' /\ [Promise!Next]_Promise!vars
<1>1. \A p \in Reqs : Idle(p)' \/ (req'[p] = req[p] /\ ~Idle(p))
  BY DEF TypeInv, TypeOK, Idle, Reply, NoRequest
<1> QED
  BY <1>1, RefusedKeepsPromise DEF Quiet

\* What the check-in finds on its date, and on the date of a session it finds there.
LEMMA CheckInReadPromise ==
  ASSUME OneRequest, DayInv, PromiseInv, NEW r \in Reqs, CheckInRead(r)
  PROVE  PromiseInv' /\ [Promise!Next]_Promise!vars
<1> DEFINE e == RowOn(ShiftDay(req[r].zone, now))
           q == [req[r] EXCEPT !.pc = "clash", !.row = e, !.in = rows[e].in, !.out = rows[e].out]
           u == [req[r] EXCEPT !.pc = "upsert"]
<1>1. Quiet /\ TypeInv /\ req[r] \in Request /\ req \in [Reqs -> Request]
  BY DEF CheckInRead, Quiet, DayInv, IInv, TypeInv, TypeOK
<1>2. CASE Reply(r)
  BY <1>1, <1>2, ReplyKeepsPromise
<1>3. CASE /\ HasCheckIn(e)
           /\ req' = [req EXCEPT ![r].pc = "clash", ![r].row = e,
                                 ![r].in = rows[e].in, ![r].out = rows[e].out]
  <2>1. e \in RowIds /\ rows[e].in # None
    BY <1>3, RowOnFinds DEF HasCheckIn
  <2>2. q.pc = "clash" /\ q.row = e /\ q.out = rows[e].out
    BY <1>1 DEF Request
  <2>3. req' = [req EXCEPT ![r] = q]
    BY <1>1, <1>3, Zenon
  <2> HIDE DEF q, e
  <2>4. FindsDay(q)
    BY <2>1, <2>2 DEF FindsDay
  <2> QED
    BY <1>1, <2>3, <2>4, ReadKeepsPromise
<1>4. CASE req' = [req EXCEPT ![r].pc = "upsert"]
  <2>1. req' = [req EXCEPT ![r] = u]
    BY <1>1, <1>4, Zenon
  <2>2. u.pc = "upsert"
    BY <1>1 DEF Request
  <2> HIDE DEF u
  <2>3. FindsDay(u)
    BY <2>2 DEF FindsDay
  <2> QED
    BY <1>1, <2>1, <2>3, ReadKeepsPromise
<1> QED
  BY <1>2, <1>3, <1>4 DEF CheckInRead

LEMMA CheckInClashPromise ==
  ASSUME OneRequest, DayInv, PromiseInv, NEW r \in Reqs, CheckInClash(r)
  PROVE  PromiseInv' /\ [Promise!Next]_Promise!vars
<1> DEFINE c == RowOn(ShiftDay(req[r].zone, req[r].in))
           in2 == IF c = None THEN None ELSE rows[c].in
           out2 == IF c = None THEN None ELSE rows[c].out
           q == [req[r] EXCEPT !.pc = "merge", !.row2 = c, !.in2 = in2, !.out2 = out2]
<1>1. Quiet /\ TypeInv /\ req[r] \in Request /\ req[r].pc = "clash" /\ ~Idle(r)
  BY DEF CheckInClash, Quiet, DayInv, IInv, TypeInv, TypeOK, At, Idle
<1>2. req' = [req EXCEPT ![r] = q]
  BY Zenon DEF CheckInClash, DayInv, IInv, TypeInv, TypeOK
<1>3. /\ q.pc = "merge" /\ q.row = req[r].row /\ q.out = req[r].out
      /\ q.row2 = c /\ q.out2 = out2
  BY <1>1 DEF Request
<1>4. c # None => c \in RowIds
  BY RowOnFinds
<1> HIDE DEF q, c
<1>5. FindsDay(req[r])
  BY <1>1 DEF PromiseInv
<1>6. FindsDay(q)
  BY <1>1, <1>3, <1>4, <1>5 DEF FindsDay
<1> QED
  BY <1>1, <1>2, <1>6, ReadKeepsPromise

\* The whole session moves to its date: no day changes.
LEMMA MovePromise ==
  ASSUME OneRequest, DayInv, PromiseInv, NEW r \in Reqs, CheckInMove(r)
  PROVE  PromiseInv' /\ [Promise!Next]_Promise!vars
<1> DEFINE proper == ShiftDay(req[r].zone, req[r].in)
           u == [req[r] EXCEPT !.pc = "upsert"]
<1>1. /\ TypeInv /\ req[r] \in Request /\ req[r].pc = "merge" /\ ~Idle(r) /\ entries' = entries
      /\ rows \in [RowIds -> Row] /\ req \in [Reqs -> Request]
  BY DEF CheckInMove, DayInv, IInv, TypeInv, TypeOK, At, Idle
<1>2. CASE UNCHANGED rows /\ Reply(r)
  <2>1. Quiet
    BY <1>2 DEF CheckInMove, Quiet
  <2> QED
    BY <1>1, <1>2, <2>1, ReplyKeepsPromise
<1>3. CASE /\ rows' = [rows EXCEPT ![req[r].row].date = proper]
           /\ req' = [req EXCEPT ![r].pc = "upsert"]
  <2>1. FindsDay(req[r]) /\ ReqOK(req[r])
    BY <1>1 DEF PromiseInv, TypeInv
  <2>2. PICK d \in RowIds : d = req[r].row
    BY <1>1, <2>1 DEF FindsDay
  <2>3. rows[d].in # None /\ proper # None
    <3>1. req[r].in \in Time /\ req[r].zone \in Nat
      BY <1>1, <2>1 DEF ReqOK, Request
    <3>2. proper \in Nat
      BY <3>1, ShiftDayType
    <3> QED
      BY <1>1, <2>1, <2>2, <3>2 DEF FindsDay, None
  <2> HIDE DEF proper
  <2>4. /\ \A i \in RowIds \ {d} : rows'[i] = rows[i]
        /\ rows'[d].date = proper /\ rows'[d].in = rows[d].in /\ rows'[d].out = rows[d].out
        /\ rows'[d].ot = rows[d].ot
    BY <1>1, <1>3, <2>2 DEF Row
  <2>5. OnlyDay(d) /\ OpenEntries(d)' = OpenEntries(d)
    BY <1>1, <2>4 DEF OnlyDay, OpenEntries, EntriesOf
  <2>6. LiveState(d)' = LiveState(d)
    BY <2>4, <2>5 DEF LiveState, HasCheckIn
  <2>7. KeepsDay(d)
    BY <2>3, <2>4, <2>6 DEF KeepsDay, InOvertime, Vacant
  <2>8. [Promise!Next]_Promise!vars
    BY <2>5, <2>7, DayStep
  <2>9. NewDays'
    BY <2>3, <2>4 DEF PromiseInv, NewDays
  <2>10. u.pc = "upsert" /\ req' = [req EXCEPT ![r] = u]
    BY <1>1, <1>3, Zenon DEF Request
  <2>11. \A p \in Reqs : req'[p].pc = "upsert"
    BY <1>1, <2>10 DEF OneRequest
  <2> QED
    BY <2>8, <2>9, <2>11 DEF PromiseInv, FindsDay
<1> QED
  BY <1>2, <1>3 DEF CheckInMove

\* The other requests, as they arrive or read.
LEMMA OtherReadsPromise ==
  ASSUME OneRequest, DayInv, PromiseInv, NEW r \in Reqs,
         \/ \E op \in Ops : Arrive(r, op)
         \/ CheckOutRead(r) \/ OvertimeRead(r) \/ BreakStartRead(r) \/ BreakEndRead(r)
  PROVE  PromiseInv' /\ [Promise!Next]_Promise!vars
<1> DEFINE i == FindCurrent(req[r].zone, req[r].at)
<1>1. Quiet /\ TypeInv /\ TypeOK
  BY DEF Arrive, CheckOutRead, OvertimeRead, BreakStartRead, BreakEndRead, Quiet, DayInv, IInv, TypeInv
<1>2. req[r] \in Request
  BY <1>1 DEF TypeOK
<1>3. HasCheckIn(i) => i \in RowIds /\ rows[i].in # None
  BY <1>1, FindCurrentHas
<1> HIDE DEF i
<1>5. ASSUME NEW op \in Ops, Arrive(r, op)
      PROVE  PromiseInv' /\ [Promise!Next]_Promise!vars
  <2> DEFINE q == [NoRequest EXCEPT !.op = op, !.pc = "read", !.at = now, !.zone = zone]
  <2>1. q.pc = "read" /\ req' = [req EXCEPT ![r] = q]
    BY <1>5 DEF Arrive, NoRequest
  <2> HIDE DEF q
  <2>2. FindsDay(q)
    BY <2>1 DEF FindsDay
  <2> QED
    BY <1>1, <2>1, <2>2, ReadKeepsPromise
<1>6. CASE CheckOutRead(r)
  <2> DEFINE q == [req[r] EXCEPT !.pc = "close", !.row = i]
  <2>0. ~Idle(r)
    BY <1>6 DEF CheckOutRead, At, Idle
  <2>1. Reply(r) \/ (HasCheckIn(i) /\ req' = [req EXCEPT ![r] = q])
    BY <1>6 DEF CheckOutRead, i
  <2>2. q.pc = "close" /\ q.row = i
    BY <1>2 DEF Request
  <2> HIDE DEF q
  <2>3. HasCheckIn(i) => FindsDay(q)
    BY <1>2, <1>3, <2>0, <2>2 DEF FindsDay
  <2> QED
    BY <1>1, <2>1, <2>3, ReadKeepsPromise, ReplyKeepsPromise
<1>7. CASE OvertimeRead(r)
  <2> DEFINE q == [req[r] EXCEPT !.pc = "reopen", !.row = i, !.out = rows[i].out]
             p == [req[r] EXCEPT !.pc = "stamp", !.row = i]
  <2>0. ~Idle(r)
    BY <1>7 DEF OvertimeRead, At, Idle
  <2>1. \/ Reply(r)
        \/ HasCheckIn(i) /\ rows[i].out # None /\ rows[i].ot = None /\ req' = [req EXCEPT ![r] = q]
        \/ HasCheckIn(i) /\ rows[i].ot = None /\ req' = [req EXCEPT ![r] = p]
    BY <1>7 DEF OvertimeRead, i, CanRestartForOvertime
  <2>2. /\ q.pc = "reopen" /\ q.row = i
        /\ p.pc = "stamp" /\ p.row = i
    BY <1>2 DEF Request
  <2> HIDE DEF q, p
  <2>3. HasCheckIn(i) /\ rows[i].ot = None => FindsDay(p) /\ (rows[i].out # None => FindsDay(q))
    BY <1>2, <1>3, <2>0, <2>2 DEF FindsDay
  <2> QED
    BY <1>1, <2>1, <2>3, ReadKeepsPromise, ReplyKeepsPromise
<1>8. CASE BreakStartRead(r)
  <2> DEFINE q == [req[r] EXCEPT !.pc = "create", !.row = i]
  <2>0. ~Idle(r)
    BY <1>8 DEF BreakStartRead, At, Idle
  <2>1. Reply(r) \/ req' = [req EXCEPT ![r] = q]
    BY <1>8 DEF BreakStartRead, i
  <2>2. q.pc = "create"
    BY <1>2 DEF Request
  <2> HIDE DEF q
  <2>3. FindsDay(q)
    BY <2>2 DEF FindsDay
  <2> QED
    BY <1>1, <2>1, <2>3, ReadKeepsPromise, ReplyKeepsPromise
<1>9. CASE BreakEndRead(r)
  <2>0. ~Idle(r)
    BY <1>9 DEF BreakEndRead, At, Idle
  <2>1. Reply(r) \/ \E b \in BreakIds :
                        req' = [req EXCEPT ![r] = [req[r] EXCEPT !.pc = "end", !.row = i, !.row2 = b]]
    BY <1>9 DEF BreakEndRead, i, OpenEntries, EntriesOf
  <2>2. ASSUME NEW b \in BreakIds,
               req' = [req EXCEPT ![r] = [req[r] EXCEPT !.pc = "end", !.row = i, !.row2 = b]]
        PROVE  PromiseInv' /\ [Promise!Next]_Promise!vars
    <3> DEFINE q == [req[r] EXCEPT !.pc = "end", !.row = i, !.row2 = b]
    <3>1. q.pc = "end" /\ req' = [req EXCEPT ![r] = q]
      BY <1>2, <2>2 DEF Request
    <3> HIDE DEF q
    <3>2. FindsDay(q)
      BY <3>1 DEF FindsDay
    <3> QED
      BY <1>1, <3>1, <3>2, ReadKeepsPromise
  <2> QED
    BY <1>1, <2>1, <2>2, ReplyKeepsPromise
<1> QED
  BY <1>5, <1>6, <1>7, <1>8, <1>9

\* A break of one day ends: the day goes back from ON_BREAK to IN, unless another
\* one runs or it is closed.
LEMMA EndsBreak ==
  ASSUME DayInv, NEW d \in RowIds, rows' = rows,
         \A b \in BreakIds : \/ entries'[b] = entries[b]
                             \/ entries[b].row = d /\ entries'[b].row = d /\ entries'[b].end # None
  PROVE  [Promise!Next]_Promise!vars
<1>1. OnlyDay(d)
  BY DEF OnlyDay
<1>2. OpenEntries(d)' \subseteq OpenEntries(d)
  BY DEF OpenEntries, EntriesOf
<1>3. LiveIs(d) /\ LiveIs(d)'
  BY LiveCases
<1>4. KeepsDay(d)
  BY <1>2, <1>3 DEF LiveIs, KeepsDay, Moves, InOvertime, Vacant
<1> QED
  BY <1>1, <1>4, DayStep

\* The jobs.
LEMMA JobsKeepPromise ==
  ASSUME DayInv, PromiseInv, AutoCheckout \/ BreakCutoff
  PROVE  PromiseInv' /\ [Promise!Next]_Promise!vars
<1>1. /\ TypeInv
      /\ entries \in [BreakIds -> Entry] /\ rows \in [RowIds -> Row]
      /\ sweep \subseteq [row : RowIds, due : Time, overtime : BOOLEAN]
      /\ cut \subseteq [entry : BreakIds, due : Time]
  BY DEF DayInv, IInv, TypeInv, TypeOK
<1>2. req' = req /\ \A p \in Reqs : Idle(p)' \/ (req'[p] = req[p] /\ ~Idle(p))
  BY DEF AutoCheckout, BreakCutoff, SweepRead, SweepClose, CutRead, CutEnd, Idle
<1>3. ASSUME SweepRead \/ CutRead
      PROVE  PromiseInv' /\ [Promise!Next]_Promise!vars
  BY <1>1, <1>2, <1>3, RefusedKeepsPromise DEF SweepRead, CutRead
<1>4. ASSUME NEW s \in sweep, SweepClose(s)
      PROVE  PromiseInv' /\ [Promise!Next]_Promise!vars
  <2> DEFINE d == s.row
  <2>1. d \in RowIds /\ s.due # None /\ None \notin RowIds /\ Gone \notin RowIds
    BY <1>1, Constants DEF Time, None, Gone
  <2>2. /\ \A i \in RowIds \ {d} : rows'[i] = rows[i]
        /\ rows'[d].date = rows[d].date /\ rows'[d].in = rows[d].in /\ rows'[d].ot = rows[d].ot
        /\ rows'[d].out # None
    BY <1>1, <1>4, <2>1 DEF SweepClose, Row
  <2>3. \A b \in BreakIds : \/ entries'[b] = entries[b]
                            \/ entries[b].row = d /\ entries'[b].row \in {d, Gone}
    <3>1. \A b \in BreakIds : \/ entries'[b] = entries[b]
                              \/ entries[b].row = d /\ entries'[b] = [entries[b] EXCEPT !.end = s.due]
                              \/ entries[b].row = d /\ entries'[b].row = Gone
      BY <1>4 DEF SweepClose, NoEntry, OpenEntries, EntriesOf
    <3> QED
      BY <1>1, <3>1 DEF Entry
  <2> HIDE DEF d
  <2>4. OnlyDay(d)
    BY <2>1, <2>2, <2>3 DEF OnlyDay
  <2>5. LiveIs(d) /\ LiveIs(d)'
    BY <2>1, LiveCases
  <2>6. KeepsDay(d)
    BY <2>2, <2>5 DEF LiveIs, KeepsDay, Moves, InOvertime, Vacant
  <2>7. Plain
    BY <1>2, <2>2 DEF Plain
  <2> QED
    BY <1>1, <1>2, <2>1, <2>4, <2>6, <2>7, DayStep, PlainStep
<1>5. ASSUME NEW c \in cut, CutEnd(c)
      PROVE  PromiseInv' /\ [Promise!Next]_Promise!vars
  <2>1. c.entry \in BreakIds /\ c.due # None /\ rows' = rows
    BY <1>1, <1>5 DEF CutEnd, Time, None
  <2>2. CASE entries' = entries
    BY <1>1, <1>2, <2>1, <2>2, RefusedKeepsPromise
  <2>3. CASE Exists(c.entry) /\ entries' = [entries EXCEPT ![c.entry].end = c.due, ![c.entry].auto = TRUE]
    <3>1. PICK d \in RowIds : d = entries[c.entry].row
      BY <2>3 DEF Exists
    <3>2. \A b \in BreakIds : b # c.entry => entries'[b] = entries[b]
      BY <1>1, <2>3
    <3>3. entries'[c.entry].row = d /\ entries'[c.entry].end # None
      BY <1>1, <2>1, <2>3, <3>1 DEF Entry
    <3>4. \A b \in BreakIds : \/ entries'[b] = entries[b]
                              \/ entries[b].row = d /\ entries'[b].row = d /\ entries'[b].end # None
      BY <3>1, <3>2, <3>3
    <3>5. [Promise!Next]_Promise!vars
      BY <2>1, <3>1, <3>4, EndsBreak
    <3>6. Plain
      BY <1>2, <2>1 DEF Plain
    <3> QED
      BY <1>1, <1>2, <3>5, <3>6, PlainStep
  <2> QED
    BY <1>5, <2>2, <2>3 DEF CutEnd
<1> QED
  BY <1>3, <1>4, <1>5 DEF AutoCheckout, BreakCutoff

LEMMA RestKeepsPromise ==
  ASSUME DayInv, PromiseInv,
         Advance \/ Crash \/ (\E z \in Zones : ChangeShift(z)) \/ UNCHANGED vars
  PROVE  PromiseInv' /\ [Promise!Next]_Promise!vars
<1>1. UNCHANGED <<rows, entries>> /\ TypeInv
  BY DEF Advance, Crash, ChangeShift, vars, DayInv, IInv
<1>2. \A p \in Reqs : Idle(p)' \/ (req'[p] = req[p] /\ ~Idle(p))
  BY DEF Advance, Crash, ChangeShift, vars, Idle, NoRequest
<1> QED
  BY <1>1, <1>2, RefusedKeepsPromise

\* The writes.
LEMMA ClosingPromise ==
  ASSUME OneRequest, DayInv, PromiseInv, NEW r \in Reqs,
         CheckOutCloseBreaks(r) \/ CheckOutWrite(r) \/ BreakEndWrite(r)
  PROVE  PromiseInv' /\ [Promise!Next]_Promise!vars
<1>1. /\ TypeInv /\ ~Idle(r) /\ req[r] \in Request /\ req \in [Reqs -> Request]
      /\ entries \in [BreakIds -> Entry] /\ rows \in [RowIds -> Row]
      /\ req[r].at # None
  BY DEF DayInv, IInv, TypeInv, TypeOK, CheckOutCloseBreaks, CheckOutWrite, BreakEndWrite, At, Idle,
     Request, Time, None
<1>2. FindsDay(req[r])
  BY <1>1 DEF PromiseInv
<1>3. CASE CheckOutCloseBreaks(r)
  <2>1. req[r].pc = "close" /\ rows' = rows
    BY <1>3 DEF CheckOutCloseBreaks, At
  <2>2. PICK d \in RowIds : d = req[r].row
    BY <1>2, <2>1 DEF FindsDay
  <2>3. \A b \in BreakIds : \/ entries'[b] = entries[b]
                            \/ entries[b].row = d /\ entries'[b].row = d /\ entries'[b].end # None
    <3>1. \A b \in BreakIds :
            \/ entries'[b] = entries[b]
            \/ entries[b].row = d /\ entries'[b] = [entries[b] EXCEPT !.end = req[r].at]
      BY <1>3, <2>2 DEF CheckOutCloseBreaks, OpenEntries, EntriesOf
    <3> QED
      BY <1>1, <3>1 DEF Entry
  <2>4. [Promise!Next]_Promise!vars
    BY <2>1, <2>2, <2>3, EndsBreak
  <2> DEFINE q == [req[r] EXCEPT !.pc = "out"]
  <2>5. req' = [req EXCEPT ![r] = q] /\ q.pc = "out" /\ q.row = d
    BY <1>1, <1>3, <2>2 DEF CheckOutCloseBreaks, Request
  <2> HIDE DEF q
  <2>6. FindsDay(q)
    BY <1>2, <2>1, <2>2, <2>5 DEF FindsDay
  <2>7. \A p \in Reqs : req'[p] = q
    BY <1>1, <2>5 DEF OneRequest
  <2>8. Plain
    BY <1>1, <2>1 DEF Plain
  <2> QED
    BY <1>1, <2>4, <2>6, <2>7, <2>8, PlainStep
<1>4. CASE CheckOutWrite(r)
  <2>1. req[r].pc = "out" /\ entries' = entries /\ rows' = [rows EXCEPT ![req[r].row].out = req[r].at]
    BY <1>4 DEF CheckOutWrite, At
  <2>2. PICK d \in RowIds : d = req[r].row
    BY <1>2, <2>1 DEF FindsDay
  <2>3. /\ \A i \in RowIds \ {d} : rows'[i] = rows[i]
        /\ rows'[d].date = rows[d].date /\ rows'[d].in = rows[d].in /\ rows'[d].ot = rows[d].ot
        /\ rows'[d].out # None
    BY <1>1, <2>1, <2>2 DEF Row
  <2>4. OnlyDay(d)
    BY <2>1, <2>3 DEF OnlyDay
  <2>5. LiveIs(d) /\ LiveIs(d)'
    BY <2>2, LiveCases
  <2>6. KeepsDay(d)
    BY <2>3, <2>5 DEF LiveIs, KeepsDay, Moves, InOvertime, Vacant
  <2>7. Plain
    BY <1>1, <2>3 DEF Plain
  <2>8. \A p \in Reqs : Idle(p)'
    BY <1>4, ReplyMild DEF CheckOutWrite
  <2> QED
    BY <1>1, <2>2, <2>4, <2>6, <2>7, <2>8, DayStep, PlainStep
<1>5. CASE BreakEndWrite(r)
  <2> DEFINE c == req[r].row2
  <2>1. rows' = rows /\ Plain /\ \A p \in Reqs : Idle(p)'
    BY <1>1, <1>5, ReplyMild DEF BreakEndWrite, Plain
  <2>2. CASE ~Exists(c) \/ c \notin BreakIds
    <3>1. entries' = entries
      BY <1>1, <1>5, <2>2 DEF BreakEndWrite
    <3> QED
      BY <1>1, <2>1, <3>1, SameDays, PlainStep
  <2>3. CASE Exists(c) /\ c \in BreakIds
    <3>1. entries' = [entries EXCEPT ![c].end = req[r].at]
      BY <1>5, <2>3 DEF BreakEndWrite
    <3>2. \A b \in BreakIds :
            \/ entries'[b] = entries[b]
            \/ /\ entries[b].row = entries[c].row /\ entries'[b].row = entries[c].row
               /\ entries'[b].end # None
      BY <1>1, <2>3, <3>1 DEF Entry
    <3>3. PICK k \in RowIds : k = entries[c].row
      BY <2>3 DEF Exists
    <3>4. [Promise!Next]_Promise!vars
      BY <2>1, <3>2, <3>3, EndsBreak
    <3> QED
      BY <1>1, <2>1, <3>4, PlainStep
  <2> QED
    BY <2>2, <2>3
<1> QED
  BY <1>3, <1>4, <1>5

LEMMA BreakStartPromise ==
  ASSUME OneRequest, DayInv, PromiseInv, NEW r \in Reqs, BreakStartCreate(r)
  PROVE  PromiseInv' /\ [Promise!Next]_Promise!vars
<1>1. /\ TypeInv /\ ~Idle(r) /\ entries \in [BreakIds -> Entry] /\ FreeEntry # {}
      /\ req[r].row \in RowIds /\ rows[req[r].row].in # None /\ OpenEntries(req[r].row) = {}
  <2>1. ~Idle(r) /\ req[r].pc = "create" /\ req[r].op \in Creators
    BY DEF BreakStartCreate, At, Idle, Creators
  <2>2. Carries(req[r]) /\ ReqOK(req[r]) /\ Finds(req[r])
    BY <2>1, Carried DEF DayInv
  <2> QED
    BY <2>1, <2>2 DEF DayInv, IInv, TypeInv, TypeOK, Carries, ReqOK, Finds, FindsBreak
<1>2. FreshEntry \in BreakIds /\ entries[FreshEntry].row = None /\ None \notin RowIds
  BY <1>1, Constants DEF FreshEntry, FreeEntry, None
<1>3. PICK d \in RowIds : d = req[r].row
  BY <1>1
<1>4. /\ rows' = rows
      /\ \A b \in BreakIds : b # FreshEntry => entries'[b] = entries[b]
      /\ entries'[FreshEntry].row = d /\ entries'[FreshEntry].end = None
  BY <1>1, <1>2, <1>3 DEF BreakStartCreate, AddEntry
<1> HIDE DEF FreshEntry
<1>5. OnlyDay(d)
  BY <1>2, <1>3, <1>4 DEF OnlyDay
<1>6. OpenEntries(d)' # {}
  BY <1>2, <1>4 DEF OpenEntries, EntriesOf
<1>7. LiveIs(d) /\ LiveIs(d)'
  BY LiveCases
<1>8. KeepsDay(d)
  BY <1>1, <1>3, <1>4, <1>6, <1>7 DEF LiveIs, KeepsDay, Moves, InOvertime, Vacant
<1>9. Plain /\ \A p \in Reqs : Idle(p)'
  BY <1>4, ReplyMild DEF Plain, BreakStartCreate
<1> QED
  BY <1>1, <1>5, <1>8, <1>9, DayStep, PlainStep

\* Overtime is written on the day it was asked for.
LEMMA OvertimePromise ==
  ASSUME OneRequest, DayInv, PromiseInv, NEW r \in Reqs, OvertimeReopen(r) \/ OvertimeStamp(r)
  PROVE  PromiseInv' /\ [Promise!Next]_Promise!vars
<1>1. /\ TypeInv /\ ~Idle(r) /\ req[r].pc \in {"reopen", "stamp"}
      /\ entries \in [BreakIds -> Entry] /\ rows \in [RowIds -> Row]
      /\ req[r].at # None /\ \A p \in Reqs : Idle(p)'
  <2>1. \A p \in Reqs : Idle(p)'
    BY ReplyMild DEF OvertimeReopen, OvertimeStamp
  <2> QED
    BY <2>1 DEF DayInv, IInv, TypeInv, TypeOK, OvertimeReopen, OvertimeStamp, At, Idle, Request, Time, None
<1>2. FindsDay(req[r])
  BY <1>1 DEF PromiseInv
<1>3. PICK d \in RowIds : d = req[r].row
  BY <1>1, <1>2 DEF FindsDay
<1>4. rows[d].in # None /\ rows[d].ot = None
  BY <1>1, <1>2, <1>3 DEF FindsDay
<1>5. LiveIs(d) /\ LiveIs(d)'
  BY LiveCases
<1>6. ASSUME \A i \in RowIds \ {d} : rows'[i] = rows[i],
             rows'[d].date = rows[d].date, rows'[d].in = rows[d].in, rows'[d].ot # None
      PROVE  PromiseInv'
  <2>1. rows[d].date # None
    BY <1>4 DEF DayInv, OneDate
  <2>2. NewDays'
    BY <1>1, <1>6, <2>1 DEF PromiseInv, NewDays
  <2> QED
    BY <1>1, <2>2 DEF PromiseInv
<1>7. CASE OvertimeStamp(r)
  <2>1. entries' = entries /\ rows' = [rows EXCEPT ![d].ot = req[r].at]
    BY <1>3, <1>7 DEF OvertimeStamp
  <2>2. /\ \A i \in RowIds \ {d} : rows'[i] = rows[i]
        /\ rows'[d].date = rows[d].date /\ rows'[d].in = rows[d].in /\ rows'[d].out = rows[d].out
        /\ rows'[d].ot # None
    BY <1>1, <2>1 DEF Row
  <2>3. OpenEntries(d)' = OpenEntries(d) /\ OnlyDay(d)
    BY <2>1, <2>2 DEF OpenEntries, EntriesOf, OnlyDay
  <2>4. LiveState(d)' = LiveState(d) /\ LiveState(d) # "NOT_IN"
    BY <1>4, <1>5, <2>2, <2>3 DEF LiveIs, LiveState, HasCheckIn
  <2>5. KeepsDay(d)
    BY <1>4, <2>2, <2>4 DEF KeepsDay, StartsOvertime, InOvertime, Vacant
  <2> QED
    BY <1>6, <2>2, <2>3, <2>5, DayStep
<1>8. CASE OvertimeReopen(r)
  <2>1. req[r].pc = "reopen" /\ req[r].op \in Creators
    BY <1>8 DEF OvertimeReopen, At, Creators
  <2>2. rows[d].out # None /\ FreeEntry # {}
    BY <1>1, <1>2, <1>3, <2>1, Carried DEF FindsDay, Carries, DayInv
  <2>3. FreshEntry \in BreakIds /\ entries[FreshEntry].row = None /\ None \notin RowIds
    BY <2>2, Constants DEF FreshEntry, FreeEntry, None
  <2>4. /\ \A b \in BreakIds : b # FreshEntry => entries'[b] = entries[b]
        /\ entries'[FreshEntry].row = d
    BY <1>1, <1>3, <1>8, <2>3 DEF OvertimeReopen, AddEntry
  <2>5. /\ \A i \in RowIds \ {d} : rows'[i] = rows[i]
        /\ rows'[d].date = rows[d].date /\ rows'[d].in = rows[d].in /\ rows'[d].out = None
        /\ rows'[d].ot # None
    BY <1>1, <1>3, <1>8 DEF OvertimeReopen, Row
  <2> HIDE DEF FreshEntry
  <2>6. OnlyDay(d)
    BY <2>3, <2>4, <2>5 DEF OnlyDay
  <2>7. LiveState(d) = "OUT" /\ LiveState(d)' \in {"IN", "ON_BREAK"}
    BY <1>4, <1>5, <2>2, <2>5 DEF LiveIs
  <2>8. KeepsDay(d)
    BY <1>4, <2>5, <2>7 DEF KeepsDay, StartsOvertime, InOvertime, Vacant
  <2> QED
    BY <1>6, <2>5, <2>6, <2>8, DayStep
<1> QED
  BY <1>7, <1>8

\* A check-in opens a new day or a vacated one; on a day that has one already it moves its
\* moment only.
LEMMA UpsertPromise ==
  ASSUME OneRequest, DayInv, PromiseInv, NEW r \in Reqs, CheckInUpsert(r)
  PROVE  PromiseInv' /\ [Promise!Next]_Promise!vars
<1> DEFINE day == ShiftDay(req[r].zone, req[r].at)
<1>1. /\ TypeInv /\ ~Idle(r) /\ req[r] \in Request /\ rows \in [RowIds -> Row]
      /\ entries' = entries /\ None \notin RowIds
      /\ req[r].at # None /\ req[r].at \in Time /\ \A p \in Reqs : Idle(p)'
  <2>1. \A p \in Reqs : Idle(p)'
    BY ReplyMild DEF CheckInUpsert
  <2> QED
    BY <2>1, Constants DEF DayInv, IInv, TypeInv, TypeOK, CheckInUpsert, At, Idle, Request, Time, None
<1>2. day \in Nat /\ day # None
  <2>1. day \in Nat
    BY <1>1, ShiftDayType DEF Request
  <2> QED
    BY <2>1 DEF None
<1> HIDE DEF day
<1>3. ASSUME NEW d \in RowIds, \A i \in RowIds \ {d} : rows'[i] = rows[i],
             rows'[d].date = day
      PROVE  PromiseInv' /\ OnlyDay(d)
  <2>1. NewDays'
    BY <1>2, <1>3 DEF PromiseInv, NewDays
  <2> QED
    BY <1>1, <1>3, <2>1 DEF PromiseInv, OnlyDay
<1>4. CASE RowOn(day) # None
  <2>1. PICK d \in RowIds : d = RowOn(day)
    BY <1>4, RowOnFinds
  <2>2. rows[d].date = day
    BY <1>4, <2>1, RowOnFinds
  <2>3. rows' = [rows EXCEPT ![d].in = req[r].at]
    BY <1>4, <2>1 DEF CheckInUpsert, day
  <2>4. /\ \A i \in RowIds \ {d} : rows'[i] = rows[i]
        /\ rows'[d].date = rows[d].date /\ rows'[d].in = req[r].at
        /\ rows'[d].out = rows[d].out /\ rows'[d].ot = rows[d].ot
    BY <1>1, <2>3 DEF Row
  <2>5. OpenEntries(d)' = OpenEntries(d)
    BY <1>1 DEF OpenEntries, EntriesOf
  <2>6. CASE rows[d].in # None
    <3>1. LiveState(d)' = LiveState(d)
      BY <1>1, <2>4, <2>5, <2>6 DEF LiveState, HasCheckIn
    <3>2. KeepsDay(d)
      BY <1>1, <2>4, <2>6, <3>1 DEF KeepsDay, InOvertime, Vacant
    <3> QED
      BY <1>3, <2>2, <2>4, <3>2, DayStep
  <2>7. CASE rows[d].in = None
    <3>1. OpenEntries(d)' = {}
      BY <2>5, <2>7 DEF OpenEntries, EntriesOf, Exists, DayInv, BreaksHaveSession
    <3>2. LiveIs(d) /\ LiveIs(d)'
      BY LiveCases
    <3>3. LiveState(d) = "NOT_IN" /\ LiveState(d)' \in {"IN", "OUT"}
      BY <1>1, <2>4, <2>7, <3>1, <3>2 DEF LiveIs
    <3>4. KeepsDay(d)
      BY <1>1, <1>2, <2>2, <2>4, <2>7, <3>3 DEF KeepsDay, InOvertime, Vacant
    <3> QED
      BY <1>3, <2>2, <2>4, <3>4, DayStep
  <2> QED
    BY <2>6, <2>7
<1>5. CASE RowOn(day) = None
  <2>1. FreshRow \in RowIds /\ rows[FreshRow].date = None
    BY <1>5 DEF CheckInUpsert, FreshRow, FreeRow, day
  <2>2. PICK d \in RowIds : d = FreshRow
    BY <2>1
  <2>3. rows[d].in = None /\ rows[d].ot = None /\ rows[d].date = None
    BY <2>1, <2>2 DEF PromiseInv, NewDays, DayInv, OneDate
  <2>4. rows' = [rows EXCEPT ![d] = [NoRow EXCEPT !.date = day, !.in = req[r].at]]
    BY <1>5, <2>2 DEF CheckInUpsert, day
  <2>5. /\ \A i \in RowIds \ {d} : rows'[i] = rows[i]
        /\ rows'[d].date = day /\ rows'[d].in = req[r].at
        /\ rows'[d].out = None /\ rows'[d].ot = None
    BY <1>1, <2>4 DEF NoRow
  <2>6. OpenEntries(d)' = {}
    BY <1>1, <2>3 DEF OpenEntries, EntriesOf, Exists, DayInv, BreaksHaveSession
  <2>7. LiveIs(d) /\ LiveIs(d)'
    BY LiveCases
  <2>8. KeepsDay(d)
    BY <1>1, <2>3, <2>5, <2>6, <2>7 DEF LiveIs, KeepsDay, Moves, InOvertime, Vacant
  <2> QED
    BY <1>3, <2>5, <2>8, DayStep
<1> QED
  BY <1>4, <1>5

\* The breaks of the folded day run on, or stay ended, on the other one.
LEMMA MergeBreaks ==
  ASSUME DayInv, NEW r \in Reqs, CheckInMerge(r),
         NEW d \in RowIds, d = req[r].row, NEW e \in RowIds, e = req[r].row2
  PROVE  /\ OpenEntries(e)' = OpenEntries(d) \cup OpenEntries(e)
         /\ \A i \in RowIds \ {d, e} : OpenEntries(i)' = OpenEntries(i)
<1> DEFINE q == req[r]
           clashFirst == q.in2 # None /\ q.in2 <= q.in
           firstOut == IF clashFirst THEN q.out2 ELSE q.out
           secondIn == IF clashFirst THEN q.in ELSE q.in2
           gap == firstOut # None /\ secondIn # None /\ secondIn > firstOut
           moved == [b \in BreakIds |->
                       IF entries[b].row = q.row
                       THEN [entries[b] EXCEPT !.row = q.row2] ELSE entries[b]]
           fresh == [row |-> q.row2, type |-> "BREAK", start |-> firstOut,
                     end |-> secondIn, auto |-> FALSE]
<1>1. q.row \in RowIds /\ q.row2 \in RowIds /\ q.row2 # q.row
  BY MergeWrites
<1>2. entries \in [BreakIds -> Entry] /\ None \notin RowIds
  BY Constants DEF DayInv, IInv, TypeInv, TypeOK, None
<1>3. entries' = IF gap THEN [moved EXCEPT ![FreshEntry] = fresh] ELSE moved
  BY Zenon DEF CheckInMerge
<1>4. gap => FreeEntry # {}
  BY Zenon DEF CheckInMerge
<1>5. ASSUME NEW b \in BreakIds
      PROVE  moved[b].end = entries[b].end
             /\ moved[b].row = IF entries[b].row = q.row THEN q.row2 ELSE entries[b].row
  BY <1>2 DEF Entry
<1>6. gap => FreshEntry \in BreakIds /\ entries[FreshEntry].row = None
  <2> HIDE DEF gap
  <2> QED
    BY <1>4 DEF FreshEntry, FreeEntry
<1>7. fresh.end = secondIn /\ (gap => secondIn # None) /\ DOMAIN moved = BreakIds
  OBVIOUS
<1> HIDE DEF moved, fresh, gap, secondIn, firstOut, FreshEntry, q
<1>8. ASSUME NEW b \in BreakIds
      PROVE  \/ entries'[b] = moved[b]
             \/ entries[b].row = None /\ entries'[b].end # None
  BY <1>3, <1>6, <1>7
<1>9. ASSUME NEW b \in BreakIds, NEW i \in RowIds
      PROVE  b \in OpenEntries(i)' <=> moved[b].row = i /\ moved[b].end = None
  <2>1. CASE entries'[b] = moved[b]
    BY <2>1 DEF OpenEntries, EntriesOf
  <2>2. CASE entries[b].row = None /\ entries'[b].end # None
    <3>1. moved[b].row = None
      BY <1>1, <1>2, <1>5, <2>2
    <3> QED
      BY <1>2, <2>2, <3>1 DEF OpenEntries, EntriesOf
  <2> QED
    BY <1>8, <2>1, <2>2
<1>10. q.row = d /\ q.row2 = e /\ d # e
  BY <1>1 DEF q
<1>11. ASSUME NEW b \in BreakIds
       PROVE  b \in OpenEntries(e)' <=> b \in OpenEntries(d) \cup OpenEntries(e)
  BY <1>5, <1>9, <1>10 DEF OpenEntries, EntriesOf
<1>12. ASSUME NEW i \in RowIds \ {d, e}, NEW b \in BreakIds
       PROVE  b \in OpenEntries(i)' <=> b \in OpenEntries(i)
  BY <1>5, <1>9, <1>10 DEF OpenEntries, EntriesOf
<1>13. \A i \in RowIds : OpenEntries(i) \subseteq BreakIds /\ OpenEntries(i)' \subseteq BreakIds
  BY DEF OpenEntries, EntriesOf
<1> QED
  BY <1>11, <1>12, <1>13

\* Two days are folded into one.
LEMMA MergePromise ==
  ASSUME OneRequest, DayInv, PromiseInv, NEW r \in Reqs, CheckInMerge(r)
  PROVE  PromiseInv' /\ [Promise!Next]_Promise!vars
<1> DEFINE state == [i \in RowIds |-> LiveState(i)]
           overtime == [i \in RowIds |-> rows[i].ot # None]
           vacated == {i \in RowIds : rows[i].date # None /\ rows[i].in = None}
           u == [req[r] EXCEPT !.pc = "upsert"]
<1>1. /\ req[r].pc = "merge" /\ ~Idle(r) /\ req[r].row2 # None
      /\ req[r] \in Request /\ req \in [Reqs -> Request] /\ rows \in [RowIds -> Row]
  BY Zenon DEF CheckInMerge, At, Idle, DayInv, IInv, TypeInv, TypeOK
<1>2. PICK d \in RowIds, e \in RowIds : d = req[r].row /\ e = req[r].row2 /\ d # e
  BY MergeWrites
<1>3. /\ rows[d].in # None /\ rows[e].date # None
      /\ req[r].out # None => rows[d].out # None
      /\ req[r].out2 # None => rows[e].out # None
  <2>1. FindsDay(req[r]) /\ FindsProper(req[r])
    BY <1>1 DEF PromiseInv, DayInv, Finds
  <2> QED
    BY <1>1, <1>2, <2>1 DEF FindsDay, FindsProper
<1>4. PICK first, last :
         /\ rows' = [rows EXCEPT ![e].in = first, ![e].out = last, ![d].in = None, ![d].out = None]
         /\ last # None => req[r].out # None \/ req[r].out2 # None
  <2> DEFINE outs == {req[r].out, req[r].out2} \ {None}
             first == Least({req[r].in, req[r].in2} \ {None})
             last == IF outs = {} THEN None ELSE Greatest(outs)
  <2>1. rows' = [rows EXCEPT ![e].in = first, ![e].out = last, ![d].in = None, ![d].out = None]
    BY <1>2, Zenon DEF CheckInMerge
  <2>2. last # None => req[r].out # None \/ req[r].out2 # None
    OBVIOUS
  <2> HIDE DEF first, last
  <2> QED
    BY <2>1, <2>2
<1>5. /\ \A i \in RowIds \ {d, e} : rows'[i] = rows[i]
      /\ rows'[d].out = None /\ rows'[e].out = last
      /\ rows'[d].ot = rows[d].ot /\ rows'[e].ot = rows[e].ot
  BY <1>1, <1>2, <1>4 DEF Row
<1>6. /\ rows'[d].in = None /\ rows'[e].in # None
      /\ \A i \in RowIds : rows'[i].date = rows[i].date
  BY <1>2, MergeWrites
<1>7. /\ OpenEntries(e)' = OpenEntries(d) \cup OpenEntries(e)
      /\ \A i \in RowIds \ {d, e} : OpenEntries(i)' = OpenEntries(i)
  BY <1>2, MergeBreaks
<1>8. rows[d].date # None
  BY <1>3 DEF DayInv, OneDate
<1>9. LiveIs(d) /\ LiveIs(d)' /\ LiveIs(e) /\ LiveIs(e)'
  BY LiveCases
<1>10. \A i \in RowIds \ {d, e} : LiveState(i)' = LiveState(i)
  BY <1>5, <1>7 DEF LiveState, HasCheckIn
<1>11. OpenEntries(e) # {} => rows[e].in # None
  BY DEF OpenEntries, EntriesOf, Exists, DayInv, BreaksHaveSession
<1>12. LiveState(d) # "NOT_IN" /\ LiveState(d)' = "NOT_IN" /\ LiveState(e)' # "NOT_IN"
  BY <1>3, <1>6, <1>9 DEF LiveIs
<1>13. LiveState(e)' = "OUT" => "OUT" \in {LiveState(d), LiveState(e)} \/ rows[e].in = None
  BY <1>3, <1>4, <1>5, <1>9 DEF LiveIs
<1>14. LiveState(e)' = "ON_BREAK" => {LiveState(d), LiveState(e)} \cap {"OUT", "ON_BREAK"} # {}
  BY <1>3, <1>7, <1>9, <1>11 DEF LiveIs
<1>15. LiveState(e)' = "IN" => "ON_BREAK" \notin {LiveState(d), LiveState(e)}
  BY <1>7, <1>9 DEF LiveIs
<1>16. state' = [state EXCEPT ![d] = "NOT_IN", ![e] = LiveState(e)']
  BY <1>2, <1>10, <1>12
<1>17. overtime' = overtime
  BY <1>5
<1>18. vacated' = (vacated \ {e}) \cup {d}
  BY <1>2, <1>5, <1>6, <1>8
<1>19. /\ state[d] = LiveState(d) /\ state[e] = LiveState(e)
       /\ rows[e].in = None => e \in vacated
  BY <1>3
<1>20. LiveState(e) = "NOT_IN" => e \in vacated
  BY <1>9, <1>19 DEF LiveIs
<1>21. LiveState(e)' \in {"IN", "ON_BREAK", "OUT"}
  BY <1>6, <1>9 DEF LiveIs
<1>22. [Promise!Next]_Promise!vars
  <2> HIDE DEF vacated
  <2>1. PICK s : s = LiveState(e)'
    OBVIOUS
  <2>2. Promise!Fold(d, e)
    BY <1>2, <1>12, <1>13, <1>14, <1>15, <1>16, <1>17, <1>18, <1>19, <1>20, <1>21, <2>1
       DEF Promise!Fold, Promise!Open, vacated
  <2> QED
    BY <2>2 DEF Promise!Next
<1>23. NewDays'
  BY <1>5, <1>6 DEF PromiseInv, NewDays
<1>24. \A p \in Reqs : req'[p].pc = "upsert"
  <2>1. u.pc = "upsert"
    BY <1>1 DEF Request
  <2>2. req' = [req EXCEPT ![r] = u]
    BY <1>1, Zenon DEF CheckInMerge
  <2> HIDE DEF u
  <2> QED
    BY <1>1, <2>1, <2>2 DEF OneRequest
<1> QED
  BY <1>22, <1>23, <1>24 DEF PromiseInv, FindsDay

LEMMA InitPromise == Init => PromiseInv /\ Promise!Init
<1> SUFFICES ASSUME Init PROVE PromiseInv /\ Promise!Init
  OBVIOUS
<1>1. \A i \in RowIds : /\ rows[i].date = None /\ rows[i].in = None /\ rows[i].ot = None
                        /\ LiveState(i) = "NOT_IN"
  BY LiveCases DEF Init, NoRow, LiveIs
<1>2. \A r \in Reqs : Idle(r)
  BY DEF Init, Idle, NoRequest
<1> QED
  BY <1>1, <1>2 DEF PromiseInv, NewDays, Promise!Init

LEMMA NextPromise ==
  ASSUME OneRequest, DayInv, PromiseInv, [Next]_vars
  PROVE  PromiseInv' /\ [Promise!Next]_Promise!vars
<1>1. ASSUME NEW r \in Reqs, NEW op \in Ops, Arrive(r, op)
      PROVE  PromiseInv' /\ [Promise!Next]_Promise!vars
  BY <1>1, OtherReadsPromise
<1>2. ASSUME NEW r \in Reqs, Handler(r)
      PROVE  PromiseInv' /\ [Promise!Next]_Promise!vars
  BY <1>2, CheckInReadPromise, CheckInClashPromise, MovePromise, MergePromise,
     OtherReadsPromise, ClosingPromise, BreakStartPromise, OvertimePromise, UpsertPromise
     DEF Handler
<1> QED
  BY <1>1, <1>2, JobsKeepPromise, RestKeepsPromise DEF Next

\* One request at a time: whatever the jobs and restarts do in between, and however often
\* the shift moves to another time zone, each day moves only the way the four states of
\* the widget and the overtime flag promise, and two days become one only by folding, for
\* any number of days.
THEOREM PromiseAlwaysKept ==
  ASSUME OneRequest
  PROVE  Spec => KeepsPromise
<1>1. Init => DayInv /\ PromiseInv /\ Promise!Init
  BY InitDays, InitPromise
<1>2. DayInv /\ [Next]_vars => DayInv'
  BY NextDays
<1>3. DayInv /\ PromiseInv /\ [Next]_vars => PromiseInv' /\ [Promise!Next]_Promise!vars
  BY NextPromise
<1> QED
  BY <1>1, <1>2, <1>3, PTL DEF Spec, KeepsPromise, Promise!Spec

(***************************************************************************)
(* While the shift stays in its time zone no day is ever vacated: the      *)
(* promise is then the plain one, without CheckInAgain and Fold.           *)
(***************************************************************************)
ShiftStays == [][FALSE]_zone

\* A row is the day its check-in belongs to.
DatesFit ==
    \A i \in RowIds : rows[i].date # None
        => rows[i].in # None /\ rows[i].date = ShiftDay(zone, rows[i].in)

\* A request that knows the zone and found no session of another day.
FitsZone(q) == q.zone = zone /\ q.pc \notin {"clash", "merge"}

ZoneInv == DatesFit /\ \A r \in Reqs : ~Idle(r) => FitsZone(req[r])

\* Every handler but a check-in reads or writes with the pc it knows, and leaves every
\* row on its date.
LEMMA RestFitsZone ==
  ASSUME DayInv, ZoneInv, zone' = zone, req' \in [Reqs -> Request],
         \A i \in RowIds : rows'[i].in = rows[i].in /\ rows'[i].date = rows[i].date,
         \A p \in Reqs : \/ Idle(p)'
                         \/ req'[p] = req[p] /\ ~Idle(p)
                         \/ FitsZone(req'[p])
  PROVE  ZoneInv'
<1>1. DatesFit'
  BY DEF ZoneInv, DatesFit, ShiftDay
<1>2. ASSUME NEW p \in Reqs, ~Idle(p)'
      PROVE  FitsZone(req[p])'
  <2>1. CASE req'[p] = req[p] /\ ~Idle(p)
    BY <2>1 DEF ZoneInv, FitsZone
  <2>2. CASE FitsZone(req'[p])
    BY <2>2 DEF FitsZone
  <2> QED
    BY <1>2, <2>1, <2>2
<1> QED
  BY <1>1, <1>2 DEF ZoneInv

\* findToday never finds a session of another day.
LEMMA CheckInReadFits ==
  ASSUME OneRequest, DayInv, ZoneInv, zone' = zone, NEW r \in Reqs, CheckInRead(r)
  PROVE  ZoneInv'
<1> DEFINE today == ShiftDay(req[r].zone, req[r].at)
           e == RowOn(ShiftDay(req[r].zone, now))
           u == [req[r] EXCEPT !.pc = "upsert"]
<1>1. Quiet /\ ~Idle(r) /\ TypeInv /\ req \in [Reqs -> Request] /\ req[r] \in Request
  BY DEF CheckInRead, Quiet, At, Idle, DayInv, IInv, TypeInv, TypeOK
<1>2. now \in Nat /\ FitsZone(req[r]) /\ Carries(req[r])
  BY <1>1 DEF TypeInv, TypeOK, ZoneInv, DayInv, IInv, Time
<1>3. req[r].zone = zone /\ req[r].zone \in Nat /\ req[r].at \in Nat /\ req[r].at <= now
  BY <1>1, <1>2 DEF FitsZone, Request, Carries, Time
<1>4. HasCheckIn(e) => ShiftDay(req[r].zone, rows[e].in) = today
  <2> SUFFICES ASSUME HasCheckIn(e) PROVE ShiftDay(req[r].zone, rows[e].in) = today
    OBVIOUS
  <2>1. e \in RowIds /\ rows[e].date = ShiftDay(zone, now) /\ rows[e].in # None
    BY <1>3, RowOnFinds DEF HasCheckIn
  <2>2. rows[e].in \in Nat /\ rows[e].in <= req[r].at
    BY <1>1, <1>2, <2>1 DEF Carries, TypeInv, TypeOK, Row, Opt, Time
  <2>3. ShiftDay(zone, rows[e].in) = ShiftDay(zone, now)
    <3>1. ShiftDay(zone, now) \in Nat /\ None \notin Nat
      BY <1>2, <1>3, ShiftDayType DEF Time, None
    <3> QED
      BY <2>1, <3>1 DEF ZoneInv, DatesFit
  <2>4. /\ ShiftDay(zone, rows[e].in) <= ShiftDay(zone, req[r].at)
        /\ ShiftDay(zone, req[r].at) <= ShiftDay(zone, now)
        /\ ShiftDay(zone, req[r].at) \in Nat /\ ShiftDay(zone, now) \in Nat
    BY <1>2, <1>3, <2>2, LaterDay
  <2> QED
    BY <1>3, <2>3, <2>4
<1>5. \A i \in RowIds : rows'[i].in = rows[i].in /\ rows'[i].date = rows[i].date
  BY <1>1 DEF Quiet
<1>6. CASE Reply(r)
  <2>1. req' \in [Reqs -> Request] /\ \A p \in Reqs : Idle(p)'
    BY <1>1, <1>6, ReplyMild DEF Reply, NoRequest, Request, Ops, PCs, Opt, Time, None
  <2> QED
    BY <1>5, <2>1, RestFitsZone
<1>7. CASE req' = [req EXCEPT ![r].pc = "upsert"]
  <2>1. req' = [req EXCEPT ![r] = u]
    BY <1>1, <1>7, Zenon
  <2>2. u \in Request /\ u.zone = zone /\ u.pc = "upsert"
    BY <1>1, <1>3 DEF Request, PCs
  <2> HIDE DEF u
  <2>3. FitsZone(u) /\ \A p \in Reqs : req'[p] = u
    BY <1>1, <2>1, <2>2 DEF FitsZone, OneRequest
  <2> QED
    BY <1>1, <1>5, <2>1, <2>2, <2>3, RestFitsZone
<1> QED
  BY <1>4, <1>6, <1>7 DEF CheckInRead

\* The check-in is written on the date it belongs to.
LEMMA UpsertFits ==
  ASSUME OneRequest, DayInv, ZoneInv, zone' = zone, NEW r \in Reqs, CheckInUpsert(r)
  PROVE  ZoneInv'
<1> DEFINE day == ShiftDay(req[r].zone, req[r].at)
<1>1. /\ ~Idle(r) /\ rows \in [RowIds -> Row] /\ None \notin Nat
      /\ req[r].at \in Nat /\ \A p \in Reqs : Idle(p)'
  <2>1. \A p \in Reqs : Idle(p)'
    BY ReplyMild DEF CheckInUpsert
  <2> QED
    BY <2>1 DEF DayInv, IInv, TypeInv, TypeOK, CheckInUpsert, At, Idle, Request, Time, None
<1>2. day = ShiftDay(zone, req[r].at)
  BY <1>1 DEF ZoneInv, FitsZone
<1>3. ASSUME NEW d \in RowIds, \A i \in RowIds \ {d} : rows'[i] = rows[i],
             rows'[d].date = day, rows'[d].in = req[r].at
      PROVE  ZoneInv'
  <2>1. rows'[d].in # None /\ rows'[d].date = ShiftDay(zone, rows'[d].in)
    BY <1>1, <1>2, <1>3
  <2>2. DatesFit'
    BY <1>3, <2>1 DEF ZoneInv, DatesFit, ShiftDay
  <2> QED
    BY <1>1, <2>2 DEF ZoneInv
<1>4. CASE RowOn(day) # None
  <2>1. PICK d \in RowIds : d = RowOn(day)
    BY <1>4, RowOnFinds
  <2>2. rows[d].date = day
    BY <1>4, <2>1, RowOnFinds
  <2>3. rows' = [rows EXCEPT ![d].in = req[r].at]
    BY <1>4, <2>1 DEF CheckInUpsert
  <2>4. /\ \A i \in RowIds \ {d} : rows'[i] = rows[i]
        /\ rows'[d].date = rows[d].date /\ rows'[d].in = req[r].at
    BY <1>1, <2>3 DEF Row
  <2> QED
    BY <1>3, <2>2, <2>4
<1>5. CASE RowOn(day) = None
  <2>1. FreshRow \in RowIds
    BY <1>5 DEF CheckInUpsert, FreshRow, FreeRow
  <2>2. PICK d \in RowIds : d = FreshRow
    BY <2>1
  <2>3. rows' = [rows EXCEPT ![d] = [NoRow EXCEPT !.date = day, !.in = req[r].at]]
    BY <1>5, <2>2 DEF CheckInUpsert
  <2>4. /\ \A i \in RowIds \ {d} : rows'[i] = rows[i]
        /\ rows'[d].date = day /\ rows'[d].in = req[r].at
    BY <1>1, <2>3 DEF NoRow
  <2> QED
    BY <1>3, <2>4
<1> QED
  BY <1>4, <1>5

LEMMA NextFitsZone ==
  ASSUME OneRequest, DayInv, DayInv', ZoneInv, [Next]_vars, zone' = zone
  PROVE  ZoneInv'
<1>1. /\ req \in [Reqs -> Request] /\ req' \in [Reqs -> Request]
      /\ entries \in [BreakIds -> Entry] /\ rows \in [RowIds -> Row]
  BY DEF DayInv, IInv, TypeInv, TypeOK
<1>2. ASSUME NEW r \in Reqs, NEW op \in Ops, Arrive(r, op)
      PROVE  ZoneInv'
  <2> DEFINE q == [NoRequest EXCEPT !.op = op, !.pc = "read", !.at = now, !.zone = zone]
  <2>1. FitsZone(q)
    BY DEF FitsZone, NoRequest
  <2>2. req' = [req EXCEPT ![r] = q] /\ rows' = rows
    BY <1>2 DEF Arrive
  <2> HIDE DEF q
  <2>3. \A p \in Reqs : req'[p] = q
    BY <1>1, <2>2 DEF OneRequest
  <2> QED
    BY <1>1, <2>1, <2>2, <2>3, RestFitsZone
<1>3. ASSUME NEW r \in Reqs, Handler(r)
      PROVE  ZoneInv'
  <2>1. ~(CheckInClash(r) \/ CheckInMove(r) \/ CheckInMerge(r))
    BY DEF ZoneInv, FitsZone, CheckInClash, CheckInMove, CheckInMerge, At, Idle
  <2>2. ASSUME CheckOutRead(r) \/ CheckOutCloseBreaks(r) \/ CheckOutWrite(r) \/ OvertimeRead(r)
                 \/ OvertimeReopen(r) \/ OvertimeStamp(r)
                 \/ BreakStartRead(r) \/ BreakStartCreate(r) \/ BreakEndRead(r) \/ BreakEndWrite(r)
        PROVE  ZoneInv'
    <3>1. ~Idle(r)
      BY <2>2 DEF CheckOutRead, CheckOutCloseBreaks, CheckOutWrite, OvertimeRead, OvertimeReopen,
         OvertimeStamp, BreakStartRead, BreakStartCreate, BreakEndRead, BreakEndWrite, At, Idle
    <3>2. FitsZone(req[r]) /\ req[r] \in Request
      BY <1>1, <3>1 DEF ZoneInv
    <3>3. \A i \in RowIds : rows'[i].in = rows[i].in /\ rows'[i].date = rows[i].date
      BY <1>1, <2>2 DEF CheckOutRead, CheckOutCloseBreaks, CheckOutWrite, OvertimeRead,
         OvertimeReopen, OvertimeStamp, BreakStartRead, BreakStartCreate, BreakEndRead,
         BreakEndWrite, Row
    <3>4. Idle(r)' \/ FitsZone(req'[r])
      BY <1>1, <2>2, <3>2 DEF CheckOutRead, CheckOutCloseBreaks, CheckOutWrite, OvertimeRead,
         OvertimeReopen, OvertimeStamp, BreakStartRead, BreakStartCreate, BreakEndRead,
         BreakEndWrite, Reply, NoRequest, FitsZone, Request, Idle
    <3> QED
      BY <1>1, <3>3, <3>4, RestFitsZone DEF OneRequest
  <2> QED
    BY <1>3, <2>1, <2>2, CheckInReadFits, UpsertFits DEF Handler
<1>4. ASSUME AutoCheckout \/ BreakCutoff
      PROVE  ZoneInv'
  <2>1. \A i \in RowIds : rows'[i].in = rows[i].in /\ rows'[i].date = rows[i].date
    <3>1. CASE UNCHANGED rows
      BY <3>1
    <3>2. ASSUME NEW s \in sweep, SweepClose(s)
          PROVE  \A i \in RowIds : rows'[i].in = rows[i].in /\ rows'[i].date = rows[i].date
      BY <1>1, <3>2 DEF SweepClose, Row
    <3> QED
      BY <1>4, <3>1, <3>2 DEF AutoCheckout, SweepRead, BreakCutoff, CutRead, CutEnd
  <2>2. req' = req
    BY <1>4 DEF AutoCheckout, SweepRead, SweepClose, BreakCutoff, CutRead, CutEnd
  <2> QED
    BY <1>1, <2>1, <2>2, RestFitsZone DEF Idle
<1>5. ASSUME Advance \/ Crash \/ (\E z \in Zones : ChangeShift(z)) \/ UNCHANGED vars
      PROVE  ZoneInv'
  <2>1. rows' = rows
    BY <1>5 DEF Advance, Crash, ChangeShift, vars
  <2>2. \A p \in Reqs : Idle(p)' \/ (req'[p] = req[p] /\ ~Idle(p))
    BY <1>5 DEF Advance, Crash, ChangeShift, vars, Idle, NoRequest
  <2> QED
    BY <1>1, <2>1, <2>2, RestFitsZone
<1> QED
  BY <1>2, <1>3, <1>4, <1>5 DEF Next

\* One request at a time and no change of the time zone: no date is ever left without its
\* check-in, so no day is folded into another and none is checked in twice.
NothingVacated == \A i \in RowIds : ~Vacant(i)

THEOREM NothingVacatedInOneZone ==
  ASSUME OneRequest
  PROVE  Spec /\ ShiftStays => []NothingVacated
<1>1. Init => DayInv /\ ZoneInv
  <2>1. Init => ZoneInv
    BY DEF Init, NoRow, NoRequest, Idle, ZoneInv, DatesFit
  <2> QED
    BY <2>1, InitDays
<1>2. DayInv /\ [Next]_vars => DayInv'
  BY NextDays
<1>3. DayInv /\ DayInv' /\ ZoneInv /\ [Next]_vars /\ [FALSE]_zone => ZoneInv'
  BY NextFitsZone
<1>4. ZoneInv => NothingVacated
  BY DEF ZoneInv, DatesFit, NothingVacated, Vacant
<1> QED
  BY <1>1, <1>2, <1>3, <1>4, PTL DEF Spec, ShiftStays

=============================================================================
