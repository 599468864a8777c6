--------------------------- MODULE AttendanceClock ---------------------------
(***************************************************************************)
(* The clock of one employee: check-in, check-out, breaks and overtime as  *)
(* controllers/attendanceController.ts serves them, and the two minute     *)
(* jobs that write the same rows, lib/autoCheckout.ts and                  *)
(* lib/breakCutoff.ts.  Every handler is cut where it awaits the database: *)
(* it arrives (and takes `now`), reads, and writes, and other requests,    *)
(* the jobs and the clock run in between.                                  *)
(*                                                                         *)
(* rows[i] is one AttendanceDay (unique by date), entries[b] one           *)
(* BreakEntry.  A field that is null in the database is None here, and a   *)
(* row or entry that does not exist yet has None as its date or row; a     *)
(* deleted entry has Gone, so that no id is ever used twice.               *)
(***************************************************************************)
EXTENDS Integers, FiniteSets

CONSTANTS
    Reqs,            \* requests of this employee that can be in flight at once
    RowIds, BreakIds,\* database ids: bounds on the rows and entries created
    MaxTime,         \* the clock stops here
    DayLen,          \* ticks in a calendar day
    Span,            \* length of the shift (shiftSpanMin)
    OvertimeMax,     \* OVERTIME_MAX_MIN
    RestartWindow,   \* OVERTIME_RESTART_HOURS
    MaxLive,         \* MAX_LIVE_HOURS
    Cutoff,          \* [{"BREAK", "BRB"} -> Nat], 0 = never
    Zones,           \* offsets the shift's time zone can be set to
    OffDates,        \* dates marked as leave (not WFH) or holiday
    Latency,         \* how far the clock can move while a request is in flight
    MaxDisruptions   \* restarts of the server and changes of shift

None == -1
Gone == -2
Time == Nat

ASSUME ClockAssumption ==
    /\ RowIds \subseteq Nat /\ BreakIds \subseteq Nat /\ Zones \subseteq Nat
    /\ Zones # {}
    /\ DayLen \in Nat \ {0} /\ Span \in Nat \ {0}
    /\ {MaxTime, OvertimeMax, RestartWindow, MaxLive, Latency, MaxDisruptions} \subseteq Nat
    /\ Cutoff \in [{"BREAK", "BRB"} -> Nat]

VARIABLES
    now,      \* the wall clock
    zone,     \* the employee's shift window (its time zone offset)
    rows,     \* AttendanceDay
    entries,  \* BreakEntry
    req,      \* the handlers in flight
    sweep,    \* the auto check-out tick: the open rows it has read and still has to close
    cut,      \* the break cut-off tick: the running breaks it has read and still has to end
    disruptions

vars == <<now, zone, rows, entries, req, sweep, cut, disruptions>>

Ops == {"checkIn", "checkOut", "overtime", "breakStart", "breakEnd"}
Notes == {"none", "auto", "autoOvertime", "overtime"}
PCs == {"idle", "read", "clash", "merge", "upsert", "close", "out", "reopen",
        "stamp", "create", "end"}

Opt(S) == S \cup {None}
Row == [date: Opt(Nat), in: Opt(Time), out: Opt(Time), ot: Opt(Time), note: Notes]
Entry == [row: RowIds \cup {None, Gone}, type: {"BREAK", "BRB", "OFF"}, start: Time,
          end: Opt(Time), auto: BOOLEAN]
Request == [op: Ops, pc: PCs, at: Time, zone: Nat,
            row: Opt(Nat), in: Opt(Time), out: Opt(Time),
            row2: Opt(Nat), in2: Opt(Time), out2: Opt(Time)]

NoRow == [date |-> None, in |-> None, out |-> None, ot |-> None, note |-> "none"]
NoEntry == [row |-> None, type |-> "BREAK", start |-> 0, end |-> None, auto |-> FALSE]
NoRequest == [op |-> "checkIn", pc |-> "idle", at |-> 0, zone |-> 0,
              row |-> None, in |-> None, out |-> None,
              row2 |-> None, in2 |-> None, out2 |-> None]

Least(S) == CHOOSE x \in S : \A y \in S : x <= y
Greatest(S) == CHOOSE x \in S : \A y \in S : x >= y

\* shiftDayString: the date a moment belongs to under a shift window.
ShiftDay(z, t) == 1 + ((t + z) \div DayLen)

\* attendanceDay.findUnique by (user, date): the row's id, or None.
RowOn(d) == IF \E i \in RowIds : rows[i].date = d
            THEN CHOOSE i \in RowIds : rows[i].date = d ELSE None

HasCheckIn(i) == i # None /\ rows[i].in # None

Exists(b) == entries[b].row \in RowIds
EntriesOf(i) == {b \in BreakIds : entries[b].row = i}
OpenEntries(i) == {b \in EntriesOf(i) : entries[b].end = None}

\* findCurrent: today's row if it has a check-in (today by the clock at the
\* time of the query), else the day before if it is still open, else today's.
FindCurrent(z, t) ==
    LET today == RowOn(ShiftDay(z, now))
        prev == RowOn(ShiftDay(z, t) - 1)
    IN  IF HasCheckIn(today) THEN today
        ELSE IF /\ HasCheckIn(prev)
                /\ rows[prev].out = None
                /\ t - rows[prev].in <= MaxLive
             THEN prev ELSE today

\* liveState of a row.
LiveState(i) ==
    IF ~HasCheckIn(i) THEN "NOT_IN"
    ELSE IF rows[i].out # None THEN "OUT"
    ELSE IF OpenEntries(i) # {} THEN "ON_BREAK" ELSE "IN"

\* autoCheckoutAt: when the sweep will close an open row.
AutoCheckoutAt(in, ot) ==
    IF ot = None THEN in + Span ELSE Greatest({in + Span, ot}) + OvertimeMax

CanRestartForOvertime(i, t) ==
    /\ rows[i].in # None /\ rows[i].out # None
    /\ rows[i].ot = None /\ rows[i].note = "auto"
    /\ t - rows[i].out <= RestartWindow /\ t >= rows[i].out

-----------------------------------------------------------------------------
Init ==
    /\ now = 0
    /\ zone \in Zones
    /\ rows = [i \in RowIds |-> NoRow]
    /\ entries = [b \in BreakIds |-> NoEntry]
    /\ req = [r \in Reqs |-> NoRequest]
    /\ sweep = {}
    /\ cut = {}
    /\ disruptions = 0

Idle(r) == req[r].pc = "idle"
At(r, op, pc) == req[r].op = op /\ req[r].pc = pc
Reply(r) == req' = [req EXCEPT ![r] = NoRequest]
FreeEntry == {b \in BreakIds : entries[b].row = None}
FreeRow == {i \in RowIds : rows[i].date = None}
FreshEntry == CHOOSE b \in FreeEntry : TRUE
FreshRow == CHOOSE i \in FreeRow : TRUE

\* Bound: a handler that creates an entry starts only when ids are left for it and
\* for every handler in flight (a check-in waits for an id where it needs one).
RoomFor(op) ==
    op \in {"overtime", "breakStart"}
        => Cardinality(FreeEntry) > Cardinality({q \in Reqs : ~Idle(q)})

\* breakEntry.create: a database id that was never used.
AddEntry(i, type, start, end) ==
    entries' = [entries EXCEPT ![FreshEntry] =
        [row |-> i, type |-> type, start |-> start, end |-> end, auto |-> FALSE]]

\* A handler starts: `const now = new Date()` and resolveShift.
Arrive(r, op) ==
    /\ Idle(r) /\ RoomFor(op)
    /\ req' = [req EXCEPT ![r] =
                [NoRequest EXCEPT !.op = op, !.pc = "read", !.at = now, !.zone = zone]]
    /\ UNCHANGED <<now, zone, rows, entries, sweep, cut, disruptions>>

(***************************************************************************)
(* POST /check-in                                                          *)
(***************************************************************************)
\* Faulty variant: a second check-in on the same day is not refused.
CheckInReadTwice(r) ==
    /\ At(r, "checkIn", "read")
    /\ req' = [req EXCEPT ![r].pc = "upsert"]
    /\ UNCHANGED <<now, zone, rows, entries, sweep, cut, disruptions>>

\* Leave, holiday, then findToday: refused when today's check-in is genuine.
CheckInRead(r) ==
    /\ At(r, "checkIn", "read")
    /\ LET q == req[r]
           today == ShiftDay(q.zone, q.at)
           e == RowOn(ShiftDay(q.zone, now))
       IN  IF \/ today \in OffDates
              \/ HasCheckIn(e) /\ ShiftDay(q.zone, rows[e].in) = today
           THEN Reply(r)
           ELSE IF HasCheckIn(e)
           THEN req' = [req EXCEPT ![r].pc = "clash", ![r].row = e,
                                   ![r].in = rows[e].in, ![r].out = rows[e].out]
           ELSE req' = [req EXCEPT ![r].pc = "upsert"]
    /\ UNCHANGED <<now, zone, rows, entries, sweep, cut, disruptions>>

\* reconcileStaleCheckIn reads the row of the day the session belongs to.
CheckInClash(r) ==
    /\ At(r, "checkIn", "clash")
    /\ LET c == RowOn(ShiftDay(req[r].zone, req[r].in))
       IN  req' = [req EXCEPT ![r].pc = "merge", ![r].row2 = c,
                     ![r].in2 = IF c = None THEN None ELSE rows[c].in,
                     ![r].out2 = IF c = None THEN None ELSE rows[c].out]
    /\ UNCHANGED <<now, zone, rows, entries, sweep, cut, disruptions>>

\* No row there: the whole session moves (a unique-date conflict is a 500).
CheckInMove(r) ==
    /\ At(r, "checkIn", "merge")
    /\ req[r].row2 = None
    /\ LET proper == ShiftDay(req[r].zone, req[r].in)
       IN  IF RowOn(proper) = None
           THEN /\ rows' = [rows EXCEPT ![req[r].row].date = proper]
                /\ req' = [req EXCEPT ![r].pc = "upsert"]
           ELSE UNCHANGED rows /\ Reply(r)
    /\ UNCHANGED <<now, zone, entries, sweep, cut, disruptions>>
\* Faulty variant: the breaks stay on the day that is vacated.
CheckInMergeLeavingBreaks(r) ==
    /\ At(r, "checkIn", "merge")
    /\ req[r].row2 # None
    /\ LET q == req[r]
           outs == {q.out, q.out2} \ {None}
       IN  rows' = [rows EXCEPT
             ![q.row2].in = Least({q.in, q.in2} \ {None}),
             ![q.row2].out = IF outs = {} THEN None ELSE Greatest(outs),
             ![q.row].in = None, ![q.row].out = None]
    /\ req' = [req EXCEPT ![r].pc = "upsert"]
    /\ UNCHANGED <<now, zone, entries, sweep, cut, disruptions>>

\* A split session: one transaction folds the fragment into the other row,
\* moves its breaks, records the gap and vacates today's slot.
CheckInMerge(r) ==
    /\ At(r, "checkIn", "merge")
    /\ req[r].row2 # None
    /\ LET q == req[r]
           outs == {q.out, q.out2} \ {None}
           clashFirst == q.in2 # None /\ q.in2 <= q.in
           firstOut == IF clashFirst THEN q.out2 ELSE q.out
           secondIn == IF clashFirst THEN q.in ELSE q.in2
           gap == firstOut # None /\ secondIn # None /\ secondIn > firstOut
           moved == [b \in BreakIds |->
                       IF entries[b].row = q.row
                       THEN [entries[b] EXCEPT !.row = q.row2] ELSE entries[b]]
       IN  /\ gap => FreeEntry # {}
           /\ rows' = [rows EXCEPT
                 ![q.row2].in = Least({q.in, q.in2} \ {None}),
                 ![q.row2].out = IF outs = {} THEN None ELSE Greatest(outs),
                 ![q.row].in = None, ![q.row].out = None]
           /\ IF gap
              THEN entries' = [moved EXCEPT ![FreshEntry] =
                      [row |-> q.row2, type |-> "BREAK", start |-> firstOut,
                       end |-> secondIn, auto |-> FALSE]]
              ELSE entries' = moved
    /\ req' = [req EXCEPT ![r].pc = "upsert"]
    /\ UNCHANGED <<now, zone, sweep, cut, disruptions>>

\* The upsert sets only the check-in: check-out, overtime and note stay.
CheckInUpsert(r) ==
    /\ At(r, "checkIn", "upsert")
    /\ LET d == ShiftDay(req[r].zone, req[r].at)
           i == RowOn(d)
       IN  IF i # None
           THEN rows' = [rows EXCEPT ![i].in = req[r].at]
           ELSE /\ FreeRow # {}
                /\ rows' = [rows EXCEPT ![FreshRow] =
                              [NoRow EXCEPT !.date = d, !.in = req[r].at]]
    /\ Reply(r)
    /\ UNCHANGED <<now, zone, entries, sweep, cut, disruptions>>

(***************************************************************************)
(* POST /check-out: the break update and the day update are two writes.    *)
(***************************************************************************)
CheckOutRead(r) ==
    /\ At(r, "checkOut", "read")
    /\ LET i == FindCurrent(req[r].zone, req[r].at)
       IN  IF HasCheckIn(i) /\ rows[i].out = None
           THEN req' = [req EXCEPT ![r].pc = "close", ![r].row = i]
           ELSE Reply(r)
    /\ UNCHANGED <<now, zone, rows, entries, sweep, cut, disruptions>>

CheckOutCloseBreaks(r) ==
    /\ At(r, "checkOut", "close")
    /\ entries' = [b \in BreakIds |->
                     IF b \in OpenEntries(req[r].row)
                     THEN [entries[b] EXCEPT !.end = req[r].at] ELSE entries[b]]
    /\ req' = [req EXCEPT ![r].pc = "out"]
    /\ UNCHANGED <<now, zone, rows, sweep, cut, disruptions>>

CheckOutWrite(r) ==
    /\ At(r, "checkOut", "out")
    /\ rows' = [rows EXCEPT ![req[r].row].out = req[r].at]
    /\ Reply(r)
    /\ UNCHANGED <<now, zone, entries, sweep, cut, disruptions>>

(***************************************************************************)
(* POST /overtime: stamp an open day, or open again a day that was closed  *)
(* automatically.                                                          *)
(***************************************************************************)
OvertimeRead(r) ==
    /\ At(r, "overtime", "read")
    /\ LET i == FindCurrent(req[r].zone, req[r].at)
       IN  IF HasCheckIn(i) /\ rows[i].out # None /\ CanRestartForOvertime(i, req[r].at)
           THEN req' = [req EXCEPT ![r].pc = "reopen", ![r].row = i, ![r].out = rows[i].out]
           ELSE IF HasCheckIn(i) /\ rows[i].out = None /\ rows[i].ot = None
           THEN req' = [req EXCEPT ![r].pc = "stamp", ![r].row = i]
           ELSE Reply(r)
    /\ UNCHANGED <<now, zone, rows, entries, sweep, cut, disruptions>>
\* Faulty variant: the day opens again without its overtime stamp.
OvertimeReopenUnstamped(r) ==
    /\ At(r, "overtime", "reopen")
    /\ AddEntry(req[r].row, "OFF", req[r].out, req[r].at)
    /\ rows' = [rows EXCEPT ![req[r].row].out = None, ![req[r].row].note = "overtime"]
    /\ Reply(r)
    /\ UNCHANGED <<now, zone, sweep, cut, disruptions>>

\* Faulty variant: the check-out is cleared before the time off the clock reads it.
OvertimeReopenCleared(r) ==
    /\ At(r, "overtime", "reopen")
    /\ AddEntry(req[r].row, "OFF", None, req[r].at)
    /\ rows' = [rows EXCEPT ![req[r].row].out = None, ![req[r].row].ot = req[r].at,
                            ![req[r].row].note = "overtime"]
    /\ Reply(r)
    /\ UNCHANGED <<now, zone, sweep, cut, disruptions>>

OvertimeReopen(r) ==
    /\ At(r, "overtime", "reopen")
    /\ AddEntry(req[r].row, "OFF", req[r].out, req[r].at)
    /\ rows' = [rows EXCEPT ![req[r].row].out = None, ![req[r].row].ot = req[r].at,
                            ![req[r].row].note = "overtime"]
    /\ Reply(r)
    /\ UNCHANGED <<now, zone, sweep, cut, disruptions>>

OvertimeStamp(r) ==
    /\ At(r, "overtime", "stamp")
    /\ rows' = [rows EXCEPT ![req[r].row].ot = req[r].at]
    /\ Reply(r)
    /\ UNCHANGED <<now, zone, entries, sweep, cut, disruptions>>

(***************************************************************************)
(* POST /break/start and /break/end                                        *)
(***************************************************************************)
\* Faulty variant: a running break does not refuse a second one.
BreakStartReadTwice(r) ==
    /\ At(r, "breakStart", "read")
    /\ LET i == FindCurrent(req[r].zone, req[r].at)
       IN  IF HasCheckIn(i) /\ rows[i].out = None
           THEN req' = [req EXCEPT ![r].pc = "create", ![r].row = i]
           ELSE Reply(r)
    /\ UNCHANGED <<now, zone, rows, entries, sweep, cut, disruptions>>

BreakStartRead(r) ==
    /\ At(r, "breakStart", "read")
    /\ LET i == FindCurrent(req[r].zone, req[r].at)
       IN  IF HasCheckIn(i) /\ rows[i].out = None /\ OpenEntries(i) = {}
           THEN req' = [req EXCEPT ![r].pc = "create", ![r].row = i]
           ELSE Reply(r)
    /\ UNCHANGED <<now, zone, rows, entries, sweep, cut, disruptions>>

BreakStartCreate(r) ==
    /\ At(r, "breakStart", "create")
    /\ \E type \in {"BREAK", "BRB"} : AddEntry(req[r].row, type, req[r].at, None)
    /\ Reply(r)
    /\ UNCHANGED <<now, zone, rows, sweep, cut, disruptions>>

\* The first running break (the breaks are read ordered by their start).
BreakEndRead(r) ==
    /\ At(r, "breakEnd", "read")
    /\ LET i == FindCurrent(req[r].zone, req[r].at)
           open == OpenEntries(i)
           first == {b \in open : \A c \in open : entries[b].start <= entries[c].start}
       IN  IF i = None \/ open = {} THEN Reply(r)
           ELSE \E b \in first :
                  req' = [req EXCEPT ![r].pc = "end", ![r].row = i, ![r].row2 = b]
    /\ UNCHANGED <<now, zone, rows, entries, sweep, cut, disruptions>>

\* update by id, whatever the entry holds by now (a deleted one is a 500).
BreakEndWrite(r) ==
    /\ At(r, "breakEnd", "end")
    /\ entries' = IF Exists(req[r].row2)
                  THEN [entries EXCEPT ![req[r].row2].end = req[r].at] ELSE entries
    /\ Reply(r)
    /\ UNCHANGED <<now, zone, rows, sweep, cut, disruptions>>

(***************************************************************************)
(* runAutoCheckoutTick: one query for the open days, then one transaction  *)
(* per day that is due, from what the query returned.                      *)
(***************************************************************************)
\* Faulty variant: a day in overtime is never due.
DueRowsNoOvertime == {i \in RowIds : /\ rows[i].in # None /\ rows[i].out = None
                                     /\ rows[i].ot = None
                                     /\ rows[i].in + Span <= now}

DueRows == {i \in RowIds : /\ rows[i].in # None /\ rows[i].out = None
                           /\ AutoCheckoutAt(rows[i].in, rows[i].ot) <= now}

SweepRead ==
    /\ sweep = {}
    /\ DueRows # {}
    /\ sweep' = {[row |-> i, due |-> AutoCheckoutAt(rows[i].in, rows[i].ot),
                  overtime |-> rows[i].ot # None] : i \in DueRows}
    /\ UNCHANGED <<now, zone, rows, entries, req, cut, disruptions>>
\* Faulty variant: a break that began after the closing moment is ended at it.
SweepCloseAll(s) ==
    /\ s \in sweep
    /\ entries' = [b \in BreakIds |->
                     IF b \in OpenEntries(s.row)
                     THEN [entries[b] EXCEPT !.end = s.due] ELSE entries[b]]
    /\ rows' = [rows EXCEPT ![s.row].out = s.due,
                  ![s.row].note = IF s.overtime THEN "autoOvertime" ELSE "auto"]
    /\ sweep' = sweep \ {s}
    /\ UNCHANGED <<now, zone, req, cut, disruptions>>

SweepClose(s) ==
    /\ s \in sweep
    /\ entries' = [b \in BreakIds |->
                     IF b \notin OpenEntries(s.row) THEN entries[b]
                     ELSE IF entries[b].start < s.due
                          THEN [entries[b] EXCEPT !.end = s.due]
                          ELSE [NoEntry EXCEPT !.row = Gone]]
    /\ rows' = [rows EXCEPT ![s.row].out = s.due,
                  ![s.row].note = IF s.overtime THEN "autoOvertime" ELSE "auto"]
    /\ sweep' = sweep \ {s}
    /\ UNCHANGED <<now, zone, req, cut, disruptions>>

(***************************************************************************)
(* runBreakCutoffTick: the running breaks of open days, then one           *)
(* conditional update per break past its limit.                            *)
(***************************************************************************)
Overrun == {b \in BreakIds :
              /\ Exists(b) /\ entries[b].end = None
              /\ rows[entries[b].row].out = None
              /\ entries[b].type # "OFF"
              /\ Cutoff[entries[b].type] > 0
              /\ entries[b].start + Cutoff[entries[b].type] <= now}

CutRead ==
    /\ cut = {}
    /\ Overrun # {}
    /\ cut' = {[entry |-> b, due |-> entries[b].start + Cutoff[entries[b].type]]
                 : b \in Overrun}
    /\ UNCHANGED <<now, zone, rows, entries, req, sweep, disruptions>>
\* Faulty variant: the break is marked as cut off but keeps running.
CutEndMarkOnly(c) ==
    /\ c \in cut
    /\ entries' = IF Exists(c.entry) /\ entries[c.entry].end = None
                  THEN [entries EXCEPT ![c.entry].auto = TRUE] ELSE entries
    /\ cut' = cut \ {c}
    /\ UNCHANGED <<now, zone, rows, req, sweep, disruptions>>

CutEnd(c) ==
    /\ c \in cut
    /\ entries' = IF Exists(c.entry) /\ entries[c.entry].end = None
                  THEN [entries EXCEPT ![c.entry].end = c.due, ![c.entry].auto = TRUE]
                  ELSE entries
    /\ cut' = cut \ {c}
    /\ UNCHANGED <<now, zone, rows, req, sweep, disruptions>>

-----------------------------------------------------------------------------
\* putShift / putUserShift: the time zone or hours change.
ChangeShift(z) ==
    /\ z \in Zones \ {zone}
    /\ disruptions < MaxDisruptions
    /\ disruptions' = disruptions + 1
    /\ zone' = z
    /\ UNCHANGED <<now, rows, entries, req, sweep, cut>>

\* The process restarts: every handler and tick in flight is gone.
Crash ==
    /\ disruptions < MaxDisruptions
    /\ disruptions' = disruptions + 1
    /\ req' = [r \in Reqs |-> NoRequest]
    /\ sweep' = {} /\ cut' = {}
    /\ UNCHANGED <<now, zone, rows, entries>>

Advance ==
    /\ now < MaxTime
    /\ \A r \in Reqs : Idle(r) \/ now - req[r].at < Latency
    /\ now' = now + 1
    /\ UNCHANGED <<zone, rows, entries, req, sweep, cut, disruptions>>

Handler(r) ==
    \/ CheckInRead(r) \/ CheckInClash(r) \/ CheckInMove(r)
    \/ CheckInMerge(r) \/ CheckInUpsert(r)
    \/ CheckOutRead(r) \/ CheckOutCloseBreaks(r) \/ CheckOutWrite(r)
    \/ OvertimeRead(r) \/ OvertimeReopen(r) \/ OvertimeStamp(r)
    \/ BreakStartRead(r) \/ BreakStartCreate(r)
    \/ BreakEndRead(r) \/ BreakEndWrite(r)

AutoCheckout == SweepRead \/ \E s \in sweep : SweepClose(s)
BreakCutoff == CutRead \/ \E c \in cut : CutEnd(c)

Next ==
    \/ \E r \in Reqs, op \in Ops : Arrive(r, op)
    \/ \E r \in Reqs : Handler(r)
    \/ AutoCheckout
    \/ BreakCutoff
    \/ \E z \in Zones : ChangeShift(z)
    \/ Crash
    \/ Advance

Spec == Init /\ [][Next]_vars

\* The jobs are cron entries and the handlers run to their reply.
Fairness ==
    /\ WF_vars(Advance)
    /\ WF_vars(AutoCheckout)
    /\ WF_vars(BreakCutoff)
    /\ \A r \in Reqs : WF_vars(Handler(r))

FairSpec == Spec /\ Fairness

-----------------------------------------------------------------------------
TypeOK ==
    /\ now \in Time
    /\ zone \in Zones
    /\ rows \in [RowIds -> Row]
    /\ entries \in [BreakIds -> Entry]
    /\ req \in [Reqs -> Request]
    /\ sweep \subseteq [row : RowIds, due : Time, overtime : BOOLEAN]
    /\ cut \subseteq [entry : BreakIds, due : Time]
    /\ disruptions \in Nat

\* Every break that has ended ended no earlier than it began: whatever the two
\* jobs and the handlers write over each other, the minutes pauseMinutes takes
\* off the worked time are never negative.
BreaksRunForward ==
    \A b \in BreakIds :
        Exists(b) /\ entries[b].end # None => entries[b].start <= entries[b].end

\* startBreak's "A break is already running.": no break ever starts, or runs again, on
\* a day beside another.  Two that run on one day were both running before, on two
\* days that have been folded into one (reconcileStaleCheckIn does not look at them).
Running(b) == Exists(b) /\ entries[b].end = None

OneRunningBreak ==
    [][\A b, c \in BreakIds :
         b # c /\ Running(b)' /\ Running(c)' /\ entries'[b].row = entries'[c].row
            => Running(b) /\ Running(c)]_vars

\* A break belongs to a recorded session: folding one day into another leaves
\* no break behind on the day it vacates.
BreaksHaveSession ==
    \A b \in BreakIds : Exists(b) => rows[entries[b].row].in # None

\* The date has changed since the request arrived: findToday has looked, or may have
\* looked, at another day than the one the request is for.
Straddles(q) == ShiftDay(q.zone, q.at) # ShiftDay(q.zone, now)

\* A check-in, once recorded, is never overwritten or lost: it stays on its day, unless
\* two days are folded into one, which keeps the earlier of the two, or a second check-in
\* is pressed just when the date changes.
CheckInIsKept ==
    [][\A i \in RowIds : rows[i].in # None =>
         \/ rows'[i].in = rows[i].in
         \/ \E j \in RowIds \ {i} :
              {rows'[i].in, rows'[j].in} = {None, Least({rows[i].in, rows[j].in} \ {None})}
         \/ \E r \in Reqs : Straddles(req[r]) /\ CheckInUpsert(r)]_vars

\* "checks them out at that exact moment, unless they pressed Start overtime":
\* the sweep never closes a day as shift-complete once overtime is on.
OvertimeKeepsDayOpen ==
    [][\A i \in RowIds :
         rows[i].ot # None /\ rows[i].out = None /\ rows'[i].out # None
            => rows'[i].note # "auto"]_vars

\* A forgotten clock never runs on: every session is closed, by hand or by the
\* sweep (also after overtime), unless the time the sweep would close it lies
\* beyond the modelled time.
SessionsEnd ==
    \A i \in RowIds :
        rows[i].in # None ~> \/ rows[i].out # None
                            \/ AutoCheckoutAt(rows[i].in, rows[i].ot) > MaxTime

\* A forgotten break never runs on: one that is past its cut-off ends, or its
\* day is closed.
BreaksEnd ==
    \A b \in BreakIds :
        (b \in Overrun) ~> (b \notin Overrun)

\* The clock as the person sees it (liveState of each day) keeps the promise
\* of DayPromise; a day is vacated when its session was folded into another.
Promise == INSTANCE DayPromise WITH
    Days <- RowIds,
    state <- [i \in RowIds |-> LiveState(i)],
    overtime <- [i \in RowIds |-> rows[i].ot # None],
    vacated <- {i \in RowIds : rows[i].date # None /\ rows[i].in = None}
KeepsPromise == Promise!Spec

=============================================================================
