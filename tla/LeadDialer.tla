------------------------------- MODULE LeadDialer -------------------------------
(***************************************************************************)
(* One lead of the Lead Dialer: the calls the predictive dialer reports    *)
(* for it (lib/dialer/calls.ts), what its rep and the managers do with it, *)
(* and the automatic call tasks that follow it (lib/dialer/tasks.ts).      *)
(*                                                                         *)
(* The tasks are made and cancelled by syncAutoTasks, in a transaction     *)
(* under a lock of the owner; everything else that writes the lead or its  *)
(* tasks runs outside that lock.  A job is the list of what it has still   *)
(* to do, one database round trip each.                                    *)
(*                                                                         *)
(* The statuses are ranks: 0 new, 1 contacted, 2 connected, 3 closed.  A   *)
(* due time is 1 (within a day) or 2 (later); 0 is none.                   *)
(***************************************************************************)
EXTENDS Integers, Sequences

CONSTANTS
    Requests,   \* requests that can be at work at once (reused when done)
    Cron,       \* the minute job's sync of every owner
    Calls,      \* calls, as the dialer names them
    TaskIds,    \* bound: rows of automatic tasks followed at once
    Nobody,
    MaxRequests \* bound: requests in all, and one restart

ASSUME DialerAssumption ==
    /\ Cron \notin Requests /\ Nobody \notin Requests \cup {Cron}
    /\ MaxRequests \in Nat

VARIABLES
    lead,     \* the DialerLead row
    calls,    \* the DialerCall rows, and history: how often each was put on the lead
    linked,   \* history: calls a manager matched by hand
    tasks,    \* the automatic WorkLogEntry rows
    plans,    \* what each job still has to do
    lock,     \* the advisory lock of the owner
    unticked, \* history: a task that was done was opened again
    requests,
    crashed   \* the server restarted

vars == <<lead, calls, linked, tasks, plans, lock, unticked, requests, crashed>>

Jobs == Requests \cup {Cron}
Dues == {1, 2}
Reasons == {"FOLLOW_UP_RULE", "CALL_LATER"}
Closed == 3
Outcomes == {"NO_ANSWER", "CALLBACK", "NOT_INTERESTED", "DNC", "WRONG_NUMBER"}

NoTask == [reason |-> "none", due |-> 0, done |-> FALSE, cancelled |-> FALSE]
IsOpen(k) == tasks[k] # NoTask /\ ~tasks[k].done /\ ~tasks[k].cancelled
OpenTasks == {k \in TaskIds : IsOpen(k)}

(***************************************************************************)
(* The round trips.                                                        *)
(***************************************************************************)
Log(c) == [do |-> "log", call |-> c]
ReadLead(c) == [do |-> "read", call |-> c]
Apply(c, columns) == [do |-> "apply", call |-> c, columns |-> columns]
Lead(columns) == [do |-> "lead", columns |-> columns]
Find == [do |-> "find"]
Mark(ids, done) == [do |-> "mark", ids |-> ids, done |-> done]
Clear(dues) == [do |-> "clear", dues |-> dues]
Due(k, due) == [do |-> "due", ids |-> {k}, due |-> due]
Lock == [do |-> "lock"]
ReadTasks(want) == [do |-> "tasks", want |-> want]
\* The task to make, or the time to move the kept one to.
Commit(want, keep, stale) ==
    [do |-> "commit", want |-> want, keep |-> keep, ids |-> keep \cup stale]

\* The columns of new written over those of old (TLC's @@, which the prover cannot expand).
Over(new, old) == [x \in DOMAIN new \cup DOMAIN old |-> IF x \in DOMAIN new THEN new[x] ELSE old[x]]
NoColumns == [x \in {} |-> 0]

\* The call tasks are done (completeOnTouch), then the tasks are synced.
Touched == << Find, Lock >>
OnLead(c) == << ReadLead(c) >> \o Touched

\* The cron syncs again and again.
Rest(j) == IF j = Cron THEN << Lock >> ELSE <<>>

Init ==
    /\ lead = [rank |-> 0, dnc |-> FALSE, wrong |-> FALSE, quiet |-> TRUE, snoozed |-> FALSE, later |-> 0]
    /\ calls = [c \in Calls |-> [logged |-> FALSE, outcome |-> "NO_ANSWER", on |-> FALSE, applied |-> 0]]
    /\ linked = {}
    /\ tasks = [k \in TaskIds |-> NoTask]
    /\ plans = [j \in Jobs |-> Rest(j)]
    /\ lock = Nobody /\ unticked = FALSE /\ requests = 0 /\ crashed = FALSE

Step(j) == Head(plans[j])
At(j, do) == plans[j] # <<>> /\ Step(j).do = do
Then(j, more) == plans' = [plans EXCEPT ![j] = more \o Tail(@)]

(***************************************************************************)
(* Requests begin: what a handler read for its checks, and what it will do.*)
(***************************************************************************)
Starts(j, plan) ==
    /\ plans[j] = <<>> /\ requests < MaxRequests /\ requests' = requests + 1
    /\ plans' = [plans EXCEPT ![j] = plan]

\* The dialer sends a call, the first time or again.
ReceiveCall(j, c) ==
    /\ Starts(j, << Log(c) >> \o OnLead(c))
    /\ UNCHANGED <<lead, calls, linked, tasks, lock, unticked, crashed>>

\* A manager matches a call that is not on a lead.
LinkCall(j, c) ==
    /\ calls[c].logged /\ ~calls[c].on
    /\ Starts(j, OnLead(c)) /\ linked' = linked \cup {c}
    /\ UNCHANGED <<lead, calls, tasks, lock, unticked, crashed>>

\* The rep logs a touch, perhaps of a wrong number.
AddTouch(j) ==
    /\ \E columns \in {[quiet |-> FALSE], [quiet |-> FALSE, wrong |-> TRUE]} :
          Starts(j, << Lead(columns) >> \o Touched)
    /\ UNCHANGED <<lead, calls, linked, tasks, lock, unticked, crashed>>

\* Call later, Snooze, Clear; a note with a date of its own is a Call later.
LeadAction(j) ==
    /\ \E columns \in {[later |-> d, snoozed |-> FALSE] : d \in Dues}
                        \cup {[later |-> 0, snoozed |-> b] : b \in BOOLEAN} :
          Starts(j, << Lead(columns), Lock >>)
    /\ UNCHANGED <<lead, calls, linked, tasks, lock, unticked, crashed>>

\* A new status, forward or back, ends a snooze and a call back; nothing is synced.
ChangeStatus(j) ==
    /\ \E r \in (0 .. Closed) \ {lead.rank} :
          Starts(j, << Lead([rank |-> r, snoozed |-> FALSE, later |-> 0]) >>)
    /\ UNCHANGED <<lead, calls, linked, tasks, lock, unticked, crashed>>

\* updateTask: tick, untick or move a task that is not cancelled; a call back is
\* the lead's Call later.
UpdateTask(j, k) ==
    /\ tasks[k] # NoTask /\ ~tasks[k].cancelled
    /\ LET later(d) == IF tasks[k].reason = "CALL_LATER" THEN << Lead([later |-> d]) >> ELSE <<>>
       IN  \/ Starts(j, << Mark({k}, TRUE) >> \o later(0)) /\ UNCHANGED unticked
           \/ Starts(j, << Mark({k}, FALSE) >>) /\ unticked' = TRUE
           \/ \E d \in Dues : Starts(j, << Due(k, d) >> \o later(d)) /\ UNCHANGED unticked
    /\ UNCHANGED <<lead, calls, linked, tasks, lock, crashed>>

(***************************************************************************)
(* The calls.                                                              *)
(***************************************************************************)
\* Faulty variant: a call that comes again is not recognised.
LogCallAgain(j) ==
    /\ At(j, "log")
    /\ \E o \in Outcomes :
          calls' = [calls EXCEPT ![Step(j).call].logged = TRUE, ![Step(j).call].outcome = o]
    /\ Then(j, <<>>)
    /\ UNCHANGED <<lead, linked, tasks, lock, unticked, requests, crashed>>

\* The row is created once, under the dialer's call id; the same call again is
\* answered "Already logged".
LogCall(j) ==
    /\ At(j, "log")
    /\ IF calls[Step(j).call].logged
         THEN plans' = [plans EXCEPT ![j] = <<>>] /\ UNCHANGED calls
         ELSE /\ \E o \in Outcomes :
                    calls' = [calls EXCEPT ![Step(j).call].logged = TRUE,
                                           ![Step(j).call].outcome = o]
              /\ Then(j, <<>>)
    /\ UNCHANGED <<lead, linked, tasks, lock, unticked, requests, crashed>>

\* A wrong number has no status of its own.
Rank(o) == CASE o = "WRONG_NUMBER" -> 0 [] o = "NO_ANSWER" -> 1 [] o = "CALLBACK" -> 2 [] OTHER -> Closed

\* What a call with outcome o writes on the lead l it read.
Columns(o, l, due) ==
    LET moved == IF Rank(o) > l.rank THEN [rank |-> Rank(o)] ELSE NoColumns
        also  == CASE o = "CALLBACK" -> [later |-> due, snoozed |-> FALSE]
                   [] o = "NOT_INTERESTED" -> [later |-> 0]
                   [] o = "DNC" /\ ~l.dnc -> [dnc |-> TRUE, later |-> 0, snoozed |-> FALSE]
                   [] o = "WRONG_NUMBER" /\ ~l.wrong -> [wrong |-> TRUE, later |-> 0]
                   [] OTHER -> NoColumns
    IN  Over(moved, Over(also, [quiet |-> FALSE]))

ReadForCall(j) ==
    /\ At(j, "read")
    /\ \E d \in Dues :
          Then(j, << Apply(Step(j).call, Columns(calls[Step(j).call].outcome, lead, d)) >>)
    /\ UNCHANGED <<lead, calls, linked, tasks, lock, unticked, requests, crashed>>

\* The transaction: the lead, the touch, and the call's own row.
ApplyToLead(j) ==
    /\ At(j, "apply")
    /\ lead' = Over(Step(j).columns, lead)
    /\ calls' = [calls EXCEPT ![Step(j).call].on = TRUE, ![Step(j).call].applied = @ + 1]
    /\ Then(j, <<>>)
    /\ UNCHANGED <<linked, tasks, lock, unticked, requests, crashed>>

(***************************************************************************)
(* The lead and its tasks, outside the lock.                               *)
(***************************************************************************)
WriteLead(j) ==
    /\ At(j, "lead")
    /\ lead' = Over(Step(j).columns, lead)
    /\ Then(j, <<>>)
    /\ UNCHANGED <<calls, linked, tasks, lock, unticked, requests, crashed>>

\* completeOnTouch: the follow-up task, and call tasks due within a day.
FindTasks(j) ==
    /\ At(j, "find")
    /\ LET found == {k \in OpenTasks : tasks[k].due <= 1 \/ tasks[k].reason = "FOLLOW_UP_RULE"}
           dues  == {tasks[k].due : k \in {i \in found : tasks[i].reason = "CALL_LATER"}}
       IN  Then(j, IF found = {} THEN <<>> ELSE << Mark(found, TRUE), Clear(dues) >>)
    /\ UNCHANGED <<lead, calls, linked, tasks, lock, unticked, requests, crashed>>

MarkTasks(j) ==
    /\ At(j, "mark")
    /\ tasks' = [k \in TaskIds |-> IF k \in Step(j).ids
                                   THEN [tasks[k] EXCEPT !.done = Step(j).done] ELSE tasks[k]]
    /\ Then(j, <<>>)
    /\ UNCHANGED <<lead, calls, linked, lock, unticked, requests, crashed>>

\* The call back that was done ends Call later, unless a new one was set.
ClearLater(j) ==
    /\ At(j, "clear")
    /\ lead' = IF lead.later \in Step(j).dues THEN [lead EXCEPT !.later = 0] ELSE lead
    /\ Then(j, <<>>)
    /\ UNCHANGED <<calls, linked, tasks, lock, unticked, requests, crashed>>

MoveTask(j) ==
    /\ At(j, "due")
    /\ tasks' = [k \in TaskIds |-> IF k \in Step(j).ids
                                   THEN [tasks[k] EXCEPT !.due = Step(j).due] ELSE tasks[k]]
    /\ Then(j, <<>>)
    /\ UNCHANGED <<lead, calls, linked, lock, unticked, requests, crashed>>

(***************************************************************************)
(* syncAutoTasks.                                                          *)
(***************************************************************************)
Blocked == lead.dnc \/ lead.wrong

\* Faulty variant: a blocked lead is followed like any other.
WantedEvenBlocked ==
    IF lead.rank = Closed THEN {}
    ELSE IF lead.later # 0 THEN {[reason |-> "CALL_LATER", due |-> lead.later]}
    ELSE IF lead.snoozed \/ ~lead.quiet THEN {} ELSE {[reason |-> "FOLLOW_UP_RULE", due |-> 0]}

\* The task the lead should have: a call back, or a follow-up when the rule ran out.
Wanted ==
    IF lead.rank = Closed \/ Blocked THEN {}
    ELSE IF lead.later # 0 THEN {[reason |-> "CALL_LATER", due |-> lead.later]}
    ELSE IF lead.snoozed \/ ~lead.quiet THEN {} ELSE {[reason |-> "FOLLOW_UP_RULE", due |-> 0]}

\* Faulty variant: the owner is not locked.
BeginSyncUnlocked(j) ==
    /\ At(j, "lock")
    /\ Then(j, << ReadTasks(Wanted) >>)
    /\ UNCHANGED <<lead, calls, linked, tasks, lock, unticked, requests, crashed>>

BeginSync(j) ==
    /\ At(j, "lock") /\ lock = Nobody /\ lock' = j
    /\ Then(j, << ReadTasks(Wanted) >>)
    /\ UNCHANGED <<lead, calls, linked, tasks, unticked, requests, crashed>>

\* Of the open tasks one of the wanted reason is kept, the others are stale. What is kept
\* is moved when it is a call back and was due at another time.
SyncReadsTasks(j) ==
    /\ At(j, "tasks")
    /\ LET fits == {k \in OpenTasks : \E w \in Step(j).want : w.reason = tasks[k].reason}
           keep == IF fits = {} THEN {} ELSE {CHOOSE k \in fits : TRUE}
           want == {w \in Step(j).want : \A k \in keep : w.reason = "CALL_LATER" /\ tasks[k].due # w.due}
       IN  Then(j, << Commit(want, keep, OpenTasks \ keep) >>)
    /\ UNCHANGED <<lead, calls, linked, tasks, lock, unticked, requests, crashed>>

\* A row no job has in hand: never used, or closed and forgotten.
Named(j) == UNION {plans[j][n].ids : n \in {m \in DOMAIN plans[j] : "ids" \in DOMAIN plans[j][m]}}
FreeRows == {k \in TaskIds \ OpenTasks : \A j \in Jobs : k \notin Named(j)}

Made(w) == [reason |-> w.reason, due |-> w.due, done |-> FALSE, cancelled |-> FALSE]

\* Faulty variant: an open call back keeps the due time it had.
SyncedNotMoved(s, new) ==
    [k \in TaskIds |->
       CASE k \in s.ids \ s.keep -> [tasks[k] EXCEPT !.cancelled = TRUE]
         [] k = new /\ s.keep = {} /\ s.want # {} ->
              Made(CHOOSE w \in s.want : TRUE)
         [] OTHER -> tasks[k]]

\* The tasks after the commit of s, when a task that is made gets row new.
Synced(s, new) ==
    [k \in TaskIds |->
       CASE k \in s.keep /\ s.want # {} ->
              [tasks[k] EXCEPT !.due = (CHOOSE w \in s.want : TRUE).due]
         [] k \in s.ids \ s.keep -> [tasks[k] EXCEPT !.cancelled = TRUE]
         [] k = new /\ s.keep = {} /\ s.want # {} ->
              Made(CHOOSE w \in s.want : TRUE)
         [] OTHER -> tasks[k]]

\* Missing tasks are made, a call back is moved, stale ones are cancelled.
CommitSync(j) ==
    /\ At(j, "commit")
    /\ FreeRows # {}
    /\ tasks' = Synced(Step(j), CHOOSE k \in FreeRows : TRUE)
    /\ lock' = Nobody
    /\ Then(j, Rest(j))
    /\ UNCHANGED <<lead, calls, linked, unticked, requests, crashed>>

(***************************************************************************)
(* Time, and restarts.                                                     *)
(***************************************************************************)
\* The lead has been quiet as long as its rule allows; a snooze runs out.
TimePasses ==
    /\ \/ ~lead.quiet /\ lead' = [lead EXCEPT !.quiet = TRUE]
       \/ lead.snoozed /\ lead' = [lead EXCEPT !.snoozed = FALSE]
    /\ UNCHANGED <<calls, linked, tasks, plans, lock, unticked, requests, crashed>>

\* Every job is cut off where it is (with no request at work a restart would only
\* begin the cron's sync anew); a transaction that has not committed is undone.
Crash ==
    /\ ~crashed /\ crashed' = TRUE
    /\ \E j \in Requests : plans[j] # <<>>
    /\ plans' = [j \in Jobs |-> Rest(j)] /\ lock' = Nobody
    /\ UNCHANGED <<lead, calls, linked, tasks, unticked, requests>>

Work(j) ==
    \/ LogCall(j) \/ ReadForCall(j) \/ ApplyToLead(j)
    \/ WriteLead(j) \/ FindTasks(j) \/ MarkTasks(j) \/ ClearLater(j) \/ MoveTask(j)
    \/ BeginSync(j) \/ SyncReadsTasks(j) \/ CommitSync(j)

Begin(j) ==
    \/ \E c \in Calls : ReceiveCall(j, c) \/ LinkCall(j, c)
    \/ AddTouch(j) \/ LeadAction(j) \/ ChangeStatus(j)
    \/ \E k \in TaskIds : UpdateTask(j, k)

Next ==
    \/ \E j \in Requests : Begin(j)
    \/ \E j \in Jobs : Work(j)
    \/ TimePasses \/ Crash

Spec == Init /\ [][Next]_vars

\* Requests go on, and the cron's sync gets the lock in the end.
FairSpec == Spec /\ WF_vars(\E j \in Requests : Work(j)) /\ SF_vars(Work(Cron))

-----------------------------------------------------------------------------
TypeOK ==
    /\ lead \in [rank : 0 .. Closed, dnc : BOOLEAN, wrong : BOOLEAN, quiet : BOOLEAN,
                 snoozed : BOOLEAN, later : {0} \cup Dues]
    /\ calls \in [Calls -> [logged : BOOLEAN, outcome : Outcomes, on : BOOLEAN, applied : Nat]]
    /\ tasks \in [TaskIds -> [reason : Reasons \cup {"none"}, due : {0} \cup Dues,
                              done : BOOLEAN, cancelled : BOOLEAN]]
    /\ lock \in Jobs \cup {Nobody}

\* "at most one open per lead and reason": syncs that overlap with each other and
\* with everything else never leave two, until the rep opens a done one again.
OneOpenTask ==
    ~unticked => \A i, k \in OpenTasks : tasks[i].reason = tasks[k].reason => i = k

\* "The same call sent twice is logged once": a call is on the lead exactly when
\* the lead was updated for it, and once however often it is sent, also when a
\* restart cuts a delivery off; only a manager who matches it can make it twice.
CallCountsOnce ==
    \A c \in Calls :
       /\ calls[c].on <=> calls[c].applied > 0
       /\ calls[c].applied > 1 => c \in linked

\* "DNC and wrong numbers leave dialing for good": in the end no automatic task
\* of a blocked lead is open, whoever opens or moves one meanwhile.
BlockedLeavesDialing == Blocked ~> OpenTasks = {}

\* A call back set on a lead that can be called, without an open task at its time.
Forgotten ==
    /\ lead.later # 0 /\ ~Blocked /\ lead.rank # Closed
    /\ ~\E k \in OpenTasks : tasks[k].reason = "CALL_LATER" /\ tasks[k].due = lead.later

\* "Call later makes (or moves) the call-back task": a call back does not stay
\* without its task, however it was set and whatever was cut off.
CallBackHasTask == Forgotten ~> ~Forgotten

=============================================================================
