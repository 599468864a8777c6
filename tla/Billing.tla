---------------------------------- MODULE Billing ----------------------------------
(***************************************************************************)
(* What one company pays: the messages a payment provider sends about its  *)
(* subscription and invoices, and how they reach the subscription and the  *)
(* company (lib/billing/billing.ts, billingController.ts), while the Super *)
(* Admin changes the plan and the platform owner suspends the company.     *)
(*                                                                         *)
(* The provider sends every message until it is answered with 200, in any  *)
(* order, and again while the first copy is still at work. Each step of a  *)
(* job is one query of the code, but for Read, which looks up the company  *)
(* and its subscription at once. Mails, amounts and periods are left out,  *)
(* and messages the code ignores.                                          *)
(***************************************************************************)
EXTENDS Integers, Sequences, FiniteSets

CONSTANTS
    Plans,        \* the plans a company can buy
    FirstPlan,    \* the plan of its trial
    MaxJobs,      \* bound: messages at work at once
    MaxMessages,  \* bound: messages the provider has to tell
    MaxFaults,    \* bound: queries that fail and restarts
    MaxWishes,    \* bound: what the people ask for
    MaxTime       \* bound of the clock

ASSUME BillingAssumption ==
    /\ MaxJobs \in Nat /\ MaxMessages \in Nat /\ MaxFaults \in Nat /\ MaxWishes \in Nat /\ MaxTime \in Nat \ {0}
    /\ FirstPlan \in Plans /\ "none" \notin Plans

VARIABLES
    paying,     \* the provider's own view of the subscription
    sent,       \* the messages, in the order things happened
    due,        \* those the provider has no 200 for
    events,     \* the BillingEvent rows
    sub,        \* the Subscription row; since: pastDueSince, 0 for null
    company,    \* the Company row
    jobs,       \* the webhook requests
    payer,      \* the request that changes the plan
    clock, faults,
    wishes,     \* what people have asked for
    applied,    \* history: messages that have been written in full
    again,      \* history: messages answered "again" because their row was just made
    overlapped, \* history: one request wrote what another had read, or what another
                \* had taken already
    strayed     \* history: the plan last written to the subscription is that of one that
                \* has ended, and not the company's

vars == <<paying, sent, due, events, sub, company, jobs, payer, clock, faults, wishes,
          applied, again, overlapped, strayed>>

Jobs == 1 .. MaxJobs
Statuses == {"ACTIVE", "PAST_DUE", "CANCELED"}
NoPlan == [status |-> "none", plan |-> "none"]
NoSub == [status |-> "none", plan |-> "none", since |-> 0]
Subs == [status : Statuses, plan : Plans, since : 0 .. MaxTime]
Companies == [plan : Plans, status : {"TRIAL", "ACTIVE", "SUSPENDED"}]
Messages == [type : {"subscription"}, status : Statuses, plan : Plans]
              \cup [type : {"invoice"}, status : {"PAID", "FAILED"}, plan : {"none"}]
Job == [pc : {"idle", "create", "read", "sub", "company", "mark"}, m : 0 .. MaxMessages,
        status : {"none", "TRIAL", "ACTIVE", "SUSPENDED"},
        prev : Subs \cup {NoSub}]
Idle == [pc |-> "idle", m |-> 0, status |-> "none", prev |-> NoSub]
NoChange == [pc |-> "idle", plan |-> "none"]

\* The company is in its trial, or has paid for some time.
Init ==
    /\ \/ /\ paying = NoPlan /\ sub = NoSub
          /\ company = [plan |-> FirstPlan, status |-> "TRIAL"]
       \/ /\ paying = [status |-> "ACTIVE", plan |-> FirstPlan]
          /\ sub = [status |-> "ACTIVE", plan |-> FirstPlan, since |-> 0]
          /\ company = [plan |-> FirstPlan, status |-> "ACTIVE"]
    /\ sent = <<>> /\ due = {}
    /\ events = [m \in 1 .. MaxMessages |-> "none"]
    /\ jobs = [h \in Jobs |-> Idle]
    /\ payer = NoChange
    /\ clock = 1 /\ faults = 0 /\ wishes = 0
    /\ applied = {} /\ again = {} /\ overlapped = FALSE /\ strayed = FALSE

\* Requests past their first read of the company or the subscription.
Reading == {h \in Jobs : jobs[h].pc \in {"sub", "company"}}
Changing == payer.pc # "idle"
\* Another copy of the message is at work, or was while this one began.
Twice(h) ==
    \/ events[jobs[h].m] = "processed"
    \/ \E k \in Jobs \ {h} : jobs[k].m = jobs[h].m

(***************************************************************************)
(* The provider. It tells what happens to the subscription, a change of    *)
(* its state apart from the invoice that caused it.                        *)
(***************************************************************************)
Tell(msg) ==
    /\ Len(sent) < MaxMessages
    /\ sent' = Append(sent, msg)
    /\ due' = due \cup {Len(sent) + 1}

SubMessage(p) == [type |-> "subscription", status |-> p.status, plan |-> p.plan]

Provider ==
    /\ \/ /\ paying.status \in {"none", "CANCELED"}
          /\ \E p \in Plans : paying' = [status |-> "ACTIVE", plan |-> p]
          /\ Tell(SubMessage(paying'))
       \/ /\ paying.status \in {"ACTIVE", "PAST_DUE"}
          /\ paying' \in {[paying EXCEPT !.status = s] : s \in {"PAST_DUE", "CANCELED"}}
          /\ Tell(SubMessage(paying'))
       \/ /\ paying.status \in {"ACTIVE", "PAST_DUE"}
          /\ \E paid \in {"PAID", "FAILED"} :
               /\ paying' = [paying EXCEPT !.status = IF paid = "PAID" THEN "ACTIVE" ELSE "PAST_DUE"]
               /\ Tell([type |-> "invoice", status |-> paid, plan |-> "none"])
    /\ UNCHANGED <<events, sub, company, jobs, payer, clock, faults, wishes, applied, again, overlapped, strayed>>

(***************************************************************************)
(* The webhook.                                                            *)
(***************************************************************************)
Goto(h, pc) == jobs' = [jobs EXCEPT ![h].pc = pc]

\* The request is answered; with 200 the provider does not send the message again.
Answer(h, ok) ==
    /\ jobs' = [jobs EXCEPT ![h] = Idle]
    /\ due' = IF ok THEN due \ {jobs[h].m} ELSE due

\* Requests are alike: the first one that is idle takes the message.
FirstIdle(h) == jobs[h].pc = "idle" /\ \A k \in 1 .. h - 1 : jobs[k].pc # "idle"

\* Faulty variant: a message with a row is taken for done.
DeliverSeen(h) ==
    /\ FirstIdle(h)
    /\ \E m \in due :
         IF events[m] # "none" THEN due' = due \ {m} /\ UNCHANGED jobs
         ELSE jobs' = [jobs EXCEPT ![h].pc = "create", ![h].m = m] /\ UNCHANGED due
    /\ UNCHANGED <<paying, sent, events, sub, company, payer, clock, faults, wishes, applied, again, overlapped, strayed>>

\* The provider sends a message, maybe one that is still at work. applyMessage looks for
\* its row: processed is done already, one that failed half way is taken again.
Deliver(h) ==
    /\ FirstIdle(h)
    /\ \E m \in due :
         CASE events[m] = "processed" -> due' = due \ {m} /\ UNCHANGED jobs
           [] events[m] = "row"       -> jobs' = [jobs EXCEPT ![h].pc = "read", ![h].m = m] /\ UNCHANGED due
           [] events[m] = "none"      -> jobs' = [jobs EXCEPT ![h].pc = "create", ![h].m = m] /\ UNCHANGED due
    /\ UNCHANGED <<paying, sent, events, sub, company, payer, clock, faults, wishes, applied, again, overlapped, strayed>>

\* The row is made; if another request made it meanwhile, this one answers "again".
Create(h) ==
    /\ jobs[h].pc = "create"
    /\ LET m == jobs[h].m IN
       IF events[m] = "none"
       THEN events' = [events EXCEPT ![m] = "row"] /\ Goto(h, "read") /\ UNCHANGED <<due, again>>
       ELSE Answer(h, TRUE) /\ again' = again \cup {m} /\ UNCHANGED events
    /\ UNCHANGED <<paying, sent, sub, company, payer, clock, faults, wishes, applied, overlapped, strayed>>

\* The company and the subscription as they are.
Read(h) ==
    /\ jobs[h].pc = "read"
    /\ jobs' = [jobs EXCEPT ![h].pc = "sub", ![h].status = company.status, ![h].prev = sub]
    /\ overlapped' = (overlapped \/ Reading # {} \/ Changing \/ Twice(h))
    /\ UNCHANGED <<paying, sent, due, events, sub, company, payer, clock, faults, wishes, applied, again, strayed>>

\* Faulty variant: the grace starts anew with each message.
PastDueSinceNow(since) == clock

\* The grace of a failed payment starts with the first one.
PastDueSince(since) == IF since # 0 THEN since ELSE clock

Written(h, pc) == Goto(h, pc) /\ applied' = IF pc = "mark" THEN applied \cup {jobs[h].m} ELSE applied

\* applySubscription puts the subscription as the message says.
WriteSub(h) ==
    LET msg == sent[jobs[h].m] IN
    /\ jobs[h].pc = "sub" /\ msg.type = "subscription"
    /\ sub' = [status |-> msg.status, plan |-> msg.plan,
               since |-> IF msg.status = "PAST_DUE" THEN PastDueSince(jobs[h].prev.since) ELSE 0]
    /\ strayed' = (msg.status = "CANCELED" /\ msg.plan # company.plan)
    /\ Written(h, IF msg.status = "CANCELED" THEN "mark" ELSE "company")
    /\ UNCHANGED <<paying, sent, due, events, company, payer, clock, faults, wishes, again, overlapped>>

\* Faulty variant: who pays is active, suspended or not.
StatusPaid(status) == "ACTIVE"

\* A company that pays is active, unless the owner suspended it.
StatusOf(status) == IF status = "SUSPENDED" THEN "SUSPENDED" ELSE "ACTIVE"

\* Faulty variant: the plan of the company stays.
WriteCompanyStatus(h) ==
    /\ jobs[h].pc = "company"
    /\ company' = [company EXCEPT !.status = StatusOf(jobs[h].status)]
    /\ Written(h, "mark")
    /\ UNCHANGED <<paying, sent, due, events, sub, payer, clock, faults, wishes, again, overlapped, strayed>>

\* applySubscription puts the company on the plan it pays for.
WriteCompany(h) ==
    /\ jobs[h].pc = "company"
    /\ company' = [plan |-> sent[jobs[h].m].plan, status |-> StatusOf(jobs[h].status)]
    /\ Written(h, "mark")
    /\ UNCHANGED <<paying, sent, due, events, sub, payer, clock, faults, wishes, again, overlapped, strayed>>

\* What an invoice does to the subscription: a payment that failed makes it past due, one
\* that went through active; without a subscription there is nothing to write.
Charged(job, paid) ==
    CASE job.prev = NoSub                      -> sub
      [] job.prev # NoSub /\ paid = "PAID"     -> [sub EXCEPT !.status = "ACTIVE", !.since = 0]
      [] job.prev # NoSub /\ paid = "FAILED"   -> [sub EXCEPT !.status = "PAST_DUE", !.since = PastDueSince(job.prev.since)]

\* applyInvoice writes it.
WriteInvoice(h) ==
    LET msg == sent[jobs[h].m] IN
    /\ jobs[h].pc = "sub" /\ msg.type = "invoice"
    /\ sub' = Charged(jobs[h], msg.status)
    /\ Written(h, "mark")
    /\ UNCHANGED <<paying, sent, due, events, company, payer, clock, faults, wishes, again, overlapped, strayed>>

\* Faulty variant: a processed message is answered as a failed one.
MarkFailed(h) ==
    /\ jobs[h].pc = "mark"
    /\ events' = [events EXCEPT ![jobs[h].m] = "row"]
    /\ Answer(h, FALSE)
    /\ UNCHANGED <<paying, sent, sub, company, payer, clock, faults, wishes, applied, again, overlapped, strayed>>

\* The mail is sent and the message is processed.
Mark(h) ==
    /\ jobs[h].pc = "mark"
    /\ events' = [events EXCEPT ![jobs[h].m] = "processed"]
    /\ Answer(h, TRUE)
    /\ UNCHANGED <<paying, sent, sub, company, payer, clock, faults, wishes, applied, again, overlapped, strayed>>

\* A query or the mail fails: the webhook answers 500.
Fail(h) ==
    /\ jobs[h].pc # "idle" /\ faults < MaxFaults /\ faults' = faults + 1
    /\ Answer(h, FALSE)
    /\ UNCHANGED <<paying, sent, events, sub, company, payer, clock, wishes, applied, again, overlapped, strayed>>

Work(h) ==
    \/ Create(h) \/ Read(h)
    \/ WriteSub(h) \/ WriteCompany(h) \/ WriteInvoice(h) \/ Mark(h)

(***************************************************************************)
(* The people.                                                             *)
(***************************************************************************)
Wish == wishes < MaxWishes /\ wishes' = wishes + 1

\* change of billingController: the provider changes the plan (and tells so), and "until
\* [the messages] arrive, the company already has its new plan".
AskChange ==
    /\ Wish /\ payer.pc = "idle" /\ sub.status \in {"ACTIVE", "PAST_DUE"}
    /\ paying.status \in {"ACTIVE", "PAST_DUE"}
    /\ \E p \in Plans \ {sub.plan} :
         /\ payer' = [pc |-> "sub", plan |-> p]
         /\ paying' = [paying EXCEPT !.plan = p]
         /\ Tell(SubMessage(paying'))
    /\ overlapped' = (overlapped \/ Reading # {})
    /\ UNCHANGED <<events, sub, company, jobs, clock, faults, applied, again, strayed>>

ChangeSub ==
    /\ payer.pc = "sub"
    /\ sub' = [sub EXCEPT !.plan = payer.plan]
    /\ payer' = [payer EXCEPT !.pc = "company"]
    /\ strayed' = FALSE
    /\ UNCHANGED <<paying, sent, due, events, company, jobs, clock, faults, wishes, applied, again, overlapped>>

ChangeCompany ==
    /\ payer.pc = "company"
    /\ company' = [company EXCEPT !.plan = payer.plan]
    /\ payer' = NoChange
    /\ UNCHANGED <<paying, sent, due, events, sub, jobs, clock, faults, wishes, applied, again, overlapped, strayed>>

\* updateCompany of the owner's console.
SetStatus ==
    /\ Wish
    /\ \E s \in {"TRIAL", "ACTIVE", "SUSPENDED"} \ {company.status} : company' = [company EXCEPT !.status = s]
    /\ overlapped' = (overlapped \/ Reading # {})
    /\ UNCHANGED <<paying, sent, due, events, sub, jobs, payer, clock, faults, applied, again, strayed>>

\* The server restarts; every request on it fails.
Crash ==
    /\ faults < MaxFaults /\ faults' = faults + 1
    /\ jobs' = [h \in Jobs |-> Idle] /\ payer' = NoChange
    /\ UNCHANGED <<paying, sent, due, events, sub, company, clock, wishes, applied, again, overlapped, strayed>>

\* Time passes; it matters while a failed payment is being counted.
Tick ==
    /\ sub.since # 0 /\ clock < MaxTime /\ clock' = clock + 1
    /\ UNCHANGED <<paying, sent, due, events, sub, company, jobs, payer, faults, wishes, applied, again, overlapped, strayed>>

Next ==
    \/ Provider \/ Crash \/ Tick
    \/ AskChange \/ ChangeSub \/ ChangeCompany \/ SetStatus
    \/ \E h \in Jobs : Deliver(h) \/ Work(h) \/ Fail(h)

Spec == Init /\ [][Next]_vars

\* The provider goes on sending what it has no 200 for, and a request goes on.
FairSpec ==
    /\ Spec
    /\ WF_vars(\E h \in Jobs : Deliver(h))
    /\ \A h \in Jobs : WF_vars(Work(h))

-----------------------------------------------------------------------------
TypeOK ==
    /\ paying \in [status : Statuses, plan : Plans] \cup {NoPlan}
    /\ sent \in Seq(Messages) /\ Len(sent) <= MaxMessages
    /\ due \subseteq DOMAIN sent
    /\ events \in [1 .. MaxMessages -> {"none", "row", "processed"}]
    /\ sub \in Subs \cup {NoSub} /\ company \in Companies
    /\ jobs \in [Jobs -> Job]
    /\ \A h \in Jobs : IF jobs[h].pc = "idle" THEN jobs[h] = Idle ELSE jobs[h].m \in DOMAIN sent
    /\ payer \in [pc : {"sub", "company"}, plan : Plans] \cup {NoChange}
    /\ clock \in 1 .. MaxTime /\ faults \in 0 .. MaxFaults /\ wishes \in 0 .. MaxWishes
    /\ applied \subseteq DOMAIN sent /\ again \subseteq DOMAIN sent
    /\ overlapped \in BOOLEAN /\ strayed \in BOOLEAN

\* "One that failed half way is taken again": a message that was answered with 200, or is
\* marked as processed, has been written in full, whatever failed, unless a copy of it
\* was answered "again" while the first was at work.
AnsweredWasApplied ==
    /\ DOMAIN sent \ due \subseteq applied \cup again
    /\ \A m \in DOMAIN sent : events[m] = "processed" => m \in applied

\* A payment that failed is being counted from its time, and nothing else is: a company
\* that paid, or has ended, starts anew at its next failure (billingState).
GraceIsOfThisFailure == sub.since # 0 <=> sub.status = "PAST_DUE"

\* "put the company on the plan it pays for": when the provider has an answer to all it
\* told and no request is at work, the company has the plan of the subscription,
\* whatever failed half way and in whatever order it came, unless requests overlapped or
\* a late message that an older subscription has ended took the place of the newer one.
PlanFollowsPayment ==
    /\ due = {} /\ payer = NoChange /\ \A h \in Jobs : jobs[h] = Idle
    /\ ~overlapped /\ again = {} /\ ~strayed /\ sub.status \in {"ACTIVE", "PAST_DUE"}
    => company.plan = sub.plan

\* A company the owner suspended stays so until the owner says otherwise, whatever it
\* pays, unless the owner wrote while a message was at work.
SuspendedStays ==
    [][company.status = "SUSPENDED" /\ company'.status # "SUSPENDED" => SetStatus \/ overlapped]_vars

\* "7 days to fix the card": a payment that failed is being counted, and the days of a run
\* of failures are not counted from a later one, whatever else fails or is told again.
GraceIsKept ==
    /\ []GraceIsOfThisFailure
    /\ [][sub.status = "PAST_DUE" /\ sub'.status = "PAST_DUE" => sub'.since = sub.since \/ overlapped]_vars

\* The provider gets its 200 for all it has to tell.
AllIsAnswered == <>[](due = {})

=============================================================================
