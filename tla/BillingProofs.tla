---------------------------- MODULE BillingProofs -----------------------------
(***************************************************************************)
(* Type correctness of Billing, and its safety for any number of messages, *)
(* requests, plans, faults and wishes: what is answered was written, the   *)
(* plan follows the payment, a suspension and the days to fix a card are   *)
(* kept.                                                                   *)
(***************************************************************************)
EXTENDS Billing, TLAPS

\* A message that puts the company on its plan.
Subscribes(m) == sent[m].type = "subscription" /\ sent[m].status # "CANCELED"

\* A request writes the company only for such a message, and whoever has seen the
\* subscription finds it again: its row is never deleted.
TypeInv ==
    /\ TypeOK
    /\ \A h \in Jobs : /\ jobs[h].pc = "company" => Subscribes(jobs[h].m)
                       /\ jobs[h].prev # NoSub => sub # NoSub
    /\ payer # NoChange => sub # NoSub

\* A message written in full is remembered; one that is answered or processed was.
AnswerInv ==
    /\ AnsweredWasApplied
    /\ \A h \in Jobs : jobs[h].pc = "mark" => jobs[h].m \in applied
    /\ DOMAIN sent \ due \subseteq again \cup {m \in DOMAIN sent : events[m] = "processed"}
    /\ \A m \in due : events[m] # "processed"
    /\ \A m \in (1 .. MaxMessages) \ DOMAIN sent : events[m] = "none"

(***************************************************************************)
(* As long as no two requests have overlapped: one request at most is      *)
(* between its first read and its last write, what it read is what the     *)
(* rows still hold, no other copy of its message has come as far, and a    *)
(* change of plan is alone with the rows.                                  *)
(***************************************************************************)
Writing(h) == jobs[h].pc \in {"sub", "company", "mark"}
OneReader ==
    /\ \A h, k \in Reading : h = k
    /\ Changing => Reading = {}
OneCopy ==
    /\ \A h, k \in Jobs : Writing(h) /\ Writing(k) /\ jobs[h].m = jobs[k].m => h = k
    /\ \A h \in Jobs : Writing(h) => events[jobs[h].m] # "processed"
UpToDate ==
    /\ \A h \in Reading : jobs[h].status = company.status
    /\ \A h \in Jobs : jobs[h].pc = "sub" => jobs[h].prev.since = sub.since /\ (jobs[h].prev = NoSub <=> sub = NoSub)
    /\ \A h \in Jobs : jobs[h].pc = "company" => sub.plan = sent[jobs[h].m].plan
    /\ payer.pc = "company" => sub.plan = payer.plan
AloneInv == ~overlapped => OneReader /\ OneCopy /\ UpToDate

\* A message is still to come, or at work, that will write both plans.
PlanIsComing ==
    \E m \in due : /\ Subscribes(m)
                   /\ \A h \in Jobs : ~(jobs[h].pc = "mark" /\ jobs[h].m = m)

\* The two plans differ only until that message is written.
PlanInv ==
    /\ AloneInv
    /\ ~overlapped /\ again = {} =>
         /\ Changing => PlanIsComing
         /\ ~strayed /\ sub # NoSub /\ sub.plan # company.plan => PlanIsComing

(***************************************************************************)
(* The messages and the requests, one step at a time.                      *)
(***************************************************************************)
LEMMA NoSubApart == NoSub \notin Subs
BY DEF NoSub, Subs, Statuses

LEMMA IdleType == Idle \in Job
BY BillingAssumption DEF Idle, Job

\* What is told stays told, and one more is due.
LEMMA TellKeeps ==
  ASSUME sent \in Seq(Messages), Len(sent) <= MaxMessages, due \subseteq DOMAIN sent,
         NEW msg \in Messages, Tell(msg)
  PROVE  /\ sent' \in Seq(Messages) /\ Len(sent') <= MaxMessages
         /\ DOMAIN sent' = DOMAIN sent \cup {Len(sent) + 1}
         /\ Len(sent) + 1 \notin DOMAIN sent /\ Len(sent) + 1 \in 1 .. MaxMessages
         /\ sent'[Len(sent) + 1] = msg
         /\ \A m \in DOMAIN sent : sent'[m] = sent[m]
         /\ due' = due \cup {Len(sent) + 1} /\ due' \subseteq DOMAIN sent'
BY BillingAssumption DEF Tell

\* One request goes on to its next step.
LEMMA GotoKeeps ==
  ASSUME jobs \in [Jobs -> Job], NEW h \in Jobs,
         NEW pc \in {"read", "sub", "company", "mark"}, Goto(h, pc)
  PROVE  /\ jobs' \in [Jobs -> Job]
         /\ \A k \in Jobs \ {h} : jobs'[k] = jobs[k]
         /\ \A k \in Jobs : /\ jobs'[k].pc = IF k = h THEN pc ELSE jobs[k].pc
                            /\ jobs'[k].m = jobs[k].m /\ jobs'[k].status = jobs[k].status
                            /\ jobs'[k].prev = jobs[k].prev
BY DEF Goto, Job

\* One request is over.
LEMMA AnswerKeeps ==
  ASSUME jobs \in [Jobs -> Job], NEW h \in Jobs, NEW ok \in BOOLEAN, Answer(h, ok)
  PROVE  /\ jobs' \in [Jobs -> Job] /\ jobs'[h] = Idle
         /\ \A k \in Jobs : jobs'[k] = IF k = h THEN Idle ELSE jobs[k]
         /\ due' = IF ok THEN due \ {jobs[h].m} ELSE due
BY IdleType DEF Answer

\* A message is taken by a request, or was processed before.
LEMMA DeliverKeeps ==
  ASSUME jobs \in [Jobs -> Job], NEW h \in Jobs, TypeOK, Deliver(h)
  PROVE  \E m \in due :
           \/ /\ events[m] = "processed" /\ due' = due \ {m} /\ jobs' = jobs
           \/ /\ events[m] \in {"row", "none"} /\ due' = due
              /\ jobs' \in [Jobs -> Job] /\ jobs[h] = Idle
              /\ jobs'[h].m = m /\ jobs'[h].pc \in {"create", "read"} /\ jobs'[h].prev = NoSub
              /\ \A k \in Jobs \ {h} : jobs'[k] = jobs[k]
<1>1. jobs[h].pc = "idle"
  BY DEF Deliver, FirstIdle
<1>2. jobs[h] = Idle
  BY <1>1 DEF TypeOK
<1>3. PICK m \in due :
         CASE events[m] = "processed" -> due' = due \ {m} /\ UNCHANGED jobs
           [] events[m] = "row"       -> jobs' = [jobs EXCEPT ![h].pc = "read", ![h].m = m] /\ UNCHANGED due
           [] events[m] = "none"      -> jobs' = [jobs EXCEPT ![h].pc = "create", ![h].m = m] /\ UNCHANGED due
  BY DEF Deliver
<1>4. m \in 1 .. MaxMessages /\ events[m] \in {"processed", "row", "none"}
  BY BillingAssumption DEF TypeOK
<1>5. CASE events[m] = "processed"
  BY <1>3, <1>5
<1>6. CASE events[m] = "row"
  <2>1. jobs' = [jobs EXCEPT ![h].pc = "read", ![h].m = m] /\ due' = due
    BY <1>3, <1>6
  <2> QED
    BY <1>2, <1>4, <1>6, <2>1 DEF Job, Idle
<1>7. CASE events[m] = "none"
  <2>1. jobs' = [jobs EXCEPT ![h].pc = "create", ![h].m = m] /\ due' = due
    BY <1>3, <1>7
  <2> QED
    BY <1>2, <1>4, <1>7, <2>1 DEF Job, Idle
<1> QED
  BY <1>4, <1>5, <1>6, <1>7

(***************************************************************************)
(* Type correctness.                                                       *)
(***************************************************************************)
LEMMA InitTyped == Init => TypeInv
<1> SUFFICES ASSUME Init PROVE TypeInv
  OBVIOUS
<1> USE BillingAssumption
<1>1. paying \in [status : Statuses, plan : Plans] \cup {NoPlan}
      /\ sub \in Subs \cup {NoSub} /\ company \in Companies
  BY DEF Init, Statuses, Subs, Companies
<1>2. sent \in Seq(Messages) /\ Len(sent) <= MaxMessages /\ due \subseteq DOMAIN sent
      /\ applied \subseteq DOMAIN sent /\ again \subseteq DOMAIN sent
  BY DEF Init
<1>3. jobs \in [Jobs -> Job] /\ \A h \in Jobs : jobs[h] = Idle
  BY IdleType DEF Init
<1>4. \A h \in Jobs : jobs[h].pc = "idle" /\ jobs[h].prev = NoSub
  BY <1>3 DEF Idle
<1>5. /\ events \in [1 .. MaxMessages -> {"none", "row", "processed"}] /\ payer = NoChange
      /\ clock \in 1 .. MaxTime /\ faults \in 0 .. MaxFaults /\ wishes \in 0 .. MaxWishes
  BY DEF Init
<1>6. overlapped \in BOOLEAN /\ strayed \in BOOLEAN
  BY DEF Init
<1> QED
  BY <1>1, <1>2, <1>3, <1>4, <1>5, <1>6 DEF TypeInv, TypeOK

\* A message has the type the provider gave it.
LEMMA SubscribesTyped ==
  ASSUME TypeOK, NEW m \in DOMAIN sent
  PROVE  /\ sent[m] \in Messages
         /\ sent[m].type = "subscription" => sent[m].status \in Statuses /\ sent[m].plan \in Plans
         /\ sent[m].type = "invoice" => sent[m].status \in {"PAID", "FAILED"}
         /\ sent[m].type \in {"subscription", "invoice"}
<1>1. sent[m] \in Messages
  BY DEF TypeOK
<1>2. CASE sent[m] \in [type : {"subscription"}, status : Statuses, plan : Plans]
  BY <1>1, <1>2
<1>3. CASE sent[m] \in [type : {"invoice"}, status : {"PAID", "FAILED"}, plan : {"none"}]
  BY <1>1, <1>3
<1> QED
  BY <1>1, <1>2, <1>3 DEF Messages

\* A step that leaves the messages, or adds one, keeps every message's meaning.
LEMMA SubscribesKept ==
  ASSUME TypeOK, sent' = sent \/ \E msg \in Messages : Tell(msg), NEW m \in DOMAIN sent
  PROVE  m \in DOMAIN sent' /\ sent'[m] = sent[m] /\ (Subscribes(m) <=> Subscribes(m)')
<1>1. m \in DOMAIN sent' /\ sent'[m] = sent[m]
  BY TellKeeps DEF TypeOK
<1> QED
  BY <1>1 DEF Subscribes

\* The provider's steps.
LEMMA ProviderTells ==
  ASSUME TypeOK, Provider
  PROVE  /\ paying' \in [status : Statuses, plan : Plans]
         /\ \E msg \in Messages : Tell(msg)
<1>1. CASE /\ paying.status \in {"none", "CANCELED"}
           /\ \E p \in Plans : paying' = [status |-> "ACTIVE", plan |-> p]
           /\ Tell(SubMessage(paying'))
  <2>1. paying' \in [status : Statuses, plan : Plans]
    BY <1>1 DEF Statuses
  <2>2. SubMessage(paying') \in Messages
    BY <2>1 DEF SubMessage, Messages
  <2> QED
    BY <1>1, <2>1, <2>2
<1>2. CASE /\ paying.status \in {"ACTIVE", "PAST_DUE"}
           /\ paying' \in {[paying EXCEPT !.status = s] : s \in {"PAST_DUE", "CANCELED"}}
           /\ Tell(SubMessage(paying'))
  <2>1. paying' \in [status : Statuses, plan : Plans]
    BY <1>2 DEF Statuses, TypeOK, NoPlan
  <2>2. SubMessage(paying') \in Messages
    BY <2>1 DEF SubMessage, Messages
  <2> QED
    BY <1>2, <2>1, <2>2
<1>3. CASE /\ paying.status \in {"ACTIVE", "PAST_DUE"}
           /\ \E paid \in {"PAID", "FAILED"} :
                /\ paying' = [paying EXCEPT !.status = IF paid = "PAID" THEN "ACTIVE" ELSE "PAST_DUE"]
                /\ Tell([type |-> "invoice", status |-> paid, plan |-> "none"])
  <2>1. paying' \in [status : Statuses, plan : Plans]
    BY <1>3 DEF Statuses, TypeOK, NoPlan
  <2>2. \A paid \in {"PAID", "FAILED"} : [type |-> "invoice", status |-> paid, plan |-> "none"] \in Messages
    BY DEF Messages
  <2> QED
    BY <1>3, <2>1, <2>2
<1> QED
  BY <1>1, <1>2, <1>3 DEF Provider

\* A change of plan is told, too.
LEMMA AskChangeTells ==
  ASSUME TypeOK, AskChange
  PROVE  /\ paying' \in [status : Statuses, plan : Plans]
         /\ payer' \in [pc : {"sub"}, plan : Plans] /\ sub # NoSub
         /\ \E msg \in Messages : Tell(msg) /\ msg.type = "subscription" /\ msg.status # "CANCELED"
<1>1. PICK p \in Plans : /\ payer' = [pc |-> "sub", plan |-> p]
                         /\ paying' = [paying EXCEPT !.plan = p]
                         /\ Tell(SubMessage(paying'))
  BY DEF AskChange
<1>2. paying' \in [status : Statuses, plan : Plans] /\ paying'.status \in {"ACTIVE", "PAST_DUE"}
  BY <1>1 DEF AskChange, TypeOK, NoPlan, Statuses
<1>3. SubMessage(paying') \in Messages /\ SubMessage(paying').type = "subscription"
      /\ SubMessage(paying').status # "CANCELED"
  BY <1>2 DEF SubMessage, Messages
<1>4. sub # NoSub
  BY DEF AskChange, NoSub
<1> QED
  BY <1>1, <1>2, <1>3, <1>4

\* The subscription that is written is well typed, and there.
LEMMA SubTyped ==
  ASSUME TypeInv, NEW h \in Jobs, WriteSub(h) \/ WriteInvoice(h)
  PROVE  sub' \in Subs \cup {NoSub} /\ (sub # NoSub => sub' # NoSub)
<1> USE BillingAssumption
<1>1. /\ jobs[h].prev.since \in 0 .. MaxTime /\ clock \in 1 .. MaxTime
      /\ jobs[h].m \in DOMAIN sent /\ sent[jobs[h].m] \in Messages
      /\ sub \in Subs \cup {NoSub} /\ (jobs[h].prev # NoSub => sub # NoSub)
  <2>1. jobs[h].pc = "sub"
    BY DEF WriteSub, WriteInvoice
  <2>2. jobs[h].m \in DOMAIN sent
    BY <2>1 DEF TypeInv, TypeOK
  <2>3. jobs[h].prev \in Subs \cup {NoSub}
    BY DEF TypeInv, TypeOK, Job
  <2>4. jobs[h].prev.since \in 0 .. MaxTime
    BY <2>3 DEF Subs, NoSub
  <2> QED
    BY <2>2, <2>4, SubscribesTyped DEF TypeInv, TypeOK
<1>2. PastDueSince(jobs[h].prev.since) \in 0 .. MaxTime
  BY <1>1 DEF PastDueSince
<1>3. CASE WriteSub(h)
  <2>1. sent[jobs[h].m].status \in Statuses /\ sent[jobs[h].m].plan \in Plans
    BY <1>1, <1>3, SubscribesTyped DEF TypeInv, WriteSub
  <2>2. sub' \in Subs
    BY <1>2, <1>3, <2>1 DEF WriteSub, Subs
  <2> QED
    BY <2>2 DEF Subs, NoSub, Statuses
<1>4. CASE WriteInvoice(h)
  <2>1. sent[jobs[h].m].status \in {"PAID", "FAILED"}
    BY <1>1, <1>4, SubscribesTyped DEF TypeInv, WriteInvoice
  <2>2. CASE jobs[h].prev = NoSub
    <3>1. sub' = sub
      BY <1>4, <2>1, <2>2 DEF WriteInvoice, Charged
    <3> QED
      BY <1>1, <3>1
  <2>3. CASE jobs[h].prev # NoSub /\ sent[jobs[h].m].status = "PAID"
    <3>1. sub' = [sub EXCEPT !.status = "ACTIVE", !.since = 0]
      BY <1>4, <2>3 DEF WriteInvoice, Charged
    <3>2. sub \in Subs
      BY <1>1, <2>3
    <3>3. 0 \in 0 .. MaxTime /\ "ACTIVE" \in Statuses
      BY DEF Statuses
    <3>4. sub' \in Subs
      BY <3>1, <3>2, <3>3 DEF Subs
    <3> QED
      BY <3>4, NoSubApart
  <2>4. CASE jobs[h].prev # NoSub /\ sent[jobs[h].m].status = "FAILED"
    <3>1. sub' = [sub EXCEPT !.status = "PAST_DUE", !.since = PastDueSince(jobs[h].prev.since)]
      BY <1>4, <2>4 DEF WriteInvoice, Charged
    <3>2. sub \in Subs
      BY <1>1, <2>4
    <3>3. sub' \in Subs
      BY <1>2, <3>1, <3>2 DEF Subs, Statuses
    <3> QED
      BY <3>3, NoSubApart
  <2> QED
    BY <2>1, <2>2, <2>3, <2>4
<1> QED
  BY <1>3, <1>4

LEMMA WorkTyped ==
  ASSUME TypeInv, NEW h \in Jobs, Work(h)
  PROVE  TypeInv'
<1> USE BillingAssumption
<1>0. /\ jobs \in [Jobs -> Job] /\ TypeOK /\ jobs[h].m \in DOMAIN sent
      /\ jobs[h].m \in 1 .. MaxMessages /\ jobs[h].pc # "idle"
  <2>1. jobs[h].pc # "idle"
    BY DEF Work, Create, Read, WriteSub, WriteCompany, WriteInvoice, Mark
  <2>2. jobs[h].m \in DOMAIN sent
    BY <2>1 DEF TypeInv, TypeOK
  <2> QED
    BY <2>1, <2>2 DEF TypeInv, TypeOK
<1>1. CASE Create(h)
  <2>1. CASE events[jobs[h].m] = "none"
    <3>0. Goto(h, "read")
      BY <1>1, <2>1 DEF Create
    <3>1. jobs' \in [Jobs -> Job] /\ \A k \in Jobs : jobs'[k].pc = IF k = h THEN "read" ELSE jobs[k].pc
      BY <1>0, <3>0, GotoKeeps
    <3>2. \A k \in Jobs : jobs'[k].prev = jobs[k].prev /\ jobs'[k].m = jobs[k].m
                          /\ (k # h => jobs'[k] = jobs[k])
      BY <1>0, <3>0, GotoKeeps
    <3>3. UNCHANGED <<paying, sent, due, sub, company, payer, clock, faults, wishes, applied, again, overlapped, strayed>>
          /\ events' = [events EXCEPT ![jobs[h].m] = "row"]
      BY <1>1, <2>1 DEF Create
    <3> QED
      BY <1>0, <3>1, <3>2, <3>3 DEF TypeInv, TypeOK, Subscribes
  <2>2. CASE events[jobs[h].m] # "none"
    <3>1. Answer(h, TRUE) /\ again' = again \cup {jobs[h].m} /\ UNCHANGED events
      BY <1>1, <2>2 DEF Create
    <3>2. jobs' \in [Jobs -> Job] /\ due' = due \ {jobs[h].m}
          /\ \A k \in Jobs : jobs'[k] = IF k = h THEN Idle ELSE jobs[k]
      BY <1>0, <3>1, AnswerKeeps
    <3> QED
      BY <1>0, <1>1, <3>1, <3>2 DEF Create, TypeInv, TypeOK, Subscribes, Idle
  <2> QED
    BY <2>1, <2>2
<1>2. CASE Read(h)
  <2>1. company.status \in {"none", "TRIAL", "ACTIVE", "SUSPENDED"} /\ sub \in Subs \cup {NoSub}
    BY DEF TypeInv, TypeOK, Companies
  <2> DEFINE new == [jobs[h] EXCEPT !.pc = "sub", !.status = company.status, !.prev = sub]
  <2>2. jobs' \in [Jobs -> Job]
    <3>1. new \in Job
      BY <1>0, <2>1 DEF Job
    <3>2. jobs' = [jobs EXCEPT ![h] = new]
      BY <1>0, <1>2 DEF Read
    <3> QED
      BY <1>0, <3>1, <3>2
  <2>3. /\ \A k \in Jobs \ {h} : jobs'[k] = jobs[k]
        /\ jobs'[h].pc = "sub" /\ jobs'[h].m = jobs[h].m /\ jobs'[h].prev = sub
    BY <1>0, <1>2 DEF Read, Job
  <2>4. overlapped' \in BOOLEAN
    BY <1>2 DEF Read, TypeInv, TypeOK
  <2> QED
    BY <1>0, <1>2, <2>2, <2>3, <2>4 DEF Read, TypeInv, TypeOK, Subscribes
<1>3. ASSUME NEW pc \in {"company", "mark"}, Written(h, pc), sent' = sent,
             pc = "company" => Subscribes(jobs[h].m), sub # NoSub => sub' # NoSub
      PROVE  /\ jobs' \in [Jobs -> Job] /\ applied' \subseteq DOMAIN sent
             /\ \A k \in Jobs : IF jobs'[k].pc = "idle" THEN jobs'[k] = Idle ELSE jobs'[k].m \in DOMAIN sent
             /\ \A k \in Jobs : /\ jobs'[k].pc = "company" => Subscribes(jobs[k].m) /\ jobs'[k].m = jobs[k].m
                                /\ jobs'[k].prev # NoSub => sub' # NoSub
  <2>1. Goto(h, pc) /\ applied' \subseteq applied \cup {jobs[h].m}
    BY <1>3 DEF Written
  <2>2. jobs' \in [Jobs -> Job]
        /\ \A k \in Jobs : /\ jobs'[k].pc = IF k = h THEN pc ELSE jobs[k].pc
                           /\ jobs'[k].m = jobs[k].m /\ jobs'[k].prev = jobs[k].prev
                           /\ k # h => jobs'[k] = jobs[k]
    BY <1>0, <2>1, GotoKeeps
  <2> QED
    BY <1>0, <1>3, <2>1, <2>2 DEF TypeInv, TypeOK
<1>4. CASE WriteSub(h)
  <2>1. sub' \in Subs \cup {NoSub} /\ (sub # NoSub => sub' # NoSub)
    BY <1>4, SubTyped
  <2>2. sent[jobs[h].m].status # "CANCELED" => Subscribes(jobs[h].m)
    BY <1>4 DEF WriteSub, Subscribes
  <2>3. strayed' \in BOOLEAN
    BY <1>4 DEF WriteSub
  <2>4. PICK pc \in {"company", "mark"} : Written(h, pc) /\ (pc = "company" => Subscribes(jobs[h].m))
    BY <1>4, <2>2 DEF WriteSub
  <2>5. /\ jobs' \in [Jobs -> Job] /\ applied' \subseteq DOMAIN sent
        /\ \A k \in Jobs : IF jobs'[k].pc = "idle" THEN jobs'[k] = Idle ELSE jobs'[k].m \in DOMAIN sent
        /\ \A k \in Jobs : /\ jobs'[k].pc = "company" => Subscribes(jobs[k].m) /\ jobs'[k].m = jobs[k].m
                           /\ jobs'[k].prev # NoSub => sub' # NoSub
    BY <1>3, <1>4, <2>1, <2>4 DEF WriteSub
  <2> QED
    BY <1>0, <1>4, <2>1, <2>3, <2>5 DEF WriteSub, TypeInv, TypeOK, Subscribes
<1>5. CASE WriteCompany(h)
  <2>1. sent[jobs[h].m].plan \in Plans
    BY <1>0, <1>5, SubscribesTyped DEF WriteCompany, TypeInv, Subscribes
  <2>2. company' \in Companies
    BY <1>5, <2>1 DEF WriteCompany, Companies, StatusOf
  <2>3. /\ jobs' \in [Jobs -> Job] /\ applied' \subseteq DOMAIN sent
        /\ \A k \in Jobs : IF jobs'[k].pc = "idle" THEN jobs'[k] = Idle ELSE jobs'[k].m \in DOMAIN sent
        /\ \A k \in Jobs : /\ jobs'[k].pc = "company" => Subscribes(jobs[k].m) /\ jobs'[k].m = jobs[k].m
                           /\ jobs'[k].prev # NoSub => sub' # NoSub
    BY <1>3, <1>5 DEF WriteCompany
  <2> QED
    BY <1>0, <1>5, <2>2, <2>3 DEF WriteCompany, TypeInv, TypeOK, Subscribes
<1>6. CASE WriteInvoice(h)
  <2>1. sub' \in Subs \cup {NoSub} /\ (sub # NoSub => sub' # NoSub)
    BY <1>6, SubTyped
  <2>2. /\ jobs' \in [Jobs -> Job] /\ applied' \subseteq DOMAIN sent
        /\ \A k \in Jobs : IF jobs'[k].pc = "idle" THEN jobs'[k] = Idle ELSE jobs'[k].m \in DOMAIN sent
        /\ \A k \in Jobs : /\ jobs'[k].pc = "company" => Subscribes(jobs[k].m) /\ jobs'[k].m = jobs[k].m
                           /\ jobs'[k].prev # NoSub => sub' # NoSub
    BY <1>3, <1>6, <2>1 DEF WriteInvoice
  <2> QED
    BY <1>0, <1>6, <2>1, <2>2 DEF WriteInvoice, TypeInv, TypeOK, Subscribes
<1>7. CASE Mark(h)
  <2>1. jobs' \in [Jobs -> Job] /\ due' = due \ {jobs[h].m}
        /\ \A k \in Jobs : jobs'[k] = IF k = h THEN Idle ELSE jobs[k]
    BY <1>0, <1>7, AnswerKeeps DEF Mark
  <2> QED
    BY <1>0, <1>7, <2>1 DEF Mark, TypeInv, TypeOK, Subscribes, Idle
<1> QED
  BY <1>1, <1>2, <1>4, <1>5, <1>6, <1>7 DEF Work

\* A step that tells something new, and leaves rows and requests.
LEMMA ToldTyped ==
  ASSUME TypeInv, \E msg \in Messages : Tell(msg),
         paying' \in [status : Statuses, plan : Plans],
         payer' \in [pc : {"sub", "company"}, plan : Plans] \cup {NoChange},
         payer' # NoChange => sub # NoSub,
         wishes' \in 0 .. MaxWishes, overlapped' \in BOOLEAN,
         UNCHANGED <<events, sub, company, jobs, clock, faults, applied, again, strayed>>
  PROVE  TypeInv'
<1>1. /\ sent' \in Seq(Messages) /\ Len(sent') <= MaxMessages
      /\ DOMAIN sent \subseteq DOMAIN sent' /\ due' \subseteq DOMAIN sent'
      /\ \A m \in DOMAIN sent : sent'[m] = sent[m]
  BY TellKeeps DEF TypeInv, TypeOK
<1>2. \A h \in Jobs : jobs[h].pc # "idle" => jobs[h].m \in DOMAIN sent
  BY DEF TypeInv, TypeOK
<1>3. \A h \in Jobs : jobs[h].pc = "company" => Subscribes(jobs[h].m)'
  BY <1>1, <1>2 DEF TypeInv, Subscribes
<1> QED
  BY <1>1, <1>3 DEF TypeInv, TypeOK

LEMMA StepTyped ==
  ASSUME TypeInv, [Next]_vars
  PROVE  TypeInv'
<1> USE BillingAssumption
<1>0. TypeOK
  BY DEF TypeInv
<1>1. CASE Provider
  BY <1>0, <1>1, ProviderTells, ToldTyped DEF Provider, TypeInv, TypeOK
<1>2. CASE AskChange
  <2>1. payer' \in [pc : {"sub", "company"}, plan : Plans] /\ sub # NoSub
    BY <1>0, <1>2, AskChangeTells
  <2>2. wishes' \in 0 .. MaxWishes
    BY <1>0, <1>2 DEF AskChange, Wish, TypeOK
  <2>3. overlapped' \in BOOLEAN
    BY <1>2 DEF AskChange
  <2> QED
    BY <1>0, <1>2, <2>1, <2>2, <2>3, AskChangeTells, ToldTyped DEF AskChange
<1>3. CASE ChangeSub
  <2>1. sub \in Subs /\ payer \in [pc : {"sub", "company"}, plan : Plans]
    BY <1>3 DEF TypeInv, TypeOK, ChangeSub, NoChange
  <2>2. sub' \in Subs /\ payer' \in [pc : {"sub", "company"}, plan : Plans] /\ sub' # NoSub
    BY <1>3, <2>1, NoSubApart DEF ChangeSub, Subs
  <2>3. strayed' \in BOOLEAN
    BY <1>3 DEF ChangeSub
  <2> QED
    BY <1>3, <2>2, <2>3 DEF TypeInv, TypeOK, ChangeSub, Subscribes
<1>4. CASE ChangeCompany
  <2>1. payer.plan \in Plans
    BY <1>4 DEF TypeInv, TypeOK, ChangeCompany, NoChange
  <2>2. company' \in Companies
    BY <1>4, <2>1 DEF TypeInv, TypeOK, ChangeCompany, Companies
  <2> QED
    BY <1>4, <2>2 DEF TypeInv, TypeOK, ChangeCompany, Subscribes
<1>5. CASE SetStatus
  <2>1. company' \in Companies
    BY <1>5 DEF TypeInv, TypeOK, SetStatus, Companies
  <2>2. wishes' \in 0 .. MaxWishes
    BY <1>0, <1>5 DEF SetStatus, Wish, TypeOK
  <2>3. overlapped' \in BOOLEAN
    BY <1>5 DEF SetStatus
  <2> QED
    BY <1>5, <2>1, <2>2, <2>3 DEF TypeInv, TypeOK, SetStatus, Subscribes
<1>6. CASE Crash
  <2>1. jobs' \in [Jobs -> Job] /\ \A h \in Jobs : jobs'[h] = Idle
    BY <1>6, IdleType DEF Crash
  <2>2. faults' \in 0 .. MaxFaults
    BY <1>0, <1>6 DEF Crash, TypeOK
  <2> QED
    BY <1>6, <2>1, <2>2 DEF TypeInv, TypeOK, Crash, Subscribes, Idle
<1>7. CASE Tick
  <2>1. clock' \in 1 .. MaxTime
    BY <1>0, <1>7 DEF Tick, TypeOK
  <2> QED
    BY <1>7, <2>1 DEF TypeInv, TypeOK, Tick, Subscribes
<1>8. ASSUME NEW h \in Jobs, Deliver(h) PROVE TypeInv'
  <2>1. UNCHANGED <<paying, sent, events, sub, company, payer, clock, faults, wishes, applied, again, overlapped, strayed>>
    BY <1>8 DEF Deliver
  <2>2. jobs \in [Jobs -> Job]
    BY DEF TypeInv, TypeOK
  <2>3. PICK m \in due :
          \/ /\ events[m] = "processed" /\ due' = due \ {m} /\ jobs' = jobs
          \/ /\ events[m] \in {"row", "none"} /\ due' = due
             /\ jobs' \in [Jobs -> Job] /\ jobs[h] = Idle
             /\ jobs'[h].m = m /\ jobs'[h].pc \in {"create", "read"} /\ jobs'[h].prev = NoSub
             /\ \A k \in Jobs \ {h} : jobs'[k] = jobs[k]
    BY <1>0, <1>8, <2>2, DeliverKeeps
  <2>4. CASE due' = due \ {m} /\ jobs' = jobs
    BY <2>1, <2>4 DEF TypeInv, TypeOK, Subscribes
  <2>5. CASE /\ due' = due /\ jobs' \in [Jobs -> Job]
             /\ jobs'[h].m = m /\ jobs'[h].pc \in {"create", "read"} /\ jobs'[h].prev = NoSub
             /\ \A k \in Jobs \ {h} : jobs'[k] = jobs[k]
    <3>1. \A k \in Jobs : IF jobs'[k].pc = "idle" THEN jobs'[k] = Idle ELSE jobs'[k].m \in DOMAIN sent
      BY <2>5 DEF TypeInv, TypeOK
    <3>2. \A k \in Jobs : /\ jobs'[k].pc = "company" => Subscribes(jobs'[k].m)
                          /\ jobs'[k].prev # NoSub => sub # NoSub
      BY <2>5 DEF TypeInv
    <3> QED
      BY <2>1, <2>5, <3>1, <3>2 DEF TypeInv, TypeOK, Subscribes
  <2> QED
    BY <2>3, <2>4, <2>5
<1>9. ASSUME NEW h \in Jobs, Fail(h) PROVE TypeInv'
  <2>1. Answer(h, FALSE) /\ jobs \in [Jobs -> Job]
    BY <1>9 DEF Fail, TypeInv, TypeOK
  <2>2. jobs' \in [Jobs -> Job] /\ due' = due
        /\ \A k \in Jobs : jobs'[k] = IF k = h THEN Idle ELSE jobs[k]
    BY <2>1, AnswerKeeps
  <2>3. faults' \in 0 .. MaxFaults
    BY <1>0, <1>9 DEF Fail, TypeOK
  <2> QED
    BY <1>9, <2>2, <2>3 DEF Fail, TypeInv, TypeOK, Subscribes, Idle
<1>10. CASE UNCHANGED vars
  BY <1>10 DEF vars, TypeInv, TypeOK, Subscribes
<1> QED
  BY <1>1, <1>2, <1>3, <1>4, <1>5, <1>6, <1>7, <1>8, <1>9, <1>10, WorkTyped DEF Next

\* Every variable has its type in every state: rows, messages, requests and history.
THEOREM TypeCorrect == Spec => []TypeOK
<1>1. Init => TypeInv
  BY InitTyped
<1>2. TypeInv /\ [Next]_vars => TypeInv'
  BY StepTyped
<1>3. TypeInv => TypeOK
  BY DEF TypeInv
<1> QED
  BY <1>1, <1>2, <1>3, PTL DEF Spec

LEMMA TypeInvariant == Spec => []TypeInv
<1>1. Init => TypeInv
  BY InitTyped
<1>2. TypeInv /\ [Next]_vars => TypeInv'
  BY StepTyped
<1> QED
  BY <1>1, <1>2, PTL DEF Spec

(***************************************************************************)
(* What is answered was written.                                           *)
(***************************************************************************)
LEMMA InitAnswered == Init => AnswerInv
<1> SUFFICES ASSUME Init PROVE AnswerInv
  OBVIOUS
<1>1. DOMAIN sent = {} /\ due = {} /\ \A m \in 1 .. MaxMessages : events[m] = "none"
  BY DEF Init
<1>2. \A h \in Jobs : jobs[h].pc = "idle"
  BY DEF Init, Idle
<1> QED
  BY <1>1, <1>2 DEF AnswerInv, AnsweredWasApplied

\* A step that writes no event, answers nothing and forgets no message in full.
LEMMA AnsweredKept ==
  ASSUME TypeInv, TypeInv', AnswerInv,
         \/ sent' = sent /\ due' = due
         \/ \E msg \in Messages : Tell(msg),
         events' = events, again' = again, applied \subseteq applied',
         \A h \in Jobs : jobs'[h].pc = "mark" => jobs'[h].m \in applied'
  PROVE  AnswerInv'
<1>1. DOMAIN sent \subseteq DOMAIN sent' /\ DOMAIN sent' \ due' = DOMAIN sent \ due
      /\ \A m \in due' \ due : m \in (1 .. MaxMessages) \ DOMAIN sent
  BY TellKeeps DEF TypeInv, TypeOK
<1>2. \A m \in due' : events[m] # "processed"
  BY <1>1 DEF AnswerInv
<1>3. \A m \in DOMAIN sent' : events[m] = "processed" => m \in applied
  <2> SUFFICES ASSUME NEW m \in DOMAIN sent', events[m] = "processed" PROVE m \in applied
    OBVIOUS
  <2>1. m \in 1 .. MaxMessages
    BY BillingAssumption DEF TypeInv, TypeOK
  <2> QED
    BY <2>1 DEF AnswerInv, AnsweredWasApplied
<1> QED
  BY <1>1, <1>2, <1>3 DEF AnswerInv, AnsweredWasApplied

LEMMA StepAnswered ==
  ASSUME TypeInv, AnswerInv, [Next]_vars
  PROVE  AnswerInv'
<1> USE BillingAssumption
<1>0. /\ TypeInv' /\ TypeOK /\ jobs \in [Jobs -> Job]
      /\ events \in [1 .. MaxMessages -> {"none", "row", "processed"}]
      /\ DOMAIN sent \subseteq 1 .. MaxMessages
  BY StepTyped DEF TypeInv, TypeOK
<1>1. CASE Provider
  BY <1>0, <1>1, ProviderTells, AnsweredKept DEF Provider, AnswerInv
<1>2. CASE AskChange
  BY <1>0, <1>2, AskChangeTells, AnsweredKept DEF AskChange, AnswerInv
<1>3. CASE ChangeSub \/ ChangeCompany \/ SetStatus \/ Tick \/ UNCHANGED vars
  BY <1>0, <1>3, AnsweredKept DEF ChangeSub, ChangeCompany, SetStatus, Tick, vars, AnswerInv
<1>4. CASE Crash
  <2>1. \A h \in Jobs : jobs'[h].pc # "mark"
    BY <1>4 DEF Crash, Idle
  <2> QED
    BY <1>0, <1>4, <2>1, AnsweredKept DEF Crash
<1>5. ASSUME NEW h \in Jobs, Deliver(h) PROVE AnswerInv'
  <2>1. UNCHANGED <<sent, events, applied, again>>
    BY <1>5 DEF Deliver
  <2>2. PICK m \in due :
          \/ /\ events[m] = "processed" /\ due' = due \ {m} /\ jobs' = jobs
          \/ /\ events[m] \in {"row", "none"} /\ due' = due
             /\ jobs' \in [Jobs -> Job] /\ jobs[h] = Idle
             /\ jobs'[h].m = m /\ jobs'[h].pc \in {"create", "read"} /\ jobs'[h].prev = NoSub
             /\ \A k \in Jobs \ {h} : jobs'[k] = jobs[k]
    BY <1>0, <1>5, DeliverKeeps
  <2>3. due' = due
    BY <2>2 DEF AnswerInv
  <2>4. \A k \in Jobs : jobs'[k].pc = "mark" => jobs'[k].m \in applied
    BY <2>2 DEF AnswerInv
  <2> QED
    BY <1>0, <2>1, <2>3, <2>4, AnsweredKept
<1>6. ASSUME NEW h \in Jobs, Fail(h) PROVE AnswerInv'
  <2>1. due' = due /\ \A k \in Jobs : jobs'[k] = IF k = h THEN Idle ELSE jobs[k]
    BY <1>0, <1>6, AnswerKeeps DEF Fail
  <2>2. \A k \in Jobs : jobs'[k].pc = "mark" => jobs'[k].m \in applied
    BY <2>1 DEF AnswerInv, Idle
  <2> QED
    BY <1>0, <1>6, <2>1, <2>2, AnsweredKept DEF Fail
<1>7. ASSUME NEW h \in Jobs, Create(h) PROVE AnswerInv'
  <2>1. jobs[h].m \in DOMAIN sent
    BY <1>7 DEF Create, TypeInv, TypeOK
  <2>2. CASE events[jobs[h].m] = "none"
    <3>1. Goto(h, "read") /\ events' = [events EXCEPT ![jobs[h].m] = "row"] /\ UNCHANGED <<sent, due, again, applied>>
      BY <1>7, <2>2 DEF Create
    <3>2. \A k \in Jobs : jobs'[k].pc = "mark" => jobs[k].pc = "mark" /\ jobs'[k].m = jobs[k].m
      BY <1>0, <3>1, GotoKeeps
    <3>3. \A m \in 1 .. MaxMessages : /\ events'[m] = "processed" <=> events[m] = "processed"
                                      /\ m # jobs[h].m => events'[m] = events[m]
      BY <1>0, <2>1, <2>2, <3>1
    <3> QED
      BY <1>0, <2>1, <3>1, <3>2, <3>3 DEF AnswerInv, AnsweredWasApplied
  <2>3. CASE events[jobs[h].m] # "none"
    <3>1. Answer(h, TRUE) /\ again' = again \cup {jobs[h].m} /\ UNCHANGED <<sent, events, applied>>
      BY <1>7, <2>3 DEF Create
    <3>2. due' = due \ {jobs[h].m} /\ \A k \in Jobs : jobs'[k] = IF k = h THEN Idle ELSE jobs[k]
      BY <1>0, <3>1, AnswerKeeps
    <3>3. \A k \in Jobs : jobs'[k].pc = "mark" => jobs'[k].m \in applied
      BY <3>2 DEF AnswerInv, Idle
    <3> QED
      BY <3>1, <3>2, <3>3 DEF AnswerInv, AnsweredWasApplied
  <2> QED
    BY <2>2, <2>3
<1>8. ASSUME NEW h \in Jobs, Read(h) PROVE AnswerInv'
  <2>1. \A k \in Jobs : jobs'[k].pc = "mark" => jobs'[k] = jobs[k]
    BY <1>0, <1>8 DEF Read, Job
  <2> QED
    BY <1>0, <1>8, <2>1, AnsweredKept DEF Read, AnswerInv
<1>9. ASSUME NEW h \in Jobs, WriteSub(h) \/ WriteCompany(h) \/ WriteInvoice(h) PROVE AnswerInv'
  <2>1. UNCHANGED <<sent, due, events, again>> /\ \E pc \in {"company", "mark"} : Written(h, pc)
    BY <1>9 DEF WriteSub, WriteCompany, WriteInvoice
  <2>2. PICK pc \in {"company", "mark"} : Written(h, pc)
    BY <2>1
  <2>3. applied \subseteq applied' /\ (pc = "mark" => jobs[h].m \in applied') /\ Goto(h, pc)
    BY <2>2 DEF Written
  <2>4. \A k \in Jobs : jobs'[k].pc = (IF k = h THEN pc ELSE jobs[k].pc) /\ jobs'[k].m = jobs[k].m
    BY <1>0, <2>3, GotoKeeps
  <2>5. \A k \in Jobs : jobs'[k].pc = "mark" => jobs'[k].m \in applied'
    BY <2>3, <2>4 DEF AnswerInv
  <2> QED
    BY <1>0, <2>1, <2>3, <2>5, AnsweredKept
<1>10. ASSUME NEW h \in Jobs, Mark(h) PROVE AnswerInv'
  <2>1. jobs[h].m \in DOMAIN sent /\ jobs[h].m \in applied
    BY <1>10 DEF Mark, TypeInv, TypeOK, AnswerInv
  <2>2. due' = due \ {jobs[h].m} /\ \A k \in Jobs : jobs'[k] = IF k = h THEN Idle ELSE jobs[k]
    BY <1>0, <1>10, AnswerKeeps DEF Mark
  <2>3. \A k \in Jobs : jobs'[k].pc = "mark" => jobs'[k].m \in applied
    BY <2>2 DEF AnswerInv, Idle
  <2>4. \A m \in 1 .. MaxMessages : events'[m] = IF m = jobs[h].m THEN "processed" ELSE events[m]
    BY <1>0, <1>10, <2>1 DEF Mark
  <2> QED
    BY <1>0, <1>10, <2>1, <2>2, <2>3, <2>4 DEF Mark, AnswerInv, AnsweredWasApplied
<1> QED
  BY <1>1, <1>2, <1>3, <1>4, <1>5, <1>6, <1>7, <1>8, <1>9, <1>10 DEF Next, Work

LEMMA AnswerInvariant == Spec => []AnswerInv
<1>1. Init => AnswerInv
  BY InitAnswered
<1>2. TypeInv /\ AnswerInv /\ [Next]_vars => AnswerInv'
  BY StepAnswered
<1> QED
  BY <1>1, <1>2, TypeInvariant, PTL DEF Spec

\* A message that was answered with 200, or is marked as processed, has been written in
\* full, except one that was answered "again" (applyMessage).
THEOREM AnsweredWasAlwaysApplied == Spec => []AnsweredWasApplied
<1>1. AnswerInv => AnsweredWasApplied
  BY DEF AnswerInv
<1> QED
  BY <1>1, AnswerInvariant, PTL

(***************************************************************************)
(* Requests that do not overlap.                                           *)
(***************************************************************************)
LEMMA InitAlone == Init => AloneInv
<1> SUFFICES ASSUME Init PROVE AloneInv
  OBVIOUS
<1>1. \A h \in Jobs : jobs[h].pc = "idle"
  BY DEF Init, Idle
<1>2. payer.pc = "idle"
  BY DEF Init, NoChange
<1> QED
  BY <1>1, <1>2 DEF AloneInv, OneReader, OneCopy, UpToDate, Reading, Changing, Writing

\* A step that brings no request to its read, and leaves the rows.
LEMMA AloneKept ==
  ASSUME TypeInv, AloneInv, overlapped' = overlapped,
         \A k \in Jobs : Writing(k)' => jobs'[k] = jobs[k],
         sub' = sub, company' = company, payer' = payer \/ payer' = NoChange,
         \A m \in DOMAIN sent : sent'[m] = sent[m],
         \A m \in 1 .. MaxMessages : events'[m] = "processed" => events[m] = "processed"
  PROVE  AloneInv'
<1> SUFFICES ASSUME ~overlapped PROVE OneReader' /\ OneCopy' /\ UpToDate'
  BY DEF AloneInv
<1>1. \A k \in Jobs : Writing(k)' => /\ jobs'[k] = jobs[k] /\ Writing(k)
                                     /\ jobs[k].m \in DOMAIN sent /\ jobs[k].m \in 1 .. MaxMessages
  <2> SUFFICES ASSUME NEW k \in Jobs, Writing(k)'
               PROVE  /\ jobs'[k] = jobs[k] /\ Writing(k)
                      /\ jobs[k].m \in DOMAIN sent /\ jobs[k].m \in 1 .. MaxMessages
    OBVIOUS
  <2>1. jobs'[k] = jobs[k]
    OBVIOUS
  <2>2. Writing(k)
    BY <2>1 DEF Writing
  <2>3. jobs[k].m \in DOMAIN sent
    BY <2>2 DEF Writing, TypeInv, TypeOK
  <2>4. sent \in Seq(Messages) /\ Len(sent) <= MaxMessages
    BY DEF TypeInv, TypeOK
  <2> QED
    BY <2>1, <2>2, <2>3, <2>4, BillingAssumption
<1>2. Reading' \subseteq Reading /\ \A k \in Reading' : jobs'[k] = jobs[k]
  BY <1>1 DEF Reading, Writing
<1>3. Changing' => Changing /\ payer' = payer
  BY DEF Changing, NoChange
<1>4. OneReader'
  BY <1>2, <1>3 DEF AloneInv, OneReader
<1>5. OneCopy'
  BY <1>1 DEF AloneInv, OneCopy
<1>6. UpToDate'
  <2>1. \A h \in Reading' : jobs'[h].status = company'.status
    BY <1>2 DEF AloneInv, UpToDate
  <2>2. \A h \in Jobs : jobs'[h].pc = "sub" => jobs'[h].prev.since = sub'.since /\ (jobs'[h].prev = NoSub <=> sub' = NoSub)
    BY <1>1 DEF AloneInv, UpToDate, Writing
  <2>3. \A h \in Jobs : jobs'[h].pc = "company" => sub'.plan = sent'[jobs'[h].m].plan
    BY <1>1 DEF AloneInv, UpToDate, Writing
  <2>4. payer'.pc = "company" => sub'.plan = payer'.plan
    BY DEF AloneInv, UpToDate, NoChange
  <2> QED
    BY <2>1, <2>2, <2>3, <2>4 DEF UpToDate
<1> QED
  BY <1>4, <1>5, <1>6

LEMMA StepAlone ==
  ASSUME TypeInv, AloneInv, [Next]_vars
  PROVE  AloneInv'
<1> USE BillingAssumption
<1>0. /\ TypeOK /\ jobs \in [Jobs -> Job]
      /\ events \in [1 .. MaxMessages -> {"none", "row", "processed"}]
      /\ DOMAIN sent \subseteq 1 .. MaxMessages
  BY DEF TypeInv, TypeOK
<1>1. CASE Provider
  <2>1. \A m \in DOMAIN sent : sent'[m] = sent[m]
    BY <1>0, <1>1, ProviderTells, TellKeeps DEF TypeOK
  <2> QED
    BY <1>1, <2>1, AloneKept DEF Provider
<1>2. CASE Tick \/ UNCHANGED vars
  BY <1>2, AloneKept DEF Tick, vars
<1>3. CASE Crash
  <2>1. \A k \in Jobs : ~Writing(k)'
    BY <1>3 DEF Crash, Writing, Idle
  <2> QED
    BY <1>3, <2>1, AloneKept DEF Crash
<1>4. ASSUME NEW h \in Jobs, Deliver(h) PROVE AloneInv'
  <2>1. \A k \in Jobs : Writing(k)' => jobs'[k] = jobs[k]
    BY <1>0, <1>4, DeliverKeeps DEF Writing
  <2> QED
    BY <1>4, <2>1, AloneKept DEF Deliver
<1>5. ASSUME NEW h \in Jobs, Fail(h) PROVE AloneInv'
  <2>1. \A k \in Jobs : jobs'[k] = IF k = h THEN Idle ELSE jobs[k]
    BY <1>0, <1>5, AnswerKeeps DEF Fail
  <2>2. \A k \in Jobs : Writing(k)' => jobs'[k] = jobs[k]
    BY <2>1 DEF Writing, Idle
  <2> QED
    BY <1>5, <2>2, AloneKept DEF Fail
<1>6. ASSUME NEW h \in Jobs, Create(h) PROVE AloneInv'
  <2>1. jobs[h].m \in 1 .. MaxMessages
    BY <1>0, <1>6 DEF Create, TypeOK
  <2>2. CASE events[jobs[h].m] = "none"
    <3>1. Goto(h, "read") /\ events' = [events EXCEPT ![jobs[h].m] = "row"]
      BY <1>6, <2>2 DEF Create
    <3>2. \A k \in Jobs : Writing(k)' => jobs'[k] = jobs[k]
      BY <1>0, <3>1, GotoKeeps DEF Writing
    <3>3. \A m \in 1 .. MaxMessages : events'[m] = "processed" => events[m] = "processed"
      BY <1>0, <3>1
    <3> QED
      BY <1>6, <3>2, <3>3, AloneKept DEF Create
  <2>3. CASE events[jobs[h].m] # "none"
    <3>1. Answer(h, TRUE) /\ events' = events
      BY <1>6, <2>3 DEF Create
    <3>2. \A k \in Jobs : jobs'[k] = IF k = h THEN Idle ELSE jobs[k]
      BY <1>0, <3>1, AnswerKeeps
    <3>3. \A k \in Jobs : Writing(k)' => jobs'[k] = jobs[k]
      BY <3>2 DEF Writing, Idle
    <3> QED
      BY <1>6, <3>1, <3>3, AloneKept DEF Create
  <2> QED
    BY <2>2, <2>3
<1>7. ASSUME NEW h \in Jobs, Mark(h), ~overlapped PROVE OneReader' /\ OneCopy' /\ UpToDate'
  <2>1. jobs[h].m \in 1 .. MaxMessages
    BY <1>0, <1>7 DEF Mark, TypeOK
  <2>2. \A k \in Jobs : jobs'[k] = IF k = h THEN Idle ELSE jobs[k]
    BY <1>0, <1>7, AnswerKeeps DEF Mark
  <2>3. \A k \in Jobs : Writing(k)' => jobs'[k] = jobs[k] /\ Writing(k) /\ k # h
    BY <2>2 DEF Writing, Idle
  <2>4. \A m \in 1 .. MaxMessages : m # jobs[h].m => events'[m] = events[m]
    BY <1>0, <1>7, <2>1 DEF Mark
  <2>5. \A k \in Jobs : Writing(k)' => jobs[k].m # jobs[h].m /\ jobs[k].m \in 1 .. MaxMessages
    BY <1>0, <1>7, <2>3 DEF AloneInv, OneCopy, Mark, Writing, TypeOK
  <2>6. OneCopy'
    BY <1>7, <2>3, <2>4, <2>5 DEF AloneInv, OneCopy
  <2>7. UNCHANGED <<sent, sub, company, payer>>
    BY <1>7 DEF Mark
  <2>8. Reading' = Reading /\ \A k \in Reading : jobs'[k] = jobs[k]
    BY <1>7, <2>2 DEF Reading, Mark, Idle
  <2>9. OneReader'
    BY <1>7, <2>7, <2>8 DEF AloneInv, OneReader, Changing
  <2>10. UpToDate'
    BY <1>7, <2>3, <2>7, <2>8 DEF AloneInv, UpToDate, Writing
  <2> QED
    BY <2>6, <2>9, <2>10
<1>8. ASSUME AskChange \/ SetStatus, ~overlapped' PROVE OneReader' /\ OneCopy' /\ UpToDate'
  <2>1. Reading = {} /\ ~overlapped /\ UNCHANGED <<jobs, events, sub>>
    BY <1>8 DEF AskChange, SetStatus
  <2>2. \A m \in DOMAIN sent : sent'[m] = sent[m]
    BY <1>0, <1>8, AskChangeTells, TellKeeps DEF TypeOK, SetStatus
  <2>3. \A k \in Jobs : jobs[k].pc \notin {"sub", "company"}
    BY <2>1 DEF Reading
  <2>4. payer' = payer \/ payer'.pc = "sub"
    BY <1>8 DEF AskChange, SetStatus
  <2>5. Reading' = {}
    BY <2>1 DEF Reading
  <2>6. OneReader'
    BY <2>5 DEF OneReader
  <2>7. OneCopy'
    BY <2>1 DEF AloneInv, OneCopy, Writing
  <2>8. UpToDate'
    BY <2>1, <2>3, <2>4, <2>5 DEF AloneInv, UpToDate
  <2> QED
    BY <2>6, <2>7, <2>8
<1>9. ASSUME ChangeSub \/ ChangeCompany, ~overlapped PROVE OneReader' /\ OneCopy' /\ UpToDate'
  <2>1. Reading = {} /\ UNCHANGED <<jobs, events, sent>>
    BY <1>9 DEF ChangeSub, ChangeCompany, AloneInv, OneReader, Changing
  <2>2. \A k \in Jobs : jobs[k].pc \notin {"sub", "company"}
    BY <2>1 DEF Reading
  <2>3. Reading' = {}
    BY <2>1 DEF Reading
  <2>4. payer'.pc = "company" => sub'.plan = payer'.plan
    <3>1. CASE ChangeSub
      <4>1. payer \in [pc : {"sub", "company"}, plan : Plans] /\ sub \in Subs
        BY <1>0, <3>1 DEF ChangeSub, TypeInv, TypeOK, NoChange
      <4> QED
        BY <3>1, <4>1 DEF ChangeSub, Subs
    <3>2. CASE ChangeCompany
      BY <3>2 DEF ChangeCompany, NoChange
    <3> QED
      BY <1>9, <3>1, <3>2
  <2>5. OneReader'
    BY <2>3 DEF OneReader
  <2>6. OneCopy'
    BY <1>9, <2>1 DEF AloneInv, OneCopy, Writing
  <2>7. UpToDate'
    BY <2>1, <2>2, <2>3, <2>4 DEF UpToDate
  <2> QED
    BY <2>5, <2>6, <2>7
<1>10. ASSUME NEW h \in Jobs, Read(h), ~overlapped' PROVE OneReader' /\ OneCopy' /\ UpToDate'
  <2>1. Reading = {} /\ ~Changing /\ ~Twice(h) /\ ~overlapped
    BY <1>10 DEF Read
  <2>2. UNCHANGED <<sent, events, sub, company, payer>>
    BY <1>10 DEF Read
  <2>3. /\ jobs'[h].pc = "sub" /\ jobs'[h].m = jobs[h].m /\ jobs'[h].status = company.status
        /\ jobs'[h].prev = sub /\ \A k \in Jobs \ {h} : jobs'[k] = jobs[k]
    BY <1>0, <1>10 DEF Read, Job
  <2>4. Reading' = {h}
    BY <2>1, <2>3 DEF Reading
  <2>5. OneReader'
    BY <2>1, <2>2, <2>4 DEF OneReader, Changing
  <2>6. \A k \in Jobs \ {h} : jobs[k].m # jobs[h].m
    BY <2>1 DEF Twice
  <2>7. OneCopy'
    BY <2>1, <2>2, <2>3, <2>6 DEF AloneInv, OneCopy, Writing, Twice
  <2>8. UpToDate'
    BY <2>1, <2>2, <2>3, <2>4 DEF AloneInv, UpToDate, Reading
  <2> QED
    BY <2>5, <2>7, <2>8
<1>11. ASSUME NEW h \in Jobs, WriteSub(h) \/ WriteCompany(h) \/ WriteInvoice(h), ~overlapped
       PROVE  OneReader' /\ OneCopy' /\ UpToDate'
  <2>1. UNCHANGED <<sent, events, payer>> /\ h \in Reading
    BY <1>11 DEF WriteSub, WriteCompany, WriteInvoice, Reading
  <2>2. Reading = {h} /\ ~Changing
    BY <1>11, <2>1 DEF AloneInv, OneReader
  <2>3. PICK pc \in {"company", "mark"} : Written(h, pc) /\ (pc = "company" => WriteSub(h))
    BY <1>11 DEF WriteSub, WriteCompany, WriteInvoice
  <2>4. Goto(h, pc)
    BY <2>3 DEF Written
  <2>5. /\ \A k \in Jobs \ {h} : jobs'[k] = jobs[k]
        /\ jobs'[h].pc = pc /\ jobs'[h].m = jobs[h].m /\ jobs'[h].status = jobs[h].status
    BY <1>0, <2>4, GotoKeeps
  <2>6. Reading' \subseteq {h} /\ \A k \in Jobs : Writing(k)' => Writing(k) /\ jobs'[k].m = jobs[k].m
    BY <2>2, <2>5 DEF Reading, Writing
  <2>7. OneReader'
    BY <2>1, <2>2, <2>6 DEF OneReader, Changing
  <2>8. OneCopy'
    BY <1>11, <2>1, <2>6 DEF AloneInv, OneCopy
  <2>9. \A k \in Jobs \ {h} : jobs[k].pc \notin {"sub", "company"}
    BY <2>2 DEF Reading
  <2>10. CASE pc = "company"
    <3>1. company' = company /\ sub'.plan = sent[jobs[h].m].plan
      BY <2>3, <2>10 DEF WriteSub
    <3>2. jobs[h].status = company.status
      BY <1>11, <2>1 DEF AloneInv, UpToDate
    <3> QED
      BY <2>1, <2>2, <2>5, <2>6, <2>7, <2>8, <2>9, <2>10, <3>1, <3>2 DEF UpToDate, Changing, Reading
  <2>11. CASE pc = "mark"
    <3>1. \A k \in Jobs : jobs'[k].pc \notin {"sub", "company"}
      BY <2>5, <2>9, <2>11
    <3>2. Reading' = {} /\ payer'.pc # "company"
      BY <2>1, <2>2, <3>1 DEF Reading, Changing
    <3> QED
      BY <2>7, <2>8, <3>1, <3>2 DEF UpToDate
  <2> QED
    BY <2>10, <2>11
<1>12. overlapped => overlapped'
  BY DEF Next, vars, Work, Provider, AskChange, ChangeSub, ChangeCompany, SetStatus, Crash, Tick, Deliver, Fail,
         Create, Read, WriteSub, WriteCompany, WriteInvoice, Mark
<1> QED
  BY <1>1, <1>2, <1>3, <1>4, <1>5, <1>6, <1>7, <1>8, <1>9, <1>10, <1>11, <1>12 DEF Next, Work, AloneInv

LEMMA AloneInvariant == Spec => []AloneInv
<1>1. Init => AloneInv
  BY InitAlone
<1>2. TypeInv /\ AloneInv /\ [Next]_vars => AloneInv'
  BY StepAlone
<1> QED
  BY <1>1, <1>2, TypeInvariant, PTL DEF Spec

(***************************************************************************)
(* The plan follows the payment.                                           *)
(***************************************************************************)
LEMMA InitPlan == Init => PlanInv
<1> SUFFICES ASSUME Init PROVE PlanInv
  OBVIOUS
<1>1. ~Changing
  BY DEF Init, Changing, NoChange
<1>2. sub # NoSub => sub.plan = company.plan
  BY DEF Init
<1> QED
  BY <1>1, <1>2, InitAlone DEF PlanInv

\* A message to come is still to come after a step that answers nothing and brings no
\* other request to its end with it.
LEMMA ComingKept ==
  ASSUME TypeInv, PlanIsComing,
         sent' = sent \/ \E msg \in Messages : Tell(msg),
         \A m \in due : Subscribes(m) /\ m \notin due' => \E h \in Jobs : jobs[h].pc = "mark" /\ jobs[h].m = m,
         \A h \in Jobs : jobs'[h].pc = "mark" =>
           (jobs[h].pc = "mark" /\ jobs'[h].m = jobs[h].m) \/ ~Subscribes(jobs'[h].m)
  PROVE  PlanIsComing'
<1>1. PICK m \in due : Subscribes(m) /\ \A h \in Jobs : ~(jobs[h].pc = "mark" /\ jobs[h].m = m)
  BY DEF PlanIsComing
<1>2. m \in due' /\ TypeOK /\ m \in DOMAIN sent
  BY <1>1 DEF TypeInv, TypeOK
<1>3. Subscribes(m)'
  BY <1>1, <1>2, SubscribesKept
<1>4. \A h \in Jobs : ~(jobs'[h].pc = "mark" /\ jobs'[h].m = m)
  BY <1>1
<1> QED
  BY <1>2, <1>3, <1>4 DEF PlanIsComing

LEMMA StepPlan ==
  ASSUME TypeInv, AnswerInv, PlanInv, [Next]_vars
  PROVE  PlanInv'
<1> USE BillingAssumption
<1>0. /\ TypeOK /\ jobs \in [Jobs -> Job] /\ TypeInv' /\ AloneInv /\ AloneInv'
  BY StepTyped, StepAlone DEF TypeInv, TypeOK, PlanInv
<1>1. overlapped \/ again # {} => overlapped' \/ again' # {}
  BY DEF Next, vars, Work, Provider, AskChange, ChangeSub, ChangeCompany, SetStatus, Crash, Tick, Deliver, Fail,
         Create, Read, WriteSub, WriteCompany, WriteInvoice, Mark
<1> SUFFICES ASSUME ~overlapped, again = {}, ~overlapped', again' = {}
             PROVE  /\ Changing' => PlanIsComing'
                    /\ ~strayed' /\ sub' # NoSub /\ sub'.plan # company'.plan => PlanIsComing'
  BY <1>0, <1>1 DEF PlanInv
<1>2. OneReader /\ OneCopy /\ UpToDate
  BY <1>0 DEF AloneInv
<1>3. /\ Changing => PlanIsComing
      /\ ~strayed /\ sub # NoSub /\ sub.plan # company.plan => PlanIsComing
  BY DEF PlanInv
\* Steps that write neither plan.
<1>4. ASSUME UNCHANGED strayed, sub' = sub, company'.plan = company.plan, payer' = payer \/ payer' = NoChange,
             PlanIsComing => PlanIsComing'
      PROVE  /\ Changing' => PlanIsComing'
             /\ ~strayed' /\ sub' # NoSub /\ sub'.plan # company'.plan => PlanIsComing'
  BY <1>3, <1>4 DEF Changing, NoChange
<1>5. CASE Provider
  <2>1. PlanIsComing => PlanIsComing'
    BY <1>0, <1>5, ProviderTells, TellKeeps, ComingKept DEF Provider, TypeOK
  <2> QED
    BY <1>4, <1>5, <2>1 DEF Provider
<1>6. CASE Tick \/ SetStatus \/ UNCHANGED vars
  <2>1. PlanIsComing => PlanIsComing'
    BY <1>6, ComingKept DEF Tick, SetStatus, vars
  <2>2. company'.plan = company.plan
    BY <1>0, <1>6 DEF Tick, SetStatus, vars, TypeOK, Companies
  <2> QED
    BY <1>4, <1>6, <2>1, <2>2 DEF Tick, SetStatus, vars
<1>7. CASE Crash
  <2>1. \A h \in Jobs : jobs'[h].pc # "mark"
    BY <1>7 DEF Crash, Idle
  <2>2. PlanIsComing => PlanIsComing'
    BY <1>7, <2>1, ComingKept DEF Crash
  <2> QED
    BY <1>4, <1>7, <2>2 DEF Crash
<1>8. CASE AskChange
  <2>1. PICK msg \in Messages : Tell(msg) /\ msg.type = "subscription" /\ msg.status # "CANCELED"
    BY <1>0, <1>8, AskChangeTells
  <2>0. PICK new \in Nat : new = Len(sent) + 1
    BY <1>0 DEF TypeOK
  <2>2. new \in due' /\ sent'[new] = msg /\ new \notin DOMAIN sent
    BY <1>0, <2>0, <2>1, TellKeeps DEF TypeOK
  <2>3. Subscribes(new)'
    BY <2>1, <2>2 DEF Subscribes
  <2>4. \A h \in Jobs : ~(jobs'[h].pc = "mark" /\ jobs'[h].m = new)
    BY <1>0, <1>8, <2>2 DEF AskChange, TypeOK
  <2> QED
    BY <2>2, <2>3, <2>4 DEF PlanIsComing
<1>9. CASE ChangeSub \/ ChangeCompany
  <2>1. PlanIsComing
    BY <1>3, <1>9 DEF ChangeSub, ChangeCompany, Changing
  <2> QED
    BY <1>9, <2>1, ComingKept DEF ChangeSub, ChangeCompany
<1>10. ASSUME NEW h \in Jobs, Deliver(h)
       PROVE  /\ Changing' => PlanIsComing'
              /\ ~strayed' /\ sub' # NoSub /\ sub'.plan # company'.plan => PlanIsComing'
  <2>1. PICK m \in due :
          \/ /\ events[m] = "processed" /\ due' = due \ {m} /\ jobs' = jobs
          \/ /\ events[m] \in {"row", "none"} /\ due' = due
             /\ jobs' \in [Jobs -> Job] /\ jobs[h] = Idle
             /\ jobs'[h].m = m /\ jobs'[h].pc \in {"create", "read"} /\ jobs'[h].prev = NoSub
             /\ \A k \in Jobs \ {h} : jobs'[k] = jobs[k]
    BY <1>0, <1>10, DeliverKeeps
  <2>2. due' = due
    BY <2>1 DEF AnswerInv
  <2>3. \A k \in Jobs : jobs'[k].pc = "mark" => jobs'[k] = jobs[k]
    BY <2>1
  <2>4. PlanIsComing => PlanIsComing'
    BY <1>10, <2>2, <2>3, ComingKept DEF Deliver
  <2> QED
    BY <1>4, <1>10, <2>4 DEF Deliver
<1>11. ASSUME NEW h \in Jobs, Fail(h)
       PROVE  /\ Changing' => PlanIsComing'
              /\ ~strayed' /\ sub' # NoSub /\ sub'.plan # company'.plan => PlanIsComing'
  <2>1. due' = due /\ \A k \in Jobs : jobs'[k] = IF k = h THEN Idle ELSE jobs[k]
    BY <1>0, <1>11, AnswerKeeps DEF Fail
  <2>2. \A k \in Jobs : jobs'[k].pc = "mark" => jobs'[k] = jobs[k]
    BY <2>1 DEF Idle
  <2>3. PlanIsComing => PlanIsComing'
    BY <1>11, <2>1, <2>2, ComingKept DEF Fail
  <2> QED
    BY <1>4, <1>11, <2>3 DEF Fail
<1>12. ASSUME NEW h \in Jobs, Create(h)
       PROVE  /\ Changing' => PlanIsComing'
              /\ ~strayed' /\ sub' # NoSub /\ sub'.plan # company'.plan => PlanIsComing'
  <2>1. Goto(h, "read") /\ due' = due
    BY <1>12 DEF Create
  <2>2. \A k \in Jobs : jobs'[k].pc = "mark" => jobs[k].pc = "mark" /\ jobs'[k].m = jobs[k].m
    BY <1>0, <2>1, GotoKeeps
  <2>3. PlanIsComing => PlanIsComing'
    BY <1>12, <2>1, <2>2, ComingKept DEF Create
  <2> QED
    BY <1>4, <1>12, <2>3 DEF Create
<1>13. ASSUME NEW h \in Jobs, Read(h)
       PROVE  /\ Changing' => PlanIsComing'
              /\ ~strayed' /\ sub' # NoSub /\ sub'.plan # company'.plan => PlanIsComing'
  <2>1. \A k \in Jobs : jobs'[k].pc = "mark" => jobs'[k] = jobs[k]
    BY <1>0, <1>13 DEF Read, Job
  <2>2. PlanIsComing => PlanIsComing'
    BY <1>13, <2>1, ComingKept DEF Read
  <2> QED
    BY <1>4, <1>13, <2>2 DEF Read
<1>14. ASSUME NEW h \in Jobs, Mark(h)
       PROVE  /\ Changing' => PlanIsComing'
              /\ ~strayed' /\ sub' # NoSub /\ sub'.plan # company'.plan => PlanIsComing'
  <2>1. due' = due \ {jobs[h].m} /\ \A k \in Jobs : jobs'[k] = IF k = h THEN Idle ELSE jobs[k]
    BY <1>0, <1>14, AnswerKeeps DEF Mark
  <2>2. \A k \in Jobs : jobs'[k].pc = "mark" => jobs'[k] = jobs[k]
    BY <2>1 DEF Idle
  <2>3. PlanIsComing => PlanIsComing'
    BY <1>14, <2>1, <2>2, ComingKept DEF Mark
  <2> QED
    BY <1>4, <1>14, <2>3 DEF Mark
\* The steps that write the rows are alone with them.
<1>15. ASSUME NEW h \in Jobs, WriteSub(h) \/ WriteCompany(h) \/ WriteInvoice(h)
       PROVE  h \in Reading /\ ~Changing' /\ UNCHANGED <<sent, due>> /\ jobs[h].m \in DOMAIN sent
  <2>1. h \in Reading /\ UNCHANGED <<sent, due, payer>>
    BY <1>15 DEF WriteSub, WriteCompany, WriteInvoice, Reading
  <2> QED
    BY <1>0, <1>2, <2>1 DEF OneReader, Changing, Reading, TypeOK
<1>16. ASSUME NEW h \in Jobs, WriteSub(h), ~strayed', sub'.plan # company'.plan PROVE PlanIsComing'
  <2>1. company' = company /\ sub'.plan = sent[jobs[h].m].plan
        /\ sent[jobs[h].m].type = "subscription" /\ jobs[h].pc = "sub"
    BY <1>16 DEF WriteSub
  <2>2. sent[jobs[h].m].status # "CANCELED"
    BY <1>16, <2>1 DEF WriteSub
  <2>3. Goto(h, "company")
    BY <1>16, <2>2 DEF WriteSub, Written
  <2>4. \A k \in Jobs : jobs'[k].pc = (IF k = h THEN "company" ELSE jobs[k].pc) /\ jobs'[k].m = jobs[k].m
    BY <1>0, <2>3, GotoKeeps
  <2>0. PICK m \in DOMAIN sent : m = jobs[h].m
    BY <1>15, <1>16
  <2>5. Subscribes(m)'
    BY <1>15, <1>16, <2>0, <2>1, <2>2 DEF Subscribes
  <2>6. m \in due'
    BY <1>2, <1>15, <1>16, <2>0, <2>1 DEF AnswerInv, OneCopy, Writing
  <2>7. \A k \in Jobs : ~(jobs'[k].pc = "mark" /\ jobs'[k].m = m)
    BY <1>2, <2>0, <2>1, <2>4 DEF OneCopy, Writing
  <2> QED
    BY <2>5, <2>6, <2>7 DEF PlanIsComing
<1>17. ASSUME NEW h \in Jobs, WriteInvoice(h), ~strayed', sub' # NoSub, sub'.plan # company'.plan
       PROVE  PlanIsComing'
  <2>1. sub'.plan = sub.plan /\ sub # NoSub /\ company' = company /\ ~strayed
    <3>1. sub \in Subs \cup {NoSub} /\ (jobs[h].prev # NoSub => sub # NoSub)
      BY DEF TypeInv, TypeOK
    <3>2. sent[jobs[h].m].status \in {"PAID", "FAILED"}
      BY <1>0, <1>15, <1>17, SubscribesTyped DEF WriteInvoice
    <3>3. sub'.plan = sub.plan /\ (sub = NoSub => sub' = NoSub)
      BY <1>17, <3>1, <3>2 DEF WriteInvoice, Charged, Subs, NoSub
    <3> QED
      BY <1>17, <3>3 DEF WriteInvoice
  <2>2. PlanIsComing
    BY <1>3, <1>17, <2>1
  <2>3. Goto(h, "mark") /\ ~Subscribes(jobs[h].m)
    BY <1>17 DEF WriteInvoice, Written, Subscribes
  <2>4. \A k \in Jobs : jobs'[k].pc = (IF k = h THEN "mark" ELSE jobs[k].pc) /\ jobs'[k].m = jobs[k].m
    BY <1>0, <2>3, GotoKeeps
  <2> QED
    BY <1>15, <1>17, <2>2, <2>3, <2>4, ComingKept
<1>18. ASSUME NEW h \in Jobs, WriteCompany(h) PROVE sub'.plan = company'.plan
  BY <1>2, <1>18 DEF WriteCompany, UpToDate
<1> QED
  BY <1>5, <1>6, <1>7, <1>8, <1>9, <1>10, <1>11, <1>12, <1>13, <1>14, <1>15, <1>16, <1>17, <1>18 DEF Next, Work

LEMMA PlanInvariant == Spec => []PlanInv
<1>1. Init => PlanInv
  BY InitPlan
<1>2. TypeInv /\ AnswerInv /\ PlanInv /\ [Next]_vars => PlanInv'
  BY StepPlan
<1> QED
  BY <1>1, <1>2, TypeInvariant, AnswerInvariant, PTL DEF Spec

\* With all answered and no request at work, the company has the plan it pays for, unless
\* requests overlapped or a late end of an older subscription came in between
\* (applySubscription).
THEOREM PlanAlwaysFollowsPayment == Spec => []PlanFollowsPayment
<1>1. PlanInv => PlanFollowsPayment
  <2> SUFFICES ASSUME PlanInv, due = {}, ~overlapped, again = {}, ~strayed,
                      sub.status \in {"ACTIVE", "PAST_DUE"}
               PROVE  company.plan = sub.plan
    BY DEF PlanFollowsPayment
  <2>1. sub # NoSub
    BY DEF NoSub
  <2> QED
    BY <2>1 DEF PlanInv, PlanIsComing
<1> QED
  BY <1>1, PlanInvariant, PTL

(***************************************************************************)
(* A suspension and the days of grace are kept.                            *)
(***************************************************************************)
\* What a message puts in place of the company's status is what was read, and that is
\* what it still is.
LEMMA StepSuspended ==
  ASSUME TypeInv, AloneInv, [Next]_vars,
         company.status = "SUSPENDED", company'.status # "SUSPENDED", ~overlapped
  PROVE  SetStatus
<1>1. company' # company
  OBVIOUS
<1>2. ~UNCHANGED vars /\ ~Provider /\ ~Crash /\ ~Tick /\ ~AskChange /\ ~ChangeSub
  BY <1>1 DEF vars, Provider, Crash, Tick, AskChange, ChangeSub
<1>3. ~ChangeCompany
  BY DEF ChangeCompany, TypeInv, TypeOK, Companies
<1>4. ASSUME NEW h \in Jobs PROVE ~Deliver(h) /\ ~Fail(h)
  BY <1>1 DEF Deliver, Fail
<1>5. ASSUME NEW h \in Jobs PROVE ~Work(h)
  <2>1. ~Create(h) /\ ~Read(h) /\ ~WriteSub(h) /\ ~WriteInvoice(h) /\ ~Mark(h)
    BY <1>1 DEF Create, Read, WriteSub, WriteInvoice, Mark
  <2>2. ~WriteCompany(h)
    <3>1. WriteCompany(h) => jobs[h].status = company.status
      BY DEF WriteCompany, AloneInv, UpToDate, Reading
    <3> QED
      BY <3>1 DEF WriteCompany, StatusOf
  <2> QED
    BY <2>1, <2>2 DEF Work
<1> QED
  BY <1>2, <1>3, <1>4, <1>5 DEF Next

\* A company the owner suspended stays so until the owner says otherwise, whatever it pays
\* (applySubscription's nextStatus).
THEOREM SuspendedAlwaysStays == Spec => SuspendedStays
<1>1. TypeInv /\ AloneInv /\ [Next]_vars
      => [company.status = "SUSPENDED" /\ company'.status # "SUSPENDED" => SetStatus \/ overlapped]_vars
  BY StepSuspended
<1> QED
  BY <1>1, TypeInvariant, AloneInvariant, PTL DEF Spec, SuspendedStays

\* A message that writes the subscription counts the days of a failure, and no others; it
\* goes on counting from the day it read.
LEMMA GraceWritten ==
  ASSUME TypeInv, GraceIsOfThisFailure, NEW h \in Jobs, WriteSub(h) \/ WriteInvoice(h)
  PROVE  /\ GraceIsOfThisFailure'
         /\ sub.status = "PAST_DUE" /\ sub'.status = "PAST_DUE" /\ jobs[h].prev.since = sub.since
            => sub'.since = sub.since
<1>1. clock \in 1 .. MaxTime /\ jobs[h].m \in DOMAIN sent /\ TypeOK
  BY DEF WriteSub, WriteInvoice, TypeInv, TypeOK
<1>2. PastDueSince(jobs[h].prev.since) # 0 /\ (jobs[h].prev.since # 0 => PastDueSince(jobs[h].prev.since) = jobs[h].prev.since)
  BY <1>1, BillingAssumption DEF PastDueSince
<1>3. CASE WriteSub(h)
  <2>1. sub'.status = sent[jobs[h].m].status
        /\ sub'.since = IF sent[jobs[h].m].status = "PAST_DUE" THEN PastDueSince(jobs[h].prev.since) ELSE 0
    BY <1>3 DEF WriteSub
  <2> QED
    BY <1>2, <2>1 DEF GraceIsOfThisFailure
<1>4. CASE WriteInvoice(h)
  <2>1. sent[jobs[h].m].status \in {"PAID", "FAILED"}
    BY <1>1, <1>4, SubscribesTyped DEF WriteInvoice
  <2>2. CASE jobs[h].prev = NoSub
    BY <1>4, <2>1, <2>2 DEF WriteInvoice, Charged, GraceIsOfThisFailure
  <2>3. CASE jobs[h].prev # NoSub
    <3>1. sub \in Subs
      BY <2>3 DEF TypeInv, TypeOK
    <3>2. CASE sent[jobs[h].m].status = "PAID"
      <4>1. sub'.status = "ACTIVE" /\ sub'.since = 0
        BY <1>4, <2>3, <3>1, <3>2 DEF WriteInvoice, Charged, Subs
      <4> QED
        BY <4>1 DEF GraceIsOfThisFailure
    <3>3. CASE sent[jobs[h].m].status = "FAILED"
      <4>1. sub'.status = "PAST_DUE" /\ sub'.since = PastDueSince(jobs[h].prev.since)
        BY <1>4, <2>3, <3>1, <3>3 DEF WriteInvoice, Charged, Subs
      <4> QED
        BY <1>2, <4>1 DEF GraceIsOfThisFailure
    <3> QED
      BY <2>1, <3>2, <3>3
  <2> QED
    BY <2>2, <2>3
<1> QED
  BY <1>3, <1>4

LEMMA StepGrace ==
  ASSUME TypeInv, AloneInv, GraceIsOfThisFailure, [Next]_vars
  PROVE  /\ GraceIsOfThisFailure'
         /\ sub.status = "PAST_DUE" /\ sub'.status = "PAST_DUE" => sub'.since = sub.since \/ overlapped
<1>1. CASE sub' = sub
  BY <1>1 DEF GraceIsOfThisFailure
<1>2. CASE ChangeSub
  <2>1. sub \in Subs
    BY <1>2 DEF TypeInv, TypeOK, ChangeSub, NoChange
  <2>2. sub'.status = sub.status /\ sub'.since = sub.since
    BY <1>2, <2>1 DEF ChangeSub, Subs
  <2> QED
    BY <2>2 DEF GraceIsOfThisFailure
<1>3. ASSUME NEW h \in Jobs, WriteSub(h) \/ WriteInvoice(h)
      PROVE  /\ GraceIsOfThisFailure'
             /\ sub.status = "PAST_DUE" /\ sub'.status = "PAST_DUE" => sub'.since = sub.since \/ overlapped
  <2>1. overlapped \/ jobs[h].prev.since = sub.since
    BY <1>3 DEF AloneInv, UpToDate, WriteSub, WriteInvoice
  <2> QED
    BY <1>3, <2>1, GraceWritten
<1>4. \/ sub' = sub \/ ChangeSub
      \/ \E h \in Jobs : WriteSub(h) \/ WriteInvoice(h)
  BY DEF Next, vars, Work, Provider, AskChange, ChangeCompany, SetStatus, Crash, Tick, Deliver, Fail,
         Create, Read, WriteCompany, Mark
<1> QED
  BY <1>1, <1>2, <1>3, <1>4

\* A failed payment, and nothing else, is being counted, and a run of failures from its
\* first one (pastDueSince).
THEOREM GraceIsAlwaysKept == Spec => GraceIsKept
<1>1. Init => GraceIsOfThisFailure
  BY DEF Init, NoSub, GraceIsOfThisFailure
<1>2. TypeInv /\ AloneInv /\ GraceIsOfThisFailure /\ [Next]_vars
      => /\ GraceIsOfThisFailure'
         /\ [sub.status = "PAST_DUE" /\ sub'.status = "PAST_DUE" => sub'.since = sub.since \/ overlapped]_vars
  BY StepGrace
<1> QED
  BY <1>1, <1>2, TypeInvariant, AloneInvariant, PTL DEF Spec, GraceIsKept

=============================================================================
