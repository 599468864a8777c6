-------------------------------- MODULE LeadFlow --------------------------------
(***************************************************************************)
(* One lead of the CMR flow after it came in: the requests of              *)
(* leadsWorkController.ts that move it along, the agent tasks they make    *)
(* and close (lib/leads/tasks.ts), who has it, and the alerts of           *)
(* lib/leads/sla.ts when nobody takes it or calls.                         *)
(*                                                                         *)
(* No request runs in a transaction: each reads the lead (fullLead),       *)
(* checks, and then writes columns, closes tasks and makes tasks one await *)
(* after the other.  A request is the list of what it still has to do, its *)
(* plan, and the steps of two requests mix.  Of the tasks only the number  *)
(* of open ones of each kind matters.                                      *)
(***************************************************************************)
EXTENDS Integers, Sequences

CONSTANTS
    Requests,    \* requests that can be at work at once (reused when done)
    Managers,    \* managers of the business: each is asked to approve
    Reps, NoRep, \* who can have the lead
    Ticks,       \* runs of the alert job at once: a slow one meets the next
    MaxRequests  \* bound: requests, restarts and alerts that cannot be stored, in all

ASSUME FlowAssumption ==
    /\ Managers \in Nat \ {0} /\ MaxRequests \in Nat
    /\ NoRep \notin Reps

VARIABLES
    lead,    \* the Lead row with its LeadCmr row
    open,    \* open LeadTask rows of each kind
    plans,   \* what each request still has to do
    ticks,   \* the alert jobs: the kind of alert a run is at
    claimed, \* whether the job has claimed the lead's stamp and has the alert to send
             \* ("stale" is history: the stamp has been cleared since, which no job sees)
    lateNew, \* "assign within" is over
    lateRep, \* "contact within" is over for the rep who has it
    sent,    \* history: alerts sent under the stamp in force
    lost,    \* history: alerts under it that a restart cut off or that were not stored
    ticked,  \* history: someone completed the head's task by hand
    crashed, \* history: a request was cut off
    requests

alerts == <<ticks, claimed, sent, lost>>
flowVars == <<lead, open, plans, alerts, lateNew, lateRep, ticked, crashed, requests>>

Kinds == {"FOLLOW_UP", "NEXT_STEP", "APPROVE", "HEAD_REVIEW", "SEND_INVITE", "RELAY",
          "RECONFIRM", "OUTCOME"}
OpenStatuses == {"NEW", "INFO_SENT", "FOLLOW_UP", "QUALIFIED"}
Statuses == OpenStatuses \cup {"CLOSED"}
Alerts == {"assign", "contact"}

\* The columns of new written over those of old.
Over(new, old) == [x \in DOMAIN new \cup DOMAIN old |-> IF x \in DOMAIN new THEN new[x] ELSE old[x]]

\* The awaits of a handler.
Write(columns) == [do |-> "write", columns |-> columns]
Close(kinds) == [do |-> "close", kinds |-> kinds]
Make(kind) == [do |-> "make", kind |-> kind]
Put(kind) == [do |-> "put", kind |-> kind]     \* the second half of a Make

(***************************************************************************)
(* The handlers, as plans, for the lead l they read.                       *)
(***************************************************************************)
FlagForHead ==
    << Write([status |-> "QUALIFIED", owner |-> "HEAD", needs |-> TRUE]),
       Close({"APPROVE", "NEXT_STEP", "FOLLOW_UP"}), Make("HEAD_REVIEW") >>

\* A rep asks, and every manager gets the task to approve.
AskToQualify == [n \in 1 .. Managers |-> Make("APPROVE")]
Qualify(l) == IF l.status \in OpenStatuses THEN {AskToQualify, FlagForHead} ELSE {}
Approve == {FlagForHead}     \* whatever the status is

\* Faulty variant: the lead is written before the head's task is closed.
DecideWriteFirst ==
    { << Write([status |-> "QUALIFIED", owner |-> "REP", needs |-> FALSE, meeting |-> TRUE]),
         Make("SEND_INVITE"), Close({"HEAD_REVIEW"}) >> }

\* The head approves a meeting, gives direction or closes.
Decide ==
    { << Make("SEND_INVITE"), Close({"HEAD_REVIEW"}),
         Write([status |-> "QUALIFIED", owner |-> "REP", needs |-> FALSE, meeting |-> TRUE]) >>,
      << Make("RELAY"), Close({"HEAD_REVIEW"}),
         Write([status |-> "FOLLOW_UP", owner |-> "REP", needs |-> FALSE]) >>,
      << Close(Kinds), Close({"HEAD_REVIEW"}),
         Write([status |-> "CLOSED", owner |-> "REP", needs |-> FALSE]) >> }

SendInfo ==
    { << Write([status |-> "INFO_SENT", owner |-> "REP", contacted |-> TRUE]),
         Close({"NEXT_STEP"}), Make("FOLLOW_UP") >> }

\* A call, connected or not, with or without a next step.
AddCall(l) ==
    { wrote \o << Close({"FOLLOW_UP"}) >> \o next :
        wrote \in { <<>>, << Write(IF l.status = "INFO_SENT"
                                  THEN [contacted |-> TRUE, status |-> "FOLLOW_UP"]
                                  ELSE [contacted |-> TRUE]) >> },
        next \in { <<>>, << Make("NEXT_STEP") >> } }

\* For the time the head approved, or a time given with it.
SendInvite ==
    { << Write([owner |-> "REP", needs |-> FALSE, meeting |-> TRUE]),
         Close({"SEND_INVITE", "NEXT_STEP"}), Make("RECONFIRM"), Make("OUTCOME") >> }

Reconfirm(l) == IF l.meeting THEN { << Close({"RECONFIRM"}) >> } ELSE {}

MeetingOutcome ==
    { << Write([status |-> "CLOSED", owner |-> "REP"]), Close({"OUTCOME", "RECONFIRM"}) >>,
      << Write([status |-> "FOLLOW_UP", owner |-> "REP"]), Close({"OUTCOME", "RECONFIRM"}),
         Make("NEXT_STEP") >> }

\* A side exit; "existing customer" is the head's call.
CloseLead ==
    { << Write([status |-> "CLOSED", owner |-> "REP"]), Close(Kinds \ {"HEAD_REVIEW"}) >>,
      << Write([status |-> "CLOSED", owner |-> "HEAD", needs |-> TRUE]),
         Close(Kinds \ {"HEAD_REVIEW"}) >> }

ReopenLead == { << Write([status |-> "FOLLOW_UP", owner |-> "REP", needs |-> FALSE]) >> }

\* A status picked by hand, any but Qualified, or a next step set or cleared.
UpdateLead(l) ==
    { << Make("NEXT_STEP") >>, << Close({"NEXT_STEP"}) >> } \cup
    { << Write(IF l.status = "NEW" THEN [status |-> s, contacted |-> TRUE] ELSE [status |-> s]) >>
         \o (IF s \in OpenStatuses THEN <<>> ELSE << Close({"NEXT_STEP"}) >>)
      : s \in (Statuses \ {"QUALIFIED"}) \ {l.status} }

\* Given to a rep, or taken back.
Assign(l) ==
    { << Write([rep |-> r, contactAlert |-> FALSE]) >> : r \in (Reps \cup {NoRep}) \ {l.rep} }

\* removeMember: the open leads of a rep who leaves go back to the managers.
RemoveMember(l) ==
    IF l.rep = NoRep \/ l.status \notin OpenStatuses THEN {}
    ELSE { << Write([rep |-> NoRep, assignAlert |-> FALSE, contactAlert |-> FALSE]) >> }

Plans(l) == Qualify(l) \cup Approve \cup Decide \cup SendInfo \cup AddCall(l)
              \cup SendInvite \cup Reconfirm(l) \cup MeetingOutcome \cup CloseLead
              \cup ReopenLead \cup UpdateLead(l) \cup Assign(l) \cup RemoveMember(l)

-----------------------------------------------------------------------------
FlowInit ==
    /\ lead = [status |-> "NEW", owner |-> "REP", needs |-> FALSE,
               meeting |-> FALSE, rep |-> NoRep, contacted |-> FALSE,
               assignAlert |-> FALSE, contactAlert |-> FALSE]
    /\ open = [k \in Kinds |-> 0]
    /\ plans = [q \in Requests |-> <<>>]
    /\ ticks = [t \in Ticks |-> "idle"] /\ claimed = [t \in Ticks |-> "no"]
    /\ lateNew = FALSE /\ lateRep = FALSE
    /\ sent = [k \in Alerts |-> 0] /\ lost = {}
    /\ ticked = FALSE /\ crashed = FALSE /\ requests = 0

\* A request reads the lead and passes its checks.
Begin(q) ==
    /\ plans[q] = <<>> /\ requests < MaxRequests /\ requests' = requests + 1
    /\ \E p \in Plans(lead) : plans' = [plans EXCEPT ![q] = p]
    /\ UNCHANGED <<lead, open, lateNew, lateRep, alerts, ticked, crashed>>

Step(q) == Head(plans[q])
Rest(q) == plans' = [plans EXCEPT ![q] = Tail(@)]

\* The stamp of an alert; a new one has had no alert yet.
StampOf(l, k) == IF k = "assign" THEN l.assignAlert ELSE l.contactAlert
Stamped == {k \in Alerts : StampOf(lead, k)}
NewStamps ==
    /\ sent' = [k \in Alerts |-> IF k \in Stamped' THEN sent[k] ELSE 0]
    /\ lost' = lost \cap Stamped'
    /\ claimed' = [t \in Ticks |-> IF claimed[t] = "yes" /\ ticks[t] \notin Stamped' THEN "stale"
                                   ELSE claimed[t]]
    /\ UNCHANGED ticks

WriteLead(q) ==
    /\ plans[q] # <<>> /\ Step(q).do = "write"
    /\ lead' = Over(Step(q).columns, lead)
    /\ lateRep' = (lateRep /\ "rep" \notin DOMAIN Step(q).columns)
    /\ NewStamps
    /\ Rest(q)
    /\ UNCHANGED <<open, lateNew, ticked, crashed, requests>>

CloseTasks(q) ==
    /\ plans[q] # <<>> /\ Step(q).do = "close"
    /\ open' = [k \in Kinds |-> IF k \in Step(q).kinds THEN 0 ELSE open[k]]
    /\ Rest(q)
    /\ UNCHANGED <<lead, lateNew, lateRep, alerts, ticked, crashed, requests>>

\* makeTask looks for an open task of the kind: it moves that one (also when it
\* is closed by the time of the update), or creates one.
LookForTask(q) ==
    /\ plans[q] # <<>> /\ Step(q).do = "make"
    /\ plans' = [plans EXCEPT ![q] =
                   IF open[Step(q).kind] > 0 THEN Tail(@) ELSE << Put(Step(q).kind) >> \o Tail(@)]
    /\ UNCHANGED <<lead, open, lateNew, lateRep, alerts, ticked, crashed, requests>>

CreateTask(q) ==
    /\ plans[q] # <<>> /\ Step(q).do = "put"
    /\ open' = [open EXCEPT ![Step(q).kind] = @ + 1]
    /\ Rest(q)
    /\ UNCHANGED <<lead, lateNew, lateRep, alerts, ticked, crashed, requests>>

\* The task of a kind is ticked, and the next step is kept, set or cleared.
CompleteTask(q, k) ==
    /\ open[k] > 0
    /\ plans[q] = <<>> /\ requests < MaxRequests /\ requests' = requests + 1
    /\ open' = [open EXCEPT ![k] = @ - 1]
    /\ \E p \in {<<>>, << Make("NEXT_STEP") >>, << Close({"NEXT_STEP"}) >>} :
          plans' = [plans EXCEPT ![q] = p]
    /\ ticked' = (ticked \/ k = "HEAD_REVIEW")
    /\ UNCHANGED <<lead, lateNew, lateRep, alerts, crashed>>

(***************************************************************************)
(* The alerts.                                                             *)
(***************************************************************************)
TimePasses ==
    /\ \/ ~lateNew /\ lateNew' = TRUE /\ UNCHANGED lateRep
       \/ ~lateRep /\ lead.rep # NoRep /\ lateRep' = TRUE /\ UNCHANGED lateNew
    /\ UNCHANGED <<lead, open, plans, alerts, ticked, crashed, requests>>

LateUnassigned ==
    lead.rep = NoRep /\ lead.status = "NEW" /\ ~lead.assignAlert /\ lateNew
LateUncontacted ==
    /\ lead.rep # NoRep /\ lead.status = "NEW" /\ ~lead.contacted
    /\ ~lead.contactAlert /\ lateRep

\* Faulty variant: the leads nobody has are left out of the job.
ReadLateHeld(t) ==
    /\ ticks[t] = "idle"
    /\ LateUncontacted /\ ticks' = [ticks EXCEPT ![t] = "contact"]
    /\ UNCHANGED <<lead, open, plans, claimed, sent, lost, lateNew, lateRep, ticked, crashed, requests>>

\* The job lists the late leads.
ReadLate(t) ==
    /\ ticks[t] = "idle"
    /\ \/ LateUnassigned /\ ticks' = [ticks EXCEPT ![t] = "assign"]
       \/ LateUncontacted /\ ticks' = [ticks EXCEPT ![t] = "contact"]
    /\ UNCHANGED <<lead, open, plans, claimed, sent, lost, lateNew, lateRep, ticked, crashed, requests>>

EndRun(t) == ticks' = [ticks EXCEPT ![t] = "idle"]
TakeStamp(t) ==
    /\ lead' = IF ticks[t] = "assign" THEN [lead EXCEPT !.assignAlert = TRUE]
               ELSE [lead EXCEPT !.contactAlert = TRUE]
    /\ claimed' = [claimed EXCEPT ![t] = "yes"]
    /\ UNCHANGED ticks

\* Faulty variant: the stamp is written without asking whether it is there.
ClaimAnyway(t) ==
    /\ ticks[t] # "idle" /\ claimed[t] = "no"
    /\ TakeStamp(t)
    /\ UNCHANGED <<open, plans, lateNew, lateRep, sent, lost, ticked, crashed, requests>>

\* Faulty variant: who claims the stamp goes on to the next lead, and sends nothing.
ClaimOnly(t) ==
    /\ ticks[t] # "idle" /\ claimed[t] = "no"
    /\ lead' = IF ticks[t] = "assign" THEN [lead EXCEPT !.assignAlert = TRUE]
               ELSE [lead EXCEPT !.contactAlert = TRUE]
    /\ EndRun(t)
    /\ UNCHANGED <<open, plans, lateNew, lateRep, claimed, sent, lost, ticked, crashed, requests>>

\* The stamp is claimed where it is still empty; who finds it there goes on.
Claim(t) ==
    /\ ticks[t] # "idle" /\ claimed[t] = "no"
    /\ IF ticks[t] \in Stamped THEN EndRun(t) /\ UNCHANGED <<lead, claimed>> ELSE TakeStamp(t)
    /\ UNCHANGED <<open, plans, lateNew, lateRep, sent, lost, ticked, crashed, requests>>

\* tellAboutLead, an await later: the notification is stored, or the failure is
\* logged and the alert never comes; the stamp stays either way.
SendAlert(t) ==
    /\ claimed[t] # "no"
    /\ \/ /\ sent' = IF claimed[t] = "yes" THEN [sent EXCEPT ![ticks[t]] = @ + 1] ELSE sent
          /\ UNCHANGED <<lost, requests>>
       \/ /\ requests < MaxRequests /\ requests' = requests + 1
          /\ lost' = IF claimed[t] = "yes" THEN lost \cup {ticks[t]} ELSE lost
          /\ UNCHANGED sent
    /\ EndRun(t) /\ claimed' = [claimed EXCEPT ![t] = "no"]
    /\ UNCHANGED <<lead, open, plans, lateNew, lateRep, ticked, crashed>>

\* A restart cuts off every request and job where it is: an alert that was claimed
\* and not sent is lost.
Crash ==
    /\ requests < MaxRequests /\ requests' = requests + 1
    /\ crashed' = (crashed \/ \E q \in Requests : plans[q] # <<>>)
    /\ plans' = [q \in Requests |-> <<>>]
    /\ ticks' = [t \in Ticks |-> "idle"] /\ claimed' = [t \in Ticks |-> "no"]
    /\ lost' = lost \cup {ticks[t] : t \in {u \in Ticks : claimed[u] = "yes"}}
    /\ UNCHANGED <<lead, open, lateNew, lateRep, sent, ticked>>

Work(q) == WriteLead(q) \/ CloseTasks(q) \/ LookForTask(q) \/ CreateTask(q)
Alert(t) == ReadLate(t) \/ Claim(t) \/ SendAlert(t)

FlowNext ==
    \/ \E q \in Requests : Begin(q) \/ Work(q)
    \/ \E q \in Requests, k \in Kinds : CompleteTask(q, k)
    \/ TimePasses \/ Crash
    \/ \E t \in Ticks : Alert(t)

FlowSpec == FlowInit /\ [][FlowNext]_flowVars

\* The alert job runs every five minutes, and a run goes on; nothing is asked of the
\* requests.
FairFlow == FlowSpec /\ WF_flowVars(\E t \in Ticks : Alert(t))

-----------------------------------------------------------------------------
FlowTypeOK ==
    /\ lead \in [status : Statuses, owner : {"REP", "HEAD"}, needs : BOOLEAN,
                 meeting : BOOLEAN, rep : Reps \cup {NoRep}, contacted : BOOLEAN,
                 assignAlert : BOOLEAN, contactAlert : BOOLEAN]
    /\ open \in [Kinds -> Nat]
    /\ ticks \in [Ticks -> {"idle"} \cup Alerts]
    /\ claimed \in [Ticks -> {"no", "yes", "stale"}]
    /\ sent \in [Alerts -> Nat] /\ lost \subseteq Alerts

Quiet == \A q \in Requests : plans[q] = <<>>

\* "so nothing depends on anyone remembering": a qualified lead that waits for
\* the head has the head's review task open, however approvals and decisions
\* cross, unless someone ticked that task or a restart cut a request off.
FlaggedHasReview ==
    (Quiet /\ lead.status = "QUALIFIED" /\ lead.needs /\ ~ticked /\ ~crashed)
       => open["HEAD_REVIEW"] > 0

\* "Claim it first so two servers (or a slow tick) never alert twice": one alert
\* of each kind is sent until the lead changes hands.
OneAlertEach == \A k \in Alerts : sent[k] <= 1

\* A lead that waits too long for a rep, or for its rep to call, is taken, called or
\* closed first, or its alert is sent, and only once; unless the alert was lost
\* between the claim of its stamp and the sending, to a restart or a failed write
\* (the code keeps the stamp, and nobody is alerted).
WaitingIsAlertedOnce ==
    /\ []OneAlertEach
    /\ LateUnassigned ~>
          \/ sent["assign"] = 1 \/ "assign" \in lost
          \/ lead.rep # NoRep \/ lead.status # "NEW"
    /\ LateUncontacted ~>
          \/ sent["contact"] = 1 \/ "contact" \in lost
          \/ lead.rep = NoRep \/ lead.status # "NEW" \/ lead.contacted \/ ~lateRep

=============================================================================
