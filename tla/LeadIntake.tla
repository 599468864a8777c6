------------------------------- MODULE LeadIntake -------------------------------
(***************************************************************************)
(* How enquiries become leads of one business: the mailbox reader of       *)
(* lib/leads/inbox.ts, which runs every two minutes and never twice at     *)
(* once, the website forms (leadIn), and lib/leads/intake.ts, which both   *)
(* of them call.  Every database round trip is a step of its own.          *)
(*                                                                         *)
(* A mail is its uid, a form post a name.  A lead keeps who it is from,    *)
(* the mail it was made from (externalId, 0 for a form) and what came into *)
(* it: the enquiry it was made of and the REPEAT events added since.       *)
(***************************************************************************)
EXTENDS Integers, FiniteSets

CONSTANTS
    MaxMail,   \* bound: mails that ever reach the mailbox, uids 1 .. MaxMail
    OldMail,   \* the mails that lie there when the inbox is turned on
    Posts,     \* form posts
    Trapped,   \* those whose hidden field is filled
    Empty,     \* those with neither an email address nor a phone number
    People,    \* who writes
    Automatic, \* the sender of out-of-office replies and lists (isAutomatic)
    From,      \* who sent each mail and each post
    LeadIds,   \* ids a new lead can get
    NoLead,
    Round,     \* mails read in one round: 50 in the code
    MaxFaults, \* bound: rounds and requests that fail half way, restarts
    MaxTurns   \* bound: times the inbox is turned off and on again

Mails == 1 .. MaxMail
Reader == 0    \* the reader's own call of receiveLead
Jobs == Posts \cup {Reader}
\* The posts that leadIn takes to receiveLead.
Wanted == Posts \ (Trapped \cup Empty)

ASSUME IntakeAssumption ==
    /\ MaxMail \in Nat /\ OldMail \in 0 .. MaxMail
    /\ Round \in Nat \ {0} /\ MaxFaults \in Nat /\ MaxTurns \in Nat
    /\ From \in [Mails \cup Posts -> People \cup {Automatic}]
    /\ \A p \in Posts : From[p] \in People
    /\ Automatic \notin People /\ NoLead \notin LeadIds
    /\ Posts \cap (Int \cup LeadIds) = {}
    /\ Trapped \subseteq Posts /\ Empty \subseteq Posts

VARIABLES
    box,     \* the newest uid in the mailbox (uidNext - 1)
    cursor,  \* the business row's inboxLastUid
    since,   \* history: where the first round that found mail, after the inbox was turned
             \* on, left the cursor
    reader,  \* the round in progress
    jobs,    \* the calls of receiveLead in progress
    leads,   \* the Lead table, with its REPEAT events
    answered,\* what each form post was told
    faults, turns

vars == <<box, cursor, since, reader, jobs, leads, answered, faults, turns>>

Unset == -1
Idle == [pc |-> "idle", from |-> 0, top |-> 0, last |-> 0, n |-> 0]
NoJob == [pc |-> "none", what |-> 0, twin |-> NoLead]
NoRow == [who |-> Automatic, ext |-> 0, open |-> FALSE, repeats |-> 0, came |-> {}]

Rows == {l \in LeadIds : leads[l] # NoRow}
\* The unique key (businessId, externalId).
Seen(what) == \E l \in Rows : leads[l].ext = what
\* An enquiry is on a lead: it made it, or it is one of its REPEAT events.
OnALead(what) == \E l \in Rows : what \in leads[l].came

Goto(j, pc) == jobs' = [jobs EXCEPT ![j].pc = pc]

Init ==
    /\ box = OldMail /\ cursor = 0 /\ since = Unset
    /\ reader = Idle
    /\ jobs = [j \in Jobs |-> NoJob]
    /\ leads = [l \in LeadIds |-> NoRow]
    /\ answered = [p \in Posts |-> "none"] /\ faults = 0 /\ turns = 0

(***************************************************************************)
(* The reader.                                                             *)
(***************************************************************************)
MailArrives ==
    /\ box < MaxMail /\ box' = box + 1
    /\ UNCHANGED <<cursor, since, reader, jobs, leads, answered, faults, turns>>

\* The tick has read the business row; the mailbox is opened after it.
OpenRound ==
    /\ reader.pc = "idle"
    /\ reader' = [Idle EXCEPT !.pc = "open", !.from = cursor]
    /\ UNCHANGED <<box, cursor, since, jobs, leads, answered, faults, turns>>

\* Never read before, or a mailbox that starts its uids again: start from now.
FirstRound ==
    /\ reader.pc = "open" /\ reader.from \notin 1 .. box
    /\ cursor' = box /\ reader' = Idle
    /\ since' = IF since = Unset /\ box > 0 THEN box ELSE since
    /\ UNCHANGED <<box, jobs, leads, answered, faults, turns>>

NothingNew ==
    /\ reader.pc = "open" /\ reader.from = box /\ box > 0
    /\ reader' = Idle
    /\ UNCHANGED <<box, cursor, since, jobs, leads, answered, faults, turns>>

Fetch ==
    /\ reader.pc = "open" /\ reader.from \in 1 .. box - 1
    /\ reader' = [reader EXCEPT !.pc = "read", !.top = box, !.last = reader.from]
    /\ UNCHANGED <<box, cursor, since, jobs, leads, answered, faults, turns>>

More == reader.last < reader.top /\ reader.n < Round

\* The next mail of the round; an automatic one is passed over.
NextMail ==
    /\ reader.pc = "read" /\ jobs[Reader].pc = "none" /\ More
    /\ reader' = [reader EXCEPT !.last = @ + 1, !.n = @ + 1]
    /\ jobs' = IF From[reader.last + 1] = Automatic THEN jobs
               ELSE [jobs EXCEPT ![Reader] = [NoJob EXCEPT !.pc = "seen", !.what = reader.last + 1]]
    /\ UNCHANGED <<box, cursor, since, leads, answered, faults, turns>>

\* Faulty variant: the cursor is saved while the round's last mail is being taken.
SaveCursorEarly ==
    /\ reader.pc = "read" /\ ~More
    /\ cursor' = reader.last /\ reader' = Idle
    /\ since' = IF since = Unset THEN reader.last ELSE since
    /\ UNCHANGED <<box, jobs, leads, answered, faults, turns>>

\* Faulty variant: the round never saves how far it came.
SaveCursorNever ==
    /\ reader.pc = "read" /\ jobs[Reader].pc = "none" /\ ~More
    /\ reader' = Idle
    /\ UNCHANGED <<box, cursor, since, jobs, leads, answered, faults, turns>>

\* The round is over: how far it came is saved once.
SaveCursor ==
    /\ reader.pc = "read" /\ jobs[Reader].pc = "none" /\ ~More
    /\ cursor' = reader.last /\ reader' = Idle
    /\ since' = IF since = Unset THEN reader.last ELSE since
    /\ UNCHANGED <<box, jobs, leads, answered, faults, turns>>

\* saveInbox: turned off and on again, the inbox starts from now.
TurnOffAndOn ==
    /\ turns < MaxTurns /\ turns' = turns + 1
    /\ cursor' = 0 /\ since' = Unset
    /\ UNCHANGED <<box, reader, jobs, leads, answered, faults>>

(***************************************************************************)
(* receiveLead, for a mail or for a form post.                             *)
(***************************************************************************)
Tell(j, what) == answered' = [p \in Posts |-> IF p = j THEN what ELSE answered[p]]
TakePost(p) ==
    /\ jobs' = [jobs EXCEPT ![p] = [NoJob EXCEPT !.pc = "twin", !.what = p]]
    /\ UNCHANGED answered
NotTaken(p, told) == Tell(p, told) /\ UNCHANGED jobs

\* Faulty variant: the hidden field is not looked at.
PostFormUnguarded(p) ==
    /\ jobs[p] = NoJob /\ answered[p] = "none"
    /\ \/ p \in Empty /\ NotTaken(p, "refused")
       \/ p \notin Empty /\ TakePost(p)
    /\ UNCHANGED <<box, cursor, since, reader, leads, faults, turns>>

\* leadIn: a bot that filled the hidden field is told "ok" and nothing is kept, a
\* post that gives no way to reply is refused, any other is taken.
PostForm(p) ==
    /\ jobs[p] = NoJob /\ answered[p] = "none"
    /\ \/ p \in Trapped /\ NotTaken(p, "ok")
       \/ p \in Empty \ Trapped /\ NotTaken(p, "refused")
       \/ p \in Wanted /\ TakePost(p)
    /\ UNCHANGED <<box, cursor, since, reader, leads, faults, turns>>

\* The call returns: the reader goes on, a form is answered.
Return(j) ==
    /\ jobs' = [jobs EXCEPT ![j] = NoJob]
    /\ Tell(j, "ok")

\* A mail that made a lead before is a duplicate.
LookSeen(j) ==
    /\ jobs[j].pc = "seen"
    /\ IF Seen(jobs[j].what) THEN Return(j) ELSE Goto(j, "twin") /\ UNCHANGED answered
    /\ UNCHANGED <<box, cursor, since, reader, leads, faults, turns>>

\* openTwin: the person's open lead, if there is one.
LookTwin(j) ==
    /\ jobs[j].pc = "twin"
    /\ LET twins == {l \in Rows : leads[l].open /\ leads[l].who = From[jobs[j].what]}
       IN  jobs' = [jobs EXCEPT ![j].pc = IF twins = {} THEN "create" ELSE "repeat",
                                ![j].twin = IF twins = {} THEN NoLead ELSE CHOOSE l \in twins : TRUE]
    /\ UNCHANGED <<box, cursor, since, reader, leads, answered, faults, turns>>

\* The twin counts one repeat more, also when it was closed meanwhile.
CountRepeat(j) ==
    /\ jobs[j].pc = "repeat"
    /\ leads' = [leads EXCEPT ![jobs[j].twin].repeats = @ + 1]
    /\ Goto(j, "event")
    /\ UNCHANGED <<box, cursor, since, reader, answered, faults, turns>>

\* Faulty variant: the REPEAT event is left out.
AddEventNever(j) ==
    /\ jobs[j].pc = "event"
    /\ Return(j)
    /\ UNCHANGED <<box, cursor, since, reader, leads, faults, turns>>

\* What they wrote is kept as a REPEAT event.
AddEvent(j) ==
    /\ jobs[j].pc = "event"
    /\ leads' = [leads EXCEPT ![jobs[j].twin].came = @ \cup {jobs[j].what}]
    /\ Return(j)
    /\ UNCHANGED <<box, cursor, since, reader, faults, turns>>

\* A new lead; the unique key refuses a second one from the same mail.
Create(j) ==
    /\ jobs[j].pc = "create"
    /\ Return(j)
    /\ IF j = Reader /\ Seen(jobs[j].what) THEN UNCHANGED leads
       ELSE \E l \in LeadIds \ Rows :
              leads' = [leads EXCEPT ![l] =
                 [who |-> From[jobs[j].what], ext |-> IF j = Reader THEN jobs[j].what ELSE 0,
                  open |-> TRUE, repeats |-> 0, came |-> {jobs[j].what}]]
    /\ UNCHANGED <<box, cursor, since, reader, faults, turns>>

Receive(j) == LookSeen(j) \/ LookTwin(j) \/ CountRepeat(j) \/ AddEvent(j) \/ Create(j)

(***************************************************************************)
(* The leads are worked, and things fail.                                  *)
(***************************************************************************)
LeadCloses(l) ==
    /\ l \in Rows /\ leads[l].open
    /\ leads' = [leads EXCEPT ![l].open = FALSE]
    /\ UNCHANGED <<box, cursor, since, reader, jobs, answered, faults, turns>>

\* A mail cannot be read or saved: the round ends in pollInbox's catch, and the
\* cursor stays where it was.
RoundFails ==
    /\ reader.pc # "idle" /\ faults < MaxFaults
    /\ faults' = faults + 1
    /\ reader' = Idle /\ jobs' = [jobs EXCEPT ![Reader] = NoJob]
    /\ UNCHANGED <<box, cursor, since, leads, answered, turns>>

\* A restart: everything in progress is gone, and no form in progress is answered.
Restart ==
    /\ faults < MaxFaults /\ faults' = faults + 1
    /\ reader' = Idle /\ jobs' = [j \in Jobs |-> NoJob]
    /\ UNCHANGED <<box, cursor, since, leads, answered, turns>>

ReaderStep == OpenRound \/ FirstRound \/ NothingNew \/ Fetch \/ NextMail \/ SaveCursor

Next ==
    \/ MailArrives \/ ReaderStep \/ TurnOffAndOn
    \/ \E p \in Posts : PostForm(p)
    \/ \E j \in Jobs : Receive(j)
    \/ \E l \in LeadIds : LeadCloses(l)
    \/ RoundFails \/ Restart

Spec == Init /\ [][Next]_vars

\* The cron starts a round every two minutes and a call on its way goes on.
FairSpec == Spec /\ WF_vars(ReaderStep) /\ \A j \in Wanted \cup {Reader} : WF_vars(Receive(j))

-----------------------------------------------------------------------------
Lead == [who : People, ext : {0} \cup Mails, open : BOOLEAN, repeats : Nat,
         came : SUBSET (Mails \cup Posts)]
Call == [pc : {"none", "seen", "twin", "repeat", "event", "create"},
         what : {0} \cup Mails \cup Posts, twin : LeadIds \cup {NoLead}]

TypeOK ==
    /\ box \in 0 .. MaxMail /\ cursor \in 0 .. MaxMail /\ since \in -1 .. MaxMail
    /\ reader \in [pc : {"idle", "open", "read"}, from : 0 .. MaxMail, top : 0 .. MaxMail,
                   last : 0 .. MaxMail, n : 0 .. Round]
    /\ jobs \in [Jobs -> Call]
    /\ leads \in [LeadIds -> Lead \cup {NoRow}]
    /\ answered \in [Posts -> {"none", "ok", "refused"}]

\* "First time: start from now": from then on the saved cursor never passes a
\* mail that is not on a lead, whatever fails half way.  A mailbox that was empty
\* at the first round is the exception the code makes: its cursor is 0, which
\* reads as "first time" again.
NoMailPassed ==
    since # Unset =>
      \A u \in since + 1 .. cursor : From[u] # Automatic => OnALead(u)

\* A visitor is told "ok" only when the enquiry, or its REPEAT event, is stored,
\* but for the bot that filled the hidden field ("say thanks and keep nothing"); and
\* of a bot's post, or of one that was refused, nothing is kept.
AnsweredIsKept ==
    \A p \in Posts :
       /\ answered[p] = "ok" => OnALead(p) \/ p \in Trapped
       /\ OnALead(p) => p \in Wanted

\* A mail that came after the first round gets to a lead, also when rounds fail
\* on it; turning the inbox off and on leaves what came between to the past.
MailBecomesLead ==
    \A u \in {w \in OldMail + 1 .. MaxMail : From[w] # Automatic} :
       (since # Unset /\ since < u /\ u <= box)
          ~> (OnALead(u) \/ since = Unset \/ u <= since)

=============================================================================
