--------------------------- MODULE LeadProofs ------------------------------
(***************************************************************************)
(* Proofs about how a lead comes in (LeadIntake) and how it moves on       *)
(* (LeadFlow), each in a part of its own: the two specifications share no  *)
(* variable.                                                               *)
(*                                                                         *)
(* Type correctness of LeadIntake, and its safety for any number of mails, *)
(* form posts, leads and faults: the cursor of the inbox passes no mail    *)
(* that is not on a lead, no form is answered before it is on one, and of  *)
(* a bot's post or a refused one nothing is kept.                          *)
(* Then type correctness of LeadFlow, and for any number of requests and   *)
(* alert jobs that a lead waiting for the head has the review task open    *)
(* once the requests are through, and that no alert goes out twice.        *)
(***************************************************************************)
EXTENDS LeadIntake, LeadFlow, SequenceTheorems, TLAPS

\* A call is about the mail the reader is at or about its own form, and adds a repeat only
\* to a lead that is there; what made a lead is on it.
CallsInv ==
    \A j \in Jobs : jobs[j].pc # "none" =>
      /\ jobs[j].what \in IF j = Reader THEN Mails ELSE {j}
      /\ From[jobs[j].what] \in People
      /\ jobs[j].pc \in {"repeat", "event"} => jobs[j].twin \in Rows
LeadsInv == \A l \in Rows : leads[l].ext # 0 => leads[l].ext \in leads[l].came

TypeInv == TypeOK /\ CallsInv /\ LeadsInv

(***************************************************************************)
(* What the reader knows: nothing beyond the mailbox; it takes one mail at *)
(* a time, the last it has counted; and once the inbox is past its first   *)
(* round, a round starts where the cursor is.                              *)
(***************************************************************************)
RoundInv ==
    /\ cursor <= box /\ reader.from <= box
    /\ reader.pc = "read" => 1 <= reader.last /\ reader.last <= reader.top /\ reader.top <= box
    /\ jobs[Reader].pc # "none" => reader.pc = "read" /\ jobs[Reader].what = reader.last
    /\ since # Unset => /\ since >= 1 /\ cursor >= 1
                        /\ reader.pc = "open" => reader.from = cursor

\* Every mail a round has been through is on a lead, or in hand.
ReadSoFar ==
    reader.pc = "read" /\ since # Unset =>
      \A u \in since + 1 .. reader.last :
         From[u] # Automatic => OnALead(u) \/ (jobs[Reader].pc # "none" /\ jobs[Reader].what = u)

\* leadIn goes on to receiveLead with no other post.
OnlyWanted == \A p \in Posts \ Wanted : jobs[p].pc = "none"

KeptInv == RoundInv /\ ReadSoFar /\ NoMailPassed /\ OnlyWanted /\ AnsweredIsKept

(***************************************************************************)
(* Leads and calls.                                                        *)
(***************************************************************************)
LEMMA ReaderApart == Reader \notin Posts /\ Reader \in Jobs /\ Posts \cap Mails = {} /\ Posts \subseteq Jobs
BY IntakeAssumption DEF Reader, Jobs, Mails

\* A row is a lead, and a lead is a row.
LEMMA RowIsLead ==
  ASSUME TypeOK, NEW l \in LeadIds
  PROVE  l \in Rows <=> leads[l] \in Lead
<1>1. NoRow \notin Lead
  BY IntakeAssumption DEF NoRow, Lead
<1> QED
  BY <1>1 DEF Rows, TypeOK

LEMMA NoJobIsCall == NoJob \in Call
BY DEF NoJob, Call

LEMMA GotoKeeps ==
  ASSUME jobs \in [Jobs -> Call], NEW j \in Jobs, NEW pc \in {"twin", "event"}, Goto(j, pc)
  PROVE  /\ jobs' \in [Jobs -> Call]
         /\ \A k \in Jobs : /\ jobs'[k].pc = IF k = j THEN pc ELSE jobs[k].pc
                            /\ jobs'[k].what = jobs[k].what /\ jobs'[k].twin = jobs[k].twin
BY DEF Goto, Call

LEMMA ReturnKeeps ==
  ASSUME jobs \in [Jobs -> Call], NEW j \in Jobs, Return(j)
  PROVE  /\ jobs' \in [Jobs -> Call]
         /\ \A k \in Jobs : jobs'[k] = IF k = j THEN NoJob ELSE jobs[k]
BY NoJobIsCall DEF Return

\* No step takes a lead away, nor what came into it.
LeadsGrow ==
    /\ leads' \in [LeadIds -> Lead \cup {NoRow}]
    /\ \A l \in Rows : leads'[l] \in Lead /\ leads[l].came \subseteq leads'[l].came
    /\ LeadsInv'

LEMMA OneLeadGrows ==
  ASSUME TypeInv, NEW l \in LeadIds, NEW new \in Lead, leads' = [leads EXCEPT ![l] = new],
         l \in Rows => leads[l].came \subseteq new.came, new.ext # 0 => new.ext \in new.came
  PROVE  LeadsGrow
<1>1. leads \in [LeadIds -> Lead \cup {NoRow}] /\ Rows \subseteq LeadIds /\ TypeOK
  BY DEF TypeInv, TypeOK, Rows
<1>2. /\ leads' \in [LeadIds -> Lead \cup {NoRow}]
      /\ \A k \in LeadIds : leads'[k] = IF k = l THEN new ELSE leads[k]
  BY <1>1
<1>3. \A k \in Rows : leads'[k] \in Lead /\ leads[k].came \subseteq leads'[k].came
  BY <1>1, <1>2, RowIsLead
<1>4. LeadsInv'
  <2> SUFFICES ASSUME NEW k \in LeadIds, leads'[k] # NoRow, leads'[k].ext # 0
               PROVE  leads'[k].ext \in leads'[k].came
    BY DEF LeadsInv, Rows
  <2>1. CASE k = l
    BY <1>2, <2>1
  <2>2. CASE k # l
    BY <1>2, <2>2 DEF TypeInv, LeadsInv, Rows
  <2> QED
    BY <2>1, <2>2
<1> QED
  BY <1>2, <1>3, <1>4 DEF LeadsGrow

LEMMA StepGrows ==
  ASSUME TypeInv, [Next]_vars
  PROVE  LeadsGrow
<1>0. /\ TypeOK /\ leads \in [LeadIds -> Lead \cup {NoRow}]
      /\ \A l \in LeadIds : l \in Rows <=> leads[l] \in Lead
      /\ Rows \subseteq LeadIds
  BY RowIsLead DEF TypeInv, TypeOK, Rows
<1>1. CASE leads' = leads
  BY <1>0, <1>1 DEF LeadsGrow, TypeInv, LeadsInv, Rows
<1>2. ASSUME NEW j \in Jobs, CountRepeat(j) PROVE LeadsGrow
  <2>1. PICK l \in Rows : l = jobs[j].twin
    BY <1>2 DEF CountRepeat, TypeInv, CallsInv
  <2> DEFINE new == [leads[l] EXCEPT !.repeats = @ + 1]
  <2>2. leads[l] \in Lead /\ l \in LeadIds
    BY <1>0
  <2>3. new \in Lead /\ new.came = leads[l].came /\ new.ext = leads[l].ext
    BY <2>2 DEF Lead
  <2>4. leads' = [leads EXCEPT ![l] = new]
    BY <1>2, <2>1 DEF CountRepeat
  <2> QED
    BY <2>2, <2>3, <2>4, OneLeadGrows DEF TypeInv, LeadsInv
<1>3. ASSUME NEW j \in Jobs, AddEvent(j) PROVE LeadsGrow
  <2>1. PICK l \in Rows : l = jobs[j].twin
    BY <1>3 DEF AddEvent, TypeInv, CallsInv
  <2> DEFINE new == [leads[l] EXCEPT !.came = @ \cup {jobs[j].what}]
  <2>2. leads[l] \in Lead /\ l \in LeadIds /\ jobs[j].what \in Mails \cup Posts
    BY <1>0, <1>3 DEF AddEvent, TypeInv, CallsInv, Jobs
  <2>3. new \in Lead /\ leads[l].came \subseteq new.came /\ new.ext = leads[l].ext
    BY <2>2 DEF Lead
  <2>4. leads' = [leads EXCEPT ![l] = new]
    BY <1>3, <2>1 DEF AddEvent
  <2> QED
    BY <2>2, <2>3, <2>4, OneLeadGrows DEF TypeInv, LeadsInv
<1>4. ASSUME NEW j \in Jobs, Create(j), leads' # leads PROVE LeadsGrow
  <2>1. PICK l \in LeadIds \ Rows :
          leads' = [leads EXCEPT ![l] =
                     [who |-> From[jobs[j].what], ext |-> IF j = Reader THEN jobs[j].what ELSE 0,
                      open |-> TRUE, repeats |-> 0, came |-> {jobs[j].what}]]
    BY <1>4 DEF Create
  <2> DEFINE new == [who |-> From[jobs[j].what], ext |-> IF j = Reader THEN jobs[j].what ELSE 0,
                     open |-> TRUE, repeats |-> 0, came |-> {jobs[j].what}]
  <2>2. /\ From[jobs[j].what] \in People /\ jobs[j].what \in Mails \cup Posts
        /\ j = Reader => jobs[j].what \in Mails
    BY <1>4 DEF Create, TypeInv, CallsInv, Jobs
  <2>3. new \in Lead
    BY <2>2 DEF Lead
  <2>4. new.ext # 0 => new.ext \in new.came
    OBVIOUS
  <2>5. leads' = [leads EXCEPT ![l] = new]
    BY <2>1
  <2> HIDE DEF new
  <2> QED
    BY <2>3, <2>4, <2>5, OneLeadGrows
<1>5. ASSUME NEW l \in LeadIds, LeadCloses(l) PROVE LeadsGrow
  <2> DEFINE new == [leads[l] EXCEPT !.open = FALSE]
  <2>1. leads[l] \in Lead /\ l \in Rows
    BY <1>0, <1>5 DEF LeadCloses
  <2>2. new \in Lead /\ new.came = leads[l].came /\ new.ext = leads[l].ext
    BY <2>1 DEF Lead
  <2>3. leads' = [leads EXCEPT ![l] = new]
    BY <1>5 DEF LeadCloses
  <2> QED
    BY <2>1, <2>2, <2>3, OneLeadGrows DEF TypeInv, LeadsInv
<1> QED
  BY <1>1, <1>2, <1>3, <1>4, <1>5 DEF Next, vars, MailArrives, ReaderStep, OpenRound, FirstRound, NothingNew,
     Fetch, NextMail, SaveCursor, TurnOffAndOn, PostForm, Receive, LookSeen, LookTwin, RoundFails, Restart

\* What is on a lead stays there.
LEMMA OnALeadStays ==
  ASSUME TypeInv, LeadsGrow, NEW what, OnALead(what)
  PROVE  OnALead(what)'
<1>1. PICK l \in Rows : what \in leads[l].came
  BY DEF OnALead
<1>2. l \in LeadIds /\ leads'[l] \in Lead /\ what \in leads'[l].came
  BY <1>1 DEF LeadsGrow, Rows
<1>3. NoRow \notin Lead
  BY IntakeAssumption DEF NoRow, Lead
<1> QED
  BY <1>2, <1>3 DEF OnALead, Rows

LEMMA RowsStay ==
  ASSUME TypeInv, LeadsGrow
  PROVE  Rows \subseteq Rows'
<1>1. NoRow \notin Lead
  BY IntakeAssumption DEF NoRow, Lead
<1> QED
  BY <1>1 DEF LeadsGrow, Rows

\* Every call that is new, or another than before, is about what it should be.
LEMMA CallsKept ==
  ASSUME TypeInv, LeadsGrow, jobs' \in [Jobs -> Call],
         NEW j \in Jobs, \A k \in Jobs \ {j} : jobs'[k] = jobs[k],
         jobs'[j].pc # "none" => /\ jobs'[j].what \in IF j = Reader THEN Mails ELSE {j}
                                 /\ From[jobs'[j].what] \in People
                                 /\ jobs'[j].pc \in {"repeat", "event"} => jobs'[j].twin \in Rows
  PROVE  jobs' \in [Jobs -> Call] /\ CallsInv'
BY RowsStay DEF TypeInv, CallsInv

LEMMA StepCalls ==
  ASSUME TypeInv, LeadsGrow, [Next]_vars
  PROVE  jobs' \in [Jobs -> Call] /\ CallsInv'
<1>0. /\ jobs \in [Jobs -> Call] /\ TypeOK
      /\ \A j \in Jobs : jobs[j].pc # "none" =>
            /\ jobs[j].what \in IF j = Reader THEN Mails ELSE {j}
            /\ From[jobs[j].what] \in People
            /\ jobs[j].pc \in {"repeat", "event"} => jobs[j].twin \in Rows
  BY DEF TypeInv, TypeOK, CallsInv
<1>1. CASE jobs' = jobs
  BY <1>0, <1>1, RowsStay DEF CallsInv
<1>2. CASE NextMail
  <2> DEFINE u == reader.last + 1
             new == [NoJob EXCEPT !.pc = "seen", !.what = u]
  <2>1. u \in Mails
    BY <1>0, <1>2, IntakeAssumption DEF NextMail, More, TypeOK, Mails
  <2>2. CASE From[u] = Automatic
    BY <1>1, <1>2, <2>2 DEF NextMail
  <2>3. CASE From[u] # Automatic
    <3>1. From[u] \in People
      BY <2>1, <2>3, IntakeAssumption
    <3>2. new \in Call /\ new.what = u /\ new.pc = "seen"
      BY <2>1 DEF NoJob, Call
    <3>3. jobs' = [jobs EXCEPT ![Reader] = new]
      BY <1>2, <2>3 DEF NextMail
    <3>4. jobs' \in [Jobs -> Call] /\ \A k \in Jobs : jobs'[k] = IF k = Reader THEN new ELSE jobs[k]
      BY <1>0, <3>2, <3>3, ReaderApart
    <3> HIDE DEF new, u
    <3> QED
      BY <2>1, <3>1, <3>2, <3>4, ReaderApart, CallsKept
  <2> QED
    BY <2>2, <2>3
<1>3. ASSUME NEW p \in Posts, PostForm(p) PROVE jobs' \in [Jobs -> Call] /\ CallsInv'
  <2> DEFINE new == [NoJob EXCEPT !.pc = "twin", !.what = p]
  <2>1. new \in Call /\ new.what = p /\ new.pc = "twin" /\ From[p] \in People
    BY IntakeAssumption DEF NoJob, Call
  <2>2. jobs' = jobs \/ jobs' = [jobs EXCEPT ![p] = new]
    BY <1>3 DEF PostForm, TakePost, NotTaken
  <2>3. CASE jobs' = [jobs EXCEPT ![p] = new]
    <3>1. jobs' \in [Jobs -> Call] /\ \A k \in Jobs : jobs'[k] = IF k = p THEN new ELSE jobs[k]
      BY <1>0, <2>1, <2>3, ReaderApart
    <3> HIDE DEF new
    <3> QED
      BY <2>1, <3>1, ReaderApart, CallsKept
  <2> QED
    BY <1>1, <2>2, <2>3
<1>4. ASSUME NEW j \in Jobs, Return(j) PROVE jobs' \in [Jobs -> Call] /\ CallsInv'
  <2>1. jobs' \in [Jobs -> Call] /\ \A k \in Jobs : jobs'[k] = IF k = j THEN NoJob ELSE jobs[k]
    BY <1>0, <1>4, ReturnKeeps
  <2>2. jobs'[j].pc = "none" /\ \A k \in Jobs \ {j} : jobs'[k] = jobs[k]
    BY <2>1 DEF NoJob
  <2> QED
    BY <2>1, <2>2, CallsKept
<1>5. ASSUME NEW j \in Jobs, NEW pc \in {"twin", "event"}, Goto(j, pc), jobs[j].pc # "none",
             pc = "event" => jobs[j].pc = "repeat"
      PROVE  jobs' \in [Jobs -> Call] /\ CallsInv'
  <2>1. jobs' \in [Jobs -> Call]
        /\ \A k \in Jobs : /\ jobs'[k].pc = IF k = j THEN pc ELSE jobs[k].pc
                           /\ jobs'[k].what = jobs[k].what /\ jobs'[k].twin = jobs[k].twin
    BY <1>0, <1>5, GotoKeeps
  <2>2. \A k \in Jobs \ {j} : jobs'[k] = jobs[k]
    BY <1>5 DEF Goto
  <2>3. /\ jobs'[j].pc = pc /\ jobs'[j].what = jobs[j].what
        /\ jobs'[j].pc \in {"repeat", "event"} => jobs'[j].twin \in Rows
    BY <1>0, <1>5, <2>1
  <2> QED
    BY <1>0, <1>5, <2>1, <2>2, <2>3, CallsKept
<1>6. ASSUME NEW j \in Jobs, LookTwin(j) PROVE jobs' \in [Jobs -> Call] /\ CallsInv'
  <2> DEFINE twins == {l \in Rows : leads[l].open /\ leads[l].who = From[jobs[j].what]}
             pc == IF twins = {} THEN "create" ELSE "repeat"
             twin == IF twins = {} THEN NoLead ELSE CHOOSE l \in twins : TRUE
             new == [jobs[j] EXCEPT !.pc = pc, !.twin = twin]
  <2>1. jobs' = [jobs EXCEPT ![j].pc = pc, ![j].twin = twin] /\ jobs[j].pc = "twin"
    BY <1>6 DEF LookTwin
  <2>2. twins \subseteq LeadIds /\ twins \subseteq Rows
    BY DEF Rows
  <2>3. twin \in LeadIds \cup {NoLead} /\ (pc = "repeat" => twin \in Rows) /\ pc \in {"create", "repeat"}
    <3> HIDE DEF twins
    <3> QED
      BY <2>2
  <2> HIDE DEF twins, pc, twin
  <2>4. new \in Call /\ new.pc = pc /\ new.twin = twin /\ new.what = jobs[j].what
    BY <1>0, <2>3 DEF Call
  <2>5. jobs' = [jobs EXCEPT ![j] = new]
    BY <1>0, <2>1
  <2> HIDE DEF new
  <2>6. jobs' \in [Jobs -> Call] /\ \A k \in Jobs : jobs'[k] = IF k = j THEN new ELSE jobs[k]
    BY <1>0, <2>4, <2>5
  <2>7. jobs'[j] = new /\ \A k \in Jobs \ {j} : jobs'[k] = jobs[k]
    BY <2>6
  <2>8. jobs'[j].pc \in {"repeat", "event"} => jobs'[j].twin \in Rows
    BY <2>3, <2>4, <2>7
  <2>9. jobs[j].what \in (IF j = Reader THEN Mails ELSE {j}) /\ From[jobs[j].what] \in People
    BY <1>0, <2>1
  <2>10. jobs'[j].what = jobs[j].what
    BY <2>4, <2>7
  <2>11. jobs'[j].what \in (IF j = Reader THEN Mails ELSE {j}) /\ From[jobs'[j].what] \in People
    BY <2>9, <2>10
  <2> QED
    BY <2>6, <2>7, <2>8, <2>11, CallsKept
<1>7. ASSUME NEW j \in Jobs, Receive(j) PROVE jobs' \in [Jobs -> Call] /\ CallsInv'
  <2>1. \/ Return(j) \/ LookTwin(j)
        \/ jobs[j].pc = "seen" /\ Goto(j, "twin")
        \/ jobs[j].pc = "repeat" /\ Goto(j, "event")
    BY <1>7 DEF Receive, LookSeen, CountRepeat, AddEvent, Create
  <2> QED
    BY <1>4, <1>5, <1>6, <2>1
<1>8. CASE RoundFails
  <2>1. jobs' = [jobs EXCEPT ![Reader] = NoJob]
    BY <1>8 DEF RoundFails
  <2>2. jobs' \in [Jobs -> Call] /\ \A k \in Jobs : jobs'[k] = IF k = Reader THEN NoJob ELSE jobs[k]
    BY <1>0, <2>1, NoJobIsCall
  <2>3. jobs'[Reader].pc = "none" /\ \A k \in Jobs \ {Reader} : jobs'[k] = jobs[k]
    BY <2>2, ReaderApart DEF NoJob
  <2> QED
    BY <2>2, <2>3, ReaderApart, CallsKept
<1>9. CASE Restart
  <2>1. jobs' \in [Jobs -> Call] /\ \A k \in Jobs : jobs'[k].pc = "none"
    BY <1>9, NoJobIsCall DEF Restart, NoJob
  <2> QED
    BY <2>1 DEF CallsInv
<1> QED
  BY <1>1, <1>2, <1>3, <1>7, <1>8, <1>9 DEF Next, vars, MailArrives, ReaderStep, OpenRound, FirstRound,
     NothingNew, Fetch, SaveCursor, TurnOffAndOn, LeadCloses

\* The mailbox, the cursor, the round and the answers.
LEMMA StepScalars ==
  ASSUME TypeInv, [Next]_vars
  PROVE  /\ box' \in 0 .. MaxMail /\ cursor' \in 0 .. MaxMail /\ since' \in -1 .. MaxMail
         /\ reader' \in [pc : {"idle", "open", "read"}, from : 0 .. MaxMail, top : 0 .. MaxMail,
                         last : 0 .. MaxMail, n : 0 .. Round]
         /\ answered' \in [Posts -> {"none", "ok", "refused"}]
<1> DEFINE Rounds == [pc : {"idle", "open", "read"}, from : 0 .. MaxMail, top : 0 .. MaxMail,
                      last : 0 .. MaxMail, n : 0 .. Round]
<1>0. /\ box \in 0 .. MaxMail /\ cursor \in 0 .. MaxMail /\ since \in -1 .. MaxMail
      /\ reader \in Rounds /\ answered \in [Posts -> {"none", "ok", "refused"}] /\ Idle \in Rounds
  BY IntakeAssumption DEF TypeInv, TypeOK, Idle
<1>1. /\ box' \in 0 .. MaxMail /\ cursor' \in 0 .. MaxMail /\ since' \in -1 .. MaxMail
  <2>1. CASE MailArrives \/ FirstRound \/ SaveCursor \/ TurnOffAndOn
    BY <1>0, <2>1, IntakeAssumption DEF MailArrives, FirstRound, SaveCursor, TurnOffAndOn, Unset
  <2>2. MailArrives \/ FirstRound \/ SaveCursor \/ TurnOffAndOn \/ UNCHANGED <<box, cursor, since>>
    BY DEF Next, vars, ReaderStep, OpenRound, NothingNew, Fetch, NextMail, PostForm, Receive, LookSeen, LookTwin,
       CountRepeat, AddEvent, Create, LeadCloses, RoundFails, Restart
  <2> QED
    BY <1>0, <2>1, <2>2
<1>2. reader' \in Rounds
  <2>1. CASE OpenRound
    BY <1>0, <2>1, IntakeAssumption DEF OpenRound, Idle
  <2>2. CASE Fetch
    BY <1>0, <2>2 DEF Fetch
  <2>3. CASE NextMail
    <3>1. reader.last + 1 \in 0 .. MaxMail /\ reader.n + 1 \in 0 .. Round
      BY <1>0, <2>3, IntakeAssumption DEF NextMail, More
    <3>2. reader' = [reader EXCEPT !.last = reader.last + 1, !.n = reader.n + 1]
      BY <2>3 DEF NextMail
    <3> QED
      BY <1>0, <3>1, <3>2
  <2>4. reader' = reader \/ reader' = Idle \/ OpenRound \/ Fetch \/ NextMail
    BY DEF Next, vars, MailArrives, ReaderStep, FirstRound, NothingNew, SaveCursor, TurnOffAndOn, PostForm,
       Receive, LookSeen, LookTwin, CountRepeat, AddEvent, Create, LeadCloses, RoundFails, Restart
  <2> QED
    BY <1>0, <2>1, <2>2, <2>3, <2>4
<1>3. answered' \in [Posts -> {"none", "ok", "refused"}]
  <2>1. answered' = answered \/ \E p \in Jobs : Tell(p, "ok") \/ Tell(p, "refused")
    BY DEF Next, vars, MailArrives, ReaderStep, OpenRound, FirstRound, NothingNew, Fetch,
       NextMail, SaveCursor, TurnOffAndOn, PostForm, NotTaken, TakePost, Jobs, Receive, LookSeen, LookTwin,
       CountRepeat, AddEvent, Create, LeadCloses, RoundFails, Restart, Return
  <2> QED
    BY <1>0, <2>1 DEF Tell
<1> QED
  BY <1>1, <1>2, <1>3

LEMMA InitTyped == Init => TypeInv
<1> SUFFICES ASSUME Init PROVE TypeInv
  OBVIOUS
<1>1. jobs \in [Jobs -> Call] /\ \A j \in Jobs : jobs[j].pc = "none"
  BY NoJobIsCall DEF Init, NoJob
<1>2. leads \in [LeadIds -> Lead \cup {NoRow}] /\ Rows = {}
  BY DEF Init, Rows
<1>3. TypeOK
  BY <1>1, <1>2, IntakeAssumption DEF Init, TypeOK, Idle, Unset
<1> QED
  BY <1>1, <1>2, <1>3 DEF TypeInv, CallsInv, LeadsInv

LEMMA StepTyped ==
  ASSUME TypeInv, [Next]_vars
  PROVE  TypeInv'
<1>1. LeadsGrow
  BY StepGrows
<1>2. jobs' \in [Jobs -> Call] /\ CallsInv'
  BY <1>1, StepCalls
<1> QED
  BY <1>1, <1>2, StepScalars DEF LeadsGrow, TypeInv, TypeOK

LEMMA TypeInvariant == Spec => []TypeInv
<1>1. Init => TypeInv
  BY InitTyped
<1>2. TypeInv /\ [Next]_vars => TypeInv'
  BY StepTyped
<1> QED
  BY <1>1, <1>2, PTL DEF Spec

\* Every variable has its type in every state: mailbox, round, calls and leads.
THEOREM TypeCorrect == Spec => []TypeOK
<1>1. TypeInv => TypeOK
  BY DEF TypeInv
<1> QED
  BY <1>1, TypeInvariant, PTL

(***************************************************************************)
(* The cursor and the answers.                                             *)
(***************************************************************************)
LEMMA InitKept == Init => KeptInv
<1> SUFFICES ASSUME Init PROVE KeptInv
  OBVIOUS
<1>1. \A j \in Jobs : jobs[j].pc = "none"
  BY DEF Init, NoJob
<1>2. box = OldMail /\ cursor = 0 /\ since = Unset /\ reader.pc = "idle" /\ reader.from = 0
  BY DEF Init, Idle
<1>3. OnlyWanted
  BY <1>1, ReaderApart DEF OnlyWanted
<1>4. Rows = {}
  BY DEF Init, Rows
<1>5. AnsweredIsKept
  BY <1>4 DEF Init, AnsweredIsKept, OnALead
<1> QED
  BY <1>1, <1>2, <1>3, <1>5, ReaderApart, IntakeAssumption DEF KeptInv, RoundInv, ReadSoFar, NoMailPassed

\* A call goes on with what it is about, or returns with it on a lead, or is cut off.
LEMMA CallMoves ==
  ASSUME TypeInv, [Next]_vars, NEW j \in Jobs, jobs[j].pc # "none", NEW w, w = jobs[j].what
  PROVE  \/ jobs'[j].pc # "none" /\ jobs'[j].what = w
         \/ OnALead(w)'
         \/ jobs'[j].pc = "none" /\ answered' = answered /\ (j = Reader => reader'.pc = "idle")
<1>0. /\ LeadsGrow /\ NoRow \notin Lead /\ TypeOK /\ TypeInv' /\ jobs \in [Jobs -> Call]
      /\ \A l \in Rows : l \in LeadIds
  BY StepGrows, StepTyped, IntakeAssumption DEF NoRow, Lead, TypeInv, TypeOK, Rows
<1>1. w # 0
  <2>1. w \in IF j = Reader THEN Mails ELSE {j}
    BY DEF TypeInv, CallsInv
  <2>2. 0 \notin Mails
    BY IntakeAssumption DEF Mails
  <2> QED
    BY <2>1, <2>2 DEF Reader
<1>2. CASE jobs'[j] = jobs[j]
  BY <1>2
<1>3. ASSUME NEW k \in Jobs \ {j}, Receive(k) PROVE jobs'[j] = jobs[j]
  BY <1>0, <1>3 DEF Receive, LookSeen, LookTwin, CountRepeat, AddEvent, Create, Goto, Return
<1>4. CASE LookSeen(j)
  <2>1. CASE Seen(w)
    <3>1. PICK l \in Rows : leads[l].ext = w
      BY <2>1 DEF Seen
    <3>2. w # 0
      BY <1>1
    <3>3. OnALead(w)
      BY <3>1, <3>2 DEF TypeInv, LeadsInv, OnALead
    <3> QED
      BY <1>0, <3>3, OnALeadStays
  <2>2. CASE ~Seen(w)
    <3>1. Goto(j, "twin")
      BY <1>4, <2>2 DEF LookSeen
    <3> QED
      BY <1>0, <3>1, GotoKeeps
  <2> QED
    BY <2>1, <2>2
<1>5. CASE LookTwin(j)
  BY <1>0, <1>5 DEF LookTwin, Call
<1>6. CASE CountRepeat(j)
  <2>1. Goto(j, "event")
    BY <1>6 DEF CountRepeat
  <2> QED
    BY <1>0, <2>1, GotoKeeps
<1>7. CASE AddEvent(j)
  <2>1. PICK l \in Rows : l = jobs[j].twin
    BY <1>7 DEF AddEvent, TypeInv, CallsInv
  <2>2. leads'[l].came = leads[l].came \cup {w}
    <3>1. leads[l] \in Lead /\ l \in LeadIds /\ leads \in [LeadIds -> Lead \cup {NoRow}]
      BY <1>0, RowIsLead DEF TypeOK
    <3> QED
      BY <1>7, <2>1, <3>1 DEF AddEvent, Lead
  <2>3. l \in Rows'
    BY <1>0, RowsStay
  <2> QED
    BY <2>2, <2>3 DEF OnALead
<1>8. CASE Create(j)
  <2>1. CASE j = Reader /\ Seen(w)
    <3>1. PICK l \in Rows : leads[l].ext = w
      BY <2>1 DEF Seen
    <3>2. w # 0
      BY <1>1
    <3>3. OnALead(w)
      BY <3>1, <3>2 DEF TypeInv, LeadsInv, OnALead
    <3> QED
      BY <1>0, <3>3, OnALeadStays
  <2>2. CASE ~(j = Reader /\ Seen(w))
    <3>1. PICK l \in LeadIds \ Rows :
            leads' = [leads EXCEPT ![l] =
                       [who |-> From[w], ext |-> IF j = Reader THEN w ELSE 0,
                        open |-> TRUE, repeats |-> 0, came |-> {w}]]
      BY <1>8, <2>2 DEF Create
    <3>2. leads'[l].came = {w} /\ leads'[l].who = From[w] /\ l \in LeadIds
      BY <1>0, <3>1 DEF TypeOK
    <3>3. From[w] \in People
      BY DEF TypeInv, CallsInv
    <3>4. leads'[l] # NoRow
      BY <3>2, <3>3, IntakeAssumption DEF NoRow
    <3> QED
      BY <3>2, <3>4 DEF OnALead, Rows
  <2> QED
    BY <2>1, <2>2
<1>9. CASE NextMail
  <2>1. j # Reader
    BY <1>9 DEF NextMail
  <2> QED
    BY <1>0, <1>2, <1>9, <2>1 DEF NextMail
<1>10. ASSUME NEW p \in Posts, PostForm(p) PROVE jobs'[j] = jobs[j]
  BY <1>0, <1>10 DEF PostForm, TakePost, NotTaken, NoJob
<1>11. CASE RoundFails \/ Restart
  <2>1. CASE j = Reader \/ Restart
    BY <1>0, <1>11, <2>1 DEF RoundFails, Restart, NoJob, Idle
  <2>2. CASE j # Reader /\ RoundFails
    BY <1>0, <1>2, <2>2 DEF RoundFails
  <2> QED
    BY <1>11, <2>1, <2>2
<1>12. jobs' = jobs \/ NextMail \/ (\E p \in Posts : PostForm(p)) \/ (\E k \in Jobs : Receive(k)) \/ RoundFails \/ Restart
  BY DEF Next, vars, MailArrives, ReaderStep, OpenRound, FirstRound, NothingNew, Fetch, SaveCursor,
     TurnOffAndOn, LeadCloses
<1> QED
  BY <1>2, <1>3, <1>4, <1>5, <1>6, <1>7, <1>8, <1>9, <1>10, <1>11, <1>12 DEF Receive

\* The reader gets a call of its own only for the next mail.
LEMMA ReaderCall ==
  ASSUME TypeInv, [Next]_vars, ~NextMail, jobs'[Reader].pc # "none"
  PROVE  jobs[Reader].pc # "none" /\ jobs'[Reader].what = jobs[Reader].what
<1>0. jobs \in [Jobs -> Call] /\ Reader \in Jobs /\ Reader \notin Posts
  BY ReaderApart DEF TypeInv, TypeOK
<1>1. ASSUME NEW p \in Posts, PostForm(p) PROVE jobs'[Reader] = jobs[Reader]
  BY <1>0, <1>1 DEF PostForm, TakePost, NotTaken
<1>2. ASSUME NEW k \in Jobs, Receive(k) PROVE jobs[Reader].pc # "none" /\ jobs'[Reader].what = jobs[Reader].what
  <2>1. \/ Return(k) \/ LookTwin(k)
        \/ jobs[k].pc = "seen" /\ Goto(k, "twin")
        \/ jobs[k].pc = "repeat" /\ Goto(k, "event")
    BY <1>2 DEF Receive, LookSeen, CountRepeat, AddEvent, Create
  <2>2. CASE Return(k)
    BY <1>0, <2>2, ReturnKeeps DEF NoJob
  <2>3. CASE LookTwin(k)
    BY <1>0, <2>3 DEF LookTwin, Call
  <2>4. ASSUME NEW pc \in {"twin", "event"}, Goto(k, pc), jobs[k].pc # "none"
        PROVE  jobs[Reader].pc # "none" /\ jobs'[Reader].what = jobs[Reader].what
    BY <1>0, <2>4, GotoKeeps
  <2> QED
    BY <2>1, <2>2, <2>3, <2>4
<1>3. ~RoundFails /\ ~Restart
  BY <1>0 DEF RoundFails, Restart, NoJob
<1>4. jobs' = jobs \/ (\E p \in Posts : PostForm(p)) \/ (\E k \in Jobs : Receive(k)) \/ RoundFails \/ Restart
  BY DEF Next, vars, MailArrives, ReaderStep, OpenRound, FirstRound, NothingNew, Fetch, SaveCursor,
     TurnOffAndOn, LeadCloses
<1> QED
  BY <1>1, <1>2, <1>3, <1>4

\* The steps that move neither the cursor nor the round.
Elsewhere == UNCHANGED <<cursor, since, reader>>

LEMMA StepRound ==
  ASSUME TypeInv, RoundInv, [Next]_vars
  PROVE  RoundInv'
<1>0. /\ box \in 0 .. MaxMail /\ cursor \in 0 .. MaxMail /\ since \in -1 .. MaxMail
      /\ reader \in [pc : {"idle", "open", "read"}, from : 0 .. MaxMail, top : 0 .. MaxMail,
                     last : 0 .. MaxMail, n : 0 .. Round]
      /\ MaxMail \in Nat
  BY IntakeAssumption DEF TypeInv, TypeOK
<1>1. box' \in 0 .. MaxMail /\ box <= box'
  <2>1. MailArrives \/ box' = box
    BY DEF Next, vars, ReaderStep, OpenRound, FirstRound, NothingNew, Fetch, NextMail, SaveCursor,
       TurnOffAndOn, PostForm, Receive, LookSeen, LookTwin, CountRepeat, AddEvent, Create, LeadCloses,
       RoundFails, Restart
  <2> QED
    BY <1>0, <2>1 DEF MailArrives
<1>2. CASE Elsewhere
  <2>1. ~NextMail
    <3>1. NextMail => reader'.last = reader.last + 1
      BY <1>0 DEF NextMail
    <3> QED
      BY <1>0, <1>2, <3>1 DEF Elsewhere
  <2>2. jobs'[Reader].pc # "none" => jobs[Reader].pc # "none" /\ jobs'[Reader].what = jobs[Reader].what
    BY <2>1, ReaderCall
  <2> QED
    BY <1>0, <1>1, <1>2, <2>2 DEF Elsewhere, RoundInv
<1>3. ASSUME reader' = Idle, ~NextMail, jobs'[Reader].pc = "none", cursor' \in 0 .. box,
             since' # Unset => since' >= 1 /\ cursor' >= 1
      PROVE  RoundInv'
  BY <1>0, <1>1, <1>3 DEF RoundInv, Idle
<1>4. CASE OpenRound
  <2>1. jobs'[Reader].pc = "none"
    BY <1>4 DEF OpenRound, RoundInv
  <2>2. reader'.pc = "open" /\ reader'.from = cursor /\ UNCHANGED <<box, cursor, since>>
    BY <1>4 DEF OpenRound, Idle
  <2> QED
    BY <1>0, <2>1, <2>2 DEF RoundInv
<1>5. CASE FirstRound
  <2>1. jobs'[Reader].pc = "none" /\ reader' = Idle /\ ~NextMail
    BY <1>5 DEF FirstRound, RoundInv, NextMail
  <2>2. since = Unset
    BY <1>0, <1>5 DEF FirstRound, RoundInv
  <2>3. since' # Unset => since' = box /\ box > 0 /\ cursor' = box
    BY <1>5, <2>2 DEF FirstRound
  <2>4. cursor' = box
    BY <1>5 DEF FirstRound
  <2> QED
    BY <1>0, <1>3, <2>1, <2>3, <2>4
<1>6. CASE NothingNew
  <2>1. jobs'[Reader].pc = "none" /\ reader' = Idle /\ ~NextMail /\ UNCHANGED <<cursor, since>>
    BY <1>6 DEF NothingNew, RoundInv, NextMail
  <2> QED
    BY <1>0, <1>3, <2>1 DEF RoundInv
<1>7. CASE Fetch
  <2>1. jobs'[Reader].pc = "none" /\ UNCHANGED <<box, cursor, since>>
    BY <1>7 DEF Fetch, RoundInv
  <2>2. /\ reader'.pc = "read" /\ reader'.from = reader.from /\ reader'.top = box /\ reader'.last = reader.from
        /\ reader.from \in 1 .. box - 1
    BY <1>0, <1>7 DEF Fetch
  <2> QED
    BY <1>0, <2>1, <2>2 DEF RoundInv
<1>8. CASE NextMail
  <2>1. /\ reader'.pc = "read" /\ reader.pc = "read" /\ reader'.from = reader.from /\ reader'.top = reader.top
        /\ reader'.last = reader.last + 1 /\ reader.last < reader.top /\ UNCHANGED <<box, cursor, since>>
    BY <1>0, <1>8 DEF NextMail, More
  <2>2. jobs'[Reader].pc # "none" => jobs'[Reader].what = reader.last + 1
    <3>1. jobs \in [Jobs -> Call] /\ jobs[Reader].pc = "none"
      BY <1>8 DEF TypeInv, TypeOK, NextMail
    <3> QED
      BY <1>8, <3>1, ReaderApart DEF NextMail, NoJob
  <2> QED
    BY <1>0, <2>1, <2>2 DEF RoundInv
<1>9. CASE SaveCursor
  <2>1. /\ jobs'[Reader].pc = "none" /\ reader' = Idle /\ ~NextMail
        /\ cursor' = reader.last /\ since' = IF since = Unset THEN reader.last ELSE since
    BY <1>9 DEF SaveCursor, NextMail
  <2>2. 1 <= reader.last /\ reader.last <= box
    BY <1>0, <1>9 DEF SaveCursor, RoundInv
  <2> QED
    BY <1>0, <1>3, <2>1, <2>2 DEF RoundInv
<1>10. CASE TurnOffAndOn
  <2>1. since' = Unset /\ cursor' = 0 /\ UNCHANGED <<box, reader, jobs>>
    BY <1>10 DEF TurnOffAndOn
  <2> QED
    BY <1>0, <2>1 DEF RoundInv
<1>11. CASE RoundFails \/ Restart
  <2>1. reader' = Idle /\ jobs'[Reader].pc = "none" /\ UNCHANGED <<cursor, since, box>>
    BY <1>11, ReaderApart DEF RoundFails, Restart, NoJob, TypeInv, TypeOK
  <2> QED
    BY <1>0, <2>1 DEF RoundInv, Idle
<1> QED
  BY <1>2, <1>4, <1>5, <1>6, <1>7, <1>8, <1>9, <1>10, <1>11 DEF Next, vars, Elsewhere, MailArrives, ReaderStep,
     PostForm, Receive, LookSeen, LookTwin, CountRepeat, AddEvent, Create, LeadCloses

LEMMA StepWanted ==
  ASSUME TypeInv, OnlyWanted, [Next]_vars
  PROVE  OnlyWanted'
<1>0. jobs \in [Jobs -> Call] /\ Posts \subseteq Jobs /\ Reader \notin Posts
  BY ReaderApart DEF TypeInv, TypeOK
<1>1. ASSUME NEW p \in Posts \ Wanted, NEW q \in Posts, PostForm(q) PROVE jobs'[p].pc = "none"
  BY <1>0, <1>1 DEF OnlyWanted, PostForm, TakePost, NotTaken
<1>2. ASSUME NEW p \in Posts \ Wanted, NEW j \in Jobs, Receive(j) PROVE jobs'[p].pc = "none"
  <2>1. jobs[p].pc = "none" /\ jobs[j].pc # "none"
    BY <1>2 DEF OnlyWanted, Receive, LookSeen, LookTwin, CountRepeat, AddEvent, Create
  <2>2. jobs'[p] = jobs[p]
    BY <1>0, <1>2, <2>1 DEF Receive, LookSeen, LookTwin, CountRepeat, AddEvent, Create, Goto, Return
  <2> QED
    BY <2>1, <2>2
<1>3. ASSUME NEW p \in Posts, NextMail \/ RoundFails PROVE jobs'[p] = jobs[p]
  BY <1>0, <1>3 DEF NextMail, RoundFails
<1>4. CASE Restart
  BY <1>0, <1>4 DEF OnlyWanted, Restart, NoJob
<1>5. \/ jobs' = jobs \/ NextMail \/ RoundFails \/ Restart
      \/ (\E q \in Posts : PostForm(q)) \/ \E j \in Jobs : Receive(j)
  BY DEF Next, vars, MailArrives, ReaderStep, OpenRound, FirstRound, NothingNew, Fetch, SaveCursor,
     TurnOffAndOn, LeadCloses
<1> QED
  BY <1>1, <1>2, <1>3, <1>4, <1>5 DEF OnlyWanted

\* What comes onto a lead is what some call is about.
LEMMA CameByCall ==
  ASSUME TypeInv, [Next]_vars, NEW what, OnALead(what)'
  PROVE  OnALead(what) \/ \E j \in Jobs : jobs[j].pc # "none" /\ jobs[j].what = what
<1>0. /\ leads \in [LeadIds -> Lead \cup {NoRow}] /\ NoRow.came = {}
      /\ leads' \in [LeadIds -> Lead \cup {NoRow}]
  BY StepTyped DEF TypeInv, TypeOK, NoRow
<1>1. PICK l \in LeadIds : leads'[l] # NoRow /\ what \in leads'[l].came
  BY DEF OnALead, Rows
<1>2. CASE what \in leads[l].came
  BY <1>0, <1>2 DEF OnALead, Rows
<1>3. CASE what \notin leads[l].came
  <2>1. ~\E k \in LeadIds : LeadCloses(k)
    <3>1. ASSUME NEW k \in LeadIds, LeadCloses(k) PROVE leads'[l].came = leads[l].came
      BY <1>0, <3>1, RowIsLead DEF LeadCloses, Lead, TypeInv
    <3> QED
      BY <1>1, <1>3, <3>1
  <2>2. PICK j \in Jobs : CountRepeat(j) \/ AddEvent(j) \/ Create(j)
    BY <1>1, <1>3, <2>1 DEF Next, vars, MailArrives, ReaderStep, OpenRound, FirstRound, NothingNew, Fetch,
       NextMail, SaveCursor, TurnOffAndOn, PostForm, Receive, LookSeen, LookTwin, RoundFails, Restart
  <2>3. jobs[j].pc # "none"
    BY <2>2 DEF CountRepeat, AddEvent, Create
  <2>4. CASE CountRepeat(j) \/ AddEvent(j)
    <3>1. PICK k \in LeadIds : k = jobs[j].twin /\ leads[k] \in Lead
      BY <2>4, RowIsLead DEF CountRepeat, AddEvent, TypeInv, CallsInv, Rows
    <3>2. CASE CountRepeat(j)
      <4>1. leads' = [leads EXCEPT ![k] = [leads[k] EXCEPT !.repeats = @ + 1]]
        BY <3>1, <3>2 DEF CountRepeat
      <4> QED
        BY <1>0, <1>1, <1>3, <3>1, <4>1 DEF Lead
    <3>3. CASE AddEvent(j)
      <4>1. leads' = [leads EXCEPT ![k] = [leads[k] EXCEPT !.came = @ \cup {jobs[j].what}]]
        BY <3>1, <3>3 DEF AddEvent
      <4>2. what = jobs[j].what
        BY <1>0, <1>1, <1>3, <3>1, <4>1 DEF Lead
      <4> QED
        BY <2>3, <4>2
    <3> QED
      BY <2>4, <3>2, <3>3
  <2>5. CASE Create(j)
    <3>1. PICK k \in LeadIds : leads' = [leads EXCEPT ![k] =
                [who |-> From[jobs[j].what], ext |-> IF j = Reader THEN jobs[j].what ELSE 0,
                 open |-> TRUE, repeats |-> 0, came |-> {jobs[j].what}]]
      BY <1>1, <1>3, <2>5 DEF Create
    <3>2. what = jobs[j].what
      BY <1>0, <1>1, <1>3, <3>1
    <3> QED
      BY <2>3, <3>2
  <2> QED
    BY <2>2, <2>4, <2>5
<1> QED
  BY <1>2, <1>3

LEMMA StepAnswered ==
  ASSUME TypeInv, OnlyWanted, AnsweredIsKept, [Next]_vars, \A w : OnALead(w) => OnALead(w)'
  PROVE  AnsweredIsKept'
<1>0. answered \in [Posts -> {"none", "ok", "refused"}]
  BY DEF TypeInv, TypeOK
<1>1. ASSUME NEW p \in Posts, answered'[p] = "ok", answered[p] # "ok", p \notin Trapped
      PROVE  OnALead(p)'
  <2>1. PICK j \in Jobs : Receive(j) /\ Return(j) /\ j = p
    <3>1. \A q \in Posts : ~PostForm(q)
      BY <1>0, <1>1 DEF PostForm, TakePost, NotTaken, Tell
    <3>2. PICK j \in Jobs : Receive(j) /\ answered' # answered
      BY <1>1, <3>1 DEF Next, vars, MailArrives, ReaderStep, OpenRound, FirstRound, NothingNew, Fetch, NextMail,
         SaveCursor, TurnOffAndOn, LeadCloses, RoundFails, Restart
    <3>3. Return(j)
      BY <3>2 DEF Receive, LookSeen, LookTwin, CountRepeat, AddEvent, Create
    <3>4. j = p
      BY <1>0, <1>1, <3>3 DEF Return, Tell
    <3> QED
      BY <3>2, <3>3, <3>4
  <2>2. jobs[j].pc # "none" /\ jobs[j].what = p
    BY <2>1, ReaderApart DEF Receive, LookSeen, LookTwin, CountRepeat, AddEvent, Create, TypeInv, CallsInv
  <2>3. jobs'[j].pc = "none" /\ answered' # answered
    BY <1>1, <2>1, ReturnKeeps DEF TypeInv, TypeOK, NoJob
  <2> QED
    BY <2>1, <2>2, <2>3, CallMoves
<1>2. ASSUME NEW p \in Posts, OnALead(p)' PROVE p \in Wanted
  <2>1. CASE OnALead(p)
    BY <2>1 DEF AnsweredIsKept
  <2>2. CASE ~OnALead(p)
    <3>1. PICK j \in Jobs : jobs[j].pc # "none" /\ jobs[j].what = p
      BY <1>2, <2>2, CameByCall
    <3>2. j = p
      BY <3>1, ReaderApart DEF TypeInv, CallsInv
    <3> QED
      BY <3>1, <3>2 DEF OnlyWanted
  <2> QED
    BY <2>1, <2>2
<1> QED
  BY <1>1, <1>2 DEF AnsweredIsKept

LEMMA StepKept ==
  ASSUME TypeInv, KeptInv, [Next]_vars
  PROVE  KeptInv'
<1>0. /\ RoundInv /\ RoundInv' /\ ReadSoFar /\ NoMailPassed /\ OnlyWanted /\ AnsweredIsKept /\ LeadsGrow
      /\ box \in 0 .. MaxMail /\ cursor \in 0 .. MaxMail /\ since \in -1 .. MaxMail /\ MaxMail \in Nat
      /\ reader \in [pc : {"idle", "open", "read"}, from : 0 .. MaxMail, top : 0 .. MaxMail,
                     last : 0 .. MaxMail, n : 0 .. Round]
  BY StepRound, StepGrows, IntakeAssumption DEF KeptInv, TypeInv, TypeOK
<1>1. \A w : OnALead(w) => OnALead(w)'
  BY <1>0, OnALeadStays
<1>2. ReadSoFar'
  <2> SUFFICES ASSUME reader'.pc = "read", since' # Unset,
                      NEW u \in since' + 1 .. reader'.last, From[u] # Automatic
               PROVE  OnALead(u)' \/ (jobs'[Reader].pc # "none" /\ jobs'[Reader].what = u)
    BY DEF ReadSoFar
  <2>1. CASE Fetch
    <3>1. reader'.last = reader.from /\ reader.from = cursor /\ since' = since
      BY <1>0, <2>1 DEF Fetch, RoundInv
    <3> QED
      BY <1>0, <1>1, <3>1 DEF NoMailPassed
  <2>2. CASE NextMail
    <3>1. /\ reader.pc = "read" /\ reader'.last = reader.last + 1 /\ since' = since /\ jobs[Reader].pc = "none"
      BY <1>0, <2>2 DEF NextMail
    <3>2. CASE u = reader.last + 1
      <4>1. jobs' = [jobs EXCEPT ![Reader] = [NoJob EXCEPT !.pc = "seen", !.what = u]]
        BY <2>2, <3>2 DEF NextMail
      <4> QED
        BY <4>1, ReaderApart DEF NoJob, TypeInv, TypeOK
    <3>3. CASE u # reader.last + 1
      <4>1. u \in since + 1 .. reader.last
        BY <1>0, <3>1, <3>3
      <4> QED
        BY <1>0, <1>1, <3>1, <4>1 DEF ReadSoFar
    <3> QED
      BY <3>2, <3>3
  <2>3. CASE Elsewhere
    <3>1. OnALead(u) \/ (jobs[Reader].pc # "none" /\ jobs[Reader].what = u)
      BY <1>0, <2>3 DEF Elsewhere, ReadSoFar
    <3>2. CASE jobs[Reader].pc # "none" /\ jobs[Reader].what = u
      BY <2>3, <3>2, CallMoves, ReaderApart DEF Elsewhere
    <3> QED
      BY <1>1, <3>1, <3>2
  <2>4. Fetch \/ NextMail \/ Elsewhere
    <3>1. ~OpenRound
      BY DEF OpenRound, Idle
    <3>2. ~FirstRound /\ ~NothingNew /\ ~SaveCursor /\ ~RoundFails /\ ~Restart
      BY DEF FirstRound, NothingNew, SaveCursor, RoundFails, Restart, Idle
    <3>3. ~TurnOffAndOn
      BY DEF TurnOffAndOn
    <3> QED
      BY <3>1, <3>2, <3>3 DEF Next, vars, Elsewhere, MailArrives, ReaderStep, PostForm, Receive, LookSeen, LookTwin,
         CountRepeat, AddEvent, Create, LeadCloses
  <2> QED
    BY <2>1, <2>2, <2>3, <2>4
<1>3. NoMailPassed'
  <2> SUFFICES ASSUME since' # Unset, NEW u \in since' + 1 .. cursor', From[u] # Automatic
               PROVE  OnALead(u)'
    BY DEF NoMailPassed
  <2>1. CASE FirstRound
    <3>1. since = Unset
      BY <1>0, <2>1 DEF FirstRound, RoundInv
    <3>2. since' = box /\ cursor' = box
      BY <2>1, <3>1 DEF FirstRound
    <3> QED
      BY <1>0, <3>2
  <2>2. CASE SaveCursor
    <3>1. cursor' = reader.last /\ since' = IF since = Unset THEN reader.last ELSE since
      BY <2>2 DEF SaveCursor
    <3>2. since # Unset /\ since' = since
      BY <1>0, <3>1
    <3> QED
      BY <1>0, <1>1, <2>2, <3>1, <3>2 DEF SaveCursor, ReadSoFar
  <2>3. CASE UNCHANGED <<cursor, since>>
    BY <1>0, <1>1, <2>3 DEF NoMailPassed
  <2>4. FirstRound \/ SaveCursor \/ UNCHANGED <<cursor, since>>
    BY DEF Next, vars, MailArrives, ReaderStep, OpenRound, NothingNew, Fetch, NextMail, TurnOffAndOn, PostForm,
       Receive, LookSeen, LookTwin, CountRepeat, AddEvent, Create, LeadCloses, RoundFails, Restart
  <2> QED
    BY <2>1, <2>2, <2>3, <2>4
<1>4. OnlyWanted' /\ AnsweredIsKept'
  BY <1>0, <1>1, StepWanted, StepAnswered DEF AnsweredIsKept
<1> QED
  BY <1>0, <1>2, <1>3, <1>4 DEF KeptInv

LEMMA KeptInvariant == Spec => []KeptInv
<1>1. Init => KeptInv
  BY InitKept
<1>2. TypeInv /\ KeptInv /\ [Next]_vars => KeptInv'
  BY StepKept
<1> QED
  BY <1>1, <1>2, TypeInvariant, PTL DEF Spec

\* After the first round that found mail, the cursor of the inbox never passes a mail that
\* is not on a lead, whatever fails half way (pollInbox saves it once, at the end).
THEOREM NoMailIsEverPassed == Spec => []NoMailPassed
<1>1. KeptInv => NoMailPassed
  BY DEF KeptInv
<1> QED
  BY <1>1, KeptInvariant, PTL

\* A form that was answered "ok" is on a lead (leadIn waits for receiveLead), but for the
\* bot's with its hidden field filled; and a bot's or a refused post is on none.
THEOREM AnsweredIsAlwaysKept == Spec => []AnsweredIsKept
<1>1. KeptInv => AnsweredIsKept
  BY DEF KeptInv
<1> QED
  BY <1>1, KeptInvariant, PTL

-----------------------------------------------------------------------------
(***************************************************************************)
(* LeadFlow.  A request is between two of its awaits, so a lead may wait   *)
(* for the head with no review task open; then some request still has the  *)
(* task to make, or the write that ends the waiting (ReviewInv).  That     *)
(* holds because every handler has its steps in that order (Ordered).      *)
(***************************************************************************)
Waits == lead.status = "QUALIFIED" /\ lead.needs = TRUE

\* The steps that matter to the head's review: a write after which the lead waits for the
\* head, one after which it does not, and the ends and beginnings of the review task.
Flags(c) ==
    \/ "needs" \in DOMAIN c /\ c["needs"] = TRUE /\ ("status" \in DOMAIN c => c["status"] = "QUALIFIED")
    \/ "needs" \notin DOMAIN c /\ "status" \in DOMAIN c /\ c["status"] = "QUALIFIED"
FlagsLead(s) == s.do = "write" /\ Flags(s.columns)
UnflagsLead(s) == s.do = "write" /\ "needs" \in DOMAIN s.columns /\ s.columns["needs"] = FALSE
EndsReview(s) == s.do = "close" /\ "HEAD_REVIEW" \in s.kinds
MakesReview(s) == s.do \in {"make", "put"} /\ s.kind = "HEAD_REVIEW"

\* A plan that flags the lead makes the review task later; one that ends the task unflags later.
Ordered(p) ==
    \A i \in 1 .. Len(p) :
       /\ FlagsLead(p[i]) => \E j \in i + 1 .. Len(p) : MakesReview(p[j])
       /\ EndsReview(p[i]) => \E j \in i + 1 .. Len(p) : UnflagsLead(p[j])
WillMake(p) == \E i \in 1 .. Len(p) : MakesReview(p[i])
WillUnflag(p) == \E i \in 1 .. Len(p) : UnflagsLead(p[i])
Minds(p) == WillMake(p) \/ WillUnflag(p)

\* The row, and the columns a write may have.
LeadRow == [status : Statuses, owner : {"REP", "HEAD"}, needs : BOOLEAN,
            meeting : BOOLEAN, rep : Reps \cup {NoRep}, contacted : BOOLEAN,
            assignAlert : BOOLEAN, contactAlert : BOOLEAN]
ColumnNames == {"status", "owner", "needs", "meeting", "rep", "contacted", "assignAlert",
                "contactAlert"}
Fits(c) ==
    /\ DOMAIN c \subseteq ColumnNames
    /\ "status" \in DOMAIN c => c["status"] \in Statuses
    /\ "owner" \in DOMAIN c => c["owner"] \in {"REP", "HEAD"}
    /\ "rep" \in DOMAIN c => c["rep"] \in Reps \cup {NoRep}
    /\ "needs" \in DOMAIN c => c["needs"] \in BOOLEAN
    /\ "meeting" \in DOMAIN c => c["meeting"] \in BOOLEAN
    /\ "contacted" \in DOMAIN c => c["contacted"] \in BOOLEAN
    /\ "assignAlert" \in DOMAIN c => c["assignAlert"] \in BOOLEAN
    /\ "contactAlert" \in DOMAIN c => c["contactAlert"] \in BOOLEAN
Values == Statuses \cup {"REP", "HEAD"} \cup Reps \cup {NoRep} \cup BOOLEAN
ColumnSets == {c \in UNION {[D -> Values] : D \in SUBSET ColumnNames} : Fits(c)}
FlowSteps ==
    [do : {"write"}, columns : ColumnSets] \cup [do : {"close"}, kinds : SUBSET Kinds]
      \cup [do : {"make", "put"}, kind : Kinds]

PlansInv == plans \in [Requests -> Seq(FlowSteps)] /\ \A q \in Requests : Ordered(plans[q])
ClaimedInv == \A t \in Ticks : claimed[t] # "no" => ticks[t] \in Alerts
FlowInv == FlowTypeOK /\ PlansInv /\ ClaimedInv

\* A lead that waits for the head has the review open, or a request minds it.
ReviewInv ==
    Waits /\ ~ticked /\ ~crashed =>
       open["HEAD_REVIEW"] > 0 \/ \E q \in Requests : Minds(plans[q])
\* Who has an alert of a kind to send, under the stamp that is in force.
Has(t, k) == claimed[t] = "yes" /\ ticks[t] = k

\* While a stamp is set one job at most has its alert to send, and then none of it is sent
\* yet; while it is not set there is nothing to send, and nothing is sent.
AlertInv ==
    \A k \in Alerts :
       /\ sent[k] \in {0, 1}
       /\ k \notin Stamped => sent[k] = 0 /\ \A t \in Ticks : ~Has(t, k)
       /\ \A t \in Ticks : Has(t, k) => sent[k] = 0 /\ \A u \in Ticks : Has(u, k) => u = t

(***************************************************************************)
(* A plan, one step further.                                               *)
(***************************************************************************)
LEMMA FlowStepCases ==
  ASSUME NEW s \in FlowSteps
  PROVE  /\ s.do \in {"write", "close", "make", "put"}
         /\ s.do = "write" => s.columns \in ColumnSets
         /\ s.do = "close" => s.kinds \in SUBSET Kinds
         /\ s.do \in {"make", "put"} => s.kind \in Kinds
BY DEF FlowSteps

LEMMA PlanTail ==
  ASSUME NEW p \in Seq(FlowSteps), p # <<>>, Ordered(p)
  PROVE  /\ Head(p) \in FlowSteps
         /\ Tail(p) \in Seq(FlowSteps)
         /\ Ordered(Tail(p))
         /\ FlagsLead(Head(p)) => WillMake(Tail(p))
         /\ EndsReview(Head(p)) => WillUnflag(Tail(p))
         /\ ~MakesReview(Head(p)) /\ ~UnflagsLead(Head(p)) /\ Minds(p) => Minds(Tail(p))
<1> DEFINE t == Tail(p)
<1>1. /\ t \in Seq(FlowSteps) /\ Len(p) \in Nat /\ Len(p) >= 1 /\ Len(t) = Len(p) - 1
      /\ Head(p) = p[1] /\ \A i \in 1 .. Len(t) : t[i] = p[i + 1]
      /\ Head(p) \in FlowSteps
  OBVIOUS
<1> HIDE DEF t
<1>2. \A i \in 1 .. Len(p) : i # 1 => i - 1 \in 1 .. Len(t) /\ p[i] = t[i - 1]
  BY <1>1
<1>3. ASSUME FlagsLead(p[1]) PROVE WillMake(t)
  <2>1. PICK j \in 1 + 1 .. Len(p) : MakesReview(p[j])
    BY <1>1, <1>3 DEF Ordered
  <2> QED BY <2>1, <1>1, <1>2 DEF WillMake
<1>4. ASSUME EndsReview(p[1]) PROVE WillUnflag(t)
  <2>1. PICK j \in 1 + 1 .. Len(p) : UnflagsLead(p[j])
    BY <1>1, <1>4 DEF Ordered
  <2> QED BY <2>1, <1>1, <1>2 DEF WillUnflag
<1>5. ASSUME ~MakesReview(p[1]), ~UnflagsLead(p[1]), Minds(p) PROVE Minds(t)
  <2>1. PICK i \in 1 .. Len(p) : MakesReview(p[i]) \/ UnflagsLead(p[i])
    BY <1>5 DEF Minds, WillMake, WillUnflag
  <2>2. i # 1
    BY <2>1, <1>5
  <2> QED BY <2>1, <2>2, <1>2 DEF Minds, WillMake, WillUnflag
<1>6. Ordered(t)
  <2> SUFFICES ASSUME NEW i \in 1 .. Len(t)
               PROVE  /\ FlagsLead(t[i]) => \E j \in i + 1 .. Len(t) : MakesReview(t[j])
                      /\ EndsReview(t[i]) => \E j \in i + 1 .. Len(t) : UnflagsLead(t[j])
    BY DEF Ordered
  <2>1. i + 1 \in 1 .. Len(p) /\ t[i] = p[i + 1]
    BY <1>1
  <2>2. ASSUME NEW j \in (i + 1) + 1 .. Len(p)
        PROVE  j - 1 \in i + 1 .. Len(t) /\ p[j] = t[j - 1]
    BY <1>1, <1>2
  <2>3. ASSUME FlagsLead(t[i]) PROVE \E j \in i + 1 .. Len(t) : MakesReview(t[j])
    <3>1. PICK j \in (i + 1) + 1 .. Len(p) : MakesReview(p[j])
      BY <2>1, <2>3 DEF Ordered
    <3> QED BY <3>1, <2>2
  <2>4. ASSUME EndsReview(t[i]) PROVE \E j \in i + 1 .. Len(t) : UnflagsLead(t[j])
    <3>1. PICK j \in (i + 1) + 1 .. Len(p) : UnflagsLead(p[j])
      BY <2>1, <2>4 DEF Ordered
    <3> QED BY <3>1, <2>2
  <2> QED BY <2>3, <2>4
<1> QED BY <1>1, <1>3, <1>4, <1>5, <1>6 DEF t

\* makeTask found no open task and is about to create one.
LEMMA PlanPut ==
  ASSUME NEW p \in Seq(FlowSteps), p # <<>>, Ordered(p), Head(p).do = "make"
  PROVE  LET r == << Put(Head(p).kind) >> \o Tail(p)
         IN  r \in Seq(FlowSteps) /\ Ordered(r) /\ (Minds(p) => Minds(r))
<1> DEFINE s == Put(Head(p).kind)
           r == << s >> \o Tail(p)
<1>1. Len(p) \in Nat /\ Len(p) >= 1 /\ Head(p) = p[1] /\ Head(p) \in FlowSteps
  OBVIOUS
<1>2. s.do = "put" /\ s.kind = p[1].kind /\ s \in FlowSteps
  BY <1>1, FlowStepCases DEF Put, FlowSteps
<1> HIDE DEF s
<1>3. /\ r \in Seq(FlowSteps) /\ Len(r) = Len(p) /\ r[1] = s
      /\ \A i \in 1 .. Len(p) : i # 1 => r[i] = p[i]
  BY <1>1, <1>2
<1> HIDE DEF r
<1>4. \A i \in 1 .. Len(p) : /\ MakesReview(p[i]) => MakesReview(r[i])
                             /\ UnflagsLead(p[i]) => UnflagsLead(r[i])
                             /\ FlagsLead(r[i]) => FlagsLead(p[i])
                             /\ EndsReview(r[i]) => EndsReview(p[i])
  BY <1>1, <1>2, <1>3 DEF MakesReview, UnflagsLead, FlagsLead, EndsReview
<1>5. Minds(p) => Minds(r)
  BY <1>3, <1>4 DEF Minds, WillMake, WillUnflag
<1>6. Ordered(r)
  <2> SUFFICES ASSUME NEW i \in 1 .. Len(p)
               PROVE  /\ FlagsLead(r[i]) => \E j \in i + 1 .. Len(p) : MakesReview(r[j])
                      /\ EndsReview(r[i]) => \E j \in i + 1 .. Len(p) : UnflagsLead(r[j])
    BY <1>3 DEF Ordered
  <2>1. \A j \in i + 1 .. Len(p) : j \in 1 .. Len(p)
    BY <1>1
  <2> QED BY <2>1, <1>4 DEF Ordered
<1> QED BY <1>3, <1>5, <1>6 DEF r, s

(***************************************************************************)
(* The plans of the handlers.                                              *)
(***************************************************************************)
LEMMA ColumnsFit ==
  ASSUME NEW D \in SUBSET ColumnNames, NEW c, c = [x \in D |-> c[x]], Fits(c)
  PROVE  c \in ColumnSets
<1>1. \A x \in D : c[x] \in Values
  BY DEF Fits, ColumnNames, Values
<1> QED BY <1>1 DEF ColumnSets

\* The columns the handlers write.
LEMMA HandlerColumns ==
  ASSUME NEW s \in Statuses, NEW o \in {"REP", "HEAD"}, NEW b \in BOOLEAN, NEW r \in Reps \cup {NoRep}
  PROVE  /\ [status |-> s, owner |-> o, needs |-> b] \in ColumnSets
         /\ [status |-> s, owner |-> o, needs |-> FALSE, meeting |-> TRUE] \in ColumnSets
         /\ [status |-> s, owner |-> o, contacted |-> TRUE] \in ColumnSets
         /\ [contacted |-> TRUE, status |-> s] \in ColumnSets
         /\ [contacted |-> TRUE] \in ColumnSets
         /\ [owner |-> o, needs |-> FALSE, meeting |-> TRUE] \in ColumnSets
         /\ [status |-> s, owner |-> o] \in ColumnSets
         /\ [status |-> s, contacted |-> TRUE] \in ColumnSets
         /\ [status |-> s] \in ColumnSets
         /\ [rep |-> r, contactAlert |-> FALSE] \in ColumnSets
         /\ [rep |-> NoRep, assignAlert |-> FALSE, contactAlert |-> FALSE] \in ColumnSets
<1>1. [status |-> s, owner |-> o, needs |-> b] \in ColumnSets
  BY ColumnsFit DEF Fits, ColumnNames
<1>2. [status |-> s, owner |-> o, needs |-> FALSE, meeting |-> TRUE] \in ColumnSets
  BY ColumnsFit DEF Fits, ColumnNames
<1>3. [status |-> s, owner |-> o, contacted |-> TRUE] \in ColumnSets
  BY ColumnsFit DEF Fits, ColumnNames
<1>4. [contacted |-> TRUE, status |-> s] \in ColumnSets
  BY ColumnsFit DEF Fits, ColumnNames
<1>5. [contacted |-> TRUE] \in ColumnSets
  BY ColumnsFit DEF Fits, ColumnNames
<1>6. [owner |-> o, needs |-> FALSE, meeting |-> TRUE] \in ColumnSets
  BY ColumnsFit DEF Fits, ColumnNames
<1>7. [status |-> s, owner |-> o] \in ColumnSets
  BY ColumnsFit DEF Fits, ColumnNames
<1>8. [status |-> s, contacted |-> TRUE] \in ColumnSets
  BY ColumnsFit DEF Fits, ColumnNames
<1>9. [status |-> s] \in ColumnSets
  BY ColumnsFit DEF Fits, ColumnNames
<1>10. [rep |-> r, contactAlert |-> FALSE] \in ColumnSets
  BY ColumnsFit DEF Fits, ColumnNames
<1>11. [rep |-> NoRep, assignAlert |-> FALSE, contactAlert |-> FALSE] \in ColumnSets
  BY ColumnsFit DEF Fits, ColumnNames
<1> QED BY <1>1, <1>2, <1>3, <1>4, <1>5, <1>6, <1>7, <1>8, <1>9, <1>10, <1>11

\* The steps that leave the head's review alone, and the plans made of them.
CalmSteps == {s \in FlowSteps : ~FlagsLead(s) /\ ~EndsReview(s)}
LEMMA CalmPlan ==
  ASSUME NEW p \in Seq(CalmSteps)
  PROVE  p \in Seq(FlowSteps) /\ Ordered(p)
<1>1. \A i \in 1 .. Len(p) : p[i] \in CalmSteps
  OBVIOUS
<1> QED BY <1>1 DEF CalmSteps, Ordered

LEMMA MakeIsCalm ==
  ASSUME NEW k \in Kinds
  PROVE  Make(k) \in CalmSteps
BY DEF Make, CalmSteps, FlowSteps, FlagsLead, EndsReview

LEMMA CloseIsCalm ==
  ASSUME NEW K \in SUBSET Kinds, "HEAD_REVIEW" \notin K
  PROVE  Close(K) \in CalmSteps
BY DEF Close, CalmSteps, FlowSteps, FlagsLead, EndsReview

LEMMA WriteIsCalm ==
  ASSUME NEW c \in ColumnSets, ~Flags(c)
  PROVE  Write(c) \in CalmSteps
BY DEF Write, CalmSteps, FlowSteps, FlagsLead, EndsReview

LEMMA CalmTogether ==
  ASSUME NEW s \in CalmSteps, NEW t \in CalmSteps, NEW u \in CalmSteps, NEW v \in CalmSteps
  PROVE  /\ <<>> \in Seq(CalmSteps) /\ <<s>> \in Seq(CalmSteps)
         /\ <<s, t>> \in Seq(CalmSteps) /\ <<s, t, u>> \in Seq(CalmSteps)
         /\ <<s, t, u, v>> \in Seq(CalmSteps)
OBVIOUS

\* The plans that move the review task: asking the head, and the head's decision.
LEMMA FlagPlan == FlagForHead \in Seq(FlowSteps) /\ Ordered(FlagForHead)
<1> DEFINE s == Write([status |-> "QUALIFIED", owner |-> "HEAD", needs |-> TRUE])
           t == Close({"APPROVE", "NEXT_STEP", "FOLLOW_UP"})
           u == Make("HEAD_REVIEW")
<1>1. s \in FlowSteps /\ ~EndsReview(s)
  <2>1. [status |-> "QUALIFIED", owner |-> "HEAD", needs |-> TRUE] \in ColumnSets
    BY HandlerColumns, TRUE \in BOOLEAN DEF Statuses, OpenStatuses
  <2> QED BY <2>1 DEF Write, FlowSteps, EndsReview
<1>2. t \in FlowSteps /\ ~EndsReview(t) /\ ~FlagsLead(t)
  BY DEF Close, FlowSteps, EndsReview, FlagsLead, Kinds
<1>3. u \in FlowSteps /\ ~EndsReview(u) /\ ~FlagsLead(u) /\ MakesReview(u)
  BY DEF Make, FlowSteps, EndsReview, FlagsLead, MakesReview, Kinds
<1>4. FlagForHead = <<s, t, u>>
  BY DEF FlagForHead
<1> HIDE DEF s, t, u
<1>5. /\ FlagForHead \in Seq(FlowSteps) /\ Len(FlagForHead) = 3
      /\ FlagForHead[1] = s /\ FlagForHead[2] = t /\ FlagForHead[3] = u
  BY <1>1, <1>2, <1>3, <1>4
<1>6. \A i \in 1 .. 3 : i = 1 \/ i = 2 \/ i = 3
  OBVIOUS
<1>7. 3 \in 1 + 1 .. 3
  OBVIOUS
<1> QED BY <1>1, <1>2, <1>3, <1>5, <1>6, <1>7 DEF Ordered

LEMMA DecidePlan ==
  ASSUME NEW s \in CalmSteps \cup {Close(Kinds)}, NEW c \in ColumnSets,
         "needs" \in DOMAIN c, c["needs"] = FALSE
  PROVE  LET p == << s, Close({"HEAD_REVIEW"}), Write(c) >>
         IN  p \in Seq(FlowSteps) /\ Ordered(p)
<1> DEFINE t == Close({"HEAD_REVIEW"})
           u == Write(c)
           p == << s, t, u >>
<1>1. s \in FlowSteps /\ ~FlagsLead(s)
  BY DEF CalmSteps, Close, FlowSteps, FlagsLead
<1>2. t \in FlowSteps /\ ~FlagsLead(t)
  BY DEF Close, FlowSteps, FlagsLead, Kinds
<1>3. u \in FlowSteps /\ ~EndsReview(u) /\ ~FlagsLead(u) /\ UnflagsLead(u)
  BY DEF Write, FlowSteps, EndsReview, FlagsLead, Flags, UnflagsLead
<1> HIDE DEF t, u
<1>4. p \in Seq(FlowSteps) /\ Len(p) = 3 /\ p[1] = s /\ p[2] = t /\ p[3] = u
  BY <1>1, <1>2, <1>3
<1>5. \A i \in 1 .. 3 : i = 1 \/ i = 2 \/ i = 3
  OBVIOUS
<1>6. 3 \in 1 + 1 .. 3 /\ 3 \in 2 + 1 .. 3
  OBVIOUS
<1> HIDE DEF p
<1>7. Ordered(p)
  BY <1>1, <1>2, <1>3, <1>4, <1>5, <1>6 DEF Ordered
<1> QED BY <1>4, <1>7 DEF p, t, u

\* What every handler has to do is in the order the review depends on.
LEMMA HandlerPlans ==
  ASSUME NEW l \in LeadRow, NEW p \in Plans(l)
  PROVE  p \in Seq(FlowSteps) /\ Ordered(p)
<1> DEFINE Fine(x) == x \in Seq(FlowSteps) /\ Ordered(x)
<1>1. \A x \in Seq(CalmSteps) : Fine(x)
  BY CalmPlan
<1>2. l.status \in Statuses /\ {"QUALIFIED", "FOLLOW_UP", "CLOSED", "INFO_SENT", "NEW"} \subseteq Statuses
  BY DEF LeadRow, Statuses, OpenStatuses
<1>3. \A k \in Kinds : Make(k) \in CalmSteps
  BY MakeIsCalm
<1>4. \A K \in SUBSET Kinds : "HEAD_REVIEW" \notin K => Close(K) \in CalmSteps
  BY CloseIsCalm
<1>5. \A s, t, u, v \in CalmSteps : /\ <<s>> \in Seq(CalmSteps) /\ <<s, t>> \in Seq(CalmSteps)
                                    /\ <<s, t, u>> \in Seq(CalmSteps)
                                    /\ <<s, t, u, v>> \in Seq(CalmSteps)
  BY CalmTogether
<1>6. <<>> \in Seq(CalmSteps)
  OBVIOUS
<1> HIDE DEF Fine
<1>7. /\ {"FOLLOW_UP", "NEXT_STEP", "APPROVE", "SEND_INVITE", "RELAY", "RECONFIRM", "OUTCOME"} \subseteq Kinds
      /\ \A k \in {"FOLLOW_UP", "NEXT_STEP", "APPROVE", "SEND_INVITE", "RELAY", "RECONFIRM", "OUTCOME"} : k # "HEAD_REVIEW"
  BY DEF Kinds
<1>8. /\ Make("FOLLOW_UP") \in CalmSteps /\ Make("NEXT_STEP") \in CalmSteps
      /\ Make("APPROVE") \in CalmSteps /\ Make("SEND_INVITE") \in CalmSteps
      /\ Make("RELAY") \in CalmSteps /\ Make("RECONFIRM") \in CalmSteps
      /\ Make("OUTCOME") \in CalmSteps
  BY <1>3, <1>7
<1>9. /\ Close({"NEXT_STEP"}) \in CalmSteps /\ Close({"FOLLOW_UP"}) \in CalmSteps
      /\ Close({"SEND_INVITE", "NEXT_STEP"}) \in CalmSteps /\ Close({"RECONFIRM"}) \in CalmSteps
      /\ Close({"OUTCOME", "RECONFIRM"}) \in CalmSteps
      /\ Close(Kinds \ {"HEAD_REVIEW"}) \in CalmSteps
  BY <1>4, <1>7
<1>10. ASSUME p \in Qualify(l) PROVE Fine(p)
  <2>1. AskToQualify \in Seq(CalmSteps)
    BY <1>8, FlowAssumption DEF AskToQualify
  <2> QED BY <2>1, <1>1, <1>10, FlagPlan DEF Qualify, Fine
<1>11. ASSUME p \in Approve PROVE Fine(p)
  BY <1>11, FlagPlan DEF Approve, Fine
<1>12. ASSUME p \in Decide PROVE Fine(p)
  <2>1. /\ [status |-> "QUALIFIED", owner |-> "REP", needs |-> FALSE, meeting |-> TRUE] \in ColumnSets
        /\ [status |-> "FOLLOW_UP", owner |-> "REP", needs |-> FALSE] \in ColumnSets
        /\ [status |-> "CLOSED", owner |-> "REP", needs |-> FALSE] \in ColumnSets
    BY <1>2, HandlerColumns
  <2>2. PICK s \in CalmSteps \cup {Close(Kinds)}, c \in ColumnSets :
           /\ "needs" \in DOMAIN c /\ c["needs"] = FALSE
           /\ p = << s, Close({"HEAD_REVIEW"}), Write(c) >>
    BY <2>1, <1>8, <1>12 DEF Decide
  <2> QED BY <2>2, DecidePlan DEF Fine
<1>13. ASSUME p \in SendInfo PROVE Fine(p)
  <2>1. Write([status |-> "INFO_SENT", owner |-> "REP", contacted |-> TRUE]) \in CalmSteps
    BY <1>2, HandlerColumns, WriteIsCalm DEF Flags
  <2> QED BY <2>1, <1>1, <1>5, <1>8, <1>9, <1>13 DEF SendInfo
<1>14. ASSUME p \in AddCall(l) PROVE Fine(p)
  <2> DEFINE c == IF l.status = "INFO_SENT" THEN [contacted |-> TRUE, status |-> "FOLLOW_UP"]
                  ELSE [contacted |-> TRUE]
  <2>1. Write(c) \in CalmSteps
    BY <1>2, HandlerColumns, WriteIsCalm DEF Flags
  <2> HIDE DEF c
  <2>2. PICK wrote \in {<<>>, <<Write(c)>>}, next \in {<<>>, <<Make("NEXT_STEP")>>} :
           p = wrote \o <<Close({"FOLLOW_UP"})>> \o next
    BY <1>14 DEF AddCall, c
  <2>3. wrote \in Seq(CalmSteps) /\ next \in Seq(CalmSteps) /\ <<Close({"FOLLOW_UP"})>> \in Seq(CalmSteps)
    BY <2>1, <1>5, <1>6, <1>8, <1>9
  <2>4. p \in Seq(CalmSteps)
    BY <2>2, <2>3
  <2> QED BY <2>4, <1>1
<1>15. ASSUME p \in SendInvite PROVE Fine(p)
  <2>1. Write([owner |-> "REP", needs |-> FALSE, meeting |-> TRUE]) \in CalmSteps
    BY <1>2, HandlerColumns, WriteIsCalm DEF Flags
  <2> QED BY <2>1, <1>1, <1>5, <1>8, <1>9, <1>15 DEF SendInvite
<1>16. ASSUME p \in Reconfirm(l) PROVE Fine(p)
  BY <1>1, <1>5, <1>9, <1>16 DEF Reconfirm
<1>17. ASSUME p \in MeetingOutcome PROVE Fine(p)
  <2>1. /\ Write([status |-> "CLOSED", owner |-> "REP"]) \in CalmSteps
        /\ Write([status |-> "FOLLOW_UP", owner |-> "REP"]) \in CalmSteps
    BY <1>2, HandlerColumns, WriteIsCalm DEF Flags
  <2> QED BY <2>1, <1>1, <1>5, <1>8, <1>9, <1>17 DEF MeetingOutcome
<1>18. ASSUME p \in CloseLead PROVE Fine(p)
  <2>1. Write([status |-> "CLOSED", owner |-> "REP"]) \in CalmSteps
    BY <1>2, HandlerColumns, WriteIsCalm DEF Flags
  <2>2. Write([status |-> "CLOSED", owner |-> "HEAD", needs |-> TRUE]) \in CalmSteps
    BY <1>2, TRUE \in BOOLEAN, HandlerColumns, WriteIsCalm DEF Flags
  <2> QED BY <2>1, <2>2, <1>1, <1>5, <1>9, <1>18 DEF CloseLead
<1>19. ASSUME p \in ReopenLead PROVE Fine(p)
  <2>1. Write([status |-> "FOLLOW_UP", owner |-> "REP", needs |-> FALSE]) \in CalmSteps
    BY <1>2, FALSE \in BOOLEAN, HandlerColumns, WriteIsCalm DEF Flags
  <2> QED BY <2>1, <1>1, <1>5, <1>19 DEF ReopenLead
<1>20. ASSUME p \in UpdateLead(l) PROVE Fine(p)
  <2>1. CASE p \in {<<Make("NEXT_STEP")>>, <<Close({"NEXT_STEP"})>>}
    BY <2>1, <1>1, <1>5, <1>8, <1>9
  <2>2. CASE p \notin {<<Make("NEXT_STEP")>>, <<Close({"NEXT_STEP"})>>}
    <3>1. PICK s \in (Statuses \ {"QUALIFIED"}) \ {l.status} :
             p = << Write(IF l.status = "NEW" THEN [status |-> s, contacted |-> TRUE] ELSE [status |-> s]) >>
                   \o (IF s \in OpenStatuses THEN <<>> ELSE << Close({"NEXT_STEP"}) >>)
      BY <2>2, <1>20 DEF UpdateLead
    <3> DEFINE c == IF l.status = "NEW" THEN [status |-> s, contacted |-> TRUE] ELSE [status |-> s]
    <3>2. Write(c) \in CalmSteps
      BY <1>2, HandlerColumns, WriteIsCalm DEF Flags
    <3>3. <<Write(c)>> \in Seq(CalmSteps) /\ <<Close({"NEXT_STEP"})>> \in Seq(CalmSteps)
      BY <3>2, <1>5, <1>9
    <3>4. p \in Seq(CalmSteps)
      BY <3>1, <3>3, <1>6
    <3> QED BY <3>4, <1>1
  <2> QED BY <2>1, <2>2
<1>21. ASSUME p \in Assign(l) PROVE Fine(p)
  <2>1. \A r \in Reps \cup {NoRep} : Write([rep |-> r, contactAlert |-> FALSE]) \in CalmSteps
    BY <1>2, HandlerColumns, WriteIsCalm DEF Flags
  <2> QED BY <2>1, <1>1, <1>5, <1>21 DEF Assign
<1>22. ASSUME p \in RemoveMember(l) PROVE Fine(p)
  <2>1. Write([rep |-> NoRep, assignAlert |-> FALSE, contactAlert |-> FALSE]) \in CalmSteps
    BY <1>2, HandlerColumns, WriteIsCalm DEF Flags
  <2> QED BY <2>1, <1>1, <1>5, <1>22 DEF RemoveMember
<1>23. Fine(p)
  BY <1>10, <1>11, <1>12, <1>13, <1>14, <1>15, <1>16, <1>17, <1>18, <1>19, <1>20, <1>21, <1>22 DEF Plans
<1> QED BY <1>23 DEF Fine

\* A write changes the columns it names.
LEMMA RowWritten ==
  ASSUME NEW l \in LeadRow, NEW c \in ColumnSets
  PROVE  /\ Over(c, l) \in LeadRow
         /\ \A x \in ColumnNames : Over(c, l)[x] = IF x \in DOMAIN c THEN c[x] ELSE l[x]
<1>1. Fits(c) /\ DOMAIN l = ColumnNames
  BY DEF ColumnSets, LeadRow, ColumnNames
<1>2. Over(c, l) = [x \in ColumnNames |-> IF x \in DOMAIN c THEN c[x] ELSE l[x]]
  BY <1>1 DEF Over, Fits
<1> QED BY <1>1, <1>2 DEF Fits, LeadRow, ColumnNames

(***************************************************************************)
(* Types and plans.                                                        *)
(***************************************************************************)
LEMMA FlowInitTyped == FlowInit => FlowInv
BY FlowAssumption
   DEF FlowInit, FlowInv, FlowTypeOK, PlansInv, ClaimedInv, Ordered, Statuses, OpenStatuses

\* What one request's move does to the plans.
LEMMA PlanKept ==
  ASSUME PlansInv, NEW q \in Requests, NEW p \in Seq(FlowSteps), Ordered(p),
         plans' = [plans EXCEPT ![q] = p]
  PROVE  PlansInv'
BY DEF PlansInv

LEMMA FlowStepTyped == FlowInv /\ [FlowNext]_flowVars => FlowInv'
<1> SUFFICES ASSUME FlowInv, [FlowNext]_flowVars PROVE FlowInv'
  OBVIOUS
<1> USE DEF FlowInv
<1>1. lead \in LeadRow
  BY DEF FlowTypeOK, LeadRow
<1>2. ASSUME NEW q \in Requests, Begin(q) PROVE FlowInv'
  <2>1. PICK p \in Plans(lead) : plans' = [plans EXCEPT ![q] = p]
    BY <1>2 DEF Begin
  <2>2. PlansInv'
    BY <2>1, <1>1, HandlerPlans, PlanKept
  <2>3. FlowTypeOK'
    BY <1>2 DEF Begin, alerts, FlowTypeOK
  <2> QED BY <2>2, <2>3, <1>2 DEF Begin, alerts, ClaimedInv
<1>3. ASSUME NEW q \in Requests, Work(q) PROVE FlowInv'
  <2>1. plans[q] \in Seq(FlowSteps) /\ Ordered(plans[q]) /\ plans[q] # <<>>
    BY <1>3 DEF PlansInv, Work, WriteLead, CloseTasks, LookForTask, CreateTask
  <2>2. Step(q) \in FlowSteps /\ Tail(plans[q]) \in Seq(FlowSteps) /\ Ordered(Tail(plans[q]))
    BY <2>1, PlanTail DEF Step
  <2>3. CASE WriteLead(q)
    <3>1. PlansInv'
      BY <2>2, <2>3, PlanKept DEF WriteLead, Rest
    <3>2. Step(q).columns \in ColumnSets
      BY <2>2, <2>3, FlowStepCases DEF WriteLead
    <3>3. lead' \in LeadRow
      BY <3>2, <1>1, <2>3, RowWritten DEF WriteLead
    <3>4. /\ sent' \in [Alerts -> Nat] /\ lost' \subseteq Alerts
          /\ claimed' \in [Ticks -> {"no", "yes", "stale"}] /\ ticks' = ticks
      BY <2>3 DEF WriteLead, NewStamps, Stamped, FlowTypeOK
    <3>5. FlowTypeOK'
      BY <3>3, <3>4, <2>3 DEF WriteLead, FlowTypeOK, LeadRow
    <3>6. ClaimedInv'
      BY <2>3 DEF WriteLead, NewStamps, FlowTypeOK, ClaimedInv
    <3> QED BY <3>1, <3>5, <3>6
  <2>4. CASE CloseTasks(q)
    <3>1. PlansInv'
      BY <2>2, <2>4, PlanKept DEF CloseTasks, Rest
    <3> QED BY <3>1, <2>4 DEF CloseTasks, alerts, FlowTypeOK, ClaimedInv
  <2>5. CASE LookForTask(q)
    <3>1. PlansInv'
      BY <2>1, <2>2, <2>5, PlanKept, PlanPut DEF LookForTask, Step
    <3> QED BY <3>1, <2>5 DEF LookForTask, alerts, FlowTypeOK, ClaimedInv
  <2>6. CASE CreateTask(q)
    <3>1. PlansInv'
      BY <2>2, <2>6, PlanKept DEF CreateTask, Rest
    <3>2. Step(q).kind \in Kinds
      BY <2>2, <2>6, FlowStepCases DEF CreateTask
    <3> QED BY <3>1, <3>2, <2>6 DEF CreateTask, alerts, FlowTypeOK, ClaimedInv
  <2> QED BY <1>3, <2>3, <2>4, <2>5, <2>6 DEF Work
<1>4. ASSUME NEW q \in Requests, NEW k \in Kinds, CompleteTask(q, k) PROVE FlowInv'
  <2>1. PICK p \in {<<>>, << Make("NEXT_STEP") >>, << Close({"NEXT_STEP"}) >>} :
           plans' = [plans EXCEPT ![q] = p]
    BY <1>4 DEF CompleteTask
  <2>2. Make("NEXT_STEP") \in CalmSteps /\ Close({"NEXT_STEP"}) \in CalmSteps
    BY MakeIsCalm, CloseIsCalm DEF Kinds
  <2>3. p \in Seq(CalmSteps)
    BY <2>1, <2>2, CalmTogether
  <2>4. PlansInv'
    BY <2>1, <2>3, CalmPlan, PlanKept
  <2>5. open' \in [Kinds -> Nat]
    BY <1>4 DEF CompleteTask, FlowTypeOK
  <2> QED BY <2>4, <2>5, <1>4 DEF CompleteTask, alerts, FlowTypeOK, ClaimedInv
<1>5. ASSUME TimePasses PROVE FlowInv'
  BY <1>5 DEF TimePasses, alerts, FlowTypeOK, PlansInv, ClaimedInv
<1>6. ASSUME Crash PROVE FlowInv'
  <2>1. PlansInv'
    BY <1>6 DEF Crash, PlansInv, Ordered
  <2>2. /\ ticks' \in [Ticks -> {"idle"} \cup Alerts] /\ lost' \subseteq Alerts
        /\ claimed' \in [Ticks -> {"no", "yes", "stale"}]
    BY <1>6 DEF Crash, FlowTypeOK, ClaimedInv
  <2>3. ClaimedInv'
    BY <1>6 DEF Crash, ClaimedInv
  <2> QED BY <2>1, <2>2, <2>3, <1>6 DEF Crash, FlowTypeOK
<1>7. ASSUME NEW t \in Ticks, ReadLate(t) PROVE FlowInv'
  <2>1. ticks' \in [Ticks -> {"idle"} \cup Alerts]
    BY <1>7 DEF ReadLate, Alerts, FlowTypeOK
  <2>2. ClaimedInv'
    BY <1>7 DEF ReadLate, Alerts, FlowTypeOK, ClaimedInv
  <2> QED BY <2>1, <2>2, <1>7 DEF ReadLate, FlowTypeOK, PlansInv
<1>8. ASSUME NEW t \in Ticks, Claim(t) PROVE FlowInv'
  <2>1. ticks' \in [Ticks -> {"idle"} \cup Alerts] /\ claimed' \in [Ticks -> {"no", "yes", "stale"}]
    BY <1>8 DEF Claim, TakeStamp, EndRun, FlowTypeOK
  <2>2. lead' \in LeadRow
    BY <1>1, <1>8 DEF Claim, TakeStamp, LeadRow
  <2>3. ClaimedInv'
    BY <1>8 DEF Claim, TakeStamp, EndRun, FlowTypeOK, ClaimedInv
  <2> QED BY <2>1, <2>2, <2>3, <1>8 DEF Claim, FlowTypeOK, PlansInv, LeadRow
<1>9. ASSUME NEW t \in Ticks, SendAlert(t) PROVE FlowInv'
  <2>1. ticks[t] \in Alerts
    BY <1>9 DEF SendAlert, ClaimedInv
  <2>2. /\ ticks' \in [Ticks -> {"idle"} \cup Alerts] /\ claimed' \in [Ticks -> {"no", "yes", "stale"}]
        /\ ClaimedInv'
    BY <1>9 DEF SendAlert, EndRun, FlowTypeOK, ClaimedInv
  <2>3. sent' \in [Alerts -> Nat] /\ lost' \subseteq Alerts
    BY <1>9, <2>1 DEF SendAlert, FlowTypeOK
  <2> QED BY <2>2, <2>3, <1>9 DEF SendAlert, FlowTypeOK, PlansInv
<1>10. ASSUME UNCHANGED flowVars PROVE FlowInv'
  BY <1>10 DEF flowVars, alerts, FlowTypeOK, PlansInv, ClaimedInv
<1> QED BY <1>2, <1>3, <1>4, <1>5, <1>6, <1>7, <1>8, <1>9, <1>10 DEF FlowNext, Alert

LEMMA FlowTyped == FlowSpec => []FlowInv
<1>1. FlowInit => FlowInv
  BY FlowInitTyped
<1>2. FlowInv /\ [FlowNext]_flowVars => FlowInv'
  BY FlowStepTyped
<1> QED BY <1>1, <1>2, PTL DEF FlowSpec

\* Whatever the requests interleave, the lead, its tasks, the alert jobs and the alerts they
\* claimed stay of their types: a handler writes no column that the row does not have.
THEOREM FlowTypeCorrect == FlowSpec => []FlowTypeOK
<1>1. FlowInv => FlowTypeOK
  BY DEF FlowInv
<1> QED BY <1>1, FlowTyped, PTL

(***************************************************************************)
(* The head's review.                                                      *)
(***************************************************************************)
LEMMA NoPlanMinds == ~Minds(<<>>)
BY DEF Minds, WillMake, WillUnflag

\* The move of one request's plan: the others mind as before.
LEMMA MindsKept ==
  ASSUME PlansInv, NEW q \in Requests, NEW p, plans' = [plans EXCEPT ![q] = p],
         Minds(plans[q]) => Minds(p), \E r \in Requests : Minds(plans[r])
  PROVE  \E r \in Requests : Minds(plans'[r])
<1>1. PICK r \in Requests : Minds(plans[r])
  OBVIOUS
<1>2. plans'[r] = IF r = q THEN p ELSE plans[r]
  BY DEF PlansInv
<1> QED BY <1>1, <1>2

LEMMA FlowInitReview == FlowInit => ReviewInv
BY DEF FlowInit, ReviewInv, Waits

LEMMA FlowStepReview == FlowInv /\ ReviewInv /\ [FlowNext]_flowVars => ReviewInv'
<1> SUFFICES ASSUME FlowInv, ReviewInv, [FlowNext]_flowVars, Waits', ~ticked', ~crashed'
             PROVE  open'["HEAD_REVIEW"] > 0 \/ \E r \in Requests : Minds(plans'[r])
  BY DEF ReviewInv
<1> DEFINE Goal == open'["HEAD_REVIEW"] > 0 \/ \E r \in Requests : Minds(plans'[r])
<1>1. lead \in LeadRow /\ open \in [Kinds -> Nat] /\ "HEAD_REVIEW" \in Kinds /\ PlansInv
  BY DEF FlowInv, FlowTypeOK, LeadRow, Kinds
<1>2. Waits /\ ~ticked /\ ~crashed => open["HEAD_REVIEW"] > 0 \/ \E r \in Requests : Minds(plans[r])
  BY DEF ReviewInv
<1>3. ASSUME NEW q \in Requests, Begin(q) PROVE Goal
  <2>1. PICK p \in Plans(lead) : plans' = [plans EXCEPT ![q] = p]
    BY <1>3 DEF Begin
  <2>2. Waits /\ ~ticked /\ ~crashed /\ open' = open /\ ~Minds(plans[q])
    BY <1>3, NoPlanMinds DEF Begin, Waits
  <2> QED BY <2>1, <2>2, <1>1, <1>2, MindsKept
<1>4. ASSUME NEW q \in Requests, Work(q) PROVE Goal
  <2>1. plans[q] \in Seq(FlowSteps) /\ Ordered(plans[q]) /\ plans[q] # <<>>
    BY <1>1, <1>4 DEF PlansInv, Work, WriteLead, CloseTasks, LookForTask, CreateTask
  <2>2. /\ Step(q) \in FlowSteps
        /\ FlagsLead(Step(q)) => WillMake(Tail(plans[q]))
        /\ EndsReview(Step(q)) => WillUnflag(Tail(plans[q]))
        /\ ~MakesReview(Step(q)) /\ ~UnflagsLead(Step(q)) /\ Minds(plans[q]) => Minds(Tail(plans[q]))
    BY <2>1, PlanTail DEF Step
  <2>3. ~ticked /\ ~crashed
    BY <1>4 DEF Work, WriteLead, CloseTasks, LookForTask, CreateTask
  <2>4. ASSUME Rest(q), Minds(Tail(plans[q])) PROVE Goal
    <3>1. plans'[q] = Tail(plans[q])
      BY <2>4, <1>1 DEF Rest, PlansInv
    <3> QED BY <3>1, <2>4
  <2>5. ASSUME Rest(q), Waits, open' = open, ~MakesReview(Step(q)), ~UnflagsLead(Step(q)) PROVE Goal
    BY <2>2, <2>3, <2>5, <1>1, <1>2, MindsKept DEF Rest
  <2>6. CASE WriteLead(q)
    <3>1. Step(q).columns \in ColumnSets /\ Step(q).do = "write"
      BY <2>2, <2>6, FlowStepCases DEF WriteLead
    <3> DEFINE c == Step(q).columns
    <3>2. /\ lead'["status"] = IF "status" \in DOMAIN c THEN c["status"] ELSE lead["status"]
          /\ lead'["needs"] = IF "needs" \in DOMAIN c THEN c["needs"] ELSE lead["needs"]
      BY <3>1, <1>1, <2>6, RowWritten DEF WriteLead, ColumnNames
    <3>3. lead'["status"] = "QUALIFIED" /\ lead'["needs"] = TRUE
      BY DEF Waits
    <3>4. CASE Flags(c)
      BY <3>1, <3>4, <2>2, <2>4, <2>6 DEF FlagsLead, Minds, WriteLead
    <3>5. CASE ~Flags(c)
      <4>1. "needs" \notin DOMAIN c /\ "status" \notin DOMAIN c
        BY <3>2, <3>3, <3>5 DEF Flags
      <4>2. Waits /\ ~UnflagsLead(Step(q)) /\ ~MakesReview(Step(q))
        BY <4>1, <3>1, <3>2, <3>3 DEF Waits, UnflagsLead, MakesReview
      <4> QED BY <4>2, <2>5, <2>6 DEF WriteLead
    <3> QED BY <3>4, <3>5
  <2>7. CASE CloseTasks(q)
    <3>1. Step(q).do = "close" /\ Rest(q) /\ Waits
      BY <2>7 DEF CloseTasks, Waits
    <3>2. CASE "HEAD_REVIEW" \in Step(q).kinds
      BY <3>1, <3>2, <2>2, <2>4 DEF EndsReview, Minds
    <3>3. CASE "HEAD_REVIEW" \notin Step(q).kinds
      <4>1. open'["HEAD_REVIEW"] = open["HEAD_REVIEW"]
        BY <3>3, <1>1, <2>7 DEF CloseTasks
      <4>2. ~MakesReview(Step(q)) /\ ~UnflagsLead(Step(q))
        BY <3>1 DEF MakesReview, UnflagsLead
      <4> QED BY <3>1, <4>1, <4>2, <2>2, <2>3, <1>1, <1>2, MindsKept DEF Rest
    <3> QED BY <3>2, <3>3
  <2>8. CASE LookForTask(q)
    <3>1. Step(q).do = "make" /\ Waits /\ open' = open /\ ~UnflagsLead(Step(q))
      BY <2>8 DEF LookForTask, Waits, UnflagsLead
    <3>2. CASE open[Step(q).kind] > 0
      <4>1. Rest(q)
        BY <2>8, <3>2, <1>1 DEF LookForTask, Rest, PlansInv
      <4>2. CASE Step(q).kind = "HEAD_REVIEW"
        BY <4>2, <3>1, <3>2
      <4>3. CASE Step(q).kind # "HEAD_REVIEW"
        BY <4>1, <4>3, <3>1, <2>5 DEF MakesReview
      <4> QED BY <4>2, <4>3
    <3>3. CASE ~(open[Step(q).kind] > 0)
      <4> DEFINE p == << Put(Step(q).kind) >> \o Tail(plans[q])
      <4>1. plans' = [plans EXCEPT ![q] = p]
        BY <2>8, <3>3, <1>1 DEF LookForTask, PlansInv
      <4>2. Minds(plans[q]) => Minds(p)
        BY <2>1, <3>1, PlanPut DEF Step
      <4> HIDE DEF p
      <4> QED BY <4>1, <4>2, <3>1, <2>3, <1>1, <1>2, MindsKept
    <3> QED BY <3>2, <3>3
  <2>9. CASE CreateTask(q)
    <3>1. Step(q).do = "put" /\ Rest(q) /\ Waits /\ Step(q).kind \in Kinds
      BY <2>2, <2>9, FlowStepCases DEF CreateTask, Waits
    <3>2. CASE Step(q).kind = "HEAD_REVIEW"
      BY <3>2, <1>1, <2>9 DEF CreateTask
    <3>3. CASE Step(q).kind # "HEAD_REVIEW"
      <4>1. open'["HEAD_REVIEW"] = open["HEAD_REVIEW"]
        BY <3>3, <1>1, <2>9 DEF CreateTask
      <4>2. ~MakesReview(Step(q)) /\ ~UnflagsLead(Step(q))
        BY <3>1, <3>3 DEF MakesReview, UnflagsLead
      <4> QED BY <3>1, <4>1, <4>2, <2>2, <2>3, <1>1, <1>2, MindsKept DEF Rest
    <3> QED BY <3>2, <3>3
  <2> QED BY <1>4, <2>6, <2>7, <2>8, <2>9 DEF Work
<1>5. ASSUME NEW q \in Requests, NEW k \in Kinds, CompleteTask(q, k) PROVE Goal
  <2>1. PICK p \in {<<>>, << Make("NEXT_STEP") >>, << Close({"NEXT_STEP"}) >>} :
           plans' = [plans EXCEPT ![q] = p]
    BY <1>5 DEF CompleteTask
  <2>2. Waits /\ ~ticked /\ ~crashed /\ k # "HEAD_REVIEW" /\ ~Minds(plans[q])
    BY <1>5, NoPlanMinds DEF CompleteTask, Waits
  <2>3. open'["HEAD_REVIEW"] = open["HEAD_REVIEW"]
    BY <2>2, <1>1, <1>5 DEF CompleteTask
  <2> QED BY <2>1, <2>2, <2>3, <1>1, <1>2, MindsKept
<1>6. ASSUME TimePasses PROVE Goal
  BY <1>2, <1>6 DEF TimePasses, Waits
<1>7. ASSUME Crash PROVE Goal
  <2>1. \A q \in Requests : plans[q] = <<>>
    BY <1>7 DEF Crash
  <2>2. Waits /\ ~ticked /\ ~crashed /\ open' = open
    BY <1>7 DEF Crash, Waits
  <2> QED BY <2>1, <2>2, <1>2, NoPlanMinds
<1>8. ASSUME NEW t \in Ticks, ReadLate(t) PROVE Goal
  BY <1>2, <1>8 DEF ReadLate, Waits
<1>9. ASSUME NEW t \in Ticks, Claim(t) PROVE Goal
  <2>1. Waits
    BY <1>1, <1>9 DEF Claim, TakeStamp, Waits, LeadRow
  <2> QED BY <2>1, <1>2, <1>9 DEF Claim
<1>10. ASSUME NEW t \in Ticks, SendAlert(t) PROVE Goal
  BY <1>2, <1>10 DEF SendAlert, Waits
<1>11. ASSUME UNCHANGED flowVars PROVE Goal
  BY <1>2, <1>11 DEF flowVars, Waits
<1> QED BY <1>3, <1>4, <1>5, <1>6, <1>7, <1>8, <1>9, <1>10, <1>11 DEF FlowNext, Alert

LEMMA ReviewInvariant == FlowSpec => []ReviewInv
<1>1. FlowInit => ReviewInv
  BY FlowInitReview
<1>2. FlowInv /\ ReviewInv /\ [FlowNext]_flowVars => ReviewInv'
  BY FlowStepReview
<1> QED BY <1>1, <1>2, FlowTyped, PTL DEF FlowSpec

\* A qualified lead that waits for the head has the head's review task open whenever no request
\* is at work, for any number of requests: approvals, decisions, side exits and ticks may cross
\* between any two of their awaits.  Only a task ticked by hand or a request cut off by a
\* restart can leave such a lead without one.
THEOREM FlaggedAlwaysHasReview == FlowSpec => []FlaggedHasReview
<1>1. FlowInv /\ ReviewInv => FlaggedHasReview
  BY NoPlanMinds DEF FlowInv, ReviewInv, FlaggedHasReview, Quiet, Waits, FlowTypeOK
<1> QED BY <1>1, FlowTyped, ReviewInvariant, PTL

(***************************************************************************)
(* The alerts.                                                             *)
(***************************************************************************)
LEMMA FlowInitAlert == FlowInit => AlertInv
BY DEF FlowInit, AlertInv, Has

LEMMA FlowStepAlert == FlowInv /\ AlertInv /\ [FlowNext]_flowVars => AlertInv'
<1> SUFFICES ASSUME FlowInv, AlertInv, [FlowNext]_flowVars, NEW k \in Alerts
             PROVE  /\ sent'[k] \in {0, 1}
                    /\ k \notin Stamped' => sent'[k] = 0 /\ \A t \in Ticks : ~Has(t, k)'
                    /\ \A t \in Ticks : Has(t, k)' =>
                          sent'[k] = 0 /\ \A u \in Ticks : Has(u, k)' => u = t
  BY DEF AlertInv
<1> DEFINE Goal == /\ sent'[k] \in {0, 1}
                   /\ k \notin Stamped' => sent'[k] = 0 /\ \A t \in Ticks : ~Has(t, k)'
                   /\ \A t \in Ticks : Has(t, k)' =>
                         sent'[k] = 0 /\ \A u \in Ticks : Has(u, k)' => u = t
<1>1. /\ lead \in LeadRow /\ ticks \in [Ticks -> {"idle"} \cup Alerts]
      /\ claimed \in [Ticks -> {"no", "yes", "stale"}] /\ sent \in [Alerts -> Nat]
  BY DEF FlowInv, FlowTypeOK, LeadRow
<1>2. /\ sent[k] \in {0, 1}
      /\ k \notin Stamped => sent[k] = 0 /\ \A t \in Ticks : ~Has(t, k)
      /\ \A t \in Ticks : Has(t, k) => sent[k] = 0 /\ \A u \in Ticks : Has(u, k) => u = t
  BY DEF AlertInv
\* A write may clear the stamp: what was sent or claimed under it does not count any more.
<1>3. ASSUME NEW q \in Requests, WriteLead(q) PROVE Goal
  <2>1. sent'[k] = (IF k \in Stamped' THEN sent[k] ELSE 0) /\ ticks' = ticks
    BY <1>3 DEF WriteLead, NewStamps
  <2>2. \A t \in Ticks : claimed'[t] = "yes" <=> claimed[t] = "yes" /\ ticks[t] \in Stamped'
    BY <1>3 DEF WriteLead, NewStamps
  <2>3. \A t \in Ticks : Has(t, k)' => Has(t, k) /\ k \in Stamped'
    BY <2>1, <2>2 DEF Has
  <2> QED BY <2>1, <2>3, <1>2
\* Of the jobs that read the lead late, the one that finds the stamp empty takes it.
<1>4. ASSUME NEW t \in Ticks, Claim(t) PROVE Goal
  <2>1. sent' = sent /\ ticks[t] \in Alerts /\ claimed[t] = "no"
    BY <1>1, <1>4 DEF Claim
  <2>2. CASE ticks[t] \in Stamped
    <3>1. Stamped' = Stamped
      BY <1>4, <2>2 DEF Claim, Stamped
    <3>2. \A u \in Ticks : Has(u, k)' => Has(u, k)
      BY <1>1, <1>4, <2>1, <2>2 DEF Claim, EndRun, Has
    <3> QED BY <3>1, <3>2, <2>1, <1>2
  <2>3. CASE ticks[t] \notin Stamped
    <3>1. TakeStamp(t)
      BY <1>4, <2>3 DEF Claim
    <3>2. Stamped' = Stamped \cup {ticks[t]}
      BY <3>1, <2>1, <1>1 DEF TakeStamp, Stamped, StampOf, Alerts, LeadRow
    <3>3. \A u \in Ticks : Has(u, k)' <=> Has(u, k) \/ (u = t /\ ticks[t] = k)
      BY <3>1, <2>1, <1>1 DEF TakeStamp, Has
    <3> QED BY <3>2, <3>3, <2>1, <2>3, <1>2
  <2> QED BY <2>2, <2>3
<1>5. ASSUME NEW t \in Ticks, SendAlert(t) PROVE Goal
  <2>1. Stamped' = Stamped /\ claimed[t] # "no" /\ ticks[t] \in Alerts
    BY <1>5 DEF SendAlert, Stamped, FlowInv, ClaimedInv
  <2>2. \A u \in Ticks : Has(u, k)' <=> Has(u, k) /\ u # t
    BY <1>1, <1>5 DEF SendAlert, EndRun, Has
  <2>3. sent'[k] = sent[k] \/ (Has(t, k) /\ sent'[k] = sent[k] + 1)
    BY <1>1, <1>5 DEF SendAlert, Has
  <2> QED BY <2>1, <2>2, <2>3, <1>2
<1>6. ASSUME Crash PROVE Goal
  <2>1. Stamped' = Stamped /\ sent' = sent /\ \A t \in Ticks : ~Has(t, k)'
    BY <1>6 DEF Crash, Stamped, Has
  <2> QED BY <2>1, <1>2
<1>7. ASSUME NEW t \in Ticks, ReadLate(t) PROVE Goal
  <2>1. /\ ticks[t] = "idle" /\ claimed' = claimed /\ sent' = sent /\ Stamped' = Stamped
        /\ \A u \in Ticks : u # t => ticks'[u] = ticks[u]
    BY <1>1, <1>7 DEF ReadLate, Stamped
  <2>2. claimed[t] = "no"
    BY <2>1 DEF FlowInv, ClaimedInv, Alerts
  <2>3. \A u \in Ticks : Has(u, k)' <=> Has(u, k)
    BY <2>1, <2>2 DEF Has
  <2> QED BY <2>1, <2>3, <1>2
<1>8. ASSUME UNCHANGED <<lead, alerts>> PROVE Goal
  <2>1. Stamped' = Stamped /\ sent' = sent /\ claimed' = claimed /\ ticks' = ticks
    BY <1>8 DEF Stamped, alerts
  <2> QED BY <2>1, <1>2 DEF Has
<1> QED
  BY <1>3, <1>4, <1>5, <1>6, <1>7, <1>8
     DEF FlowNext, Begin, Work, CloseTasks, LookForTask, CreateTask, CompleteTask, TimePasses,
         Alert, flowVars

\* An alert of either kind is sent at most once between two times its stamp is cleared, for any
\* number of alert jobs at once and however the requests clear the stamps under them.
THEOREM AlwaysOneAlertEach == FlowSpec => []OneAlertEach
<1>1. AlertInv => OneAlertEach
  BY DEF AlertInv, OneAlertEach
<1>2. FlowInit => AlertInv
  BY FlowInitAlert
<1>3. FlowInv /\ AlertInv /\ [FlowNext]_flowVars => AlertInv'
  BY FlowStepAlert
<1> QED BY <1>1, <1>2, <1>3, FlowTyped, PTL DEF FlowSpec

=============================================================================
