# A formal model of Metriq (PulseTrack)

TLA+ models of the program under `src/`: the server `src/server` (Express, Prisma, PostgreSQL, run as
one PM2 process) and the small part of the browser client `src/client` that takes part in a protocol.
The models are checked with TLC on small instances; the properties that matter most are also proved
with TLAPS for every value of the constants.

Paths below are relative to `src/server/src/` unless they start with `src/`.

## 1. What makes this program hard

The server is one Node process. A handler is an `async` function: between two `await`s nothing else
runs, and at every `await` (each database query is one) any other handler, any of the jobs started
by `index.ts:49-78`, and any timer may run. The usual shape of an operation is

    read rows  ->  check (early returns)  ->  one or more writes

with neither a transaction around it nor a condition on the write. A unit test calls one handler after
the other, so what it never sees is: a write made from a read that is no longer true, two handlers
between each other's steps, a job that works off a list it read a while ago, and a restart in the middle
(every deploy is one: memory is lost, rows are not).

So the models cut every handler at its `await`s, keep what it read in its own record, and let
everything else run in between.

## 2. Inventory

| component | state it keeps | operations | talks to | what is hard | correct when |
|---|---|---|---|---|---|
| **Attendance clock** `controllers/attendanceController.ts`, `lib/autoCheckout.ts`, `lib/breakCutoff.ts`, `lib/overtime.ts` | `AttendanceDay` (one per user and date), `BreakEntry`, the shift | check-in (and repair of a session filed on the wrong date), check-out, start/end break, start overtime; minute jobs: auto check-out, break cut-off; lead corrections | shift days, notifications | jobs and handlers write the same rows from stale reads; a session is repaired in several steps; midnight | breaks never run backwards, one break at a time, a check-in is never lost, an automatic check-out is undone once, forgotten sessions and breaks end |
| **Shift days** `lib/shiftDay.ts` | none (a function of the shift and the clock) | date of a moment, lateness, HH:mm to a moment | attendance clock | overnight shifts, midnight, the split between two shifts, weekday overrides | one shift is one attendance day; lateness counts from the shift's start; the correction form gives the moment back |
| **Calls** `lib/pm/calls.ts`, `controllers/chatController.ts`, `controllers/guestController.ts`, `src/client/src/lib/callEngine.ts` | the `live` map in memory, `startingCalls`, `ChatCall` rows, browser connections | start, join, poll, leave, decline, invite, knock, admit, sweep, restart | chat, AI notes | memory and rows must agree; two starts or joins at once; a restart; dead browsers | one live call per conversation; rows follow memory; guests are admitted; abandoned calls end; everybody in a call is connected |
| **AI meeting notes** `lib/pm/notes.ts` | `ChatCall.notes*`, the card in the chat, timers | switch, write, retry, recover, link a task | calls, project tasks, the AI service | several writers for one row; long waits; restart | one card; task codes survive; notes are started and never stay "being written" |
| **Call recordings** `controllers/chatController.ts`, `src/client/src/lib/callRecorder.ts` | the file, the row's piece count, the browser's queue | start, piece, finish | calls, chat | a piece sent again; a restart between file and row, or between message and row | what is counted is in the file in order; "saved" means posted with every piece; one message; stop ends |
| **Chat** `controllers/chatController.ts`, `lib/pm/presence.ts` | conversations, members, messages, read cursors | send, edit, delete, react, read, type | notifications | cursor moved by two requests | the cursor only moves forward |
| **Work from home** `controllers/wfhRequestController.ts` | request rows, leave days | create, cancel, decide | attendance | two deciders, cancel against decide | leave days match the request's final state |
| **Billing** `lib/billing/*`, `controllers/billingController.ts`, `controllers/ownerController.ts` | `Subscription`, `BillingEvent`, `Company` plan and status, invoices | provider message, change of plan, suspension, reminders | the payment provider | messages repeated, reordered, half applied; people write beside them | what is answered is written; the plan follows the payment; a suspension and the days to fix a card are kept |
| **Leads** `lib/leads/*`, `controllers/leadsController.ts`, `controllers/leadsWorkController.ts` | `Lead` and its events, the mailbox cursor, `LeadTask`, alert stamps | mailbox round, form, the requests of the flow, alerts | mail, notifications | rounds that fail half way; requests without transactions that cross; slow jobs | no mail is passed; an answered form is kept; who must act has a task; one alert each |
| **Tasks, deadlines, meetings** `controllers/pmTasksController.ts`, `lib/pm/*` | tasks with column and rank, overdue flag | create, move, edit; deadline and reminder jobs | notifications, notes | two moves to the same place; the job against an edit | ranks order each column |
| **Dialer** `lib/dialer/*`, `controllers/dialer*.ts` | `DialerLead`, `DialerCall`, `WorkLogEntry` tasks | call, match, touch, call later, task edits, sync, imports | leads, work log | everything but the sync runs outside its lock | one open task of a reason; a call counts once; a call back keeps its task; blocked leads have none |
| **Sessions and accounts** `lib/auth.ts`, `middleware/auth.ts` | users, tokens, roles | log in, revoke, roles, company separation | all | revocation against tokens of the same second | a revoked token is refused |
| **Notifications, push, mail** | outgoing messages | notify | all | one-way | - |
| **Health and audit** `lib/health/*` | logs, results | monitor, audit | all | reads only | - |
| **Department apps, analytics, connectors** | tables of forms | create, edit, list, report | - | little state across steps | - |
| **Client** `src/client/src` | screens, browser call engine, recorder | polling, calling, uploading | the server | the order of answers, retries | modelled in the call's mesh and the recorder |

`PROJECT.json` repeats the list with a status and a reason for each, and its `hazards` name the lines
where things can go wrong and the property that watches each.

## 3. Plan

Order: what costs people most when it is wrong, and runs most often, first.

1. `AttendanceClock` with its jobs, `DayPromise` as what it promises; `ShiftDay` for the dates. *Done.*
2. `CallRoom`: the one part whose state lives in memory and rows at once. *Done.*
3. `CallNotes`: background writers over the rows of calls. *Done.*
4. `Billing`, `LeadIntake`, `LeadFlow`, `LeadDialer`, `CallRecording`: the parts with an outside partner
   that repeats, reorders or gives up, and the flows of requests without a transaction. *Done.*
5. Proofs for the modules of 4: type correctness and safety of `Billing`, `LeadIntake` and `CallRecording`, and
   the rest of the clock's safety (`OneRunningBreak`, `BreaksHaveSession`, `CheckInIsKept`), `LeadDialer`, and
   `EveryPairConnected` of `CallRoom`, the refinement of `DayPromise`, also when the shift moves to another time zone, and
   the reviews and alerts of `LeadFlow`. *Done.*
6. Lead edits in `AttendanceClock` (`correctDay`, `addDayBreak`, `updateBreak`, `deleteBreak`): a
   correction against a running handler. Two requests of one employee in flight, which needs a smaller
   state.
7. `WfhRequests`: create, cancel and decide against the leave days; the chat read cursor; `TaskBoard`.
8. `Calls`: `CallRoom` and `CallNotes` composed over the `ChatCall` row they share (row, end of call
   and restart as joint actions), with the card that is never posted after a crash.

## 4. Modules

| module | models | role |
|---|---|---|
| `AttendanceClock` | the clock of one employee | component |
| `DayPromise` | what the widget shows of a day | abstract specification, implemented by `AttendanceClock` (`KeepsPromise`) |
| `AttendanceClockMC` | values for TLC | model checking |
| `AttendanceClockProofs` | | proofs |
| `ShiftDay` | `lib/shiftDay.ts`, `isLate`, `instantFrom` | component |
| `ShiftDayMC`, `ShiftDayProofs` | | model checking, proofs |
| `CallRoom` | one conversation's calls | component |
| `CallRoomMC`, `CallRoomProofs` | | model checking, proofs |
| `CallNotes` | the notes of one call | component (TLC needs no other module) |
| `CallNotesProofs` | | proofs |
| `CallRecording`, `CallRecordingProofs` | one recording, browser and server | component, proofs |
| `LeadIntake`, `LeadIntakeMC` | how enquiries become leads of one business | component, model checking |
| `LeadFlow` | one lead at work: its requests, tasks and alerts | component (TLC needs no other module) |
| `LeadProofs` | | proofs about `LeadIntake` and `LeadFlow` |
| `LeadDialer`, `LeadDialerProofs` | one lead of the dialer: calls, touches, automatic tasks | component, proofs |
| `Billing`, `BillingProofs` | what one company pays | component, proofs |

An operator whose comment starts with "Faulty variant" is not part of a specification. It is the
definition that follows it with one plausible bug (a dropped guard, a missing reset, a wrong boundary).
Put in its place, it must break the property listed with it under `mutants`: that is how each
property is known to depend on the code it is about.

### AttendanceClock

One employee. `rows` is `AttendanceDay`, `entries` is `BreakEntry`, `zone` the window of the
employee's shift, `now` the wall clock, `req` the handlers in flight with what each has read so far,
`sweep` and `cut` the lists the two jobs read at the start of their tick and still have to work off.

| action | code |
|---|---|
| `Arrive` | the start of a handler: `const now = new Date()`, `resolveShift` |
| `CheckInRead`, `CheckInClash`, `CheckInMove`, `CheckInMerge`, `CheckInUpsert` | `checkIn` and `reconcileStaleCheckIn`: leave and holiday, today's row, then, if that row holds a check-in of another day, either the move or the merging transaction, then the upsert |
| `CheckOutRead`, `CheckOutCloseBreaks`, `CheckOutWrite` | `checkOut`: two separate writes |
| `OvertimeRead`, `OvertimeReopen`, `OvertimeStamp` | `startOvertime` |
| `BreakStartRead`, `BreakStartCreate`, `BreakEndRead`, `BreakEndWrite` | `startBreak`, `endBreak` |
| `SweepRead`, `SweepClose` | `runAutoCheckoutTick`: one query, then one transaction for each day |
| `CutRead`, `CutEnd` | `runBreakCutoffTick`: one query, then one conditional update for each break |
| `ChangeShift`, `Crash`, `Advance` | a new time zone or hours, a restart, the clock |

Abstracted: the date of a moment is `1 + (t + zone) \div DayLen`, so that a change of shift moves
moments between dates; the exact split is `ShiftDay`'s subject. The two queries of `findCurrent`, and
those before the check-in's own read (leave, holiday), are one step. The clock may move between the steps of a
request (`Latency`): the date of `checkIn` is taken when it starts, that of its query when it looks. A tick starts when the last one has
finished. The cut-off is switched on for the company. Queries do not fail, except that a conflict of
the unique date and a deleted break answer with an error as in the code. Reminders, violations and reports
only read.

### DayPromise

Four states for each day (`NOT_IN`, `IN`, `ON_BREAK`, `OUT`, the result of `liveState`) and an overtime
flag that is switched on once. A closed day opens again only in the step that switches overtime on. After the shift moved to
another time zone a session may stand on the wrong date; then `Fold` makes it part of the right day and leaves its own date
`vacated`, and `CheckInAgain` opens that one later. What `Fold` may do is what `reconcileStaleCheckIn` does: two open days make an open
one, on break if one of them was; the result is closed only if one of them was, or the target had been vacated.
`AttendanceClock` maps to it with `LiveState(i)`, `rows[i].ot # None`, and the rows that have a date and no check-in.

### ShiftDay

Exact: minutes of the day, a base pair and the overrides by weekday. `Cutoff` is the split between two
attendance days (floored middle of the off-duty gap, wrapped for day shifts), `Today` what
`shiftDayString` returns, `AxisMinutes` and `Late` the lateness rule, `Instant` the correction form.
The only actions are `Tick` and `Midnight`: every minute, with every shift, is looked at. Days have one length:
daylight saving is left out.

`ShiftIsOneDay` and `LateByTheClock` carry the proviso `TimesFit`: the times of a weekday lie on one
side of the split that the base pair gives. Without it they do not hold, because `shiftDayString` looks
at the base pair only. A night shift whose Friday is set to 09:00-18:00 files Friday's check-in
under Thursday.

### CallRoom

One conversation. `live` is the map; the `LiveCall` objects (`here`, `quiet`, `invited`,
`admitted`, `lobby`, `old`) are kept for every call id, because a handler that fetched one before an
`await` goes on writing to it after the call has left the map. `row` is the `ChatCall` row, `lock` is
`startingCalls`, `pc` the request of each person, `links` the connections between browsers. `crossed` is
history: the pairs that listed the others at the same moment, so that neither was told of the other; who leaves is
taken out of it.

| actions | code |
|---|---|
| `StartAsk` ... `StartDone` | `startCall` (the wait on `startingCalls`) and `startCallInner` |
| `JoinAsk`, `JoinCheck`, `JoinEnter`, `JoinReply`, `JoinGuest` | `liveCallFor`, the check of the limit and the list of others, `Calls.join` after the name has been read, and what the browser does with the answer |
| `GoQuiet`, `PollCall`, `LeaveCall`, `Sweep`, `GrowOld`, `EndRow` | polling, `leaveCall`, the five second sweeper, and `endCall`, which forgets the call first and writes the row later |
| `DeclineAsk`, `DeclineCall`, `InviteAsk`, `InviteToCall` | `declineCall`, `inviteToCall` |
| `GuestKnock`, `LobbyExpire`, `AnswerGuest` | the lobby |
| `Restart` | the process starts again: `startCallSweeper` ends the open rows |

Abstracted: `STALE_MS` and the 15 seconds are nondeterministic (`GoQuiet`, `GrowOld`); of the
database's failures only those in the creation of a call; the sweeper's and `leaveCall`'s failure to
update a row, the ring (who declined it), alerts of missed calls, signalling messages, captions and hands are left out. When the row
has been ended the object is emptied in the model, as nobody reads it again.

### CallNotes

One call. `row` is the `ChatCall` row (`noteTaker`, `endedAt`, `notesStatus`, whether
`notesStartedAt` is recent, `notes`), `live`, `taker` and `switching` the call in memory and the switch,
`timers` the `scheduleNotes` timers, `runs` the writers, `link` the request that links a task to an action
item, `cards` the cards posted. `overlapped` is a history variable: it records whether a writer ever
worked beside another writer or beside a link request.

| actions | code |
|---|---|
| `SwitchOn`, `SwitchWrite`, `SwitchOff`, `Speak`, `EndCall`, `EndRow` | `setNoteTaker`, a stored line of speech, `endCall` and its `onEnded` callback |
| `TimerFires`, `RetryAsk`, `RetryRead`, `Recover` | what starts a writer |
| `Claim`, `ReadCall`, `SaveEmpty`, `SaveReady`, `SaveNone`, `LookCard`, `PostCard`, `Throw` | `generateNotes`, `writeNotesFor` |
| `LinkRead`, `LinkWrite` | `linkActionItem` |
| `TenMinutes`, `Restart` | a claim grows old; the process starts again |

Abstracted: of the notes only the action items and which of them carry a task's code. The timer fires
when a row update on its way has returned (it waits ten seconds). Recovery looks at this call (in the code:
the last two days, twenty rows). One link request at a time.

`CallRoom` and `CallNotes` describe the same row from two sides and are not composed yet.

### CallRecording

`client` is the browser: the piece it is at, how often it has tried, the request it waits for. `reqs` are
the requests, `rec` the `CallRecording` row, `file` the sequence of pieces in the file, `posted` the messages.
A request the browser gave up on goes on at the server. `raced` is history: two requests for a piece were past
their check at once.

| actions | code |
|---|---|
| `Send` (with `Went`, `Failed`) | `CallRecorder.flush`, `upload`, `stop`: one piece after the other, four tries each, then the finish, once |
| `CheckPiece`, `AppendPiece`, `CountPiece` | `recordingChunk`: the row is read, the file appended, the row counted |
| `CheckFinish`, `PostVideo`, `MarkReady` | `finishRecording` |
| `ConnectionLost`, `Crash` | the browser gives up on a request, lost or still at work; a restart |

Abstracted: a piece is its number; sizes and durations are counts. The message and its file are one step.

### LeadIntake

One business. `box` is the mailbox, `cursor` the row's `inboxLastUid`, `reader` the round in progress, `jobs` the
calls of `receiveLead` (the reader's and one for each form post), `leads` the table with what came into each lead,
`since` is history: the newest mail when the first round after the inbox was turned on found any, so what came up to it is
old mail. A round that finds the mailbox empty saves no cursor, and the next one is a first round again.

| actions | code |
|---|---|
| `OpenRound`, `FirstRound`, `NothingNew`, `Fetch`, `NextMail`, `SaveCursor`, `RoundFails` | `runLeadInboxTick`, `pollInbox` |
| `PostForm` (`TakePost`, `NotTaken`) | `leadIn`: a bot that filled the hidden field is told "ok" and nothing is kept, a post that gives no way to reply is refused (422), any other goes to `receiveLead` and is told "ok" after it |
| `TurnOffAndOn`, `LeadCloses` | `saveInbox`, `closeLead` |
| `LookSeen`, `LookTwin`, `CountRepeat`, `AddEvent`, `Create` | `receiveLead`, one query each |
| `MailArrives`, `Restart` | outside |

Abstracted: who is the same person is `From` (in the code: e-mail address or telephone number), and a mail without
either, or without a source, counts as automatic. Which posts have the hidden field filled (`Trapped`) or neither address nor
number (`Empty`) is a constant. Assignment, notification and scoring write other columns. Left out of `leadIn`: the 404 for
a form key that is unknown or whose business is inactive, which reads and answers only, and the other
callers of `receiveLead`, none of which merges repeats: the import (`leadsController.ts:82`), the test post of a manager
(`leadsController.ts:295`) and a lead taken on the telephone (`leadsWorkController.ts:346`).

### LeadFlow

One lead. A request is a *plan*: the list of writes, task closings and task makings it has still to do, one `await` each,
built from the lead it read. `Begin` reads and checks; `WriteLead`, `CloseTasks`, `LookForTask` and `CreateTask`
do the next step of a plan, mixed with those of the other request. The operators named after handlers
(`FlagForHead`, `Decide`, `AddCall`, ...) give the plans of `leadsWorkController.ts`. `CompleteTask` is a tick by hand, `TimePasses`
the clock, `Crash` a restart.

The job of `sla.ts` has three steps, an `await` each: `ReadLate` lists the late lead, `Claim` sets its stamp where it is still
empty or goes on to the next lead, and `SendAlert` (`tellAboutLead`) stores the alert or catches the failure. `claimed` is what
a run has between the last two. `sent` and `lost` are history: the alerts sent under the stamp in force, and those that
never will be, because a restart or a failed write came after the claim. A request that clears the stamp (`NewStamps`) begins anew.

Abstracted: of the tasks the number of open ones of a kind; of the status those the flow tells apart; notes, mails and the
history of the lead are left out. The business has a head: without one `flagForHead` makes no review task
(`leadsWorkController.ts:674`). The initial state, the next-state relation and the specification are called `FlowInit`,
`FlowNext` and `FlowSpec` here, so that `LeadProofs` can extend both lead modules.

### LeadDialer

One lead and its owner. Plans as in `LeadFlow`; the sync is a job of its own (`Cron`) and the end of most requests.

| actions | code |
|---|---|
| `ReceiveCall`, `LogCall`, `ReadForCall`, `ApplyToLead`, `LinkCall` | `receiveCall`, `applyToLead`, `linkCall` |
| `AddTouch`, `LeadAction`, `ChangeStatus`, `UpdateTask` | the handlers of the same names, with `WriteLead` and `MoveTask` |
| `FindTasks`, `MarkTasks`, `ClearLater` | `completeOnTouch` |
| `BeginSync`, `SyncReadsTasks`, `CommitSync` | `syncAutoTasks`: the lock, two reads, one commit |
| `TimePasses`, `Crash` | the rule of quiet days runs out, a snooze ends; a restart undoes an open transaction |

Abstracted: statuses are ranks, due times are "within a day" or later; of the outcomes of a call those that differ in what they
write are kept (a busy line or voicemail is `NO_ANSWER`, an interested customer is a rank). A commit carries what it has to
write: the task to make, or the time of the kept call back when it is due at another time. A row of a task is used again when
nothing refers to it any more. The lead is its owner's and not a duplicate; the owner and the telephone number do not change
(an import with another number ends `wrongNumber`, `dialerController.ts:316`).

### Billing

One company. `paying` is the provider's own view, `sent` its messages in order, `due` those it has no 200 for, `events` the
`BillingEvent` rows, `sub` and `company` the rows, `jobs` the webhook requests, `payer` a change of plan. `overlapped` is
history: one request wrote what another had read, or what another copy had taken already; `again` are the messages
of which a copy met the row its first copy had just made. `strayed` is history too: the plan last written to the subscription
is that of a cancellation that is not about the plan the company has (the code looks at no order, and a cancellation leaves the company's plan as it is).

| actions | code |
|---|---|
| `Deliver`, `Create`, `Read`, `WriteSub`, `WriteCompany`, `WriteInvoice`, `Mark`, `Fail` | `webhook`, `applyMessage`, `applySubscription`, `applyInvoice`: one write each, and the queries before the first write (company and subscription) in one `Read` |
| `AskChange`, `ChangeSub`, `ChangeCompany` | `change` of `billingController.ts` |
| `SetStatus` | `updateCompany` of the owner's console; of its patch only the status (trial, active or suspended) |
| `Provider`, `Crash`, `Tick` | what happens at the provider, a restart, time |

Abstracted: one message to a webhook call; a payment that fails is `PAST_DUE` at the provider; a message for another
company or of a type that is ignored is left out, and so are a plan the owner sets by hand, which overrides what is paid
for, and `cancel` and `resume`, which mark the end of the period. `companyFor` and the look-up of the subscription are one step
(`billing.ts:94-103`; what falls between them is not looked at). Every message names the company and a plan that is sold, so
the look-up by the provider's id (line 95), the returns for no company or the internal plan (96, 102) and the plan that
takes the place of a missing one (104) are left out. The row of an invoice, which nothing here reads, is part of `WriteInvoice`.

## 5. Runs

| run | instance | shows |
|---|---|---|
| `clock` | 1 request, `Latency` 1, 2 rows, 2 breaks, clock to 3, a day of 3 ticks, shift 2, overtime 1, two zones, a break is cut off after 2 and a BRB at once, 1 disruption | `TypeOK`, `BreaksRunForward`, `OneRunningBreak`, `BreaksHaveSession`, `CheckInIsKept` |
| `clock_live` | 2 rows, 1 break, clock to 3, a day of 3 ticks, shift 2, two zones, `Latency` 1, 1 disruption, fair | `SessionsEnd`, `BreaksEnd`, and the refinement `KeepsPromise` |
| `clock_overtime` | 2 rows, 2 breaks, clock to 4, 1 disruption | **violated:** `OvertimeKeepsDayOpen` |
| `shift_day` | a day of 10 minutes, a week of 2 days, one of them with its own times, grace 1, 3 days | `ShiftIsOneDay`, `NearestShift`, `LateByTheClock`, `CorrectionKeepsMoment` |
| `calls` | 2 people, 2 calls, limit 2, 1 restart, people interchangeable | `TypeOK`, `OneCall`, `RowsFollowLive`, `EveryPairConnected` |
| `calls_live` | 2 members of a group who start calls, one of whom goes into them, 1 guest, 2 calls, 1 restart, fair | `GuestsWereAdmitted`, `AbandonedCallsEnd`, `StartIsAnswered` |
| `notes` | 2 writers, 1 task, 1 more switch, 1 restart, fair | `PostedOnce`, `SuccessKeepsLinks`, `NotesAreStarted`, `PendingEnds` |
| `recording` | 3 pieces, 4 tries, 3 requests at once, 4 faults, fair | `CountedIsInFile`, `SavedIsPosted`, `StopEnds` |
| `leads_in` | 4 mails of one person, the first one old and the third automatic, a form of hers, a bot's and one without address or number, rounds of 2, 2 faults, the inbox turned off and on, fair | `NoMailPassed`, `AnsweredIsKept`, `MailBecomesLead` |
| `leads_flow` | 2 requests at once, 2 managers, 1 rep, 2 runs of the alert job; 3 requests, restarts and failed alerts in all; the alert job fair | `FlaggedHasReview`, `WaitingIsAlertedOnce` |
| `dialer` | 2 requests at once beside the sync, 1 call, 3 task rows, 1 restart, fair | `OneOpenTask`, `CallCountsOnce`, `BlockedLeavesDialing`, `CallBackHasTask` |
| `billing` | 2 messages, 2 requests at once, 2 plans, 1 fault, 1 wish, 2 moments, fair | `AnsweredWasApplied`, `PlanFollowsPayment`, `SuspendedStays`, `GraceIsKept`, `AllIsAnswered` |

**Why these bounds are enough to see the interesting cases.** The clock runs past the end of a calendar
day and past the end of the shift, so a session can be closed by the job, be opened again by overtime, be closed
again and be followed by a second day, and the date can change during a request. Two breaks and an OFF entry compete for the same ids. With two zones
one change of shift moves a day or merges it, and in `clock_live` the vacated date can be checked in again. In `calls` a first call can end, its row still being written,
while a second one starts. Two people are enough for two starts or two joins to overlap. In the guest run two members press "call"
at once, so that one waits for the lock while the other creates, fails to create or finds the call there, and asks again; only one
of the two (`Joiners`) also goes into calls, admits the guest and leaves, which keeps the run small. In `notes` two writers can
overlap or follow each other, and a restart can fall between any two of their steps. `shift_day` has every
pair of start and end, so every parity of the gap, both kinds of window, and the window of 24 hours. In `recording` four
faults are enough for a piece to use up its four tries, and three requests for two left-over copies beside the current one. In
`leads_in` a round reads two mails, so a round that fails can leave one taken and one not, and three need two rounds;
one person is enough for every repeat. In `leads_flow` three requests let two cross after one has prepared
the lead; two ticks are a slow job and the next; and a restart or a failed alert can follow a claim after a lead was taken back. In `dialer` a call is sent twice, or crosses one other request, with the sync between any two
steps. In `billing` two messages are a failed payment and its subscription, in both orders, each delivered twice or cut off. Bounds
that are part of a module are `RoomFor` (a handler that creates a break starts only when ids are left), `FreeRow` and `FreeEntry`
(the step that creates a row or an entry needs a free id), `Unused`
(call ids), `Joiners` (staff who go into calls), `MaxTime`, `MaxDay`, `MaxDisruptions`, `MaxCrashes`, `MaxSwitches`, `MaxRestarts`, `MaxPieces`, `Slots`, `MaxFaults`, `MaxMail`, `MaxTurns`, `MaxRequests`,
`TaskIds` (a sync waits when no row is left), `MaxMessages`, `MaxJobs`, `MaxWishes`. `recording` checks for deadlock: only a finished recording
stops. The other runs do not, because those systems stop at their bounds.

**What the passing runs do not claim.** `clock` has one request of the employee in flight, which is
what the widget sends. With two, `OneRunningBreak` does not hold (a double click passes the check twice). `OneRunningBreak` is about
beginning a break: the merge of two days that each have a running break, after a change of time zone, leaves two running on
one day (`attendanceController.ts:340`). `CheckInIsKept` leaves out a check-in during which the date changes (`Straddles`).
`PostedOnce` and the link properties are stated for writers that did not overlap; two
that do can post two cards, and a link request that overlaps a writer loses one of the two updates.
`KeepsPromise` says of a fold which states may come of it, not which moments: the end of the folded session can be the wrong one
(`attendanceController.ts:344`). `PendingEnds` allows for a restart: recovery runs once, 30 seconds after the start, and skips notes
claimed less than ten minutes before. `EveryPairConnected` leaves out pairs that joined at the same moment: the list of others
is made before an `await` and the newcomer added after it, so neither is told of the other. `CountedIsInFile` and
`SavedIsPosted` leave out two copies of a piece past the check at once; a recording without any piece is told to be saved (the
browser does not look at `ok: false`). `AnsweredWasApplied` leaves out a copy that met the row its first copy had just
made, and the other properties of `Billing` leave out requests that overlap, since each writes what it computed from an
earlier read; `PlanFollowsPayment` leaves out `strayed`, too. `FlaggedHasReview` leaves out requests that a restart cut off.
`AnsweredIsKept` leaves out the bot, which is thanked and of which nothing is kept (`leadsController.ts:338`).
`WaitingIsAlertedOnce` leaves out an alert that a restart or a failed write lost after its stamp was claimed (`sla.ts:26-29`): the stamp
stays, and nobody is alerted.

### Fairness

- *Attendance.* Weak fairness of the clock, of each job (`AutoCheckout`, `BreakCutoff` are minute
  cron entries) and of each handler (its queries return). No fairness of people (`Arrive`), shift changes or
  restarts.
- *Calls.* Weak fairness of the sweeper, of the row update in `endCall`, of the time that makes a call old, and of
  each step of a start. Strong fairness of `StartLock`: a release of the lock wakes all waiters in order of
  arrival, so a waiter is passed over only by those before it. `StartIsAnswered` needs it: with weak fairness TLC finds the other
member pressing "call" again and again while one waits. None of joining, polling or leaving.
- *Notes.* Weak fairness of row updates, timers, recovery, the answer to "Try again", and of each writer:
  every wait inside it has a limit in the code. None of people, of `Throw` or of a restart.
- *Recordings.* Weak fairness of the browser's sending and of each request on the server. None of lost connections.
- *Leads.* Weak fairness of the reader (a round every two minutes) and of each call of `receiveLead`; in `LeadFlow` weak
  fairness of the alert jobs together (a run every five minutes), and none of the requests: the alert must come also when they
  stand still. None of people, mails or failures.
- *Dialer.* Weak fairness of the requests' steps together; strong fairness of the sync of the minute job, because the advisory
  lock it waits for is given in the order it is asked for, and other syncs come and go.
- *Billing.* Weak fairness of delivery (the provider sends again until it gets its 200) and of each request.

### Disagreements found

`clock_overtime`: `lib/autoCheckout.ts:15` says a person is checked out "unless they pressed
"Start overtime"". The job closes a day from the list it read at the start of its tick, so overtime
started between the read and the write is closed as an ordinary day, and cannot be started again.

What else the models showed the code does not keep stands under `hazards` in `PROJECT.json`, at its line, with the
condition under which the nearby property does hold: two overlapping writers of notes or makers of tasks, a rewrite of notes that
fails over linked ones (`notes.ts:256`), joins at the same moment (`chatController.ts:846`), the running session that is
lost in a merge of fragments (`attendanceController.ts:344`), two running breaks after one (`:340`), an older billing message
that arrives late (`billing.ts:108`), a mail that never parses (`inbox.ts:150`), a call that comes again before its lead was updated
(`dialer/calls.ts:313`), an alert lost between the claim of its stamp and the sending (`leads/sla.ts:26`).

Four of these came out of proof attempts, in instances larger than those the runs had then: a second check-in pressed while
the date changes takes the first one's place (`attendanceController.ts:507` and `:531`: the date is of the start, the look-up is
of the next moment); two days folded into one keep both their running breaks; a sweep that has listed a day writes its check-out on the row even when
a check-in has folded that day into another meanwhile (`autoCheckout.ts:95`), and the next check-in on the vacated date comes up closed, which
is why `CheckInAgain` may go to `OUT`; and three messages, the cancellation of an older
subscription among them, leave an active company on another plan than it pays for (`billing.ts:107`).

## 6. Proofs

Each theorem is about every value of the constants allowed by the module's one named assumption
(`ClockAssumption`, `ShiftDayAssumption`, `CallAssumption`, `NotesAssumption`, `RecordingAssumption`, `IntakeAssumption`,
`FlowAssumption`, `DialerAssumption`, `BillingAssumption`): the numbers are natural, the sets of
people are disjoint, the day has a minute, a form is posted by somebody, the first plan is one, a business
has a manager. The theorems hold for
any number of rows, people, guests, calls, breaks, writers, tasks, pieces, mails, forms, messages, alert jobs and requests.

| module | theorems | argument |
|---|---|---|
| `AttendanceClockProofs` | `TypeCorrect`, `BreaksAlwaysForward`, `BreaksAlwaysHaveSession`, `AlwaysOneRunningBreak`, `CheckInAlwaysKept`, `PromiseAlwaysKept`, `NothingVacatedInOneZone` | below |
| `ShiftDayProofs` | `TypeCorrect`, `ShiftIsAlwaysOneDay`, `AlwaysNearestShift`, `AlwaysLateByTheClock`, `AlwaysCorrectionKeepsMoment` | the state is typed, the rest is arithmetic on one state: `SplitInGap` puts the split inside the off-duty gap of the base pair, `Fits` carries it over to the weekdays, `InProgressIsToday` concludes |
| `CallRoomProofs` | `TypeCorrect`, `OneCallAlways`, `RowsAlwaysFollow`, `GuestsAlwaysAdmitted`, `EveryPairAlwaysConnected` | below |
| `CallNotesProofs` | `TypeCorrect`, `AlwaysPostedOnce`, `AlwaysSuccessKeepsLinks` | below |
| `CallRecordingProofs` | `TypeCorrect`, `CountedIsAlwaysInFile`, `SavedIsAlwaysPosted` | below |
| `LeadProofs` | `TypeCorrect`, `NoMailIsEverPassed`, `AnsweredIsAlwaysKept` of `LeadIntake`; `FlowTypeCorrect`, `FlaggedAlwaysHasReview`, `AlwaysOneAlertEach` of `LeadFlow` | below |
| `LeadDialerProofs` | `TypeCorrect`, `CallAlwaysCountsOnce`, `AlwaysOneOpenTask` | below |
| `BillingProofs` | `TypeCorrect`, `AnsweredWasAlwaysApplied`, `PlanAlwaysFollowsPayment`, `SuspendedAlwaysStays`, `GraceIsAlwaysKept` | below |

**Breaks.** `BreaksRunForward` alone is not inductive: a write takes its moment from what a
handler or a job read before. `IInv` adds that nothing recorded lies in the future (`PastOnly`), that a handler's
`at` and the moments and rows it has read are past and still fit what it is going to end (`Carries`), and that every
entry on the cut-off list is due after that entry began (`CutForward`). `BreaksAlwaysForward` assumes `OneRequest`: with
two requests in flight the check-out of one, whose moment was taken earlier, can end a break the other has just
begun, so the theorem says what the widget's one request at a time gives. `IInv` was checked as an invariant with TLC before it was
proved.

**Days and breaks.** The next three theorems on the clock have one invariant, `DayInv`, under `OneRequest` too. It adds to
`IInv`: dates are unique and only a dated row has a check-in (`OneDate`), every break is on a day with one
(`BreaksHaveSession`), and `Finds`, which is the point: what the request has found is still so when it writes, be it the running
break, the session, the row of the wrong date or that nothing is there. It holds because the jobs are `Mild`: between the steps of a
request they end breaks and close days, but move no day, no check-in and no break. From what was found, `OneRunningBreak` and
`CheckInIsKept` are each a statement about one write; `LaterDay` (dates only grow) gives the case in which the date has changed.

**The promise.** `PromiseAlwaysKept` is the refinement: each step of the clock is one step of `DayPromise` or none, also when the shift
moves to another time zone. It assumes `OneRequest`. `DayStep` is for the steps that touch one day (`OnlyDay`) and move it as `KeepsDay`
says; `MergePromise` for the one that touches two, `CheckInMerge`, which is `Fold`: `MergeBreaks` says that the running breaks of both days are
those of the folded one, and so whether it is on break. `PromiseInv` adds to `DayInv` what a request has found of its day and no job
undoes (`FindsDay`: a check-out and the overtime flag are never taken back by a job, so the check-outs a fold has read are still
there), and that a row without a date has no overtime (`NewDays`). `BreaksHaveSession` gives that a new or vacated day comes up without a break.
`PromiseInv` was looked at with TLC first. A break started while the sweep closes its day runs on behind `OUT`:
this is why `Reopen` may go to `ON_BREAK`. `NothingVacatedInOneZone` says when the promise is the plain one, without `Fold` and
`CheckInAgain`: while the time zone is not changed (`ShiftStays`). Then a row has the date of its check-in (`DatesFit`), and the check-in
found on today's row is no later than the request, hence today's (`CheckInReadFits`), so that no session ever stands on a wrong date.

**One call.** `OneCall` depends on the lock: `LockInv` says that only the holder of the lock is
between the look for a running call and the registration (`OnlyHolder`), that no call is live while one is being
created (`NoneWhileCreating`), and that the row of the call to be registered, or being ended, is open (`RegisterOpen`,
`EndingOpen`). From it `RowsFollowLive` follows too. *Guests:* `GuestInv` says that a guest never has a
request of the kind that can put staff into the call, and that the list of admitted guests agrees
with the lobby. *Connections:* `MeetInv` speaks of any two people in a live call. Until both joins are answered, one of them lists
the other (`AllPaired`): whoever came in after a newcomer made its list was listing at the same moment, and then the
later of the two has seen the other (`EnterKnows`, `EnterTogether`). It needs that nobody in a call has a request for another call
under way (`OneRoom`) and that a call being created is empty (`FreshEmpty`).

**Notes.** `Alone` says that, as long as no writer has overlapped another or a link, at most one
writer is at work, the card is posted only by one that saw none, and the notes a writer read are still those of the row
until it saves. `TypeInv` strengthens `TypeOK` with "codes only on items" for the link request and the row.

**Recordings.** `UploadInv` ties the browser to the server: what the browser has gone on from is counted, and a request past its
check is for no later piece. `FileInv` says what the file holds: unless two copies of a piece were at work at once, one request
at most is past its check, its piece is the next one, and the file ends with it or with the one before. `PostInv` is about the finish: it
is asked for once, when all pieces have been sent, and posts before it marks. `StepTakes` is the lemma the three share: who takes
a piece in a step.

**Leads coming in.** `LeadsGrow`: whatever is on a lead stays on one. `KeptInv` is `RoundInv`, how far the round has come and what
the call in progress carries, and `ReadSoFar`: every mail the round has taken, and every mail up to the cursor, is on a lead, is
automatic, or is old. A round that fails or is cut off gives up its place, never the cursor. `OnlyWanted` says that a post of a bot or
without a way to reply never has a call of `receiveLead`, so that nothing of it is on a lead.

**Leads at work.** `FlaggedHasReview` speaks of the moments at which no request is under way; between two awaits it is false. What
holds always is `ReviewInv`: a lead that waits for the head has the review task open, or some request still has that task to make
or the write that ends the waiting. The reason is the order of the awaits in every handler (`Ordered`): the write
that flags a lead is followed by the making of the task, and the closing of the task is followed by the write that takes the flag
back. `HandlerPlans` shows this of each handler, one by one, and `PlanTail` and `PlanPut` that a plan half done is still in
order. It is the order that the mutant of the property turns round (`DecideWriteFirst`). A request cut off takes what
it had to do with it, so the theorem cannot do without `crashed`. *Alerts:* `AlertInv`: while a stamp is set one
job at most has its alert to send, and then none has been sent; while it is not set there is nothing to send and nothing sent.
The claim asks and sets in one statement, so a second job finds it set; a job whose stamp was cleared after its claim does not
count any more (`stale`). `ReviewInv`, `Ordered` and `AlertInv` were checked with TLC on the
instance of `leads_flow` before they were proved.

**Dialer.** A plan is reasoned about by its head: what follows it never puts a call on the lead, ticks a task or ends a sync
(`Later`, `GoodPlan`), so a step changes at most the heads it says it does (`Puts`). `CallInv`: until a call has been matched by hand, one job
at most is about to put it on the lead, and only while it is not there; it holds because the row under the dialer's
call id is made once. `TaskInv` has four parts. `LockInv`: who holds the lock is the one job inside a sync. `SyncInv`: it
wants one task at most and keeps one at most. `RealInv`: what a job has in hand to mark or move is a task, not an unused row, and while nothing has been
opened again marks are ticks. `OpenInv`: the sync about to commit has every open task in hand, since everything beside it, locked out or not, only
closes tasks (`NothingOpens`); so it leaves open the one it keeps or the one it makes (`CommitLeaves`).

**Billing.** `AnswerInv`: a request about to mark its message has written it in full, and a message without a 200 is not
marked. `AloneInv` says what it means that no two requests overlapped: at most one request is
between a read and the last write that depends on it (`OneReader`), of each message one copy is at work (`OneCopy`), and
what was read is still so (`UpToDate`). `PlanInv` says that, unless the company has the plan of its subscription, a message that will bring
it is still unanswered (`PlanIsComing`). `SuspendedStays` and `GraceIsKept` are statements about steps that follow from `AloneInv`.

**Only model-checked:** everything about liveness and fairness (`SessionsEnd`, `BreaksEnd`,
`AbandonedCallsEnd`, `StartIsAnswered`, `NotesAreStarted`, `PendingEnds`, `StopEnds`, `MailBecomesLead`, `WaitingIsAlertedOnce`,
`BlockedLeavesDialing`, `CallBackHasTask`, `AllIsAnswered`), since the prover handles neither `ENABLED` nor fairness. Of
`WaitingIsAlertedOnce` the half that is safety is the theorem `AlwaysOneAlertEach`. Every invariant the passing runs check is
a theorem. No module has a recursive operator.

## 7. Not modelled

The components of section 2 that have no module: those of the plan are still to come; for department apps,
analytics, connectors, notifications and health there is little or no state that spans steps. Of the
modelled components, what is missing is named in section 4. Beyond that: failures of the database in
general, daylight saving, the second process that would exist if the server were ever clustered (the lock and the call map
are in one process's memory, and the deployment runs one).

## 8. How to run

    tlc -workers 2 -config AttendanceClock.cfg AttendanceClockMC
    tlapm AttendanceClockProofs.tla

Each run's module and configuration are in `PROJECT.json`. The largest runs (`clock`, `leads_in`, `leads_flow`)
take a few minutes each; the others take less. The proofs take between a few seconds and a few minutes per module.
