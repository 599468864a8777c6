------------------------------- MODULE CallNotes -------------------------------
(***************************************************************************)
(* The AI notes of one call: the note taker switch in the call room, the   *)
(* background writers of lib/pm/notes.ts and what they share, the ChatCall *)
(* row and the card in the chat.  A writer is started by the timer that    *)
(* follows "Stop notes" or the end of the call, by "Try again", or by the  *)
(* recovery half a minute after a restart; nothing but the row's           *)
(* notesStatus keeps two of them apart.                                    *)
(*                                                                         *)
(* Of the notes only the action items matter here: items, and made, those  *)
(* that carry the code of a task made from them.  Null notes and an        *)
(* {error} are both NoNotes.                                               *)
(***************************************************************************)
EXTENDS Integers, FiniteSets

CONSTANTS
    Runs,         \* writers that can be at work at once (reused when done)
    Tasks,        \* action items the AI may find
    MaxSwitches,  \* bound: times the note taker is switched on
    MaxRestarts   \* bound: restarts of the server

ASSUME NotesAssumption == MaxSwitches \in Nat /\ MaxRestarts \in Nat

VARIABLES
    live,      \* the call is in memory
    taker,     \* its noteTaker flag there
    switching, \* setNoteTaker has set the flag and its row update is on the way
    ending,    \* endCall has removed the call and its row update is on the way
    row,       \* the ChatCall row
    spoken,    \* the transcript has a line
    timers,    \* scheduleNotes timers that have not fired
    recovery,  \* the server has just started: recoverNotes is due
    runs,      \* the writers
    link,      \* the linkActionItem request in flight
    cards,     \* chat messages with this notesCallId
    overlapped,\* history: a writer has ever run beside another or beside a link
    switches, restarts

vars == <<live, taker, switching, ending, row, spoken, timers, recovery, runs,
          link, cards, overlapped, switches, restarts>>
call == <<live, taker, switching, ending, spoken, switches>>

Statuses == {"null", "pending", "ready", "failed", "empty", "no-ai"}
Notes == [items : SUBSET Tasks, made : SUBSET Tasks]
NoNotes == [items |-> {}, made |-> {}]
Row == [noteTaker : BOOLEAN, ended : BOOLEAN, status : Statuses,
        recent : BOOLEAN, \* pending for less than ten minutes (notesStartedAt)
        notes : Notes]
WriterPCs == {"wait", "empty", "save", "look", "post"}
Run == [pc : {"idle", "retry", "claim"} \cup WriterPCs, force : BOOLEAN, old : Notes]
NoRun == [pc |-> "idle", force |-> FALSE, old |-> NoNotes]

Writers == {r \in Runs : runs[r].pc \in WriterPCs}
\* The row's notes are written.
Save(status, notes) ==
    row' = [row EXCEPT !.status = status, !.recent = FALSE, !.notes = notes]

\* A writer moves on (and forgets what only the step before needed).
Goto(r, pc) == runs' = [runs EXCEPT ![r] = [NoRun EXCEPT !.pc = pc]]
Done(r) == runs' = [runs EXCEPT ![r] = NoRun]
Start(r, force) ==
    /\ runs[r].pc = "idle"
    /\ runs' = [runs EXCEPT ![r].pc = "claim", ![r].force = force]

Init ==
    /\ live = TRUE /\ taker \in BOOLEAN \* autoNotes
    /\ switching = FALSE /\ ending = FALSE /\ spoken = FALSE
    /\ row = [noteTaker |-> taker, ended |-> FALSE, status |-> "null",
              recent |-> FALSE, notes |-> NoNotes]
    /\ timers = 0 /\ recovery = FALSE
    /\ runs = [r \in Runs |-> NoRun]
    /\ link = [item |-> {}, notes |-> NoNotes]
    /\ cards = 0 /\ overlapped = FALSE
    /\ switches = 0 /\ restarts = 0

(***************************************************************************)
(* The switch and the end of the call.                                     *)
(***************************************************************************)
SwitchOn ==
    /\ live /\ ~taker /\ ~switching
    /\ switches < MaxSwitches /\ switches' = switches + 1
    /\ taker' = TRUE /\ switching' = TRUE
    /\ UNCHANGED <<live, ending, row, spoken, timers, recovery, runs, link, cards,
                   overlapped, restarts>>

SwitchWrite ==
    /\ switching /\ switching' = FALSE
    /\ row' = [row EXCEPT !.noteTaker = TRUE, !.status = "null", !.recent = FALSE]
    /\ UNCHANGED <<live, taker, ending, spoken, timers, recovery, runs, link, cards,
                   overlapped, switches, restarts>>

SwitchOff ==
    /\ live /\ taker
    /\ taker' = FALSE /\ timers' = timers + 1
    /\ UNCHANGED <<live, switching, ending, row, spoken, recovery, runs, link, cards,
                   overlapped, switches, restarts>>

\* A line of speech is stored while the note taker is on.
Speak ==
    /\ live /\ taker /\ ~spoken
    /\ spoken' = TRUE
    /\ UNCHANGED <<live, taker, switching, ending, row, timers, recovery, runs, link,
                   cards, overlapped, switches, restarts>>

EndCall ==
    /\ live
    /\ live' = FALSE /\ ending' = TRUE
    /\ UNCHANGED <<taker, switching, row, spoken, timers, recovery, runs, link, cards,
                   overlapped, switches, restarts>>

\* Faulty variant: the end of a call schedules nothing.
EndRowOnly ==
    /\ ending /\ ending' = FALSE
    /\ row' = [row EXCEPT !.ended = TRUE]
    /\ UNCHANGED <<live, taker, switching, spoken, timers, recovery, runs, link, cards,
                   overlapped, switches, restarts>>

\* The row is written, then the setOnCallEnded callback runs.
EndRow ==
    /\ ending /\ ending' = FALSE
    /\ row' = [row EXCEPT !.ended = TRUE]
    /\ timers' = IF taker THEN timers + 1 ELSE timers
    /\ UNCHANGED <<live, taker, switching, spoken, recovery, runs, link, cards,
                   overlapped, switches, restarts>>

(***************************************************************************)
(* What starts a writer.                                                   *)
(***************************************************************************)
\* The timer, ten seconds later: longer than a row update takes (bound).
TimerFires(r) ==
    /\ timers > 0 /\ ~switching
    /\ timers' = timers - 1
    /\ IF live /\ taker THEN UNCHANGED runs ELSE Start(r, FALSE)
    /\ UNCHANGED <<call, row, recovery, link, cards, overlapped, restarts>>

\* "Try again": refused while the note taker is on ...
RetryAsk(r) ==
    /\ runs[r].pc = "idle"
    /\ ~(live /\ taker)
    /\ Goto(r, "retry")
    /\ UNCHANGED <<call, row, timers, recovery, link, cards, overlapped, restarts>>

\* ... and when the row says that notes are being written and not stuck.
RetryRead(r) ==
    /\ runs[r].pc = "retry"
    /\ IF row.status = "pending" /\ row.recent THEN Done(r)
       ELSE runs' = [runs EXCEPT ![r].pc = "claim", ![r].force = TRUE]
    /\ UNCHANGED <<call, row, timers, recovery, link, cards, overlapped, restarts>>

\* recoverNotes, half a minute after a start.
Recover(r) ==
    /\ recovery /\ recovery' = FALSE
    /\ IF /\ row.noteTaker /\ row.ended
          /\ row.status = "null" \/ (row.status = "pending" /\ ~row.recent)
       THEN Start(r, TRUE) ELSE UNCHANGED runs
    /\ UNCHANGED <<call, row, timers, link, cards, overlapped, restarts>>

(***************************************************************************)
(* generateNotes and writeNotesFor.                                        *)
(***************************************************************************)
\* One conditional update claims the notes.
Claim(r) ==
    /\ runs[r].pc = "claim"
    /\ IF runs[r].force \/ row.status = "null"
       THEN /\ row' = [row EXCEPT !.status = "pending", !.recent = TRUE]
            /\ Goto(r, "wait")
            /\ overlapped' = (overlapped \/ Writers # {} \/ link.item # {})
       ELSE Done(r) /\ UNCHANGED <<row, overlapped>>
    /\ UNCHANGED <<call, timers, recovery, link, cards, restarts>>

\* The pieces of speech have arrived; the call is read with its notes so far.
ReadCall(r) ==
    /\ runs[r].pc = "wait"
    /\ runs' = [runs EXCEPT ![r].pc = IF spoken THEN "save" ELSE "empty",
                            ![r].old = row.notes]
    /\ UNCHANGED <<call, row, timers, recovery, link, cards, overlapped, restarts>>

SaveEmpty(r) ==
    /\ runs[r].pc = "empty"
    /\ Save("empty", NoNotes)
    /\ Done(r)
    /\ UNCHANGED <<call, timers, recovery, link, cards, overlapped, restarts>>

\* Faulty variant: items that are no longer found take their tasks with them.
SaveReadyFresh(r) ==
    /\ runs[r].pc = "save"
    /\ \E items \in SUBSET Tasks :
         Save("ready", [items |-> items, made |-> items \cap runs[r].old.made])
    /\ Goto(r, "look")
    /\ UNCHANGED <<call, timers, recovery, link, cards, overlapped, restarts>>

\* The AI answers: its items, with the tasks already made from the old notes.
SaveReady(r) ==
    /\ runs[r].pc = "save"
    /\ \E items \in SUBSET Tasks :
         LET made == runs[r].old.made
         IN  Save("ready", [items |-> items \cup made, made |-> made])
    /\ Goto(r, "look")
    /\ UNCHANGED <<call, timers, recovery, link, cards, overlapped, restarts>>

\* The AI is not set up (notes null) or fails (notes {error}).
SaveNone(r) ==
    /\ runs[r].pc = "save"
    /\ \E status \in {"no-ai", "failed"} : Save(status, NoNotes)
    /\ Goto(r, "look")
    /\ UNCHANGED <<call, timers, recovery, link, cards, overlapped, restarts>>

\* Faulty variant: the card is posted again by every writer.
LookCardAgain(r) ==
    /\ runs[r].pc = "look"
    /\ Goto(r, "post")
    /\ UNCHANGED <<call, row, timers, recovery, link, cards, overlapped, restarts>>

\* Is the card in the chat already?
LookCard(r) ==
    /\ runs[r].pc = "look"
    /\ IF cards > 0 THEN Done(r) ELSE Goto(r, "post")
    /\ UNCHANGED <<call, row, timers, recovery, link, cards, overlapped, restarts>>

PostCard(r) ==
    /\ runs[r].pc = "post"
    /\ cards' = cards + 1
    /\ Done(r)
    /\ UNCHANGED <<call, row, timers, recovery, link, overlapped, restarts>>

\* Faulty variant: an error inside the writer is only logged.
ThrowLogged(r) ==
    /\ r \in Writers
    /\ Done(r)
    /\ UNCHANGED <<call, row, timers, recovery, link, cards, overlapped, restarts>>

\* Something inside the writer throws: notes that still say pending have failed.
Throw(r) ==
    /\ r \in Writers
    /\ IF row.status = "pending" THEN Save("failed", NoNotes) ELSE UNCHANGED row
    /\ Done(r)
    /\ UNCHANGED <<call, timers, recovery, link, cards, overlapped, restarts>>

(***************************************************************************)
(* linkActionItem reads the notes, looks the task up, and writes them all. *)
(***************************************************************************)
LinkRead ==
    /\ link.item = {}
    /\ \E i \in row.notes.items : link' = [item |-> {i}, notes |-> row.notes]
    /\ overlapped' = (overlapped \/ Writers # {})
    /\ UNCHANGED <<call, row, timers, recovery, runs, cards, restarts>>

LinkWrite ==
    /\ link.item # {}
    /\ row' = [row EXCEPT !.notes =
                 [items |-> link.notes.items, made |-> link.notes.made \cup link.item]]
    /\ link' = [item |-> {}, notes |-> NoNotes]
    /\ UNCHANGED <<call, timers, recovery, runs, cards, overlapped, restarts>>

-----------------------------------------------------------------------------
\* Ten minutes pass since notesStartedAt.
TenMinutes ==
    /\ row.recent
    /\ row' = [row EXCEPT !.recent = FALSE]
    /\ UNCHANGED <<call, timers, recovery, runs, link, cards, overlapped, restarts>>

\* The process restarts: memory is gone and startCallSweeper ends the row.
Restart ==
    /\ restarts < MaxRestarts /\ restarts' = restarts + 1
    /\ live' = FALSE /\ taker' = FALSE /\ switching' = FALSE /\ ending' = FALSE
    /\ row' = [row EXCEPT !.ended = TRUE]
    /\ timers' = 0 /\ recovery' = TRUE
    /\ runs' = [r \in Runs |-> NoRun]
    /\ link' = [item |-> {}, notes |-> NoNotes]
    /\ UNCHANGED <<spoken, cards, overlapped, switches>>

Writer(r) ==
    \/ Claim(r) \/ ReadCall(r) \/ SaveEmpty(r) \/ SaveReady(r) \/ SaveNone(r)
    \/ LookCard(r) \/ PostCard(r)

Next ==
    \/ SwitchOn \/ SwitchWrite \/ SwitchOff \/ Speak \/ EndCall \/ EndRow
    \/ \E r \in Runs :
         TimerFires(r) \/ RetryAsk(r) \/ RetryRead(r) \/ Recover(r) \/ Writer(r) \/ Throw(r)
    \/ LinkRead \/ LinkWrite
    \/ TenMinutes \/ Restart

Spec == Init /\ [][Next]_vars

\* Row updates return, timers fire and a writer runs to its end: every wait
\* inside it has a limit.
FairSpec ==
    /\ Spec
    /\ WF_vars(SwitchWrite) /\ WF_vars(EndRow)
    /\ WF_vars(\E r \in Runs : TimerFires(r))
    /\ WF_vars(\E r \in Runs : Recover(r))
    /\ \A r \in Runs : WF_vars(RetryRead(r)) /\ WF_vars(Writer(r))

-----------------------------------------------------------------------------
\* A task code is only ever on an action item of the notes.
TypeOK ==
    /\ {live, taker, switching, ending, spoken, recovery, overlapped} \subseteq BOOLEAN
    /\ row \in Row /\ row.notes.made \subseteq row.notes.items
    /\ runs \in [Runs -> Run]
    /\ link \in [item : SUBSET Tasks, notes : Notes]
    /\ {timers, cards, switches, restarts} \subseteq Nat

\* "Post the notes card in the chat once (not again on "Try again")": writers
\* that follow one another, from timers, retries and restarts, post one card.
\* (Two that overlap between the look and the post can post two.)
PostedOnce == ~overlapped => cards <= 1

\* "keep the tasks already made from action items": a writer that had the notes
\* to itself and succeeds drops no task code.
SuccessKeepsLinks ==
    [][row'.status = "ready" /\ ~overlapped' => row.notes.made \subseteq row'.notes.made]_vars

\* "write the notes that were never written": a call that ended with its note
\* taker used is claimed by a writer, whatever restarts come in between.
NotesAreStarted ==
    (row.ended /\ row.noteTaker /\ row.status = "null") ~> row.status # "null"

\* "Never leave the notes "being written" forever": unless the server restarts,
\* notes being written are finished or fail.
PendingEnds == row.status = "pending" ~> (row.status # "pending" \/ restarts > 0)

=============================================================================
