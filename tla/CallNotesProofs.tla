--------------------------- MODULE CallNotesProofs ----------------------------
(***************************************************************************)
(* Type correctness of CallNotes, and the two promises its writers keep as *)
(* long as no two of them (and no linkActionItem) were ever at work        *)
(* together: one card in the chat, and no task code lost by a success.     *)
(***************************************************************************)
EXTENDS CallNotes, TLAPS

\* Records of the row and of a writer stay well typed.
LEMMA RowType ==
  ASSUME row \in Row, NEW s \in Statuses, NEW b \in BOOLEAN, NEW n \in Notes
  PROVE  [row EXCEPT !.status = s, !.recent = b, !.notes = n] \in Row
BY DEF Row

LEMMA GotoType ==
  ASSUME runs \in [Runs -> Run], NEW r \in Runs,
         NEW pc \in {"idle", "retry", "claim"} \cup WriterPCs
  PROVE  /\ Goto(r, pc) => runs' \in [Runs -> Run]
         /\ Done(r) => runs' \in [Runs -> Run]
         /\ \A f \in BOOLEAN : Start(r, f) => runs' \in [Runs -> Run]
<1>1. NoRun \in Run
  BY DEF NoRun, Run, Notes, NoNotes
<1>2. [NoRun EXCEPT !.pc = pc] \in Run
  BY <1>1 DEF Run
<1>3. ASSUME NEW f \in BOOLEAN, Start(r, f) PROVE runs' \in [Runs -> Run]
  <2>1. [runs[r] EXCEPT !.pc = "claim", !.force = f] \in Run
    BY DEF Run
  <2>2. runs' = [runs EXCEPT ![r] = [runs[r] EXCEPT !.pc = "claim", !.force = f]]
    BY <1>3 DEF Start
  <2> QED
    BY <2>1, <2>2
<1> QED
  BY <1>1, <1>2, <1>3 DEF Goto, Done

\* Every state is well typed, and task codes are only on items of the notes.
\* (The linker's snapshot has the same shape, and so have the writers' old notes.)
Linked(n) == n.made \subseteq n.items
TypeInv ==
    /\ TypeOK
    /\ Linked(row.notes) /\ Linked(link.notes)
    /\ link.item \subseteq link.notes.items

LEMMA InitTyped == Init => TypeInv
<1> SUFFICES ASSUME Init PROVE TypeInv
  OBVIOUS
<1>1. NoNotes \in Notes /\ Linked(NoNotes)
  BY DEF NoNotes, Notes, Linked
<1>2. NoRun \in Run
  BY <1>1 DEF NoRun, Run
<1>3. row \in Row /\ row.notes = NoNotes
  BY <1>1 DEF Init, Row, Statuses
<1>4. {live, taker, switching, ending, spoken, recovery, overlapped} \subseteq BOOLEAN
  BY DEF Init
<1>5. runs \in [Runs -> Run]
  BY <1>2 DEF Init
<1>6. /\ link \in [item : SUBSET Tasks, notes : Notes]
      /\ Linked(link.notes) /\ link.item \subseteq link.notes.items
  BY <1>1 DEF Init
<1>7. {timers, cards, switches, restarts} \subseteq Nat
  BY DEF Init
<1> QED
  BY <1>1, <1>3, <1>4, <1>5, <1>6, <1>7 DEF TypeInv, TypeOK, Linked

\* A step of a writer, or of what starts one, is well typed.
LEMMA RunStepTyped ==
  ASSUME TypeInv, NEW r \in Runs,
         TimerFires(r) \/ RetryAsk(r) \/ RetryRead(r) \/ Recover(r) \/ Writer(r) \/ Throw(r)
  PROVE  TypeInv'
<1> USE NotesAssumption
<1>0. /\ row \in Row /\ runs \in [Runs -> Run] /\ row.notes \in Notes
      /\ NoNotes \in Notes /\ Linked(NoNotes) /\ Linked(row.notes)
      /\ timers \in Nat /\ cards \in Nat
  BY DEF TypeInv, TypeOK, Row, NoNotes, Notes, Linked
<1>1. CASE TimerFires(r)
  <2>1. runs' \in [Runs -> Run]
    BY <1>0, <1>1, GotoType DEF TimerFires, WriterPCs
  <2> QED
    BY <1>0, <1>1, <2>1 DEF TimerFires, call, TypeInv, TypeOK
<1>2. CASE RetryAsk(r)
  <2>1. runs' \in [Runs -> Run]
    BY <1>0, <1>2, GotoType DEF RetryAsk, WriterPCs
  <2> QED
    BY <1>0, <1>2, <2>1 DEF RetryAsk, call, TypeInv, TypeOK
<1>3. CASE RetryRead(r)
  <2>1. [runs[r] EXCEPT !.pc = "claim", !.force = TRUE] \in Run
    BY <1>0 DEF Run
  <2>2. runs' \in [Runs -> Run]
    BY <1>0, <1>3, <2>1, GotoType DEF RetryRead, WriterPCs
  <2> QED
    BY <1>0, <1>3, <2>2 DEF RetryRead, call, TypeInv, TypeOK
<1>4. CASE Recover(r)
  <2>1. runs' \in [Runs -> Run]
    BY <1>0, <1>4, GotoType DEF Recover, WriterPCs
  <2> QED
    BY <1>0, <1>4, <2>1 DEF Recover, call, TypeInv, TypeOK
<1>5. CASE Claim(r)
  <2>1. runs' \in [Runs -> Run]
    BY <1>0, <1>5, GotoType DEF Claim, WriterPCs
  <2>2. [row EXCEPT !.status = "pending", !.recent = TRUE] \in Row
    BY <1>0 DEF Row, Statuses
  <2>3. row' \in Row /\ row'.notes = row.notes
    BY <1>0, <1>5, <2>2 DEF Claim, Row
  <2>4. overlapped' \in BOOLEAN
    BY <1>5 DEF Claim, TypeInv, TypeOK
  <2> QED
    BY <1>0, <1>5, <2>1, <2>3, <2>4 DEF Claim, call, TypeInv, TypeOK
<1>6. CASE ReadCall(r)
  <2>1. [runs[r] EXCEPT !.pc = IF spoken THEN "save" ELSE "empty", !.old = row.notes] \in Run
    BY <1>0 DEF Run, WriterPCs
  <2>2. runs' \in [Runs -> Run]
    BY <1>0, <1>6, <2>1 DEF ReadCall
  <2> QED
    BY <1>0, <1>6, <2>2 DEF ReadCall, call, TypeInv, TypeOK
<1>7. ASSUME NEW s \in Statuses, NEW n \in Notes, Linked(n), Save(s, n)
      PROVE  row' \in Row /\ Linked(row'.notes)
  BY <1>0, <1>7, RowType DEF Save, Row
<1>8. CASE SaveEmpty(r)
  <2>1. runs' \in [Runs -> Run]
    BY <1>0, <1>8, GotoType DEF SaveEmpty, WriterPCs
  <2>2. row' \in Row /\ Linked(row'.notes)
    BY <1>0, <1>7, <1>8 DEF SaveEmpty, Statuses
  <2> QED
    BY <1>0, <1>8, <2>1, <2>2 DEF SaveEmpty, call, TypeInv, TypeOK, Linked
<1>9. CASE SaveReady(r)
  <2>1. runs' \in [Runs -> Run]
    BY <1>0, <1>9, GotoType DEF SaveReady, WriterPCs
  <2>2. runs[r].old.made \subseteq Tasks
    BY <1>0 DEF Run, Notes
  <2>3. PICK items \in SUBSET Tasks :
          Save("ready", [items |-> items \cup runs[r].old.made, made |-> runs[r].old.made])
    BY <1>9 DEF SaveReady
  <2>4. [items |-> items \cup runs[r].old.made, made |-> runs[r].old.made] \in Notes
    BY <2>2 DEF Notes
  <2>5. row' \in Row /\ Linked(row'.notes)
    BY <1>7, <2>3, <2>4 DEF Statuses, Linked
  <2> QED
    BY <1>0, <1>9, <2>1, <2>5 DEF SaveReady, call, TypeInv, TypeOK, Linked
<1>10. CASE SaveNone(r)
  <2>1. runs' \in [Runs -> Run]
    BY <1>0, <1>10, GotoType DEF SaveNone, WriterPCs
  <2>2. row' \in Row /\ Linked(row'.notes)
    BY <1>0, <1>7, <1>10 DEF SaveNone, Statuses
  <2> QED
    BY <1>0, <1>10, <2>1, <2>2 DEF SaveNone, call, TypeInv, TypeOK, Linked
<1>11. CASE LookCard(r)
  <2>1. runs' \in [Runs -> Run]
    BY <1>0, <1>11, GotoType DEF LookCard, WriterPCs
  <2> QED
    BY <1>0, <1>11, <2>1 DEF LookCard, call, TypeInv, TypeOK
<1>12. CASE PostCard(r)
  <2>1. runs' \in [Runs -> Run]
    BY <1>0, <1>12, GotoType DEF PostCard, WriterPCs
  <2> QED
    BY <1>0, <1>12, <2>1 DEF PostCard, call, TypeInv, TypeOK
<1>13. CASE Throw(r)
  <2>1. runs' \in [Runs -> Run]
    BY <1>0, <1>13, GotoType DEF Throw, WriterPCs
  <2>2. row' \in Row /\ Linked(row'.notes)
    BY <1>0, <1>7, <1>13 DEF Throw, Statuses
  <2> QED
    BY <1>0, <1>13, <2>1, <2>2 DEF Throw, call, TypeInv, TypeOK, Linked
<1> QED
  BY <1>1, <1>2, <1>3, <1>4, <1>5, <1>6, <1>8, <1>9, <1>10, <1>11, <1>12, <1>13 DEF Writer

\* So is every other step.
LEMMA StepTyped == TypeInv /\ [Next]_vars => TypeInv'
<1> SUFFICES ASSUME TypeInv, [Next]_vars PROVE TypeInv'
  OBVIOUS
<1> USE NotesAssumption
<1>0. /\ row \in Row /\ runs \in [Runs -> Run] /\ row.notes \in Notes
      /\ NoNotes \in Notes /\ Linked(NoNotes) /\ Linked(row.notes)
      /\ timers \in Nat /\ switches \in Nat /\ restarts \in Nat
  BY DEF TypeInv, TypeOK, Row, NoNotes, Notes, Linked
<1>1. CASE SwitchOn
  BY <1>0, <1>1 DEF SwitchOn, TypeInv, TypeOK
<1>2. CASE SwitchWrite
  <2>1. [row EXCEPT !.noteTaker = TRUE, !.status = "null", !.recent = FALSE] \in Row
    BY <1>0 DEF Row, Statuses
  <2>2. row' \in Row /\ row'.notes = row.notes
    BY <1>0, <1>2, <2>1 DEF SwitchWrite, Row
  <2> QED
    BY <1>0, <1>2, <2>2 DEF SwitchWrite, TypeInv, TypeOK
<1>3. CASE SwitchOff
  <2>1. timers' \in Nat
    BY <1>0, <1>3 DEF SwitchOff
  <2> QED
    BY <1>0, <1>3, <2>1 DEF SwitchOff, TypeInv, TypeOK
<1>4. CASE Speak
  BY <1>0, <1>4 DEF Speak, TypeInv, TypeOK
<1>5. CASE EndCall
  BY <1>0, <1>5 DEF EndCall, TypeInv, TypeOK
<1>6. CASE EndRow
  <2>1. [row EXCEPT !.ended = TRUE] \in Row
    BY <1>0 DEF Row
  <2>2. row' \in Row /\ row'.notes = row.notes /\ timers' \in Nat
    BY <1>0, <1>6, <2>1 DEF EndRow, Row
  <2> QED
    BY <1>0, <1>6, <2>2 DEF EndRow, TypeInv, TypeOK
<1>7. CASE \E r \in Runs :
        TimerFires(r) \/ RetryAsk(r) \/ RetryRead(r) \/ Recover(r) \/ Writer(r) \/ Throw(r)
  BY <1>7, RunStepTyped
<1>8. CASE LinkRead
  <2>1. PICK i \in row.notes.items : link' = [item |-> {i}, notes |-> row.notes]
    BY <1>8 DEF LinkRead
  <2>2. i \in Tasks
    BY <1>0, <2>1 DEF Notes
  <2>3. /\ link' \in [item : SUBSET Tasks, notes : Notes]
        /\ Linked(link'.notes) /\ link'.item \subseteq link'.notes.items
    BY <1>0, <2>1, <2>2
  <2>4. overlapped' \in BOOLEAN
    BY <1>8 DEF LinkRead, TypeInv, TypeOK
  <2> QED
    BY <1>0, <1>8, <2>3, <2>4 DEF LinkRead, call, TypeInv, TypeOK
<1>9. CASE LinkWrite
  <2> DEFINE n == [items |-> link.notes.items, made |-> link.notes.made \cup link.item]
  <2>1. n \in Notes /\ Linked(n)
    BY DEF TypeInv, TypeOK, Notes, Linked
  <2>2. row' \in Row /\ row'.notes = n
    BY <1>0, <1>9, <2>1 DEF LinkWrite, Row
  <2>3. link' = [item |-> {}, notes |-> NoNotes]
    BY <1>9 DEF LinkWrite
  <2>4. /\ link' \in [item : SUBSET Tasks, notes : Notes]
        /\ Linked(link'.notes) /\ link'.item \subseteq link'.notes.items
    BY <1>0, <2>3
  <2> HIDE DEF n
  <2> QED
    BY <1>9, <2>1, <2>2, <2>4 DEF LinkWrite, call, TypeInv, TypeOK, Linked
<1>10. CASE TenMinutes
  <2>1. [row EXCEPT !.recent = FALSE] \in Row
    BY <1>0 DEF Row
  <2>2. row' \in Row /\ row'.notes = row.notes
    BY <1>0, <1>10, <2>1 DEF TenMinutes, Row
  <2> QED
    BY <1>0, <1>10, <2>2 DEF TenMinutes, call, TypeInv, TypeOK
<1>11. CASE Restart
  <2>1. [row EXCEPT !.ended = TRUE] \in Row
    BY <1>0 DEF Row
  <2>2. row' \in Row /\ row'.notes = row.notes
    BY <1>0, <1>11, <2>1 DEF Restart, Row
  <2>3. runs' \in [Runs -> Run]
    BY <1>0, <1>11 DEF Restart, NoRun, Run
  <2>4. /\ link' \in [item : SUBSET Tasks, notes : Notes]
        /\ Linked(link'.notes) /\ link'.item \subseteq link'.notes.items
    BY <1>0, <1>11 DEF Restart
  <2>5. {live, taker, switching, ending, spoken, recovery, overlapped}' \subseteq BOOLEAN
    BY <1>11 DEF Restart, TypeInv, TypeOK
  <2>6. {timers, cards, switches, restarts}' \subseteq Nat
    BY <1>0, <1>11 DEF Restart, TypeInv, TypeOK
  <2> QED
    BY <1>0, <2>2, <2>3, <2>4, <2>5, <2>6 DEF TypeInv, TypeOK, Linked
<1>12. CASE UNCHANGED vars
  BY <1>12 DEF vars, TypeInv, TypeOK
<1> QED
  BY <1>1, <1>2, <1>3, <1>4, <1>5, <1>6, <1>7, <1>8, <1>9, <1>10, <1>11, <1>12 DEF Next

LEMMA Typed == Spec => []TypeInv
BY InitTyped, StepTyped, PTL DEF Spec

\* Every state of the note taker is well typed.
THEOREM TypeCorrect == Spec => []TypeOK
<1>1. TypeInv => TypeOK
  BY DEF TypeInv
<1> QED
  BY <1>1, Typed, PTL

-----------------------------------------------------------------------------
(***************************************************************************)
(* While nothing has overlapped there is one writer or one link request,   *)
(* what it read is still what the row holds, and the card is posted by a   *)
(* writer that saw none.                                                   *)
(***************************************************************************)
Alone ==
    ~overlapped =>
      /\ \A r, q \in Writers : r = q
      /\ link.item # {} => Writers = {} /\ link.notes = row.notes
      /\ \A r \in Runs : runs[r].pc = "save" => runs[r].old = row.notes
      /\ cards <= 1
      /\ \A r \in Runs : runs[r].pc = "post" => cards = 0

\* Steps that touch neither the writers nor the notes keep it.
LEMMA AloneQuiet ==
  ASSUME Alone, UNCHANGED <<runs, link, cards, overlapped>>, row'.notes = row.notes
  PROVE  Alone'
BY DEF Alone, Writers

\* Every step of a writer, and of what starts one, keeps it.
LEMMA AloneRun ==
  ASSUME TypeInv, Alone, NEW r \in Runs,
         TimerFires(r) \/ RetryAsk(r) \/ RetryRead(r) \/ Recover(r) \/ Writer(r) \/ Throw(r)
  PROVE  Alone'
<1> SUFFICES ASSUME ~overlapped' PROVE Alone'
  BY DEF Alone
<1>0. runs \in [Runs -> Run] /\ row \in Row /\ cards \in Nat
  BY DEF TypeInv, TypeOK
<1>1. ASSUME NEW run, runs' = [runs EXCEPT ![r] = run], run.pc \notin WriterPCs
      PROVE  /\ Writers' = Writers \ {r}
             /\ \A q \in Runs : runs'[q].pc \in {"save", "post"} =>
                  runs'[q] = runs[q] /\ q \in Writers /\ q # r
  BY <1>0, <1>1 DEF Writers, WriterPCs
<1>2. ASSUME NEW run, runs' = [runs EXCEPT ![r] = run], run.pc \in WriterPCs
      PROVE  /\ Writers' = Writers \cup {r} /\ runs'[r] = run
             /\ \A q \in Runs : q # r => runs'[q] = runs[q]
  BY <1>0, <1>2 DEF Writers
<1>3. NoRun.pc \notin WriterPCs
  BY DEF NoRun, WriterPCs
<1>4. CASE TimerFires(r) \/ RetryAsk(r) \/ RetryRead(r) \/ Recover(r)
  <2>1. UNCHANGED <<row, link, cards, overlapped>>
    BY <1>4 DEF TimerFires, RetryAsk, RetryRead, Recover
  <2>2. \/ UNCHANGED runs
        \/ \E run : runs' = [runs EXCEPT ![r] = run] /\ run.pc \notin WriterPCs
    <3>1. CASE TimerFires(r) \/ Recover(r)
      <4>1. UNCHANGED runs \/ Start(r, TRUE) \/ Start(r, FALSE)
        BY <3>1 DEF TimerFires, Recover
      <4>2. ASSUME NEW f \in BOOLEAN, Start(r, f)
            PROVE  \E run : runs' = [runs EXCEPT ![r] = run] /\ run.pc \notin WriterPCs
        <5> DEFINE run == [runs[r] EXCEPT !.pc = "claim", !.force = f]
        <5>1. runs' = [runs EXCEPT ![r] = run]
          BY <4>2 DEF Start
        <5>2. run.pc \notin WriterPCs
          BY <1>0 DEF Run, WriterPCs
        <5> QED
          BY <5>1, <5>2
      <4> QED
        BY <4>1, <4>2
    <3>2. CASE RetryAsk(r)
      <4>1. [NoRun EXCEPT !.pc = "retry"].pc \notin WriterPCs
        BY DEF NoRun, WriterPCs
      <4> QED
        BY <3>2, <4>1 DEF RetryAsk, Goto
    <3>3. CASE RetryRead(r)
      <4> DEFINE run == [runs[r] EXCEPT !.pc = "claim", !.force = TRUE]
      <4>1. run.pc \notin WriterPCs
        BY <1>0 DEF Run, WriterPCs
      <4>2. runs' = [runs EXCEPT ![r] = NoRun] \/ runs' = [runs EXCEPT ![r] = run]
        BY <3>3 DEF RetryRead, Done
      <4> QED
        BY <1>3, <4>1, <4>2
    <3> QED
      BY <1>4, <3>1, <3>2, <3>3
  <2>3. CASE UNCHANGED runs
    BY <2>1, <2>3, AloneQuiet
  <2>4. CASE \E run : runs' = [runs EXCEPT ![r] = run] /\ run.pc \notin WriterPCs
    BY <1>1, <2>1, <2>4 DEF Alone
  <2> QED
    BY <2>2, <2>3, <2>4
<1>5. CASE Claim(r)
  <2>1. CASE runs[r].force \/ row.status = "null"
    <3>1. Writers = {} /\ link.item = {} /\ ~overlapped
      BY <1>5, <2>1 DEF Claim
    <3>2. /\ row'.notes = row.notes /\ link' = link /\ cards' = cards
          /\ runs' = [runs EXCEPT ![r] = [NoRun EXCEPT !.pc = "wait"]]
      BY <1>0, <1>5, <2>1 DEF Claim, Goto, Row
    <3>3. [NoRun EXCEPT !.pc = "wait"].pc = "wait" /\ "wait" \in WriterPCs
      BY DEF NoRun, WriterPCs
    <3>4. Writers' = {r} /\ \A q \in Runs : runs'[q].pc \notin {"save", "post"}
      <4>1. \A q \in Runs : runs[q].pc \notin WriterPCs
        BY <3>1 DEF Writers
      <4> QED
        BY <1>0, <1>2, <3>1, <3>2, <3>3, <4>1 DEF WriterPCs
    <3> QED
      BY <3>1, <3>2, <3>4 DEF Alone
  <2>2. CASE ~(runs[r].force \/ row.status = "null")
    <3>1. runs' = [runs EXCEPT ![r] = NoRun] /\ UNCHANGED <<row, link, cards, overlapped>>
      BY <1>5, <2>2 DEF Claim, Done
    <3> QED
      BY <1>1, <1>3, <3>1 DEF Alone
  <2> QED
    BY <2>1, <2>2
<1>6. ASSUME r \in Writers, ~overlapped
      PROVE  link.item = {} /\ Writers = {r}
  BY <1>6 DEF Alone
<1>7. CASE ReadCall(r)
  <2> DEFINE run == [runs[r] EXCEPT !.pc = IF spoken THEN "save" ELSE "empty", !.old = row.notes]
  <2>1. /\ runs' = [runs EXCEPT ![r] = run]
        /\ UNCHANGED <<row, link, cards, overlapped>> /\ r \in Writers
    BY <1>7 DEF ReadCall, Writers, WriterPCs
  <2>2. run.pc \in {"save", "empty"} /\ run.old = row.notes
    BY <1>0 DEF Run
  <2> HIDE DEF run
  <2>3. link.item = {} /\ Writers = {r}
    BY <1>6, <2>1
  <2>4. /\ Writers' = {r} /\ runs'[r] = run
        /\ \A q \in Runs : q # r => runs'[q] = runs[q]
    BY <1>2, <2>1, <2>2, <2>3 DEF WriterPCs
  <2> QED
    BY <2>1, <2>2, <2>3, <2>4 DEF Alone
<1>8. CASE SaveEmpty(r) \/ PostCard(r) \/ Throw(r)
  <2>1. /\ r \in Writers /\ UNCHANGED <<link, overlapped>>
        /\ runs' = [runs EXCEPT ![r] = NoRun]
    BY <1>8 DEF SaveEmpty, PostCard, Throw, Done, Writers, WriterPCs
  <2>2. link.item = {} /\ Writers = {r}
    BY <1>6, <2>1
  <2>3. Writers' = {} /\ \A q \in Runs : runs'[q].pc \notin {"save", "post"}
    BY <1>1, <1>3, <2>1, <2>2
  <2>4. cards' <= 1
    BY <1>8, <2>1 DEF SaveEmpty, PostCard, Throw, Alone
  <2> QED
    BY <2>1, <2>2, <2>3, <2>4 DEF Alone
<1>9. CASE SaveReady(r) \/ SaveNone(r)
  <2>1. /\ r \in Writers /\ UNCHANGED <<link, cards, overlapped>>
        /\ runs' = [runs EXCEPT ![r] = [NoRun EXCEPT !.pc = "look"]]
    BY <1>9 DEF SaveReady, SaveNone, Goto, Writers, WriterPCs
  <2>2. [NoRun EXCEPT !.pc = "look"].pc = "look" /\ "look" \in WriterPCs
    BY DEF NoRun, WriterPCs
  <2>3. link.item = {} /\ Writers = {r}
    BY <1>6, <2>1
  <2>4. Writers' = {r} /\ \A q \in Runs : runs'[q].pc \notin {"save", "post"}
    BY <1>0, <1>2, <2>1, <2>2, <2>3 DEF Writers, WriterPCs
  <2> QED
    BY <2>1, <2>3, <2>4 DEF Alone
<1>10. CASE LookCard(r)
  <2>1. r \in Writers /\ UNCHANGED <<row, link, cards, overlapped>>
    BY <1>10 DEF LookCard, Writers, WriterPCs
  <2>2. link.item = {} /\ Writers = {r}
    BY <1>6, <2>1
  <2>3. CASE cards > 0
    <3>1. runs' = [runs EXCEPT ![r] = NoRun]
      BY <1>10, <2>3 DEF LookCard, Done
    <3> QED
      BY <1>1, <1>3, <2>1, <3>1 DEF Alone
  <2>4. CASE ~(cards > 0)
    <3>1. runs' = [runs EXCEPT ![r] = [NoRun EXCEPT !.pc = "post"]]
      BY <1>10, <2>4 DEF LookCard, Goto
    <3>2. [NoRun EXCEPT !.pc = "post"].pc = "post" /\ "post" \in WriterPCs
      BY DEF NoRun, WriterPCs
    <3>3. /\ Writers' = {r} /\ runs'[r].pc = "post"
          /\ \A q \in Runs : q # r => runs'[q] = runs[q]
      BY <1>2, <2>2, <3>1, <3>2
    <3>4. cards' = 0
      BY <1>0, <2>1, <2>4
    <3> QED
      BY <2>1, <2>2, <3>3, <3>4 DEF Alone
  <2> QED
    BY <2>3, <2>4
<1> QED
  BY <1>4, <1>5, <1>7, <1>8, <1>9, <1>10 DEF Writer

LEMMA AloneStep == TypeInv /\ Alone /\ [Next]_vars => Alone'
<1> SUFFICES ASSUME TypeInv, Alone, [Next]_vars PROVE Alone'
  OBVIOUS
<1>0. row \in Row
  BY DEF TypeInv, TypeOK
<1>1. CASE SwitchOn \/ SwitchOff \/ Speak \/ EndCall \/ UNCHANGED vars
  <2>1. UNCHANGED <<runs, link, cards, overlapped, row>>
    BY <1>1 DEF SwitchOn, SwitchOff, Speak, EndCall, vars
  <2> QED
    BY <2>1, AloneQuiet
<1>2. CASE SwitchWrite \/ EndRow \/ TenMinutes
  <2>1. UNCHANGED <<runs, link, cards, overlapped>> /\ row'.notes = row.notes
    BY <1>0, <1>2 DEF SwitchWrite, EndRow, TenMinutes, Row
  <2> QED
    BY <2>1, AloneQuiet
<1>3. CASE \E r \in Runs :
        TimerFires(r) \/ RetryAsk(r) \/ RetryRead(r) \/ Recover(r) \/ Writer(r) \/ Throw(r)
  BY <1>3, AloneRun
<1>4. CASE LinkRead
  <2>1. ~overlapped' => ~overlapped /\ Writers = {}
    BY <1>4 DEF LinkRead
  <2>2. link'.notes = row.notes /\ UNCHANGED <<row, runs, cards>>
    BY <1>4 DEF LinkRead
  <2> QED
    BY <2>1, <2>2 DEF Alone, Writers
<1>5. CASE LinkWrite
  <2>1. /\ link.item # {} /\ link'.item = {} /\ UNCHANGED <<runs, cards, overlapped>>
    BY <1>5 DEF LinkWrite
  <2>2. ~overlapped => Writers = {}
    BY <2>1 DEF Alone
  <2>3. ~overlapped => \A r \in Runs : runs[r].pc \notin {"save", "post"}
    BY <2>2 DEF Writers, WriterPCs
  <2> QED
    BY <2>1, <2>2, <2>3 DEF Alone, Writers
<1>6. CASE Restart
  <2>1. \A r \in Runs : runs'[r].pc = "idle"
    BY <1>6 DEF Restart, NoRun
  <2>2. link'.item = {} /\ UNCHANGED <<cards, overlapped>>
    BY <1>6 DEF Restart
  <2> QED
    BY <2>1, <2>2 DEF Alone, Writers, WriterPCs
<1> QED
  BY <1>1, <1>2, <1>3, <1>4, <1>5, <1>6 DEF Next

LEMMA AlwaysAlone == Spec => []Alone
<1>1. Init => Alone
  BY DEF Init, Alone, Writers, WriterPCs, NoRun
<1> QED
  BY <1>1, AloneStep, Typed, PTL DEF Spec

\* Writers that follow one another post one card, for any number of them.
THEOREM AlwaysPostedOnce == Spec => []PostedOnce
<1>1. Alone => PostedOnce
  BY DEF Alone, PostedOnce
<1> QED
  BY <1>1, AlwaysAlone, PTL

\* A writer that had the notes to itself and succeeds drops no task code.
THEOREM AlwaysSuccessKeepsLinks == Spec => SuccessKeepsLinks
<1> DEFINE Keeps == row'.status = "ready" /\ ~overlapped' => row.notes.made \subseteq row'.notes.made
<1>1. TypeInv /\ Alone /\ [Next]_vars => [Keeps]_vars
  <2> SUFFICES ASSUME TypeInv, Alone, Next, row'.status = "ready", ~overlapped'
               PROVE  row.notes.made \subseteq row'.notes.made
    OBVIOUS
  <2>0. row \in Row /\ runs \in [Runs -> Run]
    BY DEF TypeInv, TypeOK
  <2>1. CASE SwitchOn \/ SwitchOff \/ Speak \/ EndCall \/ LinkRead
    BY <2>1 DEF SwitchOn, SwitchOff, Speak, EndCall, LinkRead
  <2>2. CASE SwitchWrite \/ EndRow \/ TenMinutes \/ Restart
    BY <2>0, <2>2 DEF SwitchWrite, EndRow, TenMinutes, Restart, Row
  <2>3. CASE LinkWrite
    <3>1. link.notes = row.notes
      BY <2>3 DEF LinkWrite, Alone
    <3> QED
      BY <2>0, <2>3, <3>1 DEF LinkWrite, Row
  <2>4. ASSUME NEW r \in Runs, TimerFires(r) \/ RetryAsk(r) \/ RetryRead(r) \/ Recover(r)
                               \/ ReadCall(r) \/ LookCard(r) \/ PostCard(r)
        PROVE  row.notes.made \subseteq row'.notes.made
    BY <2>4 DEF TimerFires, RetryAsk, RetryRead, Recover, ReadCall, LookCard, PostCard
  <2>5. ASSUME NEW r \in Runs, Claim(r)
        PROVE  row.notes.made \subseteq row'.notes.made
    BY <2>0, <2>5 DEF Claim, Row
  <2>6. ASSUME NEW r \in Runs, SaveEmpty(r) \/ SaveNone(r) \/ Throw(r)
        PROVE  row.notes.made \subseteq row'.notes.made
    <3>1. UNCHANGED row \/ \E s \in {"empty", "no-ai", "failed"} : Save(s, NoNotes)
      BY <2>6 DEF SaveEmpty, SaveNone, Throw
    <3>2. ASSUME NEW s \in {"empty", "no-ai", "failed"}, Save(s, NoNotes)
          PROVE  row'.status = s
      BY <2>0, <3>2 DEF Save, Row
    <3> QED
      BY <3>1, <3>2
  <2>7. ASSUME NEW r \in Runs, SaveReady(r)
        PROVE  row.notes.made \subseteq row'.notes.made
    <3>1. runs[r].old = row.notes
      BY <2>7 DEF SaveReady, Alone
    <3>2. PICK items \in SUBSET Tasks :
            Save("ready", [items |-> items \cup row.notes.made, made |-> row.notes.made])
      BY <2>7, <3>1 DEF SaveReady
    <3> QED
      BY <2>0, <3>2 DEF Save, Row
  <2> QED
    BY <2>1, <2>2, <2>3, <2>4, <2>5, <2>6, <2>7 DEF Next, Writer
<1> QED
  BY <1>1, AlwaysAlone, Typed, PTL DEF Spec, SuccessKeepsLinks

=============================================================================
