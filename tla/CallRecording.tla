------------------------------ MODULE CallRecording ------------------------------
(***************************************************************************)
(* One recording of a call: the browser (client/src/lib/callRecorder.ts)   *)
(* uploads the video in pieces, one after the other, each up to four       *)
(* times, and then finishes; the server (recordingChunk, finishRecording   *)
(* of chatController.ts) appends each piece to a file, counts it, and in   *)
(* the end posts the video in the chat.                                    *)
(*                                                                         *)
(* A request the browser gave up on may still be at work on the server.    *)
(* The file is the sequence of pieces in it.                               *)
(***************************************************************************)
EXTENDS Integers, Sequences, FiniteSets

CONSTANTS
    MaxPieces,  \* bound: pieces of a recording
    Tries,      \* times a piece is sent: 4
    Slots,      \* bound: requests on their way or at work at once
    MaxFaults   \* bound: connections lost and restarts of the server

ASSUME RecordingAssumption ==
    /\ MaxPieces \in Nat \ {0} /\ Tries \in Nat \ {0} /\ MaxFaults \in Nat
    /\ Slots # {} /\ 0 \notin Slots

VARIABLES
    total,   \* pieces this recording will have
    client,  \* the browser: what it does, the piece it is at, tries, the request it waits for
    reqs,    \* the requests
    rec,     \* the CallRecording row
    file,    \* the pieces in the file
    posted,  \* messages posted with it
    raced,   \* history: two requests for a piece were past their check at once
    faults

vars == <<total, client, reqs, rec, file, posted, raced, faults>>

Finish == MaxPieces         \* a request that is not a piece
NoReq == [pc |-> "none", piece |-> 0]
Accepted == {"append", "count", "post", "mark"}

Init ==
    /\ total \in 0 .. MaxPieces
    /\ client = [pc |-> "send", piece |-> 0, tries |-> 0, slot |-> 0]
    /\ reqs = [s \in Slots |-> NoReq]
    /\ rec = [status |-> "uploading", chunks |-> 0, size |-> 0]
    /\ file = <<>> /\ posted = 0 /\ raced = FALSE /\ faults = 0

(***************************************************************************)
(* The browser.                                                            *)
(***************************************************************************)
Free == {s \in Slots : reqs[s] = NoReq}

Send ==
    /\ client.pc = "send"
    /\ \E s \in Free :
         /\ reqs' = [reqs EXCEPT ![s] = [pc |-> "sent", piece |->
                                           IF client.piece = total THEN Finish ELSE client.piece]]
         /\ client' = [client EXCEPT !.pc = "wait", !.slot = s]
    /\ UNCHANGED <<total, rec, file, posted, raced, faults>>

\* Faulty variant: the browser stays at the piece it sent.
WentNowhere(c) ==
    IF c.piece = total THEN [c EXCEPT !.pc = "saved", !.slot = 0]
    ELSE [c EXCEPT !.pc = "send", !.tries = 0, !.slot = 0]

\* What the browser does when its request went well: the next piece, or done.
Went(c) ==
    IF c.piece = total THEN [c EXCEPT !.pc = "saved", !.slot = 0]
    ELSE [c EXCEPT !.pc = "send", !.piece = @ + 1, !.tries = 0, !.slot = 0]

\* Faulty variant: the finish is sent again like a piece.
FailedRetriesFinish(c) ==
    IF c.tries + 1 = Tries THEN [c EXCEPT !.pc = "error", !.slot = 0]
    ELSE [c EXCEPT !.pc = "send", !.tries = @ + 1, !.slot = 0]

\* A piece is sent again, up to Tries times; the finish is not.
Failed(c) ==
    IF c.piece = total \/ c.tries + 1 = Tries THEN [c EXCEPT !.pc = "error", !.slot = 0]
    ELSE [c EXCEPT !.pc = "send", !.tries = @ + 1, !.slot = 0]

\* The browser gives up on a request: it was lost on its way, or it still runs.
ConnectionLost ==
    /\ client.pc = "wait" /\ faults < MaxFaults /\ faults' = faults + 1
    /\ \/ UNCHANGED reqs
       \/ reqs[client.slot].pc = "sent" /\ reqs' = [reqs EXCEPT ![client.slot] = NoReq]
    /\ client' = Failed(client)
    /\ UNCHANGED <<total, rec, file, posted, raced>>

(***************************************************************************)
(* The server.                                                             *)
(***************************************************************************)
Goto(s, pc) == reqs' = [reqs EXCEPT ![s].pc = pc]

\* The request ends, and the browser hears of it if it still waits.
Answer(s, ok) ==
    /\ reqs' = [reqs EXCEPT ![s] = NoReq]
    /\ client' = IF client.slot # s THEN client ELSE IF ok THEN Went(client) ELSE Failed(client)

Racing(s) == \E t \in Slots \ {s} : reqs[t].pc \in Accepted

\* Faulty variant: the next piece is taken for one that was counted.
CheckPieceOffByOne(s) ==
    /\ reqs[s].pc = "sent" /\ reqs[s].piece # Finish
    /\ Answer(s, rec.status = "uploading" /\ reqs[s].piece <= rec.chunks)
    /\ UNCHANGED <<total, rec, file, posted, raced, faults>>

\* recordingChunk reads the row: a piece it counted before is a duplicate, another
\* than the next one is refused.
CheckPiece(s) ==
    /\ reqs[s].pc = "sent" /\ reqs[s].piece # Finish
    /\ CASE rec.status = "uploading" /\ reqs[s].piece < rec.chunks -> Answer(s, TRUE) /\ UNCHANGED raced
         [] rec.status # "uploading" \/ reqs[s].piece > rec.chunks -> Answer(s, FALSE) /\ UNCHANGED raced
         [] OTHER -> Goto(s, "append") /\ raced' = (raced \/ Racing(s)) /\ UNCHANGED client
    /\ UNCHANGED <<total, rec, file, posted, faults>>

AppendPiece(s) ==
    /\ reqs[s].pc = "append"
    /\ file' = Append(file, reqs[s].piece)
    /\ Goto(s, "count")
    /\ UNCHANGED <<total, client, rec, posted, raced, faults>>

CountPiece(s) ==
    /\ reqs[s].pc = "count"
    /\ rec' = [rec EXCEPT !.chunks = @ + 1, !.size = @ + 1]
    /\ Answer(s, TRUE)
    /\ UNCHANGED <<total, file, posted, raced, faults>>

\* Faulty variant: the piece is counted before it is in the file.
CountPieceFirst(s) ==
    /\ reqs[s].pc = "append"
    /\ rec' = [rec EXCEPT !.chunks = @ + 1, !.size = @ + 1]
    /\ Goto(s, "count")
    /\ UNCHANGED <<total, client, file, posted, raced, faults>>
AppendPieceLast(s) ==
    /\ reqs[s].pc = "count"
    /\ file' = Append(file, reqs[s].piece)
    /\ Answer(s, TRUE)
    /\ UNCHANGED <<total, rec, posted, raced, faults>>
TakePieceCountFirst(s) == CountPieceFirst(s) \/ AppendPieceLast(s)

\* The piece is appended to the file, and then counted.
TakePiece(s) == AppendPiece(s) \/ CountPiece(s)

\* finishRecording reads the row: without any piece the recording has failed.
CheckFinish(s) ==
    /\ reqs[s].pc = "sent" /\ reqs[s].piece = Finish
    /\ CASE rec.status # "uploading" -> Answer(s, FALSE) /\ UNCHANGED rec
         [] rec.status = "uploading" /\ rec.size = 0 ->
              rec' = [rec EXCEPT !.status = "failed"] /\ Answer(s, TRUE)
         [] OTHER -> Goto(s, "post") /\ UNCHANGED <<rec, client>>
    /\ UNCHANGED <<total, file, posted, raced, faults>>

PostVideo(s) ==
    /\ reqs[s].pc = "post"
    /\ posted' = posted + 1
    /\ Goto(s, "mark")
    /\ UNCHANGED <<total, client, rec, file, raced, faults>>

MarkReady(s) ==
    /\ reqs[s].pc = "mark"
    /\ rec' = [rec EXCEPT !.status = "ready"]
    /\ Answer(s, TRUE)
    /\ UNCHANGED <<total, file, posted, raced, faults>>

\* The message is posted, and then the recording is ready.
Post(s) == PostVideo(s) \/ MarkReady(s)

\* The server restarts: what is at work is cut off, and the browser's request fails.
Crash ==
    /\ faults < MaxFaults /\ faults' = faults + 1
    /\ reqs' = [s \in Slots |-> NoReq]
    /\ client' = IF client.pc = "wait" THEN Failed(client) ELSE client
    /\ UNCHANGED <<total, rec, file, posted, raced>>

Serve(s) == CheckPiece(s) \/ TakePiece(s) \/ CheckFinish(s) \/ Post(s)

Done == client.pc \in {"saved", "error"} /\ Free = Slots /\ UNCHANGED vars

Next ==
    \/ Send \/ ConnectionLost \/ Crash \/ Done
    \/ \E s \in Slots : Serve(s)

Spec == Init /\ [][Next]_vars

\* The browser sends when it can, and a request on the server goes on.
FairSpec == Spec /\ WF_vars(Send) /\ \A s \in Slots : WF_vars(Serve(s))

-----------------------------------------------------------------------------
Client == [pc : {"send", "wait", "saved", "error"}, piece : 0 .. MaxPieces,
           tries : 0 .. Tries - 1, slot : Slots \cup {0}]
Request == [pc : {"none", "sent"} \cup Accepted, piece : 0 .. MaxPieces]

TypeOK ==
    /\ total \in 0 .. MaxPieces
    /\ client \in Client
    /\ reqs \in [Slots -> Request]
    /\ rec \in [status : {"uploading", "ready", "failed"}, chunks : Nat, size : Nat]
    /\ file \in Seq(0 .. MaxPieces - 1)
    /\ posted \in Nat /\ raced \in BOOLEAN

InFile == {file[n] : n \in DOMAIN file}

\* "a retry of a piece we already have": a piece that is counted is in the file, and
\* the pieces are in order, whatever is lost, retried or cut off by a restart (a
\* piece may be there twice), unless two requests for one piece ran at once.
CountedIsInFile ==
    ~raced => /\ 0 .. rec.chunks - 1 \subseteq InFile
              /\ \A n \in DOMAIN file : n > 1 => file[n] \in {file[n - 1], file[n - 1] + 1}

\* A recording that is ready has its message, and never a second one, although the
\* two are written apart and a restart may come between.
ReadyIsPostedOnce == posted <= 1 /\ (rec.status = "ready" => posted = 1)

\* "Resolves when the video is in the chat": when the browser says it is saved, the
\* recording is ready and posted once, and unless requests raced it has every piece. (A
\* recording without any piece is told to be saved too: finishRecording answers 200
\* with ok: false, which stop() does not look at.)
SavedIsPosted ==
    /\ ReadyIsPostedOnce
    /\ client.pc = "saved" /\ total > 0 =>
         /\ rec.status = "ready"
         /\ raced \/ 0 .. total - 1 \subseteq InFile

\* stop() comes to an end: the recording is saved, or the person is told it is not.
StopEnds == <>(client.pc \in {"saved", "error"})

=============================================================================
