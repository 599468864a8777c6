--------------------------- MODULE CallRecordingProofs ---------------------------
(***************************************************************************)
(* Type correctness of CallRecording, and its safety for any number of     *)
(* pieces, tries, requests and faults: a piece that is counted is in the   *)
(* file, the video is posted once, and "saved" is said only when it is.    *)
(***************************************************************************)
EXTENDS CallRecording, TLAPS

\* What the browser asks for next.
Asks == IF client.piece = total THEN Finish ELSE client.piece

\* The browser waits for its own request, and what is at work for a piece is a piece.
TypeInv ==
    /\ TypeOK
    /\ client.piece <= total
    /\ client.pc = "wait" <=> client.slot # 0
    /\ client.slot # 0 => reqs[client.slot].pc # "none" /\ reqs[client.slot].piece = Asks
    /\ \A s \in Slots : /\ reqs[s].pc \in {"append", "count"} => reqs[s].piece # Finish
                        /\ reqs[s].pc \in {"post", "mark"} => reqs[s].piece = Finish

\* The server has counted what the browser went on from, and no later piece is at work.
Taking(s) == reqs[s].pc \in {"append", "count"}
UploadInv ==
    /\ rec.size = rec.chunks /\ client.piece <= rec.chunks
    /\ \A s \in Slots : Taking(s) => reqs[s].piece <= rec.chunks

\* As long as no two pieces were past their check at once: the piece at work is the next
\* one, and the file ends with it or with the one before.
FileInv ==
    ~raced =>
      /\ \A s, t \in Slots : Taking(s) /\ Taking(t) => s = t
      /\ \A s \in Slots : Taking(s) => reqs[s].piece = rec.chunks
      /\ \A s \in Slots : reqs[s].pc = "count" => file # <<>> /\ file[Len(file)] = rec.chunks
      /\ IF file = <<>> THEN rec.chunks = 0 ELSE file[Len(file)] \in {rec.chunks - 1, rec.chunks}
      /\ CountedIsInFile

\* The finish is asked for once, when all pieces have been sent.
Finishing(s) == reqs[s].pc # "none" /\ reqs[s].piece = Finish
PostInv ==
    /\ client.pc = "send" \/ client.piece < total =>
         posted = 0 /\ rec.status = "uploading" /\ \A s \in Slots : ~Finishing(s)
    /\ \A s, t \in Slots : Finishing(s) /\ Finishing(t) => s = t
    /\ \A s \in Slots : Finishing(s) =>
         IF reqs[s].pc = "mark" THEN posted = 1 ELSE posted = 0 /\ rec.status = "uploading"
    /\ posted = 0 \/ posted = 1
    /\ rec.status = "ready" => posted = 1
    /\ client.pc = "saved" => client.piece = total
    /\ client.pc = "saved" /\ total > 0 => rec.status = "ready"

SafetyInv == UploadInv /\ FileInv /\ PostInv

(***************************************************************************)
(* The requests and the browser, one step at a time.                       *)
(***************************************************************************)
LEMMA NoReqTyped == NoReq \in Request /\ NoReq.pc = "none"
BY RecordingAssumption DEF NoReq, Request

LEMMA GotoKeeps ==
  ASSUME TypeInv, NEW s \in Slots, NEW pc \in Accepted, Goto(s, pc)
  PROVE  /\ reqs' \in [Slots -> Request]
         /\ \A t \in Slots : /\ reqs'[t].pc = IF t = s THEN pc ELSE reqs[t].pc
                             /\ reqs'[t].piece = reqs[t].piece
BY DEF Goto, Request, TypeInv, TypeOK

\* The browser goes on to the next piece, or is done.
LEMMA WentTyped ==
  ASSUME TypeInv
  PROVE  /\ Went(client) \in Client /\ Went(client).slot = 0
         /\ IF client.piece = total THEN Went(client).pc = "saved" /\ Went(client).piece = total
            ELSE Went(client).pc = "send" /\ Went(client).piece = client.piece + 1 /\ client.piece < total
<1>0. client \in Client /\ total \in 0 .. MaxPieces /\ client.piece \in 0 .. total /\ MaxPieces \in Nat /\ Tries \in Nat \ {0}
  BY RecordingAssumption DEF TypeInv, TypeOK, Client
<1>1. CASE client.piece = total
  BY <1>0, <1>1 DEF Went, Client
<1>2. CASE client.piece # total
  <2>1. Went(client) = [client EXCEPT !.pc = "send", !.piece = client.piece + 1, !.tries = 0, !.slot = 0]
    BY <1>2 DEF Went
  <2>2. client.piece + 1 \in 0 .. MaxPieces /\ 0 \in 0 .. Tries - 1 /\ client.piece < total
    BY <1>0, <1>2
  <2> QED
    BY <1>0, <1>2, <2>1, <2>2 DEF Client
<1> QED
  BY <1>1, <1>2

\* The browser tries again, or gives up; it does so at once with the finish.
LEMMA FailedTyped ==
  ASSUME TypeInv
  PROVE  /\ Failed(client) \in Client /\ Failed(client).slot = 0 /\ Failed(client).piece = client.piece
         /\ Failed(client).pc \in {"send", "error"}
         /\ client.piece = total => Failed(client).pc = "error"
<1>0. client \in Client /\ client.tries \in 0 .. Tries - 1 /\ Tries \in Nat \ {0}
  BY RecordingAssumption DEF TypeInv, TypeOK, Client
<1>1. CASE client.piece = total \/ client.tries + 1 = Tries
  BY <1>0, <1>1 DEF Failed, Client
<1>2. CASE ~(client.piece = total \/ client.tries + 1 = Tries)
  <2>1. Failed(client) = [client EXCEPT !.pc = "send", !.tries = client.tries + 1, !.slot = 0]
    BY <1>2 DEF Failed
  <2>2. client.tries + 1 \in 0 .. Tries - 1
    BY <1>0, <1>2
  <2> QED
    BY <1>0, <1>2, <2>1, <2>2 DEF Client
<1> QED
  BY <1>1, <1>2

\* What an answer does to a browser that waits for it.
Heard(ok) ==
    /\ client.pc = "wait" /\ client'.slot = 0 /\ client' \in Client
    /\ IF ok THEN IF client.piece = total THEN client'.pc = "saved" /\ client'.piece = total
                  ELSE client'.pc = "send" /\ client'.piece = client.piece + 1 /\ client.piece < total
       ELSE /\ client'.pc \in {"send", "error"} /\ client'.piece = client.piece
            /\ client.piece = total => client'.pc = "error"

LEMMA AnswerKeeps ==
  ASSUME TypeInv, NEW s \in Slots, NEW ok \in BOOLEAN, Answer(s, ok)
  PROVE  /\ reqs' \in [Slots -> Request]
         /\ \A t \in Slots : reqs'[t] = IF t = s THEN NoReq ELSE reqs[t]
         /\ \/ client' = client /\ client.slot # s
            \/ client.slot = s /\ reqs[s].piece = Asks /\ Heard(ok)
<1>1. reqs' \in [Slots -> Request] /\ \A t \in Slots : reqs'[t] = IF t = s THEN NoReq ELSE reqs[t]
  BY NoReqTyped DEF Answer, TypeInv, TypeOK
<1>2. CASE client.slot # s
  BY <1>1, <1>2 DEF Answer
<1>3. CASE client.slot = s
  <2>1. client.pc = "wait" /\ reqs[s].piece = Asks
    BY <1>3, RecordingAssumption DEF TypeInv
  <2>2. CASE ok
    <3>1. client' = Went(client)
      BY <1>3, <2>2 DEF Answer
    <3> QED
      BY <1>1, <1>3, <2>1, <2>2, <3>1, WentTyped DEF Heard
  <2>3. CASE ~ok
    <3>1. client' = Failed(client)
      BY <1>3, <2>3 DEF Answer
    <3> QED
      BY <1>1, <1>3, <2>1, <2>3, <3>1, FailedTyped DEF Heard
  <2> QED
    BY <2>2, <2>3
<1> QED
  BY <1>2, <1>3

\* A step of a request moves it on, or answers it.
LEMMA ServeShapes ==
  ASSUME NEW s \in Slots, Serve(s)
  PROVE  /\ reqs[s].pc # "none" /\ UNCHANGED <<total, faults>>
         /\ \/ \E pc \in Accepted : Goto(s, pc) /\ client' = client
            \/ \E ok \in BOOLEAN : Answer(s, ok)
BY DEF Serve, CheckPiece, TakePiece, AppendPiece, CountPiece, CheckFinish, Post, PostVideo, MarkReady, Accepted

(***************************************************************************)
(* Type correctness.                                                       *)
(***************************************************************************)
LEMMA InitTyped == Init => TypeInv
<1> SUFFICES ASSUME Init PROVE TypeInv
  OBVIOUS
<1>1. client \in Client /\ client.piece = 0 /\ client.pc = "send" /\ client.slot = 0
  BY RecordingAssumption DEF Init, Client
<1>2. reqs \in [Slots -> Request] /\ \A s \in Slots : reqs[s].pc = "none"
  BY NoReqTyped DEF Init
<1>3. rec \in [status : {"uploading", "ready", "failed"}, chunks : Nat, size : Nat] /\ file \in Seq(0 .. MaxPieces - 1)
  BY DEF Init
<1>4. total \in 0 .. MaxPieces /\ posted \in Nat
  BY DEF Init
<1>5. 0 <= total
  BY <1>4, RecordingAssumption
<1>6. raced \in BOOLEAN
  BY DEF Init
<1>7. TypeOK
  BY <1>1, <1>2, <1>3, <1>4, <1>6 DEF TypeOK
<1> QED
  BY <1>1, <1>2, <1>5, <1>7 DEF TypeInv

\* The browser and the requests after any step.
LEMMA StepShape ==
  ASSUME TypeInv, [Next]_vars
  PROVE  /\ total' = total /\ client' \in Client /\ reqs' \in [Slots -> Request]
         /\ client'.piece <= total
         /\ client'.pc = "wait" <=> client'.slot # 0
         /\ client'.slot # 0 => reqs'[client'.slot].pc # "none" /\ reqs'[client'.slot].piece = Asks'
<1>0. /\ client \in Client /\ client.piece <= total /\ total \in 0 .. MaxPieces /\ MaxPieces \in Nat \ {0}
      /\ reqs \in [Slots -> Request] /\ (client.pc = "wait" <=> client.slot # 0)
      /\ client.slot # 0 => client.slot \in Slots /\ reqs[client.slot].pc # "none" /\ reqs[client.slot].piece = Asks
      /\ 0 \notin Slots
  BY RecordingAssumption DEF TypeInv, TypeOK, Client
<1> DEFINE Goal == /\ total' = total /\ client' \in Client /\ reqs' \in [Slots -> Request]
                   /\ client'.piece <= total
                   /\ client'.pc = "wait" <=> client'.slot # 0
                   /\ client'.slot # 0 => reqs'[client'.slot].pc # "none" /\ reqs'[client'.slot].piece = Asks'
<1>1. CASE Send
  <2>1. PICK s \in Free : /\ reqs' = [reqs EXCEPT ![s] = [pc |-> "sent", piece |-> Asks]]
                          /\ client' = [client EXCEPT !.pc = "wait", !.slot = s]
    BY <1>1 DEF Send, Asks
  <2>2. s \in Slots /\ s # 0 /\ Asks \in 0 .. MaxPieces
    BY <1>0 DEF Free, Asks, Finish, Client
  <2>3. [pc |-> "sent", piece |-> Asks] \in Request
    BY <2>2 DEF Request
  <2>4. reqs' \in [Slots -> Request] /\ reqs'[s].pc = "sent" /\ reqs'[s].piece = Asks
    BY <1>0, <2>1, <2>2, <2>3
  <2>5. client' \in Client /\ client'.pc = "wait" /\ client'.slot = s /\ client'.piece = client.piece
    BY <1>0, <2>1, <2>2 DEF Client
  <2>6. total' = total
    BY <1>1 DEF Send
  <2> QED
    BY <1>0, <2>2, <2>4, <2>5, <2>6 DEF Asks
<1>2. ASSUME client' = Failed(client), total' = total, reqs' \in [Slots -> Request] PROVE Goal
  BY <1>0, <1>2, FailedTyped
<1>3. CASE ConnectionLost
  <2>1. reqs' = reqs \/ reqs' = [reqs EXCEPT ![client.slot] = NoReq]
    BY <1>3 DEF ConnectionLost
  <2>2. reqs' \in [Slots -> Request]
    BY <1>0, <2>1, NoReqTyped
  <2> QED
    BY <1>2, <1>3, <2>2 DEF ConnectionLost
<1>4. CASE Crash
  <2>1. reqs' \in [Slots -> Request] /\ total' = total
    BY <1>4, NoReqTyped DEF Crash
  <2>2. CASE client.pc = "wait"
    BY <1>2, <1>4, <2>1, <2>2 DEF Crash
  <2>3. CASE client.pc # "wait"
    BY <1>0, <1>4, <2>1, <2>3 DEF Crash
  <2> QED
    BY <2>2, <2>3
<1>5. CASE UNCHANGED vars
  BY <1>0, <1>5 DEF vars, Asks
<1>6. ASSUME NEW s \in Slots, Serve(s) PROVE Goal
  <2>0. total' = total /\ reqs[s].pc # "none"
    BY <1>6, ServeShapes
  <2>1. ASSUME NEW pc \in Accepted, Goto(s, pc), client' = client PROVE Goal
    <3>1. reqs' \in [Slots -> Request]
          /\ \A t \in Slots : reqs'[t].pc = (IF t = s THEN pc ELSE reqs[t].pc) /\ reqs'[t].piece = reqs[t].piece
      BY <2>1, GotoKeeps
    <3>2. pc # "none"
      BY DEF Accepted
    <3> QED
      BY <1>0, <2>0, <2>1, <3>1, <3>2 DEF Asks
  <2>2. ASSUME NEW ok \in BOOLEAN, Answer(s, ok) PROVE Goal
    <3>1. /\ reqs' \in [Slots -> Request]
          /\ \A t \in Slots : reqs'[t] = IF t = s THEN NoReq ELSE reqs[t]
          /\ \/ client' = client /\ client.slot # s
             \/ client.slot = s /\ reqs[s].piece = Asks /\ Heard(ok)
      BY <2>2, AnswerKeeps
    <3>2. CASE client' = client /\ client.slot # s
      BY <1>0, <2>0, <3>1, <3>2 DEF Asks
    <3>3. CASE Heard(ok)
      <4>1. client' \in Client /\ client'.slot = 0 /\ client'.pc # "wait" /\ client'.piece <= total
        BY <1>0, <3>3 DEF Heard, Client
      <4> QED
        BY <2>0, <3>1, <4>1
    <3> QED
      BY <3>1, <3>2, <3>3
  <2> QED
    BY <1>6, <2>1, <2>2, ServeShapes
<1> QED
  BY <1>1, <1>3, <1>4, <1>5, <1>6 DEF Next, Done

\* What a request is at fits what it is for.
LEMMA StepRequests ==
  ASSUME TypeInv, [Next]_vars
  PROVE  \A s \in Slots : /\ reqs'[s].pc \in {"append", "count"} => reqs'[s].piece # Finish
                          /\ reqs'[s].pc \in {"post", "mark"} => reqs'[s].piece = Finish
<1>0. /\ reqs \in [Slots -> Request]
      /\ \A s \in Slots : /\ reqs[s].pc \in {"append", "count"} => reqs[s].piece # Finish
                          /\ reqs[s].pc \in {"post", "mark"} => reqs[s].piece = Finish
  BY DEF TypeInv, TypeOK
<1>1. CASE UNCHANGED reqs
  BY <1>0, <1>1
<1>2. ASSUME \A s \in Slots : reqs'[s] = reqs[s] \/ reqs'[s].pc \in {"none", "sent"}
      PROVE  \A s \in Slots : /\ reqs'[s].pc \in {"append", "count"} => reqs'[s].piece # Finish
                              /\ reqs'[s].pc \in {"post", "mark"} => reqs'[s].piece = Finish
  BY <1>0, <1>2
<1>3. CASE Send
  <2>1. \A s \in Slots : reqs'[s] = reqs[s] \/ reqs'[s].pc \in {"none", "sent"}
    BY <1>0, <1>3 DEF Send
  <2> QED
    BY <1>2, <2>1
<1>4. CASE ConnectionLost \/ Crash
  <2>1. \A s \in Slots : reqs'[s] = reqs[s] \/ reqs'[s].pc \in {"none", "sent"}
    BY <1>0, <1>4, NoReqTyped DEF ConnectionLost, Crash
  <2> QED
    BY <1>2, <2>1
<1>5. ASSUME NEW s \in Slots, NEW ok \in BOOLEAN, Answer(s, ok)
      PROVE  \A t \in Slots : reqs'[t] = reqs[t] \/ reqs'[t].pc \in {"none", "sent"}
  BY <1>5, AnswerKeeps, NoReqTyped
<1>6. ASSUME NEW s \in Slots, NEW pc \in Accepted, Goto(s, pc), Serve(s)
      PROVE  \A t \in Slots : /\ reqs'[t].pc \in {"append", "count"} => reqs'[t].piece # Finish
                              /\ reqs'[t].pc \in {"post", "mark"} => reqs'[t].piece = Finish
  <2>1. \A t \in Slots : reqs'[t].pc = (IF t = s THEN pc ELSE reqs[t].pc) /\ reqs'[t].piece = reqs[t].piece
    BY <1>6, GotoKeeps
  <2>2. ASSUME NEW p, Goto(s, p) PROVE p = pc
    BY <1>0, <1>6, <2>2 DEF Goto, Request
  <2>3. \A ok \in BOOLEAN : ~Answer(s, ok)
    BY <1>6, <2>1, AnswerKeeps, NoReqTyped DEF Accepted
  <2>4. \/ reqs[s].piece # Finish /\ pc = "append"
        \/ reqs[s].pc = "append" /\ pc = "count"
        \/ reqs[s].piece = Finish /\ pc = "post"
        \/ reqs[s].pc = "post" /\ pc = "mark"
    BY <1>6, <2>2, <2>3 DEF Serve, CheckPiece, TakePiece, AppendPiece, CountPiece, CheckFinish, Post, PostVideo, MarkReady
  <2> QED
    BY <1>0, <2>1, <2>4
<1>7. ASSUME NEW s \in Slots, Serve(s)
      PROVE  \A t \in Slots : /\ reqs'[t].pc \in {"append", "count"} => reqs'[t].piece # Finish
                              /\ reqs'[t].pc \in {"post", "mark"} => reqs'[t].piece = Finish
  BY <1>2, <1>5, <1>6, <1>7, ServeShapes
<1> QED
  BY <1>1, <1>3, <1>4, <1>7 DEF Next, vars, Done

\* The row, the file and the history.
LEMMA StepRows ==
  ASSUME TypeInv, [Next]_vars
  PROVE  /\ rec' \in [status : {"uploading", "ready", "failed"}, chunks : Nat, size : Nat]
         /\ file' \in Seq(0 .. MaxPieces - 1)
         /\ posted' \in Nat /\ raced' \in BOOLEAN
<1>0. /\ rec \in [status : {"uploading", "ready", "failed"}, chunks : Nat, size : Nat]
      /\ file \in Seq(0 .. MaxPieces - 1) /\ posted \in Nat /\ raced \in BOOLEAN
  BY DEF TypeInv, TypeOK
<1>1. CASE UNCHANGED <<rec, file, posted, raced>>
  BY <1>0, <1>1
<1>2. ASSUME NEW s \in Slots, CheckPiece(s)
      PROVE  UNCHANGED <<rec, file, posted>> /\ raced' \in BOOLEAN
  BY <1>0, <1>2 DEF CheckPiece
<1>3. ASSUME NEW s \in Slots, AppendPiece(s)
      PROVE  UNCHANGED <<rec, posted, raced>> /\ file' \in Seq(0 .. MaxPieces - 1)
  <2>1. reqs[s].piece \in 0 .. MaxPieces - 1
    BY <1>3, RecordingAssumption DEF AppendPiece, TypeInv, TypeOK, Request, Finish
  <2> QED
    BY <1>0, <1>3, <2>1 DEF AppendPiece
<1>4. ASSUME NEW s \in Slots, CountPiece(s) \/ CheckFinish(s) \/ PostVideo(s) \/ MarkReady(s)
      PROVE  /\ UNCHANGED <<file, raced>> /\ posted' \in Nat
             /\ rec' \in [status : {"uploading", "ready", "failed"}, chunks : Nat, size : Nat]
  <2>1. UNCHANGED <<file, raced>>
    BY <1>4 DEF CountPiece, CheckFinish, PostVideo, MarkReady
  <2>2. posted' = posted \/ posted' = posted + 1
    BY <1>4 DEF CountPiece, CheckFinish, PostVideo, MarkReady
  <2>3. \/ rec' = rec \/ rec' = [rec EXCEPT !.chunks = rec.chunks + 1, !.size = rec.size + 1]
        \/ rec' = [rec EXCEPT !.status = "failed"] \/ rec' = [rec EXCEPT !.status = "ready"]
    BY <1>4 DEF CountPiece, CheckFinish, PostVideo, MarkReady
  <2>4. rec.chunks + 1 \in Nat /\ rec.size + 1 \in Nat
    BY <1>0
  <2>5. rec' \in [status : {"uploading", "ready", "failed"}, chunks : Nat, size : Nat]
    BY <1>0, <2>3, <2>4
  <2> QED
    BY <1>0, <2>1, <2>2, <2>5
<1>5. \/ UNCHANGED <<rec, file, posted, raced>>
      \/ \E s \in Slots : Serve(s)
  BY DEF Next, vars, Send, ConnectionLost, Crash, Done
<1> QED
  BY <1>0, <1>1, <1>2, <1>3, <1>4, <1>5 DEF Serve, TakePiece, Post

LEMMA StepTyped ==
  ASSUME TypeInv, [Next]_vars
  PROVE  TypeInv'
<1>1. total' \in 0 .. MaxPieces
  BY StepShape DEF TypeInv, TypeOK
<1> QED
  BY <1>1, StepShape, StepRequests, StepRows DEF TypeInv, TypeOK

LEMMA TypeInvariant == Spec => []TypeInv
<1>1. Init => TypeInv
  BY InitTyped
<1>2. TypeInv /\ [Next]_vars => TypeInv'
  BY StepTyped
<1> QED
  BY <1>1, <1>2, PTL DEF Spec

\* Every variable has its type in every state: browser, requests, row and file.
THEOREM TypeCorrect == Spec => []TypeOK
<1>1. TypeInv => TypeOK
  BY DEF TypeInv
<1> QED
  BY <1>1, TypeInvariant, PTL

(***************************************************************************)
(* The pieces.                                                             *)
(***************************************************************************)
\* The request the browser waits for is for what it is at.
LEMMA AskedPiece ==
  ASSUME TypeInv, NEW s \in Slots, client.slot = s, reqs[s].piece = Asks
  PROVE  IF reqs[s].piece = Finish THEN client.piece = total
         ELSE client.piece < total /\ client.piece = reqs[s].piece
<1>1. client.piece \in Nat /\ total \in 0 .. MaxPieces /\ client.piece <= total /\ MaxPieces \in Nat
  BY RecordingAssumption DEF TypeInv, TypeOK, Client
<1> QED
  BY <1>1 DEF Asks, Finish

\* A piece that passes its check is the next one.
Accept(s) ==
    /\ CheckPiece(s) /\ Goto(s, "append") /\ client' = client
    /\ raced' = (raced \/ Racing(s)) /\ reqs[s].piece = rec.chunks

\* Steps that take nothing: the rest of them.
TakesNothing ==
    /\ rec'.chunks = rec.chunks /\ rec'.size = rec.size /\ UNCHANGED <<file, raced>>
    /\ \A s \in Slots : Taking(s)' => Taking(s) /\ reqs'[s] = reqs[s]

LEMMA CheckCases ==
  ASSUME TypeInv, NEW s \in Slots, CheckPiece(s)
  PROVE  \/ Answer(s, TRUE) /\ UNCHANGED <<rec, file, raced>> /\ reqs[s].piece < rec.chunks
         \/ Answer(s, FALSE) /\ UNCHANGED <<rec, file, raced>>
         \/ Accept(s)
<1>1. CASE rec.status = "uploading" /\ reqs[s].piece < rec.chunks
  BY <1>1 DEF CheckPiece
<1>2. CASE rec.status # "uploading" \/ reqs[s].piece > rec.chunks
  <2>1. ~(rec.status = "uploading" /\ reqs[s].piece < rec.chunks)
    BY <1>2 DEF TypeInv, TypeOK, Request
  <2> QED
    BY <1>2, <2>1 DEF CheckPiece
<1>3. CASE rec.status = "uploading" /\ ~(reqs[s].piece < rec.chunks) /\ ~(reqs[s].piece > rec.chunks)
  <2>1. reqs[s].piece = rec.chunks
    BY <1>3 DEF TypeInv, TypeOK, Request
  <2> QED
    BY <1>3, <2>1 DEF CheckPiece, Accept
<1> QED
  BY <1>1, <1>2, <1>3

LEMMA AnswerTakesNothing ==
  ASSUME TypeInv, NEW s \in Slots, NEW ok \in BOOLEAN, Answer(s, ok)
  PROVE  \A t \in Slots : Taking(t)' => Taking(t) /\ reqs'[t] = reqs[t]
BY AnswerKeeps, NoReqTyped DEF Taking

LEMMA FinishTakesNothing ==
  ASSUME TypeInv, NEW s \in Slots, CheckFinish(s) \/ PostVideo(s) \/ MarkReady(s)
  PROVE  TakesNothing /\ reqs[s].piece = Finish
<1>1. rec'.chunks = rec.chunks /\ rec'.size = rec.size /\ UNCHANGED <<file, raced>>
  BY DEF CheckFinish, PostVideo, MarkReady, TypeInv, TypeOK
<1>2. \/ \E ok \in BOOLEAN : Answer(s, ok)
      \/ \E pc \in {"post", "mark"} : Goto(s, pc)
  BY DEF CheckFinish, PostVideo, MarkReady
<1>3. ASSUME NEW pc \in {"post", "mark"}, Goto(s, pc)
      PROVE  \A t \in Slots : Taking(t)' => Taking(t) /\ reqs'[t] = reqs[t]
  <2>1. pc \in Accepted /\ \A t \in Slots \ {s} : reqs'[t] = reqs[t]
    BY <1>3 DEF Accepted, Goto, TypeInv, TypeOK
  <2>2. reqs'[s].pc = pc
    BY <1>3, <2>1, GotoKeeps
  <2> QED
    BY <2>1, <2>2 DEF Taking
<1>4. reqs[s].piece = Finish
  BY DEF CheckFinish, PostVideo, MarkReady, TypeInv
<1> QED
  BY <1>1, <1>2, <1>3, <1>4, AnswerTakesNothing DEF TakesNothing

LEMMA StepTakes ==
  ASSUME TypeInv, [Next]_vars
  PROVE  \/ TakesNothing
         \/ \E s \in Slots : Accept(s) \/ AppendPiece(s) \/ CountPiece(s)
<1>0. reqs \in [Slots -> Request]
  BY DEF TypeInv, TypeOK
<1>1. CASE Send
  BY <1>0, <1>1 DEF Send, TakesNothing, Taking
<1>2. CASE ConnectionLost \/ Crash
  BY <1>0, <1>2, NoReqTyped DEF ConnectionLost, Crash, TakesNothing, Taking
<1>3. CASE UNCHANGED vars
  BY <1>3 DEF vars, TakesNothing, Taking
<1>4. ASSUME NEW s \in Slots, CheckPiece(s) PROVE TakesNothing \/ Accept(s)
  BY <1>4, CheckCases, AnswerTakesNothing DEF TakesNothing
<1> QED
  BY <1>1, <1>2, <1>3, <1>4, FinishTakesNothing DEF Next, Done, Serve, TakePiece, Post

\* The browser goes on only from what is counted.
LEMMA StepAsks ==
  ASSUME TypeInv, UploadInv, [Next]_vars
  PROVE  client'.piece <= rec'.chunks
<1>0. /\ client.piece \in Nat /\ rec.chunks \in Nat /\ client.piece <= rec.chunks /\ 0 \notin Slots
      /\ rec \in [status : {"uploading", "ready", "failed"}, chunks : Nat, size : Nat] /\ client \in Client
  BY RecordingAssumption DEF UploadInv, TypeInv, TypeOK, Client
<1>1. rec'.chunks \in Nat /\ rec'.chunks >= rec.chunks
  <2>1. rec'.chunks = rec.chunks \/ \E s \in Slots : CountPiece(s) \/ AppendPiece(s) \/ Accept(s)
    BY StepTakes DEF TakesNothing
  <2>2. ASSUME NEW s \in Slots, CountPiece(s) PROVE rec'.chunks = rec.chunks + 1
    BY <1>0, <2>2 DEF CountPiece
  <2>3. ASSUME NEW s \in Slots, AppendPiece(s) \/ Accept(s) PROVE rec'.chunks = rec.chunks
    BY <2>3 DEF AppendPiece, Accept, CheckPiece
  <2> QED
    BY <1>0, <2>1, <2>2, <2>3
<1>2. CASE client'.piece = client.piece
  BY <1>0, <1>1, <1>2
<1>3. ASSUME NEW s \in Slots, NEW ok \in BOOLEAN, Answer(s, ok)
      PROVE  \/ client'.piece = client.piece
             \/ ok /\ client'.piece = reqs[s].piece + 1 /\ reqs[s].piece # Finish
  <2>1. \/ client' = client /\ client.slot # s
        \/ client.slot = s /\ reqs[s].piece = Asks /\ Heard(ok)
    BY <1>3, AnswerKeeps
  <2>2. CASE client.slot = s /\ reqs[s].piece = Asks /\ Heard(ok)
    BY <2>2, AskedPiece DEF Heard
  <2> QED
    BY <2>1, <2>2
<1>4. ASSUME NEW s \in Slots, CheckPiece(s) PROVE client'.piece <= rec'.chunks
  <2>1. CASE Answer(s, TRUE) /\ UNCHANGED <<rec, file, raced>> /\ reqs[s].piece < rec.chunks
    <3>1. reqs[s].piece \in Nat
      BY DEF TypeInv, TypeOK, Request
    <3>2. client'.piece = client.piece \/ client'.piece = reqs[s].piece + 1
      BY <1>3, <2>1
    <3>3. rec' = rec
      BY <2>1
    <3> QED
      BY <1>0, <2>1, <3>1, <3>2, <3>3
  <2>2. CASE Answer(s, FALSE)
    BY <1>2, <1>3, <2>2
  <2>3. CASE Accept(s)
    BY <1>2, <2>3 DEF Accept
  <2> QED
    BY <1>4, <2>1, <2>2, <2>3, CheckCases
<1>5. ASSUME NEW s \in Slots, CountPiece(s) PROVE client'.piece <= rec'.chunks
  <2>1. Answer(s, TRUE) /\ rec'.chunks = rec.chunks + 1 /\ Taking(s)
    BY <1>0, <1>5 DEF CountPiece, Taking
  <2>2. reqs[s].piece <= rec.chunks /\ reqs[s].piece \in Nat
    BY <2>1 DEF UploadInv, TypeInv, TypeOK, Request
  <2>3. client'.piece = client.piece \/ client'.piece = reqs[s].piece + 1
    BY <1>3, <2>1
  <2> QED
    BY <1>0, <2>1, <2>2, <2>3
<1>6. ASSUME NEW s \in Slots, CheckFinish(s) \/ MarkReady(s) \/ PostVideo(s) PROVE client'.piece <= rec'.chunks
  <2>1. reqs[s].piece = Finish
    BY <1>6, FinishTakesNothing
  <2>2. client' = client \/ \E ok \in BOOLEAN : Answer(s, ok)
    BY <1>6 DEF CheckFinish, MarkReady, PostVideo
  <2> QED
    BY <1>2, <1>3, <2>1, <2>2
<1>7. CASE Send \/ ConnectionLost \/ Crash \/ UNCHANGED vars
  <2>1. client' = client \/ client' = Failed(client) \/ \E s \in Slots : client' = [client EXCEPT !.pc = "wait", !.slot = s]
    BY <1>7 DEF Send, ConnectionLost, Crash, vars, Free
  <2>2. client'.piece = client.piece
    BY <1>0, <2>1, FailedTyped DEF Client
  <2> QED
    BY <1>2, <2>2
<1>8. ASSUME NEW s \in Slots, AppendPiece(s) PROVE client'.piece <= rec'.chunks
  BY <1>2, <1>8 DEF AppendPiece
<1> QED
  BY <1>4, <1>5, <1>6, <1>7, <1>8 DEF Next, Done, Serve, TakePiece, Post

LEMMA StepUpload ==
  ASSUME TypeInv, UploadInv, [Next]_vars
  PROVE  UploadInv'
<1>0. /\ rec \in [status : {"uploading", "ready", "failed"}, chunks : Nat, size : Nat]
      /\ \A s \in Slots : reqs[s].piece \in Nat
  BY DEF TypeInv, TypeOK, Request
<1>1. client'.piece <= rec'.chunks
  BY StepAsks
<1>2. CASE TakesNothing
  BY <1>1, <1>2 DEF TakesNothing, UploadInv
<1>3. ASSUME NEW s \in Slots, NEW pc \in {"append", "count"}, Goto(s, pc), rec' = rec, reqs[s].piece <= rec.chunks
      PROVE  UploadInv'
  <2>1. pc \in Accepted
    BY DEF Accepted
  <2>2. \A t \in Slots : reqs'[t].pc = (IF t = s THEN pc ELSE reqs[t].pc) /\ reqs'[t].piece = reqs[t].piece
    BY <1>3, <2>1, GotoKeeps
  <2> QED
    BY <1>1, <1>3, <2>2 DEF UploadInv, Taking
<1>4. ASSUME NEW s \in Slots, Accept(s) PROVE UploadInv'
  BY <1>0, <1>3, <1>4 DEF Accept, CheckPiece
<1>5. ASSUME NEW s \in Slots, AppendPiece(s) PROVE UploadInv'
  BY <1>3, <1>5 DEF AppendPiece, UploadInv, Taking
<1>6. ASSUME NEW s \in Slots, CountPiece(s) PROVE UploadInv'
  <2>1. rec'.chunks = rec.chunks + 1 /\ rec'.size = rec.size + 1 /\ Answer(s, TRUE)
    BY <1>0, <1>6 DEF CountPiece
  <2>2. \A t \in Slots : Taking(t)' => Taking(t) /\ reqs'[t] = reqs[t]
    BY <2>1, AnswerTakesNothing
  <2> QED
    BY <1>0, <1>1, <2>1, <2>2 DEF UploadInv
<1> QED
  BY <1>2, <1>4, <1>5, <1>6, StepTakes

\* What is in the file stays there.
LEMMA AppendKeeps ==
  ASSUME file \in Seq(0 .. MaxPieces - 1), NEW p \in 0 .. MaxPieces - 1, file' = Append(file, p)
  PROVE  /\ Len(file') = Len(file) + 1 /\ file'[Len(file')] = p /\ file' # <<>>
         /\ \A n \in DOMAIN file : file'[n] = file[n]
         /\ DOMAIN file' = DOMAIN file \cup {Len(file) + 1}
         /\ InFile \cup {p} \subseteq InFile'
<1>1. /\ Len(file') = Len(file) + 1 /\ file'[Len(file) + 1] = p
      /\ \A n \in DOMAIN file : file'[n] = file[n]
      /\ DOMAIN file' = DOMAIN file \cup {Len(file) + 1} /\ Len(file) \in Nat
  OBVIOUS
<1> QED
  BY <1>1 DEF InFile

LEMMA StepFile ==
  ASSUME TypeInv, FileInv, [Next]_vars
  PROVE  FileInv'
<1>0. /\ rec \in [status : {"uploading", "ready", "failed"}, chunks : Nat, size : Nat]
      /\ \A s \in Slots : reqs[s].piece \in 0 .. MaxPieces
      /\ file \in Seq(0 .. MaxPieces - 1) /\ MaxPieces \in Nat \ {0}
  BY RecordingAssumption DEF TypeInv, TypeOK, Request
<1>1. raced => raced'
  BY DEF Next, vars, Send, ConnectionLost, Crash, Done, Serve, CheckPiece, TakePiece, AppendPiece, CountPiece,
         CheckFinish, Post, PostVideo, MarkReady
<1> SUFFICES ASSUME ~raced, ~raced'
             PROVE  /\ \A s, t \in Slots : Taking(s)' /\ Taking(t)' => s = t
                    /\ \A s \in Slots : Taking(s)' => reqs'[s].piece = rec'.chunks
                    /\ \A s \in Slots : reqs'[s].pc = "count" => file' # <<>> /\ file'[Len(file')] = rec'.chunks
                    /\ IF file' = <<>> THEN rec'.chunks = 0
                       ELSE file'[Len(file')] \in {rec'.chunks - 1, rec'.chunks}
                    /\ 0 .. rec'.chunks - 1 \subseteq InFile'
                    /\ \A n \in DOMAIN file' : n > 1 => file'[n] \in {file'[n - 1], file'[n - 1] + 1}
  BY <1>1 DEF FileInv, CountedIsInFile
<1>2. /\ \A s, t \in Slots : Taking(s) /\ Taking(t) => s = t
      /\ \A s \in Slots : Taking(s) => reqs[s].piece = rec.chunks
      /\ \A s \in Slots : reqs[s].pc = "count" => file # <<>> /\ file[Len(file)] = rec.chunks
      /\ IF file = <<>> THEN rec.chunks = 0 ELSE file[Len(file)] \in {rec.chunks - 1, rec.chunks}
      /\ 0 .. rec.chunks - 1 \subseteq InFile
      /\ \A n \in DOMAIN file : n > 1 => file[n] \in {file[n - 1], file[n - 1] + 1}
  BY DEF FileInv, CountedIsInFile
<1>3. CASE TakesNothing
  <2>1. \A s \in Slots : reqs'[s].pc = "count" => reqs[s].pc = "count"
    BY <1>3 DEF TakesNothing, Taking
  <2>2. InFile' = InFile
    BY <1>3 DEF TakesNothing, InFile
  <2>3. rec'.chunks = rec.chunks /\ file' = file
    BY <1>3 DEF TakesNothing
  <2>4. \A s \in Slots : Taking(s)' => Taking(s) /\ reqs'[s] = reqs[s]
    BY <1>3 DEF TakesNothing
  <2> QED
    BY <1>2, <2>1, <2>2, <2>3, <2>4
<1>4. CASE \E s \in Slots : Accept(s)
  <2>1. PICK s \in Slots : Accept(s)
    BY <1>4
  <2>2. Goto(s, "append") /\ ~Racing(s) /\ reqs[s].piece = rec.chunks /\ UNCHANGED <<rec, file>>
    BY <2>1 DEF Accept, CheckPiece
  <2>3. \A t \in Slots : reqs'[t].pc = (IF t = s THEN "append" ELSE reqs[t].pc) /\ reqs'[t].piece = reqs[t].piece
    BY <2>2, GotoKeeps DEF Accepted
  <2>4. \A t \in Slots \ {s} : ~Taking(t)
    BY <2>2 DEF Racing, Taking, Accepted
  <2>5. \A t \in Slots : Taking(t)' => t = s
    BY <2>3, <2>4 DEF Taking
  <2>6. \A t \in Slots : reqs'[t].pc # "count"
    BY <2>3, <2>4 DEF Taking
  <2>7. InFile' = InFile
    BY <2>2 DEF InFile
  <2> QED
    BY <1>2, <2>2, <2>3, <2>5, <2>6, <2>7
<1>5. CASE \E s \in Slots : AppendPiece(s)
  <2>1. PICK s \in Slots : AppendPiece(s)
    BY <1>5
  <2>2. Goto(s, "count") /\ rec' = rec /\ file' = Append(file, reqs[s].piece) /\ reqs[s].pc = "append"
    BY <2>1 DEF AppendPiece
  <2>3. \A t \in Slots : reqs'[t].pc = (IF t = s THEN "count" ELSE reqs[t].pc) /\ reqs'[t].piece = reqs[t].piece
    BY <2>2, GotoKeeps DEF Accepted
  <2>4. reqs[s].piece = rec.chunks /\ \A t \in Slots : Taking(t) => t = s
    BY <1>2, <2>2 DEF Taking
  <2>5. rec.chunks \in 0 .. MaxPieces - 1
    BY <1>0, <2>2, <2>4 DEF TypeInv, Finish
  <2>6. /\ Len(file') = Len(file) + 1 /\ file'[Len(file')] = rec.chunks /\ file' # <<>>
        /\ \A n \in DOMAIN file : file'[n] = file[n]
        /\ DOMAIN file' = DOMAIN file \cup {Len(file) + 1}
        /\ InFile \cup {rec.chunks} \subseteq InFile'
    BY <1>0, <2>2, <2>4, <2>5, AppendKeeps
  <2>7. \A t \in Slots : Taking(t)' => t = s
    BY <2>3, <2>4 DEF Taking
  <2>8. \A n \in DOMAIN file' : n > 1 => file'[n] \in {file'[n - 1], file'[n - 1] + 1}
    <3> SUFFICES ASSUME NEW n \in DOMAIN file', n > 1 PROVE file'[n] \in {file'[n - 1], file'[n - 1] + 1}
      OBVIOUS
    <3>1. CASE n \in DOMAIN file
      <4>1. n - 1 \in DOMAIN file
        BY <1>0, <3>1
      <4> QED
        BY <1>2, <2>6, <3>1, <4>1
    <3>2. CASE n = Len(file) + 1
      <4>1. Len(file) \in DOMAIN file /\ file # <<>>
        BY <1>0, <3>2
      <4>2. file'[n - 1] = file[Len(file)] /\ file'[n] = rec.chunks
        BY <1>0, <2>6, <3>2, <4>1
      <4>3. file[Len(file)] \in {rec.chunks - 1, rec.chunks}
        BY <1>2, <4>1
      <4> QED
        BY <2>5, <4>2, <4>3
    <3> QED
      BY <2>6, <3>1, <3>2
  <2> QED
    BY <1>2, <2>2, <2>3, <2>4, <2>6, <2>7, <2>8
<1>6. CASE \E s \in Slots : CountPiece(s)
  <2>1. PICK s \in Slots : CountPiece(s)
    BY <1>6
  <2>2. Answer(s, TRUE) /\ rec'.chunks = rec.chunks + 1 /\ file' = file /\ reqs[s].pc = "count"
    BY <1>0, <2>1 DEF CountPiece
  <2>3. \A t \in Slots : Taking(t)' => Taking(t) /\ reqs'[t] = reqs[t] /\ t # s
    BY <2>2, AnswerTakesNothing, AnswerKeeps, NoReqTyped DEF Taking
  <2>4. \A t \in Slots : ~Taking(t)'
    BY <1>2, <2>2, <2>3 DEF Taking
  <2>5. file # <<>> /\ file[Len(file)] = rec.chunks
    BY <1>2, <2>2
  <2>6. rec.chunks \in InFile /\ InFile' = InFile
    BY <1>0, <2>2, <2>5 DEF InFile
  <2>7. 0 .. rec'.chunks - 1 = (0 .. rec.chunks - 1) \cup {rec.chunks}
    BY <1>0, <2>2
  <2> QED
    BY <1>0, <1>2, <2>2, <2>4, <2>5, <2>6, <2>7 DEF Taking
<1> QED
  BY <1>3, <1>4, <1>5, <1>6, StepTakes

(***************************************************************************)
(* The finish.                                                             *)
(***************************************************************************)
\* A step that leaves the row and the chat, and brings no finish: the browser hears of a
\* piece, or gives up.
LEMMA PostKept ==
  ASSUME TypeInv, PostInv, total' = total, posted' = posted, rec'.status = rec.status,
         \A s \in Slots : Finishing(s)' => Finishing(s) /\ reqs'[s].pc = reqs[s].pc,
         client'.pc = "send" \/ client'.piece < total => client.pc = "send" \/ client.piece < total,
         client'.pc = "saved" => client' = client
  PROVE  PostInv'
BY DEF PostInv

LEMMA StepPost ==
  ASSUME TypeInv, UploadInv, PostInv, [Next]_vars
  PROVE  PostInv'
<1>0. /\ client \in Client /\ client.piece \in Nat /\ total \in 0 .. MaxPieces /\ client.piece <= total
      /\ MaxPieces \in Nat \ {0} /\ reqs \in [Slots -> Request] /\ 0 \notin Slots
      /\ rec \in [status : {"uploading", "ready", "failed"}, chunks : Nat, size : Nat]
      /\ total' = total
  BY StepShape, RecordingAssumption DEF TypeInv, TypeOK, Client
<1>1. CASE Send
  <2>1. PICK s \in Free : /\ reqs' = [reqs EXCEPT ![s] = [pc |-> "sent", piece |-> Asks]]
                          /\ client' = [client EXCEPT !.pc = "wait", !.slot = s]
    BY <1>1 DEF Send, Asks
  <2>2. s \in Slots /\ client.pc = "send" /\ UNCHANGED <<rec, posted>>
    BY <1>1 DEF Send, Free
  <2>3. posted = 0 /\ rec.status = "uploading" /\ \A t \in Slots : ~Finishing(t)
    BY <2>2 DEF PostInv
  <2>4. reqs'[s].pc = "sent" /\ reqs'[s].piece = Asks /\ \A t \in Slots \ {s} : reqs'[t] = reqs[t]
    BY <1>0, <2>1, <2>2
  <2>5. client'.pc = "wait" /\ client'.piece = client.piece
    BY <1>0, <2>1 DEF Client
  <2>6. \A t \in Slots : Finishing(t)' => t = s
    BY <2>3, <2>4 DEF Finishing
  <2>7. client.piece < total => Asks # Finish
    BY <1>0 DEF Asks, Finish
  <2>8. client'.piece < total => \A t \in Slots : ~Finishing(t)'
    BY <2>3, <2>4, <2>5, <2>7 DEF Finishing
  <2> QED
    BY <1>0, <2>2, <2>3, <2>4, <2>5, <2>6, <2>8 DEF PostInv
<1>2. ASSUME client' = Failed(client) \/ client' = client, UNCHANGED <<rec, posted>>,
             \A s \in Slots : reqs'[s] = reqs[s] \/ reqs'[s] = NoReq
      PROVE  PostInv'
  <2>1. client'.piece = client.piece /\ (client' = client \/ client'.pc \in {"send", "error"})
    BY <1>2, FailedTyped
  <2>2. client'.pc = "send" => client.pc = "send" \/ client.piece < total
    BY <1>0, <1>2, FailedTyped
  <2>3. \A s \in Slots : Finishing(s)' => Finishing(s) /\ reqs'[s].pc = reqs[s].pc
    BY <1>2, NoReqTyped DEF Finishing
  <2> QED
    BY <1>0, <1>2, <2>1, <2>2, <2>3, PostKept
<1>3. CASE ConnectionLost \/ Crash \/ UNCHANGED vars
  BY <1>0, <1>2, <1>3 DEF ConnectionLost, Crash, vars
\* A request for a piece.
<1>4. ASSUME NEW s \in Slots, CheckPiece(s) \/ AppendPiece(s) \/ CountPiece(s) PROVE PostInv'
  <2>1. reqs[s].piece # Finish
    BY <1>4 DEF CheckPiece, AppendPiece, CountPiece, TypeInv
  <2>2. posted' = posted /\ rec'.status = rec.status
    BY <1>0, <1>4 DEF CheckPiece, AppendPiece, CountPiece
  <2>3. ASSUME NEW pc \in Accepted, Goto(s, pc), client' = client PROVE PostInv'
    <3>1. \A t \in Slots : reqs'[t].pc = (IF t = s THEN pc ELSE reqs[t].pc) /\ reqs'[t].piece = reqs[t].piece
      BY <2>3, GotoKeeps
    <3>2. \A t \in Slots : Finishing(t)' => Finishing(t) /\ reqs'[t].pc = reqs[t].pc
      BY <2>1, <3>1 DEF Finishing
    <3> QED
      BY <1>0, <2>2, <2>3, <3>2, PostKept
  <2>4. ASSUME NEW ok \in BOOLEAN, Answer(s, ok) PROVE PostInv'
    <3>1. /\ \A t \in Slots : reqs'[t] = IF t = s THEN NoReq ELSE reqs[t]
          /\ \/ client' = client /\ client.slot # s
             \/ client.slot = s /\ reqs[s].piece = Asks /\ Heard(ok)
      BY <2>4, AnswerKeeps
    <3>2. \A t \in Slots : Finishing(t)' => Finishing(t) /\ reqs'[t].pc = reqs[t].pc
      BY <3>1, NoReqTyped DEF Finishing
    <3>3. CASE client' = client
      BY <1>0, <2>2, <3>2, <3>3, PostKept
    <3>4. CASE client.slot = s /\ reqs[s].piece = Asks /\ Heard(ok)
      <4>1. client.piece < total
        BY <2>1, <3>4, AskedPiece
      <4>2. client'.pc # "saved"
        BY <1>0, <3>4, <4>1 DEF Heard
      <4> QED
        BY <1>0, <2>2, <3>2, <4>1, <4>2, PostKept
    <3> QED
      BY <3>1, <3>3, <3>4
  <2>5. \/ \E pc \in Accepted : Goto(s, pc) /\ client' = client
        \/ \E ok \in BOOLEAN : Answer(s, ok)
    BY <1>4, ServeShapes DEF Serve, TakePiece
  <2> QED
    BY <2>3, <2>4, <2>5
\* The finish itself.
<1>5. ASSUME NEW s \in Slots, CheckFinish(s) \/ PostVideo(s) \/ MarkReady(s)
      PROVE  /\ Finishing(s) /\ \A t \in Slots \ {s} : ~Finishing(t)
             /\ client.pc # "send" /\ client.piece = total
             /\ IF reqs[s].pc = "mark" THEN posted = 1 ELSE posted = 0 /\ rec.status = "uploading"
  <2>1. Finishing(s)
    BY <1>5, FinishTakesNothing DEF CheckFinish, PostVideo, MarkReady, Finishing
  <2>2. client.pc # "send" /\ ~(client.piece < total)
    BY <2>1 DEF PostInv
  <2> QED
    BY <1>0, <2>1, <2>2 DEF PostInv
<1>6. ASSUME NEW s \in Slots, CheckFinish(s) \/ PostVideo(s) \/ MarkReady(s), NEW ok \in BOOLEAN, Answer(s, ok)
      PROVE  /\ \A t \in Slots : ~Finishing(t)'
             /\ client'.pc # "send" /\ client'.piece = total
             /\ client'.pc = "saved" => client' = client \/ ok
  <2>1. /\ \A t \in Slots : reqs'[t] = IF t = s THEN NoReq ELSE reqs[t]
        /\ \/ client' = client /\ client.slot # s
           \/ client.slot = s /\ reqs[s].piece = Asks /\ Heard(ok)
    BY <1>6, AnswerKeeps
  <2>2. \A t \in Slots : ~Finishing(t)'
    BY <1>5, <1>6, <2>1, NoReqTyped DEF Finishing
  <2> QED
    BY <1>5, <1>6, <2>1, <2>2 DEF Heard
<1>7. ASSUME NEW s \in Slots, NEW pc \in {"post", "mark"}, Goto(s, pc), client' = client,
             CheckFinish(s) \/ PostVideo(s) \/ MarkReady(s)
      PROVE  /\ reqs'[s].pc = pc /\ \A t \in Slots : Finishing(t)' => t = s
             /\ client'.pc # "send" /\ client'.piece = total
  <2>1. pc \in Accepted
    BY DEF Accepted
  <2>2. \A t \in Slots : reqs'[t].pc = (IF t = s THEN pc ELSE reqs[t].pc) /\ reqs'[t].piece = reqs[t].piece
    BY <1>7, <2>1, GotoKeeps
  <2>3. \A t \in Slots : Finishing(t)' => t = s
    BY <1>5, <1>7, <2>2 DEF Finishing
  <2> QED
    BY <1>5, <1>7, <2>2, <2>3
<1>8. ASSUME NEW s \in Slots, CheckFinish(s) PROVE PostInv'
  <2>1. posted = 0 /\ rec.status = "uploading" /\ posted' = posted
    BY <1>5, <1>8 DEF CheckFinish
  <2>2. CASE rec.size = 0
    <3>1. Answer(s, TRUE) /\ rec'.status = "failed"
      BY <1>0, <1>8, <2>1, <2>2 DEF CheckFinish
    <3>2. total = 0
      BY <1>0, <1>5, <1>8, <2>2 DEF UploadInv
    <3>3. (\A t \in Slots : ~Finishing(t)') /\ client'.pc # "send" /\ client'.piece = total
      BY <1>6, <1>8, <3>1
    <3> QED
      BY <1>0, <2>1, <3>1, <3>2, <3>3 DEF PostInv
  <2>3. CASE rec.size # 0
    <3>1. Goto(s, "post") /\ rec' = rec /\ client' = client
      BY <1>8, <2>1, <2>3 DEF CheckFinish
    <3>2. /\ reqs'[s].pc = "post" /\ \A t \in Slots : Finishing(t)' => t = s
          /\ client'.pc # "send" /\ client'.piece = total
      BY <1>7, <1>8, <3>1
    <3> QED
      BY <1>0, <2>1, <3>1, <3>2 DEF PostInv
  <2> QED
    BY <2>2, <2>3
<1>9. ASSUME NEW s \in Slots, PostVideo(s) PROVE PostInv'
  <2>1. posted = 0 /\ rec.status = "uploading"
    BY <1>5, <1>9 DEF PostVideo
  <2>2. posted' = 1 /\ Goto(s, "mark") /\ rec' = rec /\ client' = client
    BY <1>9, <2>1 DEF PostVideo
  <2>3. /\ reqs'[s].pc = "mark" /\ \A t \in Slots : Finishing(t)' => t = s
        /\ client'.pc # "send" /\ client'.piece = total
    BY <1>7, <1>9, <2>2
  <2> QED
    BY <1>0, <2>1, <2>2, <2>3 DEF PostInv
<1>10. ASSUME NEW s \in Slots, MarkReady(s) PROVE PostInv'
  <2>1. posted = 1 /\ posted' = posted /\ Answer(s, TRUE) /\ rec'.status = "ready"
    BY <1>0, <1>5, <1>10 DEF MarkReady
  <2>2. (\A t \in Slots : ~Finishing(t)') /\ client'.pc # "send" /\ client'.piece = total
    BY <1>6, <1>10, <2>1
  <2> QED
    BY <1>0, <2>1, <2>2 DEF PostInv
<1> QED
  BY <1>1, <1>3, <1>4, <1>8, <1>9, <1>10 DEF Next, Done, Serve, TakePiece, Post

(***************************************************************************)
(* What the invariants say of the recording.                               *)
(***************************************************************************)
LEMMA InitSafe == Init => SafetyInv
<1> SUFFICES ASSUME Init PROVE SafetyInv
  OBVIOUS
<1>1. \A s \in Slots : reqs[s].pc = "none"
  BY NoReqTyped DEF Init
<1>2. client.pc = "send" /\ client.piece = 0
  BY DEF Init
<1>3. rec.chunks = 0 /\ rec.size = 0 /\ rec.status = "uploading" /\ file = <<>> /\ posted = 0
  BY DEF Init
<1>4. CountedIsInFile
  BY <1>3 DEF CountedIsInFile
<1> QED
  BY <1>1, <1>2, <1>3, <1>4 DEF SafetyInv, UploadInv, FileInv, PostInv, Taking, Finishing

LEMMA SafetyInvariant == Spec => []SafetyInv
<1>1. Init => SafetyInv
  BY InitSafe
<1>2. TypeInv /\ SafetyInv /\ [Next]_vars => SafetyInv'
  BY StepUpload, StepFile, StepPost DEF SafetyInv
<1> QED
  BY <1>1, <1>2, TypeInvariant, PTL DEF Spec

\* A piece that is counted is in the file and the pieces are in order, unless two requests
\* for one piece ran at once (recordingChunk).
THEOREM CountedIsAlwaysInFile == Spec => []CountedIsInFile
<1>1. SafetyInv => CountedIsInFile
  BY DEF SafetyInv, FileInv, CountedIsInFile
<1> QED
  BY <1>1, SafetyInvariant, PTL

\* The video is posted at most once, and when the browser says it is saved it is posted
\* with every piece (finishRecording).
THEOREM SavedIsAlwaysPosted == Spec => []SavedIsPosted
<1>1. TypeInv /\ SafetyInv => SavedIsPosted
  <2> SUFFICES ASSUME TypeInv, SafetyInv PROVE SavedIsPosted
    OBVIOUS
  <2>1. ReadyIsPostedOnce
    BY DEF SafetyInv, PostInv, ReadyIsPostedOnce
  <2>2. ASSUME client.pc = "saved", total > 0, ~raced PROVE 0 .. total - 1 \subseteq InFile
    <3>1. total <= rec.chunks /\ total \in Nat /\ rec.chunks \in Nat
      BY <2>2, RecordingAssumption DEF SafetyInv, PostInv, UploadInv, TypeInv, TypeOK
    <3>2. 0 .. total - 1 \subseteq 0 .. rec.chunks - 1
      BY <3>1
    <3> QED
      BY <2>2, <3>2 DEF SafetyInv, FileInv, CountedIsInFile
  <2> QED
    BY <2>1, <2>2 DEF SafetyInv, PostInv, SavedIsPosted
<1> QED
  BY <1>1, TypeInvariant, SafetyInvariant, PTL

=============================================================================
