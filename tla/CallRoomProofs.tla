--------------------------- MODULE CallRoomProofs ---------------------------
(***************************************************************************)
(* Proofs about CallRoom, for any people, any number of calls and any      *)
(* limits: the rooms stay well typed, one conversation never has two live  *)
(* calls, the ChatCall rows follow memory, no guest is in a call without   *)
(* having been let in, and whoever is in a call is connected to the others.*)
(***************************************************************************)
EXTENDS CallRoom, TLAPS

Request == [at: Steps, call: CallIds \cup {NoCall}, others: SUBSET People]

\* What a request in flight holds: a starter the row it created, a join the
\* call it will enter, an invitation the people it will ring.
Held == \A u \in People : /\ pc[u].at \in {"register", "enter"} => pc[u].call \in CallIds
                          /\ At(u, "ring") => pc[u].others \subseteq Staff

LEMMA ReadyType == Ready \in Request
  BY DEF Ready, Request, Steps

\* A request that moves on keeps its type and what it holds.
LEMMA GotoType ==
    ASSUME TypeOK, Held, NEW u \in People, NEW s \in Steps \ {"register", "enter", "ring"}, Goto(u, s)
    PROVE  pc' \in [People -> Request] /\ Held'
<1>1. pc' \in [People -> Request]
  <2>1. pc \in [People -> Request]
    BY DEF TypeOK, Request
  <2>2. [pc[u] EXCEPT !.at = s] \in Request
    <3>1. pc[u] \in Request BY <2>1
    <3> QED BY <3>1 DEF Request
  <2>3. pc' = [pc EXCEPT ![u] = [pc[u] EXCEPT !.at = s]]
    BY DEF Goto
  <2> QED BY <2>1, <2>2, <2>3
<1>2. ASSUME NEW v \in People, v # u PROVE pc'[v] = pc[v]
  BY <1>2 DEF TypeOK, Goto
<1>3. pc'[u].at = s
  BY DEF TypeOK, Goto
<1> QED BY <1>1, <1>2, <1>3 DEF Held, At

LEMMA SetType ==
    ASSUME TypeOK, Held, NEW u \in People, NEW q \in Request,
           pc' = [pc EXCEPT ![u] = q],
           q.at \in {"register", "enter"} => q.call \in CallIds,
           q.at = "ring" => q.others \subseteq Staff
    PROVE  pc' \in [People -> Request] /\ Held'
<1>1. pc' \in [People -> Request]
  BY DEF TypeOK, Request
<1>2. ASSUME NEW v \in People, v # u PROVE pc'[v] = pc[v]
  BY <1>2 DEF TypeOK
<1>3. pc'[u] = q
  BY DEF TypeOK
<1> QED BY <1>1, <1>2, <1>3 DEF Held, At

LEMMA DoneType ==
    ASSUME TypeOK, Held, NEW u \in People, Done(u)
    PROVE  pc' \in [People -> Request] /\ Held'
  BY ReadyType, SetType DEF Done, Ready

LEMMA SameRequests ==
    ASSUME TypeOK, Held, UNCHANGED pc
    PROVE  pc' \in [People -> Request] /\ Held'
  BY DEF TypeOK, Held, At, Request

\* The pairs that list each other's call at once are pairs of people.
LEMMA CrossedType ==
    ASSUME TypeOK, NEW u \in People, NEW c \in CallIds
    PROVE  Crossed(u, c) \subseteq SUBSET People
  BY DEF Crossed, TypeOK

\* Every step keeps the types, action by action.
LEMMA TypeStep == TypeOK /\ Held /\ [Next]_vars => TypeOK' /\ Held'
<1> SUFFICES ASSUME TypeOK, Held, [Next]_vars PROVE TypeOK' /\ Held'
  OBVIOUS
<1> USE CallAssumption DEF People, At, Held
<1>1. ASSUME NEW u \in Staff, Start(u) PROVE TypeOK' /\ Held'
  <2>1. CASE StartAsk(u) BY <2>1, GotoType DEF TypeOK, room, Steps, Request, StartAsk
  <2>2. CASE StartLock(u) BY <2>2, GotoType DEF TypeOK, room, Steps, Request, StartLock
  <2>3. CASE StartExisting(u) BY <2>3, DoneType DEF TypeOK, room, Steps, Ready, Request, StartExisting
  <2>4. CASE StartNew(u) BY <2>4, GotoType DEF TypeOK, room, Steps, Request, StartNew
  <2>5. CASE StartCreate(u)
    <3>1. PICK c \in CallIds :
             /\ row' = [row EXCEPT ![c] = "open"]
             /\ pc' = [pc EXCEPT ![u] = [at |-> "register", call |-> c, others |-> {}]]
      BY <2>5 DEF StartCreate, Unused
    <3>2. [at |-> "register", call |-> c, others |-> {}] \in Request
      BY DEF Request, Steps
    <3>3. pc' \in [People -> Request] /\ Held'
      BY <3>1, <3>2, SetType
    <3>4. row' \in [CallIds -> {"none", "open", "ended"}]
      BY <3>1 DEF TypeOK
    <3> QED BY <2>5, <3>3, <3>4 DEF StartCreate, TypeOK, room, Request
  <2>6. CASE StartRegister(u) BY <2>6, GotoType DEF TypeOK, room, Steps, Request, StartRegister
  <2>7. CASE StartDone(u) BY <2>7, DoneType DEF TypeOK, room, Steps, Ready, Request, StartDone
  <2> QED BY <1>1, <2>1, <2>2, <2>3, <2>4, <2>5, <2>6, <2>7 DEF Start
<1>2. ASSUME NEW u \in Staff, NEW c \in CallIds, JoinAsk(u, c) PROVE TypeOK' /\ Held'
  BY <1>2 DEF JoinAsk, TypeOK, room, Steps
<1>3. ASSUME NEW u \in Staff, NEW c \in CallIds, JoinCheck(u, c) PROVE TypeOK' /\ Held'
  <2>1. [at |-> "enter", call |-> c, others |-> here[c] \ {u}] \in Request /\ Ready \in Request
    BY DEF TypeOK, Request, Steps, Ready
  <2>2. crossed' \subseteq SUBSET People
    BY <1>3, CrossedType DEF JoinCheck, TypeOK
  <2>3. pc' \in [People -> Request] /\ Held'
    <3>1. CASE Done(u) BY <3>1, DoneType
    <3>2. CASE pc' = [pc EXCEPT ![u] = [at |-> "enter", call |-> c, others |-> here[c] \ {u}]]
      BY <3>2, <2>1, SetType
    <3> QED BY <1>3, <3>1, <3>2 DEF JoinCheck
  <2> QED BY <1>3, <2>2, <2>3 DEF JoinCheck, TypeOK, room, Request
<1>4. ASSUME NEW u \in People, JoinEnter(u) PROVE TypeOK' /\ Held'
  <2>1. here' \in [CallIds -> SUBSET People] /\ quiet' \in [CallIds -> SUBSET People]
    BY <1>4 DEF JoinEnter, Enter, TypeOK
  <2>2. links' \subseteq SUBSET People BY <1>4 DEF JoinEnter, Enter, TypeOK
  <2> QED BY <1>4, <2>1, <2>2, GotoType DEF JoinEnter, TypeOK, Steps, Request
<1>5. ASSUME NEW u \in People, JoinReply(u) PROVE TypeOK' /\ Held'
  <2>1. links' \subseteq SUBSET People BY <1>5 DEF JoinReply, TypeOK
  <2> QED BY <1>5, <2>1, DoneType DEF TypeOK, room, Steps, Ready, Request, JoinReply
<1>6. ASSUME NEW u \in People, NEW c \in CallIds,
             GoQuiet(u, c) \/ PollCall(u, c) \/ LeaveCall(u, c) PROVE TypeOK' /\ Held'
  <2>1. CASE GoQuiet(u, c) BY <2>1 DEF GoQuiet, TypeOK
  <2>2. CASE PollCall(u, c) BY <2>2 DEF PollCall, TypeOK
  <2>3. CASE LeaveCall(u, c) BY <2>3 DEF LeaveCall, Drop, TypeOK
  <2> QED BY <1>6, <2>1, <2>2, <2>3
<1>7. ASSUME NEW c \in CallIds, Sweep(c) PROVE TypeOK' /\ Held'
  BY <1>7 DEF Sweep, Drop, TypeOK
<1>8. ASSUME NEW c \in CallIds, GrowOld(c) PROVE TypeOK' /\ Held'
  BY <1>8 DEF GrowOld, TypeOK
<1>9. ASSUME NEW c \in CallIds, EndRow(c) PROVE TypeOK' /\ Held'
  BY <1>9 DEF EndRow, TypeOK, NoLobby, Statuses
<1>10. ASSUME NEW c \in CallIds, Lobby(c) PROVE TypeOK' /\ Held'
  <2> PICK g \in Guests : \/ GuestKnock(g, c) \/ LobbyExpire(g, c) \/ JoinGuest(g, c)
                          \/ \E u \in Staff : AnswerGuest(u, g, c)
    BY <1>10 DEF Lobby
  <2>1. CASE GuestKnock(g, c) BY <2>1 DEF GuestKnock, TypeOK, Statuses
  <2>2. CASE LobbyExpire(g, c) BY <2>2 DEF LobbyExpire, TypeOK, Statuses
  <2>3. CASE JoinGuest(g, c)
    <3>1. crossed' \subseteq SUBSET People
      BY <2>3, CrossedType DEF JoinGuest
    <3> QED BY <2>3, <3>1 DEF JoinGuest, Enter, TypeOK, Steps
  <2>4. ASSUME NEW u \in Staff, AnswerGuest(u, g, c) PROVE TypeOK' /\ Held'
    <3> PICK s \in {"denied", "admitted"} :
          /\ lobby' = [lobby EXCEPT ![c][g] = s]
          /\ UNCHANGED admitted \/ admitted' = [admitted EXCEPT ![c] = @ \cup {g}]
      BY <2>4 DEF AnswerGuest
    <3>1. lobby' \in [CallIds -> [Guests -> Statuses]]
      BY DEF TypeOK, Statuses
    <3>2. admitted' \in [CallIds -> SUBSET Guests]
      <4>1. CASE UNCHANGED admitted BY <4>1 DEF TypeOK
      <4>2. CASE admitted' = [admitted EXCEPT ![c] = @ \cup {g}] BY <4>2 DEF TypeOK
      <4> QED BY <4>1, <4>2
    <3> QED BY <2>4, <3>1, <3>2, SameRequests DEF AnswerGuest, TypeOK, Request
  <2> QED BY <2>1, <2>2, <2>3, <2>4
<1>11. ASSUME NEW u \in Staff, NEW c \in CallIds, DeclineAsk(u, c) PROVE TypeOK' /\ Held'
  BY <1>11 DEF DeclineAsk, TypeOK, room, Steps
<1>12. ASSUME NEW u \in Staff, NEW c \in CallIds, DeclineCall(u, c) PROVE TypeOK' /\ Held'
  BY <1>12, DoneType DEF DeclineCall, TypeOK, Request, Ready
<1>13. ASSUME NEW u \in Staff, NEW v \in Staff, NEW c \in CallIds, InviteAsk(u, v, c)
       PROVE TypeOK' /\ Held'
  BY <1>13 DEF InviteAsk, TypeOK, room, Steps
<1>14. ASSUME NEW u \in Staff, InviteToCall(u) PROVE TypeOK' /\ Held'
  BY <1>14, DoneType DEF InviteToCall, TypeOK, Request, Ready
<1>15. CASE Restart
  BY <1>15 DEF Restart, TypeOK, Nobody, NoLobby, Ready, Steps, Statuses
<1>16. CASE UNCHANGED vars
  BY <1>16 DEF vars, room, TypeOK
<1> QED BY <1>1, <1>2, <1>3, <1>4, <1>5, <1>6, <1>7, <1>8, <1>9, <1>10, <1>11, <1>12,
           <1>13, <1>14, <1>15, <1>16 DEF Next

\* The rooms are well typed at every moment.
THEOREM TypeCorrect == Spec => []TypeOK
<1>1. Init => TypeOK /\ Held
  BY CallAssumption DEF Init, TypeOK, Held, At, Nobody, NoLobby, Ready, Steps, Statuses, People
<1>2. TypeOK /\ Held /\ [Next]_vars => TypeOK' /\ Held'
  BY TypeStep
<1> QED BY <1>1, <1>2, PTL DEF Spec
-----------------------------------------------------------------------------
(***************************************************************************)
(* One call, and rows that follow memory.  What makes it inductive: only   *)
(* the holder of the lock is past its wait, and while it creates the call  *)
(* there is none; a call being registered or being ended has an open row.  *)
(***************************************************************************)
Creating == {"inner", "create", "register", "announce"}

OnlyHolder == \A u \in People : pc[u].at \in Creating => lock = u

NoneWhileCreating ==
    \A u \in People : pc[u].at \in {"create", "register"} => live = {}

RegisterOpen ==
    \A u \in People : At(u, "register") =>
        row[pc[u].call] = "open" /\ pc[u].call \notin ending

EndingOpen == \A c \in ending : row[c] = "open" /\ c \notin live

LockInv ==
    /\ OnlyHolder /\ NoneWhileCreating /\ RegisterOpen /\ EndingOpen
    /\ OneCall /\ RowsFollowLive

\* A step that leaves requests, rows and the set of calls alone.
LEMMA LockFrame ==
    ASSUME LockInv, UNCHANGED <<live, ending, row, lock, pc>>
    PROVE  LockInv'
  BY DEF LockInv, OnlyHolder, NoneWhileCreating, RegisterOpen, EndingOpen, OneCall,
         RowsFollowLive, At

\* A step of one person's request that ends up at none of the creating steps.
LEMMA LockRequest ==
    ASSUME LockInv, TypeOK, NEW u \in People, UNCHANGED <<live, ending, row, lock>>,
           pc[u].at # "register",
           \A v \in People : v # u => pc'[v] = pc[v],
           pc'[u].at \notin Creating
    PROVE  LockInv'
<1>1. OnlyHolder' BY DEF LockInv, OnlyHolder
<1>2. NoneWhileCreating' BY DEF LockInv, NoneWhileCreating, Creating
<1>3. RegisterOpen' BY DEF LockInv, RegisterOpen, At, Creating
<1>4. EndingOpen' /\ OneCall' BY DEF LockInv, EndingOpen, OneCall
<1>5. RowsFollowLive'
  BY DEF LockInv, RowsFollowLive, At, People
<1> QED BY <1>1, <1>2, <1>3, <1>4, <1>5 DEF LockInv

\* Removing people from a call, and the call from memory if it is over.
LEMMA LockDrop ==
    ASSUME LockInv, TypeOK, NEW c \in live, NEW gone, NEW end,
           Drop(c, gone, end), UNCHANGED <<row, lock, pc>>
    PROVE  LockInv'
<1>1. CASE UNCHANGED <<live, ending>>
  BY <1>1, LockFrame
<1>2. CASE live' = live \ {c} /\ ending' = ending \cup {c}
  <2>1. \A u \in People : pc[u].at \notin {"create", "register"}
    BY DEF LockInv, NoneWhileCreating
  <2>2. EndingOpen' BY <1>2 DEF LockInv, EndingOpen, RowsFollowLive
  <2>3. RowsFollowLive' BY <1>2, <2>1 DEF LockInv, RowsFollowLive, At, People
  <2> QED BY <1>2, <2>1, <2>2, <2>3
          DEF LockInv, OnlyHolder, NoneWhileCreating, RegisterOpen, OneCall, At
<1> QED BY <1>1, <1>2 DEF Drop

LEMMA LockStart ==
    ASSUME LockInv, TypeOK, TypeOK', NEW u \in Staff, Start(u)
    PROVE  LockInv'
<1> USE CallAssumption DEF At
<1>0. u \in People /\ lock \in Staff \cup {NoOne} /\ NoOne \notin People
  BY DEF TypeOK, People
<1>1. CASE StartAsk(u)
  BY <1>0, <1>1, LockRequest DEF StartAsk, Goto, TypeOK, Creating
<1>2. CASE StartLock(u)
  <2>1. \A v \in People : pc[v].at \notin Creating
    BY <1>0, <1>2 DEF StartLock, LockInv, OnlyHolder
  <2>3. \A v \in People : pc'[v].at \in Creating => v = u /\ pc'[v].at = "inner"
    BY <1>0, <1>2, <2>1 DEF StartLock, Goto, TypeOK
  <2>4. RowsFollowLive'
    BY <1>2, <2>1 DEF StartLock, LockInv, RowsFollowLive, Creating, People
  <2> QED BY <1>2, <2>3, <2>4 DEF StartLock, LockInv, OnlyHolder, NoneWhileCreating,
            RegisterOpen, EndingOpen, OneCall, Creating
<1>3. ASSUME \/ StartExisting(u) \/ StartDone(u) PROVE LockInv'
  <2>1. pc[u].at \in Creating \ {"register"} /\ lock = u
    BY <1>0, <1>3 DEF StartExisting, StartDone, LockInv, OnlyHolder, Creating
  <2>2. \A v \in People : v # u => pc[v].at \notin Creating /\ pc'[v] = pc[v]
    BY <1>0, <1>3, <2>1 DEF StartExisting, StartDone, Done, LockInv, OnlyHolder, TypeOK
  <2>3. pc'[u].at = "idle"
    BY <1>0, <1>3 DEF StartExisting, StartDone, Done, Ready, TypeOK
  <2>4. \A v \in People : pc'[v].at \notin Creating
    BY <2>2, <2>3 DEF Creating
  <2>5. UNCHANGED <<live, ending, row>>
    BY <1>3 DEF StartExisting, StartDone
  <2>6. RowsFollowLive'
    BY <1>0, <2>1, <2>2, <2>5 DEF LockInv, RowsFollowLive, Creating, People
  <2> QED BY <2>4, <2>5, <2>6 DEF LockInv, OnlyHolder, NoneWhileCreating,
            RegisterOpen, EndingOpen, OneCall, Creating
<1>4. CASE StartNew(u)
  <2>1. \A v \in People : v # u => pc'[v] = pc[v]
    BY <1>0, <1>4 DEF StartNew, Goto, TypeOK
  <2>2. pc'[u].at = "create" /\ pc[u].at = "inner" /\ live = {}
    BY <1>0, <1>4 DEF StartNew, Goto, TypeOK
  <2>3. RowsFollowLive'
    BY <1>0, <1>4, <2>1, <2>2 DEF StartNew, LockInv, RowsFollowLive, People
  <2> QED BY <1>4, <2>1, <2>2, <2>3 DEF StartNew, LockInv, OnlyHolder, NoneWhileCreating,
            RegisterOpen, EndingOpen, OneCall, Creating
<1>5. CASE StartCreate(u)
  <2>1. PICK c \in CallIds :
           /\ row[c] = "none"
           /\ row' = [row EXCEPT ![c] = "open"]
           /\ pc' = [pc EXCEPT ![u] = [at |-> "register", call |-> c, others |-> {}]]
    BY <1>5 DEF StartCreate, Unused
  <2>2. /\ pc[u].at = "create" /\ lock = u /\ live = {} /\ UNCHANGED <<live, ending, lock>>
        /\ c \notin ending
    BY <1>0, <1>5, <2>1 DEF StartCreate, LockInv, OnlyHolder, NoneWhileCreating, EndingOpen, Creating
  <2>3. \A v \in People : v # u => pc'[v] = pc[v] /\ pc[v].at \notin Creating
    BY <1>0, <2>1, <2>2 DEF TypeOK, LockInv, OnlyHolder
  <2>4. pc'[u].at = "register" /\ pc'[u].call = c
    BY <1>0, <2>1 DEF TypeOK
  <2>5. \A d \in CallIds : d # c => row'[d] = row[d]
    BY <2>1 DEF TypeOK
  <2>6. row'[c] = "open"
    BY <2>1 DEF TypeOK
  <2>7. RowsFollowLive'
    BY <1>0, <2>2, <2>3, <2>4, <2>5, <2>6 DEF LockInv, RowsFollowLive, People
  <2>8. EndingOpen'
    BY <2>2, <2>5 DEF LockInv, EndingOpen, TypeOK
  <2> QED BY <2>2, <2>3, <2>4, <2>6, <2>7, <2>8 DEF LockInv, OnlyHolder, NoneWhileCreating,
            RegisterOpen, OneCall, Creating
<1>6. CASE StartRegister(u)
  <2> DEFINE c == pc[u].call
  <2>1. /\ pc[u].at = "register" /\ lock = u /\ live = {} /\ row[c] = "open" /\ c \notin ending
        /\ UNCHANGED <<row, ending, lock>> /\ live' = {c}
    BY <1>0, <1>6 DEF StartRegister, LockInv, OnlyHolder, NoneWhileCreating, RegisterOpen, Creating
  <2>2. \A v \in People : v # u => pc'[v] = pc[v] /\ pc[v].at \notin Creating
    BY <1>0, <1>6, <2>1 DEF StartRegister, Goto, TypeOK, LockInv, OnlyHolder
  <2>3. pc'[u].at = "announce"
    BY <1>0, <1>6 DEF StartRegister, Goto, TypeOK
  <2>4. RowsFollowLive'
    BY <1>0, <2>1, <2>2 DEF LockInv, RowsFollowLive, Creating, People
  <2> QED BY <2>1, <2>2, <2>3, <2>4 DEF LockInv, OnlyHolder, NoneWhileCreating,
            RegisterOpen, EndingOpen, OneCall, Creating
<1> QED BY <1>1, <1>2, <1>3, <1>4, <1>5, <1>6 DEF Start

LEMMA LockStep == LockInv /\ TypeOK /\ TypeOK' /\ [Next]_vars => LockInv'
<1> SUFFICES ASSUME LockInv, TypeOK, TypeOK', [Next]_vars PROVE LockInv'
  OBVIOUS
<1> USE CallAssumption DEF At, Creating
<1>0. Staff \subseteq People BY DEF People
<1>1. ASSUME NEW u \in Staff, Start(u) PROVE LockInv'
  BY <1>1, LockStart
<1>2. ASSUME NEW u \in Staff, NEW c \in CallIds,
             \/ JoinAsk(u, c) \/ JoinCheck(u, c) \/ DeclineAsk(u, c) \/ DeclineCall(u, c)
             \/ \E v \in Staff : InviteAsk(u, v, c)
      PROVE  LockInv'
  <2>1. /\ UNCHANGED <<live, ending, row, lock>>
        /\ pc[u].at # "register"
        /\ \A v \in People : v # u => pc'[v] = pc[v]
        /\ pc'[u].at \notin Creating
    BY <1>0, <1>2 DEF JoinAsk, JoinCheck, DeclineAsk, DeclineCall, InviteAsk, Done, Ready, TypeOK
  <2> QED BY <1>0, <2>1, LockRequest
<1>3. ASSUME NEW u \in People,
             JoinEnter(u) \/ JoinReply(u) \/ (u \in Staff /\ InviteToCall(u))
      PROVE  LockInv'
  <2>1. /\ UNCHANGED <<live, ending, row, lock>>
        /\ pc[u].at # "register"
        /\ \A v \in People : v # u => pc'[v] = pc[v]
        /\ pc'[u].at \notin Creating
    BY <1>3 DEF JoinEnter, JoinReply, InviteToCall, Goto, Done, Ready, TypeOK
  <2> QED BY <2>1, LockRequest
<1>4. ASSUME NEW u \in People, NEW c \in CallIds,
             GoQuiet(u, c) \/ PollCall(u, c) \/ LeaveCall(u, c)
      PROVE  LockInv'
  <2>1. CASE GoQuiet(u, c) BY <2>1, LockFrame DEF GoQuiet
  <2>2. CASE PollCall(u, c) BY <2>2, LockFrame DEF PollCall
  <2>3. CASE LeaveCall(u, c)
    <3>1. c \in live /\ Drop(c, {u}, here[c] \subseteq {u}) /\ UNCHANGED <<row, lock, pc>>
      BY <2>3 DEF LeaveCall
    <3> QED BY <3>1, LockDrop
  <2> QED BY <1>4, <2>1, <2>2, <2>3
<1>5. ASSUME NEW c \in CallIds, Sweep(c) PROVE LockInv'
  <2> DEFINE over == here[c] \ quiet[c] = {} /\ c \in old
  <2>1. c \in live /\ Drop(c, quiet[c], over) /\ UNCHANGED <<row, lock, pc>>
    BY <1>5 DEF Sweep
  <2> HIDE DEF over
  <2> QED BY <2>1, LockDrop
<1>6. ASSUME NEW c \in CallIds, GrowOld(c) PROVE LockInv'
  BY <1>6, LockFrame DEF GrowOld
<1>7. ASSUME NEW c \in CallIds, EndRow(c) PROVE LockInv'
  <2>1. /\ c \in ending /\ ending' = ending \ {c} /\ UNCHANGED <<live, lock, pc>>
        /\ row' = [row EXCEPT ![c] = "ended"] /\ c \notin live
    BY <1>7 DEF EndRow, LockInv, EndingOpen
  <2>2. \A d \in CallIds : d # c => row'[d] = row[d]
    BY <2>1 DEF TypeOK
  <2>3. row'[c] = "ended" BY <2>1 DEF TypeOK
  <2>4. RegisterOpen'
    BY <2>1, <2>2 DEF LockInv, RegisterOpen, TypeOK
  <2>5. EndingOpen' BY <2>1, <2>2 DEF LockInv, EndingOpen, TypeOK
  <2>6. RowsFollowLive'
    BY <2>1, <2>2, <2>3 DEF LockInv, RowsFollowLive, TypeOK
  <2> QED BY <2>1, <2>4, <2>5, <2>6 DEF LockInv, OnlyHolder, NoneWhileCreating, OneCall
<1>8. ASSUME NEW c \in CallIds, Lobby(c) PROVE LockInv'
  <2> PICK g \in Guests : \/ GuestKnock(g, c) \/ LobbyExpire(g, c) \/ JoinGuest(g, c)
                          \/ \E u \in Staff : AnswerGuest(u, g, c)
    BY <1>8 DEF Lobby
  <2>1. CASE JoinGuest(g, c)
    <3>1. /\ UNCHANGED <<live, ending, row, lock>>
          /\ pc[g].at # "register"
          /\ \A v \in People : v # g => pc'[v] = pc[v]
          /\ pc'[g].at \notin Creating
      BY <2>1 DEF JoinGuest, TypeOK, People
    <3> QED BY <3>1, LockRequest DEF People
  <2>2. CASE GuestKnock(g, c) BY <2>2, LockFrame DEF GuestKnock
  <2>3. CASE LobbyExpire(g, c) BY <2>3, LockFrame DEF LobbyExpire
  <2>4. CASE \E u \in Staff : AnswerGuest(u, g, c) BY <2>4, LockFrame DEF AnswerGuest
  <2> QED BY <2>1, <2>2, <2>3, <2>4
<1>9. CASE Restart
  BY <1>9 DEF Restart, Ready, LockInv, OnlyHolder, NoneWhileCreating, RegisterOpen,
      EndingOpen, OneCall, RowsFollowLive, TypeOK
<1>10. CASE UNCHANGED vars
  BY <1>10, LockFrame DEF vars
<1> QED BY <1>0, <1>1, <1>2, <1>3, <1>4, <1>5, <1>6, <1>7, <1>8, <1>9, <1>10 DEF Next

LEMMA LockAlways == Spec => [](LockInv /\ TypeOK)
<1>1. Init => TypeOK /\ Held
  BY CallAssumption DEF Init, TypeOK, Held, At, Nobody, NoLobby, Ready, Steps, Statuses, People
<1>2. Init => LockInv
  BY DEF Init, LockInv, OnlyHolder, NoneWhileCreating, RegisterOpen, EndingOpen, OneCall,
         RowsFollowLive, Ready, At, Creating, People
<1>3. TypeOK /\ Held /\ [Next]_vars => TypeOK' /\ Held'
  BY TypeStep
<1> QED BY <1>1, <1>2, <1>3, LockStep, PTL DEF Spec

\* startCall: the requests of any number of people, the sweeper, leaving and
\* restarts never leave two live calls in the conversation.
THEOREM OneCallAlways == Spec => []OneCall
<1>1. LockInv => OneCall BY DEF LockInv
<1> QED BY <1>1, LockAlways, PTL

\* A ChatCall row is open exactly while its call lives, is being created, or is
\* being ended: no history entry runs for ever, no live call is marked ended.
THEOREM RowsAlwaysFollow == Spec => []RowsFollowLive
<1>1. LockInv => RowsFollowLive BY DEF LockInv
<1> QED BY <1>1, LockAlways, PTL

-----------------------------------------------------------------------------
(***************************************************************************)
(* Guests.  Every guest in a call is on its list of admitted people, every *)
(* one on that list was let in from the lobby and stays marked so, and a   *)
(* guest's request never takes the path of the staff's join.               *)
(***************************************************************************)
GuestRequests == \A g \in Guests : pc[g].at \in {"idle", "reply"}
AdmittedInLobby == \A c \in CallIds : \A g \in admitted[c] : lobby[c][g] = "admitted"
GuestsOnList == \A c \in CallIds : here[c] \cap Guests \subseteq admitted[c]

GuestInv == GuestRequests /\ AdmittedInLobby /\ GuestsOnList

\* Whatever leaves the lobby and the list alone, brings no guest in and starts
\* nothing for a guest keeps it.
LEMMA GuestFrame ==
    ASSUME GuestInv, TypeOK, UNCHANGED <<admitted, lobby>>,
           \A c \in CallIds : here'[c] \cap Guests \subseteq here[c],
           \A g \in Guests : pc'[g] = pc[g] \/ pc'[g] = Ready
    PROVE  GuestInv'
  BY DEF GuestInv, GuestRequests, AdmittedInLobby, GuestsOnList, Ready

LEMMA StaffRequest ==
    ASSUME TypeOK, NEW u \in Staff, NEW q, pc' = [pc EXCEPT ![u] = q]
    PROVE  \A g \in Guests : pc'[g] = pc[g]
  BY CallAssumption DEF TypeOK, People

LEMMA GuestStep == GuestInv /\ TypeOK /\ TypeOK' /\ [Next]_vars => GuestInv'
<1> SUFFICES ASSUME GuestInv, TypeOK, TypeOK', [Next]_vars PROVE GuestInv'
  OBVIOUS
<1> USE CallAssumption DEF At, People
<1>1. ASSUME NEW u \in Staff, Start(u) PROVE GuestInv'
  <2>1. UNCHANGED <<admitted, lobby, here>>
    BY <1>1 DEF Start, StartAsk, StartLock, StartExisting, StartNew, StartCreate,
                StartRegister, StartDone, room
  <2>2. \A g \in Guests : pc'[g] = pc[g]
    BY <1>1 DEF Start, StartAsk, StartLock, StartExisting, StartNew, StartCreate,
                StartRegister, StartDone, Goto, Done, TypeOK
  <2> QED BY <2>1, <2>2, GuestFrame
<1>2. ASSUME NEW u \in Staff, NEW c \in CallIds,
             \/ JoinAsk(u, c) \/ JoinCheck(u, c) \/ DeclineAsk(u, c) \/ DeclineCall(u, c)
             \/ \E v \in Staff : InviteAsk(u, v, c)
      PROVE  GuestInv'
  <2>1. UNCHANGED <<admitted, lobby, here>>
    BY <1>2 DEF JoinAsk, JoinCheck, DeclineAsk, DeclineCall, InviteAsk, room
  <2>2. \A g \in Guests : pc'[g] = pc[g]
    BY <1>2 DEF JoinAsk, JoinCheck, DeclineAsk, DeclineCall, InviteAsk, Done, TypeOK
  <2> QED BY <2>1, <2>2, GuestFrame
<1>3. ASSUME NEW u \in Staff, InviteToCall(u) PROVE GuestInv'
  <2>1. UNCHANGED <<admitted, lobby, here>> /\ \A g \in Guests : pc'[g] = pc[g]
    BY <1>3 DEF InviteToCall, Done, TypeOK
  <2> QED BY <2>1, GuestFrame
<1>4. ASSUME NEW u \in People, JoinEnter(u) PROVE GuestInv'
  <2>1. u \in Staff
    BY <1>4 DEF JoinEnter, GuestInv, GuestRequests
  <2>2. \A c \in CallIds : here'[c] \cap Guests \subseteq here[c]
    BY <1>4, <2>1 DEF JoinEnter, Enter, TypeOK
  <2>3. UNCHANGED <<admitted, lobby>> /\ \A g \in Guests : pc'[g] = pc[g]
    BY <1>4, <2>1 DEF JoinEnter, Goto, TypeOK
  <2> QED BY <2>2, <2>3, GuestFrame
<1>5. ASSUME NEW u \in People, JoinReply(u) PROVE GuestInv'
  <2>1. /\ UNCHANGED <<admitted, lobby, here>>
        /\ \A g \in Guests : pc'[g] = pc[g] \/ pc'[g] = Ready
    BY <1>5 DEF JoinReply, Done, room, TypeOK
  <2> QED BY <2>1, GuestFrame
<1>6. ASSUME NEW u \in People, NEW c \in CallIds,
             GoQuiet(u, c) \/ PollCall(u, c) \/ LeaveCall(u, c)
      PROVE  GuestInv'
  <2>1. /\ UNCHANGED <<admitted, lobby, pc>>
        /\ \A d \in CallIds : here'[d] \cap Guests \subseteq here[d]
    BY <1>6 DEF GoQuiet, PollCall, LeaveCall, Drop, TypeOK
  <2> QED BY <2>1, GuestFrame
<1>7. ASSUME NEW c \in CallIds, EndRow(c) PROVE GuestInv'
  <2>1. /\ pc' = pc
        /\ \A d \in CallIds : d # c => /\ here'[d] = here[d] /\ admitted'[d] = admitted[d]
                                       /\ lobby'[d] = lobby[d]
        /\ here'[c] = {} /\ admitted'[c] = {}
    BY <1>7 DEF EndRow, TypeOK
  <2> QED BY <2>1 DEF GuestInv, GuestRequests, AdmittedInLobby, GuestsOnList
<1>8. ASSUME NEW c \in CallIds, Lobby(c) PROVE GuestInv'
  <2> PICK g \in Guests : \/ GuestKnock(g, c) \/ LobbyExpire(g, c) \/ JoinGuest(g, c)
                          \/ \E u \in Staff : AnswerGuest(u, g, c)
    BY <1>8 DEF Lobby
  <2>1. CASE GuestKnock(g, c) \/ LobbyExpire(g, c)
    <3>1. /\ UNCHANGED <<here, admitted, pc>> /\ lobby[c][g] # "admitted"
          /\ \A d \in CallIds : \A h \in Guests :
                lobby'[d][h] = lobby[d][h] \/ (d = c /\ h = g)
      BY <2>1 DEF GuestKnock, LobbyExpire, TypeOK
    <3>2. g \notin admitted[c]
      BY <3>1 DEF GuestInv, AdmittedInLobby
    <3>3. AdmittedInLobby'
      <4> SUFFICES ASSUME NEW d \in CallIds, NEW h \in admitted[d]
                   PROVE  lobby'[d][h] = "admitted"
        BY <3>1 DEF AdmittedInLobby
      <4>1. h \in Guests /\ lobby[d][h] = "admitted" /\ ~(d = c /\ h = g)
        BY <3>2 DEF GuestInv, AdmittedInLobby, TypeOK
      <4> QED BY <3>1, <4>1
    <3> QED BY <3>1, <3>3 DEF GuestInv, GuestRequests, GuestsOnList
  <2>2. CASE JoinGuest(g, c)
    <3>1. /\ UNCHANGED <<admitted, lobby>> /\ g \in admitted[c]
          /\ pc'[g].at = "reply" /\ \A h \in Guests : h # g => pc'[h] = pc[h]
          /\ \A d \in CallIds : here'[d] \subseteq here[d] \cup (IF d = c THEN {g} ELSE {})
      BY <2>2 DEF JoinGuest, Enter, TypeOK
    <3>2. GuestRequests'
      BY <3>1 DEF GuestInv, GuestRequests
    <3>3. GuestsOnList'
      BY <3>1 DEF GuestInv, GuestsOnList
    <3> QED BY <3>1, <3>2, <3>3 DEF GuestInv, AdmittedInLobby
  <2>3. ASSUME NEW u \in Staff, AnswerGuest(u, g, c) PROVE GuestInv'
    <3> PICK s \in {"denied", "admitted"} :
          /\ lobby' = [lobby EXCEPT ![c][g] = s]
          /\ \/ UNCHANGED admitted
             \/ s = "admitted" /\ admitted' = [admitted EXCEPT ![c] = @ \cup {g}]
      BY <2>3 DEF AnswerGuest
    <3>1. UNCHANGED <<here, pc>> /\ lobby[c][g] = "waiting"
      BY <2>3 DEF AnswerGuest
    <3>2. g \notin admitted[c]
      BY <3>1 DEF GuestInv, AdmittedInLobby
    <3>3. \A d \in CallIds, h \in Guests : (d # c \/ h # g) => lobby'[d][h] = lobby[d][h]
      BY DEF TypeOK
    <3>4. lobby'[c][g] = s
      BY DEF TypeOK
    <3>5. \A d \in CallIds : admitted[d] \subseteq admitted'[d]
      <4>1. admitted \in [CallIds -> SUBSET Guests]
        BY DEF TypeOK
      <4> HIDE DEF TypeOK
      <4>2. CASE UNCHANGED admitted BY <4>2
      <4>3. CASE admitted' = [admitted EXCEPT ![c] = @ \cup {g}] BY <4>1, <4>3
      <4> QED BY <4>2, <4>3
    <3>6. \A d \in CallIds : \A h \in admitted'[d] :
             h \in admitted[d] \/ (d = c /\ h = g /\ s = "admitted")
      BY DEF TypeOK
    <3>7. AdmittedInLobby'
      BY <3>2, <3>3, <3>4, <3>6 DEF GuestInv, AdmittedInLobby, TypeOK
    <3> QED BY <3>1, <3>5, <3>7 DEF GuestInv, GuestRequests, GuestsOnList
  <2> QED BY <2>1, <2>2, <2>3
<1>9. CASE Restart
  BY <1>9 DEF Restart, Nobody, NoLobby, Ready, GuestInv, GuestRequests, AdmittedInLobby,
      GuestsOnList
<1>10. CASE UNCHANGED vars
  BY <1>10, GuestFrame DEF vars, room
<1>11. ASSUME NEW c \in CallIds, Sweep(c) \/ GrowOld(c) PROVE GuestInv'
  <2>1. UNCHANGED <<admitted, lobby, pc>>
    BY <1>11 DEF Sweep, GrowOld
  <2>2. UNCHANGED here \/ here' = [here EXCEPT ![c] = @ \ quiet[c]]
    BY <1>11 DEF Sweep, GrowOld, Drop
  <2>3. ASSUME NEW d \in CallIds PROVE here'[d] \cap Guests \subseteq here[d]
    <3>1. CASE UNCHANGED here BY <3>1
    <3>2. CASE here' = [here EXCEPT ![c] = @ \ quiet[c]]
      <4>1. here'[d] = IF d = c THEN here[c] \ quiet[c] ELSE here[d]
        BY <3>2 DEF TypeOK
      <4> QED BY <4>1
    <3> QED BY <2>2, <3>1, <3>2
  <2> QED BY <2>1, <2>3, GuestFrame
<1> QED BY <1>1, <1>2, <1>3, <1>4, <1>5, <1>6, <1>7, <1>8, <1>9, <1>10, <1>11 DEF Next

\* guestController: no order of knocking, answering, joining, leaving, expiry and
\* restarts puts a guest into a call that nobody admitted to that very call.
THEOREM GuestsAlwaysAdmitted == Spec => []GuestsWereAdmitted
<1>1. Init => GuestInv
  BY DEF Init, GuestInv, GuestRequests, AdmittedInLobby, GuestsOnList, Nobody, Ready, People
<1>2. GuestInv /\ TypeOK => GuestsWereAdmitted
  BY DEF GuestInv, AdmittedInLobby, GuestsOnList, GuestsWereAdmitted, TypeOK
<1> QED BY <1>1, <1>2, GuestStep, TypeCorrect, PTL DEF Spec

-----------------------------------------------------------------------------
(***************************************************************************)
(* Connections.  Of two people in a live call one lists the other until    *)
(* its request is answered, then they are connected (AllPaired).  It holds *)
(* when someone enters because whoever came in since the newcomer listed   *)
(* the others was listing at the same moment (EnterKnows), which the later *)
(* of the two saw (EnterTogether); because nobody inside has a request for *)
(* another call (OneRoom); and because a new call is empty (FreshEmpty).   *)
(***************************************************************************)
Entering(u, c) == At(u, "enter") /\ pc[u].call = c
Coming(u) == pc[u].at \in {"check", "enter"}
Lists(u, v, c) == pc[u].at \in {"enter", "reply"} /\ pc[u].call = c /\ v \in pc[u].others
Paired(u, v, c) == {u, v} \in links \cup crossed \/ Lists(u, v, c) \/ Lists(v, u, c)
Fresh(c) == row[c] = "none" \/ \E w \in Staff : At(w, "register") /\ pc[w].call = c

AllPaired == \A c \in live : \A u, v \in here[c] : u # v => Paired(u, v, c)
EnterKnows ==
    \A c \in live : \A u \in People : Entering(u, c) =>
       \A v \in here[c] \ {u} : v \in pc[u].others \/ {u, v} \in crossed
EnterTogether ==
    \A u, v \in People :
       u # v /\ At(u, "enter") /\ At(v, "enter") /\ pc[u].call = pc[v].call => {u, v} \in crossed
OneRoom == \A c \in live : \A u \in here[c] : Coming(u) => pc[u].call = c
FreshEmpty ==
    \A c \in CallIds : Fresh(c) => here[c] = {} /\ \A u \in People : Coming(u) => pc[u].call # c

MeetInv == AllPaired /\ EnterKnows /\ EnterTogether /\ OneRoom /\ FreshEmpty

\* A live call has a row of its own and is the only one.
LEMMA LiveNotFresh ==
    ASSUME LockInv, NEW c \in live
    PROVE  ~Fresh(c)
  BY DEF LockInv, RowsFollowLive, NoneWhileCreating, Fresh, At, People

\* A request that neither enters nor has its answer to come may go on, but not to enter.
Quietly(u) ==
    \/ pc'[u] = pc[u]
    \/ /\ pc[u].at \notin {"enter", "reply"} /\ pc'[u].at # "enter"
       /\ pc'[u].at = "check" => pc'[u].call \in live

\* Who is out of every live call after the step, and not about to enter one.
Away(u) == pc'[u].at # "enter" /\ \A c \in live' : u \notin here'[c]

\* A step that brings nobody in, lists nobody, cuts no connection inside a live call and
\* forgets of the crossed pairs only those with somebody who is away.
LEMMA MeetFrame ==
    ASSUME MeetInv, LockInv, TypeOK,
           live' \subseteq live,
           \A u, v \in People : {u, v} \in crossed => {u, v} \in crossed' \/ Away(u) \/ Away(v),
           \A c \in CallIds : here'[c] \subseteq here[c],
           \A c \in live' : \A u, v \in here'[c] : {u, v} \in links => {u, v} \in links',
           \A c \in CallIds : Fresh(c)' => Fresh(c),
           \A u \in People : Quietly(u)
    PROVE  MeetInv'
<1>0. live \subseteq CallIds /\ \A c \in CallIds : here[c] \subseteq People
  BY DEF TypeOK
<1>1. AllPaired'
  <2> SUFFICES ASSUME NEW c \in live', NEW u \in here'[c], NEW v \in here'[c], u # v
               PROVE  Paired(u, v, c)'
    BY DEF AllPaired
  <2>1. c \in live /\ u \in here[c] /\ v \in here[c] /\ u \in People /\ v \in People
    BY <1>0
  <2>2. Paired(u, v, c)
    BY <2>1 DEF MeetInv, AllPaired
  <2>3. (Lists(u, v, c) => Lists(u, v, c)') /\ (Lists(v, u, c) => Lists(v, u, c)')
    BY <2>1 DEF Lists, Quietly
  <2>4. ~Away(u) /\ ~Away(v)
    BY DEF Away
  <2> QED BY <2>1, <2>2, <2>3, <2>4 DEF Paired
<1>2. \A u \in People : At(u, "enter")' => pc'[u] = pc[u] /\ At(u, "enter")
  BY DEF Quietly, At
<1>3. EnterKnows'
  <2> SUFFICES ASSUME NEW c \in live', NEW u \in People, Entering(u, c)', NEW v \in here'[c] \ {u}
               PROVE  v \in pc'[u].others \/ {u, v} \in crossed'
    BY DEF EnterKnows
  <2>1. c \in live /\ v \in here[c] \ {u} /\ v \in People /\ pc'[u] = pc[u] /\ Entering(u, c)
    BY <1>0, <1>2 DEF Entering, At
  <2>2. v \in pc[u].others \/ {u, v} \in crossed
    BY <2>1 DEF MeetInv, EnterKnows
  <2>3. ~Away(u) /\ ~Away(v)
    BY DEF Away, Entering, At
  <2> QED BY <2>1, <2>2, <2>3
<1>4. EnterTogether'
  BY <1>2 DEF MeetInv, EnterTogether, At, Away
<1>5. \A u \in People : Coming(u)' => (pc'[u] = pc[u] /\ Coming(u)) \/ pc'[u].call \in live
  BY DEF Quietly, Coming
<1>6. OneRoom'
  BY <1>0, <1>5 DEF MeetInv, OneRoom, LockInv, OneCall
<1>7. FreshEmpty'
  BY <1>0, <1>5, LiveNotFresh DEF MeetInv, FreshEmpty
<1> QED BY <1>1, <1>3, <1>4, <1>6, <1>7 DEF MeetInv

\* The others are listed: whoever is entering at this moment is noted, and nobody else
\* loses a note.
LEMMA MeetCheck ==
    ASSUME MeetInv, LockInv, TypeOK, NEW u \in Staff, NEW c \in CallIds, JoinCheck(u, c)
    PROVE  MeetInv'
<1>0. /\ u \in People /\ live \subseteq CallIds /\ \A d \in CallIds : here[d] \subseteq People
      /\ pc[u].at \notin {"enter", "reply", "register"}
      /\ UNCHANGED <<live, here, links, row>>
      /\ pc \in [People -> [at: Steps, call: CallIds \cup {NoCall}, others: SUBSET People]]
  BY DEF TypeOK, People, JoinCheck, At, room
<1>1. \A v \in People : v # u => pc'[v] = pc[v]
  BY <1>0 DEF JoinCheck, Done
<1>2. \A d \in CallIds : Fresh(d)' => Fresh(d)
  <2>1. pc'[u].at # "register"
    BY <1>0 DEF JoinCheck, Done, Ready
  <2> QED BY <1>0, <1>1, <2>1 DEF Fresh, At, People
<1>3. CASE u \notin here[c] /\ Full(c)
  <2>1. pc'[u] = Ready /\ crossed' = crossed
    BY <1>0, <1>3 DEF JoinCheck, Done
  <2>2. \A v \in People : Quietly(v)
    BY <1>0, <1>1, <2>1 DEF Quietly, Ready
  <2> QED BY <1>0, <1>2, <2>1, <2>2, MeetFrame
<1>4. CASE ~(u \notin here[c] /\ Full(c))
  <2>1. /\ pc'[u].at = "enter" /\ pc'[u].call = c /\ pc'[u].others = here[c] \ {u}
        /\ crossed' = Crossed(u, c)
    BY <1>0, <1>4 DEF JoinCheck
  <2>2. /\ \A p \in crossed : u \notin p => p \in crossed'
        /\ \A v \in People : Entering(v, c) => {u, v} \in crossed' /\ {v, u} \in crossed'
    BY <2>1 DEF Crossed, Entering
  <2>3. \A d \in live : u \in here[d] => d = c
    BY <1>0 DEF JoinCheck, MeetInv, OneRoom, Coming, At, LockInv, OneCall
  <2>4. AllPaired'
    <3> SUFFICES ASSUME NEW d \in live, NEW v \in here[d], NEW w \in here[d], v # w
                 PROVE  Paired(v, w, d)'
      BY <1>0 DEF AllPaired
    <3>0. v \in People /\ w \in People /\ Paired(v, w, d)
      BY <1>0 DEF MeetInv, AllPaired
    <3>1. CASE v = u
      <4>1. Lists(v, w, d)'
        BY <2>1, <2>3, <3>1 DEF Lists
      <4> QED BY <4>1 DEF Paired
    <3>2. CASE w = u
      <4>1. Lists(w, v, d)'
        BY <2>1, <2>3, <3>2 DEF Lists
      <4> QED BY <4>1 DEF Paired
    <3>3. CASE v # u /\ w # u
      <4>1. (Lists(v, w, d) => Lists(v, w, d)') /\ (Lists(w, v, d) => Lists(w, v, d)')
        BY <1>1, <3>0, <3>3 DEF Lists
      <4>2. {v, w} \in crossed => {v, w} \in crossed'
        BY <2>2, <3>3
      <4> QED BY <1>0, <3>0, <4>1, <4>2 DEF Paired
    <3> QED BY <3>1, <3>2, <3>3
  <2>5. EnterKnows'
    <3> SUFFICES ASSUME NEW d \in live, NEW v \in People, Entering(v, d)', NEW w \in here[d] \ {v}
                 PROVE  w \in pc'[v].others \/ {v, w} \in crossed'
      BY <1>0 DEF EnterKnows
    <3>1. CASE v = u
      BY <2>1, <3>1 DEF Entering
    <3>2. CASE v # u
      <4>1. Entering(v, d) /\ pc'[v] = pc[v]
        BY <1>1, <3>2 DEF Entering, At
      <4>2. w \in pc[v].others \/ {v, w} \in crossed
        BY <4>1 DEF MeetInv, EnterKnows
      <4>3. CASE w = u
        BY <2>2, <2>3, <4>1, <4>3
      <4>4. CASE w # u
        BY <2>2, <3>2, <4>1, <4>2, <4>4
      <4> QED BY <4>3, <4>4
    <3> QED BY <3>1, <3>2
  <2>6. EnterTogether'
    <3> SUFFICES ASSUME NEW v \in People, NEW w \in People, v # w, At(v, "enter")', At(w, "enter")',
                        pc'[v].call = pc'[w].call
                 PROVE  {v, w} \in crossed'
      BY DEF EnterTogether
    <3>1. CASE v = u
      BY <1>1, <2>1, <2>2, <3>1 DEF Entering, At
    <3>2. CASE w = u
      BY <1>1, <2>1, <2>2, <3>2 DEF Entering, At
    <3>3. CASE v # u /\ w # u
      <4>1. {v, w} \in crossed
        BY <1>1, <3>3 DEF MeetInv, EnterTogether, At
      <4> QED BY <2>2, <3>3, <4>1
    <3> QED BY <3>1, <3>2, <3>3
  <2>7. OneRoom'
    BY <1>0, <1>1, <2>1, <2>3 DEF MeetInv, OneRoom, Coming
  <2>8. FreshEmpty'
    <3>1. ~Fresh(c)
      BY <1>0, LiveNotFresh DEF JoinCheck, MeetInv, FreshEmpty, Coming, At
    <3> QED BY <1>0, <1>1, <1>2, <2>1, <3>1 DEF MeetInv, FreshEmpty, Coming
  <2> QED BY <2>4, <2>5, <2>6, <2>7, <2>8 DEF MeetInv
<1> QED BY <1>3, <1>4

\* Whoever comes in knows everyone who is there, or has crossed them.
LEMMA MeetEnter ==
    ASSUME MeetInv, LockInv, TypeOK, NEW u \in People, JoinEnter(u), pc[u].call \in CallIds
    PROVE  MeetInv'
<1> DEFINE c == pc[u].call
<1>0. /\ At(u, "enter") /\ live \subseteq CallIds /\ \A d \in CallIds : here[d] \subseteq People
      /\ UNCHANGED <<live, crossed, row>>
      /\ pc'[u].at = "reply" /\ pc'[u].call = c /\ pc'[u].others = pc[u].others
      /\ \A v \in People : v # u => pc'[v] = pc[v]
      /\ here'[c] = here[c] \cup {u}
      /\ \A d \in CallIds : d # c => here'[d] = here[d]
      /\ \A p \in links : u \notin p => p \in links'
  BY DEF JoinEnter, Enter, Goto, LinksOf, TypeOK, At
<1>1. AllPaired'
  <2> SUFFICES ASSUME NEW d \in live, NEW v \in here'[d], NEW w \in here'[d], v # w
               PROVE  Paired(v, w, d)'
    BY <1>0 DEF AllPaired
  <2>0. v \in People /\ w \in People
    BY <1>0
  <2>1. ASSUME NEW x \in here'[d], x # u, u \in here'[d]
        PROVE  Paired(u, x, d)' /\ Paired(x, u, d)'
    <3>1. d = c
      BY <1>0, <2>1 DEF MeetInv, OneRoom, Coming, At
    <3>2. x \in here[c] \ {u} /\ c \in live
      BY <1>0, <2>1, <3>1
    <3>3. x \in pc[u].others \/ {u, x} \in crossed
      BY <1>0, <3>2 DEF MeetInv, EnterKnows, Entering
    <3>4. Lists(u, x, d)' \/ {u, x} \in crossed'
      BY <1>0, <3>1, <3>3 DEF Lists
    <3> QED BY <3>4 DEF Paired
  <2>2. CASE v # u /\ w # u
    <3>1. v \in here[d] /\ w \in here[d]
      BY <1>0, <2>2
    <3>2. Paired(v, w, d)
      BY <3>1 DEF MeetInv, AllPaired
    <3>3. (Lists(v, w, d) => Lists(v, w, d)') /\ (Lists(w, v, d) => Lists(w, v, d)')
      BY <1>0, <2>0, <2>2 DEF Lists
    <3> QED BY <1>0, <2>2, <3>2, <3>3 DEF Paired
  <2> QED BY <2>1, <2>2
<1>2. EnterKnows'
  <2> SUFFICES ASSUME NEW d \in live, NEW v \in People, Entering(v, d)', NEW w \in here'[d] \ {v}
               PROVE  w \in pc'[v].others \/ {v, w} \in crossed
    BY <1>0 DEF EnterKnows
  <2>1. v # u /\ pc'[v] = pc[v] /\ Entering(v, d)
    BY <1>0 DEF Entering, At
  <2>2. CASE w \in here[d]
    BY <2>1, <2>2 DEF MeetInv, EnterKnows
  <2>3. CASE w \notin here[d]
    <3>1. w = u /\ d = c
      BY <1>0, <2>3
    <3> QED BY <1>0, <2>1, <3>1 DEF MeetInv, EnterTogether, Entering
  <2> QED BY <2>2, <2>3
<1>3. EnterTogether'
  BY <1>0 DEF MeetInv, EnterTogether, At
<1>4. OneRoom'
  BY <1>0 DEF MeetInv, OneRoom, Coming
<1>5. FreshEmpty'
  <2>1. \A d \in CallIds : Fresh(d)' => Fresh(d)
    BY <1>0 DEF Fresh, At, People
  <2>2. ~Fresh(c)
    BY <1>0 DEF MeetInv, FreshEmpty, Coming, At
  <2> QED BY <1>0, <2>1, <2>2 DEF MeetInv, FreshEmpty, Coming
<1> QED BY <1>1, <1>2, <1>3, <1>4, <1>5 DEF MeetInv

\* A guest lists the others and comes in at once.
LEMMA MeetGuest ==
    ASSUME MeetInv, LockInv, TypeOK, NEW g \in Guests, NEW c \in CallIds, JoinGuest(g, c)
    PROVE  MeetInv'
<1>0. /\ g \in People /\ c \in live /\ live \subseteq CallIds /\ \A d \in CallIds : here[d] \subseteq People
      /\ pc[g].at = "idle" /\ UNCHANGED <<live, row>>
      /\ pc'[g].at = "reply" /\ pc'[g].call = c /\ pc'[g].others = here[c] \ {g}
      /\ \A v \in People : v # g => pc'[v] = pc[v]
      /\ here'[c] = here[c] \cup {g}
      /\ \A d \in CallIds : d # c => here'[d] = here[d]
      /\ \A p \in links : g \notin p => p \in links'
  BY DEF JoinGuest, Enter, LinksOf, TypeOK, At, People
<1>1. /\ \A p \in crossed : g \notin p => p \in crossed'
      /\ \A v \in People : Entering(v, c) => {g, v} \in crossed' /\ {v, g} \in crossed'
  BY DEF JoinGuest, Crossed, Entering
<1>2. \A d \in live : d = c
  BY <1>0 DEF LockInv, OneCall
<1>3. AllPaired'
  <2> SUFFICES ASSUME NEW v \in here'[c], NEW w \in here'[c], v # w
               PROVE  Paired(v, w, c)'
    BY <1>0, <1>2 DEF AllPaired
  <2>0. v \in People /\ w \in People
    BY <1>0
  <2>1. CASE v = g
    <3>1. Lists(v, w, c)'
      BY <1>0, <2>1 DEF Lists
    <3> QED BY <3>1 DEF Paired
  <2>2. CASE w = g
    <3>1. Lists(w, v, c)'
      BY <1>0, <2>2 DEF Lists
    <3> QED BY <3>1 DEF Paired
  <2>3. CASE v # g /\ w # g
    <3>1. v \in here[c] /\ w \in here[c]
      BY <1>0, <2>3
    <3>2. Paired(v, w, c)
      BY <1>0, <3>1 DEF MeetInv, AllPaired
    <3>3. (Lists(v, w, c) => Lists(v, w, c)') /\ (Lists(w, v, c) => Lists(w, v, c)')
      BY <1>0, <2>0, <2>3 DEF Lists
    <3> QED BY <1>0, <1>1, <2>3, <3>2, <3>3 DEF Paired
  <2> QED BY <2>1, <2>2, <2>3
<1>4. EnterKnows'
  <2> SUFFICES ASSUME NEW v \in People, Entering(v, c)', NEW w \in here'[c] \ {v}
               PROVE  w \in pc'[v].others \/ {v, w} \in crossed'
    BY <1>0, <1>2 DEF EnterKnows
  <2>1. v # g /\ pc'[v] = pc[v] /\ Entering(v, c)
    BY <1>0 DEF Entering, At
  <2>2. CASE w = g
    BY <1>1, <2>1, <2>2
  <2>3. CASE w # g
    BY <1>0, <1>1, <2>1, <2>3 DEF MeetInv, EnterKnows
  <2> QED BY <2>2, <2>3
<1>5. EnterTogether'
  <2> SUFFICES ASSUME NEW v \in People, NEW w \in People, v # w, At(v, "enter")', At(w, "enter")',
                      pc'[v].call = pc'[w].call
               PROVE  {v, w} \in crossed'
    BY DEF EnterTogether
  <2>1. v # g /\ w # g /\ pc'[v] = pc[v] /\ pc'[w] = pc[w]
    BY <1>0 DEF At
  <2>2. {v, w} \in crossed
    BY <2>1 DEF MeetInv, EnterTogether, At
  <2> QED BY <1>1, <2>1, <2>2
<1>6. OneRoom'
  BY <1>0 DEF MeetInv, OneRoom, Coming
<1>7. FreshEmpty'
  <2>1. \A d \in CallIds : Fresh(d)' => Fresh(d)
    BY <1>0 DEF Fresh, At, People
  <2>2. ~Fresh(c)
    BY <1>0, LiveNotFresh
  <2> QED BY <1>0, <2>1, <2>2 DEF MeetInv, FreshEmpty, Coming
<1> QED BY <1>3, <1>4, <1>5, <1>6, <1>7 DEF MeetInv

\* The answer: the browser connects to everyone it was told of who is there.
LEMMA MeetReply ==
    ASSUME MeetInv, LockInv, TypeOK, NEW u \in People, JoinReply(u)
    PROVE  MeetInv'
<1>0. /\ At(u, "reply") /\ live \subseteq CallIds /\ \A d \in CallIds : here[d] \subseteq People
      /\ UNCHANGED <<live, here, crossed, row>> /\ pc'[u].at = "idle"
      /\ \A v \in People : v # u => pc'[v] = pc[v]
      /\ links \subseteq links'
      /\ \A o \in pc[u].others \cap here[pc[u].call] : {u, o} \in links'
  BY DEF JoinReply, Done, Ready, TypeOK, room, At
<1>1. AllPaired'
  <2> SUFFICES ASSUME NEW d \in live, NEW v \in here[d], NEW w \in here[d], v # w
               PROVE  Paired(v, w, d)'
    BY <1>0 DEF AllPaired
  <2>1. v \in People /\ w \in People /\ Paired(v, w, d)
    BY <1>0 DEF MeetInv, AllPaired
  <2>2. ASSUME NEW x \in here[d], NEW y \in here[d], Lists(x, y, d)
        PROVE  Lists(x, y, d)' \/ {x, y} \in links'
    <3>1. CASE x = u
      BY <1>0, <2>2, <3>1 DEF Lists
    <3>2. CASE x # u
      BY <1>0, <2>2, <3>2 DEF Lists
    <3> QED BY <3>1, <3>2
  <2>3. {v, w} = {w, v}
    OBVIOUS
  <2>4. CASE {v, w} \in links \cup crossed
    BY <1>0, <2>4 DEF Paired
  <2>5. CASE Lists(v, w, d)
    BY <2>2, <2>5 DEF Paired
  <2>6. CASE Lists(w, v, d)
    <3>1. Lists(w, v, d)' \/ {v, w} \in links'
      BY <2>2, <2>3, <2>6
    <3> QED BY <3>1 DEF Paired
  <2> QED BY <2>1, <2>4, <2>5, <2>6 DEF Paired
<1>2. EnterKnows' /\ EnterTogether'
  BY <1>0 DEF MeetInv, EnterKnows, EnterTogether, Entering, At
<1>3. OneRoom'
  BY <1>0 DEF MeetInv, OneRoom, Coming
<1>4. FreshEmpty'
  <2>1. \A d \in CallIds : Fresh(d)' => Fresh(d)
    BY <1>0 DEF Fresh, At, People
  <2> QED BY <1>0, <2>1 DEF MeetInv, FreshEmpty, Coming
<1> QED BY <1>1, <1>2, <1>3, <1>4 DEF MeetInv

\* A new call is empty, and nobody has a request for it yet.
LEMMA MeetRegister ==
    ASSUME MeetInv, LockInv, TypeOK, NEW u \in Staff, StartRegister(u), pc[u].call \in CallIds
    PROVE  MeetInv'
<1> DEFINE c == pc[u].call
<1>0. /\ u \in People /\ At(u, "register") /\ live = {} /\ live' = {c}
      /\ UNCHANGED <<here, links, crossed, row>>
      /\ pc'[u].at = "announce"
      /\ \A v \in People : v # u => pc'[v] = pc[v]
  BY DEF StartRegister, Goto, LockInv, NoneWhileCreating, TypeOK, room, At, People
<1>1. here[c] = {} /\ \A v \in People : Coming(v) => pc[v].call # c
  BY <1>0 DEF MeetInv, FreshEmpty, Fresh
<1>2. AllPaired' /\ OneRoom'
  BY <1>0, <1>1 DEF AllPaired, OneRoom
<1>3. EnterKnows'
  BY <1>0, <1>1 DEF EnterKnows
<1>4. EnterTogether'
  BY <1>0 DEF MeetInv, EnterTogether, At
<1>5. FreshEmpty'
  <2>1. \A d \in CallIds : Fresh(d)' => Fresh(d)
    BY <1>0 DEF Fresh, At, People
  <2> QED BY <1>0, <2>1 DEF MeetInv, FreshEmpty, Coming
<1> QED BY <1>2, <1>3, <1>4, <1>5 DEF MeetInv

LEMMA MeetStart ==
    ASSUME MeetInv, LockInv, TypeOK, NEW u \in Staff, Start(u), ~StartRegister(u)
    PROVE  MeetInv'
<1>0. /\ u \in People /\ UNCHANGED <<live, here, links, crossed>>
      /\ \A v \in People : v # u => pc'[v] = pc[v]
      /\ pc[u].at \notin {"enter", "reply"} /\ pc'[u].at \notin {"check", "enter"}
  BY DEF Start, StartAsk, StartLock, StartExisting, StartNew, StartCreate, StartDone,
         Goto, Done, Ready, TypeOK, room, At, People
<1>1. \A v \in People : Quietly(v)
  BY <1>0 DEF Quietly
<1>2. \A c \in CallIds : Fresh(c)' => Fresh(c)
  <2>1. CASE StartCreate(u)
    <3>1. PICK c \in CallIds :
             /\ row[c] = "none"
             /\ row' = [row EXCEPT ![c] = "open"]
             /\ pc' = [pc EXCEPT ![u] = [at |-> "register", call |-> c, others |-> {}]]
      BY <2>1 DEF StartCreate, Unused
    <3>2. pc'[u].call = c /\ \A d \in CallIds : row'[d] = "none" => row[d] = "none"
      BY <1>0, <3>1 DEF TypeOK
    <3> QED BY <1>0, <3>1, <3>2 DEF Fresh, At, People
  <2>2. CASE ~StartCreate(u)
    <3>1. row' = row /\ pc'[u].at # "register"
      BY <1>0, <2>2 DEF Start, StartAsk, StartLock, StartExisting, StartNew, StartDone, Goto, Done, Ready,
                        TypeOK, At
    <3> QED BY <1>0, <3>1 DEF Fresh, At, People
  <2> QED BY <2>1, <2>2
<1> QED BY <1>0, <1>1, <1>2, MeetFrame DEF TypeOK

LEMMA MeetDrop ==
    ASSUME MeetInv, LockInv, TypeOK, NEW c \in live, NEW gone, NEW end,
           Drop(c, gone, end), UNCHANGED <<row, pc>>
    PROVE  MeetInv'
<1>0. c \in CallIds /\ live' \subseteq live /\ \A d \in live : d = c
  BY DEF Drop, TypeOK, LockInv, OneCall
<1>1. /\ here'[c] = here[c] \ gone
      /\ \A d \in CallIds : here'[d] \subseteq here[d]
      /\ \A p \in links : p \cap gone = {} => p \in links'
  BY <1>0 DEF Drop, LinksOf, TypeOK
<1>2. \A d \in live' : \A u, v \in here'[d] : {u, v} \in links => {u, v} \in links'
  BY <1>0, <1>1
<1>3. (\A d \in CallIds : Fresh(d)' => Fresh(d)) /\ \A u \in People : Quietly(u)
  BY DEF Fresh, At, Quietly
<1>4. \A u \in gone : ~At(u, "enter") => Away(u)
  BY <1>0, <1>1 DEF Away, At
<1>5. \A u, v \in People : {u, v} \in crossed => {u, v} \in crossed' \/ Away(u) \/ Away(v)
  <2> SUFFICES ASSUME NEW u \in People, NEW v \in People, {u, v} \in crossed, ~Away(u), ~Away(v)
               PROVE  {u, v} \in crossed'
    OBVIOUS
  <2>1. \A w \in {u, v} \cap gone : At(w, "enter")
    BY <1>4
  <2> QED BY <2>1 DEF Drop
<1> QED BY <1>0, <1>1, <1>2, <1>3, <1>5, MeetFrame

LEMMA MeetStep == MeetInv /\ LockInv /\ TypeOK /\ Held /\ [Next]_vars => MeetInv'
<1> SUFFICES ASSUME MeetInv, LockInv, TypeOK, Held, [Next]_vars PROVE MeetInv'
  OBVIOUS
<1>0. Staff \subseteq People /\ Guests \subseteq People
  BY DEF People
<1>1. ASSUME NEW u \in Staff, Start(u) PROVE MeetInv'
  BY <1>0, <1>1, MeetRegister, MeetStart DEF Held, StartRegister, At
<1>2. ASSUME NEW u \in Staff, NEW c \in CallIds, JoinCheck(u, c) PROVE MeetInv'
  BY <1>2, MeetCheck
<1>3. ASSUME NEW u \in People, JoinEnter(u) \/ JoinReply(u) PROVE MeetInv'
  BY <1>3, MeetEnter, MeetReply DEF Held, JoinEnter, At
<1>4. ASSUME UNCHANGED <<live, here, links, crossed, row>>,
             \A u \in People : Quietly(u) /\ (At(u, "register")' => pc'[u] = pc[u])
      PROVE  MeetInv'
  <2>1. \A c \in CallIds : Fresh(c)' => Fresh(c)
    BY <1>0, <1>4 DEF Fresh, At
  <2> QED BY <1>4, <2>1, MeetFrame DEF TypeOK
<1>5. ASSUME NEW u \in Staff, NEW c \in CallIds,
             \/ JoinAsk(u, c) \/ DeclineAsk(u, c) \/ DeclineCall(u, c)
             \/ \E v \in Staff : InviteAsk(u, v, c)
      PROVE  MeetInv'
  <2>1. /\ UNCHANGED <<live, here, links, crossed, row>>
        /\ \A v \in People : v # u => pc'[v] = pc[v]
        /\ pc[u].at \notin {"enter", "reply"} /\ pc'[u].at \notin {"enter", "register"}
        /\ pc'[u].at = "check" => pc'[u].call \in live
    BY <1>0, <1>5 DEF JoinAsk, DeclineAsk, DeclineCall, InviteAsk, Done, Ready, TypeOK, room, At
  <2> QED BY <1>4, <2>1 DEF Quietly, At
<1>6. ASSUME NEW u \in People, NEW c \in CallIds,
             GoQuiet(u, c) \/ PollCall(u, c) \/ LeaveCall(u, c)
      PROVE  MeetInv'
  <2>1. CASE GoQuiet(u, c) \/ PollCall(u, c)
    BY <1>4, <2>1 DEF GoQuiet, PollCall, Quietly
  <2>2. CASE LeaveCall(u, c)
    <3>1. c \in live /\ Drop(c, {u}, here[c] \subseteq {u}) /\ UNCHANGED <<row, pc>>
      BY <2>2 DEF LeaveCall
    <3> QED BY <3>1, MeetDrop
  <2> QED BY <1>6, <2>1, <2>2
<1>7. ASSUME NEW c \in CallIds, Sweep(c) PROVE MeetInv'
  <2> DEFINE over == here[c] \ quiet[c] = {} /\ c \in old
  <2>1. c \in live /\ Drop(c, quiet[c], over) /\ UNCHANGED <<row, pc>>
    BY <1>7 DEF Sweep
  <2> HIDE DEF over
  <2> QED BY <2>1, MeetDrop
<1>8. ASSUME NEW c \in CallIds, GrowOld(c) PROVE MeetInv'
  BY <1>8, <1>4 DEF GrowOld, Quietly
<1>9. ASSUME NEW c \in CallIds, EndRow(c) PROVE MeetInv'
  <2>1. /\ UNCHANGED <<live, links, crossed, pc>>
        /\ \A d \in CallIds : here'[d] \subseteq here[d] /\ (row'[d] = "none" => row[d] = "none")
    BY <1>9 DEF EndRow, TypeOK
  <2>2. (\A d \in CallIds : Fresh(d)' => Fresh(d)) /\ \A u \in People : Quietly(u)
    BY <2>1 DEF Fresh, At, Quietly
  <2> QED BY <2>1, <2>2, MeetFrame
<1>10. ASSUME NEW c \in CallIds, Lobby(c) PROVE MeetInv'
  <2> PICK g \in Guests : \/ GuestKnock(g, c) \/ LobbyExpire(g, c) \/ JoinGuest(g, c)
                          \/ \E u \in Staff : AnswerGuest(u, g, c)
    BY <1>10 DEF Lobby
  <2>1. CASE JoinGuest(g, c)
    BY <2>1, MeetGuest
  <2>2. CASE GuestKnock(g, c) \/ LobbyExpire(g, c) \/ \E u \in Staff : AnswerGuest(u, g, c)
    <3>1. UNCHANGED <<live, here, links, crossed, row, pc>>
      BY <2>2 DEF GuestKnock, LobbyExpire, AnswerGuest
    <3> QED BY <3>1, <1>4 DEF Quietly
  <2> QED BY <2>1, <2>2
<1>11. CASE Restart
  <2>1. /\ live' = {} /\ \A c \in CallIds : here'[c] = {}
        /\ \A u \in People : pc'[u].at = "idle"
    BY <1>11 DEF Restart, Nobody, Ready
  <2> QED BY <2>1 DEF MeetInv, AllPaired, EnterKnows, EnterTogether, OneRoom, FreshEmpty, Coming, At
<1>12. CASE UNCHANGED vars
  BY <1>12, <1>4 DEF vars, room, Quietly
<1>13. ASSUME NEW u \in Staff, InviteToCall(u) PROVE MeetInv'
  <2>1. /\ UNCHANGED <<live, here, links, crossed, row>>
        /\ \A v \in People : v # u => pc'[v] = pc[v]
        /\ pc[u].at = "ring" /\ pc'[u].at = "idle"
    BY <1>0, <1>13 DEF InviteToCall, Done, Ready, TypeOK, At
  <2> QED BY <1>4, <2>1 DEF Quietly, At
<1> QED BY <1>1, <1>2, <1>3, <1>5, <1>6, <1>7, <1>8, <1>9, <1>10, <1>11, <1>12, <1>13, CallAssumption DEF Next

\* "The newcomer calls everyone who is already in the call": any number of people who
\* join, refresh, are swept, leave and come back are connected pair by pair once their
\* joins are answered, but for the pairs that listed the others at the same moment.
THEOREM EveryPairAlwaysConnected == Spec => []EveryPairConnected
<1>1. Init => TypeOK /\ Held
  BY CallAssumption DEF Init, TypeOK, Held, At, Nobody, NoLobby, Ready, Steps, Statuses, People
<1>2. TypeOK /\ Held /\ [Next]_vars => TypeOK' /\ Held'
  BY TypeStep
<1>3. Init => MeetInv
  BY DEF Init, MeetInv, AllPaired, EnterKnows, EnterTogether, OneRoom, FreshEmpty, Coming, Ready,
         Nobody, At
<1>4. MeetInv => EveryPairConnected
  BY DEF MeetInv, AllPaired, Paired, Lists, EveryPairConnected, At
<1> QED BY <1>1, <1>2, <1>3, <1>4, LockAlways, MeetStep, PTL DEF Spec

=============================================================================
