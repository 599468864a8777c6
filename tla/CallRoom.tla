------------------------------ MODULE CallRoom ------------------------------
(***************************************************************************)
(* Voice and video calls of one conversation: the live calls kept in the   *)
(* server's memory (lib/pm/calls.ts), their ChatCall rows, the handlers of *)
(* chatController.ts that start, join, leave, decline and extend a call,   *)
(* the guest lobby of guestController.ts, the five second sweeper, and the *)
(* connections the browsers make (client callEngine.ts).                   *)
(*                                                                         *)
(* A LiveCall object outlives its place in the `live` map: a handler that  *)
(* fetched it before an await still writes to it after the call has ended. *)
(* So the objects are kept for every call id, and `live` says which are in *)
(* the map.                                                                *)
(***************************************************************************)
EXTENDS Integers, FiniteSets

CONSTANTS
    Staff,            \* people with an account
    FirstMembers,     \* those who are members of the conversation from the start
    Guests,           \* people outside the company holding the guest link
    Joiners,          \* bound: staff who go into a call or are added to it; the others only start one
    CallIds,          \* bound: ChatCall rows that can be created
    MaxParticipants,  \* MAX_PARTICIPANTS
    MaxWaiting,       \* the lobby takes this many at once (10)
    GroupChat,        \* people added to a group's call become members
    MaxCrashes,
    NoOne, NoCall

People == Staff \cup Guests

ASSUME CallAssumption ==
    /\ FirstMembers \subseteq Staff /\ Joiners \subseteq Staff
    /\ Staff \cap Guests = {}
    /\ NoOne \notin People /\ NoCall \notin CallIds
    /\ MaxParticipants \in Nat \ {0} /\ MaxWaiting \in Nat /\ MaxCrashes \in Nat
    /\ GroupChat \in BOOLEAN

VARIABLES
    members,    \* ChatMember rows
    live,       \* the ids in the `live` map
    old,        \* calls that started more than 15 seconds ago
    here,       \* call.participants
    quiet,      \* participants who have not polled for STALE_MS
    invited,    \* call.invited
    admitted,   \* call.guests, those from outside
    lobby,      \* call.lobby
    row,        \* the ChatCall row
    ending,     \* calls whose endCall has still to write the row
    lock,       \* startingCalls: who is creating a call
    pc,         \* the request each person has in flight
    links,      \* connections between two browsers
    crossed,    \* history: pairs, one of whom was listing the others while the other joined;
                \* who leaves is forgotten, and lists the others again to come back
    crashes

vars == <<members, live, old, here, quiet, invited, admitted, lobby,
          row, ending, lock, pc, links, crossed, crashes>>
room == <<old, here, quiet, invited, admitted, lobby>>

Steps == {"idle", "wait", "inner", "create", "register", "announce",
          "check", "enter", "reply", "decline", "ring"}
Statuses == {"none", "waiting", "admitted", "denied"}

TypeOK ==
    /\ members \subseteq Staff
    /\ live \subseteq CallIds /\ old \subseteq CallIds /\ ending \subseteq CallIds
    /\ here \in [CallIds -> SUBSET People]
    /\ quiet \in [CallIds -> SUBSET People]
    /\ invited \in [CallIds -> SUBSET Staff]
    /\ admitted \in [CallIds -> SUBSET Guests]
    /\ lobby \in [CallIds -> [Guests -> Statuses]]
    /\ row \in [CallIds -> {"none", "open", "ended"}]
    /\ lock \in Staff \cup {NoOne}
    /\ pc \in [People -> [at: Steps, call: CallIds \cup {NoCall}, others: SUBSET People]]
    /\ links \subseteq SUBSET People /\ crossed \subseteq SUBSET People
    /\ crashes \in Nat

Ready == [at |-> "idle", call |-> NoCall, others |-> {}]

Nobody == [c \in CallIds |-> {}]
NoLobby == [c \in CallIds |-> [g \in Guests |-> "none"]]

Init ==
    /\ members = FirstMembers
    /\ live = {} /\ old = {} /\ ending = {}
    /\ here = Nobody /\ quiet = Nobody
    /\ invited = Nobody /\ admitted = Nobody
    /\ lobby = NoLobby
    /\ row = [c \in CallIds |-> "none"]
    /\ lock = NoOne
    /\ pc = [u \in People |-> Ready]
    /\ links = {} /\ crossed = {}
    /\ crashes = 0

At(u, step) == pc[u].at = step
Goto(u, step) == pc' = [pc EXCEPT ![u].at = step]
Done(u) == pc' = [pc EXCEPT ![u] = Ready]

Unused == {c \in CallIds : row[c] = "none"}
Waiting(c) == {g \in Guests : lobby[c][g] = "waiting"}
Full(c) == Cardinality(here[c]) >= MaxParticipants
LinksOf(u) == {l \in links : u \in l}
\* When u lists who is in call c, those who have their list and are not in it yet.
Crossed(u, c) ==
    {p \in crossed : u \notin p} \cup {{u, v} : v \in {w \in People : At(w, "enter") /\ pc[w].call = c}}

-----------------------------------------------------------------------------
(***************************************************************************)
(* startCall and startCallInner                                            *)
(***************************************************************************)
\* membership().  Bound: with no unused row left nobody asks, and a creation
\* that is already on its way fails.
StartAsk(u) ==
    /\ At(u, "idle") /\ u \in members
    /\ Unused # {}
    /\ Goto(u, "wait")
    /\ UNCHANGED <<members, live, room, row, ending, lock, links, crossed, crashes>>
\* Faulty variant: a start does not wait for the one that is creating a call.
StartLockFree(u) ==
    /\ At(u, "wait")
    /\ lock' = u
    /\ Goto(u, "inner")
    /\ UNCHANGED <<members, live, room, row, ending, links, crossed, crashes>>

\* No await between the test of startingCalls and its set.
StartLock(u) ==
    /\ At(u, "wait")
    /\ lock = NoOne
    /\ lock' = u
    /\ Goto(u, "inner")
    /\ UNCHANGED <<members, live, room, row, ending, links, crossed, crashes>>

\* Faulty variant: the answer that there is a call already leaves the lock where it is.
StartExistingKeepsLock(u) ==
    /\ At(u, "inner")
    /\ live # {}
    /\ Done(u)
    /\ UNCHANGED <<members, live, room, row, ending, lock, links, crossed, crashes>>

\* liveForConversation: one is running already, it is the answer.
StartExisting(u) ==
    /\ At(u, "inner")
    /\ live # {}
    /\ lock' = NoOne
    /\ Done(u)
    /\ UNCHANGED <<members, live, room, row, ending, links, crossed, crashes>>

StartNew(u) ==
    /\ At(u, "inner")
    /\ live = {}
    /\ Goto(u, "create")
    /\ UNCHANGED <<members, live, room, row, ending, lock, links, crossed, crashes>>

StartCreate(u) ==
    /\ At(u, "create")
    /\ Unused # {}
    /\ LET c == CHOOSE x \in Unused : TRUE
       IN  /\ row' = [row EXCEPT ![c] = "open"]
           /\ pc' = [pc EXCEPT ![u] = [at |-> "register", call |-> c, others |-> {}]]
    /\ UNCHANGED <<members, live, room, ending, lock, links, crossed, crashes>>
\* Faulty variant: the call is registered before its row has an id.
StartRegisterEarly(u) ==
    /\ At(u, "register")
    /\ live' = live \cup {NoCall}
    /\ Goto(u, "announce")
    /\ UNCHANGED <<members, room, row, ending, lock, links, crossed, crashes>>

StartRegister(u) ==
    /\ At(u, "register")
    /\ live' = live \cup {pc[u].call}
    /\ Goto(u, "announce")
    /\ UNCHANGED <<members, room, row, ending, lock, links, crossed, crashes>>
\* Faulty variant: without the finally block, a failed creation keeps the lock.
StartDoneKeepsLock(u) ==
    /\ pc[u].at \in {"create", "announce"}
    /\ lock' = IF At(u, "create") THEN lock ELSE NoOne
    /\ Done(u)
    /\ UNCHANGED <<members, live, room, row, ending, links, crossed, crashes>>

\* The chat message and the push are sent, or one of the writes before or after
\* the creation fails: the finally block releases the lock either way.
StartDone(u) ==
    /\ pc[u].at \in {"create", "announce"}
    /\ lock' = NoOne
    /\ Done(u)
    /\ UNCHANGED <<members, live, room, row, ending, links, crossed, crashes>>

(***************************************************************************)
(* joinCall: liveCallFor (with a membership query unless the person was    *)
(* added or is inside), the capacity check and the list of others, the     *)
(* query for the name, Calls.join, and the answer.                         *)
(***************************************************************************)
KnownTo(c, u) == u \in invited[c] \cup here[c]

Enter(c, u) ==
    /\ here' = [here EXCEPT ![c] = @ \cup {u}]
    /\ quiet' = [quiet EXCEPT ![c] = @ \ {u}]
    /\ links' = links \ LinksOf(u)

JoinAsk(u, c) ==
    /\ At(u, "idle")
    /\ c \in live /\ u \in members /\ ~KnownTo(c, u)
    /\ pc' = [pc EXCEPT ![u] = [at |-> "check", call |-> c, others |-> {}]]
    /\ UNCHANGED <<members, live, room, row, ending, lock, links, crossed, crashes>>

\* Faulty variant: somebody who joins again, after a page refresh, is told of nobody.
JoinCheckRejoinAlone(u, c) ==
    /\ \/ At(u, "check") /\ pc[u].call = c
       \/ At(u, "idle") /\ c \in live /\ u \in Staff /\ KnownTo(c, u)
    /\ IF u \notin here[c] /\ Full(c)
         THEN Done(u) /\ UNCHANGED crossed
         ELSE /\ pc' = [pc EXCEPT ![u] = [at |-> "enter", call |-> c,
                                          others |-> IF u \in here[c] THEN {} ELSE here[c]]]
              /\ crossed' = Crossed(u, c)
    /\ UNCHANGED <<members, live, room, row, ending, lock, links, crashes>>

JoinCheck(u, c) ==
    /\ \/ At(u, "check") /\ pc[u].call = c
       \/ At(u, "idle") /\ c \in live /\ u \in Staff /\ KnownTo(c, u)
    /\ IF u \notin here[c] /\ Full(c)
         THEN Done(u) /\ UNCHANGED crossed
         ELSE /\ pc' = [pc EXCEPT ![u] = [at |-> "enter", call |-> c, others |-> here[c] \ {u}]]
              /\ crossed' = Crossed(u, c)
    /\ UNCHANGED <<members, live, room, row, ending, lock, links, crashes>>

JoinEnter(u) ==
    /\ At(u, "enter")
    /\ Enter(pc[u].call, u)
    /\ Goto(u, "reply")
    /\ UNCHANGED <<members, live, old, invited, admitted, lobby,
                   row, ending, lock, crossed, crashes>>
\* Faulty variant: a guest joins as soon as the lobby knows them.
JoinGuestUnasked(g, c) ==
    /\ At(g, "idle")
    /\ c \in live /\ lobby[c][g] # "none"
    /\ g \in here[c] \/ ~Full(c)
    /\ Enter(c, g)
    /\ pc' = [pc EXCEPT ![g] = [at |-> "reply", call |-> c, others |-> here[c] \ {g}]]
    /\ crossed' = Crossed(g, c)
    /\ UNCHANGED <<members, live, old, invited, admitted, lobby,
                   row, ending, lock, crashes>>

\* An admitted guest's name is known: nothing is awaited before Calls.join.
JoinGuest(g, c) ==
    /\ At(g, "idle")
    /\ c \in live /\ g \in admitted[c]
    /\ g \in here[c] \/ ~Full(c)
    /\ Enter(c, g)
    /\ pc' = [pc EXCEPT ![g] = [at |-> "reply", call |-> c, others |-> here[c] \ {g}]]
    /\ crossed' = Crossed(g, c)
    /\ UNCHANGED <<members, live, old, invited, admitted, lobby,
                   row, ending, lock, crashes>>

\* The newcomer's browser calls everyone in the answer (and only them).
JoinReply(u) ==
    /\ At(u, "reply")
    /\ links' = links \cup {{u, o} : o \in pc[u].others \cap here[pc[u].call]}
    /\ Done(u)
    /\ UNCHANGED <<members, live, room, row, ending, lock, crossed, crashes>>

(***************************************************************************)
(* Polling, leaving, and the end of a call                                 *)
(***************************************************************************)
GoQuiet(u, c) ==
    /\ c \in live /\ u \in here[c] \ quiet[c]
    /\ quiet' = [quiet EXCEPT ![c] = @ \cup {u}]
    /\ UNCHANGED <<members, live, old, here, invited, admitted, lobby,
                   row, ending, lock, pc, links, crossed, crashes>>

PollCall(u, c) ==
    /\ c \in live /\ u \in quiet[c]
    /\ quiet' = [quiet EXCEPT ![c] = @ \ {u}]
    /\ UNCHANGED <<members, live, old, here, invited, admitted, lobby,
                   row, ending, lock, pc, links, crossed, crashes>>

\* Calls.leave for a set of people, then endCall up to its first await.
Drop(c, gone, end) ==
    /\ here' = [here EXCEPT ![c] = @ \ gone]
    /\ quiet' = [quiet EXCEPT ![c] = @ \ gone]
    /\ links' = links \ UNION {LinksOf(u) : u \in gone}
    /\ crossed' = {p \in crossed : \A u \in p \cap gone : At(u, "enter")}
    /\ IF end THEN live' = live \ {c} /\ ending' = ending \cup {c}
              ELSE UNCHANGED <<live, ending>>

LeaveCall(u, c) ==
    /\ c \in live
    /\ Drop(c, {u}, here[c] \subseteq {u})
    /\ UNCHANGED <<members, old, invited, admitted, lobby, row, lock, pc, crashes>>
\* Faulty variant: stale people are dropped but only a leave ends a call.
SweepPeople(c) ==
    /\ c \in live
    /\ quiet[c] # {}
    /\ Drop(c, quiet[c], FALSE)
    /\ UNCHANGED <<members, old, invited, admitted, lobby, row, lock, pc, crashes>>

\* sweep, for one call: stale people are dropped, an empty call that is not
\* new is ended.
Sweep(c) ==
    /\ c \in live
    /\ LET left == here[c] \ quiet[c]
       IN  /\ quiet[c] # {} \/ (left = {} /\ c \in old)
           /\ Drop(c, quiet[c], left = {} /\ c \in old)
    /\ UNCHANGED <<members, old, invited, admitted, lobby, row, lock, pc, crashes>>

GrowOld(c) ==
    /\ c \in live \ old
    /\ old' = old \cup {c}
    /\ UNCHANGED <<members, live, here, quiet, invited, admitted, lobby,
                   row, ending, lock, pc, links, crossed, crashes>>

\* endCall's update of the ChatCall row, after which nobody reads the LiveCall
\* object again (a request that still holds it may write to it).
EndRow(c) ==
    /\ c \in ending
    /\ ending' = ending \ {c}
    /\ row' = [row EXCEPT ![c] = "ended"]
    /\ old' = old \ {c}
    /\ here' = [here EXCEPT ![c] = {}] /\ quiet' = [quiet EXCEPT ![c] = {}]
    /\ invited' = [invited EXCEPT ![c] = {}]
    /\ admitted' = [admitted EXCEPT ![c] = {}] /\ lobby' = [lobby EXCEPT ![c] = NoLobby[c]]
    /\ UNCHANGED <<members, live, lock, pc, links, crossed, crashes>>

(***************************************************************************)
(* declineCall (liveCallFor asks for the membership of people who were not *)
(* added) and inviteToCall, which checks, queries and then rings.  That    *)
(* somebody declined is seen only by the ring and by the alert of a missed *)
(* call, which are left out.                                               *)
(***************************************************************************)
DeclineAsk(u, c) ==
    /\ At(u, "idle")
    /\ c \in live /\ u \in members /\ ~KnownTo(c, u)
    /\ pc' = [pc EXCEPT ![u] = [at |-> "decline", call |-> c, others |-> {}]]
    /\ UNCHANGED <<members, live, room, row, ending, lock, links, crossed, crashes>>

DeclineCall(u, c) ==
    /\ \/ At(u, "decline") /\ pc[u].call = c
       \/ At(u, "idle") /\ c \in live /\ KnownTo(c, u)
    /\ invited' = [invited EXCEPT ![c] = @ \ {u}]
    /\ Done(u)
    /\ UNCHANGED <<members, live, old, here, quiet, admitted, lobby, row, ending,
                   lock, links, crossed, crashes>>

InviteAsk(u, v, c) ==
    /\ At(u, "idle")
    /\ c \in live /\ u \in here[c] /\ v # u
    /\ pc' = [pc EXCEPT ![u] = [at |-> "ring", call |-> c, others |-> {v}]]
    /\ UNCHANGED <<members, live, room, row, ending, lock, links, crossed, crashes>>

\* The call may have ended by now: the membership is created all the same.
InviteToCall(u) ==
    /\ At(u, "ring")
    /\ LET c == pc[u].call
           added == pc[u].others
       IN  /\ members' = IF GroupChat THEN members \cup added ELSE members
           /\ invited' = [invited EXCEPT ![c] = @ \cup added]
    /\ Done(u)
    /\ UNCHANGED <<live, old, here, quiet, admitted, lobby, row, ending, lock,
                   links, crossed, crashes>>

(***************************************************************************)
(* The guest lobby                                                         *)
(***************************************************************************)
GuestKnock(g, c) ==
    /\ c \in live /\ here[c] # {}
    /\ Cardinality(Waiting(c)) < MaxWaiting
    /\ lobby[c][g] \in {"none", "denied"}
    /\ lobby' = [lobby EXCEPT ![c][g] = "waiting"]
    /\ UNCHANGED <<members, live, old, here, quiet, invited, admitted,
                   row, ending, lock, pc, links, crossed, crashes>>

\* waitingGuests drops a request nobody has renewed for ten minutes.
LobbyExpire(g, c) ==
    /\ c \in live /\ lobby[c][g] = "waiting"
    /\ lobby' = [lobby EXCEPT ![c][g] = "none"]
    /\ UNCHANGED <<members, live, old, here, quiet, invited, admitted,
                   row, ending, lock, pc, links, crossed, crashes>>

AnswerGuest(u, g, c) ==
    /\ c \in live /\ u \in here[c] \cap Staff
    /\ lobby[c][g] = "waiting"
    /\ \/ /\ lobby' = [lobby EXCEPT ![c][g] = "denied"]
          /\ UNCHANGED admitted
       \/ /\ ~Full(c)
          /\ lobby' = [lobby EXCEPT ![c][g] = "admitted"]
          /\ admitted' = [admitted EXCEPT ![c] = @ \cup {g}]
    /\ UNCHANGED <<members, live, old, here, quiet, invited,
                   row, ending, lock, pc, links, crossed, crashes>>

-----------------------------------------------------------------------------
\* Faulty variant: the rows left open by the last run are not closed at the start.
RestartOpenRows ==
    /\ crashes < MaxCrashes
    /\ crashes' = crashes + 1
    /\ live' = {} /\ old' = {} /\ ending' = {}
    /\ here' = Nobody /\ quiet' = Nobody
    /\ invited' = Nobody /\ admitted' = Nobody
    /\ lobby' = NoLobby
    /\ lock' = NoOne /\ links' = {} /\ crossed' = {}
    /\ pc' = [u \in People |-> Ready]
    /\ UNCHANGED <<members, row>>

\* The process restarts: memory and requests are gone, and startCallSweeper
\* marks the rows that are still open as ended before it serves anyone.
Restart ==
    /\ crashes < MaxCrashes
    /\ crashes' = crashes + 1
    /\ live' = {} /\ old' = {} /\ ending' = {}
    /\ here' = Nobody /\ quiet' = Nobody
    /\ invited' = Nobody /\ admitted' = Nobody
    /\ lobby' = NoLobby
    /\ lock' = NoOne /\ links' = {} /\ crossed' = {}
    /\ pc' = [u \in People |-> Ready]
    /\ row' = [c \in CallIds |-> IF row[c] = "open" THEN "ended" ELSE row[c]]
    /\ UNCHANGED members

Start(u) == \/ StartAsk(u) \/ StartLock(u) \/ StartExisting(u) \/ StartNew(u)
            \/ StartCreate(u) \/ StartRegister(u) \/ StartDone(u)

Lobby(c) == \E g \in Guests : \/ GuestKnock(g, c) \/ LobbyExpire(g, c)
                              \/ JoinGuest(g, c)
                              \/ \E u \in Staff : AnswerGuest(u, g, c)

Next ==
    \/ \E u \in Staff : Start(u)
    \/ \E u \in Joiners, c \in CallIds : JoinAsk(u, c) \/ JoinCheck(u, c)
    \/ \E u \in People : JoinEnter(u) \/ JoinReply(u)
    \/ \E u \in People, c \in CallIds : GoQuiet(u, c) \/ PollCall(u, c) \/ LeaveCall(u, c)
    \/ \E c \in CallIds : Sweep(c) \/ GrowOld(c) \/ EndRow(c) \/ Lobby(c)
    \/ \E u \in Joiners, c \in CallIds : DeclineAsk(u, c) \/ DeclineCall(u, c)
    \/ \E u, v \in Joiners, c \in CallIds : InviteAsk(u, v, c)
    \/ \E u \in Staff : InviteToCall(u)
    \/ Restart

Spec == Init /\ [][Next]_vars

\* The sweeper is a timer and handlers run to their answer.  Releasing the lock
\* wakes every waiter, first come first served, before any other request runs:
\* a waiter is passed over only while others hold the lock (strong fairness).
Fairness ==
    /\ \A c \in CallIds : WF_vars(Sweep(c)) /\ WF_vars(GrowOld(c)) /\ WF_vars(EndRow(c))
    /\ \A u \in Staff : /\ SF_vars(StartLock(u))
                        /\ WF_vars(StartExisting(u)) /\ WF_vars(StartNew(u))
                        /\ WF_vars(StartCreate(u)) /\ WF_vars(StartRegister(u))
                        /\ WF_vars(StartDone(u))

FairSpec == Spec /\ Fairness

-----------------------------------------------------------------------------
\* startingCalls: people pressing "Call" at the same moment end up in ONE call,
\* however their requests, the sweeper and restarts interleave.
OneCall == \A c, d \in live : c = d

\* The database and memory agree on which calls run: a live call has an open
\* row, and an open row belongs to a live call, to one being created or to one
\* whose end is being written.
RowsFollowLive ==
    /\ \A c \in live : row[c] = "open"
    /\ \A c \in CallIds : row[c] = "open" =>
          \/ c \in live \cup ending
          \/ \E u \in Staff : At(u, "register") /\ pc[u].call = c

\* Nobody from outside is in a call unless a person in that call let them in.
GuestsWereAdmitted ==
    \A c \in CallIds : here[c] \cap Guests \subseteq
                         {g \in admitted[c] : lobby[c][g] = "admitted"}

\* "The newcomer calls everyone who is already in the call": any two people in a
\* call whose join has been answered are connected to each other, whoever refreshes,
\* is swept, leaves and comes back meanwhile, unless they listed the others at the
\* same moment (then neither hears of the other: the code keeps nothing against it).
EveryPairConnected ==
    \A c \in live : \A u, v \in here[c] :
        u # v /\ At(u, "idle") /\ At(v, "idle") => {u, v} \in links \cup crossed

\* An abandoned call ends: once everyone in it has gone quiet it is closed in
\* memory and its row is ended, unless someone comes (back).
AbandonedCallsEnd ==
    \A c \in CallIds :
        (c \in live /\ here[c] \subseteq quiet[c])
            ~> (row[c] = "ended" \/ ~(here[c] \subseteq quiet[c]))

\* Every request to start a call is answered: who waits while somebody else creates
\* one gets the lock in the end, also when that creation fails, a call is there
\* already, or others keep asking.
StartIsAnswered ==
    \A u \in Staff : At(u, "wait") ~> At(u, "idle")
=============================================================================
