----------------------------- MODULE DayPromise -----------------------------
(***************************************************************************)
(* What the clock promises for each attendance day, whatever runs behind   *)
(* it: the four states the widget shows (liveState) and the overtime flag. *)
(* A day is checked in once, breaks happen while it is open, it closes,    *)
(* and it can be opened again only once, by starting overtime.             *)
(*                                                                         *)
(* After the shift moved to another time zone a session may stand on the   *)
(* wrong date; the next check-in then folds that day into the right one,   *)
(* and the date it vacates can be checked in again.                        *)
(***************************************************************************)
CONSTANT Days
VARIABLES state, overtime,
          vacated   \* days whose session went to another day

vars == <<state, overtime, vacated>>

States == {"NOT_IN", "IN", "ON_BREAK", "OUT"}
Open == {"IN", "ON_BREAK"}

Init ==
    /\ state = [d \in Days |-> "NOT_IN"]
    /\ overtime = [d \in Days |-> FALSE]
    /\ vacated = {}

To(d, s) == state' = [state EXCEPT ![d] = s]

CheckIn(d) ==
    /\ state[d] = "NOT_IN" /\ d \notin vacated /\ To(d, "IN")
    /\ UNCHANGED <<overtime, vacated>>

StartBreak(d) == state[d] = "IN" /\ To(d, "ON_BREAK") /\ UNCHANGED <<overtime, vacated>>

EndBreak(d) == state[d] = "ON_BREAK" /\ To(d, "IN") /\ UNCHANGED <<overtime, vacated>>

Close(d) == state[d] \in Open /\ To(d, "OUT") /\ UNCHANGED <<overtime, vacated>>

\* Overtime is switched on once and stays on.
StartOvertime(d) ==
    /\ state[d] # "NOT_IN"
    /\ ~overtime[d]
    /\ overtime' = [overtime EXCEPT ![d] = TRUE]
    /\ UNCHANGED <<state, vacated>>

\* Only the start of overtime opens a closed day; a break that was left running
\* when the day closed runs on.
Reopen(d) ==
    /\ state[d] = "OUT"
    /\ ~overtime[d]
    /\ overtime' = [overtime EXCEPT ![d] = TRUE]
    /\ \E s \in Open : To(d, s)
    /\ UNCHANGED vacated

\* Day d becomes part of day e, which was checked in or vacated before.  Two open
\* days make an open one, on break if either was; a check-out may get lost.
Fold(d, e) ==
    /\ d # e
    /\ state[d] # "NOT_IN" /\ (state[e] # "NOT_IN" \/ e \in vacated)
    /\ vacated' = (vacated \ {e}) \cup {d}
    /\ \E s \in Open \cup {"OUT"} :
          /\ s = "OUT" => "OUT" \in {state[d], state[e]} \/ e \in vacated
          /\ s = "ON_BREAK" => {state[d], state[e]} \cap {"OUT", "ON_BREAK"} # {}
          /\ s = "IN" => "ON_BREAK" \notin {state[d], state[e]}
          /\ state' = [state EXCEPT ![d] = "NOT_IN", ![e] = s]
    /\ UNCHANGED overtime

\* A vacated day is checked in again; it comes up closed if the sweep still had it
\* on its list when it was vacated.
CheckInAgain(d) ==
    /\ state[d] = "NOT_IN" /\ d \in vacated
    /\ \E s \in {"IN", "OUT"} : To(d, s)
    /\ vacated' = vacated \ {d}
    /\ UNCHANGED overtime

Next ==
    \E d \in Days :
        \/ CheckIn(d) \/ StartBreak(d) \/ EndBreak(d)
        \/ Close(d) \/ StartOvertime(d) \/ Reopen(d) \/ CheckInAgain(d)
        \/ \E e \in Days : Fold(d, e)

Spec == Init /\ [][Next]_vars
=============================================================================
