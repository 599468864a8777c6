---------------------------- MODULE LeadDialerProofs ----------------------------
(***************************************************************************)
(* Proofs about the dialer's leads: type correctness, that a call counts   *)
(* once, and that a lead has one open automatic task.                      *)
(*                                                                         *)
(* A plan is looked at by its head.  What comes after the head never puts  *)
(* a call on the lead, ticks a task or ends a sync (Later), but for the    *)
(* read that follows the row of a call.                                    *)
(***************************************************************************)
EXTENDS LeadDialer, SequenceTheorems, TLAPS

Names == {"rank", "dnc", "wrong", "quiet", "snoozed", "later"}
Fits(columns) ==
    /\ DOMAIN columns \subseteq Names
    /\ "rank" \in DOMAIN columns => columns["rank"] \in 0 .. Closed
    /\ "dnc" \in DOMAIN columns => columns["dnc"] \in BOOLEAN
    /\ "wrong" \in DOMAIN columns => columns["wrong"] \in BOOLEAN
    /\ "quiet" \in DOMAIN columns => columns["quiet"] \in BOOLEAN
    /\ "snoozed" \in DOMAIN columns => columns["snoozed"] \in BOOLEAN
    /\ "later" \in DOMAIN columns => columns["later"] \in {0} \cup Dues
ColumnSets == {c \in UNION {[D -> BOOLEAN \cup (0 .. Closed)] : D \in SUBSET Names} : Fits(c)}
Wish == [reason : Reasons, due : {0} \cup Dues]

Steps ==
    [do : {"log", "read"}, call : Calls]
      \cup [do : {"apply"}, call : Calls, columns : ColumnSets]
      \cup [do : {"lead"}, columns : ColumnSets]
      \cup [do : {"find", "lock"}]
      \cup [do : {"mark"}, ids : SUBSET TaskIds, done : BOOLEAN]
      \cup [do : {"clear"}, dues : SUBSET ({0} \cup Dues)]
      \cup [do : {"due"}, ids : SUBSET TaskIds, due : Dues]
      \cup [do : {"tasks"}, want : SUBSET Wish]
      \cup [do : {"commit"}, want : SUBSET Wish, keep : SUBSET TaskIds, ids : SUBSET TaskIds]

\* What a plan still has to do after its head.
Later == {"find", "lock", "lead", "clear"}
GoodPlan(p) ==
    /\ p \in Seq(Steps)
    /\ \A n \in 2 .. Len(p) :
          p[n].do \in Later \/ (n = 2 /\ p[1].do = "log" /\ p[2] = ReadLead(p[1].call))
Mild(p) == p = <<>> \/ Head(p).do \in Later

TypeInv ==
    /\ TypeOK
    /\ plans \in [Jobs -> Seq(Steps)]
    /\ \A j \in Jobs : GoodPlan(plans[j])

\* Step s is the commit of the sync of j: what it has to write is of what j wanted.
Commits(j, keep, s) ==
    \E want \in SUBSET Step(j).want : s = Commit(want, keep, OpenTasks \ keep)

\* A job is about to put call c on the lead.
Carries(j, c) ==
    plans[j] # <<>> /\ Head(plans[j]).do \in {"read", "apply"} /\ Head(plans[j]).call = c
CallInv ==
    \A c \in Calls :
       /\ calls[c].on <=> calls[c].applied > 0
       /\ ~calls[c].logged => /\ calls[c].applied = 0 /\ c \notin linked
                              /\ \A j \in Jobs : ~Carries(j, c)
       /\ c \notin linked =>
             /\ calls[c].applied <= 1
             /\ \A j \in Jobs : Carries(j, c) => /\ calls[c].applied = 0
                                                 /\ \A k \in Jobs : Carries(k, c) => k = j

\* One sync at a time; it wants one task at most, keeps one at most, and has in hand
\* every task that is open, since all but it only close them.
Real(k) == tasks[k].reason \in Reasons
InSync(j) == At(j, "tasks") \/ At(j, "commit")
LockInv == \A j \in Jobs : InSync(j) <=> lock = j
SyncInv ==
    /\ \A j \in Jobs : InSync(j) => \A v, w \in Step(j).want : v = w
    /\ \A j \in Jobs : At(j, "commit") => \A i, k \in Step(j).keep : i = k
RealInv ==
    /\ \A k \in TaskIds : tasks[k] # NoTask => Real(k)
    /\ \A j \in Jobs : At(j, "mark") \/ At(j, "due") => \A k \in Step(j).ids : Real(k)
    /\ \A j \in Jobs : At(j, "commit") => \A k \in Step(j).keep \cup Step(j).ids : Real(k)
    /\ \A j \in Jobs : At(j, "mark") /\ Step(j).done = FALSE => unticked
OpenInv ==
    ~unticked =>
       /\ \A j \in Jobs : At(j, "commit") => OpenTasks \subseteq Step(j).ids
       /\ \A i, k \in OpenTasks : i = k
TaskInv == LockInv /\ SyncInv /\ RealInv /\ OpenInv

(***************************************************************************)
(* Plans.                                                                  *)
(***************************************************************************)
LEMMA StepCases ==
  ASSUME NEW s \in Steps
  PROVE  /\ s.do \in {"log", "read"} => s.call \in Calls
         /\ s.do = "apply" => s.call \in Calls /\ s.columns \in ColumnSets
         /\ s.do = "lead" => s.columns \in ColumnSets
         /\ s.do = "mark" => s.ids \in SUBSET TaskIds /\ s.done \in BOOLEAN
         /\ s.do = "clear" => s.dues \in SUBSET ({0} \cup Dues)
         /\ s.do = "due" => s.ids \in SUBSET TaskIds /\ s.due \in Dues
         /\ s.do = "tasks" => s.want \in SUBSET Wish
         /\ s.do = "commit" => /\ s.want \in SUBSET Wish
                               /\ s.keep \in SUBSET TaskIds /\ s.ids \in SUBSET TaskIds
BY DEF Steps

\* One step in front of what is left of a plan.
LEMMA PlanMoves ==
  ASSUME NEW p, GoodPlan(p), p # <<>>, Head(p).do # "log", NEW more \in Seq(Steps),
         \A n \in 2 .. Len(more) : more[n].do \in Later
  PROVE  LET q == more \o Tail(p)
         IN  /\ GoodPlan(q)
             /\ more # <<>> => q # <<>> /\ Head(q) = more[1]
             /\ more = <<>> => Mild(q)
<1> DEFINE q == more \o Tail(p)
<1>1. p \in Seq(Steps) /\ \A n \in 2 .. Len(p) : p[n].do \in Later
  BY DEF GoodPlan
<1>2. /\ q \in Seq(Steps) /\ Len(q) = Len(more) + Len(p) - 1
      /\ \A n \in 1 .. Len(more) : q[n] = more[n]
      /\ \A n \in 2 .. Len(p) : q[Len(more) + n - 1] = p[n]
  BY <1>1
<1>3. ASSUME NEW n \in 1 .. Len(q), n >= 2 \/ more = <<>>
      PROVE  q[n].do \in Later
  <2>1. CASE n <= Len(more)
    BY <2>1, <1>2, <1>3
  <2>2. CASE n > Len(more)
    <3>1. n - Len(more) + 1 \in 2 .. Len(p) /\ n = Len(more) + (n - Len(more) + 1) - 1
      BY <2>2, <1>1, <1>2
    <3> QED BY <3>1, <1>1, <1>2
  <2> QED BY <2>1, <2>2, <1>2
<1>4. more # <<>> => q # <<>> /\ Head(q) = more[1]
  BY <1>2
<1>5. more = <<>> => Mild(q)
  BY <1>2, <1>3 DEF Mild
<1>6. GoodPlan(q)
  BY <1>2, <1>3 DEF GoodPlan
<1> QED BY <1>4, <1>5, <1>6

\* The row of a call is made: its lead is read next.
LEMMA LogMoves ==
  ASSUME NEW p, GoodPlan(p), p # <<>>, Head(p).do = "log"
  PROVE  LET q == <<>> \o Tail(p)
         IN  GoodPlan(q) /\ (Mild(q) \/ (q # <<>> /\ Head(q) = ReadLead(Head(p).call)))
<1> DEFINE q == <<>> \o Tail(p)
<1>1. p \in Seq(Steps) /\ Head(p) = p[1]
  BY DEF GoodPlan
<1>2. q \in Seq(Steps) /\ Len(q) = Len(p) - 1 /\ \A n \in 2 .. Len(p) : q[n - 1] = p[n]
  BY <1>1
<1>3. \A n \in 1 .. Len(q) : n + 1 \in 2 .. Len(p) /\ q[n] = p[n + 1]
  BY <1>1, <1>2
<1>4. \A n \in 2 .. Len(q) : q[n].do \in Later
  BY <1>1, <1>3 DEF GoodPlan
<1>5. q = <<>> \/ Head(q).do \in Later \/ Head(q) = ReadLead(Head(p).call)
  BY <1>1, <1>2, <1>3 DEF GoodPlan
<1> QED BY <1>2, <1>4, <1>5 DEF GoodPlan, Mild

\* A plan that a request begins with.
LEMMA PlanBegins ==
  ASSUME NEW m \in Seq(Steps), NEW p \in Seq(Steps),
         \A n \in 1 .. Len(p) : p[n].do \in Later,
         \/ m = <<>>
         \/ Len(m) = 1
         \/ Len(m) = 2 /\ m[1].do = "log" /\ m[2] = ReadLead(m[1].call)
  PROVE  LET q == m \o p
         IN  GoodPlan(q) /\ (m # <<>> => q # <<>> /\ Head(q) = m[1]) /\ (m = <<>> => Mild(q))
<1> DEFINE q == m \o p
<1>1. /\ q \in Seq(Steps) /\ Len(q) = Len(m) + Len(p)
      /\ \A n \in 1 .. Len(m) : q[n] = m[n]
      /\ \A n \in 1 .. Len(p) : q[Len(m) + n] = p[n]
  OBVIOUS
<1>2. ASSUME NEW n \in 1 .. Len(q), n > Len(m)
      PROVE  q[n].do \in Later
  <2>1. n - Len(m) \in 1 .. Len(p) /\ n = Len(m) + (n - Len(m))
    BY <1>1, <1>2
  <2> QED BY <2>1, <1>1
<1>3. GoodPlan(q)
  BY <1>1, <1>2 DEF GoodPlan
<1> QED BY <1>1, <1>2, <1>3 DEF Mild

(***************************************************************************)
(* Columns.                                                                *)
(***************************************************************************)
LeadType == [rank : 0 .. Closed, dnc : BOOLEAN, wrong : BOOLEAN, quiet : BOOLEAN, snoozed : BOOLEAN,
             later : {0} \cup Dues]

LEMMA ColumnsAre ==
  ASSUME NEW D \in SUBSET Names, NEW c, c = [x \in D |-> c[x]], Fits(c)
  PROVE  c \in ColumnSets
<1>1. \A x \in D : c[x] \in BOOLEAN \cup (0 .. Closed)
  BY DEF Fits, Names, Dues, Closed
<1> QED BY <1>1 DEF ColumnSets

LEMMA FewColumns ==
  ASSUME NEW r \in 0 .. Closed, NEW b \in BOOLEAN, NEW d \in {0} \cup Dues
  PROVE  /\ NoColumns \in ColumnSets
         /\ [rank |-> r] \in ColumnSets
         /\ [quiet |-> FALSE] \in ColumnSets
         /\ [later |-> d] \in ColumnSets
         /\ [quiet |-> FALSE, wrong |-> TRUE] \in ColumnSets
         /\ [later |-> d, snoozed |-> b] \in ColumnSets
         /\ [rank |-> r, snoozed |-> FALSE, later |-> d] \in ColumnSets
         /\ [dnc |-> TRUE, later |-> d, snoozed |-> FALSE] \in ColumnSets
         /\ [wrong |-> TRUE, later |-> d] \in ColumnSets
<1>1. NoColumns \in ColumnSets
  <2>1. DOMAIN NoColumns = {} /\ NoColumns = [x \in {} |-> NoColumns[x]]
    BY DEF NoColumns
  <2>2. Fits(NoColumns)
    BY <2>1 DEF Fits
  <2> QED BY <2>1, <2>2, ColumnsAre
<1>2. [rank |-> r] \in ColumnSets
  BY ColumnsAre DEF Fits, Names
<1>3. [quiet |-> FALSE] \in ColumnSets
  BY ColumnsAre DEF Fits, Names
<1>4. [later |-> d] \in ColumnSets
  BY ColumnsAre DEF Fits, Names
<1>5. [quiet |-> FALSE, wrong |-> TRUE] \in ColumnSets
  BY ColumnsAre DEF Fits, Names
<1>6. [later |-> d, snoozed |-> b] \in ColumnSets
  BY ColumnsAre DEF Fits, Names
<1>7. [rank |-> r, snoozed |-> FALSE, later |-> d] \in ColumnSets
  BY ColumnsAre DEF Fits, Names
<1>8. [dnc |-> TRUE, later |-> d, snoozed |-> FALSE] \in ColumnSets
  BY ColumnsAre DEF Fits, Names
<1>9. [wrong |-> TRUE, later |-> d] \in ColumnSets
  BY ColumnsAre DEF Fits, Names
<1> QED BY <1>1, <1>2, <1>3, <1>4, <1>5, <1>6, <1>7, <1>8, <1>9

LEMMA OverFits ==
  ASSUME NEW a \in ColumnSets, NEW b \in ColumnSets
  PROVE  Over(a, b) \in ColumnSets
<1>1. Fits(a) /\ Fits(b)
  BY DEF ColumnSets
<1>2. DOMAIN Over(a, b) = DOMAIN a \cup DOMAIN b /\ DOMAIN Over(a, b) \in SUBSET Names
  BY <1>1 DEF Over, Fits
<1>3. Fits(Over(a, b))
  BY <1>1 DEF Over, Fits, Names
<1>4. Over(a, b) = [x \in DOMAIN Over(a, b) |-> Over(a, b)[x]]
  BY DEF Over
<1> QED BY <1>2, <1>3, <1>4, ColumnsAre

LEMMA LeadWritten ==
  ASSUME NEW l \in LeadType, NEW c \in ColumnSets
  PROVE  Over(c, l) \in LeadType
<1>1. Fits(c) /\ DOMAIN l = Names
  BY DEF ColumnSets, LeadType, Names
<1>2. Over(c, l) = [x \in Names |-> IF x \in DOMAIN c THEN c[x] ELSE l[x]]
  BY <1>1 DEF Over, Fits
<1> QED BY <1>1, <1>2 DEF Fits, LeadType, Names

LEMMA CallColumns ==
  ASSUME NEW o \in Outcomes, NEW l \in LeadType, NEW due \in Dues
  PROVE  Columns(o, l, due) \in ColumnSets
<1> DEFINE moved == IF Rank(o) > l.rank THEN [rank |-> Rank(o)] ELSE NoColumns
           also  == CASE o = "CALLBACK" -> [later |-> due, snoozed |-> FALSE]
                      [] o = "NOT_INTERESTED" -> [later |-> 0]
                      [] o = "DNC" /\ ~l.dnc -> [dnc |-> TRUE, later |-> 0, snoozed |-> FALSE]
                      [] o = "WRONG_NUMBER" /\ ~l.wrong -> [wrong |-> TRUE, later |-> 0]
                      [] OTHER -> NoColumns
<1>1. Rank(o) \in 0 .. Closed
  BY DEF Rank, Outcomes, Closed
<1>2. moved \in ColumnSets
  BY <1>1, FewColumns
<1>3. also \in ColumnSets
  <2>1. /\ [later |-> due, snoozed |-> FALSE] \in ColumnSets
        /\ [later |-> 0] \in ColumnSets
        /\ [dnc |-> TRUE, later |-> 0, snoozed |-> FALSE] \in ColumnSets
        /\ [wrong |-> TRUE, later |-> 0] \in ColumnSets
        /\ NoColumns \in ColumnSets
    BY <1>1, FewColumns
  <2>2. CASE o = "CALLBACK"
    BY <2>1, <2>2
  <2>3. CASE o = "NOT_INTERESTED"
    BY <2>1, <2>3
  <2>4. CASE o = "DNC" /\ ~l.dnc
    BY <2>1, <2>4
  <2>5. CASE o = "WRONG_NUMBER" /\ ~l.wrong
    BY <2>1, <2>5
  <2>6. CASE o = "NO_ANSWER" \/ (o = "DNC" /\ l.dnc) \/ (o = "WRONG_NUMBER" /\ l.wrong)
    BY <2>1, <2>6
  <2> QED BY <2>2, <2>3, <2>4, <2>5, <2>6 DEF Outcomes
<1>4. [quiet |-> FALSE] \in ColumnSets
  BY <1>1, FewColumns
<1> QED BY <1>2, <1>3, <1>4, OverFits DEF Columns

(***************************************************************************)
(* What each action leaves of its plan.                                    *)
(***************************************************************************)
Moved(j) ==
    /\ plans' \in [Jobs -> Seq(Steps)]
    /\ GoodPlan(plans'[j])
    /\ \A k \in Jobs \ {j} : plans'[k] = plans[k]

LEMMA TouchedIs ==
  /\ Touched \in Seq(Steps) /\ \A n \in 1 .. Len(Touched) : Touched[n].do \in Later
  /\ << Lock >> \in Seq(Steps) /\ \A n \in 1 .. Len(<< Lock >>) : << Lock >>[n].do \in Later
<1>1. Find \in Steps /\ Lock \in Steps
  BY DEF Find, Lock, Steps
<1>2. Find.do \in Later /\ Lock.do \in Later
  BY DEF Find, Lock, Later
<1> QED BY <1>1, <1>2 DEF Touched

LEMMA OneStep ==
  ASSUME NEW s \in Steps
  PROVE  << s >> # <<>> /\ Head(<< s >>) = s /\ GoodPlan(<< s >>)
BY DEF GoodPlan

LEMMA TwoSteps ==
  ASSUME NEW a \in Steps, NEW b \in Steps
  PROVE  /\ << a >> \o << b >> = << a, b >>
         /\ << a, b >> \in Seq(Steps) /\ Len(<< a, b >>) = 2 /\ << a, b >> # <<>>
         /\ << a, b >>[1] = a /\ << a, b >>[2] = b
<1> DEFINE p == << a >> \o << b >>
           q == << a, b >>
<1>1. p \in Seq(Steps) /\ Len(p) = 2 /\ p[1] = a /\ p[2] = b
  OBVIOUS
<1>2. q \in Seq(Steps) /\ Len(q) = 2 /\ q[1] = a /\ q[2] = b
  OBVIOUS
<1>3. \A n \in 1 .. Len(p) : p[n] = q[n]
  BY <1>1, <1>2
<1> HIDE DEF p, q
<1>4. p = q
  BY <1>1, <1>2, <1>3, SeqEqual
<1> QED BY <1>2, <1>4 DEF p, q

LEMMA BeginMoves ==
  ASSUME TypeInv, NEW j \in Requests
  PROVE  /\ \A c \in Calls : ReceiveCall(j, c) => /\ Moved(j) /\ plans'[j] # <<>>
                                                  /\ Head(plans'[j]) = Log(c)
         /\ \A c \in Calls : LinkCall(j, c) => /\ Moved(j) /\ plans'[j] # <<>>
                                               /\ Head(plans'[j]) = ReadLead(c)
         /\ AddTouch(j) \/ LeadAction(j) \/ ChangeStatus(j) => Moved(j) /\ Mild(plans'[j])
         /\ \A k \in TaskIds : UpdateTask(j, k) =>
              /\ Moved(j) /\ plans'[j] # <<>>
              /\ \/ Head(plans'[j]) = Mark({k}, TRUE)
                 \/ Head(plans'[j]) = Mark({k}, FALSE) /\ unticked'
                 \/ \E d \in Dues : Head(plans'[j]) = Due(k, d)
<1>0. j \in Jobs /\ plans \in [Jobs -> Seq(Steps)]
  BY DEF Jobs, TypeInv
<1>1. ASSUME NEW p, GoodPlan(p), Starts(j, p)
      PROVE  Moved(j) /\ plans'[j] = p
  BY <1>0, <1>1 DEF Starts, Moved, GoodPlan
<1>2. ASSUME NEW c \in Calls, ReceiveCall(j, c)
      PROVE  Moved(j) /\ plans'[j] # <<>> /\ Head(plans'[j]) = Log(c)
  <2> DEFINE m == << Log(c), ReadLead(c) >>
             q == m \o Touched
  <2>1. Log(c) \in Steps /\ ReadLead(c) \in Steps
    BY DEF Log, ReadLead, Steps
  <2>2. m \in Seq(Steps) /\ Len(m) = 2 /\ m[1].do = "log" /\ m[1] = Log(c) /\ m[2] = ReadLead(m[1].call)
    BY <2>1 DEF Log, ReadLead
  <2>3. q = << Log(c) >> \o OnLead(c)
    <3>1. << Log(c) >> \o (<< ReadLead(c) >> \o Touched) = (<< Log(c) >> \o << ReadLead(c) >>) \o Touched
      BY <2>1, TouchedIs
    <3>2. << Log(c) >> \o << ReadLead(c) >> = m
      BY <2>1, TwoSteps
    <3> QED BY <3>1, <3>2 DEF OnLead
  <2>4. GoodPlan(q) /\ q # <<>> /\ Head(q) = m[1]
    BY <2>2, TouchedIs, PlanBegins
  <2>5. Starts(j, q)
    BY <1>2, <2>3 DEF ReceiveCall
  <2> QED BY <1>1, <2>2, <2>4, <2>5
<1>3. ASSUME NEW c \in Calls, LinkCall(j, c)
      PROVE  Moved(j) /\ plans'[j] # <<>> /\ Head(plans'[j]) = ReadLead(c)
  <2> DEFINE m == << ReadLead(c) >>
             q == m \o Touched
  <2>1. m \in Seq(Steps) /\ Len(m) = 1 /\ m[1] = ReadLead(c)
    BY DEF ReadLead, Steps
  <2>2. GoodPlan(q) /\ q # <<>> /\ Head(q) = m[1]
    BY <2>1, TouchedIs, PlanBegins
  <2>3. Starts(j, q)
    BY <1>3 DEF LinkCall, OnLead
  <2> QED BY <1>1, <2>1, <2>2, <2>3
<1>4. ASSUME NEW c \in ColumnSets, NEW p \in Seq(Steps), \A n \in 1 .. Len(p) : p[n].do \in Later
      PROVE  LET q == << Lead(c) >> \o p IN GoodPlan(q) /\ Mild(q)
  <2> DEFINE m == << Lead(c) >>
  <2>1. m \in Seq(Steps) /\ Len(m) = 1 /\ m[1].do \in Later
    BY DEF Lead, Steps, Later
  <2>2. GoodPlan(m \o p) /\ Head(m \o p) = m[1]
    BY <2>1, <1>4, PlanBegins
  <2> QED BY <2>1, <2>2 DEF Mild
<1>5. ASSUME AddTouch(j)
      PROVE  Moved(j) /\ Mild(plans'[j])
  <2>1. PICK c \in ColumnSets : Starts(j, << Lead(c) >> \o Touched)
    <3>1. [quiet |-> FALSE] \in ColumnSets /\ [quiet |-> FALSE, wrong |-> TRUE] \in ColumnSets
      BY FewColumns, 0 \in 0 .. Closed DEF Closed
    <3> QED BY <1>5, <3>1 DEF AddTouch
  <2> QED BY <2>1, <1>1, <1>4, TouchedIs
<1>6. ASSUME LeadAction(j)
      PROVE  Moved(j) /\ Mild(plans'[j])
  <2>1. PICK c \in ColumnSets : Starts(j, << Lead(c), Lock >>)
    <3>1. \A d \in {0} \cup Dues, b \in BOOLEAN : [later |-> d, snoozed |-> b] \in ColumnSets
      BY FewColumns, 0 \in 0 .. Closed DEF Closed
    <3> QED BY <1>6, <3>1 DEF LeadAction
  <2>2. << Lead(c), Lock >> = << Lead(c) >> \o << Lock >>
    <3>1. Lead(c) \in Steps /\ Lock \in Steps
      BY DEF Lead, Lock, Steps
    <3> QED BY <3>1, TwoSteps
  <2>3. GoodPlan(<< Lead(c) >> \o << Lock >>) /\ Mild(<< Lead(c) >> \o << Lock >>)
    BY <1>4, TouchedIs
  <2> QED BY <2>1, <2>2, <2>3, <1>1
<1>7. ASSUME ChangeStatus(j)
      PROVE  Moved(j) /\ Mild(plans'[j])
  <2>1. PICK c \in ColumnSets : Starts(j, << Lead(c) >>)
    BY <1>7, FewColumns DEF ChangeStatus
  <2>2. << Lead(c) >> = << Lead(c) >> \o <<>> /\ <<>> \in Seq(Steps) /\ Len(<<>>) = 0
    BY DEF Lead, Steps
  <2>3. \A n \in 1 .. Len(<<>>) : <<>>[n].do \in Later
    BY <2>2
  <2>4. GoodPlan(<< Lead(c) >> \o <<>>) /\ Mild(<< Lead(c) >> \o <<>>)
    BY <2>2, <2>3, <1>4
  <2> QED BY <2>1, <2>2, <2>4, <1>1
<1>8. ASSUME NEW k \in TaskIds, UpdateTask(j, k)
      PROVE  /\ Moved(j) /\ plans'[j] # <<>>
             /\ \/ Head(plans'[j]) = Mark({k}, TRUE)
                \/ Head(plans'[j]) = Mark({k}, FALSE) /\ unticked'
                \/ \E d \in Dues : Head(plans'[j]) = Due(k, d)
  <2> DEFINE later(d) == IF tasks[k].reason = "CALL_LATER" THEN << Lead([later |-> d]) >> ELSE <<>>
  <2>1. ASSUME NEW d \in {0} \cup Dues
        PROVE  later(d) \in Seq(Steps) /\ \A n \in 1 .. Len(later(d)) : later(d)[n].do \in Later
    <3>1. [later |-> d] \in ColumnSets
      BY FewColumns, 0 \in 0 .. Closed DEF Closed
    <3>2. Lead([later |-> d]) \in Steps /\ Lead([later |-> d]).do \in Later
      BY <3>1 DEF Lead, Steps, Later
    <3> QED BY <3>2
  <2>2. ASSUME NEW s \in Steps, NEW d \in {0} \cup Dues, Starts(j, << s >> \o later(d))
        PROVE  Moved(j) /\ plans'[j] # <<>> /\ Head(plans'[j]) = s
    <3> DEFINE m == << s >>
    <3>1. m \in Seq(Steps) /\ Len(m) = 1 /\ m[1] = s /\ m # <<>>
      OBVIOUS
    <3>2. GoodPlan(m \o later(d)) /\ m \o later(d) # <<>> /\ Head(m \o later(d)) = m[1]
      <4> HIDE DEF later, m
      <4> QED BY <3>1, <2>1, PlanBegins
    <3>3. Starts(j, m \o later(d))
      BY <2>2
    <3> HIDE DEF later, m
    <3> QED BY <3>1, <3>2, <3>3, <1>1
  <2>3. Mark({k}, TRUE) \in Steps /\ Mark({k}, FALSE) \in Steps /\ \A d \in Dues : Due(k, d) \in Steps
    BY DEF Mark, Due, Steps
  <2>4. \/ Starts(j, << Mark({k}, TRUE) >> \o later(0))
        \/ Starts(j, << Mark({k}, FALSE) >>) /\ unticked' = TRUE
        \/ \E d \in Dues : Starts(j, << Due(k, d) >> \o later(d))
    BY <1>8 DEF UpdateTask
  <2>5. CASE Starts(j, << Mark({k}, TRUE) >> \o later(0))
    BY <2>5, <2>2, <2>3
  <2>6. CASE Starts(j, << Mark({k}, FALSE) >>) /\ unticked' = TRUE
    <3> DEFINE m == << Mark({k}, FALSE) >>
    <3>1. m # <<>> /\ Head(m) = Mark({k}, FALSE) /\ GoodPlan(m)
      BY <2>3, OneStep
    <3>2. Starts(j, m) /\ unticked'
      BY <2>6
    <3> HIDE DEF m
    <3> QED BY <3>1, <3>2, <1>1
  <2>7. CASE \E d \in Dues : Starts(j, << Due(k, d) >> \o later(d))
    <3>1. PICK d \in Dues : Starts(j, << Due(k, d) >> \o later(d))
      BY <2>7
    <3> QED BY <3>1, <2>2, <2>3
  <2> QED BY <2>4, <2>5, <2>6, <2>7
<1> QED BY <1>2, <1>3, <1>5, <1>6, <1>7, <1>8

LEMMA WorkMoves ==
  ASSUME TypeInv, NEW j \in Jobs
  PROVE  /\ LogCall(j) =>
              /\ Moved(j)
              /\ \/ Mild(plans'[j])
                 \/ /\ ~calls[Step(j).call].logged /\ plans'[j] # <<>>
                    /\ Head(plans'[j]) = ReadLead(Step(j).call)
         /\ ReadForCall(j) =>
              /\ Moved(j) /\ plans'[j] # <<>>
              /\ \E c \in ColumnSets : Head(plans'[j]) = Apply(Step(j).call, c)
         /\ ApplyToLead(j) \/ WriteLead(j) \/ MarkTasks(j) \/ ClearLater(j) \/ MoveTask(j) =>
              Moved(j) /\ Mild(plans'[j])
         /\ FindTasks(j) =>
              /\ Moved(j)
              /\ \/ Mild(plans'[j])
                 \/ plans'[j] # <<>> /\ \E ids \in SUBSET OpenTasks : Head(plans'[j]) = Mark(ids, TRUE)
         /\ BeginSync(j) => Moved(j) /\ plans'[j] # <<>> /\ Head(plans'[j]) = ReadTasks(Wanted)
         /\ SyncReadsTasks(j) =>
              /\ Moved(j) /\ plans'[j] # <<>>
              /\ \E keep \in SUBSET OpenTasks :
                    /\ \A i, k \in keep : i = k
                    /\ Commits(j, keep, Head(plans'[j]))
         /\ CommitSync(j) => Moved(j) /\ Mild(plans'[j])
<1>0. /\ plans \in [Jobs -> Seq(Steps)] /\ GoodPlan(plans[j])
      /\ lead \in LeadType
      /\ \A c \in Calls : calls[c].outcome \in Outcomes
  BY DEF TypeInv, TypeOK, LeadType
<1>1. ASSUME NEW d, At(j, d)
      PROVE  plans[j] # <<>> /\ Head(plans[j]).do = d /\ Step(j) = Head(plans[j]) /\ Step(j) \in Steps
  BY <1>0, <1>1 DEF At, Step
<1>2. ASSUME NEW p, GoodPlan(p), plans' = [plans EXCEPT ![j] = p]
      PROVE  Moved(j) /\ plans'[j] = p
  BY <1>0, <1>2 DEF Moved, GoodPlan
<1>3. ASSUME NEW d, At(j, d), d # "log", NEW more \in Seq(Steps), Then(j, more),
             \A n \in 2 .. Len(more) : more[n].do \in Later
      PROVE  /\ Moved(j)
             /\ more # <<>> => plans'[j] # <<>> /\ Head(plans'[j]) = more[1]
             /\ more = <<>> => Mild(plans'[j])
  <2> DEFINE q == more \o Tail(plans[j])
  <2>1. GoodPlan(q) /\ (more # <<>> => q # <<>> /\ Head(q) = more[1]) /\ (more = <<>> => Mild(q))
    BY <1>0, <1>1, <1>3, PlanMoves
  <2>2. plans' = [plans EXCEPT ![j] = q]
    BY <1>0, <1>3 DEF Then
  <2> HIDE DEF q
  <2>3. Moved(j) /\ plans'[j] = q
    BY <2>1, <2>2, <1>2
  <2> QED BY <2>1, <2>3
<1>4. ASSUME NEW d, At(j, d), d # "log", Then(j, <<>>)
      PROVE  Moved(j) /\ Mild(plans'[j])
  <2> DEFINE m == <<>>
  <2>1. m \in Seq(Steps) /\ Len(m) = 0 /\ m = <<>> /\ Then(j, m)
    BY <1>4
  <2>2. \A n \in 2 .. Len(m) : m[n].do \in Later
    BY <2>1
  <2> HIDE DEF m
  <2> QED BY <2>1, <2>2, <1>3, <1>4
<1>5. ASSUME NEW d, At(j, d), d # "log", NEW s \in Steps, Then(j, << s >>)
      PROVE  Moved(j) /\ plans'[j] # <<>> /\ Head(plans'[j]) = s
  <2> DEFINE m == << s >>
  <2>1. m \in Seq(Steps) /\ Len(m) = 1 /\ m # <<>> /\ m[1] = s
    OBVIOUS
  <2>2. Then(j, m)
    BY <1>5
  <2> HIDE DEF m
  <2> QED BY <2>1, <2>2, <1>3, <1>5
<1>6. ASSUME LogCall(j)
      PROVE  /\ Moved(j)
             /\ \/ Mild(plans'[j])
                \/ /\ ~calls[Step(j).call].logged /\ plans'[j] # <<>>
                   /\ Head(plans'[j]) = ReadLead(Step(j).call)
  <2>1. At(j, "log")
    BY <1>6 DEF LogCall
  <2>2. CASE calls[Step(j).call].logged
    <3>1. plans' = [plans EXCEPT ![j] = <<>>]
      BY <1>6, <2>2 DEF LogCall
    <3>2. GoodPlan(<<>>) /\ Mild(<<>>)
      BY DEF GoodPlan, Mild
    <3> QED BY <3>1, <3>2, <1>2
  <2>3. CASE ~calls[Step(j).call].logged
    <3> DEFINE q == <<>> \o Tail(plans[j])
    <3>1. plans' = [plans EXCEPT ![j] = q]
      BY <1>0, <1>6, <2>3 DEF LogCall, Then
    <3>2. GoodPlan(q) /\ (Mild(q) \/ (q # <<>> /\ Head(q) = ReadLead(Head(plans[j]).call)))
      BY <2>1, <1>0, <1>1, LogMoves
    <3>3. Step(j) = Head(plans[j])
      BY <2>1, <1>1
    <3> HIDE DEF q
    <3> QED BY <2>3, <3>1, <3>2, <3>3, <1>2
  <2> QED BY <2>2, <2>3
<1>7. ASSUME ReadForCall(j)
      PROVE  /\ Moved(j) /\ plans'[j] # <<>>
             /\ \E c \in ColumnSets : Head(plans'[j]) = Apply(Step(j).call, c)
  <2>1. At(j, "read")
    BY <1>7 DEF ReadForCall
  <2>2. Step(j).call \in Calls
    BY <2>1, <1>1, StepCases
  <2>3. PICK d \in Dues : Then(j, << Apply(Step(j).call, Columns(calls[Step(j).call].outcome, lead, d)) >>)
    BY <1>7 DEF ReadForCall
  <2> DEFINE c == Columns(calls[Step(j).call].outcome, lead, d)
  <2>4. c \in ColumnSets
    BY <1>0, <2>2, CallColumns
  <2> HIDE DEF c
  <2>5. Apply(Step(j).call, c) \in Steps
    BY <2>2, <2>4 DEF Apply, Steps
  <2>6. Then(j, << Apply(Step(j).call, c) >>)
    BY <2>3 DEF c
  <2> QED BY <2>1, <2>4, <2>5, <2>6, <1>5
<1>8. ASSUME ApplyToLead(j) \/ WriteLead(j) \/ MarkTasks(j) \/ ClearLater(j) \/ MoveTask(j)
      PROVE  Moved(j) /\ Mild(plans'[j])
  <2>1. PICK d \in {"apply", "lead", "mark", "clear", "due"} : At(j, d) /\ Then(j, <<>>)
    BY <1>8 DEF ApplyToLead, WriteLead, MarkTasks, ClearLater, MoveTask
  <2> QED BY <2>1, <1>4
<1>9. ASSUME FindTasks(j)
      PROVE  /\ Moved(j)
             /\ \/ Mild(plans'[j])
                \/ plans'[j] # <<>> /\ \E ids \in SUBSET OpenTasks : Head(plans'[j]) = Mark(ids, TRUE)
  <2> DEFINE found == {k \in OpenTasks : tasks[k].due <= 1 \/ tasks[k].reason = "FOLLOW_UP_RULE"}
             dues  == {tasks[k].due : k \in {i \in found : tasks[i].reason = "CALL_LATER"}}
             more  == << Mark(found, TRUE), Clear(dues) >>
  <2>1. At(j, "find") /\ Then(j, IF found = {} THEN <<>> ELSE more)
    BY <1>9 DEF FindTasks
  <2>2. found \in SUBSET OpenTasks /\ found \subseteq TaskIds
    BY DEF OpenTasks
  <2>3. dues \in SUBSET ({0} \cup Dues)
    BY <2>2 DEF TypeInv, TypeOK
  <2>4. CASE found = {}
    <3>1. Then(j, <<>>)
      BY <2>1, <2>4
    <3> QED BY <2>1, <3>1, <1>4
  <2>5. CASE found # {}
    <3> HIDE DEF found, dues
    <3>1. Mark(found, TRUE) \in Steps /\ Clear(dues) \in Steps /\ Clear(dues).do \in Later
      BY <2>2, <2>3 DEF Mark, Clear, Steps, Later
    <3>2. /\ more \in Seq(Steps) /\ Len(more) = 2 /\ more # <<>>
          /\ more[1] = Mark(found, TRUE) /\ more[2].do \in Later
      BY <3>1, TwoSteps
    <3>3. Then(j, more)
      BY <2>1, <2>5
    <3> HIDE DEF more
    <3>4. \A n \in 2 .. Len(more) : more[n].do \in Later
      BY <3>2
    <3>5. Moved(j) /\ plans'[j] # <<>> /\ Head(plans'[j]) = Mark(found, TRUE)
      BY <2>1, <3>2, <3>3, <3>4, <1>3
    <3> QED BY <2>2, <3>5
  <2> QED BY <2>4, <2>5
<1>10. ASSUME BeginSync(j)
       PROVE  Moved(j) /\ plans'[j] # <<>> /\ Head(plans'[j]) = ReadTasks(Wanted)
  <2>1. At(j, "lock") /\ Then(j, << ReadTasks(Wanted) >>)
    BY <1>10 DEF BeginSync
  <2>2. Wanted \in SUBSET Wish
    BY <1>0 DEF Wanted, Wish, Reasons, LeadType
  <2>3. ReadTasks(Wanted) \in Steps
    BY <2>2 DEF ReadTasks, Steps
  <2> QED BY <2>1, <2>3, <1>5
<1>11. ASSUME SyncReadsTasks(j)
       PROVE  /\ Moved(j) /\ plans'[j] # <<>>
              /\ \E keep \in SUBSET OpenTasks :
                    /\ \A i, k \in keep : i = k
                    /\ Commits(j, keep, Head(plans'[j]))
  <2> DEFINE fits == {k \in OpenTasks : \E w \in Step(j).want : w.reason = tasks[k].reason}
             keep == IF fits = {} THEN {} ELSE {CHOOSE k \in fits : TRUE}
             want == {w \in Step(j).want : \A k \in keep : w.reason = "CALL_LATER" /\ tasks[k].due # w.due}
             s == Commit(want, keep, OpenTasks \ keep)
  <2>1. At(j, "tasks") /\ Then(j, << s >>)
    BY <1>11 DEF SyncReadsTasks
  <2>2. /\ keep \in SUBSET OpenTasks /\ \A i, k \in keep : i = k
        /\ want \in SUBSET Step(j).want
    BY DEF OpenTasks
  <2>3. OpenTasks \subseteq TaskIds
    BY DEF OpenTasks
  <2>4. Step(j).want \in SUBSET Wish
    BY <2>1, <1>1, StepCases
  <2>5. s \in Steps
    <3> HIDE DEF keep, want
    <3> QED BY <2>2, <2>3, <2>4 DEF Commit, Steps
  <2> HIDE DEF keep, want
  <2>6. Moved(j) /\ plans'[j] # <<>> /\ Head(plans'[j]) = s
    <3> HIDE DEF s
    <3> QED BY <2>1, <2>5, <1>5
  <2> QED BY <2>2, <2>6 DEF Commits
<1>12. ASSUME CommitSync(j)
       PROVE  Moved(j) /\ Mild(plans'[j])
  <2>1. At(j, "commit") /\ Then(j, Rest(j))
    BY <1>12 DEF CommitSync
  <2>2. CASE j = Cron
    <3>1. Lock \in Steps /\ Lock.do \in Later
      BY DEF Lock, Steps, Later
    <3>2. Then(j, << Lock >>)
      BY <2>1, <2>2 DEF Rest
    <3>3. Moved(j) /\ plans'[j] # <<>> /\ Head(plans'[j]) = Lock
      BY <2>1, <3>1, <3>2, <1>5
    <3> QED BY <3>1, <3>3 DEF Mild
  <2>3. CASE j # Cron
    <3>1. Then(j, <<>>)
      BY <2>1, <2>3 DEF Rest
    <3> QED BY <2>1, <3>1, <1>4
  <2> QED BY <2>2, <2>3
<1> QED BY <1>6, <1>7, <1>8, <1>9, <1>10, <1>11, <1>12

LEMMA RestIs == \A j \in Jobs : Rest(j) \in Seq(Steps) /\ GoodPlan(Rest(j)) /\ Mild(Rest(j))
<1>1. Lock \in Steps /\ Lock.do \in Later
  BY DEF Lock, Steps, Later
<1>2. << Lock >> \in Seq(Steps) /\ GoodPlan(<< Lock >>) /\ Mild(<< Lock >>)
  BY <1>1, OneStep DEF Mild
<1>3. <<>> \in Seq(Steps) /\ GoodPlan(<<>>) /\ Mild(<<>>)
  BY DEF GoodPlan, Mild
<1> QED BY <1>2, <1>3 DEF Rest

\* How a step that is not Later gets to the head of a plan.
Puts(j, s) ==
    \/ \E c \in Calls : /\ ReceiveCall(j, c) /\ s = Log(c)
    \/ \E c \in Calls : LinkCall(j, c) /\ s = ReadLead(c)
    \/ \E k \in TaskIds : UpdateTask(j, k) /\ \/ s = Mark({k}, TRUE)
                                              \/ s = Mark({k}, FALSE) /\ unticked'
                                              \/ \E d \in Dues : s = Due(k, d)
    \/ LogCall(j) /\ ~calls[Step(j).call].logged /\ s = ReadLead(Step(j).call)
    \/ ReadForCall(j) /\ \E columns \in ColumnSets : s = Apply(Step(j).call, columns)
    \/ FindTasks(j) /\ \E ids \in SUBSET OpenTasks : s = Mark(ids, TRUE)
    \/ BeginSync(j) /\ s = ReadTasks(Wanted)
    \/ SyncReadsTasks(j) /\ \E keep \in SUBSET OpenTasks :
                              /\ \A i, k \in keep : i = k
                              /\ Commits(j, keep, s)

LEMMA CommitIsPut ==
  ASSUME NEW j, NEW s, Puts(j, s), s.do = "commit"
  PROVE  /\ SyncReadsTasks(j)
         /\ \E keep \in SUBSET OpenTasks :
               /\ \A i, k \in keep : i = k
               /\ Commits(j, keep, s)
<1>1. /\ \A c : Log(c).do # "commit" /\ ReadLead(c).do # "commit"
      /\ \A ids, done : Mark(ids, done).do # "commit"
      /\ \A k, d : Due(k, d).do # "commit"
      /\ \A c, columns : Apply(c, columns).do # "commit"
      /\ \A want : ReadTasks(want).do # "commit"
  BY DEF Log, ReadLead, Mark, Due, Apply, ReadTasks
<1> QED BY <1>1 DEF Puts

LEMMA ReadIsPut ==
  ASSUME NEW j, NEW s, Puts(j, s), s.do = "tasks"
  PROVE  BeginSync(j) /\ s = ReadTasks(Wanted)
<1>1. /\ \A c : Log(c).do # "tasks" /\ ReadLead(c).do # "tasks"
      /\ \A ids, done : Mark(ids, done).do # "tasks"
      /\ \A k, d : Due(k, d).do # "tasks"
      /\ \A c, columns : Apply(c, columns).do # "tasks"
      /\ \A want, keep, stale : Commit(want, keep, stale).do # "tasks"
  BY DEF Log, ReadLead, Mark, Due, Apply, Commit
<1> QED BY <1>1 DEF Puts, Commits

LEMMA TaskIsPut ==
  ASSUME NEW j, NEW s, Puts(j, s), s.do \in {"mark", "due"}
  PROVE  \/ \E k \in TaskIds : UpdateTask(j, k) /\ \/ s = Mark({k}, TRUE)
                                                   \/ s = Mark({k}, FALSE) /\ unticked'
                                                   \/ \E d \in Dues : s = Due(k, d)
         \/ \E ids \in SUBSET OpenTasks : s = Mark(ids, TRUE)
<1>1. /\ \A c : Log(c).do \notin {"mark", "due"} /\ ReadLead(c).do \notin {"mark", "due"}
      /\ \A c, columns : Apply(c, columns).do \notin {"mark", "due"}
      /\ \A want : ReadTasks(want).do \notin {"mark", "due"}
      /\ \A want, keep, stale : Commit(want, keep, stale).do \notin {"mark", "due"}
  BY DEF Log, ReadLead, Apply, ReadTasks, Commit
<1> QED BY <1>1 DEF Puts, Commits

LEMMA CarryIsPut ==
  ASSUME NEW j, NEW s, Puts(j, s), s.do \in {"read", "apply"}
  PROVE  \/ \E c \in Calls : LinkCall(j, c) /\ s = ReadLead(c)
         \/ LogCall(j) /\ ~calls[Step(j).call].logged /\ s = ReadLead(Step(j).call)
         \/ ReadForCall(j) /\ \E columns \in ColumnSets : s = Apply(Step(j).call, columns)
<1>1. /\ \A c : Log(c).do \notin {"read", "apply"}
      /\ \A ids, done : Mark(ids, done).do \notin {"read", "apply"}
      /\ \A k, d : Due(k, d).do \notin {"read", "apply"}
      /\ \A want : ReadTasks(want).do \notin {"read", "apply"}
      /\ \A want, keep, stale : Commit(want, keep, stale).do \notin {"read", "apply"}
  BY DEF Log, Mark, Due, ReadTasks, Commit
<1> QED BY <1>1 DEF Puts, Commits

LEMMA HeadMoves ==
  ASSUME TypeInv, Next, NEW j \in Jobs
  PROVE  \/ plans'[j] = plans[j]
         \/ Mild(plans'[j])
         \/ plans'[j] # <<>> /\ Puts(j, Head(plans'[j]))
<1>1. ASSUME NEW k \in Jobs, Moved(k), k # j
      PROVE  plans'[j] = plans[j]
  BY <1>1 DEF Moved
<1>2. ASSUME NEW k \in Requests, Begin(k)
      PROVE  \/ plans'[j] = plans[j]
             \/ Mild(plans'[j])
             \/ plans'[j] # <<>> /\ Puts(j, Head(plans'[j]))
  <2>1. k \in Jobs /\ Moved(k)
    BY <1>2, BeginMoves DEF Begin, Jobs
  <2>2. CASE k = j
    BY <1>2, <2>2, BeginMoves DEF Begin, Puts
  <2> QED BY <2>1, <2>2, <1>1
<1>3. ASSUME NEW k \in Jobs, Work(k)
      PROVE  \/ plans'[j] = plans[j]
             \/ Mild(plans'[j])
             \/ plans'[j] # <<>> /\ Puts(j, Head(plans'[j]))
  <2>1. Moved(k)
    BY <1>3, WorkMoves DEF Work
  <2>2. CASE k = j
    BY <1>3, <2>2, WorkMoves DEF Work, Puts
  <2> QED BY <2>1, <2>2, <1>1
<1>4. CASE TimePasses
  BY <1>4 DEF TimePasses
<1>5. CASE Crash
  BY <1>5, RestIs DEF Crash
<1> QED BY <1>2, <1>3, <1>4, <1>5 DEF Next

\* The commit of a sync closes what is stale, and makes the task that is missing in a
\* row that was free.
CommitWrites(j, new, w) ==
    \A k \in TaskIds :
       \/ k \in Step(j).keep /\ w \in Step(j).want /\ tasks'[k] = [tasks[k] EXCEPT !.due = w.due]
       \/ k \in Step(j).ids \ Step(j).keep /\ tasks'[k] = [tasks[k] EXCEPT !.cancelled = TRUE]
       \/ k = new /\ Step(j).keep = {} /\ w \in Step(j).want /\ tasks'[k] = Made(w)
       \/ k \notin Step(j).ids \ Step(j).keep /\ tasks'[k] = tasks[k]

LEMMA CommitIs ==
  ASSUME TypeInv, NEW j \in Jobs, CommitSync(j)
  PROVE  \E new \in FreeRows :
            /\ new \notin Step(j).ids
            /\ CommitWrites(j, new, CHOOSE v \in Step(j).want : TRUE)
<1> DEFINE new == CHOOSE k \in FreeRows : TRUE
           w == CHOOSE v \in Step(j).want : TRUE
<1>1. At(j, "commit") /\ FreeRows # {} /\ tasks' = Synced(Step(j), new)
  BY DEF CommitSync
<1>2. new \in FreeRows
  BY <1>1
<1>3. plans[j] \in Seq(Steps) /\ plans[j] # <<>> /\ Step(j) = plans[j][1] /\ Step(j).do = "commit"
      /\ 1 \in DOMAIN plans[j]
  BY <1>1 DEF TypeInv, At, Step
<1>4. new \notin Step(j).ids
  <2>1. Step(j) \in Steps
    BY <1>3
  <2>2. "ids" \in DOMAIN plans[j][1]
    <3> DEFINE s == plans[j][1]
    <3>1. s \in Steps /\ s.do = "commit"
      BY <1>3, <2>1
    <3> HIDE DEF s
    <3>2. s \in [do : {"commit"}, want : SUBSET Wish, keep : SUBSET TaskIds, ids : SUBSET TaskIds]
      BY <3>1 DEF Steps
    <3>3. "ids" \in DOMAIN s
      BY <3>2
    <3> QED BY <3>3 DEF s
  <2>3. plans[j][1].ids \subseteq Named(j)
    BY <1>3, <2>2 DEF Named
  <2> QED BY <1>2, <1>3, <2>3 DEF FreeRows
<1>5. Step(j).want # {} => w \in Step(j).want
  OBVIOUS
<1>6. ASSUME NEW k \in TaskIds
      PROVE  \/ k \in Step(j).keep /\ w \in Step(j).want /\ tasks'[k] = [tasks[k] EXCEPT !.due = w.due]
             \/ k \in Step(j).ids \ Step(j).keep /\ tasks'[k] = [tasks[k] EXCEPT !.cancelled = TRUE]
             \/ k = new /\ Step(j).keep = {} /\ w \in Step(j).want /\ tasks'[k] = Made(w)
             \/ k \notin Step(j).ids \ Step(j).keep /\ tasks'[k] = tasks[k]
  <2>1. tasks'[k] = CASE k \in Step(j).keep /\ Step(j).want # {} -> [tasks[k] EXCEPT !.due = w.due]
                      [] k \in Step(j).ids \ Step(j).keep -> [tasks[k] EXCEPT !.cancelled = TRUE]
                      [] k = new /\ Step(j).keep = {} /\ Step(j).want # {} -> Made(w)
                      [] OTHER -> tasks[k]
    BY <1>1 DEF Synced
  <2> HIDE DEF w, new
  <2> QED BY <2>1, <1>4, <1>5
<1> QED BY <1>2, <1>4, <1>6 DEF CommitWrites

(***************************************************************************)
(* Type correctness.                                                       *)
(***************************************************************************)
LEMMA MildIs ==
  ASSUME NEW j, plans[j] # <<>> => Head(plans[j]).do \in Later
  PROVE  \A d \in {"log", "read", "apply", "mark", "due", "tasks", "commit"} : ~At(j, d)
BY DEF At, Step, Later

LEMMA InitTyped == Init => TypeInv
<1> SUFFICES ASSUME Init PROVE TypeInv
  OBVIOUS
<1>1. TypeOK
  BY DEF Init, TypeOK, Closed, Outcomes, NoTask
<1>2. plans = [j \in Jobs |-> Rest(j)]
  BY DEF Init
<1>3. \A j \in Jobs : ~At(j, "commit")
  BY <1>2, RestIs, MildIs DEF Mild
<1> QED BY <1>1, <1>2, <1>3, RestIs DEF TypeInv

\* Every job's plan stays one.
LEMMA PlansTyped ==
  ASSUME TypeInv, Next
  PROVE  plans' \in [Jobs -> Seq(Steps)] /\ \A j \in Jobs : GoodPlan(plans'[j])
<1>1. ASSUME NEW j \in Jobs, Moved(j)
      PROVE  plans' \in [Jobs -> Seq(Steps)] /\ \A k \in Jobs : GoodPlan(plans'[k])
  BY <1>1 DEF Moved, TypeInv
<1>2. ASSUME NEW j \in Requests, Begin(j)
      PROVE  Moved(j)
  BY <1>2, BeginMoves DEF Begin
<1>3. ASSUME NEW j \in Jobs, Work(j)
      PROVE  Moved(j)
  BY <1>3, WorkMoves DEF Work
<1>4. CASE TimePasses
  BY <1>4 DEF TimePasses, TypeInv
<1>5. CASE Crash
  <2>1. plans' = [j \in Jobs |-> Rest(j)]
    BY <1>5 DEF Crash
  <2> QED BY <2>1, RestIs
<1> QED BY <1>1, <1>2, <1>3, <1>4, <1>5 DEF Next, Jobs

LEMMA StepTyped == TypeInv /\ [Next]_vars => TypeInv'
<1> SUFFICES ASSUME TypeInv, [Next]_vars PROVE TypeInv'
  OBVIOUS
<1>1. CASE UNCHANGED vars
  <2>1. TypeOK'
    BY <1>1 DEF TypeInv, TypeOK, vars
  <2>2. plans' = plans
    BY <1>1 DEF vars
  <2> QED BY <2>1, <2>2 DEF TypeInv, At, Step
<1>2. CASE Next
  <2> USE DEF TypeInv
  <2>0. \A j \in Jobs, d \in {"log", "apply", "lead", "mark", "clear", "due", "tasks", "commit"} :
          At(j, d) => Step(j) \in Steps /\ Step(j).do = d
    BY DEF At, Step
  <2>1. ASSUME NEW j \in Requests, Begin(j)
        PROVE  TypeOK'
    <3>1. UNCHANGED <<lead, calls, tasks, lock>>
      BY <2>1 DEF Begin, ReceiveCall, LinkCall, AddTouch, LeadAction, ChangeStatus, UpdateTask
    <3> QED BY <3>1 DEF TypeOK
  <2>2. ASSUME NEW j \in Jobs, Work(j)
        PROVE  TypeOK'
    <3>1. CASE LogCall(j)
      <4>1. Step(j).call \in Calls
        BY <3>1, <2>0, StepCases DEF LogCall
      <4>2. UNCHANGED <<lead, tasks, lock>>
        BY <3>1 DEF LogCall
      <4>3. calls' \in [Calls -> [logged : BOOLEAN, outcome : Outcomes, on : BOOLEAN, applied : Nat]]
        <5>1. CASE calls' = calls
          BY <5>1 DEF TypeOK
        <5>2. CASE calls' # calls
          <6>1. PICK o \in Outcomes : calls' = [calls EXCEPT ![Step(j).call].logged = TRUE,
                                                           ![Step(j).call].outcome = o]
            BY <3>1, <5>2 DEF LogCall
          <6> QED BY <4>1, <6>1 DEF TypeOK
        <5> QED BY <5>1, <5>2
      <4> QED BY <4>2, <4>3 DEF TypeOK
    <3>2. CASE ReadForCall(j) \/ FindTasks(j) \/ SyncReadsTasks(j)
      BY <3>2 DEF ReadForCall, FindTasks, SyncReadsTasks, TypeOK
    <3>3. CASE ApplyToLead(j)
      <4>1. Step(j).call \in Calls /\ Step(j).columns \in ColumnSets
        BY <3>3, <2>0, StepCases DEF ApplyToLead
      <4>2. lead' \in LeadType
        BY <3>3, <4>1, LeadWritten DEF ApplyToLead, TypeOK, LeadType
      <4>3. UNCHANGED <<tasks, lock>>
        BY <3>3 DEF ApplyToLead
      <4>4. calls' \in [Calls -> [logged : BOOLEAN, outcome : Outcomes, on : BOOLEAN, applied : Nat]]
        <5> DEFINE c == Step(j).call
        <5>1. calls' = [calls EXCEPT ![c].on = TRUE, ![c].applied = @ + 1]
          BY <3>3 DEF ApplyToLead
        <5>2. c \in Calls
          BY <4>1
        <5> HIDE DEF c
        <5> QED BY <5>1, <5>2 DEF TypeOK
      <4> QED BY <4>2, <4>3, <4>4 DEF TypeOK, LeadType
    <3>4. CASE WriteLead(j)
      <4>1. Step(j).columns \in ColumnSets
        BY <3>4, <2>0, StepCases DEF WriteLead
      <4>2. lead' \in LeadType
        BY <3>4, <4>1, LeadWritten DEF WriteLead, TypeOK, LeadType
      <4> QED BY <3>4, <4>2 DEF WriteLead, TypeOK, LeadType
    <3>5. CASE MarkTasks(j)
      <4>1. Step(j).done \in BOOLEAN
        BY <3>5, <2>0, StepCases DEF MarkTasks
      <4> QED BY <3>5, <4>1 DEF MarkTasks, TypeOK
    <3>6. CASE ClearLater(j)
      BY <3>6 DEF ClearLater, TypeOK
    <3>7. CASE MoveTask(j)
      <4>1. Step(j).due \in Dues
        BY <3>7, <2>0, StepCases DEF MoveTask
      <4> QED BY <3>7, <4>1 DEF MoveTask, TypeOK
    <3>8. CASE BeginSync(j)
      BY <3>8 DEF BeginSync, TypeOK
    <3>9. CASE CommitSync(j)
      <4> DEFINE w == CHOOSE v \in Step(j).want : TRUE
      <4>1. Step(j).want \in SUBSET Wish
        BY <3>9, <2>0, StepCases DEF CommitSync
      <4>2. PICK new \in FreeRows : CommitWrites(j, new, w)
        BY <3>9, CommitIs
      <4>3. w \in Step(j).want => w.reason \in Reasons /\ w.due \in {0} \cup Dues
        BY <4>1 DEF Wish
      <4>4. tasks' \in [TaskIds -> [reason : Reasons \cup {"none"}, due : {0} \cup Dues,
                                    done : BOOLEAN, cancelled : BOOLEAN]]
        <5> DEFINE T == [reason : Reasons \cup {"none"}, due : {0} \cup Dues,
                         done : BOOLEAN, cancelled : BOOLEAN]
        <5>1. ASSUME NEW k \in TaskIds
              PROVE  tasks'[k] \in T
          <6>1. tasks[k] \in T
            BY DEF TypeOK
          <6> HIDE DEF w
          <6>2. CASE w \in Step(j).want /\ tasks'[k] = [tasks[k] EXCEPT !.due = w.due]
            BY <6>1, <6>2, <4>3
          <6>3. CASE tasks'[k] = [tasks[k] EXCEPT !.cancelled = TRUE]
            BY <6>1, <6>3
          <6>4. CASE w \in Step(j).want /\ tasks'[k] = Made(w)
            BY <6>4, <4>3 DEF Made
          <6>5. CASE tasks'[k] = tasks[k]
            BY <6>1, <6>5
          <6> QED BY <4>2, <6>2, <6>3, <6>4, <6>5 DEF CommitWrites
        <5> QED BY <3>9, <5>1 DEF CommitSync, Synced
      <4>5. UNCHANGED <<lead, calls>> /\ lock' = Nobody
        BY <3>9 DEF CommitSync
      <4> QED BY <4>4, <4>5 DEF TypeOK
    <3> QED BY <2>2, <3>1, <3>2, <3>3, <3>4, <3>5, <3>6, <3>7, <3>8, <3>9 DEF Work
  <2>3. ASSUME TimePasses
        PROVE  TypeOK'
    <3>1. UNCHANGED <<calls, tasks, lock>>
      BY <2>3 DEF TimePasses
    <3>2. lead' = [lead EXCEPT !.quiet = TRUE] \/ lead' = [lead EXCEPT !.snoozed = FALSE]
      BY <2>3 DEF TimePasses
    <3>3. lead' \in LeadType
      BY <3>2 DEF TypeOK, LeadType
    <3> QED BY <3>1, <3>3 DEF TypeOK, LeadType
  <2>4. ASSUME Crash
        PROVE  TypeOK'
    <3>1. UNCHANGED <<lead, calls, tasks>> /\ lock' = Nobody
      BY <2>4 DEF Crash
    <3>2. lock' \in Jobs \cup {Nobody}
      BY <3>1
    <3> QED BY <3>1, <3>2 DEF TypeOK
  <2>5. TypeOK'
    BY <1>2, <2>1, <2>2, <2>3, <2>4 DEF Next
  <2> QED BY <1>2, <2>5, PlansTyped
<1> QED BY <1>1, <1>2

LEMMA TypeInvariant == Spec => []TypeInv
<1>1. Init => TypeInv
  BY InitTyped
<1>2. TypeInv /\ [Next]_vars => TypeInv'
  BY StepTyped
<1> QED BY <1>1, <1>2, PTL DEF Spec

\* The lead, its calls and its tasks are well typed, and who holds the owner's lock is a
\* job: whatever columns the requests write, in whatever order.
THEOREM TypeCorrect == Spec => []TypeOK
<1>1. TypeInv => TypeOK
  BY DEF TypeInv
<1> QED BY <1>1, TypeInvariant, PTL

(***************************************************************************)
(* A call counts once.                                                     *)
(***************************************************************************)
\* Who is about to put a call on the lead was so before, or a manager has matched it, or
\* its row has just been made.
LEMMA CarriesFrom ==
  ASSUME TypeInv, Next, NEW j \in Jobs, NEW c \in Calls, Carries(j, c)'
  PROVE  \/ Carries(j, c) /\ (plans'[j] = plans[j] \/ ReadForCall(j))
         \/ LinkCall(j, c)
         \/ LogCall(j) /\ Step(j).call = c /\ ~calls[c].logged
<1> DEFINE s == Head(plans'[j])
<1>1. plans'[j] # <<>> /\ s.do \in {"read", "apply"} /\ s.call = c
  BY DEF Carries
<1>2. CASE plans'[j] = plans[j]
  BY <1>2, <1>1 DEF Carries
<1>3. CASE plans'[j] # plans[j]
  <2>1. Puts(j, s)
    BY <1>1, <1>3, HeadMoves DEF Mild, Later
  <2>0. s.do \in {"read", "apply"} /\ s.call = c
    BY <1>1
  <2> HIDE DEF s
  <2>2. \A d, columns : ReadLead(d).call = d /\ Apply(d, columns).call = d
    BY DEF ReadLead, Apply
  <2>3. \/ LinkCall(j, c)
        \/ LogCall(j) /\ ~calls[Step(j).call].logged /\ Step(j).call = c
        \/ ReadForCall(j) /\ Step(j).call = c
    <3>1. \/ \E d \in Calls : LinkCall(j, d) /\ s = ReadLead(d)
          \/ LogCall(j) /\ ~calls[Step(j).call].logged /\ s = ReadLead(Step(j).call)
          \/ ReadForCall(j) /\ \E columns \in ColumnSets : s = Apply(Step(j).call, columns)
      BY <2>1, <2>0, CarryIsPut
    <3> QED BY <3>1, <2>0, <2>2
  <2>4. ReadForCall(j) => plans[j] # <<>> /\ Head(plans[j]).do = "read" /\ Step(j) = Head(plans[j])
    BY DEF ReadForCall, At, Step
  <2> QED BY <2>3, <2>4 DEF Carries
<1> QED BY <1>2, <1>3

LEMMA InitCalls == Init => CallInv
<1> SUFFICES ASSUME Init PROVE CallInv
  OBVIOUS
<1>1. \A j \in Jobs : plans[j] = Rest(j)
  BY DEF Init
<1>2. \A j \in Jobs, c \in Calls : ~Carries(j, c)
  BY <1>1, RestIs DEF Carries, Mild, Later
<1>3. \A c \in Calls : calls[c] = [logged |-> FALSE, outcome |-> "NO_ANSWER", on |-> FALSE, applied |-> 0]
  BY DEF Init
<1>4. linked = {}
  BY DEF Init
<1> QED BY <1>2, <1>3, <1>4 DEF CallInv

\* What holds of one call.
CallIs(c) ==
    /\ calls[c].on <=> calls[c].applied > 0
    /\ ~calls[c].logged => /\ calls[c].applied = 0 /\ c \notin linked
                           /\ \A j \in Jobs : ~Carries(j, c)
    /\ c \notin linked =>
          /\ calls[c].applied <= 1
          /\ \A j \in Jobs : Carries(j, c) => /\ calls[c].applied = 0
                                              /\ \A k \in Jobs : Carries(k, c) => k = j

LEMMA StepCalls == TypeInv /\ CallInv /\ [Next]_vars => CallInv'
<1> SUFFICES ASSUME TypeInv, CallInv, [Next]_vars, NEW c \in Calls PROVE CallIs(c)'
  BY DEF CallInv, CallIs
<1>0. CallIs(c)
  BY DEF CallInv, CallIs
<1>1. ASSUME calls'[c] = calls[c], c \in linked' <=> c \in linked,
             \A j \in Jobs : Carries(j, c)' => Carries(j, c)
      PROVE  CallIs(c)'
  BY <1>0, <1>1 DEF CallIs
<1>2. CASE UNCHANGED vars
  BY <1>2, <1>1 DEF vars, Carries
<1>3. CASE Next
  <2>0. calls \in [Calls -> [logged : BOOLEAN, outcome : Outcomes, on : BOOLEAN, applied : Nat]]
    BY DEF TypeInv, TypeOK
  <2>1. ASSUME NEW j \in Requests, Begin(j)
        PROVE  CallIs(c)'
    <3>1. calls' = calls
      BY <2>1 DEF Begin, ReceiveCall, LinkCall, AddTouch, LeadAction, ChangeStatus, UpdateTask
    <3>2. CASE LinkCall(j, c)
      BY <3>1, <3>2, <1>0 DEF LinkCall, CallIs
    <3>3. CASE ~LinkCall(j, c)
      <4>1. c \in linked' <=> c \in linked
        BY <2>1, <3>3 DEF Begin, ReceiveCall, LinkCall, AddTouch, LeadAction, ChangeStatus, UpdateTask
      <4>2. \A k \in Jobs \ {j} : plans'[k] = plans[k]
        BY <2>1, BeginMoves DEF Begin, Moved
      <4>3. ~LogCall(j)
        BY <2>1 DEF Begin, ReceiveCall, LinkCall, AddTouch, LeadAction, ChangeStatus, UpdateTask,
                    Starts, LogCall, At
      <4>4. \A k \in Jobs : Carries(k, c)' => Carries(k, c)
        BY <3>3, <4>2, <4>3, <1>3, CarriesFrom DEF Carries
      <4> QED BY <3>1, <4>1, <4>4, <1>1
    <3> QED BY <3>2, <3>3
  <2>2. ASSUME NEW j \in Jobs, Work(j)
        PROVE  CallIs(c)'
    <3>1. linked' = linked
      BY <2>2 DEF Work, LogCall, ReadForCall, ApplyToLead, WriteLead, FindTasks, MarkTasks, ClearLater,
                  MoveTask, BeginSync, SyncReadsTasks, CommitSync
    <3>2. \A k \in Jobs \ {j} : plans'[k] = plans[k]
      BY <2>2, WorkMoves DEF Work, Moved
    <3>3. plans[j] # <<>>
      BY <2>2 DEF Work, LogCall, ReadForCall, ApplyToLead, WriteLead, FindTasks, MarkTasks, ClearLater,
                  MoveTask, BeginSync, SyncReadsTasks, CommitSync, At
    <3>4. ~LinkCall(j, c)
      BY <3>3 DEF LinkCall, Starts
    <3>5. ASSUME NEW k \in Jobs, Carries(k, c)'
          PROVE  Carries(k, c) \/ (k = j /\ LogCall(j) /\ Step(j).call = c /\ ~calls[c].logged)
      <4>1. CASE k = j
        BY <4>1, <3>4, <3>5, <1>3, CarriesFrom
      <4>2. CASE k # j
        BY <4>2, <3>2, <3>5 DEF Carries
      <4> QED BY <4>1, <4>2
    <3>6. CASE LogCall(j) /\ Step(j).call = c /\ ~calls[c].logged
      <4>1. PICK o \in Outcomes : calls' = [calls EXCEPT ![c].logged = TRUE, ![c].outcome = o]
        BY <3>6 DEF LogCall
      <4>2. calls'[c].logged /\ calls'[c].on = calls[c].on /\ calls'[c].applied = calls[c].applied
        BY <4>1, <2>0
      <4>3. calls[c].applied = 0 /\ \A k \in Jobs : ~Carries(k, c)
        BY <3>6, <1>0 DEF CallIs
      <4>4. \A k \in Jobs : Carries(k, c)' => k = j
        BY <4>3, <3>5
      <4> QED BY <1>0, <3>1, <4>2, <4>3, <4>4 DEF CallIs
    <3>7. CASE ApplyToLead(j) /\ Step(j).call = c
      <4>1. Carries(j, c)
        BY <3>7 DEF ApplyToLead, Carries, At, Step
      <4>2. calls'[c].logged = calls[c].logged /\ calls'[c].on = TRUE /\ calls'[c].applied = calls[c].applied + 1
        BY <3>7, <2>0 DEF ApplyToLead
      <4>3. ~Carries(j, c)'
        BY <3>7, WorkMoves DEF Carries, Mild, Later
      <4>4. ~LogCall(j)
        BY <3>7 DEF ApplyToLead, LogCall, At
      <4>5. \A k \in Jobs : Carries(k, c)' => Carries(k, c) /\ k # j
        BY <3>5, <4>3, <4>4
      <4>6. calls[c].logged /\ calls[c].applied \in Nat
        BY <1>0, <4>1, <2>0 DEF CallIs
      <4> QED BY <1>0, <3>1, <4>1, <4>2, <4>5, <4>6 DEF CallIs
    <3>8. CASE ~(LogCall(j) /\ Step(j).call = c /\ ~calls[c].logged) /\ ~(ApplyToLead(j) /\ Step(j).call = c)
      <4>1. calls'[c] = calls[c]
        BY <3>8, <2>0, <2>2 DEF Work, LogCall, ReadForCall, ApplyToLead, WriteLead, FindTasks, MarkTasks,
                         ClearLater, MoveTask, BeginSync, SyncReadsTasks, CommitSync
      <4> QED BY <4>1, <3>1, <3>5, <3>8, <1>1
    <3> QED BY <3>6, <3>7, <3>8
  <2>3. CASE TimePasses
    BY <2>3, <1>1 DEF TimePasses, Carries
  <2>4. CASE Crash
    <3>1. \A j \in Jobs : ~Carries(j, c)'
      BY <2>4, RestIs DEF Crash, Carries, Mild, Later
    <3>2. calls' = calls /\ linked' = linked
      BY <2>4 DEF Crash
    <3> QED BY <3>1, <3>2, <1>1
  <2> QED BY <1>3, <2>1, <2>2, <2>3, <2>4 DEF Next
<1> QED BY <1>2, <1>3

LEMMA CallInvariant == Spec => []CallInv
<1>1. Init => CallInv
  BY InitCalls
<1>2. TypeInv /\ CallInv /\ [Next]_vars => CallInv'
  BY StepCalls
<1> QED BY <1>1, <1>2, TypeInvariant, PTL DEF Spec

\* "The same call sent twice is logged once": however often the dialer sends a call, and
\* wherever a restart cuts a delivery off, the lead is updated for it once.
THEOREM CallAlwaysCountsOnce == Spec => []CallCountsOnce
<1>1. TypeInv /\ CallInv => CallCountsOnce
  BY DEF TypeInv, TypeOK, CallInv, CallCountsOnce
<1> QED BY <1>1, TypeInvariant, CallInvariant, PTL

(***************************************************************************)
(* One open task.                                                          *)
(***************************************************************************)
\* A job leaves the sync by its commit or by a restart only.
LEMMA SyncGoesOn ==
  ASSUME TypeInv, Next, NEW j \in Jobs, InSync(j)
  PROVE  \/ plans'[j] = plans[j]
         \/ SyncReadsTasks(j) /\ At(j, "tasks")
         \/ CommitSync(j) /\ At(j, "commit")
         \/ Crash
<1>1. plans[j] # <<>> /\ Step(j).do \in {"tasks", "commit"} /\ Step(j) = Head(plans[j])
  BY DEF InSync, At, Step
<1>2. ASSUME NEW k \in Requests, Begin(k)
      PROVE  plans'[j] = plans[j]
  <2>1. plans[k] = <<>>
    BY <1>2 DEF Begin, ReceiveCall, LinkCall, AddTouch, LeadAction, ChangeStatus, UpdateTask, Starts
  <2> QED BY <1>1, <1>2, <2>1, BeginMoves DEF Begin, Moved
<1>3. ASSUME NEW k \in Jobs, Work(k)
      PROVE  plans'[j] = plans[j] \/ SyncReadsTasks(j) \/ CommitSync(j)
  <2>1. CASE k # j
    BY <1>3, <2>1, WorkMoves DEF Work, Moved
  <2>2. CASE k = j
    BY <1>1, <1>3, <2>2 DEF Work, LogCall, ReadForCall, ApplyToLead, WriteLead, FindTasks, MarkTasks,
                            ClearLater, MoveTask, BeginSync, At
  <2> QED BY <2>1, <2>2
<1>4. TimePasses => plans'[j] = plans[j]
  BY DEF TimePasses
<1> QED BY <1>2, <1>3, <1>4 DEF Next, SyncReadsTasks, CommitSync

\* How a job comes to a step of the sync, or to a task.
LEMMA SyncFrom ==
  ASSUME TypeInv, Next, NEW j \in Jobs, plans'[j] # plans[j]
  PROVE  /\ At(j, "tasks")' => BeginSync(j) /\ Head(plans'[j]) = ReadTasks(Wanted)
         /\ At(j, "commit")' =>
              /\ SyncReadsTasks(j)
              /\ \E keep \in SUBSET OpenTasks :
                    /\ \A i, k \in keep : i = k
                    /\ Commits(j, keep, Head(plans'[j]))
         /\ (At(j, "mark") \/ At(j, "due"))' =>
              \/ \E k \in TaskIds : /\ UpdateTask(j, k)
                                    /\ \/ Head(plans'[j]) = Mark({k}, TRUE)
                                       \/ Head(plans'[j]) = Mark({k}, FALSE) /\ unticked'
                                       \/ \E d \in Dues : Head(plans'[j]) = Due(k, d)
              \/ \E ids \in SUBSET OpenTasks : Head(plans'[j]) = Mark(ids, TRUE)
<1> DEFINE s == Head(plans'[j])
<1>1. \A d : At(j, d)' => plans'[j] # <<>> /\ s.do = d
  BY DEF At, Step
<1>2. \A d \in {"tasks", "commit", "mark", "due"} : At(j, d)' => Puts(j, s)
  BY <1>1, HeadMoves DEF Mild, Later
<1> HIDE DEF s
<1>3. ASSUME At(j, "tasks")'
      PROVE  BeginSync(j) /\ Head(plans'[j]) = ReadTasks(Wanted)
  <2>1. Puts(j, s) /\ s.do = "tasks"
    BY <1>1, <1>2, <1>3
  <2>2. BeginSync(j) /\ s = ReadTasks(Wanted)
    BY <2>1, ReadIsPut
  <2> QED BY <2>2 DEF s
<1>4. ASSUME At(j, "commit")'
      PROVE  /\ SyncReadsTasks(j)
             /\ \E keep \in SUBSET OpenTasks :
                   /\ \A i, k \in keep : i = k
                   /\ Commits(j, keep, Head(plans'[j]))
  <2>1. Puts(j, s) /\ s.do = "commit"
    BY <1>1, <1>2, <1>4
  <2>2. SyncReadsTasks(j)
    BY <2>1, CommitIsPut
  <2>3. \E keep \in SUBSET OpenTasks : /\ \A i, k \in keep : i = k
                                      /\ Commits(j, keep, s)
    <3>1. PICK keep \in SUBSET OpenTasks : /\ \A i, k \in keep : i = k
                                          /\ Commits(j, keep, s)
      BY <2>1, CommitIsPut
    <3> QED BY <3>1
  <2> QED BY <2>2, <2>3 DEF s
<1>5. ASSUME (At(j, "mark") \/ At(j, "due"))'
      PROVE  \/ \E k \in TaskIds : /\ UpdateTask(j, k)
                                    /\ \/ Head(plans'[j]) = Mark({k}, TRUE)
                                       \/ Head(plans'[j]) = Mark({k}, FALSE) /\ unticked'
                                       \/ \E d \in Dues : Head(plans'[j]) = Due(k, d)
             \/ \E ids \in SUBSET OpenTasks : Head(plans'[j]) = Mark(ids, TRUE)
  <2>1. Puts(j, s) /\ s.do \in {"mark", "due"}
    BY <1>1, <1>2, <1>5
  <2>2. \/ \E k \in TaskIds : UpdateTask(j, k) /\ \/ s = Mark({k}, TRUE)
                                                  \/ s = Mark({k}, FALSE) /\ unticked'
                                                  \/ \E d \in Dues : s = Due(k, d)
        \/ \E ids \in SUBSET OpenTasks : s = Mark(ids, TRUE)
    BY <2>1, TaskIsPut
  <2> QED BY <2>2 DEF s
<1> QED BY <1>3, <1>4, <1>5

LEMMA StepLock == TypeInv /\ LockInv /\ [Next]_vars => LockInv'
<1> SUFFICES ASSUME TypeInv, LockInv, [Next]_vars, NEW j \in Jobs PROVE InSync(j)' <=> lock' = j
  BY DEF LockInv
<1>0. InSync(j) <=> lock = j
  BY DEF LockInv
<1>1. plans'[j] = plans[j] => (InSync(j)' <=> InSync(j))
  BY DEF InSync, At, Step
<1>2. CASE UNCHANGED vars
  BY <1>0, <1>1, <1>2 DEF vars
<1>3. CASE Next
  <2>1. CASE Crash
    <3>1. ~InSync(j)' /\ lock' = Nobody
      BY <2>1, RestIs DEF Crash, InSync, At, Step, Mild, Later
    <3> QED BY <3>1, DialerAssumption DEF Jobs
  <2>2. ASSUME NEW k \in Jobs, BeginSync(k)
        PROVE  InSync(j)' <=> lock' = j
    <3>1. lock = Nobody /\ lock' = k
      BY <2>2 DEF BeginSync
    <3>2. CASE j = k
      <4>1. plans'[j] # <<>> /\ Head(plans'[j]) = ReadTasks(Wanted)
        BY <2>2, <3>2, WorkMoves
      <4> QED BY <4>1, <3>1, <3>2 DEF InSync, At, Step, ReadTasks
    <3>3. CASE j # k
      <4>1. plans'[j] = plans[j]
        BY <2>2, <3>3, WorkMoves DEF Moved
      <4> QED BY <4>1, <3>1, <3>3, <1>0, <1>1, DialerAssumption DEF Jobs
    <3> QED BY <3>2, <3>3
  <2>3. ASSUME NEW k \in Jobs, CommitSync(k)
        PROVE  InSync(j)' <=> lock' = j
    <3>1. lock' = Nobody /\ InSync(k)
      BY <2>3 DEF CommitSync, InSync
    <3>2. lock = k
      BY <3>1 DEF LockInv
    <3>3. CASE j = k
      BY <2>3, <3>1, <3>3, WorkMoves, DialerAssumption DEF Mild, Later, InSync, At, Step, Jobs
    <3>4. CASE j # k
      <4>1. plans'[j] = plans[j]
        BY <2>3, <3>4, WorkMoves DEF Moved
      <4> QED BY <4>1, <3>1, <3>2, <3>4, <1>0, <1>1, DialerAssumption DEF Jobs
    <3> QED BY <3>3, <3>4
  <2>4. ASSUME ~Crash, \A k \in Jobs : ~BeginSync(k) /\ ~CommitSync(k)
        PROVE  InSync(j)' <=> lock' = j
    <3>1. lock' = lock
      <4>1. ASSUME NEW k \in Requests, Begin(k)
            PROVE  lock' = lock
        BY <4>1 DEF Begin, ReceiveCall, LinkCall, AddTouch, LeadAction, ChangeStatus, UpdateTask
      <4>2. ASSUME NEW k \in Jobs, Work(k)
            PROVE  lock' = lock
        BY <4>2, <2>4 DEF Work, LogCall, ReadForCall, ApplyToLead, WriteLead, FindTasks, MarkTasks,
                          ClearLater, MoveTask, SyncReadsTasks
      <4> QED BY <1>3, <2>4, <4>1, <4>2 DEF Next, TimePasses
    <3>2. InSync(j)' => InSync(j)
      <4>1. CASE SyncReadsTasks(j)
        BY <4>1 DEF SyncReadsTasks, InSync
      <4> QED BY <4>1, <1>1, <1>3, <2>4, SyncFrom DEF InSync
    <3>3. InSync(j) => InSync(j)'
      <4>1. CASE SyncReadsTasks(j)
        <5>1. plans'[j] # <<>> /\ \E keep : Commits(j, keep, Head(plans'[j]))
          BY <4>1, WorkMoves
        <5>2. Head(plans'[j]).do = "commit"
          BY <5>1 DEF Commits, Commit
        <5> QED BY <5>1, <5>2 DEF InSync, At, Step
      <4> QED BY <4>1, <1>1, <1>3, <2>4, SyncGoesOn
    <3> QED BY <3>1, <3>2, <3>3, <1>0
  <2> QED BY <2>1, <2>2, <2>3, <2>4
<1> QED BY <1>2, <1>3


LEMMA WantsOne == \A v, w \in Wanted : v = w
BY DEF Wanted

LEMMA StepSync == TypeInv /\ SyncInv /\ [Next]_vars => SyncInv'
<1> SUFFICES ASSUME TypeInv, SyncInv, [Next]_vars, NEW j \in Jobs
             PROVE  /\ InSync(j)' => \A v, w \in Step(j)'.want : v = w
                    /\ At(j, "commit")' => \A i, k \in Step(j)'.keep : i = k
  BY DEF SyncInv
<1>1. CASE plans'[j] = plans[j]
  BY <1>1 DEF SyncInv, InSync, At, Step
<1>2. CASE plans'[j] # plans[j]
  <2>0. Next /\ Step(j)' = Head(plans'[j])
    BY <1>2 DEF vars, Step
  <2>1. ASSUME At(j, "tasks")'
        PROVE  \A v, w \in Step(j)'.want : v = w
    <3>1. Head(plans'[j]) = ReadTasks(Wanted)
      BY <1>2, <2>0, <2>1, SyncFrom
    <3>2. Head(plans'[j]).want = Wanted
      BY <3>1 DEF ReadTasks
    <3> QED BY <2>0, <3>2, WantsOne
  <2>2. ASSUME At(j, "commit")'
        PROVE  /\ \A v, w \in Step(j)'.want : v = w
               /\ \A i, k \in Step(j)'.keep : i = k
    <3>1. SyncReadsTasks(j)
      BY <1>2, <2>0, <2>2, SyncFrom
    <3>2. PICK keep \in SUBSET OpenTasks :
             /\ \A i, k \in keep : i = k
             /\ Commits(j, keep, Head(plans'[j]))
      BY <1>2, <2>0, <2>2, SyncFrom
    <3>3. Head(plans'[j]).want \subseteq Step(j).want /\ Head(plans'[j]).keep = keep
      BY <3>2 DEF Commits, Commit
    <3>4. \A v, w \in Step(j).want : v = w
      BY <3>1 DEF SyncReadsTasks, SyncInv, InSync
    <3> QED BY <2>0, <3>2, <3>3, <3>4
  <2> QED BY <2>1, <2>2 DEF InSync
<1> QED BY <1>1, <1>2

\* A row that was once a task stays one, and a task once opened again stays so.
LEMMA RowsStay ==
  ASSUME TypeInv, RealInv, Next
  PROVE  /\ unticked => unticked'
         /\ \A k \in TaskIds : Real(k) => Real(k)'
         /\ \A k \in TaskIds : tasks'[k] # NoTask => Real(k)'
<1>1. ASSUME tasks' = tasks
      PROVE  \A k \in TaskIds : (Real(k) => Real(k)') /\ (tasks'[k] # NoTask => Real(k)')
  BY <1>1 DEF RealInv, Real
<1>2. ASSUME NEW j \in Requests, Begin(j)
      PROVE  tasks' = tasks /\ (unticked => unticked')
  <2>1. tasks' = tasks /\ (unticked' = unticked \/ unticked' = TRUE)
    BY <1>2 DEF Begin, ReceiveCall, LinkCall, AddTouch, LeadAction, ChangeStatus, UpdateTask
  <2>2. CASE unticked' = unticked
    BY <2>1, <2>2
  <2>3. CASE unticked' = TRUE
    BY <2>1, <2>3
  <2> QED BY <2>1, <2>2, <2>3
<1>3. ASSUME NEW j \in Jobs, Work(j)
      PROVE  /\ unticked' = unticked
             /\ \A k \in TaskIds : (Real(k) => Real(k)') /\ (tasks'[k] # NoTask => Real(k)')
  <2>0. unticked' = unticked
    BY <1>3 DEF Work, LogCall, ReadForCall, ApplyToLead, WriteLead, FindTasks, MarkTasks, ClearLater,
                MoveTask, BeginSync, SyncReadsTasks, CommitSync
  <2>T. \A k \in TaskIds : tasks[k] \in [reason : Reasons \cup {"none"}, due : {0} \cup Dues,
                                          done : BOOLEAN, cancelled : BOOLEAN]
    BY DEF TypeInv, TypeOK
  <2>1. CASE MarkTasks(j)
    <3>1. At(j, "mark") /\ \A k \in TaskIds : tasks'[k] = IF k \in Step(j).ids
                                 THEN [tasks[k] EXCEPT !.done = Step(j).done] ELSE tasks[k]
      BY <2>1 DEF MarkTasks
    <3>2. \A k \in Step(j).ids : Real(k)
      BY <3>1 DEF RealInv
    <3>3. \A k \in TaskIds : tasks'[k].reason = tasks[k].reason
      BY <3>1, <2>T
    <3> QED BY <2>0, <3>1, <3>2, <3>3 DEF Real, RealInv
  <2>2. CASE MoveTask(j)
    <3>1. At(j, "due") /\ \A k \in TaskIds : tasks'[k] = IF k \in Step(j).ids
                                 THEN [tasks[k] EXCEPT !.due = Step(j).due] ELSE tasks[k]
      BY <2>2 DEF MoveTask
    <3>2. \A k \in Step(j).ids : Real(k)
      BY <3>1 DEF RealInv
    <3>3. \A k \in TaskIds : tasks'[k].reason = tasks[k].reason
      BY <3>1, <2>T
    <3> QED BY <2>0, <3>1, <3>2, <3>3 DEF Real, RealInv
  <2>3. CASE CommitSync(j)
    <3> DEFINE w == CHOOSE v \in Step(j).want : TRUE
    <3>1. PICK new \in FreeRows : CommitWrites(j, new, w)
      BY <2>3, CommitIs
    <3> HIDE DEF w
    <3>2. Step(j).want \in SUBSET Wish
      BY <2>3, StepCases DEF CommitSync, TypeInv, At, Step
    <3>3. ASSUME NEW k \in TaskIds
          PROVE  (Real(k) => Real(k)') /\ (tasks'[k] # NoTask => Real(k)')
      <4>1. CASE k \in Step(j).keep \/ k \in Step(j).ids
        <5>1. Real(k)
          BY <2>3, <4>1 DEF CommitSync, RealInv
        <5>2. tasks'[k].reason = tasks[k].reason \/ (w \in Step(j).want /\ tasks'[k].reason = w.reason)
          <6>1. tasks[k] \in [reason : Reasons \cup {"none"}, due : {0} \cup Dues,
                             done : BOOLEAN, cancelled : BOOLEAN]
            BY <2>T
          <6>2. \/ w \in Step(j).want /\ tasks'[k] = [tasks[k] EXCEPT !.due = w.due]
                \/ tasks'[k] = [tasks[k] EXCEPT !.cancelled = TRUE]
                \/ w \in Step(j).want /\ tasks'[k] = Made(w)
                \/ tasks'[k] = tasks[k]
            BY <3>1 DEF CommitWrites
          <6> QED BY <6>1, <6>2 DEF Made
        <5> QED BY <3>2, <5>1, <5>2 DEF Real, Wish
      <4>2. CASE tasks'[k] = Made(w) /\ w \in Step(j).want
        BY <3>2, <4>2 DEF Made, Real, Wish
      <4>3. CASE tasks'[k] = tasks[k]
        BY <4>3 DEF Real, RealInv
      <4> QED BY <3>1, <4>1, <4>2, <4>3 DEF CommitWrites
    <3> QED BY <2>0, <3>3
  <2>4. CASE ~MarkTasks(j) /\ ~MoveTask(j) /\ ~CommitSync(j)
    <3>1. tasks' = tasks
      BY <1>3, <2>4 DEF Work, LogCall, ReadForCall, ApplyToLead, WriteLead, FindTasks, ClearLater,
                        BeginSync, SyncReadsTasks
    <3> QED BY <2>0, <3>1, <1>1
  <2> QED BY <2>1, <2>2, <2>3, <2>4
<1>4. CASE TimePasses \/ Crash
  BY <1>1, <1>4 DEF TimePasses, Crash
<1> QED BY <1>1, <1>2, <1>3, <1>4 DEF Next


LEMMA StepReal == TypeInv /\ RealInv /\ [Next]_vars => RealInv'
<1> SUFFICES ASSUME TypeInv, RealInv, [Next]_vars PROVE RealInv'
  OBVIOUS
<1>1. CASE UNCHANGED vars
  BY <1>1 DEF vars, RealInv, Real, At, Step
<1>2. CASE Next
  <2>1. /\ unticked => unticked'
        /\ \A k \in TaskIds : Real(k) => Real(k)'
        /\ \A k \in TaskIds : tasks'[k] # NoTask => Real(k)'
    BY <1>2, RowsStay
  <2>2. \A k \in OpenTasks : k \in TaskIds /\ Real(k)
    BY DEF OpenTasks, IsOpen, RealInv
  <2>3. ASSUME NEW j \in Jobs, (At(j, "mark") \/ At(j, "due"))'
        PROVE  /\ \A k \in Step(j)'.ids : Real(k)'
               /\ At(j, "mark")' /\ Step(j)'.done = FALSE => unticked'
    <3>1. CASE plans'[j] = plans[j]
      <4>1. Step(j)' = Step(j) /\ (At(j, "mark")' <=> At(j, "mark")) /\ (At(j, "due")' <=> At(j, "due"))
        BY <3>1 DEF At, Step
      <4>2. Step(j).ids \subseteq TaskIds
        BY <2>3, <4>1, StepCases DEF At, Step, TypeInv
      <4> QED BY <2>1, <2>3, <4>1, <4>2 DEF RealInv
    <3>2. CASE plans'[j] # plans[j]
      <4> DEFINE s == Head(plans'[j])
      <4>0. Step(j)' = s
        BY DEF Step
      <4>1. \/ \E k \in TaskIds : UpdateTask(j, k) /\ \/ s = Mark({k}, TRUE)
                                                      \/ s = Mark({k}, FALSE) /\ unticked'
                                                      \/ \E d \in Dues : s = Due(k, d)
            \/ \E ids \in SUBSET OpenTasks : s = Mark(ids, TRUE)
        BY <1>2, <2>3, <3>2, SyncFrom
      <4>A. At(j, "mark")' => s.do = "mark"
        BY <4>0 DEF At
      <4> HIDE DEF s
      <4>2. ASSUME NEW k \in TaskIds, UpdateTask(j, k),
                   \/ s = Mark({k}, TRUE)
                   \/ s = Mark({k}, FALSE) /\ unticked'
                   \/ \E d \in Dues : s = Due(k, d)
            PROVE  (\A i \in s.ids : Real(i)') /\ (s.do = "mark" /\ s.done = FALSE => unticked')
        <5>1. Real(k)'
          BY <2>1, <4>2 DEF UpdateTask, RealInv
        <5>2. CASE s = Mark({k}, TRUE)
          BY <5>1, <5>2 DEF Mark
        <5>3. CASE s = Mark({k}, FALSE) /\ unticked'
          <6>1. s.ids = {k}
            BY <5>3 DEF Mark
          <6> QED BY <5>1, <5>3, <6>1
        <5>4. CASE \E d \in Dues : s = Due(k, d)
          BY <5>1, <5>4 DEF Due
        <5> QED BY <4>2, <5>2, <5>3, <5>4
      <4>3. ASSUME NEW ids \in SUBSET OpenTasks, s = Mark(ids, TRUE)
            PROVE  (\A i \in s.ids : Real(i)') /\ (s.do = "mark" /\ s.done = FALSE => unticked')
        <5>1. s.ids = ids /\ s.done = TRUE
          BY <4>3 DEF Mark
        <5> QED BY <2>1, <2>2, <5>1
      <4> QED BY <4>0, <4>1, <4>2, <4>3, <4>A
    <3> QED BY <3>1, <3>2
  <2>4. ASSUME NEW j \in Jobs, At(j, "commit")'
        PROVE  \A k \in Step(j)'.keep \cup Step(j)'.ids : Real(k)'
    <3>1. CASE plans'[j] = plans[j]
      <4>1. Step(j)' = Step(j) /\ At(j, "commit")
        BY <2>4, <3>1 DEF At, Step
      <4>2. Step(j).ids \subseteq TaskIds /\ Step(j).keep \subseteq TaskIds
        BY <4>1, StepCases DEF At, Step, TypeInv
      <4> QED BY <2>1, <4>1, <4>2 DEF RealInv
    <3>2. CASE plans'[j] # plans[j]
      <4>1. PICK keep \in SUBSET OpenTasks : Commits(j, keep, Head(plans'[j]))
        BY <1>2, <2>4, <3>2, SyncFrom
      <4>2. Step(j)'.keep = keep /\ Step(j)'.ids = keep \cup (OpenTasks \ keep)
        BY <4>1 DEF Step, Commits, Commit
      <4> QED BY <2>1, <2>2, <4>2
    <3> QED BY <3>1, <3>2
  <2>5. \A k \in TaskIds : (tasks[k] # NoTask => Real(k))'
    BY <2>1
  <2> QED BY <2>3, <2>4, <2>5 DEF RealInv
<1> QED BY <1>1, <1>2

LEMMA OpenIs ==
  ASSUME RealInv
  PROVE  \A k \in TaskIds : k \in OpenTasks <=> Real(k) /\ ~tasks[k].done /\ ~tasks[k].cancelled
<1>1. NoTask.reason \notin Reasons
  BY DEF NoTask, Reasons
<1> QED BY <1>1 DEF OpenTasks, IsOpen, RealInv, Real

\* While no done task is opened again, only a commit opens one.
LEMMA NothingOpens ==
  ASSUME TypeInv, RealInv, RealInv', Next, ~unticked', \A j \in Jobs : ~CommitSync(j)
  PROVE  OpenTasks' \subseteq OpenTasks
<1>0. ~unticked
  BY RowsStay
<1>1. ASSUME tasks' = tasks
      PROVE  OpenTasks' \subseteq OpenTasks
  BY <1>1 DEF OpenTasks, IsOpen
<1>2. ASSUME NEW j \in Requests, Begin(j)
      PROVE  tasks' = tasks
  BY <1>2 DEF Begin, ReceiveCall, LinkCall, AddTouch, LeadAction, ChangeStatus, UpdateTask
<1>3. ASSUME NEW j \in Jobs, Work(j)
      PROVE  OpenTasks' \subseteq OpenTasks
  <2>T. \A k \in TaskIds : tasks[k] \in [reason : Reasons \cup {"none"}, due : {0} \cup Dues,
                                          done : BOOLEAN, cancelled : BOOLEAN]
    BY DEF TypeInv, TypeOK
  <2>1. CASE MarkTasks(j)
    <3>1. At(j, "mark") /\ \A k \in TaskIds : tasks'[k] = IF k \in Step(j).ids
                                 THEN [tasks[k] EXCEPT !.done = Step(j).done] ELSE tasks[k]
      BY <2>1 DEF MarkTasks
    <3>2. Step(j).done = TRUE
      <4>1. Step(j).done # FALSE
        BY <1>0, <3>1 DEF RealInv
      <4>2. Step(j).done \in BOOLEAN
        BY <3>1, StepCases DEF At, Step, TypeInv
      <4> QED BY <4>1, <4>2
    <3>3. ASSUME NEW k \in TaskIds, k \in OpenTasks'
          PROVE  k \in OpenTasks
      <4>1. CASE k \in Step(j).ids
        <5>1. tasks'[k] = [tasks[k] EXCEPT !.done = TRUE]
          BY <3>1, <3>2, <4>1
        <5>2. tasks'[k].done = TRUE
          BY <5>1, <2>T
        <5>3. ~tasks'[k].done
          BY <3>3 DEF OpenTasks, IsOpen
        <5> QED BY <5>2, <5>3
      <4>2. CASE k \notin Step(j).ids
        BY <3>1, <3>3, <4>2 DEF OpenTasks, IsOpen
      <4> QED BY <4>1, <4>2
    <3> QED BY <3>3 DEF OpenTasks
  <2>2. CASE MoveTask(j)
    <3>1. At(j, "due") /\ \A k \in TaskIds : tasks'[k] = IF k \in Step(j).ids
                                 THEN [tasks[k] EXCEPT !.due = Step(j).due] ELSE tasks[k]
      BY <2>2 DEF MoveTask
    <3>2. \A k \in TaskIds : k \in Step(j).ids => Real(k)
      BY <3>1 DEF RealInv
    <3>3. ASSUME NEW k \in TaskIds, k \in OpenTasks'
          PROVE  k \in OpenTasks
      <4>1. CASE k \in Step(j).ids
        <5>1. tasks'[k] = [tasks[k] EXCEPT !.due = Step(j).due]
          BY <3>1, <4>1
        <5>2. (tasks'[k].done <=> tasks[k].done) /\ (tasks'[k].cancelled <=> tasks[k].cancelled)
          BY <5>1, <2>T
        <5>3. ~tasks'[k].done /\ ~tasks'[k].cancelled
          BY <3>3 DEF OpenTasks, IsOpen
        <5> QED BY <3>2, <4>1, <5>2, <5>3, OpenIs
      <4>2. CASE k \notin Step(j).ids
        BY <3>1, <3>3, <4>2 DEF OpenTasks, IsOpen
      <4> QED BY <4>1, <4>2
    <3> QED BY <3>3 DEF OpenTasks
  <2>3. CASE ~MarkTasks(j) /\ ~MoveTask(j)
    <3>1. tasks' = tasks
      BY <1>3, <2>3 DEF Work, LogCall, ReadForCall, ApplyToLead, WriteLead, FindTasks, ClearLater,
                        BeginSync, SyncReadsTasks
    <3> QED BY <3>1, <1>1
  <2> QED BY <2>1, <2>2, <2>3
<1>4. TimePasses \/ Crash => tasks' = tasks
  BY DEF TimePasses, Crash
<1> QED BY <1>1, <1>2, <1>3, <1>4 DEF Next

\* A commit leaves open the task it keeps, or else the one it makes.
LEMMA CommitLeaves ==
  ASSUME TypeInv, NEW j \in Jobs, CommitSync(j), OpenTasks \subseteq Step(j).ids,
         \A i, k \in Step(j).keep : i = k
  PROVE  \A i, k \in OpenTasks' : i = k
<1> DEFINE w == CHOOSE v \in Step(j).want : TRUE
<1>1. PICK new \in FreeRows : CommitWrites(j, new, w)
  BY CommitIs
<1> HIDE DEF w
<1>2. ASSUME NEW k \in OpenTasks'
      PROVE  k \in Step(j).keep \/ (k = new /\ Step(j).keep = {})
  <2>1. k \in TaskIds /\ ~tasks'[k].cancelled
    BY <1>2 DEF OpenTasks, IsOpen
  <2>2. tasks[k] \in [reason : Reasons \cup {"none"}, due : {0} \cup Dues,
                      done : BOOLEAN, cancelled : BOOLEAN]
    BY <2>1 DEF TypeInv, TypeOK
  <2>3. tasks'[k] # [tasks[k] EXCEPT !.cancelled = TRUE]
    BY <2>1, <2>2
  <2>4. CASE tasks'[k] = tasks[k] /\ k \notin Step(j).ids \ Step(j).keep
    BY <1>2, <2>4 DEF OpenTasks, IsOpen
  <2> QED BY <1>1, <2>1, <2>3, <2>4 DEF CommitWrites
<1> QED BY <1>2

LEMMA StepOpen ==
  TypeInv /\ TaskInv /\ RealInv' /\ [Next]_vars => OpenInv'
<1> SUFFICES ASSUME TypeInv, TaskInv, RealInv', [Next]_vars, ~unticked'
             PROVE  /\ \A j \in Jobs : At(j, "commit")' => OpenTasks' \subseteq Step(j)'.ids
                    /\ \A i, k \in OpenTasks' : i = k
  BY DEF OpenInv
<1> USE DEF TaskInv
<1>1. CASE UNCHANGED vars
  <2>1. plans' = plans /\ tasks' = tasks /\ unticked' = unticked
    BY <1>1 DEF vars
  <2>2. OpenTasks' = OpenTasks
    BY <2>1 DEF OpenTasks, IsOpen
  <2> QED BY <2>1, <2>2 DEF OpenInv, At, Step
<1>2. CASE Next
  <2>1. ~unticked
    BY <1>2, RowsStay
  <2>2. /\ \A j \in Jobs : At(j, "commit") => OpenTasks \subseteq Step(j).ids
        /\ \A i, k \in OpenTasks : i = k
    BY <2>1 DEF OpenInv
  <2>3. ASSUME NEW j \in Jobs, CommitSync(j)
        PROVE  /\ \A k \in Jobs : ~At(k, "commit")'
               /\ \A i, k \in OpenTasks' : i = k
    <3>1. At(j, "commit") /\ lock = j
      BY <2>3 DEF CommitSync, LockInv, InSync
    <3>2. \A i, k \in OpenTasks' : i = k
      BY <2>2, <2>3, <3>1, CommitLeaves DEF SyncInv
    <3>3. ASSUME NEW k \in Jobs
          PROVE  ~At(k, "commit")'
      <4>1. CASE k = j
        BY <2>3, <4>1, WorkMoves DEF Mild, Later, At, Step
      <4>2. CASE k # j
        <5>1. ~At(k, "commit")
          BY <3>1, <4>2 DEF LockInv, InSync
        <5>2. plans'[k] = plans[k]
          BY <2>3, <4>2, WorkMoves DEF Moved
        <5> QED BY <5>1, <5>2 DEF At, Step
      <4> QED BY <4>1, <4>2
    <3> QED BY <3>2, <3>3
  <2>4. ASSUME \A j \in Jobs : ~CommitSync(j)
        PROVE  /\ \A j \in Jobs : At(j, "commit")' => OpenTasks' \subseteq Step(j)'.ids
               /\ \A i, k \in OpenTasks' : i = k
    <3>1. OpenTasks' \subseteq OpenTasks
      BY <1>2, <2>4, NothingOpens
    <3>2. ASSUME NEW j \in Jobs, At(j, "commit")'
          PROVE  OpenTasks' \subseteq Step(j)'.ids
      <4>1. CASE plans'[j] = plans[j]
        <5>1. Step(j)' = Step(j) /\ At(j, "commit")
          BY <3>2, <4>1 DEF At, Step
        <5> QED BY <2>2, <3>1, <5>1
      <4>2. CASE plans'[j] # plans[j]
        <5>1. PICK keep \in SUBSET OpenTasks : Commits(j, keep, Head(plans'[j]))
          BY <1>2, <3>2, <4>2, SyncFrom
        <5>2. Step(j)'.ids = keep \cup (OpenTasks \ keep)
          BY <5>1 DEF Step, Commits, Commit
        <5> QED BY <3>1, <5>2
      <4> QED BY <4>1, <4>2
    <3> QED BY <2>2, <3>1, <3>2
  <2> QED BY <2>3, <2>4
<1> QED BY <1>1, <1>2

LEMMA InitTask == Init => TaskInv
<1> SUFFICES ASSUME Init PROVE TaskInv
  OBVIOUS
<1>1. \A j \in Jobs : plans[j] = Rest(j)
  BY DEF Init
<1>2. \A j \in Jobs, d \in {"mark", "due", "tasks", "commit"} : ~At(j, d)
  BY <1>1, RestIs, MildIs DEF Mild
<1>3. \A k \in TaskIds : tasks[k] = NoTask
  BY DEF Init
<1>4. OpenTasks = {}
  BY <1>3 DEF OpenTasks, IsOpen
<1>5. lock = Nobody /\ Nobody \notin Jobs
  BY DialerAssumption DEF Init, Jobs
<1>6. LockInv /\ SyncInv
  BY <1>2, <1>5 DEF LockInv, SyncInv, InSync
<1>7. RealInv
  BY <1>2, <1>3 DEF RealInv
<1>8. OpenInv
  BY <1>2, <1>4 DEF OpenInv
<1> QED BY <1>6, <1>7, <1>8 DEF TaskInv

LEMMA TaskInvariant == Spec => []TaskInv
<1>1. Init => TaskInv
  BY InitTask
<1>2. TypeInv /\ TaskInv /\ [Next]_vars => TaskInv'
  <2>1. TypeInv /\ TaskInv /\ [Next]_vars => LockInv' /\ SyncInv' /\ RealInv'
    BY StepLock, StepSync, StepReal DEF TaskInv
  <2>2. TypeInv /\ TaskInv /\ [Next]_vars => OpenInv'
    BY <2>1, StepOpen
  <2> QED BY <2>1, <2>2 DEF TaskInv
<1> QED BY <1>1, <1>2, TypeInvariant, PTL DEF Spec

\* "at most one open per lead and reason": syncs that overlap with each other and with
\* everything a request does never leave two open tasks, until a rep opens a done one again.
THEOREM AlwaysOneOpenTask == Spec => []OneOpenTask
<1>1. TaskInv => OneOpenTask
  BY DEF TaskInv, OpenInv, OneOpenTask
<1> QED BY <1>1, TaskInvariant, PTL

=============================================================================
