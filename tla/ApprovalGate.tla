---------------------------- MODULE ApprovalGate ----------------------------
(***************************************************************************)
(* What readers of the trips and approval_requests tables may ever see of  *)
(* the human approval gate, one step per commit: a question appears with   *)
(* the trip it stops, stays, and is answered together with what the answer *)
(* means for its trip.  There are no transactions, no locks and no values  *)
(* read earlier here: TripLifecycle has them, and keeps to this.           *)
(*                                                                         *)
(* One answer may replace another: the gate promises that every answer has *)
(* its effect, not that there is only one.                                 *)
(***************************************************************************)

CONSTANTS
  Trips,
  Questions,
  None                \* what a question that is not asked is about

VARIABLES
  status,             \* of each trip
  answer,             \* of each question
  about,              \* the trip of each question
  resumed,            \* the questions for which a planner has been started again
  overdue             \* the questions whose time has passed

vars == <<status, answer, about, resumed, overdue>>

Init ==
  /\ status = [t \in Trips |-> "absent"]
  /\ answer = [a \in Questions |-> "absent"]
  /\ about = [a \in Questions |-> None]
  /\ resumed = {}
  /\ overdue = {}

Asked(a) == answer[a] # "absent"

\* A trip is created.
Create(t) ==
  /\ status[t] = "absent"
  /\ status' = [status EXCEPT ![t] = "pending"]
  /\ UNCHANGED <<answer, about, resumed, overdue>>

\* Planners, plans asked for anew and cancellations touch no question.
Change(t) ==
  /\ status[t] # "absent"
  /\ \E v \in {"pending", "planning", "awaiting_approval", "completed",
               "failed", "cancelled"} : status' = [status EXCEPT ![t] = v]
  /\ UNCHANGED <<answer, about, resumed, overdue>>

\* A planner stops at the gate: the trip waits from the same commit.
Ask(a, t) ==
  /\ ~Asked(a)
  /\ status[t] # "absent"
  /\ answer' = [answer EXCEPT ![a] = "pending"]
  /\ about' = [about EXCEPT ![a] = t]
  /\ status' = [status EXCEPT ![t] = "awaiting_approval"]
  /\ UNCHANGED <<resumed, overdue>>

\* The planner that goes on is started before its approval can be seen.
Resume(a) ==
  /\ Asked(a)
  /\ resumed' = resumed \union {a}
  /\ UNCHANGED <<status, answer, about, overdue>>

\* A trip that showed "planning" when the approval was read is left alone.
Approve(a) ==
  /\ Asked(a)
  /\ a \in resumed
  /\ answer' = [answer EXCEPT ![a] = "approved"]
  /\ status' \in {status, [status EXCEPT ![about[a]] = "planning"]}
  /\ UNCHANGED <<about, resumed, overdue>>

Reject(a) ==
  /\ Asked(a)
  /\ answer' = [answer EXCEPT ![a] = "rejected"]
  /\ status' = [status EXCEPT ![about[a]] = "cancelled"]
  /\ UNCHANGED <<about, resumed, overdue>>

TimePasses(a) ==
  /\ Asked(a)
  /\ overdue' = overdue \union {a}
  /\ UNCHANGED <<status, answer, about, resumed>>

\* One sweep: the questions of S expire, and their trips and no others are
\* cancelled.
Expire(S) ==
  /\ S \subseteq overdue
  /\ answer' = [a \in Questions |-> IF a \in S THEN "expired" ELSE answer[a]]
  /\ status' = [t \in Trips |-> IF \E a \in S : about[a] = t THEN "cancelled"
                                ELSE status[t]]
  /\ UNCHANGED <<about, resumed, overdue>>

Next ==
  \/ \E t \in Trips : Create(t) \/ Change(t)
  \/ \E a \in Questions, t \in Trips : Ask(a, t)
  \/ \E a \in Questions : Resume(a) \/ Approve(a) \/ Reject(a) \/ TimePasses(a)
  \/ \E S \in SUBSET Questions : Expire(S)

Spec == Init /\ [][Next]_vars
=============================================================================
