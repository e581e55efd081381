---------------------------- MODULE TripLifecycle ----------------------------
(***************************************************************************)
(* A trip from its creation to its itinerary: the API's handlers (create,  *)
(* plan, cancel, approve, reject), the background planner they start, the  *)
(* human approval gate, and the Celery sweep that expires approvals.  They *)
(* are processes that meet only in the trips and approval_requests rows.   *)
(*                                                                         *)
(* A step is what a process does between two awaits.  A value read in one  *)
(* step and used in a later one is kept in "loaded": the ORM writes        *)
(* trip.status only when it differs from what was loaded, while a Core     *)
(* update(Trip) writes it whatever it was.                                 *)
(*                                                                         *)
(* Each planner run asks at most one question, so an approval_requests row *)
(* is named after the run that inserts it.                                 *)
(***************************************************************************)
EXTENDS RowStore, Naturals, FiniteSets

CONSTANTS
  Trips,            \* trips of one user
  Runs,             \* executions of run_planning_background, each used once
  Requests,         \* concurrent API requests, reused
  Sweep,            \* the Celery worker that runs expire_pending_approvals
  Faults,           \* what may go wrong: see FaultKinds
  PlanFrom,         \* the trip statuses in which the client asks for a plan
  PlansPerTrip      \* bound: plan requests that start a run, per trip

TripStatus == {"pending", "planning", "awaiting_approval", "completed",
               "failed", "cancelled"}
Settled == {"completed", "failed", "cancelled"}
ApprovalStatus == {"pending", "approved", "rejected", "expired"}

\* graph: ainvoke raises; db: a statement of a run, the construction of its router
\* or graph, or the commit of an approval raises, and the recovery that follows
\* works; outage: the recovery raises too; restart: the API process dies.
FaultKinds == {"graph", "db", "outage", "restart"}

Rows == Trips \union Runs
Procs == Requests \union Runs \union {Sweep}

ASSUME DistinctNames ==
  /\ Trips \intersect Runs = {}
  /\ Requests \intersect Runs = {}
  /\ Sweep \notin Requests \union Runs
  /\ None \notin Rows \union Procs
  /\ None \notin TripStatus

ASSUME FaultsAssumption == Faults \subseteq FaultKinds
ASSUME PlanFromAssumption == PlanFrom \subseteq TripStatus

VARIABLES
  req,              \* what each API request is doing
  run,              \* what each planner run is doing
  sweep,            \* what the expiry task is doing
  overdue           \* the approvals whose expires_at has passed

vars == <<db, latest, lock, req, run, sweep, overdue>>

\* A request about trip t and approval a, to be served by run r; a run of trip
\* t that approval a resumes.
ReqAt(pc, t, a, r) ==
  [pc |-> pc, trip |-> t, appr |-> a, run |-> r, loaded |-> None]
RunAt(pc, t, a) == [pc |-> pc, trip |-> t, appr |-> a, loaded |-> None]

IdleReq == ReqAt("idle", None, None, None)
Unborn == RunAt("unborn", None, None)
IdleSweep == [pc |-> "idle", cur |-> None, todo |-> {}]

ReqPc == {"idle", "plan_reset", "plan_wait", "cancel", "approve_mark",
          "approve_resume", "approve_commit", "reject_mark", "reject_cancel"}
Working == {"start", "mark", "graph", "fail", "ask_mark", "ask_create", "save",
            "recover", "recover_mark"}
\* How a run ends: itinerary saved, question asked, failure recorded, nothing
\* recorded, killed with its process.
Ended == {"saved", "asked", "failed", "lost", "dead"}
RunPc == {"unborn", "reserved"} \union Working \union Ended

RequestState ==
  [pc : ReqPc, trip : Trips \union {None}, appr : Runs \union {None},
   run : Runs \union {None}, loaded : TripStatus \union {None}]
RunState ==
  [pc : RunPc, trip : Trips \union {None}, appr : Runs \union {None},
   loaded : TripStatus \union {None}]

TypeOK ==
  /\ db \in [Rows -> TripStatus \union ApprovalStatus \union {"absent"}]
  /\ latest \in [Rows -> TripStatus \union ApprovalStatus \union {"absent"}]
  /\ \A t \in Trips : {db[t], latest[t]} \subseteq TripStatus \union {"absent"}
  /\ \A a \in Runs : {db[a], latest[a]} \subseteq ApprovalStatus \union {"absent"}
  /\ lock \in [Rows -> Procs \union {None}]
  /\ req \in [Requests -> RequestState]
  /\ run \in [Runs -> RunState]
  /\ sweep \in [pc : {"idle", "mark", "cancel", "commit"},
                cur : Runs \union {None}, todo : SUBSET Runs]
  /\ overdue \subseteq Runs

Init ==
  /\ db = [x \in Rows |-> "absent"]
  /\ latest = db
  /\ lock = [x \in Rows |-> None]
  /\ req = [q \in Requests |-> IdleReq]
  /\ run = [r \in Runs |-> Unborn]
  /\ sweep = IdleSweep
  /\ overdue = {}

-----------------------------------------------------------------------------
\* Helpers of the actions.

ReqStep(q, from, to) == req[q].pc = from /\ req' = [req EXCEPT ![q].pc = to]
ReqEnds(q) == req' = [req EXCEPT ![q] = IdleReq]
RunStep(r, from, to) == run[r].pc = from /\ run' = [run EXCEPT ![r].pc = to]

\* A run slot is set aside by the request that will start it.
Reserve(r, t, a) ==
  /\ run[r].pc = "unborn"
  /\ run' = [run EXCEPT ![r] = RunAt("reserved", t, a)]
GiveBack(r) == run' = [run EXCEPT ![r] = Unborn]
Start(r) == run' = [run EXCEPT ![r].pc = "start"]

PlansOf(t) == {r \in Runs : run[r].trip = t /\ run[r].appr = None}

-----------------------------------------------------------------------------
\* POST /trips, POST /trips/{id}/plan and POST /trips/{id}/cancel

CreateTrip(q, t) ==
  /\ req[q].pc = "idle"
  /\ db[t] = "absent"
  /\ CommitWith(q, t, "pending")
  /\ UNCHANGED <<req, run, sweep, overdue>>

\* The client asks for a plan of t; run r is to do it.
PlanAllowed(t) ==
  /\ db[t] \in PlanFrom
  /\ Cardinality(PlansOf(t)) < PlansPerTrip

\* The trip is not settled: the handler writes nothing, dispatches the run and
\* answers 202.
PlanDispatch(q, t, r) ==
  /\ req[q].pc = "idle"
  /\ PlanAllowed(t)
  /\ db[t] \notin Settled
  /\ run[r].pc = "unborn"
  /\ run' = [run EXCEPT ![r] = RunAt("start", t, None)]
  /\ UNCHANGED <<store, req, sweep, overdue>>

\* The trip is settled: its status has to be reset first.
PlanRead(q, t, r) ==
  /\ req[q].pc = "idle"
  /\ PlanAllowed(t)
  /\ db[t] \in Settled
  /\ Reserve(r, t, None)
  /\ req' = [req EXCEPT ![q] = ReqAt("plan_reset", t, None, r)]
  /\ UNCHANGED <<store, sweep, overdue>>

\* flush() of the reset, then the dispatch.  The transaction stays open.
PlanReset(q) ==
  /\ ReqStep(q, "plan_reset", "plan_wait")
  /\ Write(q, req[q].trip, "pending")
  /\ Start(req[q].run)
  /\ UNCHANGED <<sweep, overdue>>

\* No LLM is configured: 503, and get_db rolls the reset back.
PlanRefused(q) ==
  /\ req[q].pc = "plan_reset"
  /\ Free(q, req[q].trip)
  /\ ReqEnds(q)
  /\ GiveBack(req[q].run)
  /\ UNCHANGED <<store, sweep, overdue>>

\* get_db commits when the request is over, and the request is over when its
\* background task is.
PlanEnds(q) ==
  /\ req[q].pc = "plan_wait"
  /\ run[req[q].run].pc \in Ended
  /\ Commit(q)
  /\ ReqEnds(q)
  /\ UNCHANGED <<run, sweep, overdue>>

CancelRead(q, t) ==
  /\ req[q].pc = "idle"
  /\ db[t] \in {"pending", "planning"}
  /\ req' = [req EXCEPT ![q] = ReqAt("cancel", t, None, None)]
  /\ UNCHANGED <<store, run, sweep, overdue>>

CancelWrite(q) ==
  /\ req[q].pc = "cancel"
  /\ CommitWith(q, req[q].trip, "cancelled")
  /\ ReqEnds(q)
  /\ UNCHANGED <<run, sweep, overdue>>

-----------------------------------------------------------------------------
\* POST /approvals/{id}/approve and /reject

\* What _assert_pending lets through.  An approval past its deadline answers
\* 409, and the rollback undoes the "expired" it was given.
Answerable(a) == db[a] = "pending" /\ a \notin overdue

ApproveRead(q, a, r) ==
  /\ req[q].pc = "idle"
  /\ Answerable(a)
  /\ Reserve(r, run[a].trip, a)
  /\ req' = [req EXCEPT ![q] = ReqAt("approve_mark", run[a].trip, a, r)]
  /\ UNCHANGED <<store, sweep, overdue>>

\* The SELECT of the trip flushes "approved" first (autoflush).
ApproveMark(q) ==
  /\ req[q].pc = "approve_mark"
  /\ Write(q, req[q].appr, "approved")
  /\ req' = [req EXCEPT ![q] = [@ EXCEPT !.pc = "approve_resume",
                                         !.loaded = db[req[q].trip]]]
  /\ UNCHANGED <<run, sweep, overdue>>

\* The resumed run is a task of its own, started before anything is committed.
ApproveResume(q) ==
  /\ ReqStep(q, "approve_resume", "approve_commit")
  /\ IF req[q].loaded = "planning" THEN UNCHANGED store
                                   ELSE Write(q, req[q].trip, "planning")
  /\ Start(req[q].run)
  /\ UNCHANGED <<sweep, overdue>>

ApproveCommit(q) ==
  /\ req[q].pc = "approve_commit"
  /\ Commit(q)
  /\ ReqEnds(q)
  /\ UNCHANGED <<run, sweep, overdue>>

\* The commit raises: the decision is lost, its run goes on.
ApproveCommitFails(q) ==
  /\ "db" \in Faults
  /\ req[q].pc = "approve_commit"
  /\ Rollback({q})
  /\ ReqEnds(q)
  /\ UNCHANGED <<run, sweep, overdue>>

RejectRead(q, a) ==
  /\ req[q].pc = "idle"
  /\ Answerable(a)
  /\ req' = [req EXCEPT ![q] = ReqAt("reject_mark", run[a].trip, a, None)]
  /\ UNCHANGED <<store, run, sweep, overdue>>

RejectMark(q) ==
  /\ ReqStep(q, "reject_mark", "reject_cancel")
  /\ Write(q, req[q].appr, "rejected")
  /\ UNCHANGED <<run, sweep, overdue>>

RejectCancel(q) ==
  /\ req[q].pc = "reject_cancel"
  /\ CommitWith(q, req[q].trip, "cancelled")
  /\ ReqEnds(q)
  /\ UNCHANGED <<run, sweep, overdue>>

-----------------------------------------------------------------------------
\* run_planning_background

Load(r, from, to) ==
  /\ run[r].pc = from
  /\ run' = [run EXCEPT ![r] = [@ EXCEPT !.pc = to,
                                         !.loaded = db[run[r].trip]]]

RunRead(r) ==
  /\ Load(r, "start", "mark")
  /\ UNCHANGED <<store, req, sweep, overdue>>

\* The ORM's UPDATE of trip.status, and the commit after it.  With the status
\* unchanged there may be nothing to send, unless another column has changed: then
\* the UPDATE waits for the row, and leaves the status alone (see PlannerGoesOn).
OrmCommit(r, v) ==
  IF run[r].loaded = v THEN UNCHANGED store ELSE CommitWith(r, run[r].trip, v)

\* The same when another column of the row changes in any case: the UPDATE is
\* sent and waits for the row, with or without the status.
OrmCommitRow(r, v) ==
  /\ Free(r, run[r].trip)
  /\ OrmCommit(r, v)

RunMark(r) ==
  /\ RunStep(r, "mark", "graph")
  /\ OrmCommit(r, "planning")
  /\ UNCHANGED <<req, sweep, overdue>>

\* MUTANT of RunGraph: a resumed run stops at the gate again.
RunGraphAsksAgain(r) ==
  /\ Load(r, "graph", "save") \/ Load(r, "graph", "ask_mark")
  /\ UNCHANGED <<store, req, sweep, overdue>>

\* The pipeline returns.  Only a run nobody has approved may stop at the gate.
\* The trip is read again, in a new session.
RunGraph(r) ==
  /\ \/ Load(r, "graph", "save")
     \/ run[r].appr = None /\ Load(r, "graph", "ask_mark")
  /\ UNCHANGED <<store, req, sweep, overdue>>

RunGraphFails(r) ==
  /\ "graph" \in Faults
  /\ RunStep(r, "graph", "fail")
  /\ UNCHANGED <<store, req, sweep, overdue>>

\* MUTANT of RunFail: the failure is logged, the trip is not told.
RunFailSilently(r) ==
  /\ RunStep(r, "fail", "failed")
  /\ UNCHANGED <<store, req, sweep, overdue>>

\* MUTANT of RunFail: a failed pipeline is run again, however often it fails.
RunFailRetries(r) ==
  /\ RunStep(r, "fail", "start")
  /\ UNCHANGED <<store, req, sweep, overdue>>

\* After the rollback the trip is expired, so its status is always written.
RunFail(r) ==
  /\ RunStep(r, "fail", "failed")
  /\ CommitWith(r, run[r].trip, "failed")
  /\ UNCHANGED <<req, sweep, overdue>>

\* _handle_approval, its first commit: the trip.
AskMark(r) ==
  /\ RunStep(r, "ask_mark", "ask_create")
  /\ OrmCommit(r, "awaiting_approval")
  /\ UNCHANGED <<req, sweep, overdue>>

\* create_approval and the second commit: INSERT the approval, UPDATE the trip.
AskCreate(r) ==
  /\ RunStep(r, "ask_create", "asked")
  /\ Free(r, run[r].trip)
  /\ db' = [db EXCEPT ![r] = "pending", ![run[r].trip] = "awaiting_approval"]
  /\ latest' = [latest EXCEPT ![r] = "pending",
                              ![run[r].trip] = "awaiting_approval"]
  /\ UNCHANGED <<lock, req, sweep, overdue>>

\* _persist_results
RunSave(r) ==
  /\ RunStep(r, "save", "saved")
  /\ OrmCommitRow(r, "completed")
  /\ UNCHANGED <<req, sweep, overdue>>

\* A statement outside the pipeline raises, the commit of a failure among them, or
\* the pipeline cannot be set up: a recovery session is opened.
RunBreaks(r) ==
  /\ "db" \in Faults
  /\ run[r].pc \in Working \ {"recover", "recover_mark"}
  /\ run' = [run EXCEPT ![r].pc = "recover"]
  /\ UNCHANGED <<store, req, sweep, overdue>>

RecoverRead(r) ==
  /\ Load(r, "recover", "recover_mark")
  /\ UNCHANGED <<store, req, sweep, overdue>>

\* MUTANT of RecoverMark: the recovery session is never committed.
RecoverMarkUncommitted(r) ==
  /\ RunStep(r, "recover_mark", "failed")
  /\ UNCHANGED <<store, req, sweep, overdue>>

RecoverMark(r) ==
  /\ RunStep(r, "recover_mark", "failed")
  /\ OrmCommitRow(r, "failed")
  /\ UNCHANGED <<req, sweep, overdue>>

\* "except Exception: pass"
RecoverBreaks(r) ==
  /\ "outage" \in Faults
  /\ run[r].pc \in {"recover", "recover_mark"}
  /\ run' = [run EXCEPT ![r].pc = "lost"]
  /\ UNCHANGED <<store, req, sweep, overdue>>

-----------------------------------------------------------------------------
\* expire_pending_approvals

Deadline(a) ==
  /\ db[a] # "absent"
  /\ a \notin overdue
  /\ overdue' = overdue \union {a}
  /\ UNCHANGED <<store, req, run, sweep>>

\* MUTANT of Stale: only the approvals of trips that still wait are looked for.
StaleAndAwaited ==
  {a \in overdue : db[a] = "pending" /\ db[run[a].trip] = "awaiting_approval"}

Stale == {a \in overdue : db[a] = "pending"}

\* The query's order is unspecified.
SweepSelect ==
  /\ sweep.pc = "idle"
  /\ \E a \in Stale :
       sweep' = [pc |-> "mark", cur |-> a, todo |-> Stale \ {a}]
  /\ UNCHANGED <<store, req, run, overdue>>

\* MUTANT of SweepMark: the trip's status is written to the approval.
SweepMarkCancelled ==
  /\ sweep.pc = "mark"
  /\ Write(Sweep, sweep.cur, "cancelled")
  /\ sweep' = [sweep EXCEPT !.pc = "cancel"]
  /\ UNCHANGED <<req, run, overdue>>

\* MUTANT of SweepMark: each approval is committed before its trip is touched.
SweepMarkCommits ==
  /\ sweep.pc = "mark"
  /\ CommitWith(Sweep, sweep.cur, "expired")
  /\ sweep' = [sweep EXCEPT !.pc = "cancel"]
  /\ UNCHANGED <<req, run, overdue>>

SweepMark ==
  /\ sweep.pc = "mark"
  /\ Write(Sweep, sweep.cur, "expired")
  /\ sweep' = [sweep EXCEPT !.pc = "cancel"]
  /\ UNCHANGED <<req, run, overdue>>

SweepCancel ==
  /\ sweep.pc = "cancel"
  /\ Write(Sweep, run[sweep.cur].trip, "cancelled")
  /\ IF sweep.todo = {}
     THEN sweep' = [sweep EXCEPT !.pc = "commit"]
     ELSE \E a \in sweep.todo :
            sweep' = [pc |-> "mark", cur |-> a, todo |-> sweep.todo \ {a}]
  /\ UNCHANGED <<req, run, overdue>>

\* MUTANT of SweepCommit: the session is kept for the next sweep, uncommitted.
SweepCommitForgotten ==
  /\ sweep.pc = "commit"
  /\ sweep' = IdleSweep
  /\ UNCHANGED <<store, req, run, overdue>>

SweepCommit ==
  /\ sweep.pc = "commit"
  /\ Commit(Sweep)
  /\ sweep' = IdleSweep
  /\ UNCHANGED <<req, run, overdue>>

-----------------------------------------------------------------------------
\* The environment.

\* q holds the approval the sweep wants, and waits for the trip the sweep holds.
InCycle(q) ==
  /\ sweep.pc = "mark"
  /\ lock[sweep.cur] = q
  /\ req[q].pc \in {"approve_resume", "reject_cancel"}
  /\ lock[req[q].trip] = Sweep
  /\ req[q].pc = "approve_resume" => req[q].loaded # "planning"

\* PostgreSQL aborts one of the two: the request answers 500, or the sweep
\* returns its error; both roll back.
RequestAborted(q) ==
  /\ InCycle(q)
  /\ Rollback({q})
  /\ ReqEnds(q)
  /\ IF req[q].run = None THEN UNCHANGED run ELSE GiveBack(req[q].run)
  /\ UNCHANGED <<sweep, overdue>>

SweepAborted(q) ==
  /\ InCycle(q)
  /\ Rollback({Sweep})
  /\ sweep' = IdleSweep
  /\ UNCHANGED <<req, run, overdue>>

\* The API process dies and comes back: its requests and its runs are gone,
\* and the database undoes their transactions.
Restart ==
  /\ "restart" \in Faults
  /\ Rollback(Requests \union Runs)
  /\ req' = [q \in Requests |-> IdleReq]
  /\ run' = [r \in Runs |->
               CASE run[r].pc \in Working -> [run[r] EXCEPT !.pc = "dead"]
                 [] run[r].pc = "reserved" -> Unborn
                 [] OTHER -> run[r]]
  /\ UNCHANGED <<sweep, overdue>>

-----------------------------------------------------------------------------
\* What a request does once the client has sent it.
RequestStep(q) ==
  \/ PlanReset(q) \/ PlanRefused(q) \/ PlanEnds(q)
  \/ CancelWrite(q)
  \/ ApproveMark(q) \/ ApproveResume(q)
  \/ ApproveCommit(q) \/ ApproveCommitFails(q)
  \/ RejectMark(q) \/ RejectCancel(q)

DeadlockBroken(q) == RequestAborted(q) \/ SweepAborted(q)

ClientStep(q) ==
  \/ \E t \in Trips : CreateTrip(q, t) \/ CancelRead(q, t)
  \/ \E t \in Trips, r \in Runs : PlanDispatch(q, t, r) \/ PlanRead(q, t, r)
  \/ \E a \in Runs : RejectRead(q, a)
  \/ \E a \in Runs, r \in Runs : ApproveRead(q, a, r)

PlannerStep(r) ==
  \/ RunRead(r) \/ RunMark(r) \/ RunGraph(r) \/ RunGraphFails(r) \/ RunFail(r)
  \/ AskMark(r) \/ AskCreate(r) \/ RunSave(r)
  \/ RunBreaks(r) \/ RecoverRead(r) \/ RecoverMark(r) \/ RecoverBreaks(r)

SweepStep == SweepSelect \/ SweepMark \/ SweepCancel \/ SweepCommit

Next ==
  \/ \E q \in Requests : ClientStep(q) \/ RequestStep(q) \/ DeadlockBroken(q)
  \/ \E r \in Runs : PlannerStep(r) \/ Deadline(r)
  \/ SweepStep
  \/ Restart

Spec == Init /\ [][Next]_vars

\* A planner that goes on.  Its first commit and that of AskMark set another column
\* with the status (trip.request, trip.result), so nobody promises that they get
\* past a row that is locked, although OrmCommit lets them.
PlannerGoesOn(r) ==
  /\ PlannerStep(r)
  /\ run[r].pc \in {"mark", "ask_mark"} => Free(r, run[r].trip)

\* A sweep that goes on, once a worker has begun it.
SweepGoesOn == sweep.pc # "idle" /\ SweepStep

\* A process whose next statement can run does run it, and PostgreSQL hands a
\* row to its waiters in turn.  The hour of an approval passes.  Nothing is assumed
\* of the clients, nor that a worker ever begins the sweep: as the repository wires
\* it, none does (WiredSpec).
Fairness ==
  /\ \A q \in Requests : SF_vars(RequestStep(q)) /\ WF_vars(DeadlockBroken(q))
  /\ \A r \in Runs : SF_vars(PlannerGoesOn(r)) /\ WF_vars(Deadline(r))
  /\ SF_vars(SweepGoesOn)

FairSpec == Spec /\ Fairness

-----------------------------------------------------------------------------
(* What must hold. *)

RunsOf(t) == {r \in Runs : run[r].trip = t}

\* A run that was killed, or could not record that it failed, before it asked.
GoneUnasked(r) == run[r].pc \in {"dead", "lost"} /\ db[r] = "absent"

\* A trip that shows "awaiting_approval" has a question its user can answer, or
\* a planner between the two commits of _handle_approval, whatever requests,
\* planners and sweep do to the trip meanwhile and whatever fails, unless a
\* planner of the trip was killed or lost.
AwaitingIsAnswerable ==
  \A t \in Trips : db[t] = "awaiting_approval" =>
    \E r \in RunsOf(t) :
      \/ db[r] = "pending"
      \/ run[r].pc \in {"ask_create", "recover", "recover_mark"}
      \/ GoneUnasked(r)

\* A trip that shows "planning" is being planned: no order of approvals, late
\* saves and pipeline failures leaves the status behind when the last run is
\* gone.  (No fault but the pipeline's own.)
PlanningHasRunner ==
  \A t \in Trips : db[t] = "planning" =>
    \E r \in RunsOf(t) : run[r].pc \in Working

\* A completed trip that was planned once leaves no question open: what could
\* still be answered, or expire, would undo it (reject and the sweep cancel the
\* trip whatever its status).
CompletedIsAnswered ==
  \A t \in Trips : db[t] = "completed" /\ Cardinality(PlansOf(t)) = 1 =>
    \A r \in RunsOf(t) : db[r] # "pending"

\* An approval and its trip change together: an approval is seen rejected or
\* expired only from the commit that cancels its trip, and approved only when
\* the pipeline has been resumed for it, in spite of aborted transactions,
\* restarts and decisions that overwrite each other.
DecisionReachesTrip ==
  [][\A a \in Runs : db'[a] # db[a] =>
       /\ db'[a] \in {"rejected", "expired"} =>
            db'[run[a].trip] = "cancelled"
       /\ db'[a] = "approved" =>
            \E r \in Runs : run'[r].appr = a /\ run'[r].pc # "reserved"]_vars

\* What readers of the database see of the approval gate (ApprovalGate): an
\* approval is about the trip of the run that asked, and has been resumed once
\* a run was started for it.
About == [a \in Runs |-> IF db[a] = "absent" THEN None ELSE run[a].trip]
Resumed == {a \in Runs : \E r \in Runs : run[r].appr = a /\ run[r].pc # "reserved"}
Gate == INSTANCE ApprovalGate
  WITH Questions <- Runs, about <- About, resumed <- Resumed,
       status <- [t \in Trips |-> db[t]], answer <- [a \in Runs |-> db[a]]

\* What is committed of trips and approvals is what module ApprovalGate allows:
\* whatever locks are taken in which order, whatever is written over, aborted or
\* lost, questions appear, are answered and expire together with their trips.
KeepsGate == Gate!Spec

\* Every run comes to an end.
RunsEnd == \A r \in Runs : run[r].pc \in Working ~> run[r].pc \in Ended

\* A worker takes the sweep whenever there is something to expire.  It needs
\* other settings than the repository's: a worker that imports cleanup_tasks and
\* consumes the queue "default".
SweepIsServed == WF_vars(SweepSelect)

\* Where a worker is given the sweep, an approval nobody answered in time does not
\* stay pending: no lock, abort or late answer keeps the sweep from it for ever.
OverdueIsSettled ==
  SweepIsServed =>
    \A a \in Runs : (a \in overdue /\ db[a] = "pending") ~> db[a] # "pending"

\* No transaction keeps a row for ever: requests and sweep, which take the
\* trip's row and the approval's in opposite orders, are always untangled.
RowsAreReleased == \A x \in Rows : lock[x] # None ~> lock[x] = None

-----------------------------------------------------------------------------
(* What the repository says and the code does not do. *)

\* approval_service.py:12 "Status transitions are validated at the DB level (no
\* double-approve possible)": one approval resumes the pipeline once.
OneResumePerApproval ==
  \A r, s \in Runs :
    /\ run[r].appr # None /\ run[r].appr = run[s].appr
    /\ {run[r].pc, run[s].pc} \subseteq Working
    => r = s

\* trip_planning.py:125 "Allow re-planning by resetting status": the run that a
\* plan request on a settled trip starts comes to an end.
ReplanEnds ==
  \A q \in Requests : req[q].pc = "plan_wait" ~> req[q].pc # "plan_wait"

\* The worker as the repository wires it: celery_app.py:46 looks for tasks in a
\* module that does not exist, and celery_app.py:41 sends the sweep to a queue that
\* the worker, started without -Q, does not consume.  No sweep is ever begun.
WiredSpec == Init /\ [][Next /\ UNCHANGED sweep]_vars /\ Fairness

\* cleanup_tasks.py:7 "This prevents trips from being stuck in
\* 'awaiting_approval' forever."  Checked of WiredSpec.
AwaitingIsLeft ==
  \A t \in Trips : db[t] = "awaiting_approval" ~> db[t] # "awaiting_approval"

\* The same sentence where a worker is given the sweep, with restarts: a trip whose
\* planner was killed before it asked has no approval the sweep could find.
SweptIsLeft == SweepIsServed => AwaitingIsLeft

\* approvals.py:121 "The trip status is set to 'cancelled' and the pipeline is
\* stopped."
RejectStopsPipeline ==
  \A a \in Runs : db[a] = "rejected" => db[run[a].trip] # "completed"
=============================================================================
