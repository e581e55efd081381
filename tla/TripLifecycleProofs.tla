------------------------ MODULE TripLifecycleProofs ------------------------
(***************************************************************************)
(* What TripLifecycle promises of the trips it plans and of the questions  *)
(* it asks, for any number of trips, runs and requests.                    *)
(*                                                                         *)
(* When nothing but the pipeline itself fails, a trip that shows           *)
(* "planning" is being planned.                                            *)
(*                                                                         *)
(* Whatever fails, a trip that waits for an approval has a question that   *)
(* can be answered: who decides the question also takes the trip's row.    *)
(*                                                                         *)
(* When nothing but the pipeline fails, a trip that was planned once is    *)
(* not completed while its question is open.  Only a run that an approval  *)
(* has resumed can complete it.  Such a run starts before its approval is  *)
(* committed, but it finds the trip's row locked by the request that       *)
(* started it, and the commit that lets it go on decides the approval.     *)
(***************************************************************************)
EXTENDS TripLifecycleInvariant, FiniteSetTheorems

-----------------------------------------------------------------------------
(* When only the pipeline fails: a trip that is being planned has a run. *)

\* A run that will still write its trip's status before it ends.
Effective(r) ==
  \/ run[r].pc \in {"start", "mark", "graph", "fail", "ask_mark", "ask_create"}
  \/ run[r].pc = "save" /\ run[r].loaded # "completed"

Planned ==
  \A t \in Trips : db[t] = "planning" =>
    \E r \in Runs : run[r].trip = t /\ Effective(r)

\* The run of an approval whose "planning" is not committed yet waits for it.
ResumedWaits ==
  \A q \in Requests :
    LET t == req[q].trip
        r == req[q].run
    IN req[q].pc = "approve_commit" /\ lock[t] = q =>
         /\ Effective(r)
         /\ \/ run[r].pc = "start"
            \/ run[r].pc = "mark" /\ run[r].loaded = db[t]
            \/ run[r].pc \notin {"start", "mark"} /\ db[t] = "planning"

\* The faults under which the promises below hold: the pipeline's own.
PipelineFaults == Faults \subseteq {"graph"}

Promises == Planned /\ ResumedWaits

IInv == Base /\ Promises

-----------------------------------------------------------------------------
\* The run that "planning" counts on while its approval is being committed.
LEMMA ResumedRun ==
  ASSUME ReqOK, ResumedWaits, NEW q \in Requests,
         req[q].pc = "approve_commit", lock[req[q].trip] = q
  PROVE  Effective(req[q].run) /\ run[req[q].run].trip = req[q].trip
BY DEF ReqOK, ResumedWaits

\* Steps that start a request: nobody waits less, and nobody works less.
LEMMA ClientKeepsPromises ==
  ASSUME IInv, Base', PipelineFaults, NEW q \in Requests,
         ClientStep(q)
  PROVE  Promises'
<1> USE DistinctNames
    DEF IInv, Base, TypeOK, CleanRows, RunOK, ReqOK, SweepOK, LockOK, Rows,
        Procs, TripStatus, ApprovalStatus, Promises, Planned, ResumedWaits,
        Effective, ReqAt, RunAt, IdleReq, Unborn, IdleSweep, WithRun, Reserving,
        WithApproval, Working, Ended, store, Free, Write, Commit, CommitWith,
        Rollback, PipelineFaults
<1>1. ASSUME NEW t \in Trips, CreateTrip(q, t)
     PROVE  Promises'
  <2>1. Planned'
    BY <1>1, SMTT(40) DEF CreateTrip
  <2>2. ResumedWaits'
    BY <1>1, SMTT(40) DEF CreateTrip
  <2> QED  BY <2>1, <2>2
<1>2. ASSUME NEW t \in Trips, NEW r \in Runs, PlanDispatch(q, t, r)
     PROVE  Promises'
  <2>1. Planned'
    BY <1>2, SMTT(40) DEF PlanDispatch
  <2>2. ResumedWaits'
    BY <1>2, SMTT(40) DEF PlanDispatch
  <2> QED  BY <2>1, <2>2
<1>3. ASSUME NEW t \in Trips, NEW r \in Runs, PlanRead(q, t, r)
     PROVE  Promises'
  <2>1. Planned'
    BY <1>3, SMTT(40) DEF PlanRead, Reserve
  <2>2. ResumedWaits'
    BY <1>3, SMTT(40) DEF PlanRead, Reserve
  <2> QED  BY <2>1, <2>2
<1>4. ASSUME NEW t \in Trips, CancelRead(q, t)
     PROVE  Promises'
  <2>1. Planned'
    BY <1>4, SMTT(40) DEF CancelRead
  <2>2. ResumedWaits'
    BY <1>4, SMTT(40) DEF CancelRead
  <2> QED  BY <2>1, <2>2
<1>5. ASSUME NEW a \in Runs, RejectRead(q, a)
     PROVE  Promises'
  <2>1. Planned'
    BY <1>5, SMTT(40) DEF RejectRead
  <2>2. ResumedWaits'
    BY <1>5, SMTT(40) DEF RejectRead
  <2> QED  BY <2>1, <2>2
<1>6. ASSUME NEW a \in Runs, NEW r \in Runs, ApproveRead(q, a, r)
     PROVE  Promises'
  <2>1. Planned'
    BY <1>6, SMTT(40) DEF ApproveRead, Reserve
  <2>2. ResumedWaits'
    BY <1>6, SMTT(40) DEF ApproveRead, Reserve
  <2> QED  BY <2>1, <2>2
<1> QED  BY <1>1, <1>2, <1>3, <1>4, <1>5, <1>6 DEF ClientStep

\* The commit of an approval makes its trip "planning" with the resumed run still
\* at work (ResumedWaits).
LEMMA RequestKeepsPromises ==
  ASSUME IInv, Base', PipelineFaults, NEW q \in Requests,
         RequestStep(q)
  PROVE  Promises'
<1> USE DistinctNames
    DEF IInv, Base, TypeOK, CleanRows, RunOK, ReqOK, SweepOK, LockOK, Rows,
        Procs, TripStatus, ApprovalStatus, Promises, Planned, ResumedWaits,
        Effective, ReqAt, RunAt, IdleReq, Unborn, IdleSweep, WithRun, Reserving,
        WithApproval, Working, Ended, store, Free, Write, Commit, CommitWith,
        Rollback, PipelineFaults
<1>1. CASE PlanReset(q)
  <2>1. Planned'
    BY <1>1, SMTT(40) DEF PlanReset, ReqStep, Start
  <2>2. ResumedWaits'
    BY <1>1, SMTT(40) DEF PlanReset, ReqStep, Start
  <2> QED  BY <2>1, <2>2
<1>2. CASE PlanRefused(q)
  <2>1. Planned'
    BY <1>2, SMTT(40) DEF PlanRefused, ReqEnds, GiveBack
  <2>2. ResumedWaits'
    BY <1>2, SMTT(40) DEF PlanRefused, ReqEnds, GiveBack
  <2> QED  BY <2>1, <2>2
<1>3. CASE PlanEnds(q)
  <2>1. Planned'
    BY <1>3, SMTT(40) DEF PlanEnds, ReqEnds
  <2>2. ResumedWaits'
    BY <1>3, SMTT(40) DEF PlanEnds, ReqEnds
  <2> QED  BY <2>1, <2>2
<1>4. CASE CancelWrite(q)
  <2>1. Planned'
    BY <1>4, SMTT(40) DEF CancelWrite, ReqEnds
  <2>2. ResumedWaits'
    BY <1>4, SMTT(40) DEF CancelWrite, ReqEnds
  <2> QED  BY <2>1, <2>2
<1>5. CASE ApproveMark(q)
  <2>1. Planned'
    BY <1>5, SMTT(40) DEF ApproveMark
  <2>2. ResumedWaits'
    BY <1>5, SMTT(40) DEF ApproveMark
  <2> QED  BY <2>1, <2>2
<1>6. CASE ApproveResume(q)
  <2>1. Planned'
    BY <1>6, SMTT(40) DEF ApproveResume, ReqStep, Start
  <2>2. ResumedWaits'
    BY <1>6, SMTT(40) DEF ApproveResume, ReqStep, Start
  <2> QED  BY <2>1, <2>2
<1>7. CASE ApproveCommit(q)
  <2>1. Planned'
    <3> SUFFICES ASSUME NEW t \in Trips, db'[t] = "planning"
                 PROVE  \E r \in Runs : run'[r].trip = t /\ Effective(r)'
      BY DEF Planned
    <3>1. CASE lock[t] = q
      <4>0. req[q].pc = "approve_commit"
        BY <1>7 DEF ApproveCommit
      <4>1. req[q].trip = t /\ req[q].run \in Runs
        <5>1. req[q].trip = t
          BY <3>1
        <5>2. req[q].run # None /\ req[q].run \in Runs \union {None}
          BY <4>0 DEF RequestState
        <5> QED  BY <5>1, <5>2
      <4>2. Effective(req[q].run) /\ run[req[q].run].trip = t
        BY <3>1, <4>0, <4>1, ResumedRun
      <4> QED  BY <1>7, <4>1, <4>2 DEF ApproveCommit
    <3>2. CASE lock[t] # q
      <4>1. db[t] = "planning"
        BY <1>7, <3>2 DEF ApproveCommit
      <4>2. PICK r \in Runs : run[r].trip = t /\ Effective(r)
        BY <4>1
      <4> QED  BY <1>7, <4>2 DEF ApproveCommit
    <3> QED  BY <3>1, <3>2
  <2>2. ResumedWaits'
    BY <1>7, SMTT(40) DEF ApproveCommit, ReqEnds
  <2> QED  BY <2>1, <2>2
<1>8. CASE ApproveCommitFails(q)
  <2>1. Planned'
    BY <1>8, SMTT(40) DEF ApproveCommitFails
  <2>2. ResumedWaits'
    BY <1>8, SMTT(40) DEF ApproveCommitFails
  <2> QED  BY <2>1, <2>2
<1>9. CASE RejectMark(q)
  <2>1. Planned'
    BY <1>9, SMTT(40) DEF RejectMark, ReqStep
  <2>2. ResumedWaits'
    BY <1>9, SMTT(40) DEF RejectMark, ReqStep
  <2> QED  BY <2>1, <2>2
<1>10. CASE RejectCancel(q)
  <2>1. Planned'
    BY <1>10, SMTT(40) DEF RejectCancel, ReqEnds
  <2>2. ResumedWaits'
    BY <1>10, SMTT(40) DEF RejectCancel, ReqEnds
  <2> QED  BY <2>1, <2>2
<1> QED  BY <1>1, <1>2, <1>3, <1>4, <1>5, <1>6, <1>7, <1>8, <1>9, <1>10
         DEF RequestStep

\* A run that ends writes its trip's status, unless it had loaded that status
\* already, and then it is not the run that "planning" counts on.
LEMMA PlannerKeepsPromises ==
  ASSUME IInv, Base', PipelineFaults, NEW r \in Runs,
         PlannerStep(r)
  PROVE  Promises'
<1> USE DistinctNames
    DEF IInv, Base, TypeOK, CleanRows, RunOK, ReqOK, SweepOK, LockOK, Rows,
        Procs, TripStatus, ApprovalStatus, Promises, Planned, ResumedWaits,
        Effective, ReqAt, RunAt, IdleReq, Unborn, IdleSweep, WithRun, Reserving,
        WithApproval, Working, Ended, store, Free, Write, Commit, CommitWith,
        Rollback, PipelineFaults
<1>1. CASE RunRead(r)
  <2>1. Planned'
    BY <1>1, SMTT(40) DEF RunRead, Load
  <2>2. ResumedWaits'
    BY <1>1, SMTT(40) DEF RunRead, Load
  <2> QED  BY <2>1, <2>2
<1>2. CASE RunMark(r)
  <2>1. Planned'
    BY <1>2, SMTT(40) DEF RunMark, RunStep, OrmCommit
  <2>2. ResumedWaits'
    BY <1>2, SMTT(40) DEF RunMark, RunStep, OrmCommit
  <2> QED  BY <2>1, <2>2
<1>3. CASE RunGraph(r)
  <2>0. /\ run[r].pc = "graph"
        /\ \E pc \in {"save", "ask_mark"} :
             run' = [run EXCEPT ![r] = [@ EXCEPT !.pc = pc,
                                                 !.loaded = db[run[r].trip]]]
        /\ UNCHANGED <<db, latest, lock, req>>
    BY <1>3 DEF RunGraph, Load
  <2>1. Planned'
    <3>1. run[r].trip \in Trips /\ db[run[r].trip] \in TripStatus \union {"absent"}
      BY <2>0
    <3> QED  BY <2>0, <3>1, SMTT(40)
  <2>2. ResumedWaits'
    <3>1. run[r].trip \in Trips /\ db[run[r].trip] \in TripStatus \union {"absent"}
      BY <2>0
    <3> QED  BY <2>0, <3>1, SMTT(40)
  <2> QED  BY <2>1, <2>2
<1>4. CASE RunGraphFails(r)
  <2>1. Planned'
    BY <1>4, SMTT(40) DEF RunGraphFails, RunStep
  <2>2. ResumedWaits'
    BY <1>4, SMTT(40) DEF RunGraphFails, RunStep
  <2> QED  BY <2>1, <2>2
<1>5. CASE RunFail(r)
  <2>1. Planned'
    BY <1>5, SMTT(40) DEF RunFail, RunStep
  <2>2. ResumedWaits'
    BY <1>5, SMTT(40) DEF RunFail, RunStep
  <2> QED  BY <2>1, <2>2
<1>6. CASE AskMark(r)
  <2>1. Planned'
    BY <1>6, SMTT(40) DEF AskMark, RunStep, OrmCommit
  <2>2. ResumedWaits'
    BY <1>6, SMTT(40) DEF AskMark, RunStep, OrmCommit
  <2> QED  BY <2>1, <2>2
<1>7. CASE AskCreate(r)
  <2>1. Planned'
    BY <1>7, SMTT(40) DEF AskCreate, RunStep
  <2>2. ResumedWaits'
    BY <1>7, SMTT(40) DEF AskCreate, RunStep
  <2> QED  BY <2>1, <2>2
<1>8. CASE RunSave(r)
  <2>1. Planned'
    BY <1>8, SMTT(40) DEF RunSave, RunStep, OrmCommit, OrmCommitRow
  <2>2. ResumedWaits'
    BY <1>8, SMTT(40) DEF RunSave, RunStep, OrmCommit, OrmCommitRow
  <2> QED  BY <2>1, <2>2
<1>9. CASE RunBreaks(r)
  <2>1. Planned'
    BY <1>9, SMTT(40) DEF RunBreaks
  <2>2. ResumedWaits'
    BY <1>9, SMTT(40) DEF RunBreaks
  <2> QED  BY <2>1, <2>2
<1>10. CASE RecoverRead(r)
  <2>1. Planned'
    BY <1>10, SMTT(40) DEF RecoverRead, Load
  <2>2. ResumedWaits'
    BY <1>10, SMTT(40) DEF RecoverRead, Load
  <2> QED  BY <2>1, <2>2
<1>11. CASE RecoverMark(r)
  <2>1. Planned'
    BY <1>11, SMTT(40) DEF RecoverMark, RunStep, OrmCommit, OrmCommitRow
  <2>2. ResumedWaits'
    BY <1>11, SMTT(40) DEF RecoverMark, RunStep, OrmCommit, OrmCommitRow
  <2> QED  BY <2>1, <2>2
<1>12. CASE RecoverBreaks(r)
  <2>1. Planned'
    BY <1>12, SMTT(40) DEF RecoverBreaks
  <2>2. ResumedWaits'
    BY <1>12, SMTT(40) DEF RecoverBreaks
  <2> QED  BY <2>1, <2>2
<1> QED  BY <1>1, <1>2, <1>3, <1>4, <1>5, <1>6, <1>7, <1>8, <1>9, <1>10, <1>11,
            <1>12 DEF PlannerStep

\* The sweep cancels the trip of every approval it expires, in one commit.
LEMMA SweepKeepsPromises ==
  ASSUME IInv, Base', PipelineFaults, SweepStep
  PROVE  Promises'
<1> USE DistinctNames
    DEF IInv, Base, TypeOK, CleanRows, RunOK, ReqOK, SweepOK, LockOK, Rows,
        Procs, TripStatus, ApprovalStatus, Promises, Planned, ResumedWaits,
        Effective, ReqAt, RunAt, IdleReq, Unborn, IdleSweep, WithRun, Reserving,
        WithApproval, Working, Ended, store, Free, Write, Commit, CommitWith,
        Rollback, PipelineFaults
<1>1. CASE SweepSelect
  <2>1. Planned'
    BY <1>1, SMTT(40) DEF SweepSelect
  <2>2. ResumedWaits'
    BY <1>1, SMTT(40) DEF SweepSelect
  <2> QED  BY <2>1, <2>2
<1>2. CASE SweepMark
  <2>1. Planned'
    BY <1>2, SMTT(40) DEF SweepMark
  <2>2. ResumedWaits'
    BY <1>2, SMTT(40) DEF SweepMark
  <2> QED  BY <2>1, <2>2
<1>3. CASE SweepCancel
  <2>1. Planned'
    BY <1>3, SMTT(40) DEF SweepCancel
  <2>2. ResumedWaits'
    BY <1>3, SMTT(40) DEF SweepCancel
  <2> QED  BY <2>1, <2>2
<1>4. CASE SweepCommit
  <2>1. Planned'
    BY <1>4, SMTT(40) DEF SweepCommit
  <2>2. ResumedWaits'
    BY <1>4, SMTT(40) DEF SweepCommit
  <2> QED  BY <2>1, <2>2
<1> QED  BY <1>1, <1>2, <1>3, <1>4 DEF SweepStep

\* An aborted transaction leaves what was promised before it.
LEMMA EnvironmentKeepsPromises ==
  ASSUME IInv, Base', PipelineFaults,
         \/ \E q \in Requests : DeadlockBroken(q)
         \/ \E a \in Runs : Deadline(a)
         \/ Restart
         \/ UNCHANGED vars
  PROVE  Promises'
<1> USE DistinctNames
    DEF IInv, Base, TypeOK, CleanRows, RunOK, ReqOK, SweepOK, LockOK, Rows,
        Procs, TripStatus, ApprovalStatus, Promises, Planned, ResumedWaits,
        Effective, ReqAt, RunAt, IdleReq, Unborn, IdleSweep, WithRun, Reserving,
        WithApproval, Working, Ended, store, Free, Write, Commit, CommitWith,
        Rollback, PipelineFaults
<1>1. ASSUME NEW q \in Requests, RequestAborted(q)
     PROVE  Promises'
  <2>1. Planned'
    BY <1>1, SMTT(40) DEF RequestAborted, InCycle, ReqEnds, GiveBack
  <2>2. ResumedWaits'
    <3>1. /\ req' = [req EXCEPT ![q] = IdleReq]
          /\ db' = db
          /\ \A x \in Rows : lock'[x] = (IF lock[x] = q THEN None ELSE lock[x])
      BY <1>1 DEF RequestAborted, ReqEnds
    <3>2. req[q].run # None => run[req[q].run].pc = "reserved"
      BY <1>1 DEF RequestAborted, InCycle
    <3>3. \A s \in Runs : run[s].pc # "reserved" => run'[s] = run[s]
      BY <1>1, <3>2 DEF RequestAborted, GiveBack
    <3>4. \A p \in Requests : req'[p].pc = "approve_commit" =>
            /\ p # q
            /\ req'[p] = req[p]
            /\ req[p].trip \in Trips
            /\ req[p].run \in Runs
            /\ run[req[p].run].pc # "reserved"
            /\ lock'[req[p].trip] = p => lock[req[p].trip] = p
      <4> SUFFICES ASSUME NEW p \in Requests, req'[p].pc = "approve_commit"
                   PROVE  /\ p # q
                          /\ req'[p] = req[p]
                          /\ req[p].trip \in Trips
                          /\ req[p].run \in Runs
                          /\ run[req[p].run].pc # "reserved"
                          /\ lock'[req[p].trip] = p => lock[req[p].trip] = p
        OBVIOUS
      <4>1. p # q /\ req'[p] = req[p]
        BY <3>1
      <4>2. req[p].trip \in Trips
        BY <4>1
      <4>3. req[p].run # None /\ req[p].run \in Runs \union {None}
        BY <4>1 DEF RequestState
      <4>4. run[req[p].run].pc \in Working \union Ended
        BY <4>1
      <4>5. lock'[req[p].trip] = p => lock[req[p].trip] = p
        <5>1. req[p].trip \in Rows /\ p # None
          BY <4>2
        <5> HIDE DistinctNames
            DEF IInv, Base, TypeOK, CleanRows, RunOK, ReqOK, SweepOK, LockOK, Rows, Promises,
                Planned, ResumedWaits, PipelineFaults
        <5> QED  BY <3>1, <5>1
      <4> QED  BY <4>1, <4>2, <4>3, <4>4, <4>5
    <3> QED  BY <3>1, <3>3, <3>4, SMTT(40)
  <2> QED  BY <2>1, <2>2
<1>2. ASSUME NEW q \in Requests, SweepAborted(q)
     PROVE  Promises'
  <2>1. Planned'
    BY <1>2, SMTT(40) DEF SweepAborted, InCycle
  <2>2. ResumedWaits'
    BY <1>2, SMTT(40) DEF SweepAborted, InCycle
  <2> QED  BY <2>1, <2>2
<1>3. ASSUME NEW a \in Runs, Deadline(a)
     PROVE  Promises'
  <2>1. Planned'
    BY <1>3, SMTT(40) DEF Deadline
  <2>2. ResumedWaits'
    BY <1>3, SMTT(40) DEF Deadline
  <2> QED  BY <2>1, <2>2
<1>4. CASE Restart
  <2>1. Planned'
    BY <1>4, SMTT(40) DEF Restart
  <2>2. ResumedWaits'
    BY <1>4, SMTT(40) DEF Restart
  <2> QED  BY <2>1, <2>2
<1>5. CASE UNCHANGED vars
  <2>1. Planned'
    BY <1>5, SMTT(40) DEF vars
  <2>2. ResumedWaits'
    BY <1>5, SMTT(40) DEF vars
  <2> QED  BY <2>1, <2>2
<1> QED  BY <1>1, <1>2, <1>3, <1>4, <1>5 DEF DeadlockBroken

LEMMA InitPromises == Init => Promises
<1> SUFFICES ASSUME Init PROVE Promises
  OBVIOUS
<1>1. \A t \in Trips : db[t] = "absent"
  BY DEF Init, Rows
<1>2. \A q \in Requests : req[q].pc = "idle"
  BY DEF Init, IdleReq, ReqAt
<1> QED  BY <1>1, <1>2 DEF Promises, Planned, ResumedWaits

LEMMA NextIInv == PipelineFaults /\ IInv /\ [Next]_vars => IInv'
<1> SUFFICES ASSUME PipelineFaults, IInv, [Next]_vars PROVE IInv'
  OBVIOUS
<1>1. Base'
  BY NextBase DEF IInv
<1>2. Promises'
  BY <1>1, ClientKeepsPromises, RequestKeepsPromises, PlannerKeepsPromises,
     SweepKeepsPromises, EnvironmentKeepsPromises DEF Next
<1> QED  BY <1>1, <1>2 DEF IInv

LEMMA InductiveInvariant == PipelineFaults => (Spec => []IInv)
<1> SUFFICES ASSUME PipelineFaults PROVE Spec => []IInv
  OBVIOUS
<1>1. Init => IInv
  BY InitBase, InitPromises DEF IInv
<1>2. IInv /\ [Next]_vars => IInv'
  BY NextIInv
<1> QED  BY <1>1, <1>2, PTL DEF Spec

\* When nothing but the pipeline itself fails, a trip is never left in "planning"
\* without a planner (TripLifecycle!PlanningHasRunner), however many plans,
\* approvals, rejections, cancellations and sweeps overlap.
THEOREM PlanningAlwaysHasRunner == PipelineFaults => (Spec => []PlanningHasRunner)
<1> SUFFICES ASSUME PipelineFaults PROVE Spec => []PlanningHasRunner
  OBVIOUS
<1>1. IInv => PlanningHasRunner
  BY DEF IInv, Promises, Planned, Effective, PlanningHasRunner, RunsOf, Working
<1> QED  BY <1>1, InductiveInvariant, PTL

-----------------------------------------------------------------------------
(* Under every fault: a trip that waits can be answered. *)

\* A question that keeps its trip waiting: any approval of it that is under way
\* has seen the trip wait, so it will take the trip out of that status.
Binding(r) ==
  /\ db[r] = "pending"
  /\ \A q \in Requests : req[q].appr = r =>
       /\ req[q].pc = "approve_resume" => req[q].loaded # "planning"
       /\ req[q].pc = "approve_commit" => lock[run[r].trip] = q

\* A planner between the two commits of _handle_approval, or one that has failed
\* there and will say so: the trip does not yet show what its session has loaded.
Asking(r) ==
  \/ run[r].pc \in {"ask_create", "recover"}
  \/ run[r].pc = "recover_mark" /\ run[r].loaded # "failed"

Answerables ==
  \A t \in Trips : db[t] = "awaiting_approval" =>
    \E r \in Runs :
      run[r].trip = t /\ (Binding(r) \/ Asking(r) \/ GoneUnasked(r))

\* A request that starts answers no question yet.
LEMMA ClientKeepsAwaited ==
  ASSUME Base, Answerables, Base', NEW q \in Requests, ClientStep(q)
  PROVE  Answerables'
<1> USE DistinctNames
    DEF Base, TypeOK, CleanRows, RunOK, ReqOK, SweepOK, LockOK, Rows, Procs,
        TripStatus, ApprovalStatus, Answerables, Binding, Asking, GoneUnasked,
        ReqAt, RunAt, IdleReq, Unborn, IdleSweep, WithRun, Reserving,
        WithApproval, Working, Ended, store, Free, Write, Commit, CommitWith,
        Rollback
<1>1. ASSUME NEW t \in Trips, CreateTrip(q, t)
     PROVE  Answerables'
  BY <1>1, SMTT(40) DEF CreateTrip
<1>2. ASSUME NEW t \in Trips, NEW r \in Runs, PlanDispatch(q, t, r)
     PROVE  Answerables'
  BY <1>2, SMTT(40) DEF PlanDispatch
<1>3. ASSUME NEW t \in Trips, NEW r \in Runs, PlanRead(q, t, r)
     PROVE  Answerables'
  BY <1>3, SMTT(40) DEF PlanRead, Reserve
<1>4. ASSUME NEW t \in Trips, CancelRead(q, t)
     PROVE  Answerables'
  BY <1>4, SMTT(40) DEF CancelRead
<1>5. ASSUME NEW a \in Runs, RejectRead(q, a)
     PROVE  Answerables'
  BY <1>5, SMTT(40) DEF RejectRead
<1>6. ASSUME NEW a \in Runs, NEW r \in Runs, ApproveRead(q, a, r)
     PROVE  Answerables'
  BY <1>6, SMTT(40) DEF ApproveRead, Answerable, Reserve
<1> QED  BY <1>1, <1>2, <1>3, <1>4, <1>5, <1>6 DEF ClientStep

\* The commit of an approval takes its trip out of "awaiting_approval", unless
\* another question keeps it there (Binding).
LEMMA RequestKeepsAwaited ==
  ASSUME Base, Answerables, Base', NEW q \in Requests, RequestStep(q)
  PROVE  Answerables'
<1> USE DistinctNames
    DEF Base, TypeOK, CleanRows, RunOK, ReqOK, SweepOK, LockOK, Rows, Procs,
        TripStatus, ApprovalStatus, Answerables, Binding, Asking, GoneUnasked,
        ReqAt, RunAt, IdleReq, Unborn, IdleSweep, WithRun, Reserving,
        WithApproval, Working, Ended, store, Free, Write, Commit, CommitWith,
        Rollback
<1>1. CASE PlanReset(q)
  BY <1>1, SMTT(40) DEF PlanReset, ReqStep, Start
<1>2. CASE PlanRefused(q)
  BY <1>2, SMTT(40) DEF PlanRefused, ReqEnds, GiveBack
<1>3. CASE PlanEnds(q)
  BY <1>3, SMTT(40) DEF PlanEnds, ReqEnds
<1>4. CASE CancelWrite(q)
  BY <1>4, SMTT(40) DEF CancelWrite, ReqEnds
<1>5. CASE ApproveMark(q)
  BY <1>5, SMTT(40) DEF ApproveMark
<1>6. CASE ApproveResume(q)
  BY <1>6, SMTT(40) DEF ApproveResume, ReqStep, Start
<1>7. CASE ApproveCommit(q)
  BY <1>7, SMTT(40) DEF ApproveCommit, ReqEnds
<1>8. CASE ApproveCommitFails(q)
  BY <1>8, SMTT(40) DEF ApproveCommitFails, ReqEnds
<1>9. CASE RejectMark(q)
  BY <1>9, SMTT(40) DEF RejectMark, ReqStep
<1>10. CASE RejectCancel(q)
  BY <1>10, SMTT(40) DEF RejectCancel, ReqEnds
<1> QED  BY <1>1, <1>2, <1>3, <1>4, <1>5, <1>6, <1>7, <1>8, <1>9,
            <1>10 DEF RequestStep

\* A planner that fails between its two commits either says so or is lost.
LEMMA PlannerKeepsAwaited ==
  ASSUME Base, Answerables, Base', NEW r \in Runs, PlannerStep(r)
  PROVE  Answerables'
<1> USE DistinctNames
    DEF Base, TypeOK, CleanRows, RunOK, ReqOK, SweepOK, LockOK, Rows, Procs,
        TripStatus, ApprovalStatus, Answerables, Binding, Asking, GoneUnasked,
        ReqAt, RunAt, IdleReq, Unborn, IdleSweep, WithRun, Reserving,
        WithApproval, Working, Ended, store, Free, Write, Commit, CommitWith,
        Rollback
<1>1. CASE RunRead(r)
  BY <1>1, SMTT(40) DEF RunRead, Load
<1>2. CASE RunMark(r)
  BY <1>2, SMTT(40) DEF RunMark, RunStep, OrmCommit
<1>3. CASE RunGraph(r)
  BY <1>3, SMTT(40) DEF RunGraph, Load
<1>4. CASE RunGraphFails(r)
  BY <1>4, SMTT(40) DEF RunGraphFails, RunStep
<1>5. CASE RunFail(r)
  BY <1>5, SMTT(40) DEF RunFail, RunStep
<1>6. CASE AskMark(r)
  BY <1>6, SMTT(40) DEF AskMark, RunStep, OrmCommit
<1>7. CASE AskCreate(r)
  BY <1>7, SMTT(40) DEF AskCreate, RunStep
<1>8. CASE RunSave(r)
  BY <1>8, SMTT(40) DEF RunSave, RunStep, OrmCommit, OrmCommitRow
<1>9. CASE RunBreaks(r)
  BY <1>9, SMTT(40) DEF RunBreaks
<1>10. CASE RecoverRead(r)
  BY <1>10, SMTT(40) DEF RecoverRead, Load
<1>11. CASE RecoverMark(r)
  BY <1>11, SMTT(40) DEF RecoverMark, RunStep, OrmCommit, OrmCommitRow
<1>12. CASE RecoverBreaks(r)
  BY <1>12, SMTT(40) DEF RecoverBreaks
<1> QED  BY <1>1, <1>2, <1>3, <1>4, <1>5, <1>6, <1>7, <1>8, <1>9, <1>10, <1>11,
            <1>12 DEF PlannerStep

\* The sweep cancels the trip of every approval it expires, in one commit.
LEMMA SweepKeepsAwaited ==
  ASSUME Base, Answerables, Base', SweepStep
  PROVE  Answerables'
<1> USE DistinctNames
    DEF Base, TypeOK, CleanRows, RunOK, ReqOK, SweepOK, LockOK, Rows, Procs,
        TripStatus, ApprovalStatus, Answerables, Binding, Asking, GoneUnasked,
        ReqAt, RunAt, IdleReq, Unborn, IdleSweep, WithRun, Reserving,
        WithApproval, Working, Ended, store, Free, Write, Commit, CommitWith,
        Rollback
<1>1. CASE SweepSelect
  BY <1>1, SMTT(40) DEF SweepSelect, Stale
<1>2. CASE SweepMark
  BY <1>2, SMTT(40) DEF SweepMark
<1>3. CASE SweepCancel
  BY <1>3, SMTT(40) DEF SweepCancel
<1>4. CASE SweepCommit
  BY <1>4, SMTT(40) DEF SweepCommit
<1> QED  BY <1>1, <1>2, <1>3, <1>4 DEF SweepStep

\* A restart kills the runs that were to ask, and undoes what was half done.
LEMMA EnvironmentKeepsAwaited ==
  ASSUME Base, Answerables, Base',
         \/ \E q \in Requests : DeadlockBroken(q)
         \/ \E a \in Runs : Deadline(a)
         \/ Restart
         \/ UNCHANGED vars
  PROVE  Answerables'
<1> USE DistinctNames
    DEF Base, TypeOK, CleanRows, RunOK, ReqOK, SweepOK, LockOK, Rows, Procs,
        TripStatus, ApprovalStatus, Answerables, Binding, Asking, GoneUnasked,
        ReqAt, RunAt, IdleReq, Unborn, IdleSweep, WithRun, Reserving,
        WithApproval, Working, Ended, store, Free, Write, Commit, CommitWith,
        Rollback
<1>1. ASSUME NEW q \in Requests, RequestAborted(q)
     PROVE  Answerables'
  BY <1>1, SMTT(40) DEF RequestAborted, InCycle, ReqEnds, GiveBack
<1>2. ASSUME NEW q \in Requests, SweepAborted(q)
     PROVE  Answerables'
  BY <1>2, SMTT(40) DEF SweepAborted, InCycle
<1>3. ASSUME NEW a \in Runs, Deadline(a)
     PROVE  Answerables'
  BY <1>3, SMTT(40) DEF Deadline
<1>4. CASE Restart
  BY <1>4, SMTT(40) DEF Restart
<1>5. CASE UNCHANGED vars
  BY <1>5, SMTT(40) DEF vars
<1> QED  BY <1>1, <1>2, <1>3, <1>4, <1>5 DEF DeadlockBroken

LEMMA AwaitedInvariant == Spec => [](Base /\ Answerables)
<1>1. Init => Base /\ Answerables
  <2> SUFFICES ASSUME Init PROVE Answerables
    BY InitBase
  <2>1. \A t \in Trips : db[t] = "absent"
    BY DEF Init, Rows
  <2> QED  BY <2>1 DEF Answerables
<1>2. Base /\ Answerables /\ [Next]_vars => (Base /\ Answerables)'
  <2> SUFFICES ASSUME Base, Answerables, [Next]_vars
               PROVE  Base' /\ Answerables'
    OBVIOUS
  <2>1. Base'
    BY NextBase
  <2>2. Answerables'
    BY <2>1, ClientKeepsAwaited, RequestKeepsAwaited, PlannerKeepsAwaited,
       SweepKeepsAwaited, EnvironmentKeepsAwaited DEF Next
  <2> QED  BY <2>1, <2>2
<1> QED  BY <1>1, <1>2, PTL DEF Spec

\* Whatever fails, a trip is never left in "awaiting_approval" without a question
\* its user can answer or a planner that will ask or report, unless that planner
\* was killed or lost (TripLifecycle!AwaitingIsAnswerable).
THEOREM AwaitingAlwaysAnswerable == Spec => []AwaitingIsAnswerable
<1>1. Base /\ Answerables => AwaitingIsAnswerable
  BY DEF Answerables, Binding, Asking, AwaitingIsAnswerable, RunsOf
<1> QED  BY <1>1, AwaitedInvariant, PTL

-----------------------------------------------------------------------------
(* When only the pipeline fails: a completed trip has been answered. *)

Started(r) == run[r].pc \notin {"unborn", "reserved"}

\* Only a run nobody has approved asks; an approval resumes the trip it asked for.
Askers ==
  \A r \in Runs :
    /\ run[r].pc \in {"ask_mark", "ask_create", "asked"} => run[r].appr = None
    /\ run[r].appr # None =>
         /\ run[r].appr \in Runs
         /\ run[run[r].appr].pc = "asked"
         /\ run[run[r].appr].trip = run[r].trip

\* What a request keeps locked.  While it waits for the run it has started on a
\* trip that was settled, that run cannot write the trip.
Keeps ==
  \A q \in Requests :
    /\ req[q].pc \in {"plan_reset", "plan_wait"} => req[q].appr = None
    /\ req[q].pc = "plan_wait" =>
         lock[req[q].trip] = q /\ run[req[q].run].pc # "asked"
    /\ req[q].pc \in {"approve_resume", "approve_commit"} =>
         lock[req[q].appr] = q

\* The trip of p has no other run that was started from a plan request.
Sole(p) ==
  \A r \in Runs :
    run[r].trip = run[p].trip /\ run[r].appr = None /\ Started(r) => r = p

\* What a trip shows while its one question is open.
Open == {"awaiting_approval", "cancelled"}

\* The one question of its trip is open: nobody has seen the trip in another
\* state, and a run that was resumed for it waits for the request that did so.
Undecided(p) ==
  /\ db[run[p].trip] \in Open
  /\ \A q \in Requests :
       req[q].pc = "approve_resume" /\ req[q].appr = p => req[q].loaded \in Open
  /\ \A r \in Runs : run[r].appr = p /\ Started(r) =>
       /\ \/ run[r].pc = "start"
          \/ run[r].pc = "mark" /\ run[r].loaded \in Open
       /\ \E q \in Requests :
            /\ req[q].pc = "approve_commit"
            /\ lock[p] = q
            /\ lock[run[p].trip] = q

OpenQuestions ==
  \A p \in Runs : db[p] = "pending" /\ Sole(p) => Undecided(p)

AInv == Base /\ Askers /\ Keeps /\ OpenQuestions
-----------------------------------------------------------------------------
\* A request that starts decides nothing.
LEMMA ClientKeepsAnswers ==
  ASSUME AInv, Base', PipelineFaults, NEW q \in Requests, ClientStep(q)
  PROVE  Askers' /\ Keeps' /\ OpenQuestions'
<1> USE DistinctNames
    DEF AInv, Base, TypeOK, CleanRows, RunOK, ReqOK, SweepOK, LockOK, Rows,
        Procs, TripStatus, ApprovalStatus, Askers, Keeps, OpenQuestions, Sole,
        Started, Open, Undecided, ReqAt, RunAt, IdleReq, Unborn, IdleSweep,
        WithRun, Reserving, WithApproval, Working, Ended, store, Free, Write,
        Commit, CommitWith, Rollback, PipelineFaults
<1>1. ASSUME NEW t \in Trips, CreateTrip(q, t)
     PROVE  Askers' /\ Keeps' /\ OpenQuestions'
  <2>1. Askers'
    BY <1>1, SMTT(40) DEF CreateTrip
  <2>2. Keeps'
    BY <1>1, SMTT(40) DEF CreateTrip
  <2>3. OpenQuestions'
    BY <1>1, SMTT(40) DEF CreateTrip
  <2> QED  BY <2>1, <2>2, <2>3
<1>2. ASSUME NEW t \in Trips, NEW r \in Runs, PlanDispatch(q, t, r)
     PROVE  Askers' /\ Keeps' /\ OpenQuestions'
  <2>1. Askers'
    BY <1>2, SMTT(40) DEF PlanDispatch
  <2>2. Keeps'
    BY <1>2, SMTT(40) DEF PlanDispatch
  <2>3. OpenQuestions'
    BY <1>2, SMTT(40) DEF PlanDispatch
  <2> QED  BY <2>1, <2>2, <2>3
<1>3. ASSUME NEW t \in Trips, NEW r \in Runs, PlanRead(q, t, r)
     PROVE  Askers' /\ Keeps' /\ OpenQuestions'
  <2>1. Askers'
    BY <1>3, SMTT(40) DEF PlanRead, Reserve
  <2>2. Keeps'
    BY <1>3, SMTT(40) DEF PlanRead, Reserve
  <2>3. OpenQuestions'
    BY <1>3, SMTT(40) DEF PlanRead, Reserve
  <2> QED  BY <2>1, <2>2, <2>3
<1>4. ASSUME NEW t \in Trips, CancelRead(q, t)
     PROVE  Askers' /\ Keeps' /\ OpenQuestions'
  <2>1. Askers'
    BY <1>4, SMTT(40) DEF CancelRead
  <2>2. Keeps'
    BY <1>4, SMTT(40) DEF CancelRead
  <2>3. OpenQuestions'
    BY <1>4, SMTT(40) DEF CancelRead
  <2> QED  BY <2>1, <2>2, <2>3
<1>5. ASSUME NEW a \in Runs, RejectRead(q, a)
     PROVE  Askers' /\ Keeps' /\ OpenQuestions'
  <2>1. Askers'
    BY <1>5, SMTT(40) DEF RejectRead
  <2>2. Keeps'
    BY <1>5, SMTT(40) DEF RejectRead
  <2>3. OpenQuestions'
    BY <1>5, SMTT(40) DEF RejectRead
  <2> QED  BY <2>1, <2>2, <2>3
<1>6. ASSUME NEW a \in Runs, NEW r \in Runs, ApproveRead(q, a, r)
     PROVE  Askers' /\ Keeps' /\ OpenQuestions'
  <2>1. Askers'
    BY <1>6, SMTT(40) DEF ApproveRead, Answerable, Reserve
  <2>2. Keeps'
    BY <1>6, SMTT(40) DEF ApproveRead, Answerable, Reserve
  <2>3. OpenQuestions'
    BY <1>6, SMTT(40) DEF ApproveRead, Answerable, Reserve
  <2> QED  BY <2>1, <2>2, <2>3
<1> QED  BY <1>1, <1>2, <1>3, <1>4, <1>5, <1>6 DEF ClientStep

\* The commit of an approval takes the trip out of what it shows while its
\* question is open, and answers the question (Keeps).
LEMMA RequestKeepsAnswers ==
  ASSUME AInv, Base', PipelineFaults, NEW q \in Requests, RequestStep(q)
  PROVE  Askers' /\ Keeps' /\ OpenQuestions'
<1> USE DistinctNames
    DEF AInv, Base, TypeOK, CleanRows, RunOK, ReqOK, SweepOK, LockOK, Rows,
        Procs, TripStatus, ApprovalStatus, Askers, Keeps, OpenQuestions, Sole,
        Started, Open, Undecided, ReqAt, RunAt, IdleReq, Unborn, IdleSweep,
        WithRun, Reserving, WithApproval, Working, Ended, store, Free, Write,
        Commit, CommitWith, Rollback, PipelineFaults
<1>1. CASE PlanReset(q)
  <2>1. Askers'
    BY <1>1, SMTT(40) DEF PlanReset, ReqStep, Start
  <2>2. Keeps'
    BY <1>1, SMTT(40) DEF PlanReset, ReqStep, Start
  <2>3. OpenQuestions'
    BY <1>1, SMTT(40) DEF PlanReset, ReqStep, Start
  <2> QED  BY <2>1, <2>2, <2>3
<1>2. CASE PlanRefused(q)
  <2>1. Askers'
    BY <1>2, SMTT(40) DEF PlanRefused, ReqEnds, GiveBack
  <2>2. Keeps'
    BY <1>2, SMTT(40) DEF PlanRefused, ReqEnds, GiveBack
  <2>3. OpenQuestions'
    BY <1>2, SMTT(40) DEF PlanRefused, ReqEnds, GiveBack
  <2> QED  BY <2>1, <2>2, <2>3
<1>3. CASE PlanEnds(q)
  <2>1. Askers'
    BY <1>3, SMTT(40) DEF PlanEnds, ReqEnds
  <2>2. Keeps'
    BY <1>3, SMTT(40) DEF PlanEnds, ReqEnds
  <2>3. OpenQuestions'
    <3> SUFFICES ASSUME NEW p \in Runs, db'[p] = "pending", Sole(p)'
                 PROVE  Undecided(p)'
      OBVIOUS
    <3>1. lock[p] # q
      BY <1>3 DEF PlanEnds
    <3>2. db[p] = "pending" /\ Sole(p) /\ run[p].pc = "asked"
      BY <1>3, <3>1 DEF PlanEnds
    <3>3. lock[run[p].trip] # q
      <4> SUFFICES ASSUME lock[run[p].trip] = q PROVE FALSE
        OBVIOUS
      <4>1. /\ req[q].pc = "plan_wait" /\ req[q].trip = run[p].trip
            /\ req[q].run \in Runs /\ req[q].appr = None
        BY <1>3, <3>2 DEF PlanEnds, RequestState
      <4>2. /\ run[req[q].run].trip = run[p].trip
            /\ run[req[q].run].appr = None
            /\ Started(req[q].run)
            /\ run[req[q].run].pc # "asked"
        BY <4>1
      <4> QED  BY <3>2, <4>1, <4>2
    <3>4. Undecided(p)
      BY <3>2
    <3>5. /\ db'[run[p].trip] = db[run[p].trip] /\ run' = run
          /\ \A x \in Rows : lock[x] # q => lock'[x] = lock[x]
          /\ \A r \in Requests : r # q => req'[r] = req[r]
          /\ req'[q].pc = "idle" /\ req[q].pc = "plan_wait"
          /\ run[p].trip \in Trips
      BY <1>3, <3>2, <3>3 DEF PlanEnds, ReqEnds
    <3> HIDE DEF Base, TypeOK, CleanRows, RunOK, ReqOK, SweepOK, LockOK, Askers,
             Keeps, OpenQuestions, AInv, Sole, Open, Commit, store
    <3> QED  BY <3>1, <3>3, <3>4, <3>5, SMTT(40)
  <2> QED  BY <2>1, <2>2, <2>3
<1>4. CASE CancelWrite(q)
  <2>1. Askers'
    BY <1>4, SMTT(40) DEF CancelWrite, ReqEnds
  <2>2. Keeps'
    BY <1>4, SMTT(40) DEF CancelWrite, ReqEnds
  <2>3. OpenQuestions'
    BY <1>4, SMTT(40) DEF CancelWrite, ReqEnds
  <2> QED  BY <2>1, <2>2, <2>3
<1>5. CASE ApproveMark(q)
  <2>1. Askers'
    BY <1>5, SMTT(40) DEF ApproveMark
  <2>2. Keeps'
    BY <1>5, SMTT(40) DEF ApproveMark
  <2>3. OpenQuestions'
    BY <1>5, SMTT(40) DEF ApproveMark
  <2> QED  BY <2>1, <2>2, <2>3
<1>6. CASE ApproveResume(q)
  <2>1. Askers'
    BY <1>6, SMTT(40) DEF ApproveResume, ReqStep, Start
  <2>2. Keeps'
    BY <1>6, SMTT(40) DEF ApproveResume, ReqStep, Start
  <2>3. OpenQuestions'
    BY <1>6, SMTT(40) DEF ApproveResume, ReqStep, Start
  <2> QED  BY <2>1, <2>2, <2>3
<1>7. CASE ApproveCommit(q)
  <2>1. Askers'
    BY <1>7, SMTT(40) DEF ApproveCommit, ReqEnds
  <2>2. Keeps'
    BY <1>7, SMTT(40) DEF ApproveCommit, ReqEnds
  <2>3. OpenQuestions'
    BY <1>7, SMTT(40) DEF ApproveCommit, ReqEnds
  <2> QED  BY <2>1, <2>2, <2>3
<1>8. CASE ApproveCommitFails(q)
  <2>1. Askers'
    BY <1>8, SMTT(40) DEF ApproveCommitFails, ReqEnds
  <2>2. Keeps'
    BY <1>8, SMTT(40) DEF ApproveCommitFails, ReqEnds
  <2>3. OpenQuestions'
    BY <1>8, SMTT(40) DEF ApproveCommitFails, ReqEnds
  <2> QED  BY <2>1, <2>2, <2>3
<1>9. CASE RejectMark(q)
  <2>1. Askers'
    BY <1>9, SMTT(40) DEF RejectMark, ReqStep
  <2>2. Keeps'
    BY <1>9, SMTT(40) DEF RejectMark, ReqStep
  <2>3. OpenQuestions'
    BY <1>9, SMTT(40) DEF RejectMark, ReqStep
  <2> QED  BY <2>1, <2>2, <2>3
<1>10. CASE RejectCancel(q)
  <2>1. Askers'
    BY <1>10, SMTT(40) DEF RejectCancel, ReqEnds
  <2>2. Keeps'
    BY <1>10, SMTT(40) DEF RejectCancel, ReqEnds
  <2>3. OpenQuestions'
    BY <1>10, SMTT(40) DEF RejectCancel, ReqEnds
  <2> QED  BY <2>1, <2>2, <2>3
<1> QED  BY <1>1, <1>2, <1>3, <1>4, <1>5, <1>6, <1>7, <1>8, <1>9,
            <1>10 DEF RequestStep

\* A run that was resumed for an open question can only start: the row of its
\* trip is locked (Undecided).
LEMMA PlannerKeepsAnswers ==
  ASSUME AInv, Base', PipelineFaults, NEW r \in Runs, PlannerStep(r)
  PROVE  Askers' /\ Keeps' /\ OpenQuestions'
<1> USE DistinctNames
    DEF AInv, Base, TypeOK, CleanRows, RunOK, ReqOK, SweepOK, LockOK, Rows,
        Procs, TripStatus, ApprovalStatus, Askers, Keeps, OpenQuestions, Sole,
        Started, Open, Undecided, ReqAt, RunAt, IdleReq, Unborn, IdleSweep,
        WithRun, Reserving, WithApproval, Working, Ended, store, Free, Write,
        Commit, CommitWith, Rollback, PipelineFaults
<1>1. CASE RunRead(r)
  <2>1. Askers'
    BY <1>1, SMTT(40) DEF RunRead, Load
  <2>2. Keeps'
    BY <1>1, SMTT(40) DEF RunRead, Load
  <2>3. OpenQuestions'
    BY <1>1, SMTT(40) DEF RunRead, Load
  <2> QED  BY <2>1, <2>2, <2>3
<1>2. CASE RunMark(r)
  <2>1. Askers'
    BY <1>2, SMTT(40) DEF RunMark, RunStep, OrmCommit
  <2>2. Keeps'
    BY <1>2, SMTT(40) DEF RunMark, RunStep, OrmCommit
  <2>3. OpenQuestions'
    BY <1>2, SMTT(40) DEF RunMark, RunStep, OrmCommit
  <2> QED  BY <2>1, <2>2, <2>3
<1>3. CASE RunGraph(r)
  <2>1. /\ run[r].pc = "graph" /\ run'[r].pc \in {"save", "ask_mark"}
        /\ run'[r].pc = "ask_mark" => run[r].appr = None
        /\ run'[r].trip = run[r].trip /\ run'[r].appr = run[r].appr
        /\ \A s \in Runs : s # r => run'[s] = run[s]
        /\ UNCHANGED <<db, latest, lock, req>>
    <3>1. \E pc \in {"save", "ask_mark"} :
            /\ run' = [run EXCEPT ![r] = [@ EXCEPT !.pc = pc,
                                                  !.loaded = db[run[r].trip]]]
            /\ pc = "ask_mark" => run[r].appr = None
      BY <1>3 DEF RunGraph, Load
    <3>2. run[r].pc = "graph" /\ UNCHANGED <<db, latest, lock, req>>
      BY <1>3 DEF RunGraph, Load
    <3> QED  BY <3>1, <3>2 DEF RunState
  <2>2. Askers'
    BY <2>1, SMTT(40) DEF RunState
  <2>3. Keeps'
    BY <2>1, SMTT(40) DEF RequestState
  <2>4. OpenQuestions'
    BY <2>1, SMTT(40)
  <2> QED  BY <2>2, <2>3, <2>4
<1>4. CASE RunGraphFails(r)
  <2>1. Askers'
    BY <1>4, SMTT(40) DEF RunGraphFails, RunStep
  <2>2. Keeps'
    BY <1>4, SMTT(40) DEF RunGraphFails, RunStep
  <2>3. OpenQuestions'
    BY <1>4, SMTT(40) DEF RunGraphFails, RunStep
  <2> QED  BY <2>1, <2>2, <2>3
<1>5. CASE RunFail(r)
  <2>1. Askers'
    BY <1>5, SMTT(40) DEF RunFail, RunStep
  <2>2. Keeps'
    BY <1>5, SMTT(40) DEF RunFail, RunStep
  <2>3. OpenQuestions'
    BY <1>5, SMTT(40) DEF RunFail, RunStep
  <2> QED  BY <2>1, <2>2, <2>3
<1>6. CASE AskMark(r)
  <2>1. Askers'
    BY <1>6, SMTT(40) DEF AskMark, RunStep, OrmCommit
  <2>2. Keeps'
    BY <1>6, SMTT(40) DEF AskMark, RunStep, OrmCommit
  <2>3. OpenQuestions'
    BY <1>6, SMTT(40) DEF AskMark, RunStep, OrmCommit
  <2> QED  BY <2>1, <2>2, <2>3
<1>7. CASE AskCreate(r)
  <2>1. Askers'
    BY <1>7, SMTT(40) DEF AskCreate, RunStep
  <2>2. Keeps'
    BY <1>7, SMTT(40) DEF AskCreate, RunStep
  <2>3. OpenQuestions'
    BY <1>7, SMTT(40) DEF AskCreate, RunStep
  <2> QED  BY <2>1, <2>2, <2>3
<1>8. CASE RunSave(r)
  <2>1. Askers'
    BY <1>8, SMTT(40) DEF RunSave, RunStep, OrmCommit, OrmCommitRow
  <2>2. Keeps'
    BY <1>8, SMTT(40) DEF RunSave, RunStep, OrmCommit, OrmCommitRow
  <2>3. OpenQuestions'
    BY <1>8, SMTT(40) DEF RunSave, RunStep, OrmCommit, OrmCommitRow
  <2> QED  BY <2>1, <2>2, <2>3
<1>9. CASE RunBreaks(r)
  <2>1. Askers'
    BY <1>9, SMTT(40) DEF RunBreaks
  <2>2. Keeps'
    BY <1>9, SMTT(40) DEF RunBreaks
  <2>3. OpenQuestions'
    BY <1>9, SMTT(40) DEF RunBreaks
  <2> QED  BY <2>1, <2>2, <2>3
<1>10. CASE RecoverRead(r)
  <2>1. Askers'
    BY <1>10, SMTT(40) DEF RecoverRead, Load
  <2>2. Keeps'
    BY <1>10, SMTT(40) DEF RecoverRead, Load
  <2>3. OpenQuestions'
    BY <1>10, SMTT(40) DEF RecoverRead, Load
  <2> QED  BY <2>1, <2>2, <2>3
<1>11. CASE RecoverMark(r)
  <2>1. Askers'
    BY <1>11, SMTT(40) DEF RecoverMark, RunStep, OrmCommit, OrmCommitRow
  <2>2. Keeps'
    BY <1>11, SMTT(40) DEF RecoverMark, RunStep, OrmCommit, OrmCommitRow
  <2>3. OpenQuestions'
    BY <1>11, SMTT(40) DEF RecoverMark, RunStep, OrmCommit, OrmCommitRow
  <2> QED  BY <2>1, <2>2, <2>3
<1>12. CASE RecoverBreaks(r)
  <2>1. Askers'
    BY <1>12, SMTT(40) DEF RecoverBreaks
  <2>2. Keeps'
    BY <1>12, SMTT(40) DEF RecoverBreaks
  <2>3. OpenQuestions'
    BY <1>12, SMTT(40) DEF RecoverBreaks
  <2> QED  BY <2>1, <2>2, <2>3
<1> QED  BY <1>1, <1>2, <1>3, <1>4, <1>5, <1>6, <1>7, <1>8, <1>9, <1>10, <1>11,
            <1>12 DEF PlannerStep

\* The sweep only ever cancels trips.
LEMMA SweepKeepsAnswers ==
  ASSUME AInv, Base', PipelineFaults, SweepStep
  PROVE  Askers' /\ Keeps' /\ OpenQuestions'
<1> USE DistinctNames
    DEF AInv, Base, TypeOK, CleanRows, RunOK, ReqOK, SweepOK, LockOK, Rows,
        Procs, TripStatus, ApprovalStatus, Askers, Keeps, OpenQuestions, Sole,
        Started, Open, Undecided, ReqAt, RunAt, IdleReq, Unborn, IdleSweep,
        WithRun, Reserving, WithApproval, Working, Ended, store, Free, Write,
        Commit, CommitWith, Rollback, PipelineFaults
<1>1. CASE SweepSelect
  <2>1. Askers'
    BY <1>1, SMTT(40) DEF SweepSelect, Stale
  <2>2. Keeps'
    BY <1>1, SMTT(40) DEF SweepSelect, Stale
  <2>3. OpenQuestions'
    BY <1>1, SMTT(40) DEF SweepSelect, Stale
  <2> QED  BY <2>1, <2>2, <2>3
<1>2. CASE SweepMark
  <2>1. Askers'
    BY <1>2, SMTT(40) DEF SweepMark
  <2>2. Keeps'
    BY <1>2, SMTT(40) DEF SweepMark
  <2>3. OpenQuestions'
    BY <1>2, SMTT(40) DEF SweepMark
  <2> QED  BY <2>1, <2>2, <2>3
<1>3. CASE SweepCancel
  <2>1. Askers'
    BY <1>3, SMTT(40) DEF SweepCancel
  <2>2. Keeps'
    BY <1>3, SMTT(40) DEF SweepCancel
  <2>3. OpenQuestions'
    BY <1>3, SMTT(40) DEF SweepCancel
  <2> QED  BY <2>1, <2>2, <2>3
<1>4. CASE SweepCommit
  <2>1. Askers'
    BY <1>4, SMTT(40) DEF SweepCommit
  <2>2. Keeps'
    BY <1>4, SMTT(40) DEF SweepCommit
  <2>3. OpenQuestions'
    BY <1>4, SMTT(40) DEF SweepCommit
  <2> QED  BY <2>1, <2>2, <2>3
<1> QED  BY <1>1, <1>2, <1>3, <1>4 DEF SweepStep

\* An aborted transaction decides nothing, and frees no row that a resumed run
\* waits for.
LEMMA EnvironmentKeepsAnswers ==
  ASSUME AInv, Base', PipelineFaults,
         \/ \E q \in Requests : DeadlockBroken(q)
         \/ \E a \in Runs : Deadline(a)
         \/ Restart
         \/ UNCHANGED vars
  PROVE  Askers' /\ Keeps' /\ OpenQuestions'
<1> USE DistinctNames
    DEF AInv, Base, TypeOK, CleanRows, RunOK, ReqOK, SweepOK, LockOK, Rows,
        Procs, TripStatus, ApprovalStatus, Askers, Keeps, OpenQuestions, Sole,
        Started, Open, Undecided, ReqAt, RunAt, IdleReq, Unborn, IdleSweep,
        WithRun, Reserving, WithApproval, Working, Ended, store, Free, Write,
        Commit, CommitWith, Rollback, PipelineFaults
<1>1. ASSUME NEW q \in Requests, RequestAborted(q)
     PROVE  Askers' /\ Keeps' /\ OpenQuestions'
  <2>1. Askers'
    BY <1>1, SMTT(40) DEF RequestAborted, InCycle, ReqEnds, GiveBack
  <2>2. Keeps'
    <3>1. /\ req'[q].pc = "idle"
          /\ \A p \in Requests : p # q => req'[p] = req[p]
          /\ \A p \in Requests, x \in Rows : p # q /\ lock[x] = p => lock'[x] = p
      BY <1>1 DEF RequestAborted, InCycle, ReqEnds
    <3>2. \A s \in Runs : run'[s].pc \in {run[s].pc, "unborn"}
      BY <1>1, SMTT(40) DEF RequestAborted, ReqEnds, GiveBack, RunState
    <3> QED  BY <3>1, <3>2, SMTT(40) DEF RequestState
  <2>3. OpenQuestions'
    BY <1>1, SMTT(40) DEF RequestAborted, InCycle, ReqEnds, GiveBack
  <2> QED  BY <2>1, <2>2, <2>3
<1>2. ASSUME NEW q \in Requests, SweepAborted(q)
     PROVE  Askers' /\ Keeps' /\ OpenQuestions'
  <2>1. Askers'
    BY <1>2, SMTT(40) DEF SweepAborted, InCycle
  <2>2. Keeps'
    BY <1>2, SMTT(40) DEF SweepAborted, InCycle
  <2>3. OpenQuestions'
    BY <1>2, SMTT(40) DEF SweepAborted, InCycle
  <2> QED  BY <2>1, <2>2, <2>3
<1>3. ASSUME NEW a \in Runs, Deadline(a)
     PROVE  Askers' /\ Keeps' /\ OpenQuestions'
  <2>1. Askers'
    BY <1>3, SMTT(40) DEF Deadline
  <2>2. Keeps'
    BY <1>3, SMTT(40) DEF Deadline
  <2>3. OpenQuestions'
    BY <1>3, SMTT(40) DEF Deadline
  <2> QED  BY <2>1, <2>2, <2>3
<1>4. ~Restart
  BY DEF Restart
<1>5. CASE UNCHANGED vars
  <2>1. Askers'
    BY <1>5, SMTT(40) DEF vars
  <2>2. Keeps'
    BY <1>5, SMTT(40) DEF vars
  <2>3. OpenQuestions'
    BY <1>5, SMTT(40) DEF vars
  <2> QED  BY <2>1, <2>2, <2>3
<1> QED  BY <1>1, <1>2, <1>3, <1>4, <1>5 DEF DeadlockBroken

LEMMA InitAnswers == Init => Askers /\ Keeps /\ OpenQuestions
<1> SUFFICES ASSUME Init PROVE Askers /\ Keeps /\ OpenQuestions
  OBVIOUS
<1>1. \A r \in Runs : db[r] = "absent" /\ run[r] = Unborn
  BY DEF Init, Rows
<1>2. \A q \in Requests : req[q] = IdleReq
  BY DEF Init
<1> QED  BY <1>1, <1>2
         DEF Askers, Keeps, OpenQuestions, Unborn, RunAt, IdleReq, ReqAt

LEMMA AnswersInvariant == PipelineFaults => (Spec => []AInv)
<1> SUFFICES ASSUME PipelineFaults PROVE Spec => []AInv
  OBVIOUS
<1>1. Init => AInv
  BY InitBase, InitAnswers DEF AInv
<1>2. AInv /\ [Next]_vars => AInv'
  <2> SUFFICES ASSUME AInv, [Next]_vars PROVE AInv'
    OBVIOUS
  <2>1. Base'
    BY NextBase DEF AInv
  <2>2. Askers' /\ Keeps' /\ OpenQuestions'
    BY <2>1, ClientKeepsAnswers, RequestKeepsAnswers, PlannerKeepsAnswers,
       SweepKeepsAnswers, EnvironmentKeepsAnswers DEF Next
  <2> QED  BY <2>1, <2>2 DEF AInv
<1> QED  BY <1>1, <1>2, PTL DEF Spec

\* The one run that was planned for a trip is the only one that could have asked.
LEMMA AskerIsSole ==
  ASSUME Base, Askers, IsFiniteSet(Runs), NEW t \in Trips,
         Cardinality(PlansOf(t)) = 1, NEW p \in RunsOf(t), db[p] = "pending"
  PROVE  Sole(p)
<1>1. PICK x : PlansOf(t) = {x}
  <2>1. IsFiniteSet(PlansOf(t))
    BY FS_Subset DEF PlansOf
  <2> QED  BY <2>1, FS_Singleton
<1>2. p \in Runs /\ run[p].trip = t
  BY DEF RunsOf
<1>3. run[p].pc = "asked" /\ run[p].appr = None
  BY <1>2 DEF Base, RunOK, Askers
<1>4. p \in PlansOf(t)
  BY <1>2, <1>3 DEF PlansOf
<1> QED  BY <1>1, <1>2, <1>4 DEF Sole, PlansOf

\* When nothing but the pipeline itself fails, a completed trip that was planned
\* once has no question open that an answer or the sweep could undo it with
\* (TripLifecycle!CompletedIsAnswered): a resumed run never overtakes the commit
\* of its approval.
THEOREM CompletedAlwaysAnswered ==
  PipelineFaults /\ IsFiniteSet(Runs) => (Spec => []CompletedIsAnswered)
<1> SUFFICES ASSUME PipelineFaults, IsFiniteSet(Runs)
             PROVE  Spec => []CompletedIsAnswered
  OBVIOUS
<1>1. AInv => CompletedIsAnswered
  <2> SUFFICES ASSUME AInv, NEW t \in Trips, db[t] = "completed",
                      Cardinality(PlansOf(t)) = 1, NEW p \in RunsOf(t),
                      db[p] = "pending"
               PROVE  FALSE
    BY DEF CompletedIsAnswered
  <2>1. Sole(p)
    BY AskerIsSole DEF AInv
  <2>2. p \in Runs /\ run[p].trip = t
    BY DEF RunsOf
  <2>3. db[t] \in Open
    BY <2>1, <2>2 DEF AInv, OpenQuestions, Undecided
  <2> QED  BY <2>3 DEF Open
<1> QED  BY <1>1, AnswersInvariant, PTL
=============================================================================
